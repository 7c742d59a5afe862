--------------------------- MODULE DispatchProofs ---------------------------
(***************************************************************************)
(* Proofs that the safety properties of Dispatch hold for every number of  *)
(* clients, every size of the input window and every set of requests.      *)
(*                                                                         *)
(* None of the properties is inductive alone.  Inv joins them with what a  *)
(* slot holds when no live client owns it (Clean), with the relation of    *)
(* the ignore counts to the reasons for them (Counted), and with what the  *)
(* dispatching thread relies on between its steps (Control).               *)
(***************************************************************************)
EXTENDS Dispatch, FiniteSetTheorems, WellFoundedInduction, TLAPS

\* A slot without a live client is on no list, has no connection and nothing
\* buffered, and is not parked.
Clean ==
    \A c \in Clients : ~Live(c) =>
        /\ c \notin ready \cup saved /\ c \notin connected /\ c \notin hungUp
        /\ c \notin grabWaiters /\ ignoreCount[c] = 0 /\ sleepQueue[c] = 0
        /\ input[c] = 0 /\ socket[c] = 0

\* The holder of the grab and its waiters are running clients.
Owners ==
    /\ grabClient # NoClient => clientState[grabClient] = "Running"
    /\ \A c \in grabWaiters : clientState[c] = "Running"

\* Why a client sleeps or waits, as a number.
Reasons(c) == sleepQueue[c] + (IF c \in grabWaiters THEN 1 ELSE 0)

\* The ignore count covers every reason, and is exactly their number while
\* the connection is whole; then an ignored client is on no list.
Counted ==
    \A c \in Clients :
        /\ ignoreCount[c] >= Reasons(c)
        /\ c \notin failed => ignoreCount[c] = Reasons(c)
        /\ c \notin failed /\ ignoreCount[c] > 0 => c \notin ready \cup saved
        /\ <<c, "READ">> \in reported => ignoreCount[c] = 0

\* What the thread relies on: events are being delivered only in
\* WaitForSomething and only for open connections; a client that is being
\* served is on the ready list until its turn ends.
Control ==
    /\ pc \notin {"Deliver", "Accept"} => reported = {}
    /\ \A c \in Clients : \A e \in {"READ", "ERROR"} :
          <<c, e>> \in reported => c \in connected
    /\ pc \in {"Serve", "Execute"} => cur \in ready
    /\ pc = "Check" /\ ~isItTimeToYield => cur \in ready

Inv ==
    /\ TypeOK /\ TableConsistent /\ ListsConsistent /\ Clean /\ Owners
    /\ Counted /\ Control /\ BufferedIsListed /\ NoLostEdge

\* Under a grab only those who may go on are ready, or are about to be.
ReadyMayRun ==
    \A c \in Clients :
        c \notin failed /\ (c \in ready \/ <<c, "READ">> \in reported) =>
            grabClient \in {NoClient, c} \/ c \in impervious

\* The terminate timer runs only while everyone who is connected agrees.
TimerAgreed ==
    exceptionTimer => \A c \in Clients : clientState[c] = "Running" => c \in terminable

-----------------------------------------------------------------------------
(* Lemmas about the helpers *)

LessThan == {ss \in Nat \X Nat : ss[1] < ss[2]}

LEMMA LessThanIsWellFounded == IsWellFoundedOn(LessThan, Nat)
<1>1. OpToRel(<, Nat) = LessThan
  BY DEF OpToRel, LessThan
<1> QED
  BY <1>1, NatLessThanWellFounded

\* A nonempty set of naturals has a least element, and MinOf returns it.
LEMMA MinOfIsLeast ==
    ASSUME NEW S \in SUBSET Nat, S # {}
    PROVE  MinOf(S) \in S /\ \A n \in S : MinOf(S) <= n
<1>1. PICK m \in S : \A n \in S : ~(<<n, m>> \in LessThan)
  BY LessThanIsWellFounded, WFMin
<1>2. ASSUME NEW n \in S PROVE m <= n
  <2>1. m \in Nat /\ n \in Nat
    OBVIOUS
  <2>2. <<n, m>> \in Nat \X Nat /\ <<n, m>>[1] = n /\ <<n, m>>[2] = m
    BY <2>1
  <2>3. ~(n < m)
    BY <1>1, <2>2 DEF LessThan
  <2> QED
    BY <2>1, <2>3
<1> QED
  BY <1>2 DEF MinOf

\* The slots of clients are finitely many.
LEMMA ClientsFinite == IsFiniteSet(Clients) /\ Clients \subseteq Nat
  BY ConstantsAssumption, FS_Interval DEF Clients

\* The number of running clients.
RunningIn(states) == {c \in Clients : states[c] = "Running"}

LEMMA RunningFinite ==
    ASSUME NEW states
    PROVE  IsFiniteSet(RunningIn(states)) /\ Cardinality(RunningIn(states)) \in Nat
<1>1. RunningIn(states) \in SUBSET Clients
  BY DEF RunningIn
<1> QED
  BY <1>1, ClientsFinite, FS_Subset, FS_CardinalityType

\* Changing the state of one client changes the number by one at most.
LEMMA RunningLeaves ==
    ASSUME NEW states, NEW c \in Clients, NEW s, s # "Running",
           DOMAIN states = Clients
    PROVE  Cardinality(RunningIn([states EXCEPT ![c] = s])) =
               IF states[c] = "Running" THEN Cardinality(RunningIn(states)) - 1
                                        ELSE Cardinality(RunningIn(states))
<1>1. RunningIn([states EXCEPT ![c] = s]) = RunningIn(states) \ {c}
  BY DEF RunningIn
<1>2. c \in RunningIn(states) <=> states[c] = "Running"
  BY DEF RunningIn
<1> QED
  BY <1>1, <1>2, RunningFinite, FS_RemoveElement

LEMMA RunningEnters ==
    ASSUME NEW states, NEW c \in Clients, states[c] # "Running",
           DOMAIN states = Clients
    PROVE  Cardinality(RunningIn([states EXCEPT ![c] = "Running"])) =
               Cardinality(RunningIn(states)) + 1
<1>1. RunningIn([states EXCEPT ![c] = "Running"]) = RunningIn(states) \cup {c}
  BY DEF RunningIn
<1>2. c \notin RunningIn(states)
  BY DEF RunningIn
<1> QED
  BY <1>1, <1>2, RunningFinite, FS_AddElement

\* The waiter that UngrabServer picks is one of the waiters.
LEMMA NextGrabWaiterWaits == \A W : NextGrabWaiter(W) \subseteq W
  BY DEF NextGrabWaiter

LEMMA WaitersAreIgnored ==
    Inv => \A d \in grabWaiters : d \in Clients /\ ignoreCount[d] > 0
<1> SUFFICES ASSUME Inv, NEW d \in grabWaiters
             PROVE  d \in Clients /\ ignoreCount[d] > 0
  OBVIOUS
<1>1. d \in Clients /\ ignoreCount[d] \in Nat /\ sleepQueue[d] \in Nat
  BY DEF Inv, TypeOK
<1>2. ignoreCount[d] >= sleepQueue[d] + 1
  BY <1>1 DEF Inv, Counted, Reasons
<1> QED
  BY <1>1, <1>2

-----------------------------------------------------------------------------
(* CloseDownClient, which half of the actions end in *)

ThreadOK ==
    /\ pc \in {"Wait", "Deliver", "Accept", "Serve", "Execute", "Check",
               "Shutdown", "Exit"}
    /\ cur \in Clients
    /\ isItTimeToYield \in BOOLEAN
    /\ result \in {"Success", "Error"}

Modes == {"DestroyAll", "RetainPermanent", "RetainTemporary"}

\* What a close-down leaves of the clients other than c.
LEMMA CloseDownOthers ==
    ASSUME Inv, NEW c \in Clients, clientState[c] # "Null", NEW mode \in Modes,
           CloseDownClient(c, mode)
    PROVE  /\ clientState' \in [Clients -> {"Null", "Initial", "Running", "Retained"}]
           /\ clientState'[c] \in {"Null", "Retained"}
           /\ \A d \in Clients \ {c} : clientState'[d] = clientState[d]
           /\ ignoreCount' \in [Clients -> Nat]
           /\ ignoreCount'[c] = 0 /\ c \notin grabWaiters' /\ sleepQueue'[c] = 0
           /\ \A d \in Clients \ {c} :
                 \/ /\ ignoreCount'[d] = ignoreCount[d]
                    /\ d \in grabWaiters' <=> d \in grabWaiters
                 \/ /\ ignoreCount'[d] = ignoreCount[d] - 1 /\ ignoreCount[d] > 0
                    /\ d \in grabWaiters /\ d \notin grabWaiters'
                    /\ grabClient = c /\ (ignoreCount[d] = 1 => d \in ready')
  <1> USE DEF CloseDownClient
  <1> DEFINE ungrab == ~clientGone(c) /\ grabClient = c
             woken  == IF ungrab THEN NextGrabWaiter(grabWaiters) ELSE {}
  <1>1. woken \subseteq grabWaiters /\ woken \subseteq Clients
    BY NextGrabWaiterWaits DEF Inv, TypeOK
  <1>2. \A d \in woken : ignoreCount[d] > 0
    BY <1>1, WaitersAreIgnored
  <1>3. ignoreCount' = [AttendCounts(woken) EXCEPT ![c] = 0]
    OBVIOUS
  <1>4. \A d \in Clients \ {c} : ignoreCount'[d] =
            IF d \in woken THEN ignoreCount[d] - 1 ELSE ignoreCount[d]
    BY <1>3 DEF AttendCounts
  <1>5. ignoreCount'[c] = 0 /\ ignoreCount' \in [Clients -> Nat]
    BY <1>2, <1>3 DEF AttendCounts, Inv, TypeOK
  <1>6. sleepQueue'[c] = 0
    BY DEF Inv, TypeOK
  <1>7. c \notin grabWaiters'
    <2>1. CASE clientGone(c)
      BY <2>1 DEF clientGone, Inv, Owners, TypeOK
    <2>2. CASE ~clientGone(c)
      BY <2>2
    <2> QED
      BY <2>1, <2>2
  <1>8. \A d \in Clients \ {c} : d \in grabWaiters' <=> d \in grabWaiters \ woken
    BY DEF WaitersAfterUngrab
  <1>9. /\ clientState' \in [Clients -> {"Null", "Initial", "Running", "Retained"}]
        /\ clientState'[c] \in {"Null", "Retained"}
        /\ \A d \in Clients \ {c} : clientState'[d] = clientState[d]
    BY DEF Inv, TypeOK
  <1>10. \A d \in Clients \ {c} : d \in woken =>
            grabClient = c /\ (ignoreCount[d] = 1 => d \in ready')
    BY DEF ReadyAfterUngrab
  <1> QED
    BY <1>1, <1>2, <1>4, <1>5, <1>6, <1>7, <1>8, <1>9, <1>10

LEMMA CloseDownTable ==
    ASSUME Inv, NEW c \in Clients, clientState[c] # "Null", NEW mode \in Modes,
           CloseDownClient(c, mode)
    PROVE  TableConsistent' /\ nClients' \in Nat /\ nextFreeClientID' \in 1 .. LimitClients
  <1>1. PICK s \in {"Null", "Retained"} : clientState' = [clientState EXCEPT ![c] = s]
    BY DEF CloseDownClient
  <1>2. DOMAIN clientState = Clients
    BY DEF Inv, TypeOK
  <1>3. nClients' = Cardinality(RunningIn(clientState'))
    <2>1. nClients = Cardinality(RunningIn(clientState))
      BY DEF Inv, TableConsistent, RunningIn
    <2>2. nClients' = IF clientState[c] = "Running" THEN nClients - 1 ELSE nClients
      BY DEF CloseDownClient
    <2> QED
      BY <1>1, <1>2, <2>1, <2>2, RunningLeaves
  <1>4. nClients' \in Nat
    BY <1>3, RunningFinite
  <1>5. nextFreeClientID \in 1 .. LimitClients /\ c \in 1 .. (LimitClients - 1)
        /\ LimitClients \in Nat
    BY ConstantsAssumption DEF Inv, TypeOK, Clients
  <1>6. nextFreeClientID' \in {nextFreeClientID, c}
    BY DEF CloseDownClient
  <1>7. nextFreeClientID' \in Clients => clientState'[nextFreeClientID'] = "Null"
    <2>1. CASE nextFreeClientID' = nextFreeClientID
      <3>1. nextFreeClientID \in Clients => nextFreeClientID # c
        BY DEF Inv, TableConsistent
      <3> QED
        BY <1>1, <1>2, <2>1, <3>1 DEF Inv, TableConsistent
    <2>2. CASE nextFreeClientID' # nextFreeClientID
      <3>1. nextFreeClientID' = c /\ (clientGone(c) \/ mode = "DestroyAll")
        BY <2>2 DEF CloseDownClient
      <3>2. clientState'[c] = "Null"
        BY <1>2, <3>1 DEF CloseDownClient
      <3> QED
        BY <3>1, <3>2
    <2> QED
      BY <2>1, <2>2
  <1>8. ASSUME NEW d \in Clients, d < nextFreeClientID'
        PROVE  clientState'[d] # "Null"
    <2>1. d < nextFreeClientID /\ d \in Nat
      BY <1>5, <1>8 DEF CloseDownClient, Clients
    <2>2. clientState[d] # "Null"
      BY <2>1 DEF Inv, TableConsistent
    <2>3. CASE d # c
      BY <1>1, <1>2, <2>2, <2>3
    <2>4. CASE d = c
      <3>1. ~(clientGone(c) \/ mode = "DestroyAll")
        BY <1>5, <1>8, <2>1, <2>4 DEF CloseDownClient
      <3> QED
        BY <1>2, <2>4, <3>1 DEF CloseDownClient
    <2> QED
      BY <2>3, <2>4
  <1> QED
    BY <1>3, <1>4, <1>5, <1>6, <1>7, <1>8 DEF TableConsistent, RunningIn

LEMMA CloseDownType ==
    ASSUME Inv, NEW c \in Clients, clientState[c] # "Null", NEW mode \in Modes,
           CloseDownClient(c, mode), ThreadOK'
    PROVE  TypeOK'
  <1>1. nClients' \in Nat /\ nextFreeClientID' \in 1 .. LimitClients
    BY CloseDownTable
  <1>2. ignoreCount' \in [Clients -> Nat]
        /\ clientState' \in [Clients -> {"Null", "Initial", "Running", "Retained"}]
    BY CloseDownOthers
  <1>3. /\ closeDownMode' \in [Clients -> Modes]
        /\ sleepQueue' \in [Clients -> Nat]
        /\ socket' \in [Clients -> Nat] /\ input' \in [Clients -> Nat]
        /\ pending' \in [Clients -> {"none", "EstablishConnection", "GrabServer"}]
    BY DEF CloseDownClient, Inv, TypeOK, Modes
  <1>4. /\ failed' \subseteq Clients /\ terminable' \subseteq Clients
        /\ connected' \subseteq Clients /\ hungUp' \subseteq Clients
        /\ workQueue' \subseteq Clients /\ impervious' \subseteq Clients
        /\ saved' \subseteq Clients
        /\ grabClient' \in Clients \cup {NoClient}
        /\ reported' \subseteq ((Clients \X {"READ", "ERROR"}) \cup {<<NoClient, "READ">>})
    BY DEF CloseDownClient, Inv, TypeOK
  <1>5. grabWaiters' \subseteq Clients
    BY DEF CloseDownClient, WaitersAfterUngrab, Inv, TypeOK
  <1>6. ready' \subseteq Clients
    BY NextGrabWaiterWaits DEF CloseDownClient, ReadyAfterUngrab, Inv, TypeOK
  <1>7. armed' \subseteq Clients
    BY NextGrabWaiterWaits DEF CloseDownClient, ArmedAfterUngrab, Pollable, Inv, TypeOK
  <1>8. /\ dispatchException' \in BOOLEAN /\ exceptionTimer' \in BOOLEAN
        /\ dispatchExceptionAtReset' \in AtReset
    BY DEF CloseDownClient, SetDispatchExceptionTimer, Inv, TypeOK
  <1> QED
    BY <1>1, <1>2, <1>3, <1>4, <1>5, <1>6, <1>7, <1>8 DEF TypeOK, ThreadOK, Modes

LEMMA CloseDownLists ==
    ASSUME Inv, NEW c \in Clients, clientState[c] # "Null", NEW mode \in Modes,
           CloseDownClient(c, mode)
    PROVE  ListsConsistent' /\ Clean' /\ Owners'
  <1>1. /\ \A d \in Clients \ {c} : clientState'[d] = clientState[d]
        /\ clientState'[c] \in {"Null", "Retained"}
    BY CloseDownOthers
  <1>2. c \notin ready' /\ c \notin saved' /\ grabClient' # c
    <2>1. c \notin ready' /\ c \notin saved'
      BY DEF CloseDownClient
    <2>2. c # NoClient
      BY DEF Clients, NoClient
    <2>3. clientGone(c) => grabClient # c
      BY <2>2 DEF clientGone, Inv, Owners
    <2> QED
      BY <2>1, <2>2, <2>3 DEF CloseDownClient
  <1>3. ready' \cap saved' = {} /\ (grabClient' = NoClient => saved' = {})
    <2>1. CASE clientGone(c) \/ grabClient # c
      BY <2>1 DEF CloseDownClient, Inv, ListsConsistent
    <2>2. CASE ~clientGone(c) /\ grabClient = c
      BY <2>2 DEF CloseDownClient
    <2> QED
      BY <2>1, <2>2
  <1>4. ready' \subseteq Clients /\ saved' \subseteq Clients
    BY NextGrabWaiterWaits DEF CloseDownClient, ReadyAfterUngrab, Inv, TypeOK
  <1>5. \A d \in ready' \cup saved' : d \in ready \cup saved \cup grabWaiters
    BY NextGrabWaiterWaits DEF CloseDownClient, ReadyAfterUngrab
  <1>6. \A d \in ready' \cup saved' : Live(d)'
    BY <1>1, <1>2, <1>4, <1>5 DEF Inv, ListsConsistent, Owners, Live
  <1>7. ListsConsistent'
    BY <1>3, <1>4, <1>6 DEF ListsConsistent
  <1>8. Owners'
    <2>1. grabClient' # NoClient => grabClient' = grabClient
      BY DEF CloseDownClient
    <2>2. grabWaiters' \subseteq grabWaiters
      BY DEF CloseDownClient, WaitersAfterUngrab
    <2>3. c \notin grabWaiters'
      BY CloseDownOthers
    <2> QED
      BY <1>1, <1>2, <2>1, <2>2, <2>3 DEF Inv, Owners, TypeOK
  <1>9. ASSUME NEW d \in Clients, ~Live(d)'
        PROVE  /\ d \notin ready' \cup saved' /\ d \notin connected' /\ d \notin hungUp'
               /\ d \notin grabWaiters' /\ ignoreCount'[d] = 0 /\ sleepQueue'[d] = 0
               /\ input'[d] = 0 /\ socket'[d] = 0
    <2>1. CASE d = c
      <3>1. /\ sleepQueue'[c] = 0 /\ input'[c] = 0 /\ socket'[c] = 0
            /\ c \notin connected' /\ c \notin hungUp'
        BY DEF CloseDownClient, Inv, TypeOK
      <3> QED
        BY <1>2, <2>1, <3>1, CloseDownOthers
    <2>2. CASE d # c
      <3>1. ~Live(d)
        BY <1>1, <1>9, <2>2 DEF Live
      <3>2. d \notin grabWaiters /\ d \notin connected /\ d \notin hungUp
            /\ ignoreCount[d] = 0 /\ sleepQueue[d] = 0
            /\ input[d] = 0 /\ socket[d] = 0
        BY <3>1 DEF Inv, Clean
      <3>3. sleepQueue'[d] = 0 /\ input'[d] = 0 /\ socket'[d] = 0
            /\ d \notin connected' /\ d \notin hungUp'
        BY <2>2, <3>2 DEF CloseDownClient, Inv, TypeOK
      <3>4. ignoreCount'[d] = 0 /\ d \notin grabWaiters'
        BY <2>2, <3>2, CloseDownOthers
      <3>5. d \notin ready' \cup saved'
        BY <1>6, <1>9
      <3> QED
        BY <3>3, <3>4, <3>5
    <2> QED
      BY <2>1, <2>2
  <1> QED
    BY <1>7, <1>8, <1>9 DEF Clean

LEMMA CloseDownCounted ==
    ASSUME Inv, NEW c \in Clients, clientState[c] # "Null", NEW mode \in Modes,
           CloseDownClient(c, mode)
    PROVE  Counted'
  <1> SUFFICES ASSUME NEW d \in Clients
               PROVE  /\ ignoreCount'[d] >= Reasons(d)'
                      /\ d \notin failed' => ignoreCount'[d] = Reasons(d)'
                      /\ d \notin failed' /\ ignoreCount'[d] > 0 => d \notin ready' \cup saved'
                      /\ <<d, "READ">> \in reported' => ignoreCount'[d] = 0
    BY DEF Counted
  <1>1. CASE d = c
    <2>1. ignoreCount'[c] = 0 /\ Reasons(c)' = 0
      BY CloseDownOthers DEF Reasons
    <2> QED
      BY <1>1, <2>1
  <1>2. CASE d # c
    <2>1. /\ sleepQueue'[d] = sleepQueue[d] /\ (d \in failed' <=> d \in failed)
          /\ <<d, "READ">> \in reported' => <<d, "READ">> \in reported
          /\ sleepQueue[d] \in Nat /\ ignoreCount[d] \in Nat
      BY <1>2 DEF CloseDownClient, Inv, TypeOK
    <2>2. /\ ignoreCount[d] >= Reasons(d)
          /\ d \notin failed => ignoreCount[d] = Reasons(d)
          /\ d \notin failed /\ ignoreCount[d] > 0 => d \notin ready \cup saved
          /\ <<d, "READ">> \in reported => ignoreCount[d] = 0
      BY DEF Inv, Counted
    <2>3. CASE ignoreCount'[d] = ignoreCount[d] /\ (d \in grabWaiters' <=> d \in grabWaiters)
      <3>1. Reasons(d)' = Reasons(d)
        BY <2>1, <2>3 DEF Reasons
      <3>2. d \notin failed /\ ignoreCount[d] > 0 => d \notin ready' \cup saved'
        <4>1. ready' \cup saved' \subseteq ready \cup saved
                   \cup {w \in NextGrabWaiter(grabWaiters) : ignoreCount[w] = 1}
          BY DEF CloseDownClient, ReadyAfterUngrab
        <4>2. d \in ready' \ (ready \cup saved) => d \notin grabWaiters' /\ d \in grabWaiters
          BY NextGrabWaiterWaits DEF CloseDownClient, ReadyAfterUngrab, WaitersAfterUngrab
        <4>3. saved' \subseteq saved
          BY DEF CloseDownClient
        <4> QED
          BY <2>2, <2>3, <4>2, <4>3
      <3> QED
        BY <2>1, <2>2, <2>3, <3>1, <3>2
    <2>4. CASE /\ ignoreCount'[d] = ignoreCount[d] - 1 /\ ignoreCount[d] > 0
               /\ d \in grabWaiters /\ d \notin grabWaiters'
      <3>1. Reasons(d) = sleepQueue[d] + 1 /\ Reasons(d)' = sleepQueue[d]
        BY <2>1, <2>4 DEF Reasons
      <3>2. d \notin failed /\ ignoreCount'[d] > 0 => d \notin ready' \cup saved'
        <4>1. ignoreCount'[d] > 0 /\ d \in ready' \cup saved' => d \in ready \cup saved
          BY <2>1, <2>4 DEF CloseDownClient, ReadyAfterUngrab
        <4> QED
          BY <2>2, <2>4, <4>1
      <3> QED
        BY <2>1, <2>2, <2>4, <3>1, <3>2
    <2> QED
      BY <1>2, <2>3, <2>4, CloseDownOthers
  <1> QED
    BY <1>1, <1>2

LEMMA CloseDownBuffered ==
    ASSUME Inv, NEW c \in Clients, clientState[c] # "Null", NEW mode \in Modes,
           CloseDownClient(c, mode)
    PROVE  BufferedIsListed'
  <1> SUFFICES ASSUME NEW d \in Clients, Live(d)', input'[d] >= Whole, ignoreCount'[d] = 0
               PROVE  d \in ready' \cup saved'
    BY DEF BufferedIsListed
  <1>1. d # c
    BY CloseDownOthers DEF Live
  <1>2. Live(d) /\ input[d] >= Whole
    BY <1>1, CloseDownOthers DEF CloseDownClient, Live, Inv, TypeOK
  <1>3. CASE ignoreCount[d] = 0
    <2>1. d \in ready \cup saved
      BY <1>2, <1>3 DEF Inv, BufferedIsListed
    <2> QED
      BY <1>1, <2>1 DEF CloseDownClient, ReadyAfterUngrab
  <1>4. CASE ignoreCount[d] # 0
    <2>1. ignoreCount[d] = 1 /\ (ignoreCount[d] = 1 => d \in ready')
      BY <1>1, <1>4, CloseDownOthers DEF Inv, TypeOK
    <2> QED
      BY <2>1
  <1> QED
    BY <1>3, <1>4

LEMMA CloseDownEdges ==
    ASSUME Inv, NEW c \in Clients, clientState[c] # "Null", NEW mode \in Modes,
           CloseDownClient(c, mode)
    PROVE  NoLostEdge'
  <1> SUFFICES ASSUME NEW d \in Pollable(grabClient, ignoreCount, impervious)'
               PROVE  \/ d \in ready' \cup saved' \/ d \in armed'
                      \/ <<d, "READ">> \in reported' \/ <<d, "ERROR">> \in reported'
    BY DEF NoLostEdge
  <1>1. d \in connected /\ d # c /\ d \in Clients
        /\ (d \in hungUp' <=> d \in hungUp) /\ socket'[d] = socket[d]
        /\ (d \in impervious' <=> d \in impervious)
    BY DEF Pollable, CloseDownClient, Inv, TypeOK
  <1>2. CASE clientGone(c) \/ grabClient # c
    <2>1. /\ grabClient' = grabClient /\ armed' = armed \ {c} /\ ready' = ready \ {c}
          /\ saved' = saved \ {c}
      BY <1>2 DEF CloseDownClient
    <2>2. ignoreCount'[d] = ignoreCount[d]
      BY <1>1, <1>2 DEF CloseDownClient, AttendCounts, Inv, TypeOK
    <2>3. d \in Pollable(grabClient, ignoreCount, impervious)
      BY <1>1, <2>1, <2>2 DEF Pollable, ListenTo
    <2>4. \/ d \in ready \cup saved \/ d \in armed
          \/ <<d, "READ">> \in reported \/ <<d, "ERROR">> \in reported
      BY <2>3 DEF Inv, NoLostEdge
    <2>5. reported' = reported \ {<<c, "READ">>, <<c, "ERROR">>}
      BY DEF CloseDownClient
    <2> QED
      BY <1>1, <2>1, <2>4, <2>5
  <1>3. CASE ~clientGone(c) /\ grabClient = c
    <2> DEFINE counts == [AttendCounts(NextGrabWaiter(grabWaiters)) EXCEPT ![c] = 0]
    <2>1. grabClient' = NoClient /\ ignoreCount' = counts
      BY <1>3 DEF CloseDownClient
    <2>2. armed' = Pollable(NoClient, counts, impervious) \ {c}
      BY <1>3 DEF CloseDownClient, ArmedAfterUngrab, Clients, NoClient
    <2>3. d \in Pollable(NoClient, counts, impervious)
      BY <1>1, <2>1 DEF Pollable, ListenTo
    <2> QED
      BY <1>1, <2>2, <2>3
  <1> QED
    BY <1>2, <1>3

\* What a close-down keeps; what the thread relies on is left to the callers.
LEMMA CloseDownKeeps ==
    ASSUME Inv, NEW c \in Clients, clientState[c] # "Null", NEW mode \in Modes,
           CloseDownClient(c, mode), ThreadOK'
    PROVE  /\ TypeOK' /\ TableConsistent' /\ ListsConsistent' /\ Clean' /\ Owners'
           /\ Counted' /\ BufferedIsListed' /\ NoLostEdge'
  BY CloseDownTable, CloseDownType, CloseDownLists, CloseDownCounted,
     CloseDownBuffered, CloseDownEdges

\* The parts of Inv that do not speak of the thread.
Structure == /\ TableConsistent /\ ListsConsistent /\ Clean /\ Owners /\ Counted
             /\ BufferedIsListed /\ NoLostEdge

-----------------------------------------------------------------------------
(* Actions that move only the thread, and those that change one thing the  *)
(* structure does not depend on                                            *)

LEMMA StructureDepends ==
    ASSUME Inv,
           UNCHANGED <<reported, clientState, failed, nClients, nextFreeClientID, listVars,
                       grabVars, sleepQueue, ignoreCount, impervious, connected, hungUp,
                       socket, input, armed>>
    PROVE  Structure'
  <1> USE DEF Inv, listVars, grabVars
  <1>1. TableConsistent' /\ ListsConsistent' /\ Clean' /\ Owners'
    BY DEF TableConsistent, ListsConsistent, Clean, Owners, Live
  <1>2. Counted'
    BY DEF Counted, Reasons
  <1>3. BufferedIsListed'
    BY DEF BufferedIsListed, Live
  <1>4. NoLostEdge'
    BY DEF NoLostEdge, Pollable, ListenTo
  <1> QED
    BY <1>1, <1>2, <1>3, <1>4 DEF Structure

LEMMA ThreadSteps ==
    ASSUME Inv,
           \/ NothingReady \/ SliceExpired \/ LeaveLoop
           \/ \E c \in Clients : Schedule(c)
    PROVE  Inv'
  <1> USE DEF NothingReady, SliceExpired, LeaveLoop, Schedule, tableVars, listVars,
              grabVars, sleepVars, connVars, exitVars
  <1>1. Structure'
    BY StructureDepends
  <1>2. TypeOK'
    BY DEF Inv, TypeOK
  <1>3. Control'
    BY DEF Inv, Control
  <1> QED
    BY <1>1, <1>2, <1>3 DEF Inv, Structure

LEMMA QuietRequests ==
    ASSUME Inv,
           \/ OrdinaryRequest \/ ProcChangeCloseDownMode \/ SetClientDisconnectMode
           \/ DispatchExceptionCallback \/ \E c \in Clients : ClientSignal(c)
    PROVE  Inv'
  <1> USE DEF OrdinaryRequest, ProcChangeCloseDownMode, SetClientDisconnectMode,
              DispatchExceptionCallback, ClientSignal, Request, Executing,
              threadVars, tableVars, listVars, grabVars, sleepVars, connVars, exitVars
  <1>1. Structure'
    BY StructureDepends
  <1>2. TypeOK'
    <2>1. CASE ProcChangeCloseDownMode
      BY <2>1 DEF Inv, TypeOK
    <2>2. CASE SetClientDisconnectMode
      BY <2>2 DEF Inv, TypeOK
    <2>3. CASE OrdinaryRequest
      BY <2>3 DEF Inv, TypeOK
    <2>4. CASE DispatchExceptionCallback \/ \E c \in Clients : ClientSignal(c)
      BY <2>4 DEF Inv, TypeOK
    <2> QED
      BY <2>1, <2>2, <2>3, <2>4
  <1>3. Control'
    BY DEF Inv, Control
  <1> QED
    BY <1>1, <1>2, <1>3 DEF Inv, Structure

-----------------------------------------------------------------------------
(* The peers, and what happens to a client from outside                    *)

LEMMA PeerSteps ==
    ASSUME Inv, NEW c \in Clients, Send(c) \/ HangUp(c)
    PROVE  Inv'
  <1> USE DEF Send, HangUp, threadVars, tableVars, listVars, grabVars, sleepVars, exitVars
  <1>1. TypeOK'
    BY DEF Inv, TypeOK
  <1>2. TableConsistent' /\ ListsConsistent' /\ Owners'
    BY DEF Inv, TableConsistent, ListsConsistent, Owners, Live
  <1>3. Clean'
    BY DEF Inv, Clean, Live, TypeOK
  <1>4. Counted' /\ BufferedIsListed'
    BY DEF Inv, Counted, Reasons, BufferedIsListed, Live
  <1>5. Control'
    BY DEF Inv, Control
  <1>6. NoLostEdge'
    <2> SUFFICES ASSUME NEW d \in Pollable(grabClient, ignoreCount, impervious)'
                 PROVE  \/ d \in ready \cup saved \/ d \in armed'
                        \/ <<d, "READ">> \in reported \/ <<d, "ERROR">> \in reported
      BY DEF NoLostEdge
    <2>1. d \in Clients /\ d \in connected /\ armed \subseteq armed'
      BY DEF Pollable, Inv, TypeOK
    <2>2. CASE d \in Pollable(grabClient, ignoreCount, impervious)
      BY <2>1, <2>2 DEF Inv, NoLostEdge
    <2>3. CASE d \notin Pollable(grabClient, ignoreCount, impervious)
      BY <2>1, <2>3 DEF Pollable, listen_to_client, ListenTo, Inv, TypeOK
    <2> QED
      BY <2>2, <2>3
  <1> QED
    BY <1>1, <1>2, <1>3, <1>4, <1>5, <1>6 DEF Inv

LEMMA AbortClientStep ==
    ASSUME Inv, NEW c \in Clients, AbortClient(c)
    PROVE  Inv'
  <1> USE DEF AbortClient, threadVars, tableVars, listVars, grabVars, sleepVars, exitVars
  <1>1. Live(c) /\ c \in connected
    BY DEF Inv, Clean
  <1>2. TypeOK'
    BY DEF Inv, TypeOK
  <1>3. TableConsistent' /\ Owners'
    BY DEF Inv, TableConsistent, Owners
  <1>4. ListsConsistent' /\ Clean'
    BY <1>1 DEF Inv, ListsConsistent, Clean, Live
  <1>5. Counted'
    BY DEF Inv, Counted, Reasons
  <1>6. BufferedIsListed'
    BY DEF Inv, BufferedIsListed, Live
  <1>7. Control'
    BY DEF Inv, Control
  <1>8. NoLostEdge'
    BY DEF Inv, NoLostEdge, Pollable, ListenTo
  <1> QED
    BY <1>2, <1>3, <1>4, <1>5, <1>6, <1>7, <1>8 DEF Inv

LEMMA ProcessWorkQueueStep ==
    ASSUME Inv, NEW c \in Clients, ProcessWorkQueue(c)
    PROVE  Inv'
  <1> USE DEF threadVars, tableVars, listVars, grabVars, sleepVars, exitVars
  <1>1. CASE UNCHANGED <<listVars, sleepQueue, ignoreCount, armed>>
    <2> USE <1>1 DEF ProcessWorkQueue
    <2>1. Structure'
      BY StructureDepends
    <2>2. TypeOK' /\ Control'
      BY DEF Inv, TypeOK, Control
    <2> QED
      BY <2>1, <2>2 DEF Inv, Structure
  <1>2. CASE ~(UNCHANGED <<listVars, sleepQueue, ignoreCount, armed>>)
    <2> DEFINE counts == AttendCounts({c})
    <2>1. /\ sleepQueue[c] > 0 /\ sleepQueue' = [sleepQueue EXCEPT ![c] = @ - 1]
          /\ ignoreCount' = counts
          /\ counts[c] = 0 =>
               /\ armed' = ArmedAfterSetPoll(c, grabClient, counts, impervious)
               /\ ready' = ReadyAfterAttend(c, counts)
               /\ saved' = SavedAfterAttend(c, counts)
          /\ counts[c] # 0 => UNCHANGED <<armed, ready, saved>>
      BY <1>2 DEF ProcessWorkQueue
    <2>2. /\ workQueue' = workQueue \ {c} /\ pc = "Wait"
          /\ UNCHANGED <<threadVars, tableVars, grabVars, impervious, connected, hungUp,
                         socket, input, pending, exitVars>>
      BY DEF ProcessWorkQueue
    <2>3. ignoreCount[c] >= Reasons(c) /\ Reasons(c) >= sleepQueue[c]
          /\ ignoreCount[c] \in Nat /\ sleepQueue[c] \in Nat
      <3>1. ignoreCount[c] \in Nat /\ sleepQueue[c] \in Nat
        BY DEF Inv, TypeOK
      <3>2. ignoreCount[c] >= Reasons(c)
        BY DEF Inv, Counted
      <3> QED
        BY <3>1, <3>2 DEF Reasons
    <2>4. /\ ignoreCount'[c] = ignoreCount[c] - 1 /\ ignoreCount[c] > 0
          /\ sleepQueue'[c] = sleepQueue[c] - 1
          /\ \A d \in Clients \ {c} : /\ ignoreCount'[d] = ignoreCount[d]
                                      /\ sleepQueue'[d] = sleepQueue[d]
          /\ ignoreCount' \in [Clients -> Nat] /\ sleepQueue' \in [Clients -> Nat]
      <3>1. ignoreCount[c] > 0
        <4>1. Reasons(c) \in Nat
          BY <2>3 DEF Reasons
        <4> QED
          BY <2>1, <2>3, <4>1
      <3>2. ignoreCount' = [d \in Clients |-> IF d \in {c} THEN ignoreCount[d] - 1
                                                           ELSE ignoreCount[d]]
        BY <2>1 DEF AttendCounts
      <3>3. ignoreCount \in [Clients -> Nat] /\ sleepQueue \in [Clients -> Nat]
        BY DEF Inv, TypeOK
      <3>4. sleepQueue[c] > 0 /\ sleepQueue' = [sleepQueue EXCEPT ![c] = @ - 1]
        BY <2>1
      <3>5. /\ ignoreCount'[c] = ignoreCount[c] - 1
            /\ \A d \in Clients \ {c} : ignoreCount'[d] = ignoreCount[d]
            /\ ignoreCount' \in [Clients -> Nat]
        BY <3>1, <3>2, <3>3
      <3>6. /\ sleepQueue'[c] = sleepQueue[c] - 1
            /\ \A d \in Clients \ {c} : sleepQueue'[d] = sleepQueue[d]
            /\ sleepQueue' \in [Clients -> Nat]
        BY <3>3, <3>4
      <3> QED
        BY <3>1, <3>5, <3>6
    <2>5. Live(c)
      BY <2>3, <2>4 DEF Inv, Clean
    <2>6. /\ ready \subseteq ready' /\ saved \subseteq saved'
          /\ ready' \subseteq ready \cup {c} /\ saved' \subseteq saved \cup {c}
          /\ ready' \cup saved' = (ready \cup saved) \/ ignoreCount'[c] = 0
          /\ ignoreCount'[c] = 0 => c \in ready' \cup saved'
      BY <2>1 DEF ReadyAfterAttend, SavedAfterAttend
    <2>7. armed' \subseteq Clients
      BY <2>1 DEF ArmedAfterSetPoll, Inv, TypeOK
    <2>8. TypeOK'
      BY <2>2, <2>4, <2>6, <2>7 DEF Inv, TypeOK
    <2>9. TableConsistent' /\ Owners'
      BY <2>2 DEF Inv, TableConsistent, Owners
    <2>10. ListsConsistent'
      <3>1. ready' \cap saved' = {}
        BY <2>1 DEF ReadyAfterAttend, SavedAfterAttend, Inv, ListsConsistent
      <3>2. grabClient' = NoClient => saved' = {}
        <4>1. grabClient = NoClient /\ counts[c] = 0 => ListenTo(c, grabClient, counts, impervious)
          BY DEF ListenTo
        <4> QED
          BY <2>1, <2>2, <4>1 DEF SavedAfterAttend, Inv, ListsConsistent
      <3>3. \A d \in ready' \cup saved' : Live(d)'
        BY <2>2, <2>5, <2>6 DEF Live, Inv, ListsConsistent
      <3> QED
        BY <3>1, <3>2, <3>3 DEF ListsConsistent
    <2>11. Clean'
      BY <2>2, <2>4, <2>5, <2>6 DEF Inv, Clean, Live
    <2>12. Counted'
      <3> SUFFICES ASSUME NEW d \in Clients
                   PROVE  /\ ignoreCount'[d] >= Reasons(d)'
                          /\ d \notin failed' => ignoreCount'[d] = Reasons(d)'
                          /\ d \notin failed' /\ ignoreCount'[d] > 0
                               => d \notin ready' \cup saved'
                          /\ <<d, "READ">> \in reported' => ignoreCount'[d] = 0
        BY DEF Counted
      <3>1. /\ ignoreCount[d] >= Reasons(d)
            /\ d \notin failed => ignoreCount[d] = Reasons(d)
            /\ d \notin failed /\ ignoreCount[d] > 0 => d \notin ready \cup saved
            /\ <<d, "READ">> \in reported => ignoreCount[d] = 0
            /\ ignoreCount[d] \in Nat /\ sleepQueue[d] \in Nat
        BY DEF Inv, Counted, TypeOK
      <3>2. CASE d # c
        BY <2>2, <2>4, <2>6, <3>1, <3>2 DEF Reasons
      <3>3. CASE d = c
        <4>1. Reasons(c)' = Reasons(c) - 1
          BY <2>2, <2>3, <2>4 DEF Reasons
        <4>2. Reasons(c) \in Nat
          BY <2>3 DEF Reasons
        <4> QED
          BY <2>2, <2>3, <2>4, <2>6, <3>1, <3>3, <4>1, <4>2
      <3> QED
        BY <3>2, <3>3
    <2>13. BufferedIsListed'
      BY <2>2, <2>4, <2>6 DEF Inv, BufferedIsListed, Live
    <2>14. Control'
      BY <2>2 DEF Inv, Control
    <2>15. NoLostEdge'
      <3> SUFFICES ASSUME NEW d \in Pollable(grabClient, ignoreCount, impervious)'
                   PROVE  \/ d \in ready' \cup saved' \/ d \in armed'
                          \/ <<d, "READ">> \in reported' \/ <<d, "ERROR">> \in reported'
        BY DEF NoLostEdge
      <3>1. CASE d = c /\ ignoreCount'[c] = 0
        BY <2>6, <3>1
      <3>2. CASE d = c /\ ignoreCount'[c] # 0
        <4>1. d \in Pollable(grabClient, ignoreCount, impervious)
          BY <2>2, <3>2 DEF Pollable, ListenTo
        <4> QED
          BY <2>1, <2>2, <3>2, <4>1 DEF Inv, NoLostEdge
      <3>3. CASE d # c
        <4>1. d \in Pollable(grabClient, ignoreCount, impervious)
          BY <2>2, <2>4, <3>3 DEF Pollable, ListenTo, Inv, TypeOK
        <4>2. d \in armed => d \in armed'
          BY <2>1, <3>3 DEF ArmedAfterSetPoll
        <4> QED
          BY <2>2, <2>6, <4>1, <4>2 DEF Inv, NoLostEdge
      <3> QED
        BY <3>1, <3>2, <3>3
    <2> QED
      BY <2>8, <2>9, <2>10, <2>11, <2>12, <2>13, <2>14, <2>15 DEF Inv
  <1> QED
    BY <1>1, <1>2

-----------------------------------------------------------------------------
(* WaitForSomething                                                        *)

LEMMA PollStep ==
    ASSUME Inv, Poll
    PROVE  Inv'
  <1> USE DEF Poll, tableVars, listVars, grabVars, sleepVars, exitVars
  <1>1. /\ EpollEvents \subseteq reported' /\ pc' = "Deliver" /\ armed' = {} /\ reported = {}
        /\ reported' \subseteq EpollEvents \cup {<<NoClient, "READ">>}
    BY DEF Inv, Control
  <1>2. ASSUME NEW c \in Clients, NEW e \in {"READ", "ERROR"}, <<c, e>> \in reported'
        PROVE  /\ c \in Pollable(grabClient, ignoreCount, impervious)
               /\ e = "READ" => c \notin hungUp
    BY <1>1, <1>2 DEF EpollEvents, Clients, NoClient
  <1>3. TypeOK'
    <2>1. EpollEvents \subseteq Clients \X {"READ", "ERROR"}
      BY DEF EpollEvents, Inv, TypeOK
    <2>2. reported' \subseteq ((Clients \X {"READ", "ERROR"}) \cup {<<NoClient, "READ">>})
      BY <1>1, <2>1
    <2> QED
      BY <1>1, <2>2 DEF Inv, TypeOK
  <1>4. TableConsistent' /\ ListsConsistent' /\ Owners'
    BY DEF Inv, TableConsistent, ListsConsistent, Owners, Live
  <1>5. Clean' /\ BufferedIsListed'
    BY DEF Inv, Clean, BufferedIsListed, Live
  <1>6. Counted'
    <2> SUFFICES ASSUME NEW c \in Clients
                 PROVE  <<c, "READ">> \in reported' => ignoreCount[c] = 0
      BY DEF Inv, Counted, Reasons
    <2> QED
      BY <1>2 DEF Pollable, ListenTo
  <1>7. Control'
    BY <1>1, <1>2 DEF Control, Pollable
  <1>8. NoLostEdge'
    <2> SUFFICES ASSUME NEW c \in Pollable(grabClient, ignoreCount, impervious)
                 PROVE  \/ c \in ready \cup saved
                        \/ <<c, "READ">> \in reported' \/ <<c, "ERROR">> \in reported'
      BY DEF NoLostEdge, Pollable, ListenTo
    <2>1. c \in ready \cup saved \/ c \in armed
      BY <1>1 DEF Inv, NoLostEdge
    <2> QED
      BY <1>1, <2>1 DEF EpollEvents
  <1> QED
    BY <1>3, <1>4, <1>5, <1>6, <1>7, <1>8 DEF Inv

LEMMA ClientReadyReadStep ==
    ASSUME Inv, NEW c \in Clients, ClientReadyRead(c)
    PROVE  Inv'
  <1> USE DEF ClientReadyRead, tableVars, listVars, grabVars, sleepVars, connVars, exitVars
  <1>1. Live(c) /\ ignoreCount[c] = 0
    BY DEF Inv, Control, Clean, Counted
  <1>2. TypeOK'
    BY DEF Inv, TypeOK
  <1>3. TableConsistent' /\ Owners'
    BY DEF Inv, TableConsistent, Owners
  <1>4. ListsConsistent' /\ Clean'
    BY <1>1 DEF Inv, ListsConsistent, Clean, Live
  <1>5. Counted'
    <2> SUFFICES ASSUME NEW d \in Clients
                 PROVE  /\ ignoreCount'[d] >= Reasons(d)'
                        /\ d \notin failed' => ignoreCount'[d] = Reasons(d)'
                        /\ d \notin failed' /\ ignoreCount'[d] > 0
                             => d \notin ready' \cup saved'
                        /\ <<d, "READ">> \in reported' => ignoreCount'[d] = 0
      BY DEF Counted
    <2>1. Reasons(d)' = Reasons(d)
      BY DEF Reasons
    <2>2. d # c => /\ d \in ready' <=> d \in ready
                   /\ <<d, "READ">> \in reported' => <<d, "READ">> \in reported
      OBVIOUS
    <2>3. CASE d # c
      BY <2>1, <2>2, <2>3 DEF Inv, Counted
    <2>4. CASE d = c
      BY <1>1, <2>1, <2>4 DEF Inv, Counted
    <2> QED
      BY <2>3, <2>4
  <1>6. BufferedIsListed'
    BY DEF Inv, BufferedIsListed, Live
  <1>7. Control'
    BY DEF Inv, Control
  <1>8. NoLostEdge'
    BY DEF Inv, NoLostEdge, Pollable, ListenTo
  <1> QED
    BY <1>2, <1>3, <1>4, <1>5, <1>6, <1>7, <1>8 DEF Inv

LEMMA EstablishNewConnectionsStep ==
    ASSUME Inv, EstablishNewConnections
    PROVE  Inv'
  <1> USE DEF EstablishNewConnections, tableVars, listVars, grabVars, sleepVars, connVars,
              exitVars
  <1>1. TypeOK' /\ Control'
    BY DEF Inv, TypeOK, Control
  <1>2. TableConsistent' /\ ListsConsistent' /\ Clean' /\ Owners'
    BY DEF Inv, TableConsistent, ListsConsistent, Clean, Owners, Live
  <1>3. Counted' /\ BufferedIsListed'
    <2>1. \A c \in Clients : <<c, "READ">> \in reported' => <<c, "READ">> \in reported
      OBVIOUS
    <2>2. Counted'
      <3> SUFFICES ASSUME NEW c \in Clients
                   PROVE  /\ ignoreCount[c] >= Reasons(c)
                          /\ c \notin failed => ignoreCount[c] = Reasons(c)
                          /\ c \notin failed /\ ignoreCount[c] > 0
                               => c \notin ready \cup saved
                          /\ <<c, "READ">> \in reported => ignoreCount[c] = 0
        BY <2>1 DEF Counted, Reasons
      <3> QED
        BY DEF Inv, Counted
    <2>3. BufferedIsListed'
      BY DEF Inv, BufferedIsListed, Live
    <2> QED
      BY <2>2, <2>3
  <1>4. NoLostEdge'
    <2>1. \A c \in Clients : <<c, "READ">> # <<NoClient, "READ">>
                           /\ <<c, "ERROR">> # <<NoClient, "READ">>
      BY DEF Clients, NoClient
    <2>2. Pollable(grabClient, ignoreCount, impervious) \subseteq Clients
      BY DEF Pollable, Inv, TypeOK
    <2> QED
      BY <2>1, <2>2 DEF Inv, NoLostEdge, Pollable, ListenTo
  <1> QED
    BY <1>1, <1>2, <1>3, <1>4 DEF Inv

\* The close-downs of WaitForSomething.
LEMMA ClientReadyErrorStep ==
    ASSUME Inv, NEW c \in Clients, ClientReadyError(c) \/ CloseStraggler(c)
    PROVE  Inv'
  <1>1. /\ CloseDownClient(c, closeDownMode[c]) /\ pc \in {"Deliver", "Accept"}
        /\ UNCHANGED <<pc, cur, isItTimeToYield, result>>
    BY DEF ClientReadyError, CloseStraggler
  <1>2. clientState[c] # "Null"
    BY DEF ClientReadyError, CloseStraggler, Condemned, Inv, Control, Clean, Live
  <1>3. closeDownMode[c] \in Modes /\ ThreadOK'
    BY <1>1 DEF Inv, TypeOK, Modes, ThreadOK
  <1>4. Control'
    BY <1>1 DEF CloseDownClient, Inv, Control
  <1> QED
    BY <1>1, <1>2, <1>3, <1>4, CloseDownKeeps DEF Inv

LEMMA AcceptConnectionStep ==
    ASSUME Inv, AcceptConnection
    PROVE  Inv'
  <1> USE DEF listVars, grabVars, sleepVars, exitVars
  <1>1. CASE nextFreeClientID = LimitClients
    <2>1. Structure'
      BY <1>1, StructureDepends DEF AcceptConnection
    <2>2. TypeOK' /\ Control'
      BY <1>1 DEF AcceptConnection, Inv, TypeOK, Control
    <2> QED
      BY <2>1, <2>2 DEF Inv, Structure
  <1>2. CASE nextFreeClientID # LimitClients
    <2> DEFINE n == nextFreeClientID
               states == [clientState EXCEPT ![n] = "Initial"]
               free == {c \in Clients : states[c] = "Null"} \cup {LimitClients}
    <2>1. /\ clientState' = states /\ nextFreeClientID' = NextFree(states)
          /\ connected' = connected \cup {n} /\ isItTimeToYield' = TRUE
          /\ pc = "Accept" /\ pc' = "Deliver"
          /\ UNCHANGED <<cur, result, reported, closeDownMode, failed, terminable, nClients,
                   listVars, grabVars, sleepVars, ignoreCount, impervious, hungUp,
                   socket, input, pending, armed, exitVars>>
      BY <1>2 DEF AcceptConnection
    <2>2. n \in Clients /\ LimitClients \in Nat /\ Clients \subseteq Nat
      BY <1>2, ConstantsAssumption DEF Inv, TypeOK, Clients
    <2>3. clientState[n] = "Null" /\ ~Live(n)
      BY <2>2 DEF Inv, TableConsistent, Live
    <2>4. /\ n \notin ready \cup saved /\ n \notin hungUp /\ n \notin grabWaiters
          /\ ignoreCount[n] = 0 /\ sleepQueue[n] = 0 /\ input[n] = 0 /\ socket[n] = 0
      BY <2>2, <2>3 DEF Inv, Clean
    <2>5. free \in SUBSET Nat /\ free # {} /\ NextFree(states) = MinOf(free)
      BY <2>2 DEF NextFree
    <2>6. NextFree(states) \in free /\ \A f \in free : NextFree(states) <= f
      BY <2>5, MinOfIsLeast
    <2>7. DOMAIN clientState = Clients
      BY DEF Inv, TypeOK
    <2>8. TableConsistent'
      <3>1. RunningIn(states) = RunningIn(clientState)
        BY <2>2, <2>3, <2>7 DEF RunningIn
      <3>2. nClients' = Cardinality(RunningIn(clientState'))
        BY <2>1, <3>1 DEF Inv, TableConsistent, RunningIn
      <3>3. NextFree(states) \in Clients => states[NextFree(states)] = "Null"
        <4>1. LimitClients \notin Clients
          BY <2>2 DEF Clients
        <4> QED
          BY <2>6, <4>1
      <3>4. ASSUME NEW c \in Clients, c < NextFree(states) PROVE states[c] # "Null"
        <4> DEFINE m == NextFree(states)
        <4>1. m \in Nat /\ c \in Nat /\ c < m
          BY <2>2, <2>5, <2>6, <3>4
        <4>2. ~(m <= c)
          <5> HIDE DEF m
          <5> QED
            BY <4>1
        <4>3. c \notin free
          BY <2>6, <4>2
        <4> QED
          BY <4>3
      <3> QED
        BY <2>1, <3>2, <3>3, <3>4 DEF TableConsistent, RunningIn
    <2>9. TypeOK'
      <3>1. NextFree(states) \in 1 .. LimitClients
        BY <2>2, <2>6, ConstantsAssumption DEF Clients
      <3>2. states \in [Clients -> {"Null", "Initial", "Running", "Retained"}]
        BY DEF Inv, TypeOK
      <3> QED
        BY <2>1, <2>2, <3>1, <3>2 DEF Inv, TypeOK
    <2>10. ListsConsistent' /\ Owners'
      BY <2>1, <2>2, <2>3, <2>4, <2>7 DEF Inv, ListsConsistent, Owners, Live, TypeOK
    <2>11. Clean'
      BY <2>1, <2>2, <2>7 DEF Inv, Clean, Live
    <2>12. Counted' /\ Control'
      BY <2>1 DEF Inv, Counted, Reasons, Control
    <2>13. BufferedIsListed'
      <3>1. ~(input[n] >= Whole)
        BY <2>4, ConstantsAssumption
      <3> QED
        BY <2>1, <2>2, <2>7, <3>1 DEF Inv, BufferedIsListed, Live
    <2>14. NoLostEdge'
      <3>1. Pollable(grabClient, ignoreCount, impervious)'
               \subseteq Pollable(grabClient, ignoreCount, impervious)
        BY <2>1, <2>4 DEF Pollable, ListenTo
      <3> QED
        BY <2>1, <3>1 DEF Inv, NoLostEdge
    <2> QED
      BY <2>8, <2>9, <2>10, <2>11, <2>12, <2>13, <2>14 DEF Inv
  <1> QED
    BY <1>1, <1>2

\* The close-downs of Dispatch, of ProcKillClient and of KillAllClients.
LEMMA ReadFailsStep ==
    ASSUME Inv, ReadFails
    PROVE  Inv'
  <1>1. /\ CloseDownClient(cur, closeDownMode[cur]) /\ pc' = "Wait" /\ pc = "Serve"
        /\ UNCHANGED <<cur, isItTimeToYield, result>>
    BY DEF ReadFails
  <1>2. cur \in Clients /\ clientState[cur] # "Null"
    BY <1>1 DEF Inv, TypeOK, Control, ListsConsistent, Live
  <1>3. closeDownMode[cur] \in Modes /\ ThreadOK'
    BY <1>1 DEF Inv, TypeOK, Modes, ThreadOK
  <1>4. Control'
    BY <1>1 DEF CloseDownClient, Inv, Control
  <1> QED
    BY <1>1, <1>2, <1>3, <1>4, CloseDownKeeps DEF Inv

LEMMA AfterRequestStep ==
    ASSUME Inv, AfterRequest
    PROVE  Inv'
  <1>1. CASE Condemned(cur) \/ (clientGone(cur) /\ cur \in failed)
    <2>1. /\ CloseDownClient(cur, closeDownMode[cur]) /\ pc' = "Wait" /\ pc = "Check"
          /\ UNCHANGED <<cur, isItTimeToYield, result>>
      BY <1>1 DEF AfterRequest
    <2>2. cur \in Clients /\ clientState[cur] # "Null"
      BY <1>1 DEF Inv, TypeOK, Condemned, clientGone, Live
    <2>3. closeDownMode[cur] \in Modes /\ ThreadOK'
      BY <2>1 DEF Inv, TypeOK, Modes, ThreadOK
    <2>4. Control'
      BY <2>1 DEF CloseDownClient, Inv, Control
    <2> QED
      BY <2>1, <2>2, <2>3, <2>4, CloseDownKeeps DEF Inv
  <1>2. CASE ~(Condemned(cur) \/ (clientGone(cur) /\ cur \in failed))
    <2>1. /\ pc = "Check"
          /\ pc' = IF result = "Success" /\ ~isItTimeToYield THEN "Serve" ELSE "Wait"
          /\ UNCHANGED <<cur, isItTimeToYield, result, reported, tableVars, listVars,
                         grabVars, sleepVars, connVars, exitVars>>
      BY <1>2 DEF AfterRequest
    <2> USE <2>1 DEF tableVars, listVars, grabVars, sleepVars, connVars, exitVars
    <2>2. Structure'
      BY StructureDepends
    <2>3. TypeOK'
      BY DEF Inv, TypeOK
    <2>4. Control'
      BY DEF Inv, Control
    <2> QED
      BY <2>2, <2>3, <2>4 DEF Inv, Structure
  <1> QED
    BY <1>1, <1>2

LEMMA KillClientStep ==
    ASSUME Inv, NEW c \in Clients, KillClient(c)
    PROVE  Inv'
  <1>1. /\ CloseDownClient(c, closeDownMode[c]) /\ pc' = "Check" /\ pc = "Execute"
        /\ isItTimeToYield' = (isItTimeToYield \/ c = cur)
        /\ result' = "Success" /\ cur' = cur
    BY DEF KillClient
  <1>2. clientState[c] # "Null"
    BY DEF KillClient
  <1>3. closeDownMode[c] \in Modes /\ ThreadOK'
    BY <1>1 DEF Inv, TypeOK, Modes, ThreadOK
  <1>4. Control'
    <2>1. cur \in ready /\ reported = {}
      BY <1>1 DEF Inv, Control
    <2>2. reported' = {}
      BY <1>1, <2>1 DEF CloseDownClient
    <2>3. c # cur => cur \in ready'
      BY <1>1, <2>1 DEF CloseDownClient, ReadyAfterUngrab
    <2> QED
      BY <1>1, <2>2, <2>3 DEF Control
  <1> QED
    BY <1>1, <1>2, <1>3, <1>4, CloseDownKeeps DEF Inv

LEMMA KillNextClientStep ==
    ASSUME Inv, KillNextClient
    PROVE  Inv'
  <1> DEFINE used == {c \in Clients : clientState[c] # "Null"}
             least == MinOf(used)
  <1>1. used \in SUBSET Nat /\ used # {}
    BY ClientsFinite DEF KillNextClient
  <1>2. least \in used
    BY <1>1, MinOfIsLeast
  <1>3. /\ CloseDownClient(least, "DestroyAll") /\ pc = "Shutdown"
        /\ UNCHANGED <<pc, cur, isItTimeToYield, result>>
    BY DEF KillNextClient
  <1>4. least \in Clients /\ clientState[least] # "Null"
    BY <1>2
  <1> HIDE DEF least
  <1>5. "DestroyAll" \in Modes /\ ThreadOK'
    BY <1>3 DEF Inv, TypeOK, Modes, ThreadOK
  <1>6. Control'
    BY <1>3 DEF CloseDownClient, Inv, Control
  <1> QED
    BY <1>3, <1>4, <1>5, <1>6, CloseDownKeeps DEF Inv

-----------------------------------------------------------------------------
(* Dispatch reads a request *)

LEMMA ReadRequestStep ==
    ASSUME Inv, ReadRequest
    PROVE  Inv'
  <1> USE DEF tableVars, listVars, grabVars, sleepVars, exitVars
  <1> DEFINE got == IF input[cur] >= Whole THEN input[cur] ELSE input[cur] + socket[cur]
  <1>1. /\ pc = "Serve" /\ got >= Whole
        /\ input' = [input EXCEPT ![cur] = got - Whole]
        /\ socket' = (IF input[cur] >= Whole THEN socket ELSE [socket EXCEPT ![cur] = 0])
        /\ pc' = "Execute"
        /\ UNCHANGED <<cur, isItTimeToYield, result, reported, tableVars, listVars,
                       grabVars, sleepVars, ignoreCount, impervious, connected,
                       hungUp, pending, armed, exitVars>>
    BY DEF ReadRequest
  <1>2. cur \in Clients /\ cur \in ready /\ Live(cur) /\ Whole \in Nat
        /\ input[cur] \in Nat /\ socket[cur] \in Nat
    BY <1>1, ConstantsAssumption DEF Inv, TypeOK, Control, ListsConsistent
  <1>3. got - Whole \in Nat
    BY <1>1, <1>2
  <1> HIDE DEF got
  <1>4. TypeOK'
    BY <1>1, <1>2, <1>3 DEF Inv, TypeOK
  <1>5. TableConsistent' /\ ListsConsistent' /\ Owners' /\ Control'
    BY <1>1, <1>2 DEF Inv, TableConsistent, ListsConsistent, Owners, Control, Live
  <1>6. Clean'
    BY <1>1, <1>2 DEF Inv, Clean, Live, TypeOK
  <1>7. Counted'
    BY <1>1 DEF Inv, Counted, Reasons
  <1>8. BufferedIsListed'
    BY <1>1, <1>2 DEF Inv, BufferedIsListed, Live, TypeOK
  <1>9. NoLostEdge'
    BY <1>1, <1>2 DEF Inv, NoLostEdge, Pollable, ListenTo, TypeOK
  <1> QED
    BY <1>4, <1>5, <1>6, <1>7, <1>8, <1>9 DEF Inv

LEMMA ReadPartialStep ==
    ASSUME Inv, ReadPartial
    PROVE  Inv'
  <1> USE DEF tableVars, listVars, grabVars, sleepVars, exitVars
  <1>1. /\ pc = "Serve" /\ input[cur] + socket[cur] < Whole
        /\ input' = [input EXCEPT ![cur] = input[cur] + socket[cur]]
        /\ socket' = [socket EXCEPT ![cur] = 0]
        /\ isItTimeToYield' = TRUE /\ pc' = "Wait"
        /\ UNCHANGED <<cur, result, reported, tableVars, listVars,
                       grabVars, sleepVars, ignoreCount, impervious, connected,
                       hungUp, pending, armed, exitVars>>
    BY DEF ReadPartial
  <1>2. cur \in Clients /\ cur \in ready /\ Live(cur) /\ Whole \in Nat
        /\ input[cur] \in Nat /\ socket[cur] \in Nat
    BY <1>1, ConstantsAssumption DEF Inv, TypeOK, Control, ListsConsistent
  <1>4. TypeOK'
    BY <1>1, <1>2 DEF Inv, TypeOK
  <1>5. TableConsistent' /\ ListsConsistent' /\ Owners' /\ Control'
    BY <1>1, <1>2 DEF Inv, TableConsistent, ListsConsistent, Owners, Control, Live
  <1>6. Clean'
    BY <1>1, <1>2 DEF Inv, Clean, Live, TypeOK
  <1>7. Counted'
    BY <1>1 DEF Inv, Counted, Reasons
  <1>8. BufferedIsListed'
    BY <1>1, <1>2 DEF Inv, BufferedIsListed, Live, TypeOK
  <1>9. NoLostEdge'
    BY <1>1, <1>2 DEF Inv, NoLostEdge, Pollable, ListenTo, TypeOK
  <1> QED
    BY <1>4, <1>5, <1>6, <1>7, <1>8, <1>9 DEF Inv

LEMMA ReadWouldBlockStep ==
    ASSUME Inv, ReadWouldBlock
    PROVE  Inv'
  <1> USE DEF tableVars, grabVars, sleepVars, connVars, exitVars
  <1>1. /\ pc = "Serve" /\ cur \in connected \ hungUp /\ socket[cur] = 0
        /\ input[cur] < Whole
        /\ ready' = ready \ {cur} /\ saved' = saved \ {cur}
        /\ isItTimeToYield' = TRUE /\ pc' = "Wait"
        /\ UNCHANGED <<cur, result, reported, tableVars, grabVars, sleepVars, connVars,
                       exitVars>>
    BY DEF ReadWouldBlock, NotReady
  <1>2. cur \in Clients /\ Whole \in Nat /\ input[cur] \in Nat
    BY ConstantsAssumption DEF Inv, TypeOK
  <1>4. TypeOK'
    BY <1>1 DEF Inv, TypeOK
  <1>5. TableConsistent' /\ ListsConsistent' /\ Owners' /\ Control'
    BY <1>1 DEF Inv, TableConsistent, ListsConsistent, Owners, Control, Live
  <1>6. Clean'
    BY <1>1 DEF Inv, Clean, Live
  <1>7. Counted'
    BY <1>1 DEF Inv, Counted, Reasons
  <1>8. BufferedIsListed'
    BY <1>1, <1>2 DEF Inv, BufferedIsListed, Live
  <1>9. NoLostEdge'
    <2>1. /\ cur \notin Pollable(grabClient, ignoreCount, impervious)
          /\ Pollable(grabClient, ignoreCount, impervious)'
                = Pollable(grabClient, ignoreCount, impervious)
      BY <1>1 DEF Pollable, ListenTo
    <2> QED
      BY <1>1, <2>1 DEF Inv, NoLostEdge
  <1> QED
    BY <1>4, <1>5, <1>6, <1>7, <1>8, <1>9 DEF Inv

-----------------------------------------------------------------------------
(* The handlers *)

LEMMA ProcInitialConnectionStep ==
    ASSUME Inv, ProcInitialConnection
    PROVE  Inv'
  <1> USE DEF grabVars, sleepVars, exitVars
  <1>1. /\ pc = "Execute" /\ pc' = "Check" /\ clientState[cur] = "Initial"
        /\ UNCHANGED <<cur, reported, clientState, closeDownMode, terminable, nClients,
                   nextFreeClientID, saved, grabVars, sleepVars, ignoreCount, impervious,
                   connected, hungUp, socket, armed, exitVars>>
    BY DEF ProcInitialConnection, Executing
  <1>2. cur \in Clients /\ cur \in ready /\ Live(cur) /\ Whole \in Nat
        /\ input[cur] \in Nat
    BY <1>1, ConstantsAssumption DEF Inv, TypeOK, Control, ListsConsistent
  <1>3. /\ failed \subseteq failed' /\ failed' \subseteq Clients
        /\ input' \in [Clients -> Nat]
        /\ \A c \in Clients \ {cur} : input'[c] = input[c]
        /\ pending' \in [Clients -> {"none", "EstablishConnection", "GrabServer"}]
        /\ ready' = ready \cup {cur} \/ ready' = ready
        /\ result' \in {"Success", "Error"} /\ isItTimeToYield' \in BOOLEAN
    <2>1. CASE /\ failed' = failed \cup {cur} /\ result' = "Error"
               /\ UNCHANGED <<isItTimeToYield, input, pending, ready>>
      BY <2>1, <1>2 DEF Inv, TypeOK
    <2>2. CASE PutBack("EstablishConnection") /\ result' = "Success"
               /\ isItTimeToYield' = TRUE /\ UNCHANGED failed
               /\ (ready' = ready \cup {cur} \/ ready' = ready)
      BY <2>2, <1>2 DEF Inv, TypeOK, PutBack
    <2>3. CASE /\ input' = [input EXCEPT ![cur] = 1]
               /\ pending' = [pending EXCEPT ![cur] = "EstablishConnection"]
               /\ result' = "Success" /\ isItTimeToYield' = TRUE /\ UNCHANGED failed
               /\ (ready' = ready \cup {cur} \/ ready' = ready)
      BY <2>3, <1>2 DEF Inv, TypeOK
    <2> QED
      BY <2>1, <2>2, <2>3 DEF ProcInitialConnection
  <1>4. ready' = ready
    BY <1>2, <1>3
  <1>5. TypeOK'
    BY <1>1, <1>3, <1>4 DEF Inv, TypeOK
  <1>6. TableConsistent' /\ ListsConsistent' /\ Owners' /\ Control'
    BY <1>1, <1>2, <1>4 DEF Inv, TableConsistent, ListsConsistent, Owners, Control, Live
  <1>7. Clean'
    BY <1>1, <1>2, <1>3, <1>4 DEF Inv, Clean, Live
  <1>8. Counted'
    BY <1>1, <1>3, <1>4 DEF Inv, Counted, Reasons
  <1>9. BufferedIsListed'
    BY <1>1, <1>2, <1>3, <1>4 DEF Inv, BufferedIsListed, Live
  <1>10. NoLostEdge'
    BY <1>1, <1>4 DEF Inv, NoLostEdge, Pollable, ListenTo
  <1> QED
    BY <1>5, <1>6, <1>7, <1>8, <1>9, <1>10 DEF Inv

LEMMA ProcEstablishConnectionStep ==
    ASSUME Inv, ProcEstablishConnection
    PROVE  Inv'
  <1> USE DEF listVars, grabVars, sleepVars
  <1>1. /\ pc = "Execute" /\ pc' = "Check" /\ clientState[cur] = "Initial"
        /\ pending' = [pending EXCEPT ![cur] = "none"]
        /\ UNCHANGED <<cur, reported, isItTimeToYield, closeDownMode, terminable,
                   nextFreeClientID, listVars, grabVars, sleepVars, ignoreCount,
                   impervious, connected, hungUp, socket, input, armed,
                   dispatchException, dispatchExceptionAtReset>>
    BY DEF ProcEstablishConnection, Executing
  <1>2. cur \in Clients /\ cur \in ready /\ Live(cur)
    BY <1>1 DEF Inv, TypeOK, Control, ListsConsistent
  <1>3. \/ /\ failed' = failed \cup {cur} /\ result' = "Error"
           /\ UNCHANGED <<clientState, nClients, exceptionTimer>>
        \/ /\ clientState' = [clientState EXCEPT ![cur] = "Running"]
           /\ nClients' = nClients + 1 /\ exceptionTimer' = FALSE
           /\ result' = "Success" /\ UNCHANGED failed
    BY DEF ProcEstablishConnection, CancelDispatchExceptionTimer
  <1>4. /\ failed \subseteq failed' /\ failed' \subseteq Clients
        /\ \A c \in Clients \ {cur} : clientState'[c] = clientState[c]
        /\ clientState'[cur] \in {"Initial", "Running"}
        /\ clientState' \in [Clients -> {"Null", "Initial", "Running", "Retained"}]
    BY <1>1, <1>2, <1>3 DEF Inv, TypeOK
  <1>5. TableConsistent'
    <2>1. CASE UNCHANGED <<clientState, nClients>>
      BY <1>1, <2>1 DEF Inv, TableConsistent
    <2>2. CASE /\ clientState' = [clientState EXCEPT ![cur] = "Running"]
               /\ nClients' = nClients + 1
      <3>1. DOMAIN clientState = Clients
        BY DEF Inv, TypeOK
      <3>2. Cardinality(RunningIn(clientState')) = Cardinality(RunningIn(clientState)) + 1
        BY <1>1, <1>2, <2>2, <3>1, RunningEnters
      <3>3. nClients' = Cardinality(RunningIn(clientState'))
        BY <2>2, <3>2 DEF Inv, TableConsistent, RunningIn
      <3>4. \A c \in Clients : clientState'[c] = "Null" <=> clientState[c] = "Null"
        BY <1>1, <1>4
      <3> QED
        BY <1>1, <3>3, <3>4 DEF Inv, TableConsistent, RunningIn
    <2> QED
      BY <1>3, <2>1, <2>2
  <1>6. TypeOK'
    <2>1. nClients' \in Nat
      BY <1>3 DEF Inv, TypeOK
    <2>2. pending' \in [Clients -> {"none", "EstablishConnection", "GrabServer"}]
      BY <1>1 DEF Inv, TypeOK
    <2> QED
      BY <1>1, <1>3, <1>4, <2>1, <2>2 DEF Inv, TypeOK
  <1>7. ListsConsistent' /\ Control' /\ Clean'
    <2>1. \A c \in Clients : Live(c)' <=> Live(c)
      BY <1>1, <1>4 DEF Live
    <2>2. ListsConsistent'
      BY <1>1, <2>1 DEF Inv, TypeOK, ListsConsistent
    <2>3. Clean'
      BY <1>1, <2>1 DEF Inv, Clean
    <2>4. Control'
      BY <1>1, <1>2 DEF Inv, Control
    <2> QED
      BY <2>2, <2>3, <2>4
  <1>8. Owners'
    <2>1. grabClient # cur /\ cur \notin grabWaiters
      BY <1>1, <1>2 DEF Inv, Owners, NoClient, Clients
    <2> QED
      BY <1>1, <1>4, <2>1 DEF Inv, Owners, TypeOK
  <1>9. Counted'
    BY <1>1, <1>4 DEF Inv, Counted, Reasons
  <1>10. BufferedIsListed'
    BY <1>1, <1>2, <1>4 DEF Inv, BufferedIsListed, Live
  <1>11. NoLostEdge'
    BY <1>1 DEF Inv, NoLostEdge, Pollable, ListenTo
  <1> QED
    BY <1>5, <1>6, <1>7, <1>8, <1>9, <1>10, <1>11 DEF Inv

\* IgnoreClient mutes a client: what it leaves of the lists, the count and
\* the armed descriptors.
LEMMA IgnoreClientKeeps ==
    ASSUME Inv, pc = "Execute", IgnoreClient
    PROVE  /\ ignoreCount' \in [Clients -> Nat]
           /\ ignoreCount'[cur] = ignoreCount[cur] + 1
           /\ \A c \in Clients \ {cur} : /\ ignoreCount'[c] = ignoreCount[c]
                                         /\ c \in ready' <=> c \in ready
                                         /\ c \in saved' <=> c \in saved
                                         /\ c \in armed' <=> c \in armed
           /\ ready' \subseteq ready /\ saved' \subseteq saved /\ armed' \subseteq Clients
           /\ cur \notin failed => cur \notin ready' \cup saved'
           /\ cur \in connected /\ cur \in hungUp => cur \in armed' \cup ready'
           /\ isItTimeToYield \/ cur \in ready' \/ ignoreCount[cur] = 0
  <1>1. cur \in ready /\ cur \in Clients /\ ignoreCount \in [Clients -> Nat]
        /\ armed \subseteq Clients
    BY DEF Inv, Control, TypeOK
  <1>2. ignoreCount' = [ignoreCount EXCEPT ![cur] = ignoreCount[cur] + 1]
    BY DEF IgnoreClient
  <1>5. /\ ignoreCount' \in [Clients -> Nat]
        /\ ignoreCount'[cur] = ignoreCount[cur] + 1
        /\ \A c \in Clients \ {cur} : ignoreCount'[c] = ignoreCount[c]
    BY <1>1, <1>2
  <1>3. CASE ignoreCount[cur] = 0
    <2> DEFINE counts == [ignoreCount EXCEPT ![cur] = ignoreCount[cur] + 1]
    <2>1. /\ ready' = ready \ {cur} /\ saved' = saved \ {cur}
          /\ armed' = ArmedAfterSetPoll(cur, grabClient, counts, impervious)
      BY <1>3 DEF IgnoreClient, NotReady
    <2>2. cur \in connected /\ cur \in hungUp => cur \in armed'
      BY <2>1 DEF ArmedAfterSetPoll, Pollable
    <2>3. \A c \in Clients \ {cur} : c \in armed' <=> c \in armed
      BY <2>1 DEF ArmedAfterSetPoll
    <2>4. armed' \subseteq Clients
      BY <1>1, <2>1 DEF ArmedAfterSetPoll
    <2>5. /\ ready' \subseteq ready /\ saved' \subseteq saved
          /\ cur \notin ready' \cup saved'
          /\ \A c \in Clients \ {cur} : (c \in ready' <=> c \in ready)
                                      /\ (c \in saved' <=> c \in saved)
      BY <2>1
    <2> QED
      BY <1>3, <1>5, <2>2, <2>3, <2>4, <2>5
  <1>4. CASE ignoreCount[cur] # 0
    <2>1. UNCHANGED <<ready, saved, armed>>
      BY <1>4 DEF IgnoreClient
    <2>2. cur \in failed
      <3>1. ignoreCount[cur] > 0
        BY <1>1, <1>4
      <3> QED
        BY <1>1, <3>1 DEF Inv, Counted
    <2> QED
      BY <1>1, <1>5, <2>1, <2>2
  <1> QED
    BY <1>3, <1>4

LEMMA GrabServerBlockedStep ==
    ASSUME Inv, GrabServerBlocked
    PROVE  Inv'
  <1> USE DEF tableVars, sleepVars, exitVars
  <1>1. /\ pc = "Execute" /\ pc' = "Check" /\ clientState[cur] = "Running"
        /\ input' = [input EXCEPT ![cur] = input[cur] + Whole]
        /\ pending' = [pending EXCEPT ![cur] = "GrabServer"]
        /\ grabWaiters' = grabWaiters \cup {cur}
        /\ IgnoreClient /\ isItTimeToYield' = TRUE /\ result' = "Success"
        /\ UNCHANGED <<cur, reported, tableVars, grabClient, sleepVars, impervious,
                       connected, hungUp, socket, exitVars>>
    BY DEF GrabServerBlocked, Request, Executing, PutBack
  <1>2. cur \in Clients /\ cur \in ready /\ Live(cur) /\ reported = {}
        /\ ignoreCount[cur] \in Nat /\ sleepQueue[cur] \in Nat
        /\ ignoreCount[cur] >= Reasons(cur)
        /\ (cur \notin failed => ignoreCount[cur] = Reasons(cur))
    BY <1>1 DEF Inv, TypeOK, Control, Live, Counted
  <1>3. /\ ignoreCount' \in [Clients -> Nat]
        /\ ignoreCount'[cur] = ignoreCount[cur] + 1
        /\ \A c \in Clients \ {cur} : /\ ignoreCount'[c] = ignoreCount[c]
                                      /\ c \in ready' <=> c \in ready
                                      /\ c \in saved' <=> c \in saved
                                      /\ c \in armed' <=> c \in armed
        /\ ready' \subseteq ready /\ saved' \subseteq saved /\ armed' \subseteq Clients
        /\ cur \notin failed => cur \notin ready' \cup saved'
        /\ cur \in connected /\ cur \in hungUp => cur \in armed' \cup ready'
    BY <1>1, IgnoreClientKeeps
  <1>4. TypeOK'
    <2>1. /\ input' \in [Clients -> Nat]
          /\ pending' \in [Clients -> {"none", "EstablishConnection", "GrabServer"}]
      BY <1>1, <1>2, ConstantsAssumption DEF Inv, TypeOK
    <2> QED
      BY <1>1, <1>2, <1>3, <2>1 DEF Inv, TypeOK
  <1>5. TableConsistent' /\ Owners' /\ Control'
    BY <1>1, <1>2 DEF Inv, TableConsistent, Owners, Control
  <1>6. ListsConsistent' /\ Clean'
    <2>1. ListsConsistent'
      BY <1>1, <1>3 DEF Inv, ListsConsistent, Live
    <2>2. Clean'
      BY <1>1, <1>2, <1>3 DEF Inv, TypeOK, Clean, Live
    <2> QED
      BY <2>1, <2>2
  <1>7. Counted'
    <2> SUFFICES ASSUME NEW d \in Clients
                 PROVE  /\ ignoreCount'[d] >= Reasons(d)'
                        /\ d \notin failed' => ignoreCount'[d] = Reasons(d)'
                        /\ d \notin failed' /\ ignoreCount'[d] > 0
                             => d \notin ready' \cup saved'
                        /\ <<d, "READ">> \in reported' => ignoreCount'[d] = 0
      BY DEF Counted
    <2>1. CASE d # cur
      <3>1. Reasons(d)' = Reasons(d)
        BY <1>1, <2>1 DEF Reasons
      <3> QED
        BY <1>1, <1>3, <2>1, <3>1 DEF Inv, Counted
    <2>2. CASE d = cur
      <3>1. Reasons(cur)' = sleepQueue[cur] + 1
        BY <1>1 DEF Reasons
      <3>2. CASE cur \in grabWaiters
        <4>1. Reasons(cur) = sleepQueue[cur] + 1
          BY <3>2 DEF Reasons
        <4>2. cur \in failed
          <5>1. ignoreCount[cur] > 0
            BY <1>2, <4>1
          <5> QED
            BY <1>2, <5>1 DEF Inv, Counted
        <4> QED
          BY <1>1, <1>2, <1>3, <2>2, <3>1, <4>1, <4>2
      <3>3. CASE cur \notin grabWaiters
        <4>1. Reasons(cur) = sleepQueue[cur] + 0
          BY <3>3 DEF Reasons
        <4> QED
          BY <1>1, <1>2, <1>3, <2>2, <3>1, <4>1
      <3> QED
        BY <3>2, <3>3
    <2> QED
      BY <2>1, <2>2
  <1>8. ~(ignoreCount'[cur] = 0)
    BY <1>2, <1>3
  <1>9. BufferedIsListed'
    BY <1>1, <1>2, <1>3, <1>8 DEF Inv, TypeOK, BufferedIsListed, Live
  <1>10. NoLostEdge'
    <2> SUFFICES ASSUME NEW d \in Pollable(grabClient, ignoreCount, impervious)'
                 PROVE  d \in ready' \cup saved' \cup armed'
      BY DEF NoLostEdge
    <2>1. CASE d = cur
      BY <1>1, <1>3, <1>8, <2>1 DEF Pollable, ListenTo
    <2>2. CASE d # cur
      <3>1. d \in Clients /\ d \in Pollable(grabClient, ignoreCount, impervious)
        BY <1>1, <1>3, <2>2 DEF Pollable, ListenTo, Inv, TypeOK
      <3> QED
        BY <1>2, <1>3, <2>2, <3>1 DEF Inv, NoLostEdge
    <2> QED
      BY <2>1, <2>2
  <1> QED
    BY <1>4, <1>5, <1>6, <1>7, <1>9, <1>10 DEF Inv

LEMMA ClientSleepStep ==
    ASSUME Inv, ClientSleep
    PROVE  Inv'
  <1> USE DEF tableVars, grabVars, exitVars
  <1>1. /\ pc = "Execute" /\ pc' = "Check" /\ clientState[cur] = "Running"
        /\ sleepQueue' = [sleepQueue EXCEPT ![cur] = sleepQueue[cur] + 1]
        /\ IgnoreClient /\ isItTimeToYield' = (isItTimeToYield \/ ignoreCount[cur] = 0)
        /\ result' = "Success"
        /\ UNCHANGED <<cur, reported, tableVars, grabVars, workQueue, impervious,
                       connected, hungUp, socket, input, pending, exitVars>>
    BY DEF ClientSleep, Request, Executing
  <1>2. cur \in Clients /\ cur \in ready /\ Live(cur) /\ reported = {}
        /\ ignoreCount[cur] \in Nat /\ sleepQueue[cur] \in Nat
        /\ ignoreCount[cur] >= Reasons(cur)
        /\ (cur \notin failed => ignoreCount[cur] = Reasons(cur))
    BY <1>1 DEF Inv, TypeOK, Control, Live, Counted
  <1>3. /\ ignoreCount' \in [Clients -> Nat]
        /\ ignoreCount'[cur] = ignoreCount[cur] + 1
        /\ \A c \in Clients \ {cur} : /\ ignoreCount'[c] = ignoreCount[c]
                                      /\ c \in ready' <=> c \in ready
                                      /\ c \in saved' <=> c \in saved
                                      /\ c \in armed' <=> c \in armed
        /\ ready' \subseteq ready /\ saved' \subseteq saved /\ armed' \subseteq Clients
        /\ cur \notin failed => cur \notin ready' \cup saved'
        /\ cur \in connected /\ cur \in hungUp => cur \in armed' \cup ready'
        /\ isItTimeToYield \/ cur \in ready' \/ ignoreCount[cur] = 0
    BY <1>1, IgnoreClientKeeps
  <1>4. TypeOK'
    <2>1. sleepQueue' \in [Clients -> Nat] /\ isItTimeToYield' \in BOOLEAN
      BY <1>1, <1>2 DEF Inv, TypeOK
    <2> QED
      BY <1>1, <1>2, <1>3, <2>1 DEF Inv, TypeOK
  <1>5. TableConsistent' /\ Owners' /\ Control'
    BY <1>1, <1>2, <1>3 DEF Inv, TableConsistent, Owners, Control
  <1>6. ListsConsistent' /\ Clean'
    <2>1. ListsConsistent'
      BY <1>1, <1>3 DEF Inv, ListsConsistent, Live
    <2>2. Clean'
      BY <1>1, <1>2, <1>3 DEF Inv, TypeOK, Clean, Live
    <2> QED
      BY <2>1, <2>2
  <1>7. Counted'
    <2> SUFFICES ASSUME NEW d \in Clients
                 PROVE  /\ ignoreCount'[d] >= Reasons(d)'
                        /\ d \notin failed' => ignoreCount'[d] = Reasons(d)'
                        /\ d \notin failed' /\ ignoreCount'[d] > 0
                             => d \notin ready' \cup saved'
                        /\ <<d, "READ">> \in reported' => ignoreCount'[d] = 0
      BY DEF Counted
    <2>1. CASE d # cur
      <3>1. Reasons(d)' = Reasons(d)
        BY <1>1, <2>1 DEF Reasons
      <3> QED
        BY <1>1, <1>3, <2>1, <3>1 DEF Inv, Counted
    <2>2. CASE d = cur
      <3>1. sleepQueue'[cur] = sleepQueue[cur] + 1
        BY <1>1, <1>2 DEF Inv, TypeOK
      <3>2. Reasons(cur)' = Reasons(cur) + 1 /\ Reasons(cur) \in Nat
        BY <1>1, <1>2, <3>1 DEF Reasons
      <3> QED
        BY <1>1, <1>2, <1>3, <2>2, <3>2
    <2> QED
      BY <2>1, <2>2
  <1>8. ~(ignoreCount'[cur] = 0)
    BY <1>2, <1>3
  <1>9. BufferedIsListed'
    BY <1>1, <1>3, <1>8 DEF Inv, BufferedIsListed, Live
  <1>10. NoLostEdge'
    <2> SUFFICES ASSUME NEW d \in Pollable(grabClient, ignoreCount, impervious)'
                 PROVE  d \in ready' \cup saved' \cup armed'
      BY DEF NoLostEdge
    <2>1. CASE d = cur
      BY <1>1, <1>3, <1>8, <2>1 DEF Pollable, ListenTo
    <2>2. CASE d # cur
      <3>1. d \in Clients /\ d \in Pollable(grabClient, ignoreCount, impervious)
        BY <1>1, <1>3, <2>2 DEF Pollable, ListenTo, Inv, TypeOK
      <3> QED
        BY <1>2, <1>3, <2>2, <3>1 DEF Inv, NoLostEdge
    <2> QED
      BY <2>1, <2>2
  <1> QED
    BY <1>4, <1>5, <1>6, <1>7, <1>9, <1>10 DEF Inv

LEMMA GrabServerStep ==
    ASSUME Inv, GrabServer
    PROVE  Inv'
  <1> USE DEF tableVars, sleepVars, exitVars
  <1>1. /\ pc = "Execute" /\ pc' = "Check" /\ clientState[cur] = "Running"
        /\ grabClient \in {NoClient, cur}
        /\ pending' = [pending EXCEPT ![cur] = "none"]
        /\ grabClient' = cur
        /\ ready' = ready \cap {cur} /\ saved' = saved \cup (ready \ {cur})
        /\ armed' = (IF grabClient = NoClient THEN Pollable(cur, ignoreCount, impervious)
                     ELSE armed)
        /\ result' = "Success"
        /\ UNCHANGED <<cur, reported, isItTimeToYield, tableVars, grabWaiters, sleepVars,
                       ignoreCount, impervious, connected, hungUp, socket, input, exitVars>>
    BY DEF GrabServer, Request, Executing, MarkClientGrab
  <1>2. cur \in Clients /\ cur \in ready /\ cur # NoClient
    BY <1>1 DEF Inv, TypeOK, Control, Clients, NoClient
  <1>3. ready' \cup saved' = ready \cup saved
    BY <1>1, <1>2
  <1>4. TypeOK'
    <2>1. armed' \subseteq Clients
      BY <1>1 DEF Inv, TypeOK, Pollable
    <2>2. pending' \in [Clients -> {"none", "EstablishConnection", "GrabServer"}]
      BY <1>1 DEF Inv, TypeOK
    <2> QED
      BY <1>1, <1>2, <2>1, <2>2 DEF Inv, TypeOK
  <1>5. TableConsistent' /\ Owners' /\ Control'
    BY <1>1, <1>2 DEF Inv, TableConsistent, Owners, Control
  <1>6. ListsConsistent' /\ Clean'
    <2>1. ListsConsistent'
      BY <1>1, <1>2, <1>3 DEF Inv, ListsConsistent, Live
    <2>2. Clean'
      BY <1>1, <1>3 DEF Inv, Clean, Live
    <2> QED
      BY <2>1, <2>2
  <1>7. Counted'
    BY <1>1, <1>3 DEF Inv, Counted, Reasons
  <1>8. BufferedIsListed'
    BY <1>1, <1>3 DEF Inv, BufferedIsListed, Live
  <1>9. NoLostEdge'
    <2>3. Pollable(grabClient, ignoreCount, impervious)'
             = Pollable(cur, ignoreCount, impervious)
      BY <1>1 DEF Pollable, ListenTo
    <2>1. CASE grabClient = NoClient
      BY <1>1, <2>1, <2>3 DEF NoLostEdge
    <2>2. CASE grabClient = cur
      BY <1>1, <1>2, <1>3, <2>2, <2>3 DEF Inv, NoLostEdge
    <2> QED
      BY <1>1, <2>1, <2>2
  <1> QED
    BY <1>4, <1>5, <1>6, <1>7, <1>8, <1>9 DEF Inv

LEMMA UngrabServerStep ==
    ASSUME Inv, UngrabServer
    PROVE  Inv'
  <1> USE DEF tableVars, sleepVars, exitVars
  <1> DEFINE woken == NextGrabWaiter(grabWaiters)
  <1>1. /\ pc = "Execute" /\ pc' = "Check"
        /\ grabClient' = NoClient
        /\ grabWaiters' = grabWaiters \ woken
        /\ ready' = ready \cup saved \cup {w \in woken : ignoreCount[w] = 1}
        /\ saved' = {}
        /\ ignoreCount' = AttendCounts(woken)
        /\ armed' = ArmedAfterUngrab(woken, ignoreCount')
        /\ result' = "Success"
        /\ UNCHANGED <<cur, reported, isItTimeToYield, tableVars, sleepVars, impervious,
                       connected, hungUp, socket, input, pending, exitVars>>
    BY DEF UngrabServer, Request, Executing, WaitersAfterUngrab, ReadyAfterUngrab
  <1>2. woken \subseteq grabWaiters /\ woken \subseteq Clients
    BY NextGrabWaiterWaits DEF Inv, TypeOK
  <1>3. \A w \in woken : ignoreCount[w] > 0 /\ clientState[w] = "Running"
    BY <1>2, WaitersAreIgnored DEF Inv, Owners
  <1> HIDE DEF woken
  <1>4. /\ ignoreCount \in [Clients -> Nat] /\ ignoreCount' \in [Clients -> Nat]
        /\ \A w \in woken : ignoreCount'[w] = ignoreCount[w] - 1
        /\ \A d \in Clients \ woken : ignoreCount'[d] = ignoreCount[d]
    <2>1. ignoreCount \in [Clients -> Nat]
      BY DEF Inv, TypeOK
    <2>2. ignoreCount' = [d \in Clients |-> IF d \in woken THEN ignoreCount[d] - 1
                                                           ELSE ignoreCount[d]]
      BY <1>1 DEF AttendCounts
    <2> QED
      BY <1>2, <1>3, <2>1, <2>2
  <1>5. cur \in ready /\ reported = {}
    BY <1>1 DEF Inv, Control
  <1>6. TypeOK'
    <2>1. armed' \subseteq Clients
      BY <1>1, <1>2 DEF Inv, TypeOK, ArmedAfterUngrab, Pollable
    <2>2. ready' \subseteq Clients
      BY <1>1, <1>2 DEF Inv, TypeOK
    <2> QED
      BY <1>1, <1>4, <2>1, <2>2 DEF Inv, TypeOK
  <1>7. TableConsistent' /\ Owners' /\ Control'
    BY <1>1, <1>5 DEF Inv, TableConsistent, Owners, Control
  <1>8. ListsConsistent'
    BY <1>1, <1>3 DEF Inv, ListsConsistent, Live
  <1>9. Clean'
    <2> SUFFICES ASSUME NEW c \in Clients, ~Live(c)
                 PROVE  /\ c \notin ready' /\ c \notin grabWaiters' /\ ignoreCount'[c] = 0
                        /\ c \notin connected /\ c \notin hungUp /\ sleepQueue[c] = 0
                        /\ input[c] = 0 /\ socket[c] = 0
      BY <1>1 DEF Clean, Live
    <2>1. c \notin woken
      BY <1>3 DEF Live
    <2>2. /\ c \notin ready \cup saved /\ c \notin connected /\ c \notin hungUp
          /\ c \notin grabWaiters /\ ignoreCount[c] = 0 /\ sleepQueue[c] = 0
          /\ input[c] = 0 /\ socket[c] = 0
      BY DEF Inv, Clean
    <2> QED
      BY <1>1, <1>4, <2>1, <2>2
  <1>10. Counted'
    <2> SUFFICES ASSUME NEW d \in Clients
                 PROVE  /\ ignoreCount'[d] >= Reasons(d)'
                        /\ d \notin failed' => ignoreCount'[d] = Reasons(d)'
                        /\ d \notin failed' /\ ignoreCount'[d] > 0
                             => d \notin ready' \cup saved'
                        /\ <<d, "READ">> \in reported' => ignoreCount'[d] = 0
      BY DEF Counted
    <2>1. /\ ignoreCount[d] >= Reasons(d)
          /\ d \notin failed => ignoreCount[d] = Reasons(d)
          /\ d \notin failed /\ ignoreCount[d] > 0 => d \notin ready \cup saved
          /\ ignoreCount[d] \in Nat /\ sleepQueue[d] \in Nat
      BY DEF Inv, Counted, TypeOK
    <2>2. CASE d \notin woken
      <3>1. Reasons(d)' = Reasons(d)
        BY <1>1, <2>2 DEF Reasons
      <3> QED
        BY <1>1, <1>4, <1>5, <2>1, <2>2, <3>1
    <2>3. CASE d \in woken
      <3>1. Reasons(d) = sleepQueue[d] + 1
        BY <1>2, <2>3 DEF Reasons
      <3>2. Reasons(d)' = sleepQueue[d] + 0
        BY <1>1, <2>3 DEF Reasons
      <3>3. ignoreCount'[d] = ignoreCount[d] - 1 /\ ignoreCount[d] > 0
        BY <1>3, <1>4, <2>3
      <3>4. d \notin failed => (d \in ready' => ignoreCount'[d] = 0)
        BY <1>1, <2>1, <3>3
      <3> QED
        BY <1>1, <1>5, <2>1, <3>1, <3>2, <3>3, <3>4
    <2> QED
      BY <2>2, <2>3
  <1>11. BufferedIsListed'
    <2> SUFFICES ASSUME NEW c \in Clients, Live(c), input[c] >= Whole, ignoreCount'[c] = 0
                 PROVE  c \in ready'
      BY <1>1 DEF BufferedIsListed, Live
    <2>1. CASE c \in woken
      <3>1. ignoreCount[c] = 1
        BY <1>4, <2>1
      <3> QED
        BY <1>1, <2>1, <3>1
    <2>2. CASE c \notin woken
      BY <1>1, <1>4, <2>2 DEF Inv, BufferedIsListed
    <2> QED
      BY <2>1, <2>2
  <1>12. NoLostEdge'
    <2>1. Pollable(grabClient, ignoreCount, impervious)'
             = Pollable(NoClient, ignoreCount', impervious)
      BY <1>1 DEF Pollable, ListenTo
    <2>2. CASE grabClient # NoClient
      BY <1>1, <2>1, <2>2 DEF NoLostEdge, ArmedAfterUngrab
    <2>3. CASE grabClient = NoClient
      <3> SUFFICES ASSUME NEW d \in Pollable(NoClient, ignoreCount', impervious)
                   PROVE  d \in ready' \cup armed'
        BY <2>1 DEF NoLostEdge
      <3>1. armed' = armed \cup {w \in woken : ignoreCount'[w] = 0
                                 /\ w \in Pollable(NoClient, ignoreCount', impervious)}
        BY <1>1, <2>3 DEF ArmedAfterUngrab
      <3>2. d \in Clients
        BY DEF Pollable, Inv, TypeOK
      <3>3. CASE d \in woken /\ ignoreCount'[d] = 0
        BY <3>1, <3>3
      <3>4. CASE ~(d \in woken /\ ignoreCount'[d] = 0)
        <4>1. d \in Pollable(grabClient, ignoreCount, impervious)
          BY <1>4, <2>3, <3>2, <3>4 DEF Pollable, ListenTo
        <4> QED
          BY <1>1, <1>5, <3>1, <4>1 DEF Inv, NoLostEdge
      <3> QED
        BY <3>3, <3>4
    <2> QED
      BY <2>2, <2>3
  <1> QED
    BY <1>6, <1>7, <1>8, <1>9, <1>10, <1>11, <1>12 DEF Inv

LEMMA GrabControlStep ==
    ASSUME Inv, GrabControl
    PROVE  Inv'
  <1> USE DEF tableVars, listVars, grabVars, sleepVars, exitVars
  <1>1. /\ pc = "Execute" /\ pc' = "Check"
        /\ impervious' \subseteq impervious \cup {cur}
        /\ \A c \in Clients \ {cur} : c \in impervious' <=> c \in impervious
        /\ isItTimeToYield' \in {isItTimeToYield, TRUE} /\ result' = "Success"
        /\ armed' = ArmedAfterSetPoll(cur, grabClient, ignoreCount, impervious')
        /\ UNCHANGED <<cur, reported, tableVars, listVars, grabVars, sleepVars, ignoreCount,
                       connected, hungUp, socket, input, pending, exitVars>>
    BY DEF GrabControl, Request, Executing
  <1>2. cur \in Clients /\ cur \in ready
    BY <1>1 DEF Inv, TypeOK, Control
  <1>3. TypeOK'
    <2>1. armed' \subseteq Clients
      BY <1>1 DEF Inv, TypeOK, ArmedAfterSetPoll, Pollable
    <2> QED
      BY <1>1, <1>2, <2>1 DEF Inv, TypeOK
  <1>4. TableConsistent' /\ Owners' /\ Control'
    BY <1>1, <1>2 DEF Inv, TableConsistent, Owners, Control
  <1>5. ListsConsistent' /\ Clean'
    BY <1>1 DEF Inv, ListsConsistent, Clean, Live
  <1>6. Counted'
    BY <1>1 DEF Inv, Counted, Reasons
  <1>7. BufferedIsListed'
    BY <1>1 DEF Inv, BufferedIsListed, Live
  <1>8. NoLostEdge'
    <2> SUFFICES ASSUME NEW d \in Pollable(grabClient, ignoreCount, impervious)'
                 PROVE  \/ d \in ready \cup saved \/ d \in armed'
                        \/ <<d, "READ">> \in reported \/ <<d, "ERROR">> \in reported
      BY <1>1 DEF NoLostEdge
    <2>1. CASE d = cur
      BY <1>2, <2>1
    <2>2. CASE d # cur
      <3>1. d \in Clients /\ d \in Pollable(grabClient, ignoreCount, impervious)
        BY <1>1, <2>2 DEF Pollable, ListenTo, Inv, TypeOK
      <3>2. d \in armed => d \in armed'
        BY <1>1, <2>2 DEF ArmedAfterSetPoll
      <3> QED
        BY <1>1, <3>1, <3>2 DEF Inv, NoLostEdge
    <2> QED
      BY <2>1, <2>2
  <1> QED
    BY <1>3, <1>4, <1>5, <1>6, <1>7, <1>8 DEF Inv

LEMMA KillAllTemporaryStep ==
    ASSUME Inv, KillAllTemporary
    PROVE  Inv'
  <1> USE DEF listVars, grabVars, sleepVars, connVars
  <1> DEFINE dead == {c \in Clients : clientGone(c) /\ closeDownMode[c] = "RetainTemporary"}
             states == [c \in Clients |-> IF c \in dead THEN "Null" ELSE clientState[c]]
             free == dead \cup {nextFreeClientID}
  <1>1. /\ pc = "Execute" /\ pc' = "Check" /\ result' = "Success"
        /\ clientState' = states
        /\ closeDownMode' = [c \in Clients |->
                                IF c \in dead THEN "DestroyAll" ELSE closeDownMode[c]]
        /\ failed' = failed \ dead /\ terminable' = terminable \ dead
        /\ nextFreeClientID' = MinOf(free)
        /\ UNCHANGED <<cur, reported, isItTimeToYield, nClients, listVars, grabVars,
                       sleepVars, connVars>>
    BY DEF KillAllTemporary, Request, Executing
  <1>2. /\ dispatchException' \in BOOLEAN /\ exceptionTimer' \in BOOLEAN
        /\ dispatchExceptionAtReset' \in AtReset
    BY DEF KillAllTemporary, SetDispatchExceptionTimer, Inv, TypeOK
  <1>3. /\ \A c \in dead : clientState[c] = "Retained" /\ states[c] = "Null" /\ c \in Clients
        /\ \A c \in Clients \ dead : states[c] = clientState[c]
    BY DEF clientGone
  <1>4. free \in SUBSET Nat /\ free # {} /\ LimitClients \in Nat
        /\ nextFreeClientID \in 1 .. LimitClients
    <2>1. LimitClients \in Nat /\ nextFreeClientID \in 1 .. LimitClients
      BY ConstantsAssumption DEF Inv, TypeOK
    <2>2. dead \subseteq Nat
      BY ClientsFinite
    <2> HIDE DEF dead
    <2> QED
      BY <2>1, <2>2
  <1>5. MinOf(free) \in free /\ \A f \in free : MinOf(free) <= f
    BY <1>4, MinOfIsLeast
  <1>6. free \subseteq 1 .. LimitClients
    BY <1>4 DEF Clients
  <1>7. /\ states \in [Clients -> {"Null", "Initial", "Running", "Retained"}]
        /\ closeDownMode' \in [Clients -> {"DestroyAll", "RetainPermanent", "RetainTemporary"}]
    BY <1>1 DEF Inv, TypeOK
  <1>8. TypeOK'
    BY <1>1, <1>2, <1>5, <1>6, <1>7 DEF Inv, TypeOK
  <1>9. TableConsistent'
    <2>1. RunningIn(states) = RunningIn(clientState)
      BY <1>3 DEF RunningIn
    <2>2. nClients' = Cardinality(RunningIn(clientState'))
      BY <1>1, <2>1 DEF Inv, TableConsistent, RunningIn
    <2>3. MinOf(free) \in Clients => states[MinOf(free)] = "Null"
      BY <1>3, <1>5 DEF Inv, TableConsistent
    <2>4. ASSUME NEW c \in Clients, c < MinOf(free) PROVE states[c] # "Null"
      <3> DEFINE m == MinOf(free)
      <3>1. m \in Nat /\ c \in Nat /\ c < m /\ m <= nextFreeClientID
            /\ nextFreeClientID \in Nat
        BY <1>4, <1>5, <2>4, ClientsFinite
      <3>2. c < nextFreeClientID /\ ~(m <= c)
        <4> HIDE DEF m
        <4> QED
          BY <3>1
      <3>3. c \notin dead
        BY <1>5, <3>2
      <3>4. clientState[c] # "Null"
        BY <3>2 DEF Inv, TableConsistent
      <3> QED
        BY <1>3, <3>3, <3>4
    <2> QED
      BY <1>1, <2>2, <2>3, <2>4 DEF TableConsistent, RunningIn
  <1>10. \A c \in Clients : Live(c)' <=> Live(c)
    BY <1>1, <1>3 DEF Live
  <1>11. ListsConsistent' /\ Clean'
    <2>1. ListsConsistent'
      BY <1>1, <1>10 DEF Inv, TypeOK, ListsConsistent
    <2>2. Clean'
      BY <1>1, <1>10 DEF Inv, Clean
    <2> QED
      BY <2>1, <2>2
  <1>12. Owners'
    BY <1>1, <1>3 DEF Inv, TypeOK, Owners
  <1>13. Counted'
    <2> SUFFICES ASSUME NEW d \in Clients
                 PROVE  /\ ignoreCount[d] >= Reasons(d)
                        /\ d \notin failed \ dead => ignoreCount[d] = Reasons(d)
                        /\ d \notin failed \ dead /\ ignoreCount[d] > 0
                             => d \notin ready \cup saved
                        /\ <<d, "READ">> \in reported => ignoreCount[d] = 0
      BY <1>1 DEF Counted, Reasons
    <2>1. CASE d \in dead
      <3>1. ~Live(d)
        BY <1>3, <2>1 DEF Live
      <3>2. ignoreCount[d] = 0 /\ sleepQueue[d] = 0 /\ d \notin grabWaiters
            /\ d \notin ready \cup saved
        BY <3>1 DEF Inv, Clean
      <3> QED
        BY <3>2 DEF Reasons
    <2>2. CASE d \notin dead
      BY <2>2 DEF Inv, Counted
    <2> QED
      BY <2>1, <2>2
  <1>14. BufferedIsListed'
    BY <1>1, <1>10 DEF Inv, BufferedIsListed
  <1>15. NoLostEdge' /\ Control'
    BY <1>1 DEF Inv, NoLostEdge, Pollable, ListenTo, Control
  <1> QED
    BY <1>8, <1>9, <1>11, <1>12, <1>13, <1>14, <1>15 DEF Inv

LEMMA EndOfGenerationStep ==
    ASSUME Inv, EndOfGeneration
    PROVE  Inv'
  <1> USE DEF grabVars, sleepVars, connVars
  <1>1. /\ pc = "Shutdown" /\ pc' \in {"Exit", "Wait"}
        /\ \A c \in Clients : clientState[c] = "Null"
        /\ dispatchException' \in BOOLEAN
        /\ nextFreeClientID' = 1 /\ nClients' = 0 /\ ready' = {} /\ saved' = {}
        /\ UNCHANGED <<cur, isItTimeToYield, result, reported, clientState, closeDownMode,
                       failed, terminable, grabVars, sleepVars, connVars, exceptionTimer,
                       dispatchExceptionAtReset>>
    BY DEF EndOfGeneration
  <1>2. \A c \in Clients : ~Live(c)
    BY <1>1 DEF Live
  <1>3. connected = {}
    BY <1>2 DEF Inv, TypeOK, Clean
  <1>4. TypeOK'
    BY <1>1, ConstantsAssumption DEF Inv, TypeOK
  <1>5. TableConsistent'
    <2>1. RunningIn(clientState) = {}
      BY <1>1 DEF RunningIn
    <2>2. nClients' = Cardinality(RunningIn(clientState'))
      BY <1>1, <2>1, FS_EmptySet
    <2>3. \A c \in Clients : ~(c < 1)
      BY ConstantsAssumption DEF Clients
    <2> QED
      BY <1>1, <2>2, <2>3 DEF TableConsistent, RunningIn
  <1>6. ListsConsistent' /\ Owners' /\ Control'
    BY <1>1 DEF Inv, ListsConsistent, Owners, Control
  <1>7. Clean'
    BY <1>1 DEF Inv, Clean, Live
  <1>8. Counted'
    BY <1>1 DEF Inv, Counted, Reasons
  <1>9. BufferedIsListed'
    BY <1>1 DEF BufferedIsListed, Live
  <1>10. NoLostEdge'
    BY <1>1, <1>3 DEF NoLostEdge, Pollable
  <1> QED
    BY <1>4, <1>5, <1>6, <1>7, <1>8, <1>9, <1>10 DEF Inv

-----------------------------------------------------------------------------
(* The invariant *)

LEMMA InvInit == Init => Inv
  <1> SUFFICES ASSUME Init PROVE Inv
    OBVIOUS
  <1> USE DEF Init
  <1>1. /\ LimitClients \in Nat /\ LimitClients > 1 /\ Settled \in Nat
        /\ Settled <= LimitClients - 1 /\ Whole \in {1, 2}
        /\ AtReset \subseteq {"none", "reset", "terminate"}
    BY ConstantsAssumption
  <1>2. (1 .. Settled) \subseteq Clients /\ 1 \in Clients
    BY <1>1 DEF Clients
  <1>3. TypeOK
    <2>1. clientState \in [Clients -> {"Null", "Initial", "Running", "Retained"}]
      OBVIOUS
    <2>2. nextFreeClientID \in 1 .. LimitClients /\ nClients \in Nat
      BY <1>1
    <2> QED
      BY <1>2, <2>1, <2>2 DEF TypeOK
  <1>4. TableConsistent
    <2>1. RunningIn(clientState) = 1 .. Settled
      BY <1>1, <1>2 DEF RunningIn, Clients
    <2>2. Cardinality(1 .. Settled) = Settled
      BY <1>1, FS_Interval
    <2>3. nClients = Cardinality(RunningIn(clientState))
      BY <2>1, <2>2
    <2>4. \A c \in Clients : c < Settled + 1 => clientState[c] # "Null"
      BY <1>1 DEF Clients
    <2>5. Settled + 1 \in Clients => clientState[Settled + 1] = "Null"
      BY <1>1
    <2>6. nextFreeClientID = Settled + 1
      OBVIOUS
    <2> USE DEF TableConsistent, RunningIn
    <2> HIDE DEF Init
    <2> QED
      BY <2>3, <2>4, <2>5, <2>6
  <1>5. ListsConsistent /\ Owners /\ Control
    BY <1>2 DEF ListsConsistent, Owners, Control
  <1>6. Clean
    <2> SUFFICES ASSUME NEW c \in Clients, ~Live(c) PROVE c \notin connected
      BY DEF Clean
    <2>1. clientState[c] # "Running"
      BY DEF Live
    <2> QED
      BY <1>1, <2>1
  <1>7. Counted
    BY DEF Counted, Reasons
  <1>8. BufferedIsListed
    BY <1>1 DEF BufferedIsListed
  <1>9. NoLostEdge
    <2>1. \A c \in connected : c \notin hungUp /\ socket[c] = 0
      BY <1>2
    <2>2. \A c \in connected : ~(socket[c] > 0)
      BY <2>1
    <2>3. Pollable(grabClient, ignoreCount, impervious) = {}
      BY <2>1, <2>2 DEF Pollable
    <2> QED
      BY <2>3 DEF NoLostEdge
  <1> QED
    BY <1>3, <1>4, <1>5, <1>6, <1>7, <1>8, <1>9 DEF Inv

LEMMA InvStutter == ASSUME Inv, UNCHANGED vars PROVE Inv'
  <1> USE DEF vars, threadVars, tableVars, listVars, grabVars, sleepVars, connVars, exitVars
  <1>1. Structure'
    BY StructureDepends
  <1>2. TypeOK' /\ Control'
    BY DEF Inv, TypeOK, Control
  <1> QED
    BY <1>1, <1>2 DEF Inv, Structure

LEMMA InvNext == ASSUME Inv, [Next]_vars PROVE Inv'
  <1>1. CASE WaitForSomething
    BY <1>1, PollStep, EstablishNewConnectionsStep, AcceptConnectionStep, ThreadSteps,
       ProcessWorkQueueStep, ClientReadyErrorStep, ClientReadyReadStep
    DEF WaitForSomething
  <1>2. CASE \E c \in Clients : Schedule(c)
    BY <1>2, ThreadSteps
  <1>3. CASE Serve
    BY <1>3, ThreadSteps, ReadRequestStep, ReadPartialStep, ReadWouldBlockStep,
       ReadFailsStep, AfterRequestStep
    DEF Serve
  <1>4. CASE Handle
    BY <1>4, ProcInitialConnectionStep, ProcEstablishConnectionStep, QuietRequests,
       GrabServerBlockedStep, GrabServerStep, UngrabServerStep, GrabControlStep,
       ClientSleepStep, KillAllTemporaryStep, KillClientStep
    DEF Handle
  <1>5. CASE Finish
    BY <1>5, ThreadSteps, KillNextClientStep, EndOfGenerationStep DEF Finish
  <1>6. CASE Peer
    BY <1>6, PeerSteps DEF Peer
  <1>7. CASE Happening
    BY <1>7, QuietRequests, AbortClientStep DEF Happening
  <1>8. CASE UNCHANGED vars
    BY <1>8, InvStutter
  <1> QED
    BY <1>1, <1>2, <1>3, <1>4, <1>5, <1>6, <1>7, <1>8 DEF Next

\* Inv holds in every reachable state, for all values of the constants.
THEOREM InvHolds == Spec => []Inv
<1>1. Init => Inv
  BY InvInit
<1>2. Inv /\ [Next]_vars => Inv'
  BY InvNext
<1> QED
  BY <1>1, <1>2, PTL DEF Spec

\* Every variable keeps its type; in particular neither the ignore counts
\* nor the sleep counts go below zero (AttendClient, ClientWakeup).
THEOREM TypesHold == Spec => []TypeOK
<1>1. Inv => TypeOK
  BY DEF Inv
<1> QED
  BY <1>1, InvHolds, PTL

\* nClients is the number of running clients and nextFreeClientID the least
\* free slot, however clients come, are retained, killed and reset.
THEOREM TableHolds == Spec => []TableConsistent
<1>1. Inv => TableConsistent
  BY DEF Inv
<1> QED
  BY <1>1, InvHolds, PTL

\* The ready and the saved list hold live clients only and are disjoint, and
\* nothing stays saved when the server grab is over.
THEOREM ListsHold == Spec => []ListsConsistent
<1>1. Inv => ListsConsistent
  BY DEF Inv
<1> QED
  BY <1>1, InvHolds, PTL

\* The holder of the grab and its waiters are running clients, and a client
\* that is ignored is not scheduled unless its connection broke.
THEOREM ParkedHolds == Spec => []ParkedIsIgnored
<1>1. Inv => ParkedIsIgnored
  <2> SUFFICES ASSUME Inv PROVE ParkedIsIgnored
    OBVIOUS
  <2>1. ASSUME NEW c \in Clients, c \in grabWaiters
        PROVE  clientState[c] = "Running" /\ ignoreCount[c] > 0
    BY <2>1, WaitersAreIgnored DEF Inv, Owners
  <2>2. ASSUME NEW c \in Clients, ignoreCount[c] > 0, c \notin failed
        PROVE  c \notin ready \cup saved
    BY <2>2 DEF Inv, Counted
  <2> QED
    BY <2>1, <2>2 DEF ParkedIsIgnored, Inv, Owners
<1> QED
  BY <1>1, InvHolds, PTL

\* As long as a connection is whole, its ignore count is exactly the number
\* of its sleeps plus its wait for the grab: no attend is missing and none
\* is done twice.
THEOREM IgnoreCountHolds == Spec => []IgnoreCountBalanced
<1>1. Inv => IgnoreCountBalanced
  BY DEF Inv, Counted, Reasons, IgnoreCountBalanced
<1> QED
  BY <1>1, InvHolds, PTL

\* A whole request in the buffer of a client that is not ignored is never
\* forgotten: the client is on a list.
THEOREM BufferedHolds == Spec => []BufferedIsListed
<1>1. Inv => BufferedIsListed
  BY DEF Inv
<1> QED
  BY <1>1, InvHolds, PTL

\* No wake-up is lost between the edge-triggered epoll, the muting of
\* connections and the ready lists.
THEOREM NoEdgeIsLost == Spec => []NoLostEdge
<1>1. Inv => NoLostEdge
  BY DEF Inv
<1> QED
  BY <1>1, InvHolds, PTL

-----------------------------------------------------------------------------
(* Mutual exclusion under a server grab.  Without GrabControl(FALSE), which *)
(* takes the impervious flag from a client that goes on being served.      *)

LEMMA MayRunDepends ==
    ASSUME ReadyMayRun, grabClient' = grabClient,
           \A c \in Clients :
              c \notin failed' /\ (c \in ready' \/ <<c, "READ">> \in reported') =>
                 /\ c \notin failed /\ (c \in ready \/ <<c, "READ">> \in reported)
                 /\ c \in impervious => c \in impervious'
    PROVE  ReadyMayRun'
  BY DEF ReadyMayRun

LEMMA CloseDownMayRun ==
    ASSUME Inv, ReadyMayRun, NEW c \in Clients, NEW mode \in Modes, CloseDownClient(c, mode)
    PROVE  ReadyMayRun'
  <1>1. CASE grabClient' = NoClient
    BY <1>1 DEF ReadyMayRun
  <1>2. CASE grabClient' # NoClient
    <2>1. /\ grabClient' = grabClient /\ ready' = ready \ {c}
          /\ reported' = reported \ {<<c, "READ">>, <<c, "ERROR">>}
          /\ impervious' = impervious \ {c}
          /\ failed \ {c} \subseteq failed'
      BY <1>2 DEF CloseDownClient
    <2> QED
      BY <2>1, MayRunDepends
  <1> QED
    BY <1>1, <1>2

LEMMA ReadyMayRunNext ==
    ASSUME "GrabControlOff" \notin Requests, Inv, ReadyMayRun, [Next]_vars
    PROVE  ReadyMayRun'
  <1> USE DEF threadVars, tableVars, listVars, grabVars, sleepVars, connVars, exitVars
  <1>1. CASE \E c \in Clients : ClientReadyError(c) \/ CloseStraggler(c) \/ KillClient(c)
    BY <1>1, CloseDownMayRun
    DEF ClientReadyError, CloseStraggler, KillClient, Inv, TypeOK, Modes
  <1>2. CASE ReadFails \/ AfterRequest
    <2>1. CASE ReadFails \/ Condemned(cur) \/ (clientGone(cur) /\ cur \in failed)
      BY <1>2, <2>1, CloseDownMayRun DEF ReadFails, AfterRequest, Inv, TypeOK, Modes
    <2>2. CASE AfterRequest /\ ~(Condemned(cur) \/ (clientGone(cur) /\ cur \in failed))
      <3>1. UNCHANGED <<grabClient, failed, impervious, reported, ready>>
        BY <2>2 DEF AfterRequest
      <3> QED
        BY <3>1, MayRunDepends
    <2> QED
      BY <1>2, <2>1, <2>2
  <1>3. CASE KillNextClient
    <2> DEFINE used == {c \in Clients : clientState[c] # "Null"}
               least == MinOf(used)
    <2>1. used \in SUBSET Nat /\ used # {}
      BY <1>3, ClientsFinite DEF KillNextClient
    <2>2. least \in Clients /\ CloseDownClient(least, "DestroyAll")
      BY <1>3, <2>1, MinOfIsLeast DEF KillNextClient
    <2> HIDE DEF least
    <2> QED
      BY <2>2, CloseDownMayRun DEF Modes
  <1>4. CASE Poll
    <2>1. \A c \in Clients : <<c, "READ">> \in reported' =>
              c \in Pollable(grabClient, ignoreCount, impervious) \ hungUp
      BY <1>4 DEF Poll, EpollEvents, NoClient, Clients
    <2> QED
      BY <1>4, <2>1 DEF Poll, ReadyMayRun, Pollable, ListenTo
  <1>5. CASE EstablishNewConnections \/ AcceptConnection \/ NothingReady
             \/ \E c \in Clients : ClientReadyRead(c) \/ Schedule(c)
    <2>1. /\ UNCHANGED <<grabClient, failed, impervious>>
          /\ \A c \in Clients : c \in ready' \/ <<c, "READ">> \in reported' =>
                                   c \in ready \/ <<c, "READ">> \in reported
      BY <1>5 DEF EstablishNewConnections, AcceptConnection, NothingReady,
                  ClientReadyRead, Schedule
    <2> QED
      BY <2>1, MayRunDepends
  <1>6. CASE \E c \in Clients : ProcessWorkQueue(c)
    <2>1. PICK c \in Clients : ProcessWorkQueue(c)
      BY <1>6
    <2>2. /\ UNCHANGED <<grabClient, failed, impervious, reported>>
          /\ \/ ready' = ready
             \/ /\ ready' = ready \cup {c}
                /\ grabClient \in {NoClient, c} \/ c \in impervious
      BY <2>1 DEF ProcessWorkQueue, ReadyAfterAttend, ListenTo
    <2> QED
      BY <2>2 DEF ReadyMayRun
  <1>7. CASE SliceExpired \/ ReadRequest \/ ReadPartial \/ ReadWouldBlock
    <2>1. UNCHANGED <<grabClient, failed, impervious, reported>> /\ ready' \subseteq ready
      BY <1>7 DEF SliceExpired, ReadRequest, ReadPartial, ReadWouldBlock, NotReady
    <2> QED
      BY <2>1, MayRunDepends
  <1>8. CASE ProcInitialConnection \/ ProcEstablishConnection \/ OrdinaryRequest
             \/ ProcChangeCloseDownMode \/ SetClientDisconnectMode
    <2>1. cur \in ready
      BY <1>8 DEF ProcInitialConnection, ProcEstablishConnection, OrdinaryRequest,
                  ProcChangeCloseDownMode, SetClientDisconnectMode, Request, Executing,
                  Inv, Control
    <2>2. /\ UNCHANGED <<grabClient, impervious, reported>> /\ failed \subseteq failed'
          /\ ready' \subseteq ready \cup {cur}
      BY <1>8 DEF ProcInitialConnection, ProcEstablishConnection, OrdinaryRequest,
                  ProcChangeCloseDownMode, SetClientDisconnectMode, Request, Executing
    <2> QED
      BY <2>1, <2>2, MayRunDepends
  <1>9. CASE GrabServerBlocked \/ ClientSleep
    <2>1. /\ UNCHANGED <<grabClient, failed, impervious, reported>>
          /\ ready' \subseteq ready
      BY <1>9 DEF GrabServerBlocked, ClientSleep, IgnoreClient, NotReady, Request, Executing
    <2> QED
      BY <2>1, MayRunDepends
  <1>10. CASE GrabServer \/ UngrabServer
    <2>1. reported' = {}
      BY <1>10 DEF GrabServer, UngrabServer, Request, Executing, Inv, Control
    <2>2. CASE GrabServer
      BY <2>1, <2>2 DEF GrabServer, MarkClientGrab, Request, Executing, ReadyMayRun
    <2>3. CASE UngrabServer
      BY <2>3 DEF UngrabServer, ReadyMayRun
    <2> QED
      BY <1>10, <2>2, <2>3
  <1>11. CASE GrabControl
    <2>1. /\ UNCHANGED <<grabClient, failed, reported, ready>>
          /\ impervious \subseteq impervious'
      BY <1>11 DEF GrabControl, Request, Executing
    <2> QED
      BY <2>1, MayRunDepends
  <1>12. CASE KillAllTemporary
    <2> DEFINE dead == {c \in Clients : clientGone(c) /\ closeDownMode[c] = "RetainTemporary"}
    <2>1. /\ UNCHANGED <<grabClient, impervious, reported, ready>>
          /\ failed' = failed \ dead /\ reported = {}
      BY <1>12 DEF KillAllTemporary, Request, Executing, Inv, Control
    <2>2. \A c \in dead : c \notin ready
      BY DEF clientGone, Inv, Clean, Live
    <2> HIDE DEF dead
    <2> QED
      BY <2>1, <2>2, MayRunDepends
  <1>13. CASE LeaveLoop \/ EndOfGeneration
    <2>1. /\ UNCHANGED <<grabClient, failed, impervious, reported>> /\ ready' \subseteq ready
      BY <1>13 DEF LeaveLoop, EndOfGeneration
    <2> QED
      BY <2>1, MayRunDepends
  <1>14. CASE \E c \in Clients : Send(c) \/ HangUp(c) \/ AbortClient(c) \/ ClientSignal(c)
    <2>1. /\ UNCHANGED <<grabClient, impervious, reported>> /\ failed \subseteq failed'
          /\ ready' \subseteq ready \cup failed'
      BY <1>14 DEF Send, HangUp, AbortClient, ClientSignal
    <2> QED
      BY <2>1, MayRunDepends
  <1>15. CASE DispatchExceptionCallback \/ UNCHANGED vars
    <2>1. UNCHANGED <<grabClient, failed, impervious, reported, ready>>
      BY <1>15 DEF DispatchExceptionCallback, vars
    <2> QED
      BY <2>1, MayRunDepends
  <1> QED
    BY <1>1, <1>2, <1>3, <1>4, <1>5, <1>6, <1>7, <1>8, <1>9, <1>10, <1>11, <1>12, <1>13,
       <1>14, <1>15
    DEF Next, WaitForSomething, Serve, Handle, Finish, Peer, Happening

\* While the server is grabbed, the only requests executed are those of the
\* grabber, of an impervious client and of a client whose connection broke,
\* as long as no client gives its impervious flag back.
THEOREM GrabExcludes ==
    ASSUME "GrabControlOff" \notin Requests
    PROVE  Spec => []GrabExclusion
<1>1. Init => Inv /\ ReadyMayRun
  BY InvInit DEF Init, ReadyMayRun
<1>2. (Inv /\ ReadyMayRun) /\ [Next]_vars => (Inv /\ ReadyMayRun)'
  BY InvNext, ReadyMayRunNext
<1>3. Inv /\ ReadyMayRun => GrabExclusion
  BY DEF Inv, TypeOK, Control, ReadyMayRun, GrabExclusion
<1> QED
  BY <1>1, <1>2, <1>3, PTL DEF Spec

-----------------------------------------------------------------------------
(* When a generation ends.  Without DisconnectOff: a client that takes its *)
(* consent back does not stop a terminate timer that already runs.         *)

Agreed == \A c \in Clients : clientState[c] = "Running" => c \in terminable

\* The step raises the exception only when everyone who stays has agreed.
EndsAgreed == ~dispatchException /\ dispatchException' => Agreed'

\* A step that calls SetDispatchExceptionTimer.
LEMMA TimerIsSet ==
    ASSUME TimerAgreed, NEW due \in BOOLEAN, SetDispatchExceptionTimer(due),
           due => Agreed', Agreed => Agreed'
    PROVE  TimerAgreed' /\ EndsAgreed
  <1>1. TimerAgreed'
    BY DEF TimerAgreed, SetDispatchExceptionTimer, Agreed
  <1>2. EndsAgreed
    BY DEF EndsAgreed, SetDispatchExceptionTimer
  <1> QED
    BY <1>1, <1>2

LEMMA CloseDownEnds ==
    ASSUME Inv, TimerAgreed, NEW c \in Clients, clientState[c] # "Null",
           NEW mode \in Modes, CloseDownClient(c, mode), ThreadOK'
    PROVE  TimerAgreed' /\ EndsAgreed
  <1> DEFINE destroy == clientGone(c) \/ mode = "DestroyAll"
             states  == [clientState EXCEPT ![c] = IF destroy THEN "Null" ELSE "Retained"]
             running == IF clientState[c] = "Running" THEN nClients - 1 ELSE nClients
             last    == clientState[c] = "Running" /\ destroy /\ running = 0
             due     == last \/ ShouldDisconnectRemainingClients(states)
  <1>1. /\ SetDispatchExceptionTimer(due)
        /\ clientState' = states /\ nClients' = running
        /\ terminable \ {c} \subseteq terminable'
    BY DEF CloseDownClient
  <1>2. states[c] # "Running" /\ \A d \in Clients \ {c} : states[d] = clientState[d]
    BY DEF Inv, TypeOK
  <1>3. TableConsistent'
    BY CloseDownKeeps
  <1>4. last => Agreed'
    <2> SUFFICES ASSUME last PROVE Agreed'
      OBVIOUS
    <2>1. Cardinality(RunningIn(clientState')) = 0
      BY <1>1, <1>3 DEF TableConsistent, RunningIn
    <2>2. RunningIn(clientState') = {}
      BY <2>1, RunningFinite, FS_EmptySet
    <2> QED
      BY <2>2 DEF Agreed, RunningIn
  <1>5. ShouldDisconnectRemainingClients(states) => Agreed'
    BY <1>1, <1>2 DEF ShouldDisconnectRemainingClients, Agreed
  <1>6. Agreed => Agreed'
    BY <1>1, <1>2 DEF Agreed
  <1>7. due \in BOOLEAN
    BY DEF ShouldDisconnectRemainingClients
  <1> HIDE DEF due
  <1>8. due => Agreed'
    BY <1>4, <1>5 DEF due
  <1> QED
    BY <1>1, <1>6, <1>7, <1>8, TimerIsSet

\* A step that leaves the exception alone.
LEMMA EndsDepends ==
    ASSUME TimerAgreed, dispatchException' => dispatchException,
           exceptionTimer' => exceptionTimer, exceptionTimer' => (Agreed => Agreed')
    PROVE  TimerAgreed' /\ EndsAgreed
  BY DEF TimerAgreed, EndsAgreed, Agreed

LEMMA TimerAgreedNext ==
    ASSUME "DisconnectOff" \notin Requests, Inv, TimerAgreed, [Next]_vars
    PROVE  TimerAgreed' /\ EndsAgreed
  <1> USE DEF exitVars, tableVars
  <1>1. CASE \E c \in Clients : ClientReadyError(c) \/ CloseStraggler(c) \/ KillClient(c)
    <2>1. PICK c \in Clients : ClientReadyError(c) \/ CloseStraggler(c) \/ KillClient(c)
      BY <1>1
    <2>2. CloseDownClient(c, closeDownMode[c]) /\ closeDownMode[c] \in Modes
      BY <2>1 DEF ClientReadyError, CloseStraggler, KillClient, Inv, TypeOK, Modes
    <2>3. clientState[c] # "Null"
      BY <2>1 DEF ClientReadyError, CloseStraggler, KillClient, Condemned, Inv, Control,
                  Clean, Live
    <2>4. ThreadOK'
      BY <2>1, InvNext DEF ThreadOK, Inv, TypeOK
    <2> QED
      BY <2>2, <2>3, <2>4, CloseDownEnds
  <1>2. CASE ReadFails \/ AfterRequest
    <2>1. CASE ReadFails \/ Condemned(cur) \/ (clientGone(cur) /\ cur \in failed)
      <3>1. CloseDownClient(cur, closeDownMode[cur]) /\ closeDownMode[cur] \in Modes
            /\ cur \in Clients
        BY <1>2, <2>1 DEF ReadFails, AfterRequest, Inv, TypeOK, Modes
      <3>2. clientState[cur] # "Null"
        BY <1>2, <2>1 DEF ReadFails, Condemned, clientGone, Inv, Control, ListsConsistent,
                          Live
      <3>3. ThreadOK'
        BY InvNext DEF ThreadOK, Inv, TypeOK
      <3> QED
        BY <3>1, <3>2, <3>3, CloseDownEnds
    <2>2. CASE AfterRequest /\ ~(Condemned(cur) \/ (clientGone(cur) /\ cur \in failed))
      <3>1. UNCHANGED <<exitVars, tableVars>>
        BY <2>2 DEF AfterRequest
      <3> QED
        BY <3>1, EndsDepends DEF Agreed
    <2> QED
      BY <1>2, <2>1, <2>2
  <1>3. CASE KillNextClient
    <2> DEFINE used == {c \in Clients : clientState[c] # "Null"}
               least == MinOf(used)
    <2>1. used \in SUBSET Nat /\ used # {}
      BY <1>3, ClientsFinite DEF KillNextClient
    <2>2. least \in used /\ CloseDownClient(least, "DestroyAll")
      BY <1>3, <2>1, MinOfIsLeast DEF KillNextClient
    <2>3. ThreadOK'
      BY InvNext DEF ThreadOK, Inv, TypeOK
    <2>4. least \in Clients /\ clientState[least] # "Null"
      BY <2>2
    <2> HIDE DEF least
    <2> QED
      BY <2>2, <2>3, <2>4, CloseDownEnds DEF Modes
  <1>4. CASE KillAllTemporary
    <2> DEFINE dead == {c \in Clients : clientGone(c) /\ closeDownMode[c] = "RetainTemporary"}
               states == [c \in Clients |-> IF c \in dead THEN "Null" ELSE clientState[c]]
               due == dead # {} /\ ShouldDisconnectRemainingClients(states)
    <2>1. /\ SetDispatchExceptionTimer(due) /\ clientState' = states
          /\ terminable' = terminable \ dead
      BY <1>4 DEF KillAllTemporary
    <2>2. \A c \in Clients : states[c] = "Running" => clientState[c] = "Running" /\ c \notin dead
      OBVIOUS
    <2>3. due => Agreed'
      BY <2>1, <2>2 DEF ShouldDisconnectRemainingClients, Agreed
    <2>4. Agreed => Agreed'
      BY <2>1, <2>2 DEF Agreed
    <2>5. due \in BOOLEAN
      BY DEF ShouldDisconnectRemainingClients
    <2> HIDE DEF due
    <2> QED
      BY <2>1, <2>3, <2>4, <2>5, TimerIsSet
  <1>5. CASE EndOfGeneration
    <2>1. \A c \in Clients : clientState'[c] = "Null"
      BY <1>5 DEF EndOfGeneration
    <2>2. exceptionTimer' = exceptionTimer
      BY <1>5 DEF EndOfGeneration
    <2> QED
      BY <2>1 DEF TimerAgreed, EndsAgreed, Agreed
  <1>6. CASE DispatchExceptionCallback
    <2>1. exceptionTimer /\ UNCHANGED <<clientState, terminable>> /\ ~exceptionTimer'
      BY <1>6 DEF DispatchExceptionCallback
    <2> QED
      BY <2>1 DEF TimerAgreed, EndsAgreed, Agreed
  <1>7. CASE ProcEstablishConnection
    <2>1. /\ UNCHANGED dispatchException
          /\ ~exceptionTimer' \/ UNCHANGED <<exceptionTimer, clientState, terminable>>
      BY <1>7 DEF ProcEstablishConnection, CancelDispatchExceptionTimer
    <2> QED
      BY <2>1, EndsDepends DEF Agreed
  <1>8. CASE SetClientDisconnectMode
    <2>1. UNCHANGED <<exitVars, clientState>> /\ terminable \subseteq terminable'
      BY <1>8 DEF SetClientDisconnectMode, Request
    <2> QED
      BY <2>1, EndsDepends DEF Agreed
  <1>9. CASE AcceptConnection
    <2>1. /\ UNCHANGED <<exitVars, terminable>>
          /\ \A c \in Clients : clientState'[c] = "Running" => clientState[c] = "Running"
      BY <1>9 DEF AcceptConnection, Inv, TypeOK
    <2> QED
      BY <2>1, EndsDepends DEF Agreed
  <1>10. CASE \/ Poll \/ EstablishNewConnections \/ NothingReady \/ SliceExpired
              \/ ReadRequest \/ ReadPartial \/ ReadWouldBlock \/ LeaveLoop
              \/ ProcInitialConnection \/ OrdinaryRequest \/ GrabServerBlocked
              \/ GrabServer \/ UngrabServer \/ GrabControl \/ ClientSleep
              \/ ProcChangeCloseDownMode \/ UNCHANGED vars
              \/ \E c \in Clients : \/ ProcessWorkQueue(c) \/ ClientReadyRead(c)
                                    \/ Schedule(c) \/ Send(c) \/ HangUp(c)
                                    \/ AbortClient(c) \/ ClientSignal(c)
    <2>1. UNCHANGED <<exitVars, clientState, terminable>>
      BY <1>10
      DEF Poll, EstablishNewConnections, NothingReady, SliceExpired, ReadRequest,
          ReadPartial, ReadWouldBlock, LeaveLoop, ProcInitialConnection, OrdinaryRequest,
          GrabServerBlocked, GrabServer, UngrabServer, GrabControl, ClientSleep,
          ProcChangeCloseDownMode, vars, ProcessWorkQueue, ClientReadyRead, Schedule,
          Send, HangUp, AbortClient, ClientSignal
    <2> QED
      BY <2>1, EndsDepends DEF Agreed
  <1> QED
    BY <1>1, <1>2, <1>3, <1>4, <1>5, <1>6, <1>7, <1>8, <1>9, <1>10
    DEF Next, WaitForSomething, Serve, Handle, Finish, Peer, Happening

\* The exception that ends a generation is raised only when no running client
\* is left or those that are left have agreed, as long as no client takes its
\* consent back.
THEOREM GenerationEndsWhenEmpty ==
    ASSUME "DisconnectOff" \notin Requests
    PROVE  Spec => EndsWhenEmpty
<1>1. Init => Inv /\ TimerAgreed
  BY InvInit DEF Init, TimerAgreed
<1>2. (Inv /\ TimerAgreed) /\ [Next]_vars => (Inv /\ TimerAgreed)'
  BY InvNext, TimerAgreedNext
<1>3. Inv /\ TimerAgreed /\ [Next]_vars =>
        [~dispatchException /\ dispatchException'
           => \A c \in Clients : clientState'[c] = "Running" => c \in terminable']_vars
  BY TimerAgreedNext DEF EndsAgreed, Agreed
<1> QED
  BY <1>1, <1>2, <1>3, PTL DEF Spec, EndsWhenEmpty

-----------------------------------------------------------------------------
(* Waiters of the grab, and what hope they have                            *)

\* A waiter has put its request back.  One whose connection broke is served
\* in spite of its wait and may have been granted the grab: it is about to be
\* closed down.
Repeats ==
    \A w \in grabWaiters :
        \/ pending[w] = "GrabServer"
        \/ pc = "Check" /\ cur = w /\ w \in failed /\ grabClient = w

\* Only a running client has a GrabServer to repeat.
Asks == \A c \in Clients : pending[c] = "GrabServer" => clientState[c] = "Running"

\* The mask of waiters, as long as one bit is set, has a lowest bit in its
\* last word.
LEMMA NextGrabWaiterExists ==
    ASSUME NEW W \in SUBSET Clients, W # {}
    PROVE  NextGrabWaiter(W) # {}
  <1> DEFINE Word(w) == w \div 32
             Left == {LimitClients - Word(w) : w \in W}
             Last == {w \in W : \A v \in W : Word(v) <= Word(w)}
  <1>1. \A w \in W : w \in Nat /\ w < LimitClients /\ Word(w) \in Nat /\ Word(w) <= w
    BY ConstantsAssumption DEF Clients
  <1>2. LimitClients \in Nat
    BY ConstantsAssumption
  <1> HIDE DEF Word
  <1>3. Left \in SUBSET Nat /\ Left # {}
    BY <1>1, <1>2
  <1>4. PICK w \in W : LimitClients - Word(w) = MinOf(Left)
    BY <1>3, MinOfIsLeast
  <1>5. w \in Last
    <2> SUFFICES ASSUME NEW v \in W PROVE Word(v) <= Word(w)
      OBVIOUS
    <2>1. LimitClients - Word(w) <= LimitClients - Word(v)
      BY <1>3, <1>4, MinOfIsLeast
    <2> QED
      BY <1>1, <1>2, <2>1
  <1>6. Last \in SUBSET Nat /\ Last # {}
    BY <1>1, <1>5
  <1>7. PICK m \in Last : \A v \in Last : m <= v
    BY <1>6, MinOfIsLeast
  <1>8. \A v \in W : Word(v) <= Word(m)
    BY <1>7
  <1>9. \A v \in W : Word(v) = Word(m) => m <= v
    <2> SUFFICES ASSUME NEW v \in W, Word(v) = Word(m)
                 PROVE  m <= v
      OBVIOUS
    <2>1. v \in Last
      BY <1>8
    <2> QED
      BY <1>7, <2>1
  <1>10. m \in NextGrabWaiter(W)
    BY <1>7, <1>8, <1>9 DEF NextGrabWaiter, Word
  <1> QED
    BY <1>10

\* What most steps do: they leave the grab, the waiters and the requests that
\* were put back alone, and no running client leaves.
KeepsHope ==
    /\ UNCHANGED grabVars
    /\ \A c \in Clients : /\ pending'[c] = "GrabServer" <=> pending[c] = "GrabServer"
                          /\ clientState[c] = "Running" => clientState'[c] = "Running"
    /\ pc = "Check" =>
         \/ pc' = "Check" /\ cur' = cur /\ failed' = failed
         \/ cur \notin failed \/ clientState[cur] # "Running"

\* A client is closed down; between a request and the next, only its own.
ClosesOne(c) ==
    /\ clientState[c] # "Null"
    /\ \E mode \in Modes : CloseDownClient(c, mode)
    /\ pc = "Check" => c = cur

LEMMA HopeCases ==
    ASSUME Inv, [Next]_vars
    PROVE  \/ KeepsHope \/ GrabServerBlocked \/ GrabServer \/ UngrabServer
           \/ \E c \in Clients : ClosesOne(c)
  <1> USE DEF threadVars, tableVars, listVars, grabVars, sleepVars, connVars, exitVars
  <1>0. \A c \in Clients : closeDownMode[c] \in Modes
    BY DEF Inv, TypeOK, Modes
  <1>1. CASE \E c \in Clients : ClientReadyError(c) \/ CloseStraggler(c) \/ KillClient(c)
    <2>1. PICK c \in Clients : ClientReadyError(c) \/ CloseStraggler(c) \/ KillClient(c)
      BY <1>1
    <2>2. clientState[c] # "Null"
      BY <2>1 DEF ClientReadyError, CloseStraggler, KillClient, Condemned, Live,
                  Inv, Control, Clean
    <2>3. CloseDownClient(c, closeDownMode[c]) /\ pc # "Check"
      BY <2>1 DEF ClientReadyError, CloseStraggler, KillClient
    <2> QED
      BY <1>0, <2>2, <2>3 DEF ClosesOne
  <1>2. CASE ReadFails \/ AfterRequest
    <2>1. CASE ReadFails
      <3>1. cur \in Clients /\ clientState[cur] # "Null"
        BY <2>1 DEF ReadFails, Inv, TypeOK, Control, ListsConsistent, Live
      <3> QED
        BY <1>0, <2>1, <3>1 DEF ReadFails, ClosesOne
    <2>2. CASE AfterRequest /\ (Condemned(cur) \/ (clientGone(cur) /\ cur \in failed))
      <3>1. cur \in Clients /\ clientState[cur] # "Null"
        BY <2>2 DEF Condemned, Live, clientGone, Inv, TypeOK
      <3> QED
        BY <1>0, <2>2, <3>1 DEF AfterRequest, ClosesOne
    <2>3. CASE AfterRequest /\ ~(Condemned(cur) \/ (clientGone(cur) /\ cur \in failed))
      <3>1. UNCHANGED <<grabClient, grabWaiters, pending, clientState>>
        BY <2>3 DEF AfterRequest
      <3>2. cur \notin failed \/ clientState[cur] # "Running"
        BY <2>3 DEF Condemned, Live
      <3> QED
        BY <3>1, <3>2 DEF KeepsHope
    <2> QED
      BY <1>2, <2>1, <2>2, <2>3
  <1>3. CASE KillNextClient
    <2> DEFINE used == {c \in Clients : clientState[c] # "Null"}
               least == MinOf(used)
    <2>1. used \in SUBSET Nat /\ used # {}
      BY <1>3, ClientsFinite DEF KillNextClient
    <2>2. least \in used /\ CloseDownClient(least, "DestroyAll") /\ pc = "Shutdown"
      BY <1>3, <2>1, MinOfIsLeast DEF KillNextClient
    <2> HIDE DEF least
    <2> QED
      BY <2>2 DEF Modes, ClosesOne
  <1>4. CASE Poll \/ EstablishNewConnections \/ NothingReady
             \/ \E c \in Clients : ClientReadyRead(c) \/ Schedule(c) \/ ProcessWorkQueue(c)
    <2>1. UNCHANGED <<grabClient, grabWaiters, pending, clientState>> /\ pc # "Check"
      BY <1>4 DEF Poll, EstablishNewConnections, NothingReady,
                  ClientReadyRead, Schedule, ProcessWorkQueue
    <2> QED
      BY <2>1 DEF KeepsHope
  <1>5. CASE AcceptConnection
    <2>1. UNCHANGED <<grabClient, grabWaiters, pending>> /\ pc # "Check"
      BY <1>5 DEF AcceptConnection
    <2>2. \A c \in Clients : clientState[c] = "Running" => clientState'[c] = "Running"
      BY <1>5 DEF AcceptConnection, Inv, TypeOK, TableConsistent
    <2> QED
      BY <2>1, <2>2 DEF KeepsHope
  <1>6. CASE SliceExpired \/ ReadRequest \/ ReadPartial \/ ReadWouldBlock
    <2>1. UNCHANGED <<grabClient, grabWaiters, pending, clientState>> /\ pc # "Check"
      BY <1>6 DEF SliceExpired, ReadRequest, ReadPartial, ReadWouldBlock
    <2> QED
      BY <2>1 DEF KeepsHope
  <1>7. CASE ProcInitialConnection \/ ProcEstablishConnection
    <2>1. /\ UNCHANGED <<grabClient, grabWaiters>> /\ pc # "Check" /\ cur \in Clients
          /\ pending[cur] # "GrabServer" /\ clientState[cur] # "Running"
      BY <1>7 DEF ProcInitialConnection, ProcEstablishConnection, Executing, Inv, TypeOK
    <2>2. \E p \in {"none", "EstablishConnection"} :
             pending' = pending \/ pending' = [pending EXCEPT ![cur] = p]
      BY <1>7 DEF ProcInitialConnection, ProcEstablishConnection, PutBack
    <2>3. clientState' = clientState \/ clientState' = [clientState EXCEPT ![cur] = "Running"]
      BY <1>7 DEF ProcInitialConnection, ProcEstablishConnection
    <2> QED
      BY <2>1, <2>2, <2>3 DEF KeepsHope, Inv, TypeOK
  <1>8. CASE OrdinaryRequest \/ ProcChangeCloseDownMode \/ SetClientDisconnectMode
             \/ ClientSleep \/ GrabControl
    <2>1. UNCHANGED <<grabClient, grabWaiters, pending, clientState>> /\ pc # "Check"
      BY <1>8 DEF OrdinaryRequest, ProcChangeCloseDownMode, SetClientDisconnectMode,
                  ClientSleep, GrabControl, Request, Executing
    <2> QED
      BY <2>1 DEF KeepsHope
  <1>9. CASE KillAllTemporary
    <2>1. UNCHANGED <<grabClient, grabWaiters, pending>> /\ pc # "Check"
      BY <1>9 DEF KillAllTemporary, Request, Executing
    <2>2. \A c \in Clients : clientState[c] = "Running" => clientState'[c] = "Running"
      BY <1>9 DEF KillAllTemporary, clientGone
    <2> QED
      BY <2>1, <2>2 DEF KeepsHope
  <1>10. CASE LeaveLoop \/ EndOfGeneration \/ DispatchExceptionCallback
    <2>1. UNCHANGED <<grabClient, grabWaiters, pending, clientState>> /\ pc # "Check"
      BY <1>10 DEF LeaveLoop, EndOfGeneration, DispatchExceptionCallback
    <2> QED
      BY <2>1 DEF KeepsHope
  <1>11. CASE UNCHANGED vars \/ \E c \in Clients : Send(c) \/ HangUp(c) \/ ClientSignal(c)
    <2>1. UNCHANGED <<grabClient, grabWaiters, pending, clientState, pc, cur, failed>>
      BY <1>11 DEF vars, Send, HangUp, ClientSignal
    <2> QED
      BY <2>1 DEF KeepsHope
  <1>12. CASE \E c \in Clients : AbortClient(c)
    <2>1. UNCHANGED <<grabClient, grabWaiters, pending, clientState>> /\ pc # "Check"
      BY <1>12 DEF AbortClient
    <2> QED
      BY <2>1 DEF KeepsHope
  <1> QED
    BY <1>1, <1>2, <1>3, <1>4, <1>5, <1>6, <1>7, <1>8, <1>9, <1>10, <1>11, <1>12
    DEF Next, WaitForSomething, Serve, Handle, Finish, Peer, Happening

\* The part of the invariant about the waiters.
Parked == Repeats /\ Asks

\* A client that waits for the grab, or was woken to repeat its request, is
\* closed down.
Gives(c) == Live(c) /\ ~Live(c)' /\ (c \in grabWaiters \/ pending[c] = "GrabServer")

HopeStays == WaitersHaveHope => WaitersHaveHope' \/ \E c \in Clients : Gives(c)

LEMMA KeepsHopeStep ==
    ASSUME Inv, Parked, KeepsHope
    PROVE  Parked' /\ HopeStays
  <1> USE DEF KeepsHope, grabVars
  <1>1. Asks'
    BY DEF Parked, Asks
  <1>2. Repeats'
    <2> SUFFICES ASSUME NEW w \in grabWaiters, pending[w] # "GrabServer"
                 PROVE  pc' = "Check" /\ cur' = w /\ w \in failed' /\ grabClient' = w
      BY DEF Repeats, Inv, TypeOK
    <2>1. pc = "Check" /\ cur = w /\ w \in failed /\ grabClient = w
      BY DEF Parked, Repeats
    <2>2. clientState[w] = "Running"
      BY DEF Inv, Owners
    <2> QED
      BY <2>1, <2>2
  <1>3. WaitersHaveHope => WaitersHaveHope'
    <2> SUFFICES ASSUME WaitersHaveHope, grabWaiters # {}, grabClient = NoClient
                 PROVE  \E c \in Clients \ grabWaiters : Live(c)' /\ pending'[c] = "GrabServer"
      BY DEF WaitersHaveHope
    <2>1. PICK c \in Clients \ grabWaiters : Live(c) /\ pending[c] = "GrabServer"
      BY DEF WaitersHaveHope
    <2>2. clientState'[c] = "Running"
      BY <2>1 DEF Parked, Asks
    <2> QED
      BY <2>1, <2>2 DEF Live
  <1> QED
    BY <1>1, <1>2, <1>3 DEF Parked, HopeStays

LEMMA GrabServerBlockedHope ==
    ASSUME Inv, Parked, GrabServerBlocked
    PROVE  Parked' /\ HopeStays
  <1>1. /\ pc = "Execute" /\ cur \in Clients /\ clientState[cur] = "Running"
        /\ pending' = [pending EXCEPT ![cur] = "GrabServer"]
        /\ grabWaiters' = grabWaiters \cup {cur}
        /\ UNCHANGED <<clientState, grabClient>> /\ grabClient # NoClient
    BY DEF GrabServerBlocked, PutBack, Request, Executing, tableVars, Inv, TypeOK
  <1>2. \A w \in grabWaiters : w \in Clients /\ pending[w] = "GrabServer"
    BY <1>1 DEF Parked, Repeats, Inv, TypeOK
  <1>3. Parked'
    BY <1>1, <1>2 DEF Parked, Repeats, Asks, Inv, TypeOK
  <1> QED
    BY <1>1, <1>3 DEF HopeStays, WaitersHaveHope

LEMMA GrabServerHope ==
    ASSUME Inv, Parked, GrabServer
    PROVE  Parked' /\ HopeStays
  <1>1. /\ pc = "Execute" /\ pc' = "Check" /\ cur' = cur /\ cur \in Clients
        /\ pending' = [pending EXCEPT ![cur] = "none"]
        /\ UNCHANGED <<clientState, failed, grabWaiters>> /\ grabClient' = cur
    BY DEF GrabServer, Request, Executing, tableVars, Inv, TypeOK
  <1>2. \A w \in grabWaiters : w \in Clients /\ pending[w] = "GrabServer"
    BY <1>1 DEF Parked, Repeats, Inv, TypeOK
  <1>3. cur \in grabWaiters => cur \in failed
    BY <1>1, WaitersAreIgnored DEF Inv, Control, Counted
  <1>4. Parked'
    BY <1>1, <1>2, <1>3 DEF Parked, Repeats, Asks, Inv, TypeOK
  <1>5. grabClient' # NoClient
    BY <1>1 DEF Clients, NoClient
  <1> QED
    BY <1>4, <1>5 DEF HopeStays, WaitersHaveHope

\* The client that is woken will repeat its request.
LEMMA UngrabServerHope ==
    ASSUME Inv, Parked, UngrabServer
    PROVE  Parked' /\ HopeStays
  <1>1. /\ pc = "Execute" /\ UNCHANGED <<clientState, pending>>
        /\ grabWaiters' = grabWaiters \ NextGrabWaiter(grabWaiters)
    BY DEF UngrabServer, WaitersAfterUngrab, Request, Executing, tableVars
  <1>2. \A w \in grabWaiters : w \in Clients /\ pending[w] = "GrabServer"
                               /\ clientState[w] = "Running"
    BY <1>1 DEF Parked, Repeats, Inv, TypeOK, Owners
  <1>3. Parked'
    BY <1>1, <1>2 DEF Parked, Repeats, Asks
  <1>4. ASSUME grabWaiters = {} PROVE HopeStays
    BY <1>1, <1>4 DEF HopeStays, WaitersHaveHope
  <1>5. ASSUME grabWaiters # {} PROVE HopeStays
    <2>1. PICK w \in grabWaiters : w \in NextGrabWaiter(grabWaiters)
      BY <1>5, NextGrabWaiterExists, NextGrabWaiterWaits DEF Inv, TypeOK
    <2>2. w \in Clients \ grabWaiters' /\ Live(w)' /\ pending'[w] = "GrabServer"
      BY <1>1, <1>2, <2>1 DEF Live
    <2>3. WaitersHaveHope'
      BY <2>2 DEF WaitersHaveHope
    <2> QED
      BY <2>3 DEF HopeStays
  <1> QED
    BY <1>3, <1>4, <1>5

\* A client that neither waits nor was woken takes no hope with it.
LEMMA ClosesOneHope ==
    ASSUME Inv, Parked, NEW c \in Clients, ClosesOne(c)
    PROVE  Parked' /\ HopeStays
  <1>1. PICK mode \in Modes : CloseDownClient(c, mode)
    BY DEF ClosesOne
  <1>2. /\ clientState[c] # "Null" /\ clientState'[c] \in {"Null", "Retained"}
        /\ \A d \in Clients \ {c} : clientState'[d] = clientState[d]
        /\ c \notin grabWaiters'
    BY <1>1, CloseDownOthers DEF ClosesOne
  <1>3. pending' = [pending EXCEPT ![c] = "none"]
    BY <1>1 DEF CloseDownClient
  <1>4. grabWaiters' \subseteq grabWaiters
    BY <1>1, NextGrabWaiterWaits DEF CloseDownClient, WaitersAfterUngrab
  <1>5. Asks'
    BY <1>2, <1>3 DEF Parked, Asks, Inv, TypeOK
  <1>6. Repeats'
    <2> SUFFICES ASSUME NEW w \in grabWaiters' PROVE pending'[w] = "GrabServer"
      BY DEF Repeats
    <2>1. w # c /\ w \in grabWaiters /\ w \in Clients
      BY <1>2, <1>4 DEF Inv, TypeOK
    <2>2. pending[w] = "GrabServer"
      BY <2>1 DEF Parked, Repeats, ClosesOne
    <2> QED
      BY <1>3, <2>1, <2>2 DEF Inv, TypeOK
  <1>7. ASSUME WaitersHaveHope, ~Gives(c), grabWaiters' # {}, grabClient' = NoClient
        PROVE  \E d \in Clients \ grabWaiters' : Live(d)' /\ pending'[d] = "GrabServer"
    <2>1. ~Live(c)'
      BY <1>2 DEF Live
    <2>2. c \notin grabWaiters
      BY <1>7, <2>1 DEF Gives, Inv, Clean
    <2>3. pending[c] # "GrabServer"
      BY <1>7, <2>1 DEF Gives, Parked, Asks, Live
    <2>4. CASE ~clientGone(c) /\ grabClient = c
      <3>1. grabWaiters' = (grabWaiters \ NextGrabWaiter(grabWaiters)) \ {c}
        BY <1>1, <2>4 DEF CloseDownClient, WaitersAfterUngrab
      <3>2. PICK w \in grabWaiters : w \in NextGrabWaiter(grabWaiters)
        BY <1>4, <1>7, NextGrabWaiterExists, NextGrabWaiterWaits DEF Inv, TypeOK
      <3>3. w # c /\ w \in Clients \ grabWaiters' /\ clientState[w] = "Running"
        BY <2>2, <3>1, <3>2 DEF Inv, TypeOK, Owners
      <3>4. pending[w] = "GrabServer"
        BY <2>4, <3>2, <3>3 DEF Parked, Repeats
      <3>5. Live(w)' /\ pending'[w] = "GrabServer"
        BY <1>2, <1>3, <3>3, <3>4 DEF Live, Inv, TypeOK
      <3> QED
        BY <3>3, <3>5
    <2>5. CASE clientGone(c) \/ grabClient # c
      <3>1. grabClient = NoClient
        BY <1>1, <1>7, <2>5 DEF CloseDownClient
      <3>2. grabWaiters # {}
        BY <1>4, <1>7
      <3>3. PICK d \in Clients \ grabWaiters : Live(d) /\ pending[d] = "GrabServer"
        BY <1>7, <3>1, <3>2 DEF WaitersHaveHope
      <3>4. d # c /\ d \in Clients \ grabWaiters'
        BY <1>4, <2>3, <3>3
      <3>5. Live(d)' /\ pending'[d] = "GrabServer"
        BY <1>2, <1>3, <3>3, <3>4 DEF Live, Inv, TypeOK
      <3> QED
        BY <3>4, <3>5
    <2> QED
      BY <2>4, <2>5
  <1>8. HopeStays
    BY <1>7 DEF HopeStays, WaitersHaveHope
  <1> QED
    BY <1>5, <1>6, <1>8 DEF Parked

LEMMA HopeNext ==
    ASSUME Inv, Parked, [Next]_vars
    PROVE  Parked' /\ HopeStays
  BY HopeCases, KeepsHopeStep, GrabServerBlockedHope, GrabServerHope, UngrabServerHope,
     ClosesOneHope

LEMMA ParkedInit == Init => Parked
  BY DEF Init, Parked, Repeats, Asks

\* The hope of the waiters is lost in one way only: a client that waits too,
\* or that was woken and has not repeated its request, is closed down.  The
\* wake-up goes to a single client, and dies with it (UngrabServer,
\* CloseDownClient).
THEOREM HopeIsLostByLeaving ==
    Spec => [][WaitersHaveHope => WaitersHaveHope' \/ \E c \in Clients : Gives(c)]_vars
<1>1. Init => Inv /\ Parked
  BY InvInit, ParkedInit
<1>2. (Inv /\ Parked) /\ [Next]_vars => (Inv /\ Parked)'
  BY InvNext, HopeNext
<1>3. (Inv /\ Parked) /\ [Next]_vars
        => [WaitersHaveHope => WaitersHaveHope' \/ \E c \in Clients : Gives(c)]_vars
  BY HopeNext DEF HopeStays
<1> QED
  BY <1>1, <1>2, <1>3, PTL DEF Spec

\* With two clients a waiter is alone, and the other one holds the grab.
OneWaits == grabWaiters # {} => grabClient # NoClient /\ grabClient \notin grabWaiters

LEMMA WaiterIsAlone ==
    ASSUME LimitClients <= 3, TypeOK, OneWaits
    PROVE  \A w \in grabWaiters : NextGrabWaiter(grabWaiters) = {w} /\ grabWaiters = {w}
  <1> SUFFICES ASSUME NEW w \in grabWaiters
               PROVE  NextGrabWaiter(grabWaiters) = {w} /\ grabWaiters = {w}
    OBVIOUS
  <1>1. grabClient \in Clients /\ grabClient \notin grabWaiters /\ grabWaiters \subseteq Clients
    BY DEF OneWaits, TypeOK
  <1>2. \A v \in Clients : v \in {1, 2}
    BY ConstantsAssumption DEF Clients
  <1>3. grabWaiters = {w}
    BY <1>1, <1>2
  <1>4. NextGrabWaiter(grabWaiters) \in SUBSET grabWaiters
    BY NextGrabWaiterWaits
  <1>5. NextGrabWaiter(grabWaiters) # {}
    BY <1>1, NextGrabWaiterExists
  <1> QED
    BY <1>3, <1>4, <1>5

LEMMA OneWaitsNext ==
    ASSUME LimitClients <= 3, Inv, OneWaits, [Next]_vars
    PROVE  OneWaits'
  <1>1. CASE KeepsHope
    BY <1>1 DEF KeepsHope, grabVars, OneWaits
  <1>2. CASE GrabServerBlocked
    BY <1>2 DEF GrabServerBlocked, OneWaits
  <1>3. CASE GrabServer
    <2>1. cur \in Clients /\ grabClient' = cur /\ grabWaiters' = grabWaiters
          /\ grabClient \in {NoClient, cur}
      BY <1>3 DEF GrabServer, Inv, TypeOK
    <2> QED
      BY <2>1 DEF OneWaits, Clients, NoClient
  <1>4. CASE UngrabServer
    <2>1. grabWaiters' = grabWaiters \ NextGrabWaiter(grabWaiters)
      BY <1>4 DEF UngrabServer, WaitersAfterUngrab
    <2> QED
      BY <2>1, WaiterIsAlone DEF OneWaits, Inv
  <1>5. ASSUME NEW c \in Clients, ClosesOne(c) PROVE OneWaits'
    <2>1. PICK mode \in Modes : CloseDownClient(c, mode)
      BY <1>5 DEF ClosesOne
    <2>2. grabWaiters' \subseteq grabWaiters
      BY <2>1, NextGrabWaiterWaits DEF CloseDownClient, WaitersAfterUngrab
    <2>3. CASE ~clientGone(c) /\ grabClient = c
      <3>1. grabWaiters' = (grabWaiters \ NextGrabWaiter(grabWaiters)) \ {c}
        BY <2>1, <2>3 DEF CloseDownClient, WaitersAfterUngrab
      <3> QED
        BY <3>1, WaiterIsAlone DEF OneWaits, Inv
    <2>4. CASE clientGone(c) \/ grabClient # c
      <3>1. grabClient' = grabClient
        BY <2>1, <2>4 DEF CloseDownClient
      <3> QED
        BY <2>2, <3>1 DEF OneWaits
    <2> QED
      BY <2>3, <2>4
  <1> QED
    BY <1>1, <1>2, <1>3, <1>4, <1>5, HopeCases

\* With two clients a waiter always has hope: the other one holds the grab,
\* and both UngrabServer and CloseDownClient wake the only waiter there is.
THEOREM TwoHaveHope ==
    ASSUME LimitClients <= 3
    PROVE  Spec => []WaitersHaveHope
<1>1. Init => Inv /\ OneWaits
  BY InvInit DEF Init, OneWaits
<1>2. (Inv /\ OneWaits) /\ [Next]_vars => (Inv /\ OneWaits)'
  BY InvNext, OneWaitsNext
<1>3. Inv /\ OneWaits => WaitersHaveHope
  BY DEF OneWaits, WaitersHaveHope
<1> QED
  BY <1>1, <1>2, <1>3, PTL DEF Spec

-----------------------------------------------------------------------------
(* Any number of clients, none of which leaves                             *)

\* Nobody hangs up, is killed or is disconnected by a reset.
NobodyLeaves == Quitters = {} /\ "KillClient" \notin Requests /\ AtReset \subseteq {"none"}

\* Every connection is whole, a client fails only while its setup is refused,
\* and nothing ends the generation.
AllStay ==
    /\ hungUp = {} /\ ~dispatchException /\ ~exceptionTimer
    /\ pc \notin {"Shutdown", "Exit"}
    /\ \A c \in Clients : /\ <<c, "ERROR">> \notin reported
                          /\ Live(c) => c \in connected
    /\ \A c \in failed : clientGone(c) \/ (pc = "Check" /\ cur = c /\ clientState[c] = "Initial")

\* No client that runs is closed down.
RunnersStay == \A c \in Clients : clientState[c] = "Running" => clientState'[c] = "Running"

\* A step that closes nobody keeps everyone.
LEMMA AllStayKept ==
    ASSUME AllStay, UNCHANGED <<clientState, hungUp, connected, dispatchException, exceptionTimer>>,
           pc' \notin {"Shutdown", "Exit"}, reported' \subseteq reported, failed' \subseteq failed,
           pc = "Check" => failed' = {} \/ (pc' = "Check" /\ cur' = cur)
                           \/ \A c \in failed : clientGone(c)
    PROVE  AllStay' /\ RunnersStay
  <1>1. /\ hungUp' = {} /\ ~dispatchException' /\ ~exceptionTimer'
        /\ \A c \in Clients : <<c, "ERROR">> \notin reported' /\ (Live(c)' => c \in connected')
    BY DEF AllStay, Live
  <1>2. \A c \in failed' :
           clientGone(c)' \/ (pc' = "Check" /\ cur' = c /\ clientState'[c] = "Initial")
    BY DEF AllStay, clientGone
  <1> QED
    BY <1>1, <1>2 DEF AllStay, RunnersStay

\* A client that does not run is closed down.
LEMMA CloseDownStays ==
    ASSUME NobodyLeaves, Inv, AllStay, NEW c \in Clients, NEW mode \in Modes,
           CloseDownClient(c, mode), clientState[c] \notin {"Null", "Running"},
           pc' \notin {"Check", "Shutdown", "Exit"}, \A d \in failed : clientGone(d) \/ d = c
    PROVE  AllStay' /\ RunnersStay
  <1>1. /\ clientState' \in [Clients -> {"Null", "Initial", "Running", "Retained"}]
        /\ clientState'[c] \in {"Null", "Retained"}
        /\ \A d \in Clients \ {c} : clientState'[d] = clientState[d]
    BY CloseDownOthers
  <1>2. hungUp' = {} /\ connected' = connected \ {c} /\ reported' \subseteq reported
    BY DEF CloseDownClient, AllStay
  <1>3. ~dispatchException' /\ ~exceptionTimer'
    <2>1. dispatchExceptionAtReset = "none"
      BY DEF Inv, TypeOK, NobodyLeaves
    <2> QED
      BY <2>1 DEF CloseDownClient, SetDispatchExceptionTimer, AllStay
  <1>4. failed' \subseteq failed /\ (clientState'[c] = "Null" => c \notin failed')
    BY DEF CloseDownClient, Inv, TypeOK
  <1>5. \A d \in failed' : clientGone(d)'
    BY <1>1, <1>4 DEF clientGone, Inv, TypeOK
  <1>6. RunnersStay
    BY <1>1 DEF RunnersStay
  <1>7. \A d \in Clients : <<d, "ERROR">> \notin reported' /\ (Live(d)' => d \in connected')
    BY <1>1, <1>2 DEF AllStay, Live
  <1> QED
    BY <1>2, <1>3, <1>5, <1>6, <1>7 DEF AllStay

LEMMA AllStayNext ==
    ASSUME NobodyLeaves, Inv, AllStay, [Next]_vars
    PROVE  AllStay' /\ RunnersStay
  <1> USE DEF threadVars, tableVars, listVars, grabVars, sleepVars, connVars, exitVars
  <1>0. /\ \A c \in Clients : closeDownMode[c] \in Modes
        /\ pc # "Check" => \A c \in failed : clientGone(c)
    BY DEF Inv, TypeOK, Modes, AllStay
  <1>1. CASE \E c \in Clients : ClientReadyError(c) \/ KillClient(c) \/ HangUp(c) \/ AbortClient(c)
    BY <1>1 DEF ClientReadyError, KillClient, HangUp, AbortClient, NobodyLeaves, AllStay
  <1>2. CASE \E c \in Clients : CloseStraggler(c)
    <2>1. PICK c \in Clients : CloseStraggler(c)
      BY <1>2
    <2>2. clientState[c] = "Initial" /\ CloseDownClient(c, closeDownMode[c]) /\ pc' = "Accept"
      BY <1>0, <2>1 DEF CloseStraggler, Condemned, Live, clientGone
    <2>3. pc # "Check"
      BY <2>1 DEF CloseStraggler
    <2> QED
      BY <1>0, <2>2, <2>3, CloseDownStays
  <1>3. CASE ReadFails
    <2>1. cur \in Clients /\ Live(cur)
      BY <1>3 DEF ReadFails, Inv, TypeOK, Control, ListsConsistent
    <2> QED
      BY <1>3, <2>1 DEF ReadFails, AllStay
  <1>4. CASE AfterRequest
    <2>1. CASE Condemned(cur) \/ (clientGone(cur) /\ cur \in failed)
      <3>1. clientState[cur] \notin {"Null", "Running"} /\ cur \in Clients
        BY <2>1 DEF AllStay, Condemned, Live, clientGone, Inv, TypeOK
      <3>2. pc' = "Wait" /\ CloseDownClient(cur, closeDownMode[cur])
        BY <1>4, <2>1 DEF AfterRequest
      <3>3. \A d \in failed : clientGone(d) \/ d = cur
        BY DEF AllStay
      <3> QED
        BY <1>0, <3>1, <3>2, <3>3, CloseDownStays
    <2>2. CASE ~(Condemned(cur) \/ (clientGone(cur) /\ cur \in failed))
      <3>1. \A c \in failed : clientGone(c)
        BY <2>2 DEF AllStay, Condemned, Live
      <3>2. pc' \in {"Serve", "Wait"}
            /\ UNCHANGED <<reported, clientState, failed, connected, hungUp,
                           dispatchException, exceptionTimer>>
        BY <1>4, <2>2 DEF AfterRequest
      <3> QED
        BY <3>1, <3>2, AllStayKept
    <2> QED
      BY <2>1, <2>2
  <1>5. CASE KillNextClient \/ EndOfGeneration \/ LeaveLoop \/ DispatchExceptionCallback
    BY <1>5 DEF KillNextClient, EndOfGeneration, LeaveLoop, DispatchExceptionCallback, AllStay
  <1>6. CASE Poll
    <2>1. \A c \in Clients : <<c, "ERROR">> \notin reported'
      BY <1>6 DEF Poll, EpollEvents, AllStay
    <2>2. pc = "Wait" /\ pc' = "Deliver"
          /\ UNCHANGED <<clientState, failed, hungUp, connected, dispatchException, exceptionTimer>>
      BY <1>6 DEF Poll
    <2> QED
      BY <2>1, <2>2 DEF AllStay, RunnersStay, Live, clientGone
  <1>7. CASE AcceptConnection
    <2>1. /\ pc = "Accept" /\ pc' = "Deliver"
          /\ UNCHANGED <<reported, failed, hungUp, dispatchException, exceptionTimer>>
      BY <1>7 DEF AcceptConnection
    <2>2. CASE UNCHANGED <<clientState, connected>>
      BY <2>1, <2>2, AllStayKept
    <2>3. CASE /\ nextFreeClientID # LimitClients
               /\ clientState' = [clientState EXCEPT ![nextFreeClientID] = "Initial"]
               /\ connected' = connected \cup {nextFreeClientID}
      <3>1. nextFreeClientID \in Clients /\ clientState[nextFreeClientID] = "Null"
        BY <2>3, ConstantsAssumption DEF Inv, TypeOK, TableConsistent, Clients
      <3>2. \A c \in failed : c \in Clients /\ clientGone(c) /\ clientGone(c)'
        BY <1>0, <2>1, <2>3, <3>1 DEF clientGone, Inv, TypeOK
      <3>3. RunnersStay
        BY <2>3, <3>1 DEF RunnersStay, Inv, TypeOK
      <3>4. \A c \in Clients : Live(c)' => c \in connected'
        BY <2>3 DEF AllStay, Live, Inv, TypeOK
      <3> QED
        BY <2>1, <3>2, <3>3, <3>4 DEF AllStay
    <2> QED
      BY <1>7, <2>2, <2>3 DEF AcceptConnection
  <1>8. CASE EstablishNewConnections \/ NothingReady \/ SliceExpired \/ ReadRequest
             \/ ReadPartial \/ ReadWouldBlock
             \/ \E c \in Clients : ClientReadyRead(c) \/ Schedule(c) \/ ProcessWorkQueue(c)
    <2>1. /\ pc # "Check" /\ pc' \notin {"Shutdown", "Exit"} /\ reported' \subseteq reported
          /\ UNCHANGED <<clientState, failed, hungUp, connected, dispatchException, exceptionTimer>>
      BY <1>8 DEF EstablishNewConnections, NothingReady, SliceExpired, ReadRequest, ReadPartial,
                  ReadWouldBlock, ClientReadyRead, Schedule, ProcessWorkQueue, AllStay
    <2> QED
      BY <2>1, AllStayKept
  <1>9. CASE OrdinaryRequest \/ ProcChangeCloseDownMode \/ SetClientDisconnectMode
             \/ GrabControl \/ ClientSleep \/ GrabServerBlocked \/ GrabServer \/ UngrabServer
    <2>1. /\ pc # "Check" /\ pc' = "Check" /\ reported' \subseteq reported
          /\ UNCHANGED <<clientState, failed, hungUp, connected, dispatchException, exceptionTimer>>
      BY <1>9 DEF OrdinaryRequest, ProcChangeCloseDownMode, SetClientDisconnectMode,
                  GrabControl, ClientSleep, GrabServerBlocked, GrabServer, UngrabServer,
                  Request, Executing
    <2> QED
      BY <2>1, AllStayKept
  <1>10. CASE ProcInitialConnection \/ ProcEstablishConnection
    <2>1. /\ pc = "Execute" /\ pc' = "Check" /\ cur' = cur /\ reported' = reported
          /\ cur \in Clients /\ clientState[cur] = "Initial"
          /\ UNCHANGED <<hungUp, connected, dispatchException>> /\ ~exceptionTimer'
      BY <1>10 DEF ProcInitialConnection, ProcEstablishConnection, Executing, Inv, TypeOK,
                   CancelDispatchExceptionTimer, AllStay
    <2>2. \/ clientState' = clientState /\ failed' \in {failed, failed \cup {cur}}
          \/ clientState' = [clientState EXCEPT ![cur] = "Running"] /\ failed' = failed
      BY <1>10 DEF ProcInitialConnection, ProcEstablishConnection
    <2>3. \A c \in failed : c \in Clients /\ c # cur /\ clientState[c] = "Retained"
      BY <1>0, <2>1 DEF clientGone, Inv, TypeOK
    <2>4. RunnersStay
      BY <2>1, <2>2 DEF RunnersStay, Inv, TypeOK
    <2>5. \A c \in Clients : Live(c)' => c \in connected'
      BY <2>1, <2>2 DEF AllStay, Live, Inv, TypeOK
    <2>6. \A c \in failed' : \/ clientState'[c] = "Retained"
                             \/ cur' = c /\ clientState'[c] = "Initial"
      BY <2>1, <2>2, <2>3 DEF Inv, TypeOK
    <2> QED
      BY <2>1, <2>4, <2>5, <2>6 DEF AllStay, clientGone
  <1>11. CASE KillAllTemporary
    <2> DEFINE dead == {c \in Clients : clientGone(c) /\ closeDownMode[c] = "RetainTemporary"}
    <2>1. /\ pc = "Execute" /\ pc' = "Check" /\ reported' = reported
          /\ clientState' = [c \in Clients |-> IF c \in dead THEN "Null" ELSE clientState[c]]
          /\ failed' = failed \ dead /\ UNCHANGED <<hungUp, connected>>
      BY <1>11 DEF KillAllTemporary, Request, Executing
    <2>2. ~dispatchException' /\ ~exceptionTimer'
      <3>1. dispatchExceptionAtReset = "none"
        BY DEF Inv, TypeOK, NobodyLeaves
      <3> QED
        BY <1>11, <3>1 DEF KillAllTemporary, SetDispatchExceptionTimer, AllStay
    <2>3. RunnersStay
      BY <2>1 DEF RunnersStay, clientGone
    <2>4. \A c \in failed' : clientGone(c)'
      BY <1>0, <2>1 DEF clientGone, Inv, TypeOK
    <2>5. \A c \in Clients : Live(c)' => c \in connected'
      BY <2>1 DEF AllStay, Live
    <2> QED
      BY <2>1, <2>2, <2>3, <2>4, <2>5 DEF AllStay
  <1>12. CASE UNCHANGED vars \/ \E c \in Clients : Send(c) \/ ClientSignal(c)
    <2>1. UNCHANGED <<pc, cur, reported, clientState, failed, hungUp, connected,
                      dispatchException, exceptionTimer>>
      BY <1>12 DEF vars, Send, ClientSignal
    <2>2. pc' \notin {"Shutdown", "Exit"}
      BY <2>1 DEF AllStay
    <2> QED
      BY <2>1, <2>2, AllStayKept
  <1> QED
    BY <1>1, <1>2, <1>3, <1>4, <1>5, <1>6, <1>7, <1>8, <1>9, <1>10, <1>11, <1>12
    DEF Next, WaitForSomething, Serve, Handle, Finish, Peer, Happening

\* A waiter has hope, for any number of clients, as long as none leaves: the
\* one that UngrabServer wakes repeats its request and in the end wakes the
\* next.
THEOREM FaithfulHaveHope ==
    ASSUME NobodyLeaves
    PROVE  Spec => []WaitersHaveHope
<1> DEFINE Hopeful == Inv /\ Parked /\ AllStay /\ WaitersHaveHope
<1>1. Init => Hopeful
  <2> SUFFICES ASSUME Init PROVE Hopeful
    OBVIOUS
  <2>1. \A c \in Clients : Live(c) => c \in connected
    BY ConstantsAssumption DEF Init, Live, Clients
  <2>2. AllStay
    BY <2>1 DEF Init, AllStay
  <2>3. WaitersHaveHope
    BY DEF Init, WaitersHaveHope
  <2> QED
    BY <2>2, <2>3, InvInit, ParkedInit
<1>2. Hopeful /\ [Next]_vars => Hopeful'
  <2> SUFFICES ASSUME Hopeful, [Next]_vars PROVE Hopeful'
    OBVIOUS
  <2>1. Inv' /\ Parked' /\ HopeStays /\ AllStay' /\ RunnersStay
    BY InvNext, HopeNext, AllStayNext
  <2>2. ASSUME NEW c \in Clients, Gives(c) PROVE FALSE
    <3>1. clientState[c] = "Running"
      BY <2>2 DEF Gives, Inv, Owners, Parked, Asks
    <3> QED
      BY <2>1, <2>2, <3>1 DEF RunnersStay, Gives, Live
  <2> QED
    BY <2>1, <2>2 DEF HopeStays
<1> QED
  BY <1>1, <1>2, PTL DEF Spec

=============================================================================
