--------------------------- MODULE SyncGrabsProofs --------------------------
(***************************************************************************)
(* Proofs about SyncGrabs for any clients, any number of windows, any      *)
(* passive grabs and any number of events.                                 *)
(*                                                                         *)
(* Everything that changes a freeze ends in ComputeFreezes, so the proof   *)
(* is about that first; then about ActivateGrab and DeactivateGrab, which  *)
(* end in it, about the processing of an event, and last about the actions.*)
(***************************************************************************)
EXTENDS SyncGrabs, TLAPS

\* What ties the close-down of a client and a replay to the rest: the client
\* stays until it holds nothing, and a device whose event is replayed has
\* just been given back.
ClosingInv ==
    /\ closing # NoClient => closing \in alive
    /\ pc = "Idle" => closing = NoClient
    /\ pc = "Release" => closing # NoClient
    /\ pc = "Release" /\ done => todo = Devices
    /\ closing # NoClient /\ pc # "Release" => ~done

ReplayInv == pc = "Replay" => grab[replay.device] = NoGrab

Inv ==
    /\ TypeOK /\ FrozenIsHeld /\ OtherIsActive /\ GoneHoldNothing
    /\ NothingLeftBehind /\ ClosingInv /\ ReplayInv

Replays == [device : Devices, window : Windows \cup {0}, kind : Kinds \cup {NoEvent}]

\* The part of TypeOK that freezing and processing events can change.
FreezeTypes ==
    /\ grab \in [Devices -> Grabs \cup {NoGrab}]
    /\ state \in [Devices -> States]
    /\ \A d \in Devices : grab[d] = NoGrab <=> state[d] = "NOT_GRABBED"
    /\ other \in [Devices -> Grabs \cup {NoGrab}]
    /\ frozen \in [Devices -> BOOLEAN]
    /\ event \in [Devices -> Kinds \cup {NoEvent}]
    /\ pending \in Seq(PendingEvents)
    /\ replay \in Replays
    /\ pc \in {"Idle", "Replay", "Play", "Release"}

HistoryTypes ==
    /\ down \in [Devices -> BOOLEAN] /\ pressed \in [Devices -> BOOLEAN]
    /\ read \in [Devices -> Nat] /\ handled \in [Devices -> Nat]

OwnerTypes ==
    /\ alive \subseteq Clients /\ passive \subseteq Passives
    /\ closing \in Clients \cup {NoClient}
    /\ todo \subseteq Devices /\ done \in BOOLEAN

LEMMA TypeOKParts == TypeOK <=> FreezeTypes /\ HistoryTypes /\ OwnerTypes
BY DEF TypeOK, FreezeTypes, HistoryTypes, OwnerTypes, Replays

LEMMA Paired ==
    ASSUME NEW d \in Devices
    PROVE  /\ GetPairedDevice(d) \in Devices
           /\ GetPairedDevice(d) # d
           /\ GetPairedDevice(GetPairedDevice(d)) = d
           /\ \A x \in Devices : x = d \/ x = GetPairedDevice(d)
BY DEF Devices, GetPairedDevice

LEMMA PendingDevices ==
    ASSUME NEW queue \in Seq(PendingEvents), NEW i \in DOMAIN queue
    PROVE  queue[i] \in PendingEvents /\ queue[i].device \in Devices
<1>1. i \in 1 .. Len(queue)
  OBVIOUS
<1>2. queue[i] \in PendingEvents
  BY <1>1
<1> QED BY <1>2 DEF PendingEvents

LEMMA NoReplayType == NoReplay \in Replays
BY DEF NoReplay, Replays, Devices, NoEvent

-----------------------------------------------------------------------------
(* What every step that freezes or thaws keeps                             *)

\* What a step must leave when it is done, whoever it was done for.
Kept ==
    /\ FreezeTypes /\ FrozenIsHeld /\ OtherIsActive
    /\ \A d \in Devices : grab[d] # NoGrab => grab[d].client \in alive
    /\ NothingLeftBehind
    /\ ReplayInv

\* Where ComputeFreezes may take the thread.
GoesOn ==
    /\ pc' = "Idle" => closing = NoClient
    /\ pc' = "Release" => closing # NoClient

LEMMA ComputeFreezesKeeps ==
    ASSUME NEW st \in [Devices -> States],
           NEW ot \in [Devices -> Grabs \cup {NoGrab}],
           NEW ev \in [Devices -> Kinds \cup {NoEvent}],
           NEW queue \in Seq(PendingEvents),
           NEW rep \in Replays,
           ComputeFreezes(st, ot, ev, queue, rep),
           grab' \in [Devices -> Grabs \cup {NoGrab}],
           \A d \in Devices : grab'[d] = NoGrab <=> st[d] = "NOT_GRABBED",
           \A d \in Devices : ot[d] # NoGrab => ot[d] = grab'[GetPairedDevice(d)],
           \A d \in Devices : grab'[d] # NoGrab => grab'[d].client \in alive',
           rep # NoReplay => grab'[rep.device] = NoGrab
    PROVE  Kept' /\ GoesOn
<1>1. FreezeTypes'
  <2>1. Wanted(st, ev) \in [Devices -> Kinds \cup {NoEvent}]
    BY DEF Wanted
  <2>2. replay' \in Replays
    BY NoReplayType DEF ComputeFreezes
  <2>3. pc' \in {"Idle", "Replay", "Play", "Release"}
    BY DEF ComputeFreezes, Return
  <2> QED BY <2>1, <2>2, <2>3 DEF FreezeTypes, ComputeFreezes
<1>2. FrozenIsHeld'
  BY DEF ComputeFreezes, FrozenIsHeld
<1>3. OtherIsActive'
  BY DEF ComputeFreezes, OtherIsActive
<1>4. NothingLeftBehind'
  <2> SUFFICES ASSUME pc' \in {"Idle", "Release"} PROVE Playable' = {}
    BY DEF NothingLeftBehind
  <2>1. pending' = <<>>
    BY DEF ComputeFreezes
  <2> QED BY <2>1 DEF Playable
<1>5. ReplayInv'
  BY DEF ReplayInv, ComputeFreezes, Return
<1>6. GoesOn
  BY DEF GoesOn, ComputeFreezes, Return
<1> QED BY <1>1, <1>2, <1>3, <1>4, <1>5, <1>6 DEF Kept

\* A device is grabbed, again by its owner or for the first time.
LEMMA ActivateGrabKeeps ==
    ASSUME Inv, NEW d \in Devices, NEW g \in Grabs,
           NEW frozenState \in FrozenStates,
           NEW queue \in Seq(PendingEvents), NEW kind \in Kinds \cup {NoEvent},
           g.client \in alive,
           grab[d] # NoGrab => SameClient(grab[d], g.client),
           ActivateGrab(d, g, frozenState, queue, kind),
           alive' = alive
    PROVE  Kept' /\ GoesOn
<1> DEFINE st == StateWithGrab(d, g, frozenState)
           ot == OtherWithGrab(d, g)
           ev == [event EXCEPT ![d] = kind]
<1> USE Paired
<1>1. FreezeTypes /\ OtherIsActive /\ NoGrab \notin Grabs
  BY TypeOKParts, GrabsAssumption DEF Inv
<1>2. st \in [Devices -> States]
  BY <1>1 DEF FreezeTypes, StateWithGrab, FrozenStates, States
<1>3. ot \in [Devices -> Grabs \cup {NoGrab}]
  BY <1>1 DEF FreezeTypes, OtherWithGrab, FreedBy
<1>4. ev \in [Devices -> Kinds \cup {NoEvent}]
  BY <1>1 DEF FreezeTypes
<1>5. grab' = [grab EXCEPT ![d] = g] /\ ComputeFreezes(st, ot, ev, queue, NoReplay)
  BY DEF ActivateGrab
<1>6. grab' \in [Devices -> Grabs \cup {NoGrab}]
  BY <1>1, <1>5 DEF FreezeTypes
<1>7. \A x \in Devices : grab'[x] = NoGrab <=> st[x] = "NOT_GRABBED"
  BY <1>1, <1>5 DEF FreezeTypes, StateWithGrab, FrozenStates
<1>8. ASSUME NEW x \in Devices, ot[x] # NoGrab
      PROVE  ot[x] = grab'[GetPairedDevice(x)]
  <2>1. CASE x = d
    BY <2>1, <1>1, <1>5, <1>8 DEF FreezeTypes, OtherIsActive, OtherWithGrab, FreedBy
  <2>2. CASE x = GetPairedDevice(d)
    <3>1. grab'[d] = g
      BY <1>1, <1>5 DEF FreezeTypes
    <3>2. CASE g.paired
      BY <2>2, <3>1, <3>2 DEF OtherWithGrab
    <3>3. CASE ~g.paired
      <4>1. ot[x] = FreedBy(g, other[x])
        BY <2>2, <3>3 DEF OtherWithGrab
      <4>2. other[x] = grab[d] /\ other[x] # NoGrab
        BY <4>1, <1>8, <1>1, <2>2 DEF OtherIsActive, FreedBy
      <4>3. SameClient(other[x], g.client)
        BY <4>2
      <4> QED BY <4>1, <4>3, <1>8 DEF FreedBy
    <3> QED BY <3>2, <3>3
  <2> QED BY <2>1, <2>2
<1>9. \A x \in Devices : grab'[x] # NoGrab => grab'[x].client \in alive'
  BY <1>1, <1>5 DEF FreezeTypes, Inv, GoneHoldNothing
<1> HIDE DEF st, ot, ev
<1> QED BY <1>2, <1>3, <1>4, <1>5, <1>6, <1>7, <1>8, <1>9, NoReplayType, ComputeFreezesKeeps

\* A grab is given up; ot is sync.other, or sync.other without some of it.
LEMMA DeactivateGrabKeeps ==
    ASSUME Inv, NEW d \in Devices,
           NEW ot \in [Devices -> Grabs \cup {NoGrab}],
           \A x \in Devices : ot[x] # NoGrab => ot[x] = other[x],
           NEW queue \in Seq(PendingEvents), NEW rep \in Replays,
           rep # NoReplay => rep.device = d,
           DeactivateGrab(d, ot, queue, rep),
           alive' = alive
    PROVE  Kept' /\ GoesOn
<1> DEFINE st == [state EXCEPT ![d] = "NOT_GRABBED"]
           left == [x \in Devices |-> IF ot[x] = grab[d] THEN NoGrab ELSE ot[x]]
<1> USE Paired
<1>1. FreezeTypes /\ OtherIsActive /\ NoGrab \notin Grabs
  BY TypeOKParts, GrabsAssumption DEF Inv
<1>2. st \in [Devices -> States]
  BY <1>1 DEF FreezeTypes, States
<1>3. left \in [Devices -> Grabs \cup {NoGrab}]
  OBVIOUS
<1>4. event \in [Devices -> Kinds \cup {NoEvent}]
  BY <1>1 DEF FreezeTypes
<1>5. grab' = [grab EXCEPT ![d] = NoGrab] /\ ComputeFreezes(st, left, event, queue, rep)
  BY DEF DeactivateGrab
<1>6. grab' \in [Devices -> Grabs \cup {NoGrab}]
  BY <1>1, <1>5 DEF FreezeTypes
<1>7. \A x \in Devices : grab'[x] = NoGrab <=> st[x] = "NOT_GRABBED"
  BY <1>1, <1>5 DEF FreezeTypes
<1>8. \A x \in Devices : left[x] # NoGrab => left[x] = grab'[GetPairedDevice(x)]
  BY <1>1, <1>5 DEF FreezeTypes, OtherIsActive
<1>9. \A x \in Devices : grab'[x] # NoGrab => grab'[x].client \in alive'
  BY <1>1, <1>5 DEF FreezeTypes, Inv, GoneHoldNothing
<1>10. rep # NoReplay => grab'[rep.device] = NoGrab
  BY <1>1, <1>5 DEF FreezeTypes
<1> HIDE DEF st, left
<1> QED BY <1>2, <1>3, <1>4, <1>5, <1>6, <1>7, <1>8, <1>9, <1>10, ComputeFreezesKeeps

\* AllowEvents without a replay: the client lets go of what it holds.
LEMMA AllowKeeps ==
    ASSUME Inv,
           NEW st \in [Devices -> States],
           \A x \in Devices : st[x] = "NOT_GRABBED" <=> state[x] = "NOT_GRABBED",
           NEW ot \in [Devices -> Grabs \cup {NoGrab}],
           \A x \in Devices : ot[x] # NoGrab => ot[x] = other[x],
           ComputeFreezes(st, ot, event, pending, NoReplay),
           UNCHANGED <<grab, alive>>
    PROVE  Kept' /\ GoesOn
<1>1. FreezeTypes /\ OtherIsActive
  BY TypeOKParts DEF Inv
<1>2. /\ event \in [Devices -> Kinds \cup {NoEvent}]
      /\ pending \in Seq(PendingEvents)
      /\ grab' \in [Devices -> Grabs \cup {NoGrab}]
  BY <1>1 DEF FreezeTypes
<1>3. \A d \in Devices : grab'[d] = NoGrab <=> st[d] = "NOT_GRABBED"
  BY <1>1 DEF FreezeTypes
<1>4. \A d \in Devices : ot[d] # NoGrab => ot[d] = grab'[GetPairedDevice(d)]
  BY <1>1 DEF OtherIsActive
<1>5. \A d \in Devices : grab'[d] # NoGrab => grab'[d].client \in alive'
  BY DEF Inv, GoneHoldNothing
<1> QED BY <1>2, <1>3, <1>4, <1>5, NoReplayType, ComputeFreezesKeeps

-----------------------------------------------------------------------------
(* Processing an event                                                     *)

\* The rest of the queue an event was taken from, or the queue itself, without
\* a playable event if the thread is not playing.
LEMMA NothingChangesKeeps ==
    ASSUME Inv, NEW queue \in Seq(PendingEvents),
           pc \in {"Idle", "Replay", "Play"},
           pc = "Idle" => queue = pending,
           NothingChanges(queue),
           UNCHANGED <<alive, closing>>
    PROVE  Kept' /\ GoesOn
<1>1. FreezeTypes /\ FrozenIsHeld /\ OtherIsActive
  BY TypeOKParts DEF Inv
<1>2. FreezeTypes'
  BY <1>1, NoReplayType DEF FreezeTypes, NothingChanges
<1>3. FrozenIsHeld' /\ OtherIsActive'
  BY <1>1 DEF FrozenIsHeld, OtherIsActive, NothingChanges
<1>4. \A d \in Devices : grab'[d] # NoGrab => grab'[d].client \in alive'
  BY DEF Inv, GoneHoldNothing, NothingChanges
<1>5. NothingLeftBehind'
  <2> SUFFICES ASSUME pc' \in {"Idle", "Release"} PROVE Playable' = {}
    BY DEF NothingLeftBehind
  <2>1. pc = "Idle" /\ pending' = pending /\ frozen' = frozen
    BY DEF NothingChanges, playingEvents
  <2> QED BY <2>1 DEF Playable, Inv, NothingLeftBehind
<1>6. ReplayInv' /\ GoesOn
  BY DEF ReplayInv, GoesOn, NothingChanges, playingEvents, Inv, ClosingInv
<1> QED BY <1>2, <1>3, <1>4, <1>5, <1>6 DEF Kept

LEMMA FreezeThisEventKeeps ==
    ASSUME Inv, NEW d \in Devices, NEW kind \in Kinds,
           NEW queue \in Seq(PendingEvents),
           pc \in {"Idle", "Play"},
           pc = "Idle" => queue = pending,
           grab[d] # NoGrab,
           FreezeThisEvent(d, kind, queue),
           UNCHANGED <<alive, closing>>
    PROVE  Kept' /\ GoesOn
<1> USE Paired
<1> DEFINE q == GetPairedDevice(d)
<1>1. FreezeTypes /\ FrozenIsHeld /\ OtherIsActive
  BY TypeOKParts DEF Inv
<1>2. FreezeTypes' /\ FrozenIsHeld' /\ OtherIsActive'
  <2>1. CASE state[d] = "FREEZE_NEXT_EVENT"
    <3>1. /\ state' = [state EXCEPT ![d] = "FROZEN_WITH_EVENT"]
          /\ frozen' = [frozen EXCEPT ![d] = TRUE]
          /\ UNCHANGED other
      BY <2>1 DEF FreezeThisEvent
    <3>2. /\ event' = [event EXCEPT ![d] = kind] /\ pending' = queue
          /\ UNCHANGED <<grab, replay, pc>>
      BY DEF FreezeThisEvent
    <3>3. FreezeTypes'
      BY <3>1, <3>2, <2>1, <1>1 DEF FreezeTypes, States
    <3>4. FrozenIsHeld'
      BY <3>1, <2>1, <1>1 DEF FreezeTypes, FrozenIsHeld, FrozenStates
    <3> QED BY <3>1, <3>2, <3>3, <3>4, <1>1 DEF OtherIsActive
  <2>2. CASE /\ state[d] = "FREEZE_BOTH_NEXT_EVENT"
             /\ state[q] = "FREEZE_BOTH_NEXT_EVENT"
             /\ SameClient(grab[q], grab[d].client)
    <3>1. state' = [x \in Devices |-> IF x = d THEN "FROZEN_WITH_EVENT" ELSE "FROZEN_NO_EVENT"]
          /\ UNCHANGED other
      BY <2>2 DEF FreezeThisEvent, FreezeBoth
    <3>2. frozen' = [x \in Devices |-> TRUE]
      BY <2>2 DEF FreezeThisEvent
    <3>3. grab[q] # NoGrab
      BY <2>2 DEF SameClient
    <3> QED
      BY <3>1, <3>2, <3>3, <2>2, <1>1
      DEF FreezeThisEvent, FreezeTypes, FrozenIsHeld, OtherIsActive, FrozenStates, States
  <2>3. CASE /\ state[d] = "FREEZE_BOTH_NEXT_EVENT"
             /\ ~(state[q] = "FREEZE_BOTH_NEXT_EVENT" /\ SameClient(grab[q], grab[d].client))
    <3>1. /\ state' = [state EXCEPT ![d] = "FROZEN_WITH_EVENT"]
          /\ other' = [other EXCEPT ![q] = grab[d]]
      BY <2>3 DEF FreezeThisEvent, FreezeBoth
    <3>2. frozen' = [x \in Devices |-> TRUE]
      BY <2>3 DEF FreezeThisEvent
    <3> QED
      BY <3>1, <3>2, <2>3, <1>1
      DEF FreezeThisEvent, FreezeTypes, FrozenIsHeld, OtherIsActive, FrozenStates, States
  <2> QED
    <3>1. state[d] \in {"FREEZE_NEXT_EVENT", "FREEZE_BOTH_NEXT_EVENT"}
      BY DEF FreezeThisEvent
    <3> QED BY <3>1, <2>1, <2>2, <2>3
<1>3. \A x \in Devices : grab'[x] # NoGrab => grab'[x].client \in alive'
  BY DEF Inv, GoneHoldNothing, FreezeThisEvent
<1>4. NothingLeftBehind'
  <2> SUFFICES ASSUME pc' \in {"Idle", "Release"} PROVE Playable' = {}
    BY DEF NothingLeftBehind
  <2>1. pc = "Idle" /\ pending' = pending
    BY DEF FreezeThisEvent
  <2>2. \A x \in Devices : frozen[x] => frozen'[x]
    BY <1>1 DEF FreezeThisEvent, FreezeTypes
  <2>3. \A i \in DOMAIN pending : pending[i].device \in Devices
    BY <1>1, PendingDevices DEF FreezeTypes
  <2> QED BY <2>1, <2>2, <2>3 DEF Playable, Inv, NothingLeftBehind
<1>5. ReplayInv' /\ GoesOn
  BY DEF ReplayInv, GoesOn, FreezeThisEvent, Inv, ClosingInv
<1> QED BY <1>2, <1>3, <1>4, <1>5 DEF Kept

LEMMA CheckDeviceGrabsKeeps ==
    ASSUME Inv, NEW d \in Devices, NEW w \in Windows \cup {0}, NEW kind \in Kinds,
           NEW queue \in Seq(PendingEvents),
           grab[d] = NoGrab,
           CheckDeviceGrabs(d, w, kind, queue),
           alive' = alive
    PROVE  Kept' /\ GoesOn
<1>1. PICK p \in passive :
        ActivateGrab(d, GrabRec(d, p.client, p.window, p.own, p.paired, TRUE),
                     "FROZEN_WITH_EVENT", queue, kind)
  BY DEF CheckDeviceGrabs
<1> DEFINE g == GrabRec(d, p.client, p.window, p.own, p.paired, TRUE)
<1>2. p \in PassiveGrabs /\ p.client \in alive
  BY TypeOKParts, GrabsAssumption DEF Inv, OwnerTypes, GoneHoldNothing
<1>3. g \in Grabs /\ g.client \in alive
  BY <1>2 DEF PassiveGrabs, Grabs, GrabRec
<1>4. "FROZEN_WITH_EVENT" \in FrozenStates
  BY DEF FrozenStates
<1> HIDE DEF g
<1> QED BY <1>1, <1>3, <1>4, ActivateGrabKeeps DEF g

LEMMA DeliverDeviceEventsKeeps ==
    ASSUME Inv, NEW d \in Devices, NEW kind \in Kinds,
           NEW queue \in Seq(PendingEvents),
           grab[d] = NoGrab,
           pc \in {"Idle", "Replay", "Play"},
           pc = "Idle" => queue = pending,
           DeliverDeviceEvents(d, kind, queue),
           UNCHANGED <<alive, closing>>
    PROVE  Kept' /\ GoesOn
<1>1. CASE NothingChanges(queue)
  BY <1>1, NothingChangesKeeps
<1>2. CASE ~NothingChanges(queue)
  <2>1. PICK c \in alive, w \in Windows :
          ActivateGrab(d, GrabRec(d, c, w, FALSE, FALSE, TRUE), "FROZEN_NO_EVENT",
                       queue, NoEvent)
    BY <1>2 DEF DeliverDeviceEvents
  <2> DEFINE g == GrabRec(d, c, w, FALSE, FALSE, TRUE)
  <2>2. c \in Clients
    BY TypeOKParts DEF Inv, OwnerTypes
  <2>3. g \in Grabs /\ g.client \in alive
    BY <2>2 DEF Grabs, GrabRec
  <2>4. "FROZEN_NO_EVENT" \in FrozenStates
    BY DEF FrozenStates
  <2> HIDE DEF g
  <2> QED BY <2>1, <2>3, <2>4, ActivateGrabKeeps DEF g
<1> QED BY <1>1, <1>2

LEMMA ProcessDeviceEventKeeps ==
    ASSUME Inv, NEW d \in Devices, NEW kind \in Kinds,
           NEW queue \in Seq(PendingEvents),
           pc \in {"Idle", "Play"},
           pc = "Idle" => queue = pending,
           ProcessDeviceEvent(d, kind, queue),
           UNCHANGED <<alive, closing>>
    PROVE  Kept' /\ GoesOn /\ down' \in [Devices -> BOOLEAN]
<1>1. Kept' /\ GoesOn
  <2>1. CASE grab[d] # NoGrab /\ EndsGrab(d, kind)
    <3>1. DeactivateGrab(d, other, queue, NoReplay)
      BY <2>1 DEF ProcessDeviceEvent
    <3>2. other \in [Devices -> Grabs \cup {NoGrab}]
      BY TypeOKParts DEF Inv, FreezeTypes
    <3> QED BY <3>1, <3>2, NoReplayType, DeactivateGrabKeeps
  <2>2. CASE grab[d] # NoGrab /\ ~EndsGrab(d, kind)
    <3>1. DeliverGrabbedEvent(d, kind, queue)
      BY <2>2 DEF ProcessDeviceEvent
    <3>2. CASE NothingChanges(queue)
      BY <3>2, NothingChangesKeeps
    <3>3. CASE FreezeThisEvent(d, kind, queue)
      BY <3>3, <2>2, FreezeThisEventKeeps
    <3> QED BY <3>1, <3>2, <3>3 DEF DeliverGrabbedEvent
  <2>3. CASE grab[d] = NoGrab /\ kind = "press" /\ HasPassiveFor(d, 0)
    <3>1. CheckDeviceGrabs(d, 0, kind, queue)
      BY <2>3 DEF ProcessDeviceEvent
    <3> QED BY <3>1, <2>3, CheckDeviceGrabsKeeps
  <2>4. CASE grab[d] = NoGrab /\ ~(kind = "press" /\ HasPassiveFor(d, 0))
    <3>1. DeliverDeviceEvents(d, kind, queue)
      BY <2>4 DEF ProcessDeviceEvent
    <3> QED BY <3>1, <2>4, DeliverDeviceEventsKeeps
  <2> QED BY <2>1, <2>2, <2>3, <2>4
<1>2. down' \in [Devices -> BOOLEAN]
  BY TypeOKParts DEF ProcessDeviceEvent, Inv, HistoryTypes
<1> QED BY <1>1, <1>2

\* The list without the event that is played.
LEMMA WithoutType ==
    ASSUME NEW queue \in Seq(PendingEvents), NEW i \in DOMAIN queue
    PROVE  Without(queue, i) \in Seq(PendingEvents)
<1>1. i \in 1 .. Len(queue) /\ Len(queue) \in Nat
  OBVIOUS
<1>2. SubSeq(queue, 1, i - 1) \in Seq(PendingEvents)
  BY <1>1
<1>3. SubSeq(queue, i + 1, Len(queue)) \in Seq(PendingEvents)
  BY <1>1
<1> QED BY <1>2, <1>3 DEF Without

\* An event that is enqueued waits for a frozen device.
LEMMA EnqueueEventKeeps ==
    ASSUME Inv, NEW d \in Devices, NEW kind \in Kinds, NEW n \in Nat,
           pc = "Idle", frozen[d],
           EnqueueEvent(d, kind, n),
           UNCHANGED <<alive, closing>>
    PROVE  Kept' /\ GoesOn
<1>1. FreezeTypes /\ FrozenIsHeld /\ OtherIsActive /\ ReplayInv
  BY TypeOKParts DEF Inv
<1>2. pending \in Seq(PendingEvents) /\ Len(pending) \in Nat
      /\ DOMAIN pending = 1 .. Len(pending)
  BY <1>1 DEF FreezeTypes
<1>3. pending' \in Seq(PendingEvents) /\ Playable' = {}
  <2>1. \A i \in DOMAIN pending : frozen[pending[i].device]
    BY DEF Inv, NothingLeftBehind, Playable
  <2>2. frozen' = frozen
    BY DEF EnqueueEvent
  <2>3. CASE Compressed(d, kind)
    <3> DEFINE m == Len(pending)
               e == [pending[m] EXCEPT !.n = n]
    <3>1. m \in DOMAIN pending /\ pending[m] \in PendingEvents
      BY <2>3, <1>2, PendingDevices DEF Compressed
    <3>2. e \in PendingEvents /\ e.device = pending[m].device
      BY <3>1 DEF PendingEvents
    <3>3. pending' = [pending EXCEPT ![m] = e]
      BY <2>3 DEF EnqueueEvent
    <3>4. pending' \in Seq(PendingEvents)
      BY <3>1, <3>2, <3>3, <1>2
    <3>5. DOMAIN pending' = DOMAIN pending
          /\ \A i \in DOMAIN pending : pending'[i].device = pending[i].device
      BY <3>1, <3>2, <3>3
    <3> QED BY <3>4, <3>5, <2>1, <2>2 DEF Playable
  <2>4. CASE ~Compressed(d, kind)
    <3> DEFINE e == [device |-> d, kind |-> kind, n |-> n]
    <3>1. pending' = Append(pending, e)
      BY <2>4 DEF EnqueueEvent
    <3>2. e \in PendingEvents
      BY DEF PendingEvents
    <3>3. pending' \in Seq(PendingEvents)
      BY <3>1, <3>2, <1>2
    <3>4. \A i \in DOMAIN pending' :
            (i \in DOMAIN pending /\ pending'[i] = pending[i]) \/ pending'[i] = e
      BY <3>1, <1>2
    <3> QED BY <3>3, <3>4, <2>1, <2>2 DEF Playable
  <2> QED BY <2>3, <2>4
<1>4. FreezeTypes'
  BY <1>1, <1>3 DEF FreezeTypes, EnqueueEvent
<1>5. FrozenIsHeld' /\ OtherIsActive' /\ ReplayInv'
  BY <1>1 DEF FrozenIsHeld, OtherIsActive, ReplayInv, EnqueueEvent
<1>6. \A x \in Devices : grab'[x] # NoGrab => grab'[x].client \in alive'
  BY DEF Inv, GoneHoldNothing, EnqueueEvent
<1>7. NothingLeftBehind' /\ GoesOn
  BY <1>3 DEF NothingLeftBehind, GoesOn, EnqueueEvent, Inv, ClosingInv
<1> QED BY <1>4, <1>5, <1>6, <1>7 DEF Kept

-----------------------------------------------------------------------------
(* The actions                                                             *)

\* What an action has to show besides Kept.
Rest == HistoryTypes /\ OwnerTypes /\ ClosingInv /\ \A p \in passive : p.client \in alive

LEMMA InvParts == Inv <=> Kept /\ Rest
BY TypeOKParts DEF Inv, Kept, Rest, GoneHoldNothing

LEMMA InvNext == Kept' /\ Rest' => Inv'
BY DEF Inv, Kept, Rest, GoneHoldNothing, TypeOK, FreezeTypes, HistoryTypes, OwnerTypes, Replays

\* Outside a close-down nothing else changes but the history.
LEMMA RestKept ==
    ASSUME Inv, GoesOn, pc # "Release",
           UNCHANGED <<clientVars, closeVars>>, HistoryTypes'
    PROVE  Rest'
<1>1. Rest
  BY InvParts
<1>2. OwnerTypes' /\ \A p \in passive' : p.client \in alive'
  BY <1>1 DEF Rest, OwnerTypes, clientVars, closeVars
<1>3. ClosingInv'
  BY <1>1 DEF Rest, ClosingInv, GoesOn, clientVars, closeVars
<1> QED BY <1>2, <1>3 DEF Rest

LEMMA HistoryUnchanged ==
    ASSUME Inv, UNCHANGED deviceVars
    PROVE  HistoryTypes'
BY InvParts DEF Rest, HistoryTypes, deviceVars

LEMMA ProcessInputKeeps ==
    ASSUME Inv, NEW d \in Devices, ProcessInput(d)
    PROVE  Inv'
<1>1. PICK kind \in Reports(d) :
        /\ read' = [read EXCEPT ![d] = @ + 1]
        /\ pressed' = IF kind = "motion" THEN pressed
                      ELSE [pressed EXCEPT ![d] = (kind = "press")]
        /\ IF frozen[d] THEN EnqueueEvent(d, kind, read[d] + 1)
           ELSE /\ ProcessDeviceEvent(d, kind, pending)
                /\ handled' = [handled EXCEPT ![d] = read[d] + 1]
  BY DEF ProcessInput
<1>2. kind \in Kinds
  BY DEF Reports, Kinds
<1>3. pc = "Idle" /\ UNCHANGED <<clientVars, closeVars>>
  BY DEF ProcessInput
<1>4. UNCHANGED <<alive, closing>>
  BY <1>3 DEF clientVars, closeVars
<1>5. HistoryTypes /\ pending \in Seq(PendingEvents)
  BY TypeOKParts DEF Inv, FreezeTypes
<1>6. read[d] + 1 \in Nat
  BY <1>5 DEF HistoryTypes
<1>7. Kept' /\ GoesOn /\ HistoryTypes'
  <2>1. read' \in [Devices -> Nat] /\ pressed' \in [Devices -> BOOLEAN]
    BY <1>1, <1>5 DEF HistoryTypes
  <2>2. CASE frozen[d]
    <3>1. EnqueueEvent(d, kind, read[d] + 1)
      BY <1>1, <2>2
    <3>2. Kept' /\ GoesOn
      BY <3>1, <2>2, <1>2, <1>3, <1>4, <1>6, EnqueueEventKeeps
    <3> QED BY <3>1, <3>2, <2>1, <1>5 DEF HistoryTypes, EnqueueEvent
  <2>3. CASE ~frozen[d]
    <3>1. ProcessDeviceEvent(d, kind, pending) /\ handled' = [handled EXCEPT ![d] = read[d] + 1]
      BY <1>1, <2>3
    <3>2. Kept' /\ GoesOn /\ down' \in [Devices -> BOOLEAN]
      BY <3>1, <1>2, <1>3, <1>4, <1>5, ProcessDeviceEventKeeps
    <3> QED BY <3>1, <3>2, <2>1, <1>5, <1>6 DEF HistoryTypes
  <2> QED BY <2>2, <2>3
<1> QED BY <1>3, <1>7, RestKept, InvNext

LEMMA ReplayEventKeeps ==
    ASSUME Inv, ReplayEvent
    PROVE  Inv'
<1> DEFINE d == replay.device
<1>1. /\ pc = "Replay" /\ UNCHANGED <<deviceVars, clientVars, closeVars>>
      /\ UNCHANGED <<alive, closing>>
  BY DEF ReplayEvent, clientVars, closeVars
<1>2. /\ pending \in Seq(PendingEvents) /\ d \in Devices
      /\ replay.window \in Windows \cup {0} /\ replay.kind \in Kinds \cup {NoEvent}
      /\ grab[d] = NoGrab
  BY <1>1, TypeOKParts DEF Inv, FreezeTypes, Replays, ReplayInv
<1>3. Kept' /\ GoesOn
  <2>1. CASE CheckDeviceGrabs(d, replay.window, replay.kind, pending) /\ replay.kind \in Kinds
    BY <2>1, <1>1, <1>2, CheckDeviceGrabsKeeps
  <2>2. CASE DeliverDeviceEvents(d, replay.kind, pending) /\ replay.kind \in Kinds
    BY <2>2, <1>1, <1>2, DeliverDeviceEventsKeeps
  <2>3. CASE DeliverDeviceEvents(d, replay.kind, pending) /\ replay.kind = NoEvent
    <3>1. NothingChanges(pending)
      BY <2>3 DEF DeliverDeviceEvents, NoEvent
    <3> QED BY <3>1, <1>1, <1>2, NothingChangesKeeps
  <2> QED BY <1>2, <2>1, <2>2, <2>3 DEF ReplayEvent, Kinds
<1> QED BY <1>1, <1>3, HistoryUnchanged, RestKept, InvNext

LEMMA PlayReleasedEventsKeeps ==
    ASSUME Inv, PlayReleasedEvents
    PROVE  Inv'
<1>1. PICK i \in DOMAIN pending :
        /\ ProcessDeviceEvent(pending[i].device, pending[i].kind, Without(pending, i))
        /\ handled' = [handled EXCEPT ![pending[i].device] = pending[i].n]
  BY DEF PlayReleasedEvents
<1>2. /\ pc = "Play" /\ UNCHANGED <<pressed, read>> /\ UNCHANGED <<clientVars, closeVars>>
      /\ UNCHANGED <<alive, closing>>
  BY DEF PlayReleasedEvents, clientVars, closeVars
<1>3. pending \in Seq(PendingEvents) /\ HistoryTypes
  BY TypeOKParts DEF Inv, FreezeTypes
<1>4. pending[i] \in PendingEvents
  BY <1>3, PendingDevices
<1>5. /\ pending[i].device \in Devices /\ pending[i].kind \in Kinds /\ pending[i].n \in Nat
      /\ Without(pending, i) \in Seq(PendingEvents)
  BY <1>3, <1>4, WithoutType DEF PendingEvents
<1>6. Kept' /\ GoesOn /\ down' \in [Devices -> BOOLEAN]
  BY <1>1, <1>2, <1>5, ProcessDeviceEventKeeps
<1>7. HistoryTypes'
  BY <1>1, <1>2, <1>3, <1>5, <1>6 DEF HistoryTypes
<1> QED BY <1>2, <1>6, <1>7, RestKept, InvNext

LEMMA PlayDoneKeeps ==
    ASSUME Inv, PlayDone
    PROVE  Inv'
<1>1. Kept /\ UNCHANGED <<deviceVars, clientVars, closeVars>> /\ pc = "Play"
  BY InvParts DEF PlayDone
<1>2. UNCHANGED <<grab, state, other, frozen, event, pending, replay, alive>>
  BY DEF PlayDone, clientVars
<1>3. pc' \in {"Idle", "Release"} /\ GoesOn
  BY DEF PlayDone, Return, GoesOn
<1>4. NothingLeftBehind'
  BY <1>2 DEF PlayDone, NothingLeftBehind, Playable
<1>5. Kept'
  BY <1>1, <1>2, <1>3, <1>4
  DEF Kept, FreezeTypes, FrozenIsHeld, OtherIsActive, ReplayInv
<1> QED BY <1>1, <1>3, <1>5, HistoryUnchanged, RestKept, InvNext

LEMMA GrabDeviceKeeps ==
    ASSUME Inv, NEW c \in Clients, NEW d \in Devices, GrabDevice(c, d)
    PROVE  Inv'
<1>1. PICK m \in Modes, w \in Windows :
        ActivateGrab(d, GrabRec(d, c, w, m[1], m[2], FALSE), "FROZEN_NO_EVENT",
                     pending, NoEvent)
  BY DEF GrabDevice
<1> DEFINE g == GrabRec(d, c, w, m[1], m[2], FALSE)
<1>2. m[1] \in BOOLEAN /\ m[2] \in BOOLEAN
  BY ConstantsAssumption
<1>3. g \in Grabs /\ g.client = c
  BY <1>2 DEF Grabs, GrabRec
<1>4. /\ pc = "Idle" /\ c \in alive /\ UNCHANGED <<deviceVars, clientVars, closeVars>>
      /\ alive' = alive
      /\ grab[d] # NoGrab => SameClient(grab[d], c)
  BY DEF GrabDevice, clientVars
<1>5. pending \in Seq(PendingEvents) /\ "FROZEN_NO_EVENT" \in FrozenStates
  BY TypeOKParts DEF Inv, FreezeTypes, FrozenStates
<1> HIDE DEF g
<1>6. Kept' /\ GoesOn
  BY <1>1, <1>3, <1>4, <1>5, ActivateGrabKeeps DEF g
<1> QED BY <1>4, <1>6, HistoryUnchanged, RestKept, InvNext

LEMMA UngrabDeviceKeeps ==
    ASSUME Inv, NEW c \in Clients, NEW d \in Devices, UngrabDevice(c, d)
    PROVE  Inv'
<1>1. /\ pc = "Idle" /\ DeactivateGrab(d, other, pending, NoReplay)
      /\ UNCHANGED <<deviceVars, clientVars, closeVars>> /\ alive' = alive
  BY DEF UngrabDevice, clientVars
<1>2. pending \in Seq(PendingEvents) /\ other \in [Devices -> Grabs \cup {NoGrab}]
  BY TypeOKParts DEF Inv, FreezeTypes
<1>3. Kept' /\ GoesOn
  BY <1>1, <1>2, NoReplayType, DeactivateGrabKeeps
<1> QED BY <1>1, <1>3, HistoryUnchanged, RestKept, InvNext

\* The passive grabs change, and the grabs that are active do not.
LEMMA PassiveKeeps ==
    ASSUME Inv, pc = "Idle",
           UNCHANGED <<grab, state, other, frozen, event, deviceVars, pending, replay, pc>>,
           UNCHANGED closeVars,
           alive \subseteq alive', alive' \subseteq Clients,
           passive' \subseteq Passives, \A p \in passive' : p.client \in alive'
    PROVE  Inv'
<1>1. Kept /\ Rest
  BY InvParts
<1>2. Kept'
  BY <1>1
  DEF Kept, FreezeTypes, FrozenIsHeld, OtherIsActive, NothingLeftBehind, Playable, ReplayInv
<1>3. OwnerTypes' /\ ClosingInv'
  BY <1>1 DEF Rest, OwnerTypes, ClosingInv, closeVars
<1> QED BY <1>2, <1>3, HistoryUnchanged, InvNext DEF Rest

LEMMA AddPassiveGrabKeeps ==
    ASSUME Inv, NEW c \in Clients, NEW d \in Devices, AddPassiveGrab(c, d)
    PROVE  Inv'
<1>1. /\ pc = "Idle" /\ c \in alive /\ alive' = alive /\ UNCHANGED closeVars
      /\ UNCHANGED <<grab, state, other, frozen, event, deviceVars, pending, replay, pc>>
  BY DEF AddPassiveGrab
<1>2. PICK p \in Passives :
        p.client = c /\ passive' \subseteq passive \cup {p}
  BY DEF AddPassiveGrab
<1>3. passive \subseteq Passives /\ alive \subseteq Clients /\ \A q \in passive : q.client \in alive
  BY InvParts DEF Rest, OwnerTypes
<1> QED BY <1>1, <1>2, <1>3, PassiveKeeps

LEMMA DeletePassiveGrabKeeps ==
    ASSUME Inv, NEW c \in Clients, NEW d \in Devices, DeletePassiveGrab(c, d)
    PROVE  Inv'
<1>1. /\ pc = "Idle" /\ alive' = alive /\ UNCHANGED closeVars /\ passive' \subseteq passive
      /\ UNCHANGED <<grab, state, other, frozen, event, deviceVars, pending, replay, pc>>
  BY DEF DeletePassiveGrab
<1>2. passive \subseteq Passives /\ alive \subseteq Clients /\ \A q \in passive : q.client \in alive
  BY InvParts DEF Rest, OwnerTypes
<1> QED BY <1>1, <1>2, PassiveKeeps

LEMMA ConnectKeeps ==
    ASSUME Inv, NEW c \in Clients, Connect(c)
    PROVE  Inv'
<1>1. /\ pc = "Idle" /\ alive' = alive \cup {c} /\ passive' = passive /\ UNCHANGED closeVars
      /\ UNCHANGED <<grab, state, other, frozen, event, deviceVars, pending, replay, pc>>
  BY DEF Connect
<1>2. passive \subseteq Passives /\ alive \subseteq Clients /\ \A q \in passive : q.client \in alive
  BY InvParts DEF Rest, OwnerTypes
<1> QED BY <1>1, <1>2, PassiveKeeps

\* One AllowEvents request of any mode.
LEMMA AllowSomeKeeps ==
    ASSUME Inv, NEW c \in Clients, NEW d \in Devices,
           AllowSome(c, d),
           \/ AllowAsync(c, d) \/ AllowSync(c, d) \/ AllowReplay(c, d)
           \/ \E ds \in SUBSET Devices, st \in {"THAWED", "FREEZE_BOTH_NEXT_EVENT"} :
                  AllowAll(c, d, ds, st)
    PROVE  Inv'
<1>1. /\ pc = "Idle" /\ UNCHANGED <<deviceVars, clientVars, closeVars>> /\ alive' = alive
  BY DEF AllowSome, clientVars
<1>2. FreezeTypes
  BY TypeOKParts DEF Inv
<1>3. /\ Released(c, d) \in [Devices -> Grabs \cup {NoGrab}]
      /\ \A x \in Devices : Released(c, d)[x] # NoGrab => Released(c, d)[x] = other[x]
  BY <1>2 DEF FreezeTypes, Released
<1>4. Kept' /\ GoesOn
  <2>1. CASE AllowAsync(c, d)
    <3> DEFINE st == IF thisGrabbed(c, d) THEN [state EXCEPT ![d] = "THAWED"] ELSE state
    <3>1. /\ st \in [Devices -> States]
          /\ \A x \in Devices : st[x] = "NOT_GRABBED" <=> state[x] = "NOT_GRABBED"
      BY <1>2 DEF FreezeTypes, thisGrabbed, SameClient, States
    <3>2. ComputeFreezes(st, Released(c, d), event, pending, NoReplay) /\ UNCHANGED grab
      BY <2>1 DEF AllowAsync
    <3> HIDE DEF st
    <3> QED BY <3>1, <3>2, <1>1, <1>3, AllowKeeps
  <2>2. CASE AllowSync(c, d)
    <3> DEFINE st == [state EXCEPT ![d] = "FREEZE_NEXT_EVENT"]
    <3>1. /\ st \in [Devices -> States]
          /\ \A x \in Devices : st[x] = "NOT_GRABBED" <=> state[x] = "NOT_GRABBED"
      BY <2>2, <1>2 DEF FreezeTypes, AllowSync, thisGrabbed, SameClient, States
    <3>2. ComputeFreezes(st, Released(c, d), event, pending, NoReplay) /\ UNCHANGED grab
      BY <2>2 DEF AllowSync
    <3> HIDE DEF st
    <3> QED BY <3>1, <3>2, <1>1, <1>3, AllowKeeps
  <2>3. CASE AllowReplay(c, d)
    <3> DEFINE rep == [device |-> d, window |-> grab[d].window, kind |-> event[d]]
    <3>1. grab[d] \in Grabs /\ event[d] \in Kinds \cup {NoEvent}
      BY <2>3, <1>2 DEF FreezeTypes, AllowReplay, thisGrabbed, SameClient
    <3>2. rep \in Replays /\ rep.device = d
      BY <3>1 DEF Replays, Grabs
    <3>3. DeactivateGrab(d, Released(c, d), pending, rep) /\ pending \in Seq(PendingEvents)
      BY <2>3, <1>2 DEF AllowReplay, FreezeTypes
    <3> HIDE DEF rep
    <3> QED BY <3>2, <3>3, <1>1, <1>3, DeactivateGrabKeeps
  <2>4. ASSUME NEW ds \in SUBSET Devices, NEW to \in {"THAWED", "FREEZE_BOTH_NEXT_EVENT"},
               AllowAll(c, d, ds, to)
        PROVE  Kept' /\ GoesOn
    <3>1. /\ StatesOf(c, ds, to) \in [Devices -> States]
          /\ \A x \in Devices :
               StatesOf(c, ds, to)[x] = "NOT_GRABBED" <=> state[x] = "NOT_GRABBED"
      BY <1>2 DEF FreezeTypes, StatesOf, SameClient, States
    <3>2. /\ OthersOf(c, ds) \in [Devices -> Grabs \cup {NoGrab}]
          /\ \A x \in Devices : OthersOf(c, ds)[x] # NoGrab => OthersOf(c, ds)[x] = other[x]
      BY <1>2 DEF FreezeTypes, OthersOf
    <3>3. /\ ComputeFreezes(StatesOf(c, ds, to), OthersOf(c, ds), event, pending, NoReplay)
          /\ UNCHANGED grab
      BY <2>4 DEF AllowAll
    <3> QED BY <3>1, <3>2, <3>3, <1>1, AllowKeeps
  <2> QED BY <2>1, <2>2, <2>3, <2>4
<1> QED BY <1>1, <1>4, HistoryUnchanged, RestKept, InvNext

LEMMA CloseDownClientKeeps ==
    ASSUME Inv, NEW c \in Clients, CloseDownClient(c)
    PROVE  Inv'
<1>1. Kept /\ Rest
  BY InvParts
<1>2. Kept'
  BY <1>1
  DEF Kept, CloseDownClient, FreezeTypes, FrozenIsHeld, OtherIsActive, NothingLeftBehind,
      Playable, ReplayInv, clientVars
<1>3. OwnerTypes' /\ ClosingInv' /\ \A p \in passive' : p.client \in alive'
  BY <1>1, ConstantsAssumption DEF Rest, OwnerTypes, ClosingInv, CloseDownClient, clientVars
<1>4. HistoryTypes'
  BY HistoryUnchanged DEF CloseDownClient
<1> QED BY <1>2, <1>3, <1>4, InvNext DEF Rest

LEMMA ReleaseActiveGrabKeeps ==
    ASSUME Inv, ReleaseActiveGrab
    PROVE  Inv'
<1>1. PICK d \in Devices :
        /\ todo' = Behind(d) /\ done' = FALSE
        /\ DeactivateGrab(d, other, pending, NoReplay)
  BY DEF ReleaseActiveGrab
<1>2. /\ pc = "Release" /\ UNCHANGED <<deviceVars, clientVars, closing>>
      /\ UNCHANGED <<alive, passive>>
  BY DEF ReleaseActiveGrab, clientVars
<1>3. /\ pending \in Seq(PendingEvents) /\ other \in [Devices -> Grabs \cup {NoGrab}]
      /\ Rest
  BY TypeOKParts, InvParts DEF Inv, FreezeTypes
<1>4. Kept' /\ GoesOn
  BY <1>1, <1>2, <1>3, NoReplayType, DeactivateGrabKeeps
<1>5. OwnerTypes' /\ ClosingInv' /\ \A p \in passive' : p.client \in alive'
  BY <1>1, <1>2, <1>3, <1>4 DEF Rest, OwnerTypes, ClosingInv, GoesOn, Behind, Devices
<1> QED BY <1>2, <1>4, <1>5, HistoryUnchanged, InvNext DEF Rest

LEMMA ReleaseAgainKeeps ==
    ASSUME Inv, ReleaseAgain
    PROVE  Inv'
<1>1. Kept /\ Rest
  BY InvParts
<1>2. Kept'
  BY <1>1
  DEF Kept, ReleaseAgain, FreezeTypes, FrozenIsHeld, OtherIsActive, NothingLeftBehind,
      Playable, ReplayInv, clientVars
<1>3. OwnerTypes' /\ ClosingInv' /\ \A p \in passive' : p.client \in alive'
  BY <1>1 DEF Rest, OwnerTypes, ClosingInv, ReleaseAgain, clientVars
<1>4. HistoryTypes'
  BY HistoryUnchanged DEF ReleaseAgain
<1> QED BY <1>2, <1>3, <1>4, InvNext DEF Rest

\* A round that found nothing went over both devices: the client has no grab.
LEMMA ClientGoneKeeps ==
    ASSUME Inv, ClientGone
    PROVE  Inv'
<1>1. Kept /\ Rest
  BY InvParts
<1>2. \A d \in Devices : grab[d] # NoGrab => grab[d].client # closing
  BY <1>1 DEF Rest, ClosingInv, ClientGone, Found, SameClient
<1>3. Kept'
  BY <1>1, <1>2
  DEF Kept, ClientGone, FreezeTypes, FrozenIsHeld, OtherIsActive, NothingLeftBehind,
      Playable, ReplayInv
<1>4. OwnerTypes' /\ ClosingInv' /\ \A p \in passive' : p.client \in alive'
  BY <1>1 DEF Rest, OwnerTypes, ClosingInv, ClientGone
<1>5. HistoryTypes'
  BY HistoryUnchanged DEF ClientGone
<1> QED BY <1>3, <1>4, <1>5, InvNext DEF Rest

-----------------------------------------------------------------------------
(* The theorems                                                            *)

LEMMA InitInv == Init => Inv
<1> SUFFICES ASSUME Init PROVE Inv
  OBVIOUS
<1>1. Kept
  BY NoReplayType
  DEF Init, Kept, FreezeTypes, FrozenIsHeld, FrozenStates, OtherIsActive, NothingLeftBehind,
      Playable, ReplayInv, States
<1>2. Rest
  BY DEF Init, Rest, HistoryTypes, OwnerTypes, ClosingInv
<1> QED BY <1>1, <1>2, InvParts

LEMMA StepKeepsInv == Inv /\ [Next]_vars => Inv'
<1> SUFFICES ASSUME Inv, [Next]_vars PROVE Inv'
  OBVIOUS
<1>1. ASSUME NEW d \in Devices, ProcessInput(d) PROVE Inv'
  BY <1>1, ProcessInputKeeps
<1>2. CASE Request
  <2> SUFFICES ASSUME NEW c \in Clients, NEW d \in Devices,
                      \/ GrabDevice(c, d) \/ UngrabDevice(c, d)
                      \/ AddPassiveGrab(c, d) \/ DeletePassiveGrab(c, d)
                      \/ AsyncDevice(c, d) \/ SyncDevice(c, d) \/ ReplayDevice(c, d)
                      \/ AsyncPair(c, d) \/ SyncPair(c, d) \/ AsyncPairedDevice(c, d)
               PROVE  Inv'
    BY <1>2 DEF Request
  <2>1. CASE GrabDevice(c, d) \/ UngrabDevice(c, d)
    BY <2>1, GrabDeviceKeeps, UngrabDeviceKeeps
  <2>2. CASE AddPassiveGrab(c, d) \/ DeletePassiveGrab(c, d)
    BY <2>2, AddPassiveGrabKeeps, DeletePassiveGrabKeeps
  <2>3. CASE AsyncDevice(c, d) \/ SyncDevice(c, d) \/ ReplayDevice(c, d)
    BY <2>3, AllowSomeKeeps DEF AsyncDevice, SyncDevice, ReplayDevice
  <2>4. CASE AsyncPair(c, d) \/ SyncPair(c, d) \/ AsyncPairedDevice(c, d)
    <3>1. AllowSome(c, d)
      BY <2>4 DEF AsyncPair, SyncPair, AsyncPairedDevice
    <3>2. \E ds \in SUBSET Devices, st \in {"THAWED", "FREEZE_BOTH_NEXT_EVENT"} :
              AllowAll(c, d, ds, st)
      BY <2>4 DEF AsyncPair, SyncPair, AsyncPairedDevice
    <3> QED BY <3>1, <3>2, AllowSomeKeeps
  <2> QED BY <2>1, <2>2, <2>3, <2>4
<1>3. ASSUME NEW c \in Clients, Connect(c) \/ CloseDownClient(c) PROVE Inv'
  BY <1>3, ConnectKeeps, CloseDownClientKeeps
<1>4. CASE Playing
  BY <1>4, ReplayEventKeeps, PlayReleasedEventsKeeps, PlayDoneKeeps DEF Playing
<1>5. CASE Closing
  BY <1>5, ReleaseActiveGrabKeeps, ReleaseAgainKeeps, ClientGoneKeeps DEF Closing
<1>6. CASE UNCHANGED vars
  <2>1. Kept /\ Rest
    BY InvParts
  <2>2. Kept'
    BY <2>1, <1>6
    DEF Kept, vars, FreezeTypes, FrozenIsHeld, OtherIsActive, NothingLeftBehind, Playable,
        ReplayInv, clientVars
  <2>3. Rest'
    BY <2>1, <1>6
    DEF Rest, vars, HistoryTypes, OwnerTypes, ClosingInv, deviceVars, clientVars, closeVars
  <2> QED BY <2>2, <2>3, InvNext
<1> QED BY <1>1, <1>2, <1>3, <1>4, <1>5, <1>6 DEF Next

\* Everything below follows from one inductive invariant: the type invariant,
\* the four safety properties, and what ties a close-down and a replay to
\* them (ReleaseActiveGrabs, AllowSome).
THEOREM InvHolds == Spec => []Inv
<1>1. Init => Inv
  BY InitInv
<1>2. Inv /\ [Next]_vars => Inv'
  BY StepKeepsInv
<1> QED BY <1>1, <1>2, PTL DEF Spec

\* Every variable keeps its type, and a device has a sync.state other than
\* NOT_GRABBED exactly while it is grabbed.
THEOREM TypesHold == Spec => []TypeOK
<1>1. Inv => TypeOK
  BY DEF Inv
<1> QED BY <1>1, InvHolds, PTL

\* A device is frozen exactly while somebody holds it (FreezeThaw).
THEOREM FrozenHolds == Spec => []FrozenIsHeld
<1>1. Inv => FrozenIsHeld
  BY DEF Inv
<1> QED BY <1>1, InvHolds, PTL

\* sync.other never points to a grab that is no longer active.
THEOREM OtherHolds == Spec => []OtherIsActive
<1>1. Inv => OtherIsActive
  BY DEF Inv
<1> QED BY <1>1, InvHolds, PTL

\* A client that is gone has no grab left (ReleaseActiveGrabs).
THEOREM GoneHolds == Spec => []GoneHoldNothing
<1>1. Inv => GoneHoldNothing
  BY DEF Inv
<1> QED BY <1>1, InvHolds, PTL

\* No event that could be played waits once PlayReleasedEvents has returned.
THEOREM NothingIsLeft == Spec => []NothingLeftBehind
<1>1. Inv => NothingLeftBehind
  BY DEF Inv
<1> QED BY <1>1, InvHolds, PTL

\* A client can always let go of a device it holds (AllowSome).
THEOREM AsyncAlwaysThaws == Spec => AsyncThaws
<1>1. ASSUME Inv, NEW c \in Clients, NEW d \in Devices,
             pc = "Idle", Holds(c, d)
      PROVE  /\ (thisGrabbed(c, d) /\ state[d] \in FrozenStates) \/ thisSynced(c, d)
             /\ Holds(c, d)' => ~AsyncDevice(c, d)
  <2>1. FreezeTypes /\ OtherIsActive
    BY <1>1, TypeOKParts DEF Inv
  <2>2. SameClient(other[d], c) => thisSynced(c, d)
    BY <2>1 DEF OtherIsActive, SameClient, thisSynced
  <2>3. ASSUME AsyncDevice(c, d) PROVE ~Holds(c, d)'
    <3>1. /\ state' = IF thisGrabbed(c, d) THEN [state EXCEPT ![d] = "THAWED"] ELSE state
          /\ other' = Released(c, d) /\ grab' = grab
      BY <2>3 DEF AsyncDevice, AllowAsync, ComputeFreezes
    <3>2. ~SameClient(other'[d], c)
      BY <3>1, <2>1, <2>2 DEF Released, FreezeTypes, SameClient
    <3>3. SameClient(grab'[d], c) => state'[d] = "THAWED"
      BY <3>1, <2>1 DEF FreezeTypes, thisGrabbed
    <3> QED BY <3>2, <3>3 DEF Holds, FrozenStates, SameClient
  <2> QED BY <1>1, <2>2, <2>3 DEF Holds, thisGrabbed
<1>2. Inv /\ [Next]_vars =>
        [\A c \in Clients, d \in Devices :
           pc = "Idle" /\ Holds(c, d) =>
               /\ (thisGrabbed(c, d) /\ state[d] \in FrozenStates) \/ thisSynced(c, d)
               /\ Holds(c, d)' => ~AsyncDevice(c, d)]_vars
  BY <1>1
<1> QED BY <1>2, InvHolds, PTL DEF Spec, AsyncThaws

-----------------------------------------------------------------------------
(* Each device has a stream of its own                                     *)

\* The events of a device wait in the order in which they were read, and each
\* of them was read after the last one that was processed.
InLine ==
    /\ \A i, j \in DOMAIN pending :
         i < j /\ pending[i].device = pending[j].device => pending[i].n < pending[j].n
    /\ \A i \in DOMAIN pending :
         /\ handled[pending[i].device] < pending[i].n
         /\ pending[i].n <= read[pending[i].device]
    /\ \A d \in Devices : handled[d] <= read[d]

LEMMA InLineTyped ==
    ASSUME Inv, InLine
    PROVE  /\ pending \in Seq(PendingEvents) /\ Len(pending) \in Nat
           /\ DOMAIN pending = 1 .. Len(pending)
           /\ \A i \in DOMAIN pending :
                /\ pending[i].device \in Devices /\ pending[i].n \in Nat
                /\ pending[i].kind \in Kinds
           /\ read \in [Devices -> Nat] /\ handled \in [Devices -> Nat]
<1>1. pending \in Seq(PendingEvents) /\ HistoryTypes
  BY TypeOKParts DEF Inv, FreezeTypes
<1>2. \A i \in DOMAIN pending : pending[i] \in PendingEvents
  BY <1>1, PendingDevices
<1>3. \A i \in DOMAIN pending :
        pending[i].device \in Devices /\ pending[i].n \in Nat /\ pending[i].kind \in Kinds
  BY <1>2 DEF PendingEvents
<1> QED BY <1>1, <1>3 DEF HistoryTypes

\* Processing an event leaves the list it was given.
LEMMA ProcessLeaves ==
    ASSUME NEW d, NEW kind, NEW queue, ProcessDeviceEvent(d, kind, queue)
    PROVE  pending' = queue
<1>1. CheckDeviceGrabs(d, 0, kind, queue) => pending' = queue
  BY DEF CheckDeviceGrabs, ActivateGrab, ComputeFreezes
<1>2. DeliverDeviceEvents(d, kind, queue) => pending' = queue
  BY DEF DeliverDeviceEvents, NothingChanges, ActivateGrab, ComputeFreezes
<1>3. DeliverGrabbedEvent(d, kind, queue) => pending' = queue
  BY DEF DeliverGrabbedEvent, FreezeThisEvent, NothingChanges
<1>4. DeactivateGrab(d, other, queue, NoReplay) => pending' = queue
  BY DEF DeactivateGrab, ComputeFreezes
<1> QED BY <1>1, <1>2, <1>3, <1>4 DEF ProcessDeviceEvent

\* All the other steps leave the list and the history alone.
LEMMA ReplayLeaves ==
    ASSUME ReplayEvent
    PROVE  UNCHANGED <<pending, read, handled>>
<1>1. ASSUME NEW d, NEW w, NEW kind, CheckDeviceGrabs(d, w, kind, pending)
      PROVE  pending' = pending
  BY <1>1 DEF CheckDeviceGrabs, ActivateGrab, ComputeFreezes
<1>2. ASSUME NEW d, NEW kind, DeliverDeviceEvents(d, kind, pending)
      PROVE  pending' = pending
  BY <1>2 DEF DeliverDeviceEvents, NothingChanges, ActivateGrab, ComputeFreezes
<1>3. UNCHANGED deviceVars
  BY DEF ReplayEvent
<1>4. pending' = pending
  BY <1>1, <1>2 DEF ReplayEvent
<1> QED BY <1>3, <1>4 DEF deviceVars

LEMMA RequestLeaves ==
    ASSUME NEW c \in Clients, NEW d \in Devices,
           \/ GrabDevice(c, d) \/ UngrabDevice(c, d)
           \/ AddPassiveGrab(c, d) \/ DeletePassiveGrab(c, d)
           \/ AsyncDevice(c, d) \/ SyncDevice(c, d) \/ ReplayDevice(c, d)
           \/ AsyncPair(c, d) \/ SyncPair(c, d) \/ AsyncPairedDevice(c, d)
    PROVE  UNCHANGED <<pending, read, handled>>
<1>1. CASE GrabDevice(c, d) \/ UngrabDevice(c, d)
  <2>1. pending' = pending
    BY <1>1 DEF GrabDevice, UngrabDevice, ActivateGrab, DeactivateGrab, ComputeFreezes
  <2> QED BY <1>1, <2>1 DEF GrabDevice, UngrabDevice, deviceVars
<1>2. CASE AddPassiveGrab(c, d) \/ DeletePassiveGrab(c, d)
  BY <1>2 DEF AddPassiveGrab, DeletePassiveGrab, deviceVars
<1>3. CASE AsyncDevice(c, d) \/ SyncDevice(c, d) \/ ReplayDevice(c, d)
  <2>1. pending' = pending
    BY <1>3
    DEF AsyncDevice, SyncDevice, ReplayDevice, AllowAsync, AllowSync, AllowReplay,
        DeactivateGrab, ComputeFreezes
  <2>2. UNCHANGED deviceVars
    BY <1>3 DEF AsyncDevice, SyncDevice, ReplayDevice, AllowSome
  <2> QED BY <2>1, <2>2 DEF deviceVars
<1>4. CASE AsyncPair(c, d) \/ SyncPair(c, d) \/ AsyncPairedDevice(c, d)
  <2>1. pending' = pending
    BY <1>4 DEF AsyncPair, SyncPair, AsyncPairedDevice, AllowAll, ComputeFreezes
  <2>2. UNCHANGED deviceVars
    BY <1>4 DEF AsyncPair, SyncPair, AsyncPairedDevice, AllowSome
  <2> QED BY <2>1, <2>2 DEF deviceVars
<1> QED BY <1>1, <1>2, <1>3, <1>4

LEMMA ClosingLeaves ==
    ASSUME Closing \/ PlayDone \/ \E c \in Clients : Connect(c) \/ CloseDownClient(c)
    PROVE  UNCHANGED <<pending, read, handled>>
<1>1. CASE ReleaseActiveGrab
  <2>1. pending' = pending
    BY <1>1 DEF ReleaseActiveGrab, DeactivateGrab, ComputeFreezes
  <2> QED BY <1>1, <2>1 DEF ReleaseActiveGrab, deviceVars
<1>2. CASE ReleaseAgain \/ ClientGone \/ PlayDone
  BY <1>2 DEF ReleaseAgain, ClientGone, PlayDone, deviceVars
<1>3. ASSUME NEW c \in Clients, Connect(c) \/ CloseDownClient(c)
      PROVE  UNCHANGED <<pending, read, handled>>
  BY <1>3 DEF Connect, CloseDownClient, deviceVars
<1> QED BY <1>1, <1>2, <1>3 DEF Closing

-----------------------------------------------------------------------------
(* What a change of the list is for each stream                            *)

\* An event at place i is one of its device's stream.
LEMMA WaitsAt ==
    ASSUME NEW queue, NEW x
    PROVE  /\ \A i \in DOMAIN queue :
                queue[i].device = x
                    => [kind |-> queue[i].kind, n |-> queue[i].n] \in WaitingFor(queue, x)
           /\ \A e \in WaitingFor(queue, x) :
                \E i \in DOMAIN queue :
                    /\ queue[i].device = x
                    /\ e = [kind |-> queue[i].kind, n |-> queue[i].n]
BY DEF WaitingFor

LEMMA AppendWaits ==
    ASSUME NEW queue \in Seq(PendingEvents), NEW e \in PendingEvents, NEW x
    PROVE  WaitingFor(Append(queue, e), x) =
             IF x = e.device THEN WaitingFor(queue, x) \cup {[kind |-> e.kind, n |-> e.n]}
             ELSE WaitingFor(queue, x)
<1> DEFINE q == Append(queue, e)
           m == Len(queue)
<1>1. m \in Nat /\ DOMAIN queue = 1 .. m /\ DOMAIN q = 1 .. (m + 1)
  OBVIOUS
<1>2. (\A i \in 1 .. m : q[i] = queue[i]) /\ q[m + 1] = e
  OBVIOUS
<1>3. /\ DOMAIN q = DOMAIN queue \cup {m + 1}
      /\ \A i \in DOMAIN queue : q[i] = queue[i]
  BY <1>1, <1>2
<1> HIDE DEF q, m
<1>4. ASSUME NEW w, w \in WaitingFor(q, x)
      PROVE  w \in IF x = e.device
                   THEN WaitingFor(queue, x) \cup {[kind |-> e.kind, n |-> e.n]}
                   ELSE WaitingFor(queue, x)
  <2>1. PICK i \in DOMAIN q : q[i].device = x /\ w = [kind |-> q[i].kind, n |-> q[i].n]
    BY <1>4, WaitsAt
  <2>2. CASE i \in DOMAIN queue
    BY <2>1, <2>2, <1>3, WaitsAt
  <2>3. CASE i = m + 1
    BY <2>1, <2>3, <1>2
  <2> QED BY <2>2, <2>3, <1>3
<1>5. ASSUME NEW w, w \in WaitingFor(queue, x)
      PROVE  w \in WaitingFor(q, x)
  <2>1. PICK i \in DOMAIN queue :
          queue[i].device = x /\ w = [kind |-> queue[i].kind, n |-> queue[i].n]
    BY <1>5, WaitsAt
  <2>2. i \in DOMAIN q /\ q[i] = queue[i]
    BY <1>3
  <2> QED BY <2>1, <2>2, WaitsAt
<1>6. x = e.device => [kind |-> e.kind, n |-> e.n] \in WaitingFor(q, x)
  <2>1. m + 1 \in DOMAIN q /\ q[m + 1] = e
    BY <1>2, <1>3
  <2> QED BY <2>1, WaitsAt
<1>7. WaitingFor(q, x) = IF x = e.device
                         THEN WaitingFor(queue, x) \cup {[kind |-> e.kind, n |-> e.n]}
                         ELSE WaitingFor(queue, x)
  BY <1>4, <1>5, <1>6
<1> QED BY <1>7 DEF q

\* q is the list with the event at place i replaced by those of the set New, all
\* of its device; s tells where a place of q was in the list.
Replaces(queue, i, q, s, New) ==
    /\ i \in DOMAIN queue /\ s \in [DOMAIN q -> DOMAIN queue]
    /\ \A k \in DOMAIN q : s[k] # i => q[k] = queue[s[k]]
    /\ \A k \in DOMAIN q : s[k] = i => q[k].device = queue[i].device
    /\ \A j \in DOMAIN queue : j # i => \E k \in DOMAIN q : s[k] = j
    /\ \A j \in DOMAIN queue :
           j # i /\ queue[j].device = queue[i].device => queue[j].n # queue[i].n
    /\ \A w : w \in New <=> \E k \in DOMAIN q :
           s[k] = i /\ w = [kind |-> q[k].kind, n |-> q[k].n]

LEMMA ReplaceWaits ==
    ASSUME NEW queue, NEW i, NEW q, NEW s, NEW New, Replaces(queue, i, q, s, New)
    PROVE  /\ \A x : x # queue[i].device => WaitingFor(q, x) = WaitingFor(queue, x)
           /\ WaitingFor(q, queue[i].device) =
                (WaitingFor(queue, queue[i].device)
                    \ {[kind |-> queue[i].kind, n |-> queue[i].n]}) \cup New
<1> DEFINE d == queue[i].device
           e == [kind |-> queue[i].kind, n |-> queue[i].n]
<1> USE DEF Replaces
<1>1. ASSUME NEW x, NEW w, w \in WaitingFor(q, x)
      PROVE  \/ x = d /\ w \in New
             \/ w \in WaitingFor(queue, x) /\ (x = d => w # e)
  <2>1. PICK k \in DOMAIN q : q[k].device = x /\ w = [kind |-> q[k].kind, n |-> q[k].n]
    BY <1>1, WaitsAt
  <2>2. CASE s[k] = i
    BY <2>1, <2>2
  <2>3. CASE s[k] # i
    <3>1. q[k] = queue[s[k]] /\ s[k] \in DOMAIN queue
      BY <2>3
    <3>2. w \in WaitingFor(queue, x)
      BY <2>1, <3>1, WaitsAt
    <3>3. x = d => w.n # e.n
      BY <2>1, <2>3, <3>1
    <3> QED BY <3>2, <3>3
  <2> QED BY <2>2, <2>3
<1>2. ASSUME NEW x, NEW w, w \in WaitingFor(queue, x), x = d => w # e
      PROVE  w \in WaitingFor(q, x)
  <2>1. PICK j \in DOMAIN queue :
          queue[j].device = x /\ w = [kind |-> queue[j].kind, n |-> queue[j].n]
    BY <1>2, WaitsAt
  <2>2. j # i
    BY <2>1, <1>2
  <2>3. PICK k \in DOMAIN q : s[k] = j
    BY <2>2
  <2>4. q[k] = queue[j]
    BY <2>2, <2>3
  <2> QED BY <2>1, <2>4, WaitsAt
<1>3. New \subseteq WaitingFor(q, d)
  <2> SUFFICES ASSUME NEW k \in DOMAIN q, s[k] = i
               PROVE  [kind |-> q[k].kind, n |-> q[k].n] \in WaitingFor(q, d)
    OBVIOUS
  <2>1. q[k].device = d
    OBVIOUS
  <2> QED BY <2>1, WaitsAt
<1> HIDE DEF e, d
<1>4. \A x : x # d => WaitingFor(q, x) = WaitingFor(queue, x)
  <2> SUFFICES ASSUME NEW x, x # d PROVE WaitingFor(q, x) = WaitingFor(queue, x)
    OBVIOUS
  <2>1. \A w : w \in WaitingFor(q, x) => w \in WaitingFor(queue, x)
    BY <1>1
  <2>2. \A w : w \in WaitingFor(queue, x) => w \in WaitingFor(q, x)
    BY <1>2
  <2> QED BY <2>1, <2>2, Zenon
<1>5. WaitingFor(q, d) = (WaitingFor(queue, d) \ {e}) \cup New
  BY <1>1, <1>2, <1>3
<1> QED BY <1>4, <1>5 DEF e, d

\* Where the places of the list without place i were before.
LEMMA WithoutPlaces ==
    ASSUME NEW queue \in Seq(PendingEvents), NEW i \in DOMAIN queue
    PROVE  /\ DOMAIN Without(queue, i) = 1 .. (Len(queue) - 1)
           /\ \A k \in 1 .. (Len(queue) - 1) :
                Without(queue, i)[k] = IF k < i THEN queue[k] ELSE queue[k + 1]
<1> DEFINE m == Len(queue)
           front == SubSeq(queue, 1, i - 1)
           back == SubSeq(queue, i + 1, m)
<1>1. m \in Nat /\ i \in 1 .. m
  OBVIOUS
<1>2. /\ front \in Seq(PendingEvents) /\ Len(front) = i - 1
      /\ \A k \in 1 .. (i - 1) : front[k] = queue[k]
  BY <1>1
<1>3. /\ back \in Seq(PendingEvents) /\ Len(back) = m - i
      /\ \A k \in 1 .. (m - i) : back[k] = queue[k + i]
  BY <1>1
<1>4. Without(queue, i) = front \o back
  BY DEF Without
<1> HIDE DEF front, back, m
<1>5. DOMAIN (front \o back) = 1 .. (m - 1)
  BY <1>1, <1>2, <1>3
<1>6. ASSUME NEW k \in 1 .. (m - 1)
      PROVE  (front \o back)[k] = IF k < i THEN queue[k] ELSE queue[k + 1]
  <2>1. CASE k < i
    BY <2>1, <1>1, <1>2, <1>3
  <2>2. CASE ~(k < i)
    <3>1. /\ k \in Int /\ i \in Int /\ m \in Int /\ i >= 1 /\ i <= m
          /\ k >= i /\ k <= m - 1
      BY <2>2, <1>1
    <3>2. k - (i - 1) \in 1 .. (m - i) /\ k - (i - 1) + i = k + 1 /\ k > i - 1
      BY <3>1
    <3>3. (front \o back)[k] = back[k - (i - 1)]
      <4>1. front \in Seq(PendingEvents) /\ back \in Seq(PendingEvents)
        BY <1>2, <1>3
      <4>2. k \in 1 .. (Len(front) + Len(back)) /\ ~(k <= Len(front))
        BY <3>1, <1>2, <1>3
      <4>3. (front \o back)[k] = back[k - Len(front)]
        BY <4>1, <4>2
      <4> QED BY <4>3, <1>2
    <3>4. back[k - (i - 1)] = queue[k + 1]
      BY <3>2, <1>3
    <3> QED BY <2>2, <3>3, <3>4
  <2> QED BY <2>1, <2>2
<1> QED BY <1>4, <1>5, <1>6 DEF m

-----------------------------------------------------------------------------
(* Every step is one of a stream                                           *)

\* Read at once: no event of the device waits, or it would be frozen.
LEMMA InputPasses ==
    ASSUME Inv, InLine, NEW d \in Devices, NEW kind, pc = "Idle", ~frozen[d],
           ProcessDeviceEvent(d, kind, pending),
           read' = [read EXCEPT ![d] = @ + 1],
           handled' = [handled EXCEPT ![d] = read[d] + 1]
    PROVE  Stream!Pass(d) /\ InLine'
<1>1. pending' = pending
  BY ProcessLeaves
<1>2. \A i \in DOMAIN pending : pending[i].device # d
  BY DEF Inv, NothingLeftBehind, Playable
<1>3. /\ read \in [Devices -> Nat] /\ handled \in [Devices -> Nat]
      /\ DOMAIN pending = 1 .. Len(pending) /\ Len(pending) \in Nat
      /\ \A i \in DOMAIN pending : pending[i].device \in Devices /\ pending[i].n \in Nat
  BY InLineTyped
<1>4. waiting' = waiting /\ waiting[d] = {}
  BY <1>1, <1>2, WaitsAt DEF waiting
<1>5. Stream!Pass(d)
  BY <1>4 DEF Stream!Pass, Stream!Reads
<1>6. \A i \in DOMAIN pending :
        /\ handled'[pending[i].device] = handled[pending[i].device]
        /\ read'[pending[i].device] = read[pending[i].device]
  BY <1>2, <1>3
<1>7. \A x \in Devices : handled'[x] <= read'[x]
  BY <1>3 DEF InLine
<1>8. InLine'
  BY <1>1, <1>6, <1>7 DEF InLine
<1> QED BY <1>5, <1>8

\* Read while the device is frozen: the event waits behind the others, or
\* takes the place of the last one.
LEMMA InputHolds ==
    ASSUME Inv, InLine, NEW d \in Devices, NEW kind \in Kinds, ~Compressed(d, kind),
           EnqueueEvent(d, kind, read[d] + 1),
           read' = [read EXCEPT ![d] = @ + 1]
    PROVE  Stream!Hold(d) /\ InLine'
<1> DEFINE e == [device |-> d, kind |-> kind, n |-> read[d] + 1]
           m == Len(pending)
<1>1. /\ pending \in Seq(PendingEvents) /\ m \in Nat /\ DOMAIN pending = 1 .. m
      /\ \A i \in DOMAIN pending : pending[i].device \in Devices /\ pending[i].n \in Nat
      /\ read \in [Devices -> Nat] /\ handled \in [Devices -> Nat]
  BY InLineTyped
<1>2. pending' = Append(pending, e) /\ handled' = handled
  BY DEF EnqueueEvent
<1>3. e \in PendingEvents /\ e.device = d /\ e.kind = kind /\ e.n = read[d] + 1
  BY <1>1 DEF PendingEvents
<1> HIDE DEF e
<1>4. \A x : WaitingFor(pending', x) =
               IF x = d THEN WaitingFor(pending, x) \cup {[kind |-> kind, n |-> read[d] + 1]}
               ELSE WaitingFor(pending, x)
  BY <1>1, <1>2, <1>3, AppendWaits
<1>5. waiting' = [waiting EXCEPT ![d] = @ \cup {[kind |-> kind, n |-> read[d] + 1]}]
  BY <1>4 DEF waiting
<1>6. Stream!Hold(d)
  BY <1>2, <1>5 DEF Stream!Hold, Stream!Reads, Stream!Kinds, Kinds
<1>7. /\ DOMAIN pending' = 1 .. (m + 1)
      /\ \A i \in 1 .. m : pending'[i] = pending[i]
      /\ pending'[m + 1] = e
  BY <1>1, <1>2, <1>3
<1>8. \A i \in 1 .. m : /\ pending[i].n <= read[pending[i].device]
                        /\ handled[pending[i].device] < pending[i].n
  BY <1>1 DEF InLine
<1>9. /\ \A x \in Devices : read[x] <= read'[x] /\ handled[x] <= read'[x]
      /\ read'[d] = read[d] + 1 /\ handled[d] < read[d] + 1
  BY <1>1 DEF InLine
<1> HIDE DEF e, m
<1>10. ASSUME NEW i \in 1 .. (m + 1), NEW j \in 1 .. (m + 1), i < j,
              pending'[i].device = pending'[j].device
       PROVE  pending'[i].n < pending'[j].n
  <2>1. i \in 1 .. m
    BY <1>1, <1>10
  <2>2. CASE j \in 1 .. m
    BY <2>1, <2>2, <1>1, <1>7, <1>10 DEF InLine
  <2>3. CASE j = m + 1
    <3>1. pending[i].device = d /\ pending[i].n <= read[d] /\ pending[i].n \in Nat
      BY <2>1, <2>3, <1>1, <1>3, <1>7, <1>8, <1>10
    <3> QED BY <2>1, <2>3, <3>1, <1>1, <1>3, <1>7
  <2> QED BY <1>1, <2>2, <2>3
<1>11. ASSUME NEW i \in 1 .. (m + 1)
       PROVE  /\ handled[pending'[i].device] < pending'[i].n
              /\ pending'[i].n <= read'[pending'[i].device]
  <2>1. CASE i \in 1 .. m
    <3>1. pending'[i] = pending[i] /\ pending[i].device \in Devices /\ pending[i].n \in Nat
      BY <2>1, <1>1, <1>7
    <3>2. /\ read[pending[i].device] \in Nat /\ read'[pending[i].device] \in Nat
          /\ read[pending[i].device] <= read'[pending[i].device]
      BY <3>1, <1>1, <1>9
    <3> QED BY <2>1, <3>1, <3>2, <1>8
  <2>2. CASE i = m + 1
    BY <2>2, <1>1, <1>3, <1>7, <1>9
  <2> QED BY <1>1, <2>1, <2>2
<1>12. InLine'
  BY <1>2, <1>7, <1>9, <1>10, <1>11 DEF InLine
<1> QED BY <1>6, <1>12

LEMMA InputSupersedes ==
    ASSUME Inv, InLine, NEW d \in Devices, NEW kind \in Kinds, Compressed(d, kind),
           EnqueueEvent(d, kind, read[d] + 1),
           read' = [read EXCEPT ![d] = @ + 1]
    PROVE  Stream!Supersede(d) /\ InLine'
<1> DEFINE m == Len(pending)
           e == [kind |-> pending[m].kind, n |-> pending[m].n]
           s == [k \in DOMAIN pending |-> k]
<1>1. /\ pending \in Seq(PendingEvents) /\ m \in Nat /\ DOMAIN pending = 1 .. m
      /\ \A i \in DOMAIN pending : pending[i].device \in Devices /\ pending[i].n \in Nat
      /\ read \in [Devices -> Nat] /\ handled \in [Devices -> Nat]
  BY InLineTyped
<1>2. /\ m \in DOMAIN pending /\ pending[m] \in PendingEvents
      /\ pending[m].device = d /\ pending[m].kind = "motion"
  BY <1>1, PendingDevices DEF Compressed
<1>3. pending' = [pending EXCEPT ![m].n = read[d] + 1] /\ handled' = handled
  BY DEF EnqueueEvent
<1>4. /\ DOMAIN pending' = DOMAIN pending
      /\ \A i \in DOMAIN pending : i # m => pending'[i] = pending[i]
  BY <1>3
<1>5. pending'[m] = [pending[m] EXCEPT !.n = read[d] + 1]
  BY <1>2, <1>3
<1>6. pending'[m].device = d /\ pending'[m].kind = "motion" /\ pending'[m].n = read[d] + 1
  BY <1>2, <1>5 DEF PendingEvents
<1>7. \A i \in DOMAIN pending :
        i # m /\ pending[i].device = d => pending[i].n < pending[m].n
  <2>1. \A i \in DOMAIN pending : i # m => i < m
    BY <1>1
  <2> QED BY <2>1, <1>2 DEF InLine
<1> HIDE DEF m
<1>8. /\ \A x : x # d => WaitingFor(pending', x) = WaitingFor(pending, x)
      /\ WaitingFor(pending', d) = (WaitingFor(pending, d) \ {e})
            \cup {[kind |-> "motion", n |-> read[d] + 1]}
  <2> DEFINE New == {[kind |-> "motion", n |-> read[d] + 1]}
  <2>1. s \in [DOMAIN pending' -> DOMAIN pending]
    BY <1>4
  <2>2. \A k \in DOMAIN pending' : s[k] # m => pending'[k] = pending[s[k]]
    BY <1>4
  <2>3. \A k \in DOMAIN pending' : s[k] = m => pending'[k].device = pending[m].device
    BY <1>2, <1>4, <1>6
  <2>4. \A j \in DOMAIN pending : j # m => \E k \in DOMAIN pending' : s[k] = j
    BY <1>4
  <2>5. \A j \in DOMAIN pending :
          j # m /\ pending[j].device = pending[m].device => pending[j].n # pending[m].n
    BY <1>1, <1>2, <1>7
  <2>6. \A w : w \in New <=> \E k \in DOMAIN pending' :
          s[k] = m /\ w = [kind |-> pending'[k].kind, n |-> pending'[k].n]
    BY <1>2, <1>4, <1>6
  <2> HIDE DEF s, New
  <2>7. Replaces(pending, m, pending', s, New)
    BY <1>2, <2>1, <2>2, <2>3, <2>4, <2>5, <2>6 DEF Replaces
  <2>8. \A x : x # pending[m].device => WaitingFor(pending', x) = WaitingFor(pending, x)
    BY <2>7, ReplaceWaits
  <2>9. WaitingFor(pending', pending[m].device) =
          (WaitingFor(pending, pending[m].device) \ {e}) \cup New
    BY <2>7, ReplaceWaits
  <2> HIDE DEF e
  <2> QED BY <1>2, <2>8, <2>9 DEF New
<1>9. waiting' = [waiting EXCEPT ![d] = (@ \ {e}) \cup {[kind |-> "motion", n |-> read[d] + 1]}]
  BY <1>8 DEF waiting
<1>10. e \in waiting[d] /\ \A f \in waiting[d] : f.n <= e.n
  <2>1. waiting[d] = WaitingFor(pending, d)
    BY DEF waiting
  <2>2. e \in WaitingFor(pending, d)
    BY <1>2, WaitsAt
  <2>3. ASSUME NEW f \in WaitingFor(pending, d) PROVE f.n <= e.n
    <3>1. PICK i \in DOMAIN pending :
            pending[i].device = d /\ f = [kind |-> pending[i].kind, n |-> pending[i].n]
      BY WaitsAt
    <3>2. f.n = pending[i].n /\ e.n = pending[m].n
      BY <3>1
    <3>3. i = m \/ pending[i].n < pending[m].n
      BY <3>1, <1>7
    <3> QED BY <3>2, <3>3, <1>1, <1>2
  <2> QED BY <2>1, <2>2, <2>3
<1>11. Stream!Supersede(d)
  <2>1. e.kind = "motion"
    BY <1>2
  <2> HIDE DEF e
  <2> QED BY <2>1, <1>3, <1>9, <1>10 DEF Stream!Supersede, Stream!Reads, Stream!Latest
<1>12. InLine'
  <2>1. \A i \in DOMAIN pending :
          /\ pending'[i].device = pending[i].device /\ pending'[i].device \in Devices
          /\ i # m => pending'[i].n = pending[i].n
    BY <1>1, <1>2, <1>4, <1>6
  <2>2. \A i \in DOMAIN pending : /\ pending[i].n <= read[pending[i].device]
                                  /\ handled[pending[i].device] < pending[i].n
    BY DEF InLine
  <2>3. /\ \A x \in Devices : read[x] <= read'[x] /\ handled[x] <= read'[x]
        /\ read'[d] = read[d] + 1 /\ handled[d] < read[d] + 1
        /\ read' \in [Devices -> Nat]
    BY <1>1 DEF InLine
  <2>4. ASSUME NEW i \in DOMAIN pending, NEW j \in DOMAIN pending, i < j,
               pending'[i].device = pending'[j].device
        PROVE  pending'[i].n < pending'[j].n
    <3>1. i # m
      BY <2>4, <1>1 DEF m
    <3>2. pending[i].n < pending[j].n
      BY <2>4, <2>1 DEF InLine
    <3>3. CASE j # m
      BY <3>1, <3>2, <3>3, <2>1
    <3>4. CASE j = m
      <4>1. pending[i].device = d /\ pending[i].n <= read[d]
        BY <3>4, <2>1, <2>2, <2>4, <1>6
      <4> QED BY <3>1, <3>4, <4>1, <2>1, <1>1, <1>6
    <3> QED BY <3>3, <3>4
  <2>5. ASSUME NEW i \in DOMAIN pending
        PROVE  /\ handled[pending'[i].device] < pending'[i].n
               /\ pending'[i].n <= read'[pending'[i].device]
    <3>1. CASE i # m
      <4>1. pending'[i] = pending[i] /\ pending[i].device \in Devices /\ pending[i].n \in Nat
        BY <3>1, <1>1, <1>4
      <4>2. /\ read[pending[i].device] \in Nat /\ read'[pending[i].device] \in Nat
            /\ read[pending[i].device] <= read'[pending[i].device]
        BY <4>1, <1>1, <2>3
      <4> QED BY <4>1, <4>2, <2>2
    <3>2. CASE i = m
      BY <3>2, <1>1, <1>6, <2>3
    <3> QED BY <3>1, <3>2
  <2> QED BY <1>3, <1>4, <2>3, <2>4, <2>5 DEF InLine
<1> QED BY <1>11, <1>12

\* An event is played: the first one that can be is the earliest of its device.
LEMMA PlayTakes ==
    ASSUME Inv, InLine, NEW i \in DOMAIN pending, First(Playable, i),
           ProcessDeviceEvent(pending[i].device, pending[i].kind, Without(pending, i)),
           handled' = [handled EXCEPT ![pending[i].device] = pending[i].n],
           read' = read
    PROVE  Stream!Take(pending[i].device) /\ InLine'
<1> DEFINE d == pending[i].device
           m == Len(pending)
           e == [kind |-> pending[i].kind, n |-> pending[i].n]
           s == [k \in 1 .. (m - 1) |-> IF k < i THEN k ELSE k + 1]
<1>1. /\ pending \in Seq(PendingEvents) /\ m \in Nat /\ DOMAIN pending = 1 .. m
      /\ \A j \in DOMAIN pending : pending[j].device \in Devices /\ pending[j].n \in Nat
      /\ read \in [Devices -> Nat] /\ handled \in [Devices -> Nat]
  BY InLineTyped
<1>2. pending' = Without(pending, i)
  BY ProcessLeaves
<1>3. /\ DOMAIN pending' = 1 .. (m - 1)
      /\ \A k \in 1 .. (m - 1) : pending'[k] = IF k < i THEN pending[k] ELSE pending[k + 1]
  BY <1>1, <1>2, WithoutPlaces
<1>4. \A j \in DOMAIN pending : j # i /\ pending[j].device = d => i < j /\ pending[i].n < pending[j].n
  <2>1. ~frozen[d] /\ \A j \in Playable : i <= j
    BY DEF First, Playable
  <2>2. \A j \in DOMAIN pending : pending[j].device = d => i <= j
    BY <2>1 DEF Playable
  <2>3. \A j \in DOMAIN pending : j # i /\ pending[j].device = d => i < j
    BY <2>2, <1>1
  <2> QED BY <2>3 DEF InLine
<1>5. /\ s \in [DOMAIN pending' -> DOMAIN pending]
      /\ \A k \in DOMAIN pending' : s[k] # i
      /\ \A j \in DOMAIN pending : j # i => \E k \in DOMAIN pending' : s[k] = j
      /\ \A k, l \in DOMAIN pending' : k < l => s[k] < s[l]
  <2>1. i \in 1 .. m
    BY <1>1
  <2>2. /\ \A k \in 1 .. (m - 1) : s[k] = IF k < i THEN k ELSE k + 1
        /\ \A k \in 1 .. (m - 1) : s[k] \in 1 .. m /\ s[k] # i
    BY <2>1, <1>1
  <2>3. s \in [1 .. (m - 1) -> 1 .. m]
    BY <2>2, Zenon
  <2>4. ASSUME NEW k \in 1 .. (m - 1), NEW l \in 1 .. (m - 1), k < l
        PROVE  s[k] < s[l]
    BY <2>1, <2>2, <2>4
  <2>5. ASSUME NEW j \in 1 .. m, j # i PROVE \E k \in 1 .. (m - 1) : s[k] = j
    <3>1. CASE j < i
      BY <3>1, <2>1, <1>1
    <3>2. CASE i < j
      <4>1. j - 1 \in 1 .. (m - 1) /\ s[j - 1] = j
        BY <3>2, <2>1, <1>1
      <4> QED BY <4>1
    <3> QED BY <3>1, <3>2, <2>1, <2>5, <1>1
  <2> QED BY <2>2, <2>3, <2>4, <2>5, <1>1, <1>3
<1>6. \A k \in DOMAIN pending' : pending'[k] = pending[s[k]]
  BY <1>3
<1> HIDE DEF s, m
<1>7. /\ \A x : x # d => WaitingFor(pending', x) = WaitingFor(pending, x)
      /\ WaitingFor(pending', d) = WaitingFor(pending, d) \ {e}
  <2>1. \A k \in DOMAIN pending' : s[k] # i => pending'[k] = pending[s[k]]
    BY <1>6
  <2>2. \A k \in DOMAIN pending' : s[k] = i => pending'[k].device = pending[i].device
    BY <1>5
  <2>3. \A j \in DOMAIN pending :
          j # i /\ pending[j].device = pending[i].device => pending[j].n # pending[i].n
    BY <1>1, <1>4
  <2>4. s \in [DOMAIN pending' -> DOMAIN pending]
    BY <1>5
  <2>5. \A j \in DOMAIN pending : j # i => \E k \in DOMAIN pending' : s[k] = j
    BY <1>5
  <2>6. \A w : w \in {} <=> \E k \in DOMAIN pending' :
          s[k] = i /\ w = [kind |-> pending'[k].kind, n |-> pending'[k].n]
    BY <1>5
  <2>7. Replaces(pending, i, pending', s, {})
    BY <2>1, <2>2, <2>3, <2>6, <2>4, <2>5 DEF Replaces
  <2>8. \A x : x # d => WaitingFor(pending', x) = WaitingFor(pending, x)
    BY <2>7, ReplaceWaits
  <2>9. WaitingFor(pending', d) = (WaitingFor(pending, d) \ {e}) \cup {}
    BY <2>7, ReplaceWaits
  <2> HIDE DEF e, d
  <2> QED BY <2>8, <2>9
<1>8. d \in Devices
  BY <1>1
<1>9. waiting' = [waiting EXCEPT ![d] = @ \ {e}]
  BY <1>7, <1>8 DEF waiting
<1>10. e \in waiting[d] /\ \A f \in waiting[d] : e.n <= f.n
  <2>1. waiting[d] = WaitingFor(pending, d)
    BY <1>8 DEF waiting
  <2>2. e \in WaitingFor(pending, d)
    BY WaitsAt
  <2>3. ASSUME NEW f \in WaitingFor(pending, d) PROVE e.n <= f.n
    <3>1. PICK j \in DOMAIN pending :
            pending[j].device = d /\ f = [kind |-> pending[j].kind, n |-> pending[j].n]
      BY WaitsAt
    <3>2. f.n = pending[j].n /\ e.n = pending[i].n
      BY <3>1
    <3>3. j = i \/ pending[i].n < pending[j].n
      BY <3>1, <1>4
    <3> QED BY <3>2, <3>3, <1>1
  <2> QED BY <2>1, <2>2, <2>3
<1>11. Stream!Take(d)
  <2>1. handled' = [handled EXCEPT ![d] = e.n]
    OBVIOUS
  <2> HIDE DEF e, d
  <2> QED BY <2>1, <1>9, <1>10 DEF Stream!Take, Stream!Earliest
<1>12. InLine'
  <2>1. /\ \A k \in DOMAIN pending' : pending'[k] = pending[s[k]] /\ s[k] \in DOMAIN pending /\ s[k] # i
        /\ \A k, l \in DOMAIN pending' : k < l => s[k] < s[l]
    BY <1>5, <1>6
  <2>2. \A k, l \in DOMAIN pending' :
          k < l /\ pending'[k].device = pending'[l].device => pending'[k].n < pending'[l].n
    BY <2>1 DEF InLine
  <2>3. \A j \in DOMAIN pending : j # i =>
          handled'[pending[j].device] < pending[j].n /\ pending[j].n <= read[pending[j].device]
    <3>1. ASSUME NEW j \in DOMAIN pending, j # i
          PROVE  handled'[pending[j].device] < pending[j].n
      <4>1. CASE pending[j].device = d
        BY <4>1, <3>1, <1>1, <1>4, <1>8
      <4>2. CASE pending[j].device # d
        BY <4>2, <1>1 DEF InLine
      <4> QED BY <4>1, <4>2
    <3> QED BY <3>1 DEF InLine
  <2>4. \A x \in Devices : handled'[x] <= read[x]
    BY <1>1, <1>8 DEF InLine
  <2> QED BY <2>1, <2>2, <2>3, <2>4 DEF InLine
<1> QED BY <1>11, <1>12

LEMMA StepImplements ==
    ASSUME Inv, InLine, [Next]_vars
    PROVE  [Stream!Next]_<<read, waiting, handled>> /\ InLine'
<1>1. ASSUME UNCHANGED <<pending, read, handled>>
      PROVE  UNCHANGED <<read, waiting, handled>> /\ InLine'
  BY <1>1 DEF waiting, InLine
<1>2. ASSUME NEW d \in Devices, ProcessInput(d)
      PROVE  (Stream!Pass(d) \/ Stream!Hold(d) \/ Stream!Supersede(d)) /\ InLine'
  <2>1. PICK kind \in Reports(d) :
          /\ read' = [read EXCEPT ![d] = @ + 1]
          /\ IF frozen[d] THEN EnqueueEvent(d, kind, read[d] + 1)
             ELSE /\ ProcessDeviceEvent(d, kind, pending)
                  /\ handled' = [handled EXCEPT ![d] = read[d] + 1]
    BY <1>2 DEF ProcessInput
  <2>2. kind \in Kinds /\ pc = "Idle"
    BY <1>2 DEF Reports, Kinds, ProcessInput
  <2>3. CASE ~frozen[d]
    BY <2>1, <2>2, <2>3, InputPasses
  <2>4. CASE frozen[d] /\ Compressed(d, kind)
    BY <2>1, <2>2, <2>4, InputSupersedes
  <2>5. CASE frozen[d] /\ ~Compressed(d, kind)
    BY <2>1, <2>2, <2>5, InputHolds
  <2> QED BY <2>3, <2>4, <2>5
<1>3. ASSUME PlayReleasedEvents
      PROVE  (\E d \in Devices : Stream!Take(d)) /\ InLine'
  <2>1. PICK i \in DOMAIN pending :
          /\ First(Playable, i)
          /\ ProcessDeviceEvent(pending[i].device, pending[i].kind, Without(pending, i))
          /\ handled' = [handled EXCEPT ![pending[i].device] = pending[i].n]
    BY <1>3 DEF PlayReleasedEvents
  <2>2. read' = read
    BY <1>3 DEF PlayReleasedEvents
  <2>3. pending[i].device \in Devices
    BY InLineTyped
  <2> QED BY <2>1, <2>2, <2>3, PlayTakes
<1>4. CASE \E d \in Devices : ProcessInput(d)
  BY <1>2, <1>4 DEF Stream!Next
<1>5. CASE PlayReleasedEvents
  BY <1>3, <1>5 DEF Stream!Next
<1>6. CASE Request \/ ReplayEvent \/ PlayDone \/ Closing
           \/ \E c \in Clients : Connect(c) \/ CloseDownClient(c)
  <2>1. UNCHANGED <<pending, read, handled>>
    BY <1>6, RequestLeaves, ReplayLeaves, ClosingLeaves DEF Request
  <2> QED BY <2>1, <1>1
<1>7. CASE UNCHANGED vars
  BY <1>1, <1>7 DEF vars, deviceVars
<1> QED BY <1>4, <1>5, <1>6, <1>7 DEF Next, Playing

\* The events of a device wait in the order in which they were read, none of
\* them is before the last one that was processed (EnqueueEvent,
\* PlayReleasedEvents).
THEOREM EventsInLine == Spec => []InLine
<1>1. Init => InLine
  BY DEF Init, InLine
<1>2. Inv /\ InLine /\ [Next]_vars => InLine'
  BY StepImplements
<1> QED BY <1>1, <1>2, InvHolds, PTL DEF Spec

\* Whatever freezes and thaws the devices, the events of each are processed in
\* the order in which they were read, and none is lost but a motion that the
\* next motion of the device supersedes (EnqueueEvent, PlayReleasedEvents,
\* ComputeFreezes).
THEOREM StreamsImplemented == Spec => Implements
<1>1. Init => Stream!Init
  <2> SUFFICES ASSUME Init PROVE Stream!Init
    OBVIOUS
  <2>1. \A d \in Devices : WaitingFor(pending, d) = {}
    BY WaitsAt DEF Init
  <2> QED BY <2>1 DEF Init, Stream!Init, waiting
<1>2. Inv /\ InLine /\ [Next]_vars => [Stream!Next]_<<read, waiting, handled>>
  BY StepImplements
<1>3. [Stream!Next]_<<read, waiting, handled>> => [Stream!Next]_Stream!streamVars
  BY DEF Stream!streamVars
<1> QED
  BY <1>1, <1>2, <1>3, InvHolds, EventsInLine, PTL DEF Spec, Implements, Stream!Spec

=============================================================================
