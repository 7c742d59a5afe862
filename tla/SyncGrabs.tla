----------------------------- MODULE SyncGrabs ------------------------------
(***************************************************************************)
(* Grabs of the master pointer and the master keyboard, and what freezes   *)
(* them (server/dix/events.c).                                             *)
(*                                                                         *)
(* A grab may freeze its own device, the paired one, or both.  The events  *)
(* of a frozen device wait in one list, syncEvents.pending, until the      *)
(* clients that froze it have called AllowEvents; they are then played,    *)
(* and an event that is played may activate a passive grab, be followed by *)
(* a freeze, or end a grab, and so freeze or thaw either device again.  A  *)
(* client may also give a grab back together with the event that activated *)
(* it, which is then replayed to the windows below.                        *)
(*                                                                         *)
(* The thread plays events from inside a request, from inside another      *)
(* event and while it closes down a client; "pc" says where it is.         *)
(***************************************************************************)
EXTENDS Integers, Sequences

CONSTANTS
    Clients,
    NoClient,
    Depth,             \* windows under the pointer and the focus: 1 is the root
    Modes,             \* the pairs <<own, paired>> clients grab with: whether
                       \* the device, and the paired one, are GrabModeSync
    Passives,          \* the passive grabs clients may have
    NoGrab,
    MaxEvents          \* bound: events of each device

ASSUME ConstantsAssumption ==
    /\ NoClient \notin Clients
    /\ Depth \in Nat \ {0}
    /\ Modes \subseteq BOOLEAN \X BOOLEAN

Devices == {"pointer", "keyboard"}

GetPairedDevice(d) == IF d = "pointer" THEN "keyboard" ELSE "pointer"

Windows == 1 .. Depth

\* GrabRec of an active grab; "passive" stands for fromPassiveGrab.
Grabs == [device : Devices, client : Clients, window : Windows,
          own : BOOLEAN, paired : BOOLEAN, passive : BOOLEAN]

GrabRec(d, c, w, own, paired, isPassive) ==
    [device |-> d, client |-> c, window |-> w, own |-> own, paired |-> paired,
     passive |-> isPassive]

PassiveGrabs == [client : Clients, device : Devices, window : Windows,
                 own : BOOLEAN, paired : BOOLEAN]

ASSUME EventsAssumption == MaxEvents \in [Devices -> Nat]

ASSUME GrabsAssumption == NoGrab \notin Grabs /\ Passives \subseteq PassiveGrabs

Kinds == {"motion", "press", "release"}
PendingEvents == [device : Devices, kind : Kinds, n : Nat]

States == {"NOT_GRABBED", "THAWED", "FREEZE_NEXT_EVENT", "FREEZE_BOTH_NEXT_EVENT",
           "FROZEN_NO_EVENT", "FROZEN_WITH_EVENT"}
FrozenStates == {"FROZEN_NO_EVENT", "FROZEN_WITH_EVENT"}

NoEvent == "none"
NoReplay == [device |-> "pointer", window |-> 0, kind |-> NoEvent]

VARIABLES
    \* dev->deviceGrab
    grab,
    state,             \* sync.state
    other,             \* sync.other: the paired device's grab that freezes it
    frozen,            \* sync.frozen, and the choice of processInputProc
    event,             \* the kind of sync.event, where it can still be replayed
    \* the device
    down,              \* its button or key, as far as events were processed
    pressed,           \* its button or key itself
    \* syncEvents
    pending,
    replay,            \* replayDev, replayWin, and the event
    \* clients
    alive,
    passive,           \* the passive grabs on the windows
    \* the thread
    pc,
    closing, todo, done,   \* the client it closes down, ReleaseActiveGrabs
    \* history
    read,              \* events read from each device
    handled            \* the number of the last one that was processed

deviceVars == <<down, pressed, read, handled>>
clientVars == <<alive, passive>>
closeVars  == <<closing, todo, done>>
vars == <<grab, state, other, frozen, event, deviceVars, pending, replay,
          clientVars, pc, closeVars>>

Init ==
    /\ grab = [d \in Devices |-> NoGrab]
    /\ state = [d \in Devices |-> "NOT_GRABBED"]
    /\ other = [d \in Devices |-> NoGrab]
    /\ frozen = [d \in Devices |-> FALSE]
    /\ event = [d \in Devices |-> NoEvent]
    /\ down = [d \in Devices |-> FALSE] /\ pressed = [d \in Devices |-> FALSE]
    /\ pending = <<>> /\ replay = NoReplay
    /\ alive = Clients /\ passive = {}
    /\ pc = "Idle" /\ closing = NoClient /\ todo = {} /\ done = TRUE
    /\ read = [d \in Devices |-> 0] /\ handled = [d \in Devices |-> 0]

-----------------------------------------------------------------------------
(* Freezing and thawing                                                    *)

SameClient(g, c) == g # NoGrab /\ g.client = c

playingEvents == pc \in {"Replay", "Play"}

\* Where the thread goes on when all is played.
Return == IF closing = NoClient THEN "Idle" ELSE "Release"

\* A copy of an event is of use only while its device is frozen with it.
Wanted(st, ev) == [d \in Devices |-> IF st[d] = "FROZEN_WITH_EVENT" THEN ev[d] ELSE NoEvent]

\* The end of everything that changes a freeze.  st, ot, ev, queue and
\* rep are sync.state, sync.other, sync.event, the pending list and the replay.
\* While events are played the loop that plays them goes on by itself.
ComputeFreezes(st, ot, ev, queue, rep) ==
    /\ state' = st /\ other' = ot /\ event' = Wanted(st, ev) /\ pending' = queue
    /\ frozen' = [d \in Devices |-> ot[d] # NoGrab \/ st[d] \in FrozenStates]
    /\ IF playingEvents
       THEN pc' = "Play" /\ replay' = NoReplay
       ELSE IF rep # NoReplay
            THEN pc' = "Replay" /\ replay' = rep
            ELSE /\ pc' = IF queue = <<>> THEN Return ELSE "Play"
                 /\ replay' = NoReplay

\* Mutant: a grab that does not freeze the device leaves sync.other alone.
FreedByNobody(g, held) == held

\* What a grab that does not freeze the device leaves of sync.other: it frees
\* both if the same client owns both.
FreedBy(g, held) == IF SameClient(held, g.client) THEN NoGrab ELSE held

\* sync.state and sync.other with g active on d.
StateWithGrab(d, g, frozenState) ==
    [state EXCEPT ![d] = IF g.own THEN frozenState ELSE "THAWED"]

OtherWithGrab(d, g) ==
    [x \in Devices |->
        IF x = d THEN IF g.own THEN other[x] ELSE FreedBy(g, other[x])
        ELSE IF g.paired THEN g ELSE FreedBy(g, other[x])]

\* ActivatePointerGrab and ActivateKeyboardGrab, with CheckGrabForSyncs.
\* kind is that of the event that activates a passive grab.
ActivateGrab(d, g, frozenState, queue, kind) ==
    /\ grab' = [grab EXCEPT ![d] = g]
    /\ ComputeFreezes(StateWithGrab(d, g, frozenState), OtherWithGrab(d, g),
                      [event EXCEPT ![d] = kind], queue, NoReplay)

\* Mutant: sync.state of a device that is given back is left as it is.
DeactivateKeepsState(d, ot, queue, rep) ==
    /\ grab' = [grab EXCEPT ![d] = NoGrab]
    /\ ComputeFreezes(state, [x \in Devices |-> IF ot[x] = grab[d] THEN NoGrab ELSE ot[x]],
                      event, queue, rep)

\* DeactivatePointerGrab and DeactivateKeyboardGrab.
DeactivateGrab(d, ot, queue, rep) ==
    /\ grab' = [grab EXCEPT ![d] = NoGrab]
    /\ ComputeFreezes([state EXCEPT ![d] = "NOT_GRABBED"],
                      [x \in Devices |-> IF ot[x] = grab[d] THEN NoGrab ELSE ot[x]],
                      event, queue, rep)

-----------------------------------------------------------------------------
(* Processing an event                                                     *)

\* The event changes no grab and no freeze.
NothingChanges(queue) ==
    /\ pending' = queue /\ replay' = NoReplay
    /\ pc' = IF playingEvents THEN "Play" ELSE pc
    /\ UNCHANGED <<grab, state, other, frozen, event>>

\* The passive grab on d nearest to the root among those below window w.
PassiveFor(d, w, p) ==
    /\ p \in passive /\ p.device = d /\ p.window > w
    /\ \A q \in passive : q.device = d /\ q.window > w => p.window <= q.window

HasPassiveFor(d, w) == \E p \in passive : p.device = d /\ p.window > w

\* CheckDeviceGrabs and ActivatePassiveGrab: the event has been delivered.
CheckDeviceGrabs(d, w, kind, queue) ==
    \E p \in passive :
        /\ PassiveFor(d, w, p)
        /\ ActivateGrab(d, GrabRec(d, p.client, p.window, p.own, p.paired, TRUE),
                        "FROZEN_WITH_EVENT", queue, kind)

\* DeliverDeviceEvents and DeliverFocusedEvent: a client that has selected for
\* button presses gets the pointer until the button is released.
DeliverDeviceEvents(d, kind, queue) ==
    \/ NothingChanges(queue)
    \/ /\ d = "pointer" /\ kind = "press"
       /\ \E c \in alive, w \in Windows :
            ActivateGrab(d, GrabRec(d, c, w, FALSE, FALSE, TRUE), "FROZEN_NO_EVENT",
                         queue, NoEvent)

\* FreezeThisEventIfNeededForSyncGrab.
FreezeBoth(d) ==
    LET p == GetPairedDevice(d)
    IN  IF state[p] = "FREEZE_BOTH_NEXT_EVENT" /\ SameClient(grab[p], grab[d].client)
        THEN /\ state' = [x \in Devices |-> IF x = d THEN "FROZEN_WITH_EVENT"
                                            ELSE "FROZEN_NO_EVENT"]
             /\ UNCHANGED other
        ELSE /\ state' = [state EXCEPT ![d] = "FROZEN_WITH_EVENT"]
             /\ other' = [other EXCEPT ![p] = grab[d]]

FreezeThisEvent(d, kind, queue) ==
    /\ \/ /\ state[d] = "FREEZE_BOTH_NEXT_EVENT"
          /\ FreezeBoth(d)
          /\ frozen' = [x \in Devices |-> TRUE]
       \/ /\ state[d] = "FREEZE_NEXT_EVENT"
          /\ state' = [state EXCEPT ![d] = "FROZEN_WITH_EVENT"]
          /\ frozen' = [frozen EXCEPT ![d] = TRUE]
          /\ UNCHANGED other
    /\ event' = [event EXCEPT ![d] = kind]
    /\ pending' = queue
    /\ UNCHANGED <<grab, replay, pc>>

\* DeliverGrabbedEvent: whether the client hears of it depends on its mask.
DeliverGrabbedEvent(d, kind, queue) ==
    \/ /\ kind # "motion"
       /\ FreezeThisEvent(d, kind, queue)
    \/ NothingChanges(queue)

\* The button or key of a passive or implicit grab is released.
EndsGrab(d, kind) == kind = "release" /\ grab[d].passive

\* ProcessDeviceEvent; queue is what is left of the pending list.
ProcessDeviceEvent(d, kind, queue) ==
    /\ down' = IF kind = "motion" THEN down ELSE [down EXCEPT ![d] = (kind = "press")]
    /\ IF grab[d] # NoGrab
       THEN IF EndsGrab(d, kind)
            THEN DeactivateGrab(d, other, queue, NoReplay)
            ELSE DeliverGrabbedEvent(d, kind, queue)
       ELSE IF kind = "press" /\ HasPassiveFor(d, 0)
            THEN CheckDeviceGrabs(d, 0, kind, queue)
            ELSE DeliverDeviceEvents(d, kind, queue)

\* EnqueueEvent: a motion is merged into the last event of the list if that is
\* a motion of the same device.
Compressed(d, kind) ==
    /\ kind = "motion" /\ pending # <<>>
    /\ pending[Len(pending)].kind = "motion" /\ pending[Len(pending)].device = d

EnqueueEvent(d, kind, n) ==
    /\ pending' = IF Compressed(d, kind)
                  THEN [pending EXCEPT ![Len(pending)].n = n]
                  ELSE Append(pending, [device |-> d, kind |-> kind, n |-> n])
    /\ UNCHANGED <<grab, state, other, frozen, event, down, replay, pc, handled>>

-----------------------------------------------------------------------------
(* The devices                                                             *)

\* What the device can report next.
Reports(d) ==
    (IF pressed[d] THEN {"release"} ELSE {"press"})
        \cup (IF d = "pointer" THEN {"motion"} ELSE {})

\* The dispatcher takes an event of d off the input queue: processInputProc.
ProcessInput(d) ==
    /\ pc = "Idle" /\ read[d] < MaxEvents[d]
    /\ \E kind \in Reports(d) :
         /\ read' = [read EXCEPT ![d] = @ + 1]
         /\ pressed' = IF kind = "motion" THEN pressed
                       ELSE [pressed EXCEPT ![d] = (kind = "press")]
         /\ IF frozen[d] THEN EnqueueEvent(d, kind, read[d] + 1)
            ELSE /\ ProcessDeviceEvent(d, kind, pending)
                 /\ handled' = [handled EXCEPT ![d] = read[d] + 1]
    /\ UNCHANGED <<clientVars, closeVars>>

-----------------------------------------------------------------------------
(* Playing                                                                 *)

\* ComputeFreezes processes the replayed event again, for the windows below
\* the one whose grab was given back.
ReplayEvent ==
    /\ pc = "Replay"
    /\ LET d == replay.device IN
         IF /\ replay.kind = "press" /\ (d = "pointer" => down[d])
            /\ grab[d] = NoGrab /\ HasPassiveFor(d, replay.window)
         THEN CheckDeviceGrabs(d, replay.window, replay.kind, pending)
         ELSE DeliverDeviceEvents(d, replay.kind, pending)
    /\ UNCHANGED <<deviceVars, clientVars, closeVars>>

\* The places in the list whose device is not frozen.
Playable == {i \in DOMAIN pending : ~frozen[pending[i].device]}

Without(queue, i) == SubSeq(queue, 1, i - 1) \o SubSeq(queue, i + 1, Len(queue))

\* Mutant: the walk does not start again at the head, and takes what it finds.
AnyPlace(places, i) == i \in places

First(places, i) == i \in places /\ \A j \in places : i <= j

\* PlayReleasedEvents starts again at the head of the list after every event.
PlayReleasedEvents ==
    /\ pc = "Play"
    /\ \E i \in DOMAIN pending :
         /\ First(Playable, i)
         /\ ProcessDeviceEvent(pending[i].device, pending[i].kind, Without(pending, i))
         /\ handled' = [handled EXCEPT ![pending[i].device] = pending[i].n]
    /\ UNCHANGED <<pressed, read, clientVars, closeVars>>

\* Mutant: the walk ends at the first event whose device is frozen.
DoneAtFirstFrozen ==
    /\ pc = "Play" /\ pending # <<>> => frozen[pending[1].device]
    /\ pc' = Return
    /\ UNCHANGED <<grab, state, other, frozen, event, deviceVars, pending, replay,
                   clientVars, closeVars>>

PlayDone ==
    /\ pc = "Play" /\ Playable = {}
    /\ pc' = Return
    /\ UNCHANGED <<grab, state, other, frozen, event, deviceVars, pending, replay,
                   clientVars, closeVars>>

-----------------------------------------------------------------------------
(* Requests                                                                *)

\* GrabPointer, GrabKeyboard: GrabDevice with a valid time and a viewable
\* window; the other cases change nothing.
GrabFrozen(c, d) == frozen[d] /\ other[d] # NoGrab /\ ~SameClient(other[d], c)

GrabDevice(c, d) ==
    /\ pc = "Idle" /\ c \in alive
    /\ grab[d] = NoGrab \/ SameClient(grab[d], c)
    /\ ~GrabFrozen(c, d)
    /\ \E m \in Modes, w \in Windows :
         ActivateGrab(d, GrabRec(d, c, w, m[1], m[2], FALSE), "FROZEN_NO_EVENT",
                      pending, NoEvent)
    /\ UNCHANGED <<deviceVars, clientVars, closeVars>>

\* UngrabPointer, UngrabKeyboard.
UngrabDevice(c, d) ==
    /\ pc = "Idle" /\ c \in alive /\ SameClient(grab[d], c)
    /\ DeactivateGrab(d, other, pending, NoReplay)
    /\ UNCHANGED <<deviceVars, clientVars, closeVars>>

\* GrabButton, GrabKey: AddPassiveGrabToList.  A grab of another client for
\* the same window is an error, one of the same client is replaced.
AddPassiveGrab(c, d) ==
    /\ pc = "Idle" /\ c \in alive
    /\ \E p \in Passives :
         LET there == {q \in passive : q.device = d /\ q.window = p.window}
         IN  /\ p.client = c /\ p.device = d
             /\ \A q \in there : q.client = c
             /\ passive' = (passive \ there) \cup {p}
    /\ UNCHANGED <<grab, state, other, frozen, event, deviceVars, pending, replay,
                   alive, pc, closeVars>>

\* UngrabButton, UngrabKey: a grab that is active stays so.
DeletePassiveGrab(c, d) ==
    /\ pc = "Idle" /\ c \in alive
    /\ \E p \in passive : p.client = c /\ p.device = d /\ passive' = passive \ {p}
    /\ UNCHANGED <<grab, state, other, frozen, event, deviceVars, pending, replay,
                   alive, pc, closeVars>>

-----------------------------------------------------------------------------
(* AllowEvents                                                             *)

thisGrabbed(c, d) == SameClient(grab[d], c)

\* The other device is grabbed by the client, and that grab froze this one.
thisSynced(c, d) ==
    LET p == GetPairedDevice(d) IN SameClient(grab[p], c) /\ other[d] = grab[p]

othersFrozen(c, d) ==
    LET p == GetPairedDevice(d) IN SameClient(grab[p], c) /\ state[p] \in FrozenStates

\* Mutant: only the client's grab of the device itself thaws.
ReleasedNever(c, d) == other

\* sync.other of d once the client no longer holds it on behalf of its grab of
\* the other device.
Released(c, d) == [other EXCEPT ![d] = IF thisSynced(c, d) THEN NoGrab ELSE @]

\* sync.state and sync.other where every device in ds goes on to st.
StatesOf(c, ds, st) ==
    [d \in Devices |-> IF d \in ds /\ SameClient(grab[d], c) THEN st ELSE state[d]]
OthersOf(c, ds) ==
    [d \in Devices |-> IF d \in ds /\ SameClient(other[d], c) THEN NoGrab ELSE other[d]]

\* AsyncPointer, AsyncKeyboard
AllowAsync(c, d) ==
    /\ ComputeFreezes(IF thisGrabbed(c, d) THEN [state EXCEPT ![d] = "THAWED"] ELSE state,
                      Released(c, d), event, pending, NoReplay)
    /\ UNCHANGED grab

\* SyncPointer, SyncKeyboard
AllowSync(c, d) ==
    /\ thisGrabbed(c, d)
    /\ ComputeFreezes([state EXCEPT ![d] = "FREEZE_NEXT_EVENT"], Released(c, d),
                      event, pending, NoReplay)
    /\ UNCHANGED grab

\* AsyncBoth, SyncBoth, AsyncPairedDevice
AllowAll(c, d, ds, st) ==
    /\ othersFrozen(c, d)
    /\ ComputeFreezes(StatesOf(c, ds, st), OthersOf(c, ds), event, pending, NoReplay)
    /\ UNCHANGED grab

\* ReplayPointer, ReplayKeyboard
AllowReplay(c, d) ==
    /\ thisGrabbed(c, d) /\ state[d] = "FROZEN_WITH_EVENT"
    /\ DeactivateGrab(d, Released(c, d), pending,
                      [device |-> d, window |-> grab[d].window, kind |-> event[d]])

\* AllowSome returns at once unless the client froze the device.
AllowSome(c, d) ==
    /\ pc = "Idle" /\ c \in alive
    /\ \/ thisGrabbed(c, d) /\ state[d] \in FrozenStates
       \/ thisSynced(c, d)
    /\ UNCHANGED <<deviceVars, clientVars, closeVars>>

AsyncDevice(c, d) == AllowSome(c, d) /\ AllowAsync(c, d)
SyncDevice(c, d) == AllowSome(c, d) /\ AllowSync(c, d)
ReplayDevice(c, d) == AllowSome(c, d) /\ AllowReplay(c, d)
AsyncPair(c, d) == AllowSome(c, d) /\ AllowAll(c, d, Devices, "THAWED")
SyncPair(c, d) == AllowSome(c, d) /\ AllowAll(c, d, Devices, "FREEZE_BOTH_NEXT_EVENT")
AsyncPairedDevice(c, d) == AllowSome(c, d) /\ AllowAll(c, d, Devices \ {d}, "THAWED")

-----------------------------------------------------------------------------
(* Clients come and go                                                     *)

Connect(c) ==
    /\ pc = "Idle" /\ c \notin alive
    /\ alive' = alive \cup {c}
    /\ UNCHANGED <<grab, state, other, frozen, event, deviceVars, pending, replay,
                   passive, pc, closeVars>>

\* CloseDownClient calls ReleaseActiveGrabs first.
CloseDownClient(c) ==
    /\ pc = "Idle" /\ c \in alive
    /\ closing' = c /\ todo' = Devices /\ done' = TRUE
    /\ pc' = "Release"
    /\ UNCHANGED <<grab, state, other, frozen, event, deviceVars, pending, replay,
                   clientVars>>

\* One round over the devices, the pointer first: Behind(d) come after d.
Behind(d) == IF d = "pointer" THEN {"keyboard"} ELSE {}

Found == {d \in todo : SameClient(grab[d], closing)}

NextFound(d) == d \in Found /\ Found \subseteq {d} \cup Behind(d)

\* Mutant: one round is thought to be enough.
OneRound ==
    /\ pc = "Release"
    /\ \E d \in Devices :
         /\ NextFound(d)
         /\ todo' = Behind(d)
         /\ DeactivateGrab(d, other, pending, NoReplay)
    /\ UNCHANGED <<deviceVars, clientVars, closing, done>>

ReleaseActiveGrab ==
    /\ pc = "Release"
    /\ \E d \in Devices :
         /\ NextFound(d)
         /\ todo' = Behind(d) /\ done' = FALSE
         /\ DeactivateGrab(d, other, pending, NoReplay)
    /\ UNCHANGED <<deviceVars, clientVars, closing>>

\* Mutant: done is set before the loop and not at the head of each round.
DoneNotReset ==
    /\ pc = "Release" /\ Found = {} /\ ~done
    /\ todo' = Devices
    /\ UNCHANGED <<grab, state, other, frozen, event, deviceVars, pending, replay,
                   clientVars, pc, closing, done>>

\* It goes round again if it found anything: events that were played may have
\* activated a passive grab of the same client.
ReleaseAgain ==
    /\ pc = "Release" /\ Found = {} /\ ~done
    /\ todo' = Devices /\ done' = TRUE
    /\ UNCHANGED <<grab, state, other, frozen, event, deviceVars, pending, replay,
                   clientVars, pc, closing>>

\* The rest of CloseDownClient: the client is gone, and its passive grabs are
\* freed whatever it wanted retained.
ClientGone ==
    /\ pc = "Release" /\ Found = {} /\ done
    /\ alive' = alive \ {closing}
    /\ passive' = {p \in passive : p.client # closing}
    /\ closing' = NoClient /\ todo' = {} /\ pc' = "Idle"
    /\ UNCHANGED <<grab, state, other, frozen, event, deviceVars, pending, replay,
                   done>>

-----------------------------------------------------------------------------
Request ==
    \E c \in Clients, d \in Devices :
        \/ GrabDevice(c, d) \/ UngrabDevice(c, d)
        \/ AddPassiveGrab(c, d) \/ DeletePassiveGrab(c, d)
        \/ AsyncDevice(c, d) \/ SyncDevice(c, d) \/ ReplayDevice(c, d)
        \/ AsyncPair(c, d) \/ SyncPair(c, d) \/ AsyncPairedDevice(c, d)

Playing == ReplayEvent \/ PlayReleasedEvents \/ PlayDone
Closing == ReleaseActiveGrab \/ ReleaseAgain \/ ClientGone

Next ==
    \/ \E d \in Devices : ProcessInput(d)
    \/ Request
    \/ \E c \in Clients : Connect(c) \/ CloseDownClient(c)
    \/ Playing \/ Closing

Spec == Init /\ [][Next]_vars

\* The server has one thread, which does not wait while it plays or releases.
FairSpec == Spec /\ WF_vars(Playing \/ Closing)

-----------------------------------------------------------------------------
(* Properties                                                              *)

\* Every variable has its type; a device has a state exactly while it is
\* grabbed (Activate and Deactivate functions of server/dix/events.c).
TypeOK ==
    /\ grab \in [Devices -> Grabs \cup {NoGrab}]
    /\ state \in [Devices -> States]
    /\ \A d \in Devices : grab[d] = NoGrab <=> state[d] = "NOT_GRABBED"
    /\ other \in [Devices -> Grabs \cup {NoGrab}]
    /\ frozen \in [Devices -> BOOLEAN]
    /\ event \in [Devices -> Kinds \cup {NoEvent}]
    /\ down \in [Devices -> BOOLEAN] /\ pressed \in [Devices -> BOOLEAN]
    /\ pending \in Seq(PendingEvents)
    /\ replay \in [device : Devices, window : Windows \cup {0},
                  kind : Kinds \cup {NoEvent}]
    /\ alive \subseteq Clients /\ passive \subseteq Passives
    /\ pc \in {"Idle", "Replay", "Play", "Release"}
    /\ closing \in Clients \cup {NoClient}
    /\ todo \subseteq Devices /\ done \in BOOLEAN
    /\ read \in [Devices -> Nat] /\ handled \in [Devices -> Nat]

\* A device is frozen exactly while somebody holds it: its own grab, or the
\* grab of the paired device (FreezeThaw in ComputeFreezes and in
\* FreezeThisEventIfNeededForSyncGrab).
FrozenIsHeld ==
    \A d \in Devices :
        frozen[d] <=> other[d] # NoGrab \/ state[d] \in FrozenStates

\* sync.other is a pointer: the grab it points to is the one that is active on
\* the paired device, never one that was replaced or released meanwhile.
OtherIsActive ==
    \A d \in Devices :
        other[d] # NoGrab => other[d] = grab[GetPairedDevice(d)]

\* No grab, active or passive, belongs to a client that is gone; whatever its
\* release played and activated (CloseDownClient).
GoneHoldNothing ==
    /\ \A d \in Devices : grab[d] # NoGrab => grab[d].client \in alive
    /\ \A p \in passive : p.client \in alive

\* When the thread is done playing, no event of a device that is not frozen is
\* left in the list, where it would be overtaken by the next one
\* (PlayReleasedEvents, ComputeFreezes).
NothingLeftBehind ==
    pc \in {"Idle", "Release"} => Playable = {}

\* Whoever holds a device can let it go: AsyncPointer or AsyncKeyboard ends the
\* hold of the client, also where it holds it twice (AllowSome).
Holds(c, d) ==
    \/ SameClient(grab[d], c) /\ state[d] \in FrozenStates
    \/ SameClient(other[d], c)

AsyncThaws ==
    [][\A c \in Clients, d \in Devices :
           pc = "Idle" /\ Holds(c, d) =>
               /\ (thisGrabbed(c, d) /\ state[d] \in FrozenStates) \/ thisSynced(c, d)
               /\ Holds(c, d)' => ~AsyncDevice(c, d)]_vars

\* The events of a device are processed in the order they were read, and none
\* is lost, through every freeze, replay and close-down.
WaitingFor(queue, d) ==
    {[kind |-> queue[i].kind, n |-> queue[i].n] :
        i \in {j \in DOMAIN queue : queue[j].device = d}}

waiting == [d \in Devices |-> WaitingFor(pending, d)]

Stream == INSTANCE DeviceStream

Implements == Stream!Spec

\* Playing comes to an end: an event that is played may freeze devices, replay
\* and activate again, but never without an end.
PlayingEnds == pc # "Idle" ~> pc = "Idle"

=============================================================================
