----------------------------- MODULE InputQueue -----------------------------
(***************************************************************************)
(* The input event queue of the server and the two threads that use it.    *)
(*                                                                         *)
(* The input thread waits for devices, reads them under input_lock and     *)
(* puts their events on a ring that grows when it is full, then writes a   *)
(* byte into a pipe to wake the main thread.  The main thread looks at the *)
(* ring without the lock in its dispatch loop, empties it under the lock,  *)
(* which it gives up while it handles an event, and puts events on the     *)
(* ring itself when a client warps the pointer or destroys a barrier.      *)
(* Without an input thread it reads the devices as well.                   *)
(*                                                                         *)
(* mieqEnqueue is two steps, so that a second call could come between the  *)
(* choice of a slot and the moment the slot is filled.  An event that is   *)
(* tossed because the ring cannot grow changes nothing and is no step.     *)
(***************************************************************************)
EXTENDS Integers, Sequences

CONSTANTS
    Slaves,            \* ids of the devices that are read, plugged, unplugged
    Master,            \* id of the virtual core pointer, which stays
    Data,              \* what else is in an event
    NoEvent,
    InitialSize,       \* QUEUE_INITIAL_SIZE
    MaxSize,           \* bound: the size beyond which an allocation fails
    PipeSize,          \* bytes the wake-up pipe holds
    ReadSize,          \* bytes InputThreadReadPipe takes at once
    Setups             \* the kinds of server in this instance, records of
                       \* "threaded" (there is an input thread) and "barriers"
                       \* (clients destroy barriers the pointer is pressed on)

Devices == Slaves \cup {Master}
Events  == [dev : Devices, motion : BOOLEAN, data : Data]
Actors  == {"main", "thread"}

ASSUME ConstantsAssumption ==
    /\ Slaves \subseteq Nat \ {0} /\ Master \in Nat \ {0} /\ Master \notin Slaves
    /\ NoEvent \notin Events
    /\ InitialSize \in Nat \ {0} /\ MaxSize \in Nat
    /\ PipeSize \in Nat \ {0} /\ ReadSize \in Nat \ {0}
    /\ Setups \subseteq [threaded : BOOLEAN, barriers : BOOLEAN]

VARIABLES
    setup,
    \* miEventQueue
    head, tail, nevents, events,
    lastMotion,        \* the device whose motion was enqueued last, or 0
    \* input_mutex
    owner, depth,      \* the thread that holds it, and how many times
    op,                \* the mieqEnqueue an actor is in, if any
    \* the main thread
    mainPc,
    after,             \* where mieqProcessInputEvents returns to
    current,           \* the event it handles
    removing,          \* the device remove_device() is called for, or 0
    \* the input thread
    threadPc,
    reading,           \* the device it reads, or 0
    pipe,              \* bytes in the wake-up pipe
    \* the devices
    present

ringVars == <<head, tail, nevents, events, lastMotion>>
lockVars == <<owner, depth>>
mainVars == <<mainPc, after, current, removing>>
thrVars  == <<threadPc, reading>>
vars == <<setup, ringVars, lockVars, op, mainVars, thrVars, pipe, present>>

NoOp == [event |-> NoEvent, slot |-> 0, locked |-> FALSE, grown |-> FALSE]

Init ==
    /\ setup \in Setups
    /\ head = 0 /\ tail = 0 /\ nevents = InitialSize
    /\ events = [i \in 0 .. (InitialSize - 1) |-> NoEvent]
    /\ lastMotion = 0
    /\ owner = "none" /\ depth = 0
    /\ op = [a \in Actors |-> NoOp]
    /\ mainPc = "Loop" /\ after = "Poll" /\ current = NoEvent /\ removing = 0
    /\ threadPc = "Wait" /\ reading = 0
    /\ pipe = 0
    /\ present = Devices

-----------------------------------------------------------------------------
(* input_lock and input_unlock                                             *)

\* Mutant: the mutex excludes nobody.
CanLockAnyway(a) == TRUE

CanLock(a) == owner \in {"none", a}

input_lock(a) == owner' = a /\ depth' = depth + 1

input_unlock(a) ==
    /\ depth' = depth - 1
    /\ owner' = IF depth = 1 THEN "none" ELSE a

-----------------------------------------------------------------------------
(* The ring                                                                *)

\* Mutant: the index is not taken modulo nevents.
SlotAfter(i) == i + 1

\* (i + 1) % nevents, and (i - 1) % nevents on unsigned numbers, which is
\* what it should be because nevents is a power of two.
NextSlot(i) == IF i + 1 = nevents THEN 0 ELSE i + 1

PrevSlot(i) == IF i = 0 THEN nevents - 1 ELSE i - 1

mieqNumEnqueued == IF tail >= head THEN tail - head ELSE tail - head + nevents

\* The slot of the event that is i places behind the head.
SlotAt(i) == IF head + i < nevents THEN head + i ELSE head + i - nevents

\* The device id of a motion, or 0.
MotionOf(e) == IF e.motion THEN e.dev ELSE 0

\* Mutant: the events are copied without unrolling the ring.
GrowInPlace ==
    /\ events' = [i \in 0 .. (2 * nevents - 1) |->
                    IF i < nevents THEN events[i] ELSE NoEvent]
    /\ head' = 0 /\ tail' = mieqNumEnqueued /\ nevents' = 2 * nevents
    /\ UNCHANGED lastMotion

\* mieqGrowQueue to twice the size.
mieqGrowQueue ==
    /\ events' = [i \in 0 .. (2 * nevents - 1) |->
                    IF i < nevents THEN events[SlotAt(i)] ELSE NoEvent]
    /\ head' = 0
    /\ tail' = mieqNumEnqueued
    /\ nevents' = 2 * nevents
    /\ UNCHANGED lastMotion

\* A motion is merged into the motion of the same device before it.
Merges(e) == e.motion /\ e.dev = lastMotion /\ tail # head

Begin(a, e, locked, slot, grown) ==
    op' = [op EXCEPT ![a] = [event |-> e, slot |-> slot, locked |-> locked,
                             grown |-> grown]]

\* mieqEnqueue up to the choice of the slot.
EnqueueBegin(a, e, locked) ==
    /\ op[a] = NoOp
    /\ \/ /\ Merges(e)
          /\ Begin(a, e, locked, PrevSlot(tail), FALSE)
          /\ UNCHANGED ringVars
       \/ /\ ~Merges(e) /\ mieqNumEnqueued + 1 # nevents
          /\ Begin(a, e, locked, tail, FALSE)
          /\ UNCHANGED ringVars
       \/ /\ ~Merges(e) /\ mieqNumEnqueued + 1 = nevents
          /\ 2 * nevents <= MaxSize
          /\ mieqGrowQueue
          /\ Begin(a, e, locked, tail', TRUE)

\* The rest of mieqEnqueue: the slot is filled and the tail put behind it.
EnqueueEnd(a) ==
    LET o == op[a]
    IN  /\ o # NoOp
        /\ events' = [events EXCEPT ![o.slot] = o.event]
        /\ lastMotion' = MotionOf(o.event)
        /\ tail' = NextSlot(o.slot)
        /\ op' = [op EXCEPT ![a] = NoOp]
        /\ IF o.locked THEN input_unlock(a) ELSE UNCHANGED lockVars
        /\ UNCHANGED <<setup, head, nevents, mainVars, thrVars, pipe, present>>

-----------------------------------------------------------------------------
(* The input thread                                                        *)

\* ospoll_wait reports a device and InputReady takes the lock to read it.
\* One return of ospoll_wait may report several devices, one after another.
InputReady(d) ==
    /\ setup.threaded
    /\ threadPc \in {"Wait", "Woken"}
    /\ d \in present \ {Master}
    /\ CanLock("thread")
    /\ input_lock("thread")
    /\ threadPc' = "Reading" /\ reading' = d
    /\ UNCHANGED <<setup, ringVars, op, mainVars, pipe, present>>

\* The driver enqueues an event of the device it reads.
ThreadEnqueue ==
    /\ threadPc = "Reading"
    /\ \E e \in Events : e.dev = reading /\ EnqueueBegin("thread", e, FALSE)
    /\ UNCHANGED <<setup, lockVars, mainVars, thrVars, pipe, present>>

InputReadyDone ==
    /\ threadPc = "Reading" /\ op["thread"] = NoOp
    /\ input_unlock("thread")
    /\ threadPc' = "Woken" /\ reading' = 0
    /\ UNCHANGED <<setup, ringVars, op, mainVars, pipe, present>>

\* Mutant: the main thread is not woken.
BackToWait ==
    /\ threadPc = "Woken" /\ threadPc' = "Wait"
    /\ UNCHANGED <<setup, ringVars, lockVars, op, mainVars, reading, pipe, present>>

\* InputThreadFillPipe blocks while the pipe is full.
InputThreadFillPipe ==
    /\ threadPc = "Woken" /\ pipe < PipeSize
    /\ pipe' = pipe + 1
    /\ threadPc' = "Wait"
    /\ UNCHANGED <<setup, ringVars, lockVars, op, mainVars, reading, present>>

\* A device was registered with the thread or taken from it, at any time.
InputThreadPipeNotify ==
    /\ setup.threaded
    /\ threadPc = "Wait" /\ threadPc' = "Woken"
    /\ UNCHANGED <<setup, ringVars, lockVars, op, mainVars, reading, pipe, present>>

-----------------------------------------------------------------------------
(* The main thread in Dispatch() and WaitForSomething()                    *)

\* The main thread is between two calls of mieqEnqueue.
MainAt(place) == mainPc = place /\ op["main"] = NoOp

Goto(place) == mainPc' = place /\ UNCHANGED <<after, current, removing>>

ProcessInputEvents(place) ==
    mainPc' = "Enter" /\ after' = place /\ UNCHANGED <<current, removing>>

\* What InputCheckPending may read, without the lock.  While mieqGrowQueue
\* moves the ring the main thread may see the new tail and the old head.
SeesPending == head # tail
SeesNothing == head = tail \/ op["thread"].grown

\* The top of the loop in Dispatch().
DispatchLoop ==
    /\ MainAt("Loop")
    /\ \/ SeesPending /\ ProcessInputEvents("Poll")
       \/ SeesNothing /\ Goto("Poll")
    /\ UNCHANGED <<setup, ringVars, lockVars, op, thrVars, pipe, present>>

\* ospoll_wait returns, because of the pipe or because of something else;
\* InputThreadNotifyPipe takes what it can from the pipe.
Poll ==
    /\ MainAt("Poll")
    /\ pipe' = IF pipe > ReadSize THEN pipe - ReadSize ELSE 0
    /\ Goto("Callbacks")
    /\ UNCHANGED <<setup, ringVars, lockVars, op, thrVars, present>>

\* A device is plugged in.
Plug(d) ==
    /\ MainAt("Callbacks") /\ d \in Slaves \ present
    /\ CanLock("main")
    /\ present' = present \cup {d}
    /\ UNCHANGED <<setup, ringVars, lockVars, op, mainVars, thrVars, pipe>>

\* Mutant: the queue is not emptied before the device is removed.
UnplugAtOnce(d) ==
    /\ MainAt("Callbacks") /\ d \in present \ {Master}
    /\ CanLock("main")
    /\ input_lock("main")
    /\ removing' = d /\ mainPc' = "Remove"
    /\ UNCHANGED <<setup, ringVars, op, after, current, thrVars, pipe, present>>

\* A device is unplugged: remove_device takes the lock, which its caller may
\* hold already, and empties the queue.
Unplug(d) ==
    /\ MainAt("Callbacks") /\ d \in present \ {Master}
    /\ CanLock("main")
    /\ input_lock("main")
    /\ removing' = d /\ mainPc' = "Enter" /\ after' = "Remove"
    /\ UNCHANGED <<setup, ringVars, op, current, thrVars, pipe, present>>

DeleteInputDeviceRequest ==
    /\ MainAt("Remove")
    /\ present' = present \ {removing}
    /\ removing' = 0
    /\ input_unlock("main")
    /\ mainPc' = "Callbacks"
    /\ UNCHANGED <<setup, ringVars, op, after, current, thrVars, pipe>>

\* Without an input thread SetNotifyFd has the main thread read the devices.
\* It does not take the lock.
ReadDevice ==
    /\ ~setup.threaded
    /\ MainAt("Callbacks")
    /\ \E e \in Events : e.dev \in present \ {Master} /\ EnqueueBegin("main", e, FALSE)
    /\ UNCHANGED <<setup, lockVars, mainVars, thrVars, pipe, present>>

\* Mutant: the ring is not looked at after the callbacks.
PollAgain ==
    /\ MainAt("Callbacks")
    /\ Goto("Serve") \/ Goto("Poll")
    /\ UNCHANGED <<setup, ringVars, lockVars, op, thrVars, pipe, present>>

\* The callbacks are done: back to the loop if there is input, else serve a
\* client that is ready, if any, else poll again.
CallbacksDone ==
    /\ MainAt("Callbacks")
    /\ \/ SeesPending /\ Goto("Loop")
       \/ SeesNothing /\ Goto("Serve")
       \/ SeesNothing /\ Goto("Poll")
    /\ UNCHANGED <<setup, ringVars, lockVars, op, thrVars, pipe, present>>

\* Before each request input is handled.
Serve ==
    /\ MainAt("Serve")
    /\ \/ SeesPending /\ ProcessInputEvents("Execute")
       \/ SeesNothing /\ Goto("Execute")
    /\ UNCHANGED <<setup, ringVars, lockVars, op, thrVars, pipe, present>>

\* A request may ask for the time, and input is handled first.
UpdateCurrentTime ==
    /\ MainAt("Execute") /\ SeesPending
    /\ ProcessInputEvents("Execute")
    /\ UNCHANGED <<setup, ringVars, lockVars, op, thrVars, pipe, present>>

RequestDone ==
    /\ MainAt("Execute")
    /\ Goto("Serve") \/ Goto("Loop")
    /\ UNCHANGED <<setup, ringVars, lockVars, op, thrVars, pipe, present>>

\* miPointerMove, for a request that warps the pointer or for an event that
\* takes the pointer back into its window.
miPointerMove ==
    /\ MainAt("Execute") \/ MainAt("Processing")
    /\ CanLock("main")
    /\ input_lock("main")
    /\ \E e \in Events : e.dev = Master /\ e.motion /\ EnqueueBegin("main", e, TRUE)
    /\ UNCHANGED <<setup, mainVars, thrVars, pipe, present>>

\* BarrierFreeBarrier: the event that tells of the pointer's release is
\* enqueued without the lock.
BarrierFreeBarrier ==
    /\ setup.barriers
    /\ MainAt("Execute")
    /\ \E e \in Events : e.dev = Master /\ ~e.motion /\ EnqueueBegin("main", e, FALSE)
    /\ UNCHANGED <<setup, lockVars, mainVars, thrVars, pipe, present>>

-----------------------------------------------------------------------------
(* mieqProcessInputEvents                                                  *)

Enter ==
    /\ MainAt("Enter")
    /\ CanLock("main")
    /\ input_lock("main")
    /\ Goto("Draining")
    /\ UNCHANGED <<setup, ringVars, op, thrVars, pipe, present>>

\* The event at the head is copied and the lock given up.
TakeEvent ==
    /\ MainAt("Draining") /\ head # tail
    /\ current' = events[head]
    /\ head' = NextSlot(head)
    /\ input_unlock("main")
    /\ mainPc' = "Processing"
    /\ UNCHANGED <<setup, tail, nevents, events, lastMotion, op, after, removing,
                   thrVars, pipe, present>>

\* The event was handled and the lock is taken again.
EventHandled ==
    /\ MainAt("Processing")
    /\ CanLock("main")
    /\ input_lock("main")
    /\ current' = NoEvent /\ mainPc' = "Draining"
    /\ UNCHANGED <<setup, ringVars, op, after, removing, thrVars, pipe, present>>

Drained ==
    /\ MainAt("Draining") /\ head = tail
    /\ input_unlock("main")
    /\ Goto(after)
    /\ UNCHANGED <<setup, ringVars, op, thrVars, pipe, present>>

-----------------------------------------------------------------------------

InputThread == \/ \E d \in Slaves : InputReady(d)
               \/ ThreadEnqueue \/ InputReadyDone \/ InputThreadFillPipe
               \/ InputThreadPipeNotify

Main == \/ DispatchLoop \/ Poll \/ DeleteInputDeviceRequest \/ ReadDevice
        \/ CallbacksDone \/ Serve \/ UpdateCurrentTime \/ RequestDone \/ miPointerMove
        \/ BarrierFreeBarrier \/ Enter \/ TakeEvent \/ EventHandled \/ Drained
        \/ \E d \in Slaves : Plug(d) \/ Unplug(d)

Next == InputThread \/ Main \/ \E a \in Actors : EnqueueEnd(a)

Spec == Init /\ [][Next]_vars

\* What the main thread does without waiting for anybody.
MainRuns == \/ DispatchLoop \/ Serve \/ DeleteInputDeviceRequest \/ TakeEvent
            \/ Drained \/ EnqueueEnd("main") \/ (pipe > 0 /\ Poll)

\* Both threads run; a mutex is had in the end by whoever asks for it; a
\* handler, a driver and the devices reported at once come to an end.  The
\* main thread leaves its poll only because of the pipe for certain, and is
\* not sent round the callbacks for ever by devices that come and go.
Fairness ==
    /\ WF_vars(MainRuns)
    /\ SF_vars(CallbacksDone \/ RequestDone)
    /\ SF_vars(Enter \/ EventHandled)
    /\ WF_vars(EnqueueEnd("thread"))
    /\ SF_vars(InputReadyDone) /\ SF_vars(InputThreadFillPipe)

FairSpec == Spec /\ Fairness

-----------------------------------------------------------------------------
(* Properties                                                              *)

TypeOK ==
    /\ setup \in Setups
    /\ nevents \in Nat \ {0}
    /\ head \in 0 .. (nevents - 1) /\ tail \in 0 .. (nevents - 1)
    /\ events \in [0 .. (nevents - 1) -> Events \cup {NoEvent}]
    /\ lastMotion \in Devices \cup {0}
    /\ owner \in Actors \cup {"none"} /\ depth \in 0 .. 3
    /\ op \in [Actors -> [event : Events \cup {NoEvent}, slot : Nat,
                          locked : BOOLEAN, grown : BOOLEAN]]
    /\ mainPc \in {"Loop", "Poll", "Callbacks", "Serve", "Execute", "Remove",
                   "Enter", "Draining", "Processing"}
    /\ after \in {"Poll", "Execute", "Remove"}
    /\ current \in Events \cup {NoEvent}
    /\ removing \in Slaves \cup {0}
    /\ threadPc \in {"Wait", "Reading", "Woken"}
    /\ reading \in Slaves \cup {0}
    /\ pipe \in 0 .. PipeSize
    /\ present \subseteq Devices

\* mieqEnqueue is never interrupted: while an actor is in it, no other is,
\* and the slot it chose is still the one behind the last event, or that of
\* the motion it replaces (the comment of mieqEnqueue).
NeverInterrupted ==
    \A a \in Actors : op[a] # NoOp =>
        /\ \A b \in Actors \ {a} : op[b] = NoOp
        /\ IF Merges(op[a].event) THEN op[a].slot = PrevSlot(tail)
           ELSE op[a].slot = tail /\ mieqNumEnqueued + 1 < nevents

\* No event of a device that is gone is on the queue or being handled
\* (remove_device).
NoDanglingDevice ==
    /\ current # NoEvent => current.dev \in present
    /\ \A i \in 0 .. (mieqNumEnqueued - 1) : events[SlotAt(i)].dev \in present

\* The main thread does not sleep on a queue with events in it: a byte is in
\* the pipe or the input thread is about to write one.
NoLostWakeup ==
    mainPc = "Poll" /\ head # tail =>
        pipe > 0 \/ threadPc \in {"Reading", "Woken"}

EQ == INSTANCE EventQueue WITH
          queue <- [i \in 1 .. mieqNumEnqueued |-> events[SlotAt(i - 1)]]

\* The ring, with its growth and its two threads, is the abstract queue: in
\* order, nothing lost or repeated, and only motions of one device merged
\* (mieqEnqueue, mieqGrowQueue, mieqProcessInputEvents).
Implements == EQ!Spec

\* No event is left on the ring for ever, whatever the threads are doing when
\* it is put there (Dispatch, WaitForSomething, InputThreadDoWork).
EventsAreTaken == EQ!FairSpec

=============================================================================
