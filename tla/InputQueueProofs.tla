-------------------------- MODULE InputQueueProofs --------------------------
(***************************************************************************)
(* Theorems about InputQueue for every set of devices and every size of    *)
(* the ring and of the pipe, where no client destroys a barrier without    *)
(* the lock while there is an input thread.                                *)
(***************************************************************************)
EXTENDS InputQueue, SequenceTheorems, TLAPS

LockedSetups == \A s \in Setups : ~(s.threaded /\ s.barriers)

(* The inductive invariant *)

\* The event that is i places behind the head.
At(i) == events[SlotAt(i)]

\* How often the main thread holds the lock.
MainDepth == (IF mainPc = "Draining" THEN 1 ELSE 0)
             + (IF removing # 0 THEN 1 ELSE 0)
             + (IF op["main"].locked THEN 1 ELSE 0)

\* The lock is held exactly by the thread that is inside a section of it.
LockInv ==
    /\ owner = "none" => depth = 0
    /\ owner = "main" => depth = MainDepth /\ depth > 0
    /\ owner # "main" => MainDepth = 0
    /\ owner = "thread" => depth = 1
    /\ owner = "thread" <=> threadPc = "Reading"

\* Where an actor may be in mieqEnqueue, and with which event.
OpInv ==
    /\ op["thread"] # NoOp => threadPc = "Reading" /\ ~op["thread"].locked
    /\ op["main"] # NoOp => mainPc \in {"Callbacks", "Execute", "Processing"}
    /\ op["main"] # NoOp /\ setup.threaded => op["main"].locked
    /\ ~setup.threaded => threadPc = "Wait"
    /\ \A a \in Actors : op[a] # NoOp => op[a].event \in Events
                                         /\ op[a].event.dev \in present

\* What the program counters say about the other variables of the threads.
PcInv ==
    /\ removing # 0 <=> \/ mainPc = "Remove"
                        \/ after = "Remove" /\ mainPc \in {"Enter", "Draining", "Processing"}
    /\ mainPc = "Processing" <=> current # NoEvent
    /\ mainPc = "Remove" => head = tail
    /\ threadPc = "Reading" <=> reading # 0
    /\ reading # 0 => reading \in present
    /\ Master \in present

\* The part of the ring from head to tail holds events, and lastMotion
\* describes the last of them.
RingInv ==
    /\ \A i \in 0 .. (mieqNumEnqueued - 1) : At(i) \in Events
    /\ head # tail => lastMotion = MotionOf(events[PrevSlot(tail)])

Inv == /\ TypeOK /\ LockInv /\ OpInv /\ PcInv /\ RingInv
       /\ NeverInterrupted /\ NoDanglingDevice

-----------------------------------------------------------------------------
(* Arithmetic of the ring *)

\* The number of queued events is less than the size of the ring, and zero
\* only if head and tail meet.
LEMMA NumRange ==
    ASSUME TypeOK
    PROVE  /\ mieqNumEnqueued \in 0 .. (nevents - 1)
           /\ mieqNumEnqueued = 0 <=> head = tail
  BY DEF TypeOK, mieqNumEnqueued

LEMMA SlotRange ==
    ASSUME TypeOK, NEW i \in 0 .. (nevents - 1)
    PROVE  /\ SlotAt(i) \in 0 .. (nevents - 1)
           /\ NextSlot(i) \in 0 .. (nevents - 1) /\ PrevSlot(i) \in 0 .. (nevents - 1)
           /\ NextSlot(PrevSlot(i)) = i
  BY DEF TypeOK, SlotAt, NextSlot, PrevSlot

\* The tail is the place behind the last event.
LEMMA SlotOfTail ==
    ASSUME TypeOK
    PROVE  /\ SlotAt(mieqNumEnqueued) = tail
           /\ head # tail => SlotAt(mieqNumEnqueued - 1) = PrevSlot(tail)
  BY DEF TypeOK, SlotAt, PrevSlot, mieqNumEnqueued

LEMMA SlotsDiffer ==
    ASSUME TypeOK, NEW i \in 0 .. (nevents - 1), NEW j \in 0 .. (nevents - 1), i # j
    PROVE  SlotAt(i) # SlotAt(j)
  BY DEF TypeOK, SlotAt

-----------------------------------------------------------------------------
(* What the steps do to the queued events *)

\* Growth leaves the queued events as they are.
LEMMA GrowKeeps ==
    ASSUME TypeOK, mieqGrowQueue
    PROVE  /\ mieqNumEnqueued' = mieqNumEnqueued
           /\ \A i \in 0 .. (mieqNumEnqueued - 1) : At(i)' = At(i)
           /\ head' \in 0 .. (nevents' - 1) /\ tail' \in 0 .. (nevents' - 1)
           /\ nevents' \in Nat \ {0}
           /\ events' \in [0 .. (nevents' - 1) -> Events \cup {NoEvent}]
           /\ head # tail => head' # tail' /\ events'[PrevSlot(tail)'] = events[PrevSlot(tail)]
           /\ head' # tail' => head # tail
  <1>1. mieqNumEnqueued \in 0 .. (nevents - 1) /\ (mieqNumEnqueued = 0 <=> head = tail)
    BY NumRange
  <1>2. mieqNumEnqueued' = mieqNumEnqueued
    BY <1>1 DEF TypeOK, mieqGrowQueue, mieqNumEnqueued
  <1>3. head' \in 0 .. (nevents' - 1) /\ tail' \in 0 .. (nevents' - 1) /\ nevents' \in Nat \ {0}
    BY <1>1 DEF TypeOK, mieqGrowQueue
  <1>4. ASSUME NEW i \in 0 .. (nevents - 1)
        PROVE  SlotAt(i)' = i /\ events'[i] = events[SlotAt(i)]
    BY DEF TypeOK, mieqGrowQueue, SlotAt
  <1>5. \A i \in 0 .. (mieqNumEnqueued - 1) : At(i)' = At(i)
    BY <1>1, <1>4 DEF At, TypeOK
  <1>6. events' \in [0 .. (nevents' - 1) -> Events \cup {NoEvent}]
    <2>1. ASSUME NEW i \in 0 .. (2 * nevents - 1), i < nevents
          PROVE  events[SlotAt(i)] \in Events \cup {NoEvent}
      <3>1. i \in 0 .. (nevents - 1)
        BY <2>1 DEF TypeOK
      <3>2. SlotAt(i) \in 0 .. (nevents - 1)
        BY <3>1, SlotRange
      <3> QED
        BY <3>2 DEF TypeOK
    <2> QED
      BY <2>1 DEF TypeOK, mieqGrowQueue
  <1>7. ASSUME head # tail
        PROVE  head' # tail' /\ events'[PrevSlot(tail)'] = events[PrevSlot(tail)]
    <2>1. PrevSlot(tail)' = mieqNumEnqueued - 1 /\ head' # tail'
      BY <1>1, <1>7 DEF TypeOK, mieqGrowQueue, PrevSlot
    <2>2. events'[mieqNumEnqueued - 1] = events[SlotAt(mieqNumEnqueued - 1)]
      BY <1>1, <1>4, <1>7 DEF TypeOK
    <2> QED
      BY <1>7, <2>1, <2>2, SlotOfTail
  <1>8. head' # tail' => head # tail
    BY <1>1 DEF TypeOK, mieqGrowQueue
  <1> QED
    BY <1>2, <1>3, <1>5, <1>6, <1>7, <1>8

\* An enqueue that is not a merge adds its event behind the others.
LEMMA EndAppends ==
    ASSUME TypeOK, NEW a \in Actors, op[a].event \in Events, EnqueueEnd(a),
           op[a].slot = tail, mieqNumEnqueued + 1 < nevents
    PROVE  /\ mieqNumEnqueued' = mieqNumEnqueued + 1
           /\ \A i \in 0 .. (mieqNumEnqueued - 1) : At(i)' = At(i)
           /\ \A i : i = mieqNumEnqueued => At(i)' = op[a].event
           /\ head' # tail' /\ PrevSlot(tail)' = tail /\ events'[tail] = op[a].event
  <1>1. mieqNumEnqueued \in 0 .. (nevents - 1)
    BY NumRange
  <1>2. /\ head' = head /\ nevents' = nevents /\ tail' = NextSlot(tail)
        /\ events' = [events EXCEPT ![tail] = op[a].event]
    BY DEF EnqueueEnd
  <1>3. mieqNumEnqueued' = mieqNumEnqueued + 1
    BY <1>1, <1>2 DEF TypeOK, mieqNumEnqueued, NextSlot
  <1>4. \A i : SlotAt(i)' = SlotAt(i)
    BY <1>2 DEF SlotAt
  <1>5. ASSUME NEW i \in 0 .. (mieqNumEnqueued - 1)
        PROVE  At(i)' = At(i)
    <2>1. i \in 0 .. (nevents - 1) /\ i # mieqNumEnqueued
      BY <1>1 DEF TypeOK
    <2>2. SlotAt(i) # tail
      BY <1>1, <2>1, SlotsDiffer, SlotOfTail
    <2>3. SlotAt(i) \in 0 .. (nevents - 1)
      BY <2>1, SlotRange
    <2> QED
      BY <1>2, <1>4, <2>2, <2>3 DEF At, TypeOK
  <1>6. events'[tail] = op[a].event
    BY <1>2 DEF TypeOK
  <1>7. \A i : i = mieqNumEnqueued => At(i)' = op[a].event
    BY <1>4, <1>6, SlotOfTail DEF At
  <1>8. head' # tail' /\ PrevSlot(tail)' = tail
    BY <1>1, <1>2 DEF TypeOK, mieqNumEnqueued, NextSlot, PrevSlot
  <1> QED
    BY <1>3, <1>5, <1>6, <1>7, <1>8

\* A merge replaces the last event.
LEMMA EndReplaces ==
    ASSUME TypeOK, NEW a \in Actors, op[a].event \in Events, EnqueueEnd(a),
           op[a].slot = PrevSlot(tail), head # tail
    PROVE  /\ mieqNumEnqueued' = mieqNumEnqueued
           /\ \A i \in 0 .. (mieqNumEnqueued - 2) : At(i)' = At(i)
           /\ At(mieqNumEnqueued - 1)' = op[a].event
           /\ head' = head /\ tail' = tail /\ events'[PrevSlot(tail)] = op[a].event
           /\ PrevSlot(tail)' = PrevSlot(tail)
  <1>1. mieqNumEnqueued \in 1 .. (nevents - 1)
    BY NumRange
  <1>2. PrevSlot(tail) \in 0 .. (nevents - 1) /\ NextSlot(PrevSlot(tail)) = tail
    BY SlotRange DEF TypeOK
  <1>3. /\ head' = head /\ nevents' = nevents /\ tail' = tail
        /\ events' = [events EXCEPT ![PrevSlot(tail)] = op[a].event]
    BY <1>2 DEF EnqueueEnd
  <1>4. mieqNumEnqueued' = mieqNumEnqueued /\ PrevSlot(tail)' = PrevSlot(tail)
    BY <1>3 DEF mieqNumEnqueued, PrevSlot
  <1>5. \A i : SlotAt(i)' = SlotAt(i)
    BY <1>3 DEF SlotAt
  <1>6. ASSUME NEW i \in 0 .. (mieqNumEnqueued - 2)
        PROVE  At(i)' = At(i)
    <2>1. /\ i \in 0 .. (nevents - 1) /\ mieqNumEnqueued - 1 \in 0 .. (nevents - 1)
          /\ i # mieqNumEnqueued - 1
      BY <1>1 DEF TypeOK
    <2>2. SlotAt(i) # PrevSlot(tail)
      BY <2>1, SlotsDiffer, SlotOfTail
    <2>3. SlotAt(i) \in 0 .. (nevents - 1)
      BY <2>1, SlotRange
    <2> QED
      BY <1>3, <1>5, <2>2, <2>3 DEF At, TypeOK
  <1>7. events'[PrevSlot(tail)] = op[a].event
    BY <1>2, <1>3 DEF TypeOK
  <1>8. At(mieqNumEnqueued - 1)' = op[a].event
    BY <1>4, <1>5, <1>7, SlotOfTail DEF At
  <1> QED
    BY <1>3, <1>4, <1>6, <1>7, <1>8

\* Taking an event moves the others one place forward.
LEMMA TakeShifts ==
    ASSUME TypeOK, TakeEvent
    PROVE  /\ mieqNumEnqueued > 0 /\ mieqNumEnqueued' = mieqNumEnqueued - 1
           /\ current' = At(0)
           /\ \A i \in 0 .. (mieqNumEnqueued - 2) : At(i)' = At(i + 1)
           /\ tail' = tail /\ events' = events /\ PrevSlot(tail)' = PrevSlot(tail)
  <1>1. mieqNumEnqueued \in 1 .. (nevents - 1)
    BY NumRange DEF TakeEvent
  <1>2. /\ head' = NextSlot(head) /\ tail' = tail /\ nevents' = nevents
        /\ events' = events /\ head # tail
    BY DEF TakeEvent
  <1>3. mieqNumEnqueued' = mieqNumEnqueued - 1
    BY <1>1, <1>2 DEF TypeOK, mieqNumEnqueued, NextSlot
  <1>4. current' = At(0)
    BY DEF TakeEvent, At, SlotAt, TypeOK
  <1>5. ASSUME NEW i \in 0 .. (mieqNumEnqueued - 2)
        PROVE  At(i)' = At(i + 1)
    <2>1. SlotAt(i)' = SlotAt(i + 1)
      BY <1>1, <1>2 DEF TypeOK, SlotAt, NextSlot
    <2> QED
      BY <1>2, <2>1 DEF At
  <1>6. PrevSlot(tail)' = PrevSlot(tail)
    BY <1>2 DEF PrevSlot
  <1> QED
    BY <1>1, <1>2, <1>3, <1>4, <1>5, <1>6

-----------------------------------------------------------------------------
(* The invariant: the lock and the program counters *)

\* What the lock excludes.
LEMMA Exclusion ==
    ASSUME Inv, LockedSetups
    PROVE  /\ owner = "main" => op["thread"] = NoOp /\ threadPc # "Reading"
           /\ mainPc = "Draining" \/ removing # 0 \/ op["main"].locked => owner = "main"
           /\ op["main"] # NoOp => op["thread"] = NoOp
           /\ op["thread"] # NoOp => owner = "thread"
           /\ threadPc = "Reading" => op["main"] = NoOp /\ removing = 0 /\ mainPc # "Draining"
           /\ owner \in {"main", "thread", "none"} /\ depth \in Nat
           /\ op["main"] \in [event : Events \cup {NoEvent}, slot : Nat,
                              locked : BOOLEAN, grown : BOOLEAN]
           /\ op["thread"] \in [event : Events \cup {NoEvent}, slot : Nat,
                                locked : BOOLEAN, grown : BOOLEAN]
           /\ setup \in Setups /\ \A a \in Actors : op[a] = NoOp => ~op[a].locked
  <1>1. /\ owner \in {"main", "thread", "none"} /\ depth \in Nat /\ setup \in Setups
        /\ op \in [Actors -> [event : Events \cup {NoEvent}, slot : Nat,
                              locked : BOOLEAN, grown : BOOLEAN]]
    BY DEF Inv, TypeOK, Actors
  <1>2. /\ op["main"] \in [event : Events \cup {NoEvent}, slot : Nat,
                           locked : BOOLEAN, grown : BOOLEAN]
        /\ op["thread"] \in [event : Events \cup {NoEvent}, slot : Nat,
                             locked : BOOLEAN, grown : BOOLEAN]
    BY <1>1 DEF Actors
  <1>3. \A a \in Actors : op[a] = NoOp => ~op[a].locked
    BY DEF NoOp
  <1>4. mainPc = "Draining" \/ removing # 0 \/ op["main"].locked => MainDepth # 0
    BY DEF MainDepth
  <1>5. mainPc = "Draining" \/ removing # 0 \/ op["main"].locked => owner = "main"
    BY <1>4 DEF Inv, LockInv
  <1>6. op["main"] # NoOp => op["thread"] = NoOp
    BY <1>5 DEF Inv, LockInv, OpInv
  <1> QED
    BY <1>1, <1>2, <1>3, <1>5, <1>6 DEF Inv, LockInv, OpInv

\* An enqueue that begins has chosen a slot of the ring as it is then.
LEMMA BeginSets ==
    ASSUME Inv, LockedSetups, NEW a \in Actors, NEW e \in Events, NEW locked \in BOOLEAN,
           EnqueueBegin(a, e, locked)
    PROVE  /\ op[a] = NoOp /\ op'[a] # NoOp
           /\ op'[a].event = e /\ op'[a].locked = locked
           /\ \A b \in Actors \ {a} : op'[b] = op[b]
           /\ op' \in [Actors -> [event : Events \cup {NoEvent}, slot : Nat,
                                  locked : BOOLEAN, grown : BOOLEAN]]
           /\ Merges(e) => op'[a].slot = PrevSlot(tail) /\ UNCHANGED ringVars
           /\ ~Merges(e) => /\ op'[a].slot = tail'
                            /\ \/ UNCHANGED ringVars /\ mieqNumEnqueued + 1 # nevents
                               \/ mieqGrowQueue /\ mieqNumEnqueued + 1 = nevents
  <1>1. e # NoEvent /\ TypeOK
    BY ConstantsAssumption DEF Inv
  <1>2. PrevSlot(tail) \in Nat /\ tail \in Nat /\ (mieqGrowQueue => tail' \in Nat)
    <2>1. tail \in 0 .. (nevents - 1) /\ nevents \in Nat
      BY <1>1 DEF TypeOK
    <2>2. PrevSlot(tail) \in 0 .. (nevents - 1)
      BY <1>1, <2>1, SlotRange
    <2>3. mieqNumEnqueued \in 0 .. (nevents - 1)
      BY <1>1, NumRange
    <2> QED
      BY <2>1, <2>2, <2>3 DEF mieqGrowQueue
  <1>3. PICK s \in Nat, g \in BOOLEAN :
           /\ op' = [op EXCEPT ![a] = [event |-> e, slot |-> s, locked |-> locked, grown |-> g]]
           /\ Merges(e) => s = PrevSlot(tail) /\ UNCHANGED ringVars
           /\ ~Merges(e) => /\ s = tail'
                            /\ \/ UNCHANGED ringVars /\ mieqNumEnqueued + 1 # nevents
                               \/ mieqGrowQueue /\ mieqNumEnqueued + 1 = nevents
    BY <1>2 DEF EnqueueBegin, Begin, ringVars
  <1>4. op[a] = NoOp
    BY DEF EnqueueBegin
  <1>5. op \in [Actors -> [event : Events \cup {NoEvent}, slot : Nat,
                           locked : BOOLEAN, grown : BOOLEAN]]
    BY <1>1 DEF TypeOK
  <1>6. op'[a] = [event |-> e, slot |-> s, locked |-> locked, grown |-> g]
    BY <1>3, <1>5
  <1>7. op'[a] # NoOp
    BY <1>1, <1>6 DEF NoOp
  <1> QED
    BY <1>3, <1>4, <1>5, <1>6, <1>7

\* The lock, whoever takes it and gives it up.
LEMMA LockStep ==
    ASSUME Inv, LockedSetups, [Next]_vars
    PROVE  LockInv'
  <1>1. CASE DispatchLoop
    BY <1>1, Exclusion DEF DispatchLoop, Goto, ProcessInputEvents, MainAt, Inv,
       TypeOK, LockInv, OpInv, PcInv, MainDepth, NoOp, Actors, ringVars, lockVars,
       mainVars, thrVars
  <1>2. CASE Poll
    BY <1>2, Exclusion DEF Poll, Goto, MainAt, Inv, TypeOK, LockInv, OpInv, PcInv,
       MainDepth, NoOp, Actors, ringVars, lockVars, mainVars, thrVars
  <1>3. CASE DeleteInputDeviceRequest
    BY <1>3, Exclusion DEF DeleteInputDeviceRequest, input_unlock, MainAt, Inv,
       TypeOK, LockInv, OpInv, PcInv, MainDepth, NoOp, Actors, ringVars, lockVars,
       mainVars, thrVars
  <1>4. CASE ReadDevice
    BY <1>4, Exclusion DEF ReadDevice, EnqueueBegin, Begin, MainAt, Inv, TypeOK,
       LockInv, OpInv, PcInv, MainDepth, NoOp, Actors, ringVars, lockVars, mainVars,
       thrVars
  <1>5. CASE CallbacksDone
    BY <1>5, Exclusion DEF CallbacksDone, Goto, MainAt, Inv, TypeOK, LockInv, OpInv,
       PcInv, MainDepth, NoOp, Actors, ringVars, lockVars, mainVars, thrVars
  <1>6. CASE Serve
    BY <1>6, Exclusion DEF Serve, Goto, ProcessInputEvents, MainAt, Inv, TypeOK,
       LockInv, OpInv, PcInv, MainDepth, NoOp, Actors, ringVars, lockVars, mainVars,
       thrVars
  <1>7. CASE UpdateCurrentTime
    BY <1>7, Exclusion DEF UpdateCurrentTime, ProcessInputEvents, MainAt, Inv,
       TypeOK, LockInv, OpInv, PcInv, MainDepth, NoOp, Actors, ringVars, lockVars,
       mainVars, thrVars
  <1>8. CASE RequestDone
    BY <1>8, Exclusion DEF RequestDone, Goto, MainAt, Inv, TypeOK, LockInv, OpInv,
       PcInv, MainDepth, NoOp, Actors, ringVars, lockVars, mainVars, thrVars
  <1>9. CASE miPointerMove
    BY <1>9, Exclusion DEF miPointerMove, input_lock, CanLock, EnqueueBegin, Begin,
       MainAt, Inv, TypeOK, LockInv, OpInv, PcInv, MainDepth, NoOp, Actors,
       ringVars, lockVars, mainVars, thrVars
  <1>10. CASE BarrierFreeBarrier
    BY <1>10, Exclusion DEF BarrierFreeBarrier, EnqueueBegin, Begin, MainAt, Inv,
       TypeOK, LockInv, OpInv, PcInv, MainDepth, NoOp, Actors, ringVars, lockVars,
       mainVars, thrVars
  <1>11. CASE Enter
    BY <1>11, Exclusion DEF Enter, Goto, input_lock, CanLock, MainAt, Inv, TypeOK,
       LockInv, OpInv, PcInv, MainDepth, NoOp, Actors, ringVars, lockVars, mainVars,
       thrVars
  <1>12. CASE TakeEvent
    BY <1>12, Exclusion DEF TakeEvent, input_unlock, MainAt, Inv, TypeOK, LockInv,
       OpInv, PcInv, MainDepth, NoOp, Actors, ringVars, lockVars, mainVars, thrVars
  <1>13. CASE EventHandled
    BY <1>13, Exclusion DEF EventHandled, input_lock, CanLock, MainAt, Inv, TypeOK,
       LockInv, OpInv, PcInv, MainDepth, NoOp, Actors, ringVars, lockVars, mainVars,
       thrVars
  <1>14. CASE Drained
    BY <1>14, Exclusion DEF Drained, Goto, input_unlock, MainAt, Inv, TypeOK,
       LockInv, OpInv, PcInv, MainDepth, NoOp, Actors, ringVars, lockVars, mainVars,
       thrVars
  <1>15. CASE ThreadEnqueue
    BY <1>15, Exclusion DEF ThreadEnqueue, EnqueueBegin, Begin, Inv, TypeOK,
       LockInv, OpInv, PcInv, MainDepth, NoOp, Actors, ringVars, lockVars, mainVars,
       thrVars
  <1>16. CASE InputReadyDone
    BY <1>16, Exclusion DEF InputReadyDone, input_unlock, Inv, TypeOK, LockInv,
       OpInv, PcInv, MainDepth, NoOp, Actors, ringVars, lockVars, mainVars, thrVars
  <1>17. CASE InputThreadFillPipe
    BY <1>17, Exclusion DEF InputThreadFillPipe, Inv, TypeOK, LockInv, OpInv, PcInv,
       MainDepth, NoOp, Actors, ringVars, lockVars, mainVars, thrVars
  <1>18. CASE InputThreadPipeNotify
    BY <1>18, Exclusion DEF InputThreadPipeNotify, Inv, TypeOK, LockInv, OpInv,
       PcInv, MainDepth, NoOp, Actors, ringVars, lockVars, mainVars, thrVars
  <1>19. ASSUME NEW d \in Slaves, Plug(d)
        PROVE  LockInv'
    BY <1>19, Exclusion DEF Plug, CanLock, MainAt, Inv, TypeOK, LockInv, OpInv,
       PcInv, MainDepth, NoOp, Actors, ringVars, lockVars, mainVars, thrVars
  <1>20. ASSUME NEW d \in Slaves, Unplug(d)
        PROVE  LockInv'
    BY <1>20, Exclusion, ConstantsAssumption DEF Unplug, input_lock, CanLock,
       MainAt, Inv, TypeOK, LockInv, OpInv, PcInv, MainDepth, NoOp, Actors,
       ringVars, lockVars, mainVars, thrVars
  <1>21. ASSUME NEW d \in Slaves, InputReady(d)
        PROVE  LockInv'
    BY <1>21, Exclusion, ConstantsAssumption DEF InputReady, input_lock, CanLock,
       Inv, TypeOK, LockInv, OpInv, PcInv, MainDepth, NoOp, Actors, ringVars,
       lockVars, mainVars, thrVars
  <1>22. ASSUME NEW a \in Actors, EnqueueEnd(a)
        PROVE  LockInv'
    BY <1>22, Exclusion DEF EnqueueEnd, input_unlock, Inv, TypeOK, LockInv, OpInv,
       PcInv, MainDepth, NoOp, Actors, ringVars, lockVars, mainVars, thrVars
  <1>23. CASE UNCHANGED vars
    BY <1>23, Exclusion DEF vars, ringVars, lockVars, mainVars, thrVars, Inv, TypeOK, LockInv, OpInv, PcInv, MainDepth, NoOp, Actors, ringVars, lockVars, mainVars, thrVars
  <1> QED
    BY <1>1, <1>2, <1>3, <1>4, <1>5, <1>6, <1>7, <1>8, <1>9, <1>10, <1>11,
       <1>12, <1>13, <1>14, <1>15, <1>16, <1>17, <1>18, <1>19, <1>20, <1>21,
       <1>22, <1>23 DEF Next, InputThread, Main

\* The program counters with the device that is read or removed.
LEMMA PcStep ==
    ASSUME Inv, LockedSetups, [Next]_vars
    PROVE  PcInv'
  <1>1. CASE DispatchLoop
    BY <1>1, Exclusion DEF DispatchLoop, Goto, ProcessInputEvents, MainAt, Inv,
       TypeOK, PcInv, LockInv, Actors, ringVars, lockVars, mainVars, thrVars
  <1>2. CASE Poll
    BY <1>2, Exclusion DEF Poll, Goto, MainAt, Inv, TypeOK, PcInv, LockInv, Actors,
       ringVars, lockVars, mainVars, thrVars
  <1>3. CASE DeleteInputDeviceRequest
    BY <1>3, Exclusion, ConstantsAssumption DEF DeleteInputDeviceRequest,
       input_unlock, MainAt, Inv, TypeOK, PcInv, LockInv, Actors, ringVars,
       lockVars, mainVars, thrVars
  <1>4. CASE ReadDevice
    BY <1>4, Exclusion DEF ReadDevice, EnqueueBegin, Begin, MainAt, Inv, TypeOK,
       PcInv, LockInv, Actors, ringVars, lockVars, mainVars, thrVars
  <1>5. CASE CallbacksDone
    BY <1>5, Exclusion DEF CallbacksDone, Goto, MainAt, Inv, TypeOK, PcInv, LockInv,
       Actors, ringVars, lockVars, mainVars, thrVars
  <1>6. CASE Serve
    BY <1>6, Exclusion DEF Serve, Goto, ProcessInputEvents, MainAt, Inv, TypeOK,
       PcInv, LockInv, Actors, ringVars, lockVars, mainVars, thrVars
  <1>7. CASE UpdateCurrentTime
    BY <1>7, Exclusion DEF UpdateCurrentTime, ProcessInputEvents, MainAt, Inv,
       TypeOK, PcInv, LockInv, Actors, ringVars, lockVars, mainVars, thrVars
  <1>8. CASE RequestDone
    BY <1>8, Exclusion DEF RequestDone, Goto, MainAt, Inv, TypeOK, PcInv, LockInv,
       Actors, ringVars, lockVars, mainVars, thrVars
  <1>9. CASE miPointerMove
    BY <1>9, Exclusion DEF miPointerMove, input_lock, CanLock, EnqueueBegin, Begin,
       MainAt, Inv, TypeOK, PcInv, LockInv, Actors, ringVars, lockVars, mainVars,
       thrVars
  <1>10. CASE BarrierFreeBarrier
    BY <1>10, Exclusion DEF BarrierFreeBarrier, EnqueueBegin, Begin, MainAt, Inv,
       TypeOK, PcInv, LockInv, Actors, ringVars, lockVars, mainVars, thrVars
  <1>11. CASE Enter
    BY <1>11, Exclusion DEF Enter, Goto, input_lock, CanLock, MainAt, Inv, TypeOK,
       PcInv, LockInv, Actors, ringVars, lockVars, mainVars, thrVars
  <1>12. CASE TakeEvent
    <2>1. current' \in Events
      BY <1>12, TakeShifts, NumRange DEF Inv, RingInv
    <2> QED
      BY <1>12, <2>1, ConstantsAssumption DEF TakeEvent, MainAt, Inv, PcInv, thrVars
  <1>13. CASE EventHandled
    BY <1>13, Exclusion DEF EventHandled, input_lock, CanLock, MainAt, Inv, TypeOK,
       PcInv, LockInv, Actors, ringVars, lockVars, mainVars, thrVars
  <1>14. CASE Drained
    BY <1>14, Exclusion DEF Drained, Goto, input_unlock, MainAt, Inv, TypeOK, PcInv,
       LockInv, Actors, ringVars, lockVars, mainVars, thrVars
  <1>15. CASE ThreadEnqueue
    BY <1>15, Exclusion DEF ThreadEnqueue, EnqueueBegin, Begin, Inv, TypeOK, PcInv,
       LockInv, Actors, ringVars, lockVars, mainVars, thrVars
  <1>16. CASE InputReadyDone
    BY <1>16, Exclusion DEF InputReadyDone, input_unlock, Inv, TypeOK, PcInv,
       LockInv, Actors, ringVars, lockVars, mainVars, thrVars
  <1>17. CASE InputThreadFillPipe
    BY <1>17, Exclusion DEF InputThreadFillPipe, Inv, TypeOK, PcInv, LockInv,
       Actors, ringVars, lockVars, mainVars, thrVars
  <1>18. CASE InputThreadPipeNotify
    BY <1>18, Exclusion DEF InputThreadPipeNotify, Inv, TypeOK, PcInv, LockInv,
       Actors, ringVars, lockVars, mainVars, thrVars
  <1>19. ASSUME NEW d \in Slaves, Plug(d)
        PROVE  PcInv'
    BY <1>19, Exclusion, ConstantsAssumption DEF Plug, CanLock, MainAt, Inv, TypeOK,
       PcInv, LockInv, Actors, ringVars, lockVars, mainVars, thrVars
  <1>20. ASSUME NEW d \in Slaves, Unplug(d)
        PROVE  PcInv'
    BY <1>20, Exclusion, ConstantsAssumption DEF Unplug, input_lock, CanLock,
       MainAt, Inv, TypeOK, PcInv, LockInv, Actors, ringVars, lockVars, mainVars,
       thrVars
  <1>21. ASSUME NEW d \in Slaves, InputReady(d)
        PROVE  PcInv'
    BY <1>21, Exclusion, ConstantsAssumption DEF InputReady, input_lock, CanLock,
       Inv, TypeOK, PcInv, LockInv, Actors, ringVars, lockVars, mainVars, thrVars
  <1>22. ASSUME NEW a \in Actors, EnqueueEnd(a)
        PROVE  PcInv'
    BY <1>22, Exclusion DEF EnqueueEnd, Inv, OpInv, PcInv, LockInv, Actors, mainVars,
       thrVars
  <1>23. CASE UNCHANGED vars
    BY <1>23, Exclusion DEF vars, ringVars, lockVars, mainVars, thrVars, Inv, TypeOK, PcInv, LockInv, Actors, ringVars, lockVars, mainVars, thrVars
  <1> QED
    BY <1>1, <1>2, <1>3, <1>4, <1>5, <1>6, <1>7, <1>8, <1>9, <1>10, <1>11,
       <1>12, <1>13, <1>14, <1>15, <1>16, <1>17, <1>18, <1>19, <1>20, <1>21,
       <1>22, <1>23 DEF Next, InputThread, Main

\* The calls of mieqEnqueue, which begin and end where they may.
LEMMA OpStep ==
    ASSUME Inv, LockedSetups, [Next]_vars
    PROVE  OpInv'
  <1>1. CASE DispatchLoop
    BY <1>1, Exclusion DEF DispatchLoop, Goto, ProcessInputEvents, MainAt, Inv,
       TypeOK, OpInv, PcInv, LockInv, NoOp, Actors, ringVars, lockVars, mainVars,
       thrVars
  <1>2. CASE Poll
    BY <1>2, Exclusion DEF Poll, Goto, MainAt, Inv, TypeOK, OpInv, PcInv, LockInv,
       NoOp, Actors, ringVars, lockVars, mainVars, thrVars
  <1>3. CASE DeleteInputDeviceRequest
    BY <1>3, Exclusion DEF DeleteInputDeviceRequest, input_unlock, MainAt, Inv,
       TypeOK, OpInv, PcInv, LockInv, NoOp, Actors, ringVars, lockVars, mainVars,
       thrVars
  <1>4. CASE ReadDevice
    <2>1. PICK e \in Events : e.dev \in present /\ EnqueueBegin("main", e, FALSE)
      BY <1>4 DEF ReadDevice
    <2>2. /\ op'["main"] # NoOp /\ op'["main"].event = e
          /\ op'["main"].locked = FALSE /\ \A b \in Actors \ {"main"} : op'[b] = op[b]
      BY <2>1, BeginSets DEF Actors
    <2> QED
      BY <1>4, <2>1, <2>2, Exclusion DEF ReadDevice, MainAt, Inv, OpInv, LockInv, Actors, mainVars,
          thrVars
  <1>5. CASE CallbacksDone
    BY <1>5, Exclusion DEF CallbacksDone, Goto, MainAt, Inv, TypeOK, OpInv, PcInv,
       LockInv, NoOp, Actors, ringVars, lockVars, mainVars, thrVars
  <1>6. CASE Serve
    BY <1>6, Exclusion DEF Serve, Goto, ProcessInputEvents, MainAt, Inv, TypeOK,
       OpInv, PcInv, LockInv, NoOp, Actors, ringVars, lockVars, mainVars, thrVars
  <1>7. CASE UpdateCurrentTime
    BY <1>7, Exclusion DEF UpdateCurrentTime, ProcessInputEvents, MainAt, Inv,
       TypeOK, OpInv, PcInv, LockInv, NoOp, Actors, ringVars, lockVars, mainVars,
       thrVars
  <1>8. CASE RequestDone
    BY <1>8, Exclusion DEF RequestDone, Goto, MainAt, Inv, TypeOK, OpInv, PcInv,
       LockInv, NoOp, Actors, ringVars, lockVars, mainVars, thrVars
  <1>9. CASE miPointerMove
    <2>1. PICK e \in Events : e.dev = Master /\ EnqueueBegin("main", e, TRUE)
      BY <1>9 DEF miPointerMove
    <2>2. /\ op'["main"] # NoOp /\ op'["main"].event = e
          /\ op'["main"].locked = TRUE /\ \A b \in Actors \ {"main"} : op'[b] = op[b]
      BY <2>1, BeginSets DEF Actors
    <2> QED
      BY <1>9, <2>1, <2>2, Exclusion DEF miPointerMove, MainAt, Inv, OpInv, PcInv, Actors, mainVars,
          thrVars
  <1>10. CASE BarrierFreeBarrier
    <2>1. PICK e \in Events : e.dev = Master /\ EnqueueBegin("main", e, FALSE)
      BY <1>10 DEF BarrierFreeBarrier
    <2>2. /\ op'["main"] # NoOp /\ op'["main"].event = e
          /\ op'["main"].locked = FALSE /\ \A b \in Actors \ {"main"} : op'[b] = op[b]
      BY <2>1, BeginSets DEF Actors
    <2> QED
      BY <1>10, <2>1, <2>2, Exclusion DEF BarrierFreeBarrier, MainAt, Inv, OpInv, PcInv, Actors,
          mainVars, thrVars, LockedSetups
  <1>11. CASE Enter
    BY <1>11, Exclusion DEF Enter, Goto, input_lock, CanLock, MainAt, Inv, TypeOK,
       OpInv, PcInv, LockInv, NoOp, Actors, ringVars, lockVars, mainVars, thrVars
  <1>12. CASE TakeEvent
    BY <1>12, Exclusion DEF TakeEvent, input_unlock, MainAt, Inv, TypeOK, OpInv,
       PcInv, LockInv, NoOp, Actors, ringVars, lockVars, mainVars, thrVars
  <1>13. CASE EventHandled
    BY <1>13, Exclusion DEF EventHandled, input_lock, CanLock, MainAt, Inv, TypeOK,
       OpInv, PcInv, LockInv, NoOp, Actors, ringVars, lockVars, mainVars, thrVars
  <1>14. CASE Drained
    BY <1>14, Exclusion DEF Drained, Goto, input_unlock, MainAt, Inv, TypeOK, OpInv,
       PcInv, LockInv, NoOp, Actors, ringVars, lockVars, mainVars, thrVars
  <1>15. CASE ThreadEnqueue
    <2>1. PICK e \in Events : e.dev = reading /\ EnqueueBegin("thread", e, FALSE)
      BY <1>15 DEF ThreadEnqueue
    <2>2. /\ op'["thread"] # NoOp /\ op'["thread"].event = e
          /\ op'["thread"].locked = FALSE /\ \A b \in Actors \ {"thread"} : op'[b] = op[b]
      BY <2>1, BeginSets DEF Actors
    <2> QED
      BY <1>15, <2>1, <2>2, Exclusion DEF ThreadEnqueue, Inv, OpInv, PcInv, LockInv, Actors,
          mainVars, thrVars
  <1>16. CASE InputReadyDone
    BY <1>16, Exclusion DEF InputReadyDone, input_unlock, Inv, TypeOK, OpInv, PcInv,
       LockInv, NoOp, Actors, ringVars, lockVars, mainVars, thrVars
  <1>17. CASE InputThreadFillPipe
    BY <1>17, Exclusion DEF InputThreadFillPipe, Inv, TypeOK, OpInv, PcInv, LockInv,
       NoOp, Actors, ringVars, lockVars, mainVars, thrVars
  <1>18. CASE InputThreadPipeNotify
    BY <1>18, Exclusion DEF InputThreadPipeNotify, Inv, TypeOK, OpInv, PcInv,
       LockInv, NoOp, Actors, ringVars, lockVars, mainVars, thrVars
  <1>19. ASSUME NEW d \in Slaves, Plug(d)
        PROVE  OpInv'
    BY <1>19, Exclusion DEF Plug, CanLock, MainAt, Inv, TypeOK, OpInv, PcInv,
       LockInv, NoOp, Actors, ringVars, lockVars, mainVars, thrVars
  <1>20. ASSUME NEW d \in Slaves, Unplug(d)
        PROVE  OpInv'
    BY <1>20, Exclusion, ConstantsAssumption DEF Unplug, input_lock, CanLock,
       MainAt, Inv, TypeOK, OpInv, PcInv, LockInv, NoOp, Actors, ringVars, lockVars,
       mainVars, thrVars
  <1>21. ASSUME NEW d \in Slaves, InputReady(d)
        PROVE  OpInv'
    BY <1>21, Exclusion, ConstantsAssumption DEF InputReady, input_lock, CanLock,
       Inv, TypeOK, OpInv, PcInv, LockInv, NoOp, Actors, ringVars, lockVars,
       mainVars, thrVars
  <1>22. ASSUME NEW a \in Actors, EnqueueEnd(a)
        PROVE  OpInv'
    BY <1>22, Exclusion DEF EnqueueEnd, input_unlock, Inv, TypeOK, OpInv, PcInv,
       LockInv, NoOp, Actors, ringVars, lockVars, mainVars, thrVars
  <1>23. CASE UNCHANGED vars
    BY <1>23, Exclusion DEF vars, ringVars, lockVars, mainVars, thrVars, Inv, TypeOK, OpInv, PcInv, LockInv, NoOp, Actors, ringVars, lockVars, mainVars, thrVars
  <1> QED
    BY <1>1, <1>2, <1>3, <1>4, <1>5, <1>6, <1>7, <1>8, <1>9, <1>10, <1>11,
       <1>12, <1>13, <1>14, <1>15, <1>16, <1>17, <1>18, <1>19, <1>20, <1>21,
       <1>22, <1>23 DEF Next, InputThread, Main

-----------------------------------------------------------------------------
(* The invariant: the ring *)

\* A step that leaves the ring alone and takes no device away that matters.
LeavesRing ==
    /\ UNCHANGED <<ringVars, op>>
    /\ current' = current \/ (current # NoEvent /\ current' = NoEvent)
    /\ \/ present \subseteq present'
       \/ head = tail /\ current = NoEvent

\* A step that begins an enqueue of an event of a device that is there.
BeginsOne ==
    /\ \A a \in Actors : op[a] = NoOp
    /\ \E a \in Actors, e \in Events, locked \in BOOLEAN :
          EnqueueBegin(a, e, locked) /\ e.dev \in present
    /\ UNCHANGED <<mainVars, thrVars, pipe, present, setup>>

\* There are four kinds of steps as far as the ring is concerned.
LEMMA StepKinds ==
    ASSUME Inv, LockedSetups, [Next]_vars
    PROVE  LeavesRing \/ BeginsOne \/ TakeEvent \/ (\E b \in Actors : EnqueueEnd(b))
  <1>1. CASE DispatchLoop
    BY <1>1 DEF DispatchLoop, Goto, ProcessInputEvents, MainAt, LeavesRing, Inv,
       PcInv, ringVars, lockVars, mainVars, thrVars
  <1>2. CASE Poll
    BY <1>2 DEF Poll, Goto, MainAt, LeavesRing, Inv, PcInv, ringVars, lockVars,
       mainVars, thrVars
  <1>3. CASE DeleteInputDeviceRequest
    BY <1>3 DEF DeleteInputDeviceRequest, input_unlock, MainAt, LeavesRing, Inv,
       PcInv, ringVars, lockVars, mainVars, thrVars
  <1>4. CASE ReadDevice
    <2>1. PICK e \in Events : e.dev \in present /\ EnqueueBegin("main", e, FALSE)
      BY <1>4 DEF ReadDevice
    <2>2. /\ e.dev \in present /\ UNCHANGED <<mainVars, thrVars, pipe, present, setup>>
      BY <1>4, <2>1, Exclusion DEF ReadDevice, Inv, PcInv, mainVars, thrVars
    <2>3. op["main"] = NoOp /\ op["thread"] = NoOp
      <3>1. op["main"] = NoOp
        BY <2>1 DEF EnqueueBegin
      <3> QED
        BY <1>4, <3>1, Exclusion DEF ReadDevice, MainAt, Inv, OpInv, LockInv
    <2> QED
      BY <2>1, <2>2, <2>3 DEF BeginsOne, Actors
  <1>5. CASE CallbacksDone
    BY <1>5 DEF CallbacksDone, Goto, MainAt, LeavesRing, Inv, PcInv, ringVars,
       lockVars, mainVars, thrVars
  <1>6. CASE Serve
    BY <1>6 DEF Serve, Goto, ProcessInputEvents, MainAt, LeavesRing, Inv, PcInv,
       ringVars, lockVars, mainVars, thrVars
  <1>7. CASE UpdateCurrentTime
    BY <1>7 DEF UpdateCurrentTime, ProcessInputEvents, MainAt, LeavesRing, Inv,
       PcInv, ringVars, lockVars, mainVars, thrVars
  <1>8. CASE RequestDone
    BY <1>8 DEF RequestDone, Goto, MainAt, LeavesRing, Inv, PcInv, ringVars,
       lockVars, mainVars, thrVars
  <1>9. CASE miPointerMove
    <2>1. PICK e \in Events : e.dev = Master /\ EnqueueBegin("main", e, TRUE)
      BY <1>9 DEF miPointerMove
    <2>2. /\ e.dev \in present /\ UNCHANGED <<mainVars, thrVars, pipe, present, setup>>
      BY <1>9, <2>1, Exclusion DEF miPointerMove, Inv, PcInv, mainVars, thrVars
    <2>3. op["main"] = NoOp /\ op["thread"] = NoOp
      <3>1. op["main"] = NoOp
        BY <2>1 DEF EnqueueBegin
      <3> QED
        BY <1>9, <3>1, Exclusion DEF miPointerMove, MainAt, CanLock
    <2> QED
      BY <2>1, <2>2, <2>3 DEF BeginsOne, Actors
  <1>10. CASE BarrierFreeBarrier
    <2>1. PICK e \in Events : e.dev = Master /\ EnqueueBegin("main", e, FALSE)
      BY <1>10 DEF BarrierFreeBarrier
    <2>2. /\ e.dev \in present /\ UNCHANGED <<mainVars, thrVars, pipe, present, setup>>
      BY <1>10, <2>1, Exclusion DEF BarrierFreeBarrier, Inv, PcInv, mainVars, thrVars
    <2>3. op["main"] = NoOp /\ op["thread"] = NoOp
      <3>1. op["main"] = NoOp
        BY <2>1 DEF EnqueueBegin
      <3> QED
        BY <1>10, <3>1, Exclusion DEF BarrierFreeBarrier, MainAt, Inv, OpInv, LockInv, LockedSetups
    <2> QED
      BY <2>1, <2>2, <2>3 DEF BeginsOne, Actors
  <1>11. CASE Enter
    BY <1>11 DEF Enter, Goto, input_lock, CanLock, MainAt, LeavesRing, Inv, PcInv,
       ringVars, lockVars, mainVars, thrVars
  <1>12. CASE TakeEvent
    BY <1>12
  <1>13. CASE EventHandled
    BY <1>13, Exclusion DEF EventHandled, input_lock, CanLock, MainAt, LeavesRing,
       Inv, PcInv, ringVars, lockVars, mainVars, thrVars
  <1>14. CASE Drained
    BY <1>14 DEF Drained, Goto, input_unlock, MainAt, LeavesRing, Inv, PcInv,
       ringVars, lockVars, mainVars, thrVars
  <1>15. CASE ThreadEnqueue
    <2>1. PICK e \in Events : e.dev = reading /\ EnqueueBegin("thread", e, FALSE)
      BY <1>15 DEF ThreadEnqueue
    <2>2. /\ e.dev \in present /\ UNCHANGED <<mainVars, thrVars, pipe, present, setup>>
      BY <1>15, <2>1, Exclusion DEF ThreadEnqueue, Inv, PcInv, mainVars, thrVars
    <2>3. op["main"] = NoOp /\ op["thread"] = NoOp
      <3>1. op["thread"] = NoOp
        BY <2>1 DEF EnqueueBegin
      <3> QED
        BY <1>15, <3>1, Exclusion DEF ThreadEnqueue, Inv, LockInv
    <2> QED
      BY <2>1, <2>2, <2>3 DEF BeginsOne, Actors
  <1>16. CASE InputReadyDone
    BY <1>16 DEF InputReadyDone, input_unlock, LeavesRing, Inv, PcInv, ringVars,
       lockVars, mainVars, thrVars
  <1>17. CASE InputThreadFillPipe
    BY <1>17 DEF InputThreadFillPipe, LeavesRing, Inv, PcInv, ringVars, lockVars,
       mainVars, thrVars
  <1>18. CASE InputThreadPipeNotify
    BY <1>18 DEF InputThreadPipeNotify, LeavesRing, Inv, PcInv, ringVars, lockVars,
       mainVars, thrVars
  <1>19. ASSUME NEW d \in Slaves, Plug(d)
        PROVE  LeavesRing \/ BeginsOne \/ TakeEvent \/ (\E b \in Actors : EnqueueEnd(b))
    BY <1>19 DEF Plug, CanLock, MainAt, LeavesRing, Inv, PcInv, ringVars, lockVars,
       mainVars, thrVars
  <1>20. ASSUME NEW d \in Slaves, Unplug(d)
        PROVE  LeavesRing \/ BeginsOne \/ TakeEvent \/ (\E b \in Actors : EnqueueEnd(b))
    BY <1>20 DEF Unplug, input_lock, CanLock, MainAt, LeavesRing, Inv, PcInv,
       ringVars, lockVars, mainVars, thrVars
  <1>21. ASSUME NEW d \in Slaves, InputReady(d)
        PROVE  LeavesRing \/ BeginsOne \/ TakeEvent \/ (\E b \in Actors : EnqueueEnd(b))
    BY <1>21 DEF InputReady, input_lock, CanLock, LeavesRing, Inv, PcInv, ringVars,
       lockVars, mainVars, thrVars
  <1>22. ASSUME NEW a \in Actors, EnqueueEnd(a)
        PROVE  LeavesRing \/ BeginsOne \/ TakeEvent \/ (\E b \in Actors : EnqueueEnd(b))
    BY <1>22
  <1>23. CASE UNCHANGED vars
    BY <1>23 DEF vars, ringVars, lockVars, mainVars, thrVars, LeavesRing, Inv, PcInv, ringVars, lockVars, mainVars, thrVars
  <1> QED
    BY <1>1, <1>2, <1>3, <1>4, <1>5, <1>6, <1>7, <1>8, <1>9, <1>10, <1>11,
       <1>12, <1>13, <1>14, <1>15, <1>16, <1>17, <1>18, <1>19, <1>20, <1>21,
       <1>22, <1>23 DEF Next, InputThread, Main

\* mieqEnqueue is never interrupted.
LEMMA NeverStep ==
    ASSUME Inv, LockedSetups, [Next]_vars
    PROVE  NeverInterrupted'
  <1> USE DEF Inv
  <1>1. CASE LeavesRing
    BY <1>1 DEF LeavesRing, NeverInterrupted, Merges, PrevSlot, mieqNumEnqueued, ringVars
  <1>2. CASE BeginsOne
    <2>1. PICK a \in Actors, e \in Events, locked \in BOOLEAN : EnqueueBegin(a, e, locked)
      BY <1>2 DEF BeginsOne
    <2>2. /\ op'[a] # NoOp /\ op'[a].event = e
          /\ \A b \in Actors \ {a} : op'[b] = op[b]
          /\ Merges(e) => op'[a].slot = PrevSlot(tail) /\ UNCHANGED ringVars
          /\ ~Merges(e) => /\ op'[a].slot = tail'
                           /\ \/ UNCHANGED ringVars /\ mieqNumEnqueued + 1 # nevents
                              \/ mieqGrowQueue /\ mieqNumEnqueued + 1 = nevents
      BY <2>1, BeginSets
    <2>3. \A b \in Actors \ {a} : op'[b] = NoOp
      BY <1>2, <2>2 DEF BeginsOne
    <2>4. \A x : UNCHANGED ringVars => (Merges(x)' <=> Merges(x))
      BY DEF Merges, ringVars
    <2>5. CASE Merges(e)
      <3>1. Merges(op[a].event)' /\ op'[a].slot = PrevSlot(tail)'
        BY <2>2, <2>5 DEF Merges, PrevSlot, ringVars
      <3> QED
        BY <2>3, <3>1 DEF NeverInterrupted
    <2>6. CASE ~Merges(e)
      <3>1. ~Merges(e)'
        <4>1. CASE UNCHANGED ringVars
          BY <2>6, <4>1 DEF Merges, ringVars
        <4>2. CASE mieqGrowQueue
          BY <2>6, <4>2, GrowKeeps DEF Merges, mieqGrowQueue
        <4> QED
          BY <2>2, <2>6, <4>1, <4>2
      <3>2. (mieqNumEnqueued + 1 < nevents)'
        <4>1. mieqNumEnqueued \in 0 .. (nevents - 1) /\ nevents \in Nat
          BY NumRange DEF TypeOK
        <4>2. CASE UNCHANGED ringVars /\ mieqNumEnqueued + 1 # nevents
          <5>1. mieqNumEnqueued' = mieqNumEnqueued /\ nevents' = nevents
            BY <4>2 DEF ringVars, mieqNumEnqueued
          <5> QED
            BY <4>1, <4>2, <5>1
        <4>3. CASE mieqGrowQueue /\ mieqNumEnqueued + 1 = nevents
          <5>1. mieqNumEnqueued' = mieqNumEnqueued /\ nevents' = 2 * nevents
            BY <4>3, GrowKeeps DEF mieqGrowQueue
          <5> QED
            BY <4>1, <4>3, <5>1
        <4> QED
          BY <2>2, <2>6, <4>2, <4>3
      <3>3. op'[a].slot = tail'
        BY <2>2, <2>6
      <3>4. ~Merges(op[a].event)'
        BY <2>2, <3>1 DEF Merges
      <3> QED
        BY <2>3, <3>2, <3>3, <3>4 DEF NeverInterrupted
    <2> QED
      BY <2>5, <2>6
  <1>3. CASE TakeEvent
    <2>1. owner = "main" /\ op["main"] = NoOp /\ op' = op
      BY <1>3, Exclusion DEF TakeEvent, MainAt
    <2>2. \A a \in Actors : op'[a] = NoOp
      BY <2>1, Exclusion DEF Actors
    <2> QED
      BY <2>2 DEF NeverInterrupted
  <1>4. ASSUME NEW a \in Actors, EnqueueEnd(a)
        PROVE  NeverInterrupted'
    <2>1. op[a] # NoOp /\ op' = [op EXCEPT ![a] = NoOp]
      BY <1>4 DEF EnqueueEnd
    <2>2. \A b \in Actors : op'[b] = NoOp
      BY <2>1 DEF NeverInterrupted, TypeOK
    <2> QED
      BY <2>2 DEF NeverInterrupted
  <1> QED
    BY <1>1, <1>2, <1>3, <1>4, StepKinds

\* An enqueue that ends replaces the last event by a motion of the same
\* device, or adds an event behind it.
LEMMA EndKinds ==
    ASSUME Inv, NEW a \in Actors, EnqueueEnd(a)
    PROVE  /\ op[a].event \in Events /\ op[a].event.dev \in present
           /\ \/ /\ Merges(op[a].event) /\ op[a].slot = PrevSlot(tail) /\ head # tail
              \/ /\ ~Merges(op[a].event)
                 /\ op[a].slot = tail /\ mieqNumEnqueued + 1 < nevents
  BY DEF Inv, OpInv, NeverInterrupted, EnqueueEnd, Merges

\* What is queued after a step was queued before or is enqueued by it.
LEMMA RingStep ==
    ASSUME Inv, LockedSetups, [Next]_vars
    PROVE  RingInv' /\ NoDanglingDevice'
  <1> DEFINE n == mieqNumEnqueued
  <1>1. /\ n \in 0 .. (nevents - 1) /\ nevents \in Nat
        /\ n = 0 <=> head = tail
    BY NumRange DEF TypeOK, Inv
  <1>2. /\ \A i \in 0 .. (n - 1) : At(i) \in Events /\ At(i).dev \in present
        /\ head # tail => lastMotion = MotionOf(events[PrevSlot(tail)])
        /\ current # NoEvent => current.dev \in present
    BY DEF Inv, RingInv, NoDanglingDevice, At
  <1>3. SUFFICES /\ \A i \in 0 .. (n' - 1) : At(i)' \in Events /\ At(i)'.dev \in present'
                 /\ head' # tail' => lastMotion' = MotionOf(events'[PrevSlot(tail)'])
                 /\ current' # NoEvent => current'.dev \in present'
    BY DEF RingInv, NoDanglingDevice, At, MotionOf
  <1>4. CASE LeavesRing
    <2>1. n' = n /\ PrevSlot(tail)' = PrevSlot(tail) /\ \A i : At(i)' = At(i)
      BY <1>4 DEF LeavesRing, ringVars, mieqNumEnqueued, PrevSlot, At, SlotAt
    <2>2. present \subseteq present' \/ (n = 0 /\ current = NoEvent)
      BY <1>1, <1>4 DEF LeavesRing
    <2> QED
      BY <1>1, <1>2, <1>4, <2>1, <2>2 DEF LeavesRing, ringVars
  <1>5. CASE BeginsOne
    <2>1. UNCHANGED ringVars \/ mieqGrowQueue
      BY <1>5, BeginSets DEF BeginsOne
    <2>2. current' = current /\ present' = present
      BY <1>5 DEF BeginsOne, mainVars
    <2>3. CASE UNCHANGED ringVars
      <3>1. n' = n /\ PrevSlot(tail)' = PrevSlot(tail) /\ \A i : At(i)' = At(i)
        BY <2>3 DEF ringVars, mieqNumEnqueued, PrevSlot, At, SlotAt
      <3> QED
        BY <1>2, <2>2, <2>3, <3>1 DEF ringVars
    <2>4. CASE mieqGrowQueue
      BY <1>2, <2>2, <2>4, GrowKeeps DEF mieqGrowQueue, Inv
    <2> QED
      BY <2>1, <2>3, <2>4
  <1>6. CASE TakeEvent
    <2>1. /\ n > 0 /\ n' = n - 1 /\ current' = At(0)
          /\ \A i \in 0 .. (n - 2) : At(i)' = At(i + 1)
          /\ events' = events /\ PrevSlot(tail)' = PrevSlot(tail)
      BY <1>6, TakeShifts DEF Inv
    <2>2. head # tail /\ lastMotion' = lastMotion /\ present' = present
      BY <1>6 DEF TakeEvent
    <2>3. \A i \in 0 .. (n - 2) : i + 1 \in 0 .. (n - 1)
      BY <1>1
    <2>4. 0 \in 0 .. (n - 1) /\ n' - 1 = n - 2
      BY <1>1, <2>1
    <2> QED
      BY <1>2, <2>1, <2>2, <2>3, <2>4
  <1>7. ASSUME NEW a \in Actors, EnqueueEnd(a)
        PROVE  /\ \A i \in 0 .. (n' - 1) : At(i)' \in Events /\ At(i)'.dev \in present'
               /\ head' # tail' => lastMotion' = MotionOf(events'[PrevSlot(tail)'])
               /\ current' # NoEvent => current'.dev \in present'
    <2>1. /\ op[a].event \in Events /\ op[a].event.dev \in present
          /\ lastMotion' = MotionOf(op[a].event)
          /\ current' = current /\ present' = present
      BY <1>7, EndKinds DEF EnqueueEnd, mainVars
    <2>2. CASE op[a].slot = tail /\ mieqNumEnqueued + 1 < nevents
      <3>1. /\ n' = n + 1
            /\ \A i \in 0 .. (n - 1) : At(i)' = At(i)
            /\ \A i : i = n => At(i)' = op[a].event
            /\ events'[PrevSlot(tail)'] = op[a].event
        BY <1>7, <2>1, <2>2, EndAppends DEF Inv
      <3>2. \A i \in 0 .. (n' - 1) : i \in 0 .. (n - 1) \/ i = n
        BY <1>1, <3>1
      <3> QED
        BY <1>2, <2>1, <3>1, <3>2
    <2>3. CASE op[a].slot = PrevSlot(tail) /\ head # tail
      <3>1. /\ n' = n
            /\ \A i \in 0 .. (n - 2) : At(i)' = At(i)
            /\ At(n - 1)' = op[a].event
            /\ events'[PrevSlot(tail)'] = op[a].event
        BY <1>7, <2>1, <2>3, EndReplaces DEF Inv
      <3>2. \A i : i = n - 1 => At(i)' = op[a].event
        BY <3>1
      <3>3. \A i \in 0 .. (n' - 1) : i \in 0 .. (n - 1) /\ (i \in 0 .. (n - 2) \/ i = n - 1)
        BY <1>1, <3>1
      <3> QED
        BY <1>2, <2>1, <3>1, <3>2, <3>3
    <2> QED
      BY <1>7, <2>2, <2>3, EndKinds
  <1> QED
    BY <1>4, <1>5, <1>6, <1>7, StepKinds

-----------------------------------------------------------------------------
(* The invariant: types *)

ThreadsTyped ==
    /\ setup \in Setups /\ owner \in Actors \cup {"none"}
    /\ mainPc \in {"Loop", "Poll", "Callbacks", "Serve", "Execute", "Remove",
                   "Enter", "Draining", "Processing"}
    /\ after \in {"Poll", "Execute", "Remove"}
    /\ removing \in Slaves \cup {0} /\ threadPc \in {"Wait", "Reading", "Woken"}
    /\ reading \in Slaves \cup {0} /\ present \subseteq Devices

\* The variables of the threads and the lock keep their types.
LEMMA ThreadsStep ==
    ASSUME Inv, LockedSetups, [Next]_vars
    PROVE  ThreadsTyped'
  <1>1. CASE DispatchLoop
    BY <1>1 DEF DispatchLoop, Goto, ProcessInputEvents, MainAt, Inv, TypeOK,
       ThreadsTyped, Actors, Devices, ringVars, lockVars, mainVars, thrVars
  <1>2. CASE Poll
    BY <1>2 DEF Poll, Goto, MainAt, Inv, TypeOK, ThreadsTyped, Actors, Devices,
       ringVars, lockVars, mainVars, thrVars
  <1>3. CASE DeleteInputDeviceRequest
    BY <1>3 DEF DeleteInputDeviceRequest, input_unlock, MainAt, Inv, TypeOK,
       ThreadsTyped, Actors, Devices, ringVars, lockVars, mainVars, thrVars
  <1>4. CASE ReadDevice
    BY <1>4 DEF ReadDevice, EnqueueBegin, Begin, MainAt, Inv, TypeOK, ThreadsTyped,
       Actors, Devices, ringVars, lockVars, mainVars, thrVars
  <1>5. CASE CallbacksDone
    BY <1>5 DEF CallbacksDone, Goto, MainAt, Inv, TypeOK, ThreadsTyped, Actors,
       Devices, ringVars, lockVars, mainVars, thrVars
  <1>6. CASE Serve
    BY <1>6 DEF Serve, Goto, ProcessInputEvents, MainAt, Inv, TypeOK, ThreadsTyped,
       Actors, Devices, ringVars, lockVars, mainVars, thrVars
  <1>7. CASE UpdateCurrentTime
    BY <1>7 DEF UpdateCurrentTime, ProcessInputEvents, MainAt, Inv, TypeOK,
       ThreadsTyped, Actors, Devices, ringVars, lockVars, mainVars, thrVars
  <1>8. CASE RequestDone
    BY <1>8 DEF RequestDone, Goto, MainAt, Inv, TypeOK, ThreadsTyped, Actors,
       Devices, ringVars, lockVars, mainVars, thrVars
  <1>9. CASE miPointerMove
    BY <1>9 DEF miPointerMove, input_lock, CanLock, EnqueueBegin, Begin, MainAt,
       Inv, TypeOK, ThreadsTyped, Actors, Devices, ringVars, lockVars, mainVars,
       thrVars
  <1>10. CASE BarrierFreeBarrier
    BY <1>10 DEF BarrierFreeBarrier, EnqueueBegin, Begin, MainAt, Inv, TypeOK,
       ThreadsTyped, Actors, Devices, ringVars, lockVars, mainVars, thrVars
  <1>11. CASE Enter
    BY <1>11 DEF Enter, Goto, input_lock, CanLock, MainAt, Inv, TypeOK,
       ThreadsTyped, Actors, Devices, ringVars, lockVars, mainVars, thrVars
  <1>12. CASE TakeEvent
    BY <1>12 DEF TakeEvent, input_unlock, MainAt, Inv, TypeOK, ThreadsTyped, Actors,
       Devices, ringVars, lockVars, mainVars, thrVars
  <1>13. CASE EventHandled
    BY <1>13 DEF EventHandled, input_lock, CanLock, MainAt, Inv, TypeOK,
       ThreadsTyped, Actors, Devices, ringVars, lockVars, mainVars, thrVars
  <1>14. CASE Drained
    BY <1>14 DEF Drained, Goto, input_unlock, MainAt, Inv, TypeOK, ThreadsTyped,
       Actors, Devices, ringVars, lockVars, mainVars, thrVars
  <1>15. CASE ThreadEnqueue
    BY <1>15 DEF ThreadEnqueue, EnqueueBegin, Begin, Inv, TypeOK, ThreadsTyped,
       Actors, Devices, ringVars, lockVars, mainVars, thrVars
  <1>16. CASE InputReadyDone
    BY <1>16 DEF InputReadyDone, input_unlock, Inv, TypeOK, ThreadsTyped, Actors,
       Devices, ringVars, lockVars, mainVars, thrVars
  <1>17. CASE InputThreadFillPipe
    BY <1>17 DEF InputThreadFillPipe, Inv, TypeOK, ThreadsTyped, Actors, Devices,
       ringVars, lockVars, mainVars, thrVars
  <1>18. CASE InputThreadPipeNotify
    BY <1>18 DEF InputThreadPipeNotify, Inv, TypeOK, ThreadsTyped, Actors, Devices,
       ringVars, lockVars, mainVars, thrVars
  <1>19. ASSUME NEW d \in Slaves, Plug(d)
        PROVE  ThreadsTyped'
    BY <1>19 DEF Plug, CanLock, MainAt, Inv, TypeOK, ThreadsTyped, Actors, Devices,
       ringVars, lockVars, mainVars, thrVars
  <1>20. ASSUME NEW d \in Slaves, Unplug(d)
        PROVE  ThreadsTyped'
    BY <1>20 DEF Unplug, input_lock, CanLock, MainAt, Inv, TypeOK, ThreadsTyped,
       Actors, Devices, ringVars, lockVars, mainVars, thrVars
  <1>21. ASSUME NEW d \in Slaves, InputReady(d)
        PROVE  ThreadsTyped'
    BY <1>21 DEF InputReady, input_lock, CanLock, Inv, TypeOK, ThreadsTyped, Actors,
       Devices, ringVars, lockVars, mainVars, thrVars
  <1>22. ASSUME NEW a \in Actors, EnqueueEnd(a)
        PROVE  ThreadsTyped'
    BY <1>22 DEF EnqueueEnd, input_unlock, Inv, TypeOK, ThreadsTyped, Actors,
       Devices, ringVars, lockVars, mainVars, thrVars
  <1>23. CASE UNCHANGED vars
    BY <1>23 DEF vars, ringVars, lockVars, mainVars, thrVars, Inv, TypeOK, ThreadsTyped, Actors, Devices, ringVars, lockVars, mainVars, thrVars
  <1> QED
    BY <1>1, <1>2, <1>3, <1>4, <1>5, <1>6, <1>7, <1>8, <1>9, <1>10, <1>11,
       <1>12, <1>13, <1>14, <1>15, <1>16, <1>17, <1>18, <1>19, <1>20, <1>21,
       <1>22, <1>23 DEF Next, InputThread, Main

\* The number of bytes in the pipe never exceeds its size.
LEMMA PipeStep ==
    ASSUME Inv, LockedSetups, [Next]_vars
    PROVE  pipe' \in 0 .. PipeSize
  <1>1. pipe \in 0 .. PipeSize /\ PipeSize \in Nat /\ ReadSize \in Nat
    BY ConstantsAssumption DEF Inv, TypeOK
  <1>2. CASE Poll
    BY <1>1, <1>2 DEF Poll
  <1>3. CASE InputThreadFillPipe
    BY <1>1, <1>3 DEF InputThreadFillPipe
  <1>4. CASE pipe' = pipe
    BY <1>1, <1>4
  <1>5. \/ Poll \/ InputThreadFillPipe \/ pipe' = pipe
    BY DEF Next, InputThread, Main, vars, DispatchLoop, DeleteInputDeviceRequest,
       ReadDevice, CallbacksDone, Serve, UpdateCurrentTime, InputThreadPipeNotify, RequestDone, miPointerMove,
       BarrierFreeBarrier, Enter, TakeEvent, EventHandled, Drained, Plug, Unplug,
       InputReady, ThreadEnqueue, InputReadyDone, EnqueueEnd
  <1> QED
    BY <1>2, <1>3, <1>4, <1>5

\* The ring and the enqueues in progress keep their types.
LEMMA RingTypeStep ==
    ASSUME Inv, LockedSetups, [Next]_vars
    PROVE  /\ nevents' \in Nat \ {0}
           /\ head' \in 0 .. (nevents' - 1) /\ tail' \in 0 .. (nevents' - 1)
           /\ events' \in [0 .. (nevents' - 1) -> Events \cup {NoEvent}]
           /\ lastMotion' \in Devices \cup {0}
           /\ op' \in [Actors -> [event : Events \cup {NoEvent}, slot : Nat,
                                  locked : BOOLEAN, grown : BOOLEAN]]
           /\ current' \in Events \cup {NoEvent}
  <1>1. /\ nevents \in Nat \ {0}
        /\ head \in 0 .. (nevents - 1) /\ tail \in 0 .. (nevents - 1)
        /\ events \in [0 .. (nevents - 1) -> Events \cup {NoEvent}]
        /\ lastMotion \in Devices \cup {0}
        /\ op \in [Actors -> [event : Events \cup {NoEvent}, slot : Nat,
                              locked : BOOLEAN, grown : BOOLEAN]]
        /\ current \in Events \cup {NoEvent}
    BY DEF Inv, TypeOK
  <1>2. CASE LeavesRing
    BY <1>1, <1>2 DEF LeavesRing, ringVars
  <1>3. CASE BeginsOne
    <2>1. /\ UNCHANGED ringVars \/ mieqGrowQueue
          /\ op' \in [Actors -> [event : Events \cup {NoEvent}, slot : Nat,
                                 locked : BOOLEAN, grown : BOOLEAN]]
      BY <1>3, BeginSets DEF BeginsOne
    <2>2. current' = current
      BY <1>3 DEF BeginsOne, mainVars
    <2>3. CASE UNCHANGED ringVars
      BY <1>1, <2>1, <2>2, <2>3 DEF ringVars
    <2>4. CASE mieqGrowQueue
      BY <1>1, <2>1, <2>2, <2>4, GrowKeeps DEF mieqGrowQueue, Inv
    <2> QED
      BY <2>1, <2>3, <2>4
  <1>4. CASE TakeEvent
    <2>1. current' \in Events
      BY <1>4, TakeShifts, NumRange DEF Inv, RingInv
    <2>2. NextSlot(head) \in 0 .. (nevents - 1)
      BY <1>1, SlotRange DEF Inv
    <2> QED
      BY <1>1, <1>4, <2>1, <2>2 DEF TakeEvent
  <1>5. ASSUME NEW a \in Actors, EnqueueEnd(a)
        PROVE  /\ nevents' \in Nat \ {0}
               /\ head' \in 0 .. (nevents' - 1) /\ tail' \in 0 .. (nevents' - 1)
               /\ events' \in [0 .. (nevents' - 1) -> Events \cup {NoEvent}]
               /\ lastMotion' \in Devices \cup {0}
               /\ op' \in [Actors -> [event : Events \cup {NoEvent}, slot : Nat,
                                      locked : BOOLEAN, grown : BOOLEAN]]
               /\ current' \in Events \cup {NoEvent}
    <2>1. /\ head' = head /\ nevents' = nevents /\ current' = current
          /\ tail' = NextSlot(op[a].slot)
          /\ events' = [events EXCEPT ![op[a].slot] = op[a].event]
          /\ lastMotion' = MotionOf(op[a].event)
          /\ op' = [op EXCEPT ![a] = NoOp]
      BY <1>5 DEF EnqueueEnd, mainVars
    <2>2. op[a].event \in Events /\ (op[a].slot = tail \/ op[a].slot = PrevSlot(tail))
      BY <1>5, EndKinds
    <2>3. PrevSlot(tail) \in 0 .. (nevents - 1)
      BY <1>1, SlotRange DEF Inv
    <2>4. op[a].slot \in 0 .. (nevents - 1)
      BY <1>1, <2>2, <2>3
    <2>5. NextSlot(op[a].slot) \in 0 .. (nevents - 1)
      BY <2>4, SlotRange DEF Inv
    <2>6. MotionOf(op[a].event) \in Devices \cup {0}
      BY <2>2 DEF MotionOf, Events
    <2>7. NoOp \in [event : Events \cup {NoEvent}, slot : Nat,
                    locked : BOOLEAN, grown : BOOLEAN]
      BY DEF NoOp
    <2> QED
      BY <1>1, <2>1, <2>2, <2>4, <2>5, <2>6, <2>7
  <1> QED
    BY <1>2, <1>3, <1>4, <1>5, StepKinds

-----------------------------------------------------------------------------
(* The theorems *)

LEMMA InitInv ==
    ASSUME Init
    PROVE  Inv
  <1>1. TypeOK
    BY ConstantsAssumption DEF Init, TypeOK, NoOp, Devices, Actors
  <1>2. mieqNumEnqueued = 0 /\ head = tail
    BY DEF Init, mieqNumEnqueued
  <1>3. RingInv /\ NoDanglingDevice
    BY <1>2 DEF RingInv, NoDanglingDevice, Init
  <1>4. LockInv
    BY DEF Init, LockInv, MainDepth, NoOp, Actors
  <1>5. OpInv /\ NeverInterrupted
    <2>1. op["main"] = NoOp /\ op["thread"] = NoOp
      BY DEF Init, Actors
    <2> QED
      BY <2>1 DEF Init, OpInv, NeverInterrupted, Actors
  <1>6. PcInv
    BY DEF Init, PcInv, Devices
  <1> QED
    BY <1>1, <1>3, <1>4, <1>5, <1>6 DEF Inv

LEMMA InvNext ==
    ASSUME LockedSetups, Inv, [Next]_vars
    PROVE  Inv'
  <1>1. LockInv' /\ OpInv' /\ PcInv' /\ RingInv' /\ NoDanglingDevice' /\ NeverInterrupted'
    BY LockStep, OpStep, PcStep, RingStep, NeverStep
  <1>2. ThreadsTyped' /\ pipe' \in 0 .. PipeSize
    BY ThreadsStep, PipeStep
  <1>3. depth' \in 0 .. 3
    <2>1. owner' \in Actors \cup {"none"}
      BY <1>2 DEF ThreadsTyped
    <2>2. MainDepth' \in 0 .. 3
      BY DEF MainDepth
    <2> QED
      BY <1>1, <2>1, <2>2 DEF LockInv, Actors
  <1>4. TypeOK'
    BY <1>2, <1>3, RingTypeStep DEF TypeOK, ThreadsTyped
  <1> QED
    BY <1>1, <1>4 DEF Inv

\* The inductive invariant holds in every state of the queue and its threads.
THEOREM InvHolds ==
    ASSUME LockedSetups
    PROVE  Spec => []Inv
<1>1. Init => Inv
  BY InitInv
<1>2. Inv /\ [Next]_vars => Inv'
  BY InvNext
<1> QED
  BY <1>1, <1>2, PTL DEF Spec

\* Every variable keeps its type: head and tail stay in the ring, and the
\* lock is never given up more often than it was taken (mieq.c, inputthread.c).
THEOREM TypesHold ==
    ASSUME LockedSetups
    PROVE  Spec => []TypeOK
<1>1. Inv => TypeOK
  BY DEF Inv
<1> QED
  BY <1>1, InvHolds, PTL

\* mieqEnqueue is never interrupted by another call of it, and the slot it
\* chose is still right when it is filled, in a server with an input thread
\* where every caller has the lock and in every server without one.
THEOREM NeverInterruptedHolds ==
    ASSUME LockedSetups
    PROVE  Spec => []NeverInterrupted
<1>1. Inv => NeverInterrupted
  BY DEF Inv
<1> QED
  BY <1>1, InvHolds, PTL

\* No event of a device that was removed is queued or handled (remove_device).
THEOREM NoDeviceDangles ==
    ASSUME LockedSetups
    PROVE  Spec => []NoDanglingDevice
<1>1. Inv => NoDanglingDevice
  BY DEF Inv
<1> QED
  BY <1>1, InvHolds, PTL

\* The main thread goes to sleep, and events arrive while it sleeps, only with
\* a wake-up under way.
LEMMA WakeupStep ==
    ASSUME Inv, LockedSetups, NoLostWakeup, [Next]_vars
    PROVE  NoLostWakeup'
  <1>1. CASE DispatchLoop
    <2>1. op["thread"].grown => op["thread"] # NoOp
      BY DEF NoOp
    <2> QED
      BY <1>1, <2>1 DEF DispatchLoop, SeesPending, SeesNothing, Goto, ProcessInputEvents,
         NoLostWakeup, Inv, OpInv, ringVars, thrVars
  <1>2. CASE Poll
    BY <1>2 DEF Poll, Goto, MainAt, NoLostWakeup, Inv, OpInv, LockInv, PcInv,
       ringVars, lockVars, mainVars, thrVars
  <1>3. CASE DeleteInputDeviceRequest
    BY <1>3 DEF DeleteInputDeviceRequest, input_unlock, MainAt, NoLostWakeup, Inv,
       OpInv, LockInv, PcInv, ringVars, lockVars, mainVars, thrVars
  <1>4. CASE ReadDevice
    BY <1>4 DEF ReadDevice, EnqueueBegin, Begin, MainAt, NoLostWakeup, Inv, OpInv,
       LockInv, PcInv, ringVars, lockVars, mainVars, thrVars
  <1>5. CASE CallbacksDone
    <2>1. op["thread"].grown => op["thread"] # NoOp
      BY DEF NoOp
    <2> QED
      BY <1>5, <2>1 DEF CallbacksDone, SeesPending, SeesNothing, Goto, NoLostWakeup, Inv,
         OpInv, ringVars, thrVars
  <1>6. CASE Serve
    BY <1>6 DEF Serve, Goto, ProcessInputEvents, MainAt, NoLostWakeup, Inv, OpInv,
       LockInv, PcInv, ringVars, lockVars, mainVars, thrVars
  <1>7. CASE UpdateCurrentTime
    BY <1>7 DEF UpdateCurrentTime, ProcessInputEvents, MainAt, NoLostWakeup, Inv,
       OpInv, LockInv, PcInv, ringVars, lockVars, mainVars, thrVars
  <1>8. CASE RequestDone
    BY <1>8 DEF RequestDone, Goto, MainAt, NoLostWakeup, Inv, OpInv, LockInv, PcInv,
       ringVars, lockVars, mainVars, thrVars
  <1>9. CASE miPointerMove
    BY <1>9 DEF miPointerMove, input_lock, CanLock, EnqueueBegin, Begin, MainAt,
       NoLostWakeup, Inv, OpInv, LockInv, PcInv, ringVars, lockVars, mainVars,
       thrVars
  <1>10. CASE BarrierFreeBarrier
    BY <1>10 DEF BarrierFreeBarrier, EnqueueBegin, Begin, MainAt, NoLostWakeup, Inv,
       OpInv, LockInv, PcInv, ringVars, lockVars, mainVars, thrVars
  <1>11. CASE Enter
    BY <1>11 DEF Enter, Goto, input_lock, CanLock, MainAt, NoLostWakeup, Inv, OpInv,
       LockInv, PcInv, ringVars, lockVars, mainVars, thrVars
  <1>12. CASE TakeEvent
    BY <1>12 DEF TakeEvent, input_unlock, MainAt, NoLostWakeup, Inv, OpInv, LockInv,
       PcInv, ringVars, lockVars, mainVars, thrVars
  <1>13. CASE EventHandled
    BY <1>13 DEF EventHandled, input_lock, CanLock, MainAt, NoLostWakeup, Inv,
       OpInv, LockInv, PcInv, ringVars, lockVars, mainVars, thrVars
  <1>14. CASE Drained
    BY <1>14 DEF Drained, Goto, input_unlock, MainAt, NoLostWakeup, Inv, OpInv,
       LockInv, PcInv, ringVars, lockVars, mainVars, thrVars
  <1>15. CASE ThreadEnqueue
    BY <1>15 DEF ThreadEnqueue, EnqueueBegin, Begin, NoLostWakeup, Inv, OpInv,
       LockInv, PcInv, ringVars, lockVars, mainVars, thrVars
  <1>16. CASE InputReadyDone
    BY <1>16 DEF InputReadyDone, input_unlock, NoLostWakeup, Inv, OpInv, LockInv,
       PcInv, ringVars, lockVars, mainVars, thrVars
  <1>17. CASE InputThreadFillPipe
    BY <1>17 DEF InputThreadFillPipe, NoLostWakeup, Inv, TypeOK, ringVars, mainVars
  <1>18. CASE InputThreadPipeNotify
    BY <1>18 DEF InputThreadPipeNotify, NoLostWakeup, Inv, OpInv, LockInv, PcInv,
       ringVars, lockVars, mainVars, thrVars
  <1>19. ASSUME NEW d \in Slaves, Plug(d)
        PROVE  NoLostWakeup'
    BY <1>19 DEF Plug, CanLock, MainAt, NoLostWakeup, Inv, OpInv, LockInv, PcInv,
       ringVars, lockVars, mainVars, thrVars
  <1>20. ASSUME NEW d \in Slaves, Unplug(d)
        PROVE  NoLostWakeup'
    BY <1>20 DEF Unplug, input_lock, CanLock, MainAt, NoLostWakeup, Inv, OpInv,
       LockInv, PcInv, ringVars, lockVars, mainVars, thrVars
  <1>21. ASSUME NEW d \in Slaves, InputReady(d)
        PROVE  NoLostWakeup'
    BY <1>21 DEF InputReady, input_lock, CanLock, NoLostWakeup, Inv, OpInv, LockInv,
       PcInv, ringVars, lockVars, mainVars, thrVars
  <1>22. ASSUME NEW a \in Actors, EnqueueEnd(a)
        PROVE  NoLostWakeup'
    BY <1>22, Exclusion DEF EnqueueEnd, NoLostWakeup, Inv, OpInv, Actors, mainVars, thrVars
  <1>23. CASE UNCHANGED vars
    BY <1>23 DEF vars, ringVars, lockVars, mainVars, thrVars, NoLostWakeup, Inv, OpInv, LockInv, PcInv, ringVars, lockVars, mainVars, thrVars
  <1> QED
    BY <1>1, <1>2, <1>3, <1>4, <1>5, <1>6, <1>7, <1>8, <1>9, <1>10, <1>11,
       <1>12, <1>13, <1>14, <1>15, <1>16, <1>17, <1>18, <1>19, <1>20, <1>21,
       <1>22, <1>23 DEF Next, InputThread, Main

\* The main thread never sleeps in its poll on a queue with events in it,
\* unless it is about to be woken (Dispatch, WaitForSomething, InputReady).
THEOREM NoWakeupIsLost ==
    ASSUME LockedSetups
    PROVE  Spec => []NoLostWakeup
<1>1. Init => Inv /\ NoLostWakeup
  BY InitInv DEF Init, NoLostWakeup
<1>2. Inv /\ NoLostWakeup /\ [Next]_vars => (Inv /\ NoLostWakeup)'
  BY InvNext, WakeupStep
<1> QED
  BY <1>1, <1>2, PTL DEF Spec

-----------------------------------------------------------------------------
(* The ring implements the abstract queue *)

\* The queued events as a sequence, the first of them at the head.
Queue == [i \in 1 .. mieqNumEnqueued |-> events[SlotAt(i - 1)]]

LEMMA QueueTyped ==
    ASSUME Inv
    PROVE  /\ Queue \in Seq(Events) /\ Len(Queue) = mieqNumEnqueued
           /\ mieqNumEnqueued \in Nat
           /\ \A i \in 1 .. mieqNumEnqueued : Queue[i] = At(i - 1)
           /\ Queue = <<>> <=> head = tail
           /\ head # tail => Queue[mieqNumEnqueued] = events[PrevSlot(tail)]
  <1>1. /\ mieqNumEnqueued \in Nat
        /\ mieqNumEnqueued = 0 <=> head = tail
    BY NumRange DEF Inv, TypeOK
  <1>2. \A i \in 1 .. mieqNumEnqueued : i - 1 \in 0 .. (mieqNumEnqueued - 1)
    BY <1>1
  <1>3. \A i \in 1 .. mieqNumEnqueued : Queue[i] = At(i - 1) /\ At(i - 1) \in Events
    BY <1>2 DEF Queue, At, Inv, RingInv
  <1>4. Queue \in [1 .. mieqNumEnqueued -> Events]
    BY <1>3 DEF Queue
  <1>5. Queue \in Seq(Events) /\ Len(Queue) = mieqNumEnqueued
    BY <1>1, <1>4
  <1>6. Queue = <<>> <=> head = tail
    BY <1>1, <1>5
  <1>7. head # tail => Queue[mieqNumEnqueued] = events[PrevSlot(tail)]
    BY <1>1, <1>3, SlotOfTail DEF At, Inv
  <1> QED
    BY <1>1, <1>3, <1>5, <1>6, <1>7

\* An event is merged exactly if it supersedes the last of the sequence.
LEMMA MergeSupersedes ==
    ASSUME Inv, NEW e \in Events
    PROVE  Merges(e) <=> EQ!Supersedes(e, Queue)
  <1>1. CASE head = tail
    BY <1>1, QueueTyped DEF Merges, EQ!Supersedes
  <1>2. CASE head # tail
    <2>1. /\ Queue # <<>> /\ Len(Queue) = mieqNumEnqueued
          /\ lastMotion = MotionOf(Queue[Len(Queue)])
      BY <1>2, QueueTyped DEF Inv, RingInv, MotionOf
    <2>2. e.dev # 0
      BY ConstantsAssumption DEF Events, Devices
    <2>3. Merges(e) <=> e.motion /\ e.dev = MotionOf(Queue[Len(Queue)])
      BY <1>2, <2>1 DEF Merges
    <2> QED
      BY <2>1, <2>2, <2>3 DEF MotionOf, EQ!Supersedes
  <1> QED
    BY <1>1, <1>2

\* Every step is one of the abstract queue or leaves it alone.
LEMMA StepImplements ==
    ASSUME Inv, LockedSetups, [Next]_vars
    PROVE  [EQ!Next]_<<Queue, current>>
  <1> DEFINE n == mieqNumEnqueued
  <1>1. /\ Queue \in Seq(Events) /\ Len(Queue) = n /\ n \in Nat
        /\ \A i \in 1 .. n : Queue[i] = At(i - 1)
        /\ Queue = <<>> <=> head = tail
    BY QueueTyped
  <1>2. Queue' = [i \in 1 .. n' |-> At(i - 1)'] /\ Queue = [i \in 1 .. n |-> At(i - 1)]
    BY DEF Queue, At
  <1>3. CASE LeavesRing
    <2>1. Queue' = Queue
      BY <1>3 DEF LeavesRing, ringVars, Queue, mieqNumEnqueued, SlotAt
    <2>2. UNCHANGED <<Queue, current>> \/ EQ!Handled
      BY <1>3, <2>1 DEF LeavesRing, EQ!Handled, Queue
    <2> QED
      BY <2>2 DEF EQ!Next
  <1>4. CASE BeginsOne
    <2>1. (UNCHANGED ringVars \/ mieqGrowQueue) /\ current' = current
      BY <1>4, BeginSets DEF BeginsOne, mainVars
    <2>2. CASE UNCHANGED ringVars
      BY <2>1, <2>2 DEF ringVars, Queue, mieqNumEnqueued, SlotAt
    <2>3. CASE mieqGrowQueue
      <3>1. n' = n /\ \A i \in 0 .. (n - 1) : At(i)' = At(i)
        BY <2>3, GrowKeeps DEF Inv
      <3>2. \A i \in 1 .. n : i - 1 \in 0 .. (n - 1)
        BY <1>1
      <3>3. \A i \in 1 .. n : At(i - 1)' = At(i - 1)
        BY <3>1, <3>2
      <3>4. Queue' = Queue
        BY <1>2, <3>1, <3>3
      <3> QED
        BY <2>1, <3>4
    <2> QED
      BY <2>1, <2>2, <2>3
  <1>5. CASE TakeEvent
    <2>1. /\ n > 0 /\ n' = n - 1 /\ current' = At(0)
          /\ \A i \in 0 .. (n - 2) : At(i)' = At(i + 1)
      BY <1>5, TakeShifts DEF Inv
    <2>2. current = NoEvent /\ Queue # <<>>
      BY <1>1, <1>5 DEF TakeEvent, MainAt, Inv, PcInv
    <2>3. current' = Head(Queue)
      BY <1>1, <2>1, <2>2
    <2>4. Queue' = [i \in 1 .. (n - 1) |-> Queue[i + 1]]
      <3>1. \A i \in 1 .. (n - 1) : At(i - 1)' = Queue[i + 1]
        BY <1>1, <2>1
      <3> QED
        BY <1>2, <2>1, <3>1
    <2>5. Queue' = Tail(Queue)
      <3>1. Tail(Queue) \in Seq(Events) /\ Len(Tail(Queue)) = n - 1
        BY <1>1, <2>2
      <3>2. \A i \in 1 .. (n - 1) : Tail(Queue)[i] = Queue[i + 1]
        BY <1>1, <2>2
      <3>3. [i \in 1 .. (n - 1) |-> Queue[i + 1]] \in Seq(Events)
        <4>1. [i \in 1 .. (n - 1) |-> Queue[i + 1]] \in [1 .. (n - 1) -> Events]
          BY <1>1
        <4> QED
          BY <1>1, <2>1, <4>1
      <3>4. /\ Len(Queue') = n - 1 /\ Queue' \in Seq(Events)
            /\ \A i \in 1 .. (n - 1) : Queue'[i] = Tail(Queue)[i]
        BY <1>1, <2>1, <2>4, <3>2, <3>3
      <3> QED
        BY <3>1, <3>4, SeqEqual
    <2> QED
      BY <2>2, <2>3, <2>5 DEF EQ!Next, EQ!Take, Queue
  <1>6. ASSUME NEW a \in Actors, EnqueueEnd(a)
        PROVE  [EQ!Next]_<<Queue, current>>
    <2> DEFINE e == op[a].event
    <2>1. e \in Events /\ current' = current
      BY <1>6, EndKinds DEF EnqueueEnd, mainVars
    <2>2. CASE Merges(e) /\ op[a].slot = PrevSlot(tail) /\ head # tail
      <3>1. n' = n /\ (\A i \in 0 .. (n - 2) : At(i)' = At(i)) /\ At(n - 1)' = e
        BY <1>6, <2>1, <2>2, EndReplaces DEF Inv
      <3>2. \A i \in 1 .. n : At(i - 1)' = [Queue EXCEPT ![n] = e][i]
        <4>1. \A i : i = n - 1 => At(i)' = e
          BY <3>1
        <4>2. \A i \in 1 .. n : i = n \/ i - 1 \in 0 .. (n - 2)
          BY <1>1
        <4> QED
          BY <1>1, <3>1, <4>1, <4>2
      <3>3. Queue' = [Queue EXCEPT ![Len(Queue)] = e]
        BY <1>1, <1>2, <3>1, <3>2
      <3>4. EQ!Supersedes(e, Queue)
        BY <2>1, <2>2, MergeSupersedes
      <3> QED
        BY <2>1, <3>3, <3>4 DEF EQ!Next, EQ!Post, Queue
    <2>3. CASE ~Merges(e) /\ op[a].slot = tail /\ mieqNumEnqueued + 1 < nevents
      <3>1. /\ n' = n + 1 /\ \A i \in 0 .. (n - 1) : At(i)' = At(i)
            /\ \A i : i = n => At(i)' = e
        BY <1>6, <2>1, <2>3, EndAppends DEF Inv
      <3>2. \A i \in 1 .. (n + 1) : At(i - 1)' = Append(Queue, e)[i]
        <4>1. \A i \in 1 .. (n + 1) : i - 1 = n \/ i - 1 \in 0 .. (n - 1)
          BY <1>1
        <4> QED
          BY <1>1, <2>1, <3>1, <4>1
      <3>3. Queue' = Append(Queue, e)
        BY <1>1, <1>2, <2>1, <3>1, <3>2
      <3>4. ~EQ!Supersedes(e, Queue)
        BY <2>1, <2>3, MergeSupersedes
      <3> QED
        BY <2>1, <3>3, <3>4 DEF EQ!Next, EQ!Post, Queue
    <2> QED
      BY <1>6, <2>2, <2>3, EndKinds
  <1> QED
    BY <1>3, <1>4, <1>5, <1>6, StepKinds

\* The ring with its growth, its merging and its two threads is a first-in
\* first-out queue (mieqEnqueue, mieqGrowQueue, mieqProcessInputEvents).
THEOREM RingImplements ==
    ASSUME LockedSetups
    PROVE  Spec => Implements
<1>1. Init => EQ!Init
  <2>1. ASSUME Init
        PROVE  EQ!Init
    <3>1. Queue = <<>>
      BY <2>1, InitInv, QueueTyped DEF Init
    <3> QED
      BY <2>1, <3>1 DEF EQ!Init, Init, Queue
  <2> QED
    BY <2>1
<1>2. Inv /\ [Next]_vars => [EQ!Next]_<<Queue, current>>
  BY StepImplements
<1>3. [EQ!Next]_<<Queue, current>> => [EQ!Next]_EQ!eqVars
  BY DEF Queue, EQ!eqVars
<1> QED
  BY <1>1, <1>2, <1>3, InvHolds, PTL DEF Spec, Implements, EQ!Spec

=============================================================================
