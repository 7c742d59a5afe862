---------------------------- MODULE InputThread ----------------------------
(***************************************************************************)
(* The list of devices the input thread reads, how the main thread changes *)
(* it while the server runs, and how the thread is stopped and started     *)
(* again with each generation of the server.                               *)
(*                                                                         *)
(* The main thread edits the list under input_lock, sets "changed" and     *)
(* writes a byte into the hot-plug pipe.  The thread looks at "changed"    *)
(* without the lock, brings its poll set in line with the list under the   *)
(* lock, and waits.  A device is read under the lock.  A driver may keep   *)
(* one descriptor for many devices and pass it from one to the next.       *)
(*                                                                         *)
(* The events the devices produce are the business of InputQueue.          *)
(***************************************************************************)
EXTENDS Integers, Sequences, SequencesExt

CONSTANTS
    Fds,               \* file descriptors of devices
    Devices,           \* what is passed to the driver's read procedure
    NoDevice,
    Hotplug,           \* the read end of the hot-plug pipe
    Generations,       \* bound: server generations
    Calls,             \* bound: registrations and removals in a generation
    ReadSize,          \* bytes InputThreadReadPipe takes at once
    Impatient,         \* whether a descriptor may be unregistered although an
                       \* earlier removal of it still waits for the thread
    WakeFills          \* whether the wake-up pipe may be full

ASSUME ConstantsAssumption ==
    /\ NoDevice \notin Devices /\ Hotplug \notin Fds
    /\ Generations \in Nat \ {0} /\ Calls \in Nat /\ ReadSize \in Nat \ {0}
    /\ Impatient \in BOOLEAN /\ WakeFills \in BOOLEAN

VARIABLES
    \* input_mutex and input_mutex_count
    owner, depth, count,
    \* inputThreadInfo
    devs, changed, running,
    polled,            \* the descriptors in the thread's poll set
    hotplug,           \* bytes in the hot-plug pipe
    hotplugOpen,       \* its write end is open
    wake,              \* the wake-up pipe: "empty", "some", "full"
    \* the main thread
    mainPc, generation, calls,
    switched,          \* the server is switched away from its VT
    registered,        \* the device the main thread last registered for each
                       \* descriptor and has not unregistered (history)
    \* the input thread
    threadPc,
    walk,              \* where it is in the list
    batch,             \* descriptors reported and not yet given to a callback
    reading,           \* the descriptor whose read procedure runs, or Hotplug
    \* the devices
    data               \* descriptors with something to read

lockVars   == <<owner, depth, count>>
listVars   == <<devs, changed, registered>>
pipeVars   == <<hotplug, hotplugOpen, wake>>
runVars    == <<generation, calls, switched>>
mainVars   == <<mainPc, runVars>>
threadVars == <<running, polled, threadPc, walk, batch, reading>>
vars == <<lockVars, listVars, pipeVars, mainVars, threadVars, data>>

Entries == [fd : Fds, dev : Devices, state : {"added", "running", "removed"}]

Init ==
    /\ owner = "none" /\ depth = 0 /\ count = 0
    /\ devs = <<>> /\ changed = FALSE /\ running = FALSE
    /\ polled = {} /\ hotplug = 0 /\ hotplugOpen = TRUE /\ wake = "empty"
    /\ mainPc = "Setup" /\ generation = 1 /\ calls = 0 /\ switched = FALSE
    /\ registered = [f \in Fds |-> NoDevice]
    /\ threadPc = "None" /\ walk = 1 /\ batch = {} /\ reading = Hotplug
    /\ data = {}

-----------------------------------------------------------------------------
(* Locks and pipes                                                         *)

CanLock(a) == owner \in {"none", a}

input_lock(a) == owner' = a /\ depth' = depth + 1 /\ count' = count + 1

\* Mutant: the mutex is not recursive.
PlainUnlock(a) ==
    /\ depth' = depth - 1 /\ count' = count - 1
    /\ owner' = "none"

input_unlock(a) ==
    /\ depth' = depth - 1 /\ count' = count - 1
    /\ owner' = IF depth = 1 THEN "none" ELSE a

\* InputThreadFillPipe on the wake-up pipe, which holds more bytes than are
\* worth counting.
FillWakePipe ==
    /\ wake # "full"
    /\ wake' \in {"some"} \cup (IF WakeFills /\ wake = "some" THEN {"full"} ELSE {})

\* What InputThreadReadPipe leaves in a pipe of n bytes.
BytesLeft(n) == IF n > ReadSize THEN n - ReadSize ELSE 0

-----------------------------------------------------------------------------
(* The list of devices                                                     *)

Live(e) == e.state # "removed"

LiveEntries(f) == {i \in DOMAIN devs : devs[i].fd = f /\ Live(devs[i])}

\* The first entry with this descriptor, whatever its state.
FirstEntry(f) ==
    CHOOSE i \in DOMAIN devs :
        devs[i].fd = f /\ \A j \in 1 .. (i - 1) : devs[j].fd # f

\* Mutant: a new entry comes first.
PrependRegistered(f, d) ==
    IF LiveEntries(f) # {}
    THEN [i \in DOMAIN devs |-> IF i \in LiveEntries(f)
                                THEN [devs[i] EXCEPT !.dev = d] ELSE devs[i]]
    ELSE <<[fd |-> f, dev |-> d, state |-> "added"]>> \o devs

AfterRegister(f, d) ==
    IF LiveEntries(f) # {}
    THEN [i \in DOMAIN devs |-> IF i \in LiveEntries(f)
                                THEN [devs[i] EXCEPT !.dev = d] ELSE devs[i]]
    ELSE Append(devs, [fd |-> f, dev |-> d, state |-> "added"])

AfterUnregister(f) ==
    [i \in DOMAIN devs |-> IF i = FirstEntry(f)
                           THEN [devs[i] EXCEPT !.state = "removed"] ELSE devs[i]]

-----------------------------------------------------------------------------
(* The main thread: before the thread starts and while the server runs     *)

\* The main thread runs drivers during the set-up of the server and in its
\* dispatch loop, there also while it keeps the lock between two VT switches.
RunsDrivers == mainPc \in {"Setup", "Run"}

\* Where the main thread goes on after it has written to the hot-plug pipe.
Signalling == [Setup |-> "SetupSignal", Run |-> "RunSignal", Disable |-> "DisableSignal"]

InputThreadRegisterDev(f, d) ==
    /\ RunsDrivers /\ CanLock("main")
    /\ calls < Calls /\ calls' = calls + 1
    /\ devs' = AfterRegister(f, d)
    /\ registered' = [registered EXCEPT ![f] = d]
    /\ changed' = TRUE
    /\ mainPc' = Signalling[mainPc]
    /\ UNCHANGED <<lockVars, pipeVars, generation, switched, threadVars, data>>

\* Mutant: a removal does not wake the thread.
UnregisterQuietly(f) ==
    /\ CanLock("main")
    /\ registered[f] # NoDevice
    /\ devs' = AfterUnregister(f)
    /\ registered' = [registered EXCEPT ![f] = NoDevice]
    /\ changed' = TRUE
    /\ UNCHANGED <<lockVars, pipeVars, mainPc, generation, switched, threadVars, data>>

\* A driver unregisters only what it has registered, so the descriptor is
\* found; a call for an unknown one would change nothing.
Unregister(f) ==
    /\ CanLock("main")
    /\ registered[f] # NoDevice
    /\ devs' = AfterUnregister(f)
    /\ registered' = [registered EXCEPT ![f] = NoDevice]
    /\ changed' = TRUE
    /\ mainPc' = Signalling[mainPc]
    /\ UNCHANGED <<lockVars, pipeVars, generation, switched, threadVars, data>>

\* Neither a driver nor the end of the generation comes between the thread
\* and a descriptor that was removed and registered again, unless "Impatient".
Patient(f) ==
    ~Impatient => \A i \in LiveEntries(f) : \A j \in 1 .. (i - 1) : devs[j].fd # f

InputThreadUnregisterDev(f) ==
    /\ RunsDrivers /\ Patient(f)
    /\ calls < Calls /\ calls' = calls + 1
    /\ Unregister(f)

\* InputThreadFillPipe(hotplugPipeWrite), after the lock was released.
SignalHotplug ==
    /\ mainPc \in {"SetupSignal", "RunSignal", "DisableSignal"}
    /\ hotplug' = hotplug + 1
    /\ mainPc' = CHOOSE p \in DOMAIN Signalling : Signalling[p] = mainPc
    /\ UNCHANGED <<lockVars, listVars, hotplugOpen, wake, runVars, threadVars, data>>

InputThreadInit ==
    /\ mainPc = "Setup"
    /\ mainPc' = "Run"
    /\ threadPc' = "Check" /\ running' = TRUE
    /\ UNCHANGED <<lockVars, listVars, pipeVars, runVars, polled, walk, batch, reading,
                   data>>

\* InputThreadNotifyPipe, called by the dispatch loop.
InputThreadNotifyPipe ==
    /\ mainPc = "Run" /\ wake # "empty"
    /\ wake' \in {"empty"} \cup (IF WakeFills THEN {"some"} ELSE {})
    /\ UNCHANGED <<lockVars, listVars, hotplug, hotplugOpen, mainVars, threadVars,
                   data>>

\* xf86VTLeave keeps the lock until xf86VTEnter; meanwhile the main thread
\* goes on dispatching.
xf86VTLeave ==
    /\ mainPc = "Run" /\ ~switched /\ CanLock("main")
    /\ input_lock("main")
    /\ switched' = TRUE
    /\ UNCHANGED <<listVars, pipeVars, mainPc, generation, calls, threadVars, data>>

xf86VTEnter ==
    /\ mainPc = "Run" /\ switched
    /\ input_unlock("main")
    /\ switched' = FALSE
    /\ UNCHANGED <<listVars, pipeVars, mainPc, generation, calls, threadVars, data>>

-----------------------------------------------------------------------------
(* The main thread: the end of a generation                                *)

\* Dispatch() returns.
DispatchReturns ==
    /\ mainPc = "Run" /\ \A f \in Fds : Patient(f)
    /\ mainPc' = "Disable"
    /\ UNCHANGED <<lockVars, listVars, pipeVars, runVars, threadVars, data>>

\* DisableAllDevices() and CloseInput().
DisableAllDevices ==
    /\ mainPc = "Disable"
    /\ IF \E f \in Fds : registered[f] # NoDevice
       THEN \E f \in Fds : Unregister(f) /\ UNCHANGED calls
       ELSE /\ mainPc' = "Close"
            /\ UNCHANGED <<lockVars, listVars, pipeVars, runVars, threadVars, data>>

\* InputThreadFini closes the hot-plug pipe.
CloseHotplugPipe ==
    /\ mainPc = "Close"
    /\ hotplugOpen' = FALSE
    /\ mainPc' = "ForceUnlock"
    /\ UNCHANGED <<lockVars, listVars, hotplug, wake, runVars, threadVars, data>>

\* Mutant: the lock that is kept while the server is switched away stays locked.
LeaveLocked ==
    /\ mainPc = "ForceUnlock"
    /\ mainPc' = "Join"
    /\ UNCHANGED <<lockVars, listVars, pipeVars, runVars, threadVars, data>>

\* input_force_unlock tries to take the lock, which fails if the thread has it.
TryLock ==
    /\ mainPc = "ForceUnlock"
    /\ IF CanLock("main")
       THEN input_lock("main") /\ mainPc' = "Unlocking"
       ELSE mainPc' = "Join" /\ UNCHANGED lockVars
    /\ UNCHANGED <<listVars, pipeVars, runVars, threadVars, data>>

\* Its loop.  The counter is read without the lock once the last unlock has
\* released it; to unlock a recursive mutex of somebody else is an error and
\* leaves it as it is.
ForceUnlock ==
    /\ mainPc = "Unlocking"
    /\ IF count > 0
       THEN /\ IF owner = "main" THEN input_unlock("main")
               ELSE count' = count - 1 /\ UNCHANGED <<owner, depth>>
            /\ UNCHANGED mainPc
       ELSE mainPc' = "Join" /\ UNCHANGED lockVars
    /\ UNCHANGED <<listVars, pipeVars, runVars, threadVars, data>>

\* pthread_join returns; the facility is taken down, and set up again by
\* InputThreadPreInit if the server resets.  The mutex and its counter stay.
Join ==
    /\ mainPc = "Join" /\ threadPc = "Exit"
    /\ devs' = <<>> /\ changed' = FALSE /\ polled' = {}
    /\ hotplug' = 0 /\ hotplugOpen' = TRUE /\ wake' = "empty"
    /\ threadPc' = "None"
    /\ calls' = 0 /\ switched' = FALSE
    /\ IF generation < Generations
       THEN mainPc' = "Setup" /\ generation' = generation + 1
       ELSE mainPc' = "Down" /\ UNCHANGED generation
    /\ UNCHANGED <<lockVars, registered, running, walk, batch, reading, data>>

-----------------------------------------------------------------------------
(* The input thread                                                        *)

\* The top of the loop in InputThreadDoWork; "changed" is read without the lock.
Check ==
    /\ threadPc = "Check"
    /\ threadPc' = IF ~running THEN "Exit" ELSE IF changed THEN "Lock" ELSE "Wait"
    /\ UNCHANGED <<lockVars, listVars, pipeVars, mainVars, running, polled, walk, batch,
                   reading, data>>

LockForUpdate ==
    /\ threadPc = "Lock" /\ CanLock("thread")
    /\ input_lock("thread")
    /\ changed' = FALSE
    /\ threadPc' = "Walk" /\ walk' = 1
    /\ UNCHANGED <<devs, registered, pipeVars, mainVars, running, polled, batch,
                   reading, data>>

\* The walk over the list, with the lock.
WalkLive ==
    /\ threadPc = "Walk" /\ walk \in DOMAIN devs /\ Live(devs[walk])
    /\ polled' = IF devs[walk].state = "added" THEN polled \cup {devs[walk].fd} ELSE polled
    /\ devs' = [devs EXCEPT ![walk].state = "running"]
    /\ walk' = walk + 1
    /\ UNCHANGED <<lockVars, changed, registered, pipeVars, mainVars, running, threadPc,
                   batch, reading, data>>

WalkRemoved ==
    /\ threadPc = "Walk" /\ walk \in DOMAIN devs /\ ~Live(devs[walk])
    /\ polled' = polled \ {devs[walk].fd}
    /\ devs' = RemoveAt(devs, walk)
    /\ UNCHANGED <<lockVars, changed, registered, pipeVars, mainVars, running, threadPc,
                   walk, batch, reading, data>>

WalkDone ==
    /\ threadPc = "Walk" /\ walk \notin DOMAIN devs
    /\ input_unlock("thread")
    /\ threadPc' = "Wait" /\ walk' = 1
    /\ UNCHANGED <<listVars, pipeVars, mainVars, running, polled, batch, reading, data>>

\* ospoll_wait returns what is readable; the pipe also when it is closed.
Readable == (polled \cap data) \cup (IF hotplug > 0 \/ ~hotplugOpen THEN {Hotplug} ELSE {})

OspollWait ==
    /\ threadPc = "Wait" /\ Readable # {}
    /\ batch' = Readable
    /\ threadPc' = "Callbacks"
    /\ UNCHANGED <<lockVars, listVars, pipeVars, mainVars, running, polled, walk,
                   reading, data>>

\* Nothing to read in a pipe means that its other end is closed.
InputThreadPipeNotify ==
    /\ threadPc = "Callbacks" /\ Hotplug \in batch
    /\ batch' = batch \ {Hotplug}
    /\ hotplug' = BytesLeft(hotplug)
    /\ running' = (running /\ hotplug > 0)
    /\ UNCHANGED <<lockVars, listVars, hotplugOpen, wake, mainVars, polled, threadPc,
                   walk, reading, data>>

\* Mutant: the state of the device is not looked at under the lock.
AnyState(f) == TRUE

\* The descriptor was polled for its first entry in the list.
MayRead(f) == devs[FirstEntry(f)].state = "running"

\* InputReady takes the lock and calls the driver if the device is not removed.
InputReady(f) ==
    /\ threadPc = "Callbacks" /\ f \in batch \ {Hotplug} /\ CanLock("thread")
    /\ input_lock("thread")
    /\ batch' = batch \ {f}
    /\ threadPc' = "Reading"
    /\ reading' = IF MayRead(f) THEN f ELSE Hotplug
    /\ UNCHANGED <<listVars, pipeVars, mainVars, running, polled, walk, data>>

\* readInputProc, if it was called, returns.
InputReadyDone ==
    /\ threadPc = "Reading"
    /\ input_unlock("thread")
    /\ data' = data \ {reading}
    /\ threadPc' = "Callbacks" /\ reading' = Hotplug
    /\ UNCHANGED <<listVars, pipeVars, mainVars, running, polled, walk, batch>>

CallbacksDone ==
    /\ threadPc = "Callbacks" /\ batch = {}
    /\ threadPc' = "Fill"
    /\ UNCHANGED <<lockVars, listVars, pipeVars, mainVars, running, polled, walk, batch,
                   reading, data>>

InputThreadFillPipe ==
    /\ threadPc = "Fill"
    /\ FillWakePipe
    /\ threadPc' = "Check"
    /\ UNCHANGED <<lockVars, listVars, hotplug, hotplugOpen, mainVars, running, polled, walk,
                   batch, reading, data>>

-----------------------------------------------------------------------------
DataArrives(f) ==
    /\ f \notin data
    /\ data' = data \cup {f}
    /\ UNCHANGED <<lockVars, listVars, pipeVars, mainVars, threadVars>>

Finished == mainPc = "Down" /\ UNCHANGED vars

InputThreadFini == CloseHotplugPipe \/ TryLock \/ ForceUnlock \/ Join

MainFinishes == SignalHotplug \/ DisableAllDevices \/ InputThreadFini

InputThreadDoWork ==
    \/ Check \/ LockForUpdate \/ WalkLive \/ WalkRemoved \/ WalkDone
    \/ OspollWait \/ InputThreadPipeNotify
    \/ \E f \in Fds : InputReady(f)
    \/ InputReadyDone \/ CallbacksDone \/ InputThreadFillPipe

Next ==
    \/ \E f \in Fds, d \in Devices : InputThreadRegisterDev(f, d)
    \/ \E f \in Fds : InputThreadUnregisterDev(f) \/ DataArrives(f)
    \/ InputThreadInit \/ InputThreadNotifyPipe \/ xf86VTLeave \/ xf86VTEnter
    \/ DispatchReturns \/ MainFinishes
    \/ InputThreadDoWork
    \/ Finished

Spec == Init /\ [][Next]_vars

\* The thread is scheduled, and a mutex is granted in the end to a thread that
\* asks again and again.  The main thread finishes what it has begun, and its
\* dispatch loop polls.
FairSpec ==
    /\ Spec
    /\ WF_vars(InputThreadInit) /\ WF_vars(InputThreadNotifyPipe)
    /\ WF_vars(MainFinishes) /\ SF_vars(DisableAllDevices)
    /\ WF_vars(Check \/ WalkLive \/ WalkRemoved \/ WalkDone \/ OspollWait
                \/ InputReadyDone \/ CallbacksDone \/ InputThreadFillPipe)
    /\ WF_vars(InputThreadPipeNotify)
    /\ SF_vars(LockForUpdate) /\ \A f \in Fds : SF_vars(InputReady(f))

-----------------------------------------------------------------------------
(* Properties                                                              *)

TypeOK ==
    /\ owner \in {"none", "main", "thread"} /\ depth \in Nat /\ count \in Int
    /\ owner = "none" <=> depth = 0
    /\ devs \in Seq(Entries) /\ changed \in BOOLEAN /\ running \in BOOLEAN
    /\ polled \subseteq Fds /\ hotplug \in Nat /\ hotplugOpen \in BOOLEAN
    /\ wake \in {"empty", "some", "full"}
    /\ mainPc \in {"Setup", "SetupSignal", "Run", "RunSignal", "Disable", "DisableSignal",
                   "Close", "ForceUnlock", "Unlocking", "Join", "Down"}
    /\ generation \in 1 .. Generations /\ calls \in 0 .. Calls /\ switched \in BOOLEAN
    /\ registered \in [Fds -> Devices \cup {NoDevice}]
    /\ threadPc \in {"None", "Check", "Lock", "Walk", "Wait", "Callbacks", "Reading",
                     "Fill", "Exit"}
    /\ walk \in Nat /\ batch \subseteq Fds \cup {Hotplug} /\ reading \in Fds \cup {Hotplug}
    /\ data \subseteq Fds

\* A read procedure is called only for the device that is registered for its
\* descriptor at that moment: never for one the driver has unregistered and
\* may have freed, and never with the argument of an earlier registration
\* (InputReady, InputThreadUnregisterDev; what xf86libinput.c relies on when
\* it passes its descriptor from one device to the next).
ReadsRegistered ==
    threadPc = "Reading" /\ reading # Hotplug =>
        /\ registered[reading] # NoDevice
        /\ devs[FirstEntry(reading)].dev = registered[reading]

\* The thread does not go to sleep with a change of the list unseen: there is
\* a byte in the hot-plug pipe, or the main thread is about to write one.
NoLostHotplug ==
    changed /\ threadPc = "Wait" =>
        hotplug > 0 \/ ~hotplugOpen \/ mainPc \in {"RunSignal", "DisableSignal"}

\* The list says what the main thread wants: the last entry of a registered
\* descriptor is live, every entry of an unregistered one is on its way out.
ListMatchesCalls ==
    \A f \in Fds :
        LET mine == {i \in DOMAIN devs : devs[i].fd = f}
        IN  /\ registered[f] = NoDevice => \A i \in mine : ~Live(devs[i])
            /\ registered[f] # NoDevice =>
                  \E i \in mine : /\ \A j \in mine : j <= i /\ (Live(devs[j]) => j = i)
                                  /\ Live(devs[i]) /\ devs[i].dev = registered[f]

\* A registered device that has something to say is read, or unregistered, or
\* the server is switched away and keeps the lock.
DevicesAreRead ==
    \A f \in Fds :
        registered[f] # NoDevice /\ f \in data
            ~> f \notin data \/ registered[f] = NoDevice \/ switched

\* InputThreadFini stops the thread and returns, also when the server ends
\* while it is switched away and holds the lock.
FiniReturns == mainPc = "Close" ~> mainPc \in {"Setup", "Down"}

=============================================================================
