-------------------------- MODULE InputThreadProofs -------------------------
(***************************************************************************)
(* Theorems about InputThread for every set of descriptors and devices,    *)
(* any number of generations and any pipe.                                 *)
(***************************************************************************)
EXTENDS InputThread, SequenceTheorems, WellFoundedInduction, TLAPS

(* The inductive invariants *)

\* The thread holds the lock exactly while it walks over the list or reads a
\* device; the main thread holds it while the server is switched away.
LockInv ==
    /\ owner = "thread" <=> threadPc \in {"Walk", "Reading"}
    /\ owner = "thread" => depth = 1
    /\ switched /\ mainPc \in {"Run", "RunSignal", "Disable", "DisableSignal",
                               "Close", "ForceUnlock"} => owner = "main"

\* What the program counters say of each other.
PcInv ==
    /\ threadPc = "None" <=> mainPc \in {"Setup", "SetupSignal", "Down"}
    /\ mainPc \in {"Setup", "SetupSignal"} => ~switched
    /\ threadPc = "Walk" => ~changed
    /\ reading # Hotplug => threadPc = "Reading"
    /\ batch # {} => threadPc \in {"Callbacks", "Reading"}

Base == TypeOK /\ LockInv /\ PcInv /\ NoLostHotplug

\* A live entry is the last one of its descriptor, and has the argument of the
\* last registration; a registered descriptor has one.
ListInv ==
    /\ \A i \in DOMAIN devs : Live(devs[i]) =>
          /\ devs[i].dev = registered[devs[i].fd]
          /\ \A j \in DOMAIN devs : devs[j].fd = devs[i].fd => j <= i
    /\ \A f \in Fds : registered[f] # NoDevice =>
          \E i \in DOMAIN devs : devs[i].fd = f /\ Live(devs[i])

Listed(f) == \E i \in DOMAIN devs : devs[i].fd = f

\* What is polled or reported has an entry in the list.
PolledInv ==
    /\ \A f \in polled : Listed(f)
    /\ \A f \in batch \ {Hotplug} : Listed(f)

\* At the end of a generation no removal of a live entry waits for another.
DisableInv ==
    mainPc \in {"Disable", "DisableSignal"} => \A f \in Fds : Patient(f)

\* After that nothing is registered.
ClosedInv ==
    mainPc \in {"Close", "ForceUnlock", "Unlocking", "Join", "Down"} =>
        \A f \in Fds : registered[f] = NoDevice

Lists == ListInv /\ PolledInv /\ DisableInv /\ ClosedInv /\ ReadsRegistered

Inv == Base /\ Lists

-----------------------------------------------------------------------------
(* Sequences and the list *)

LEMMA FunctionIsSeq ==
    ASSUME NEW S, NEW n \in Nat, NEW f \in [1 .. n -> S]
    PROVE  f \in Seq(S) /\ Len(f) = n /\ DOMAIN f = 1 .. n
OBVIOUS

LEMMA RemoveAtIs ==
    ASSUME NEW S, NEW s \in Seq(S), NEW i \in 1 .. Len(s)
    PROVE  /\ RemoveAt(s, i) \in Seq(S)
           /\ Len(RemoveAt(s, i)) = Len(s) - 1
           /\ DOMAIN RemoveAt(s, i) = 1 .. (Len(s) - 1)
           /\ \A j \in 1 .. (Len(s) - 1) :
                 RemoveAt(s, i)[j] = s[IF j < i THEN j ELSE j + 1]
<1> DEFINE a == SubSeq(s, 1, i - 1)
           b == SubSeq(s, i + 1, Len(s))
<1>0. Len(s) \in Nat /\ i \in Nat /\ \A j \in 1 .. Len(s) : s[j] \in S
  BY LenProperties, ElementOfSeq
<1>1. a \in Seq(S) /\ Len(a) = i - 1 /\ \A j \in 1 .. i - 1 : a[j] = s[j]
  <2>1. \A j \in 1 .. i - 1 : s[j] \in S
    BY <1>0
  <2>2. /\ a \in Seq(S)
        /\ Len(a) = IF 1 <= i - 1 THEN i - 1 - 1 + 1 ELSE 0
        /\ \A j \in 1 .. i - 1 - 1 + 1 : a[j] = s[1 + j - 1]
    BY <1>0, <2>1, SubSeqProperties
  <2> QED
    BY <1>0, <2>2
<1>2. b \in Seq(S) /\ Len(b) = Len(s) - i /\ \A j \in 1 .. Len(s) - i : b[j] = s[i + j]
  <2>1. \A j \in i + 1 .. Len(s) : s[j] \in S
    BY <1>0
  <2>2. /\ b \in Seq(S)
        /\ Len(b) = IF i + 1 <= Len(s) THEN Len(s) - (i + 1) + 1 ELSE 0
        /\ \A j \in 1 .. Len(s) - (i + 1) + 1 : b[j] = s[i + 1 + j - 1]
    BY <1>0, <2>1, SubSeqProperties
  <2> QED
    BY <1>0, <2>2
<1> HIDE DEF a, b
<1>3. /\ a \o b \in Seq(S)
      /\ Len(a \o b) = Len(a) + Len(b)
      /\ \A j \in 1 .. Len(a) + Len(b) : (a \o b)[j] = IF j <= Len(a) THEN a[j] ELSE b[j - Len(a)]
  BY <1>1, <1>2, ConcatProperties
<1>4. DOMAIN (a \o b) = 1 .. Len(a \o b)
  BY <1>3, LenProperties
<1>5. ASSUME NEW j \in 1 .. (Len(s) - 1)
      PROVE  (a \o b)[j] = s[IF j < i THEN j ELSE j + 1]
  <2>1. CASE j < i
    BY <1>0, <1>1, <1>2, <1>3, <2>1
  <2>2. CASE ~(j < i)
    <3>0. j \in 1 .. Len(a) + Len(b) /\ ~(j <= Len(a)) /\ Len(a) = i - 1
      BY <1>0, <1>1, <1>2, <2>2
    <3>1. (a \o b)[j] = b[j - (i - 1)]
      BY <1>3, <3>0
    <3>2. j - (i - 1) \in 1 .. Len(s) - i
      BY <1>0, <2>2
    <3>3. b[j - (i - 1)] = s[i + (j - (i - 1))]
      BY <1>2, <3>2
    <3> QED
      BY <1>0, <2>2, <3>1, <3>3
  <2> QED
    BY <2>1, <2>2
<1>6. RemoveAt(s, i) = a \o b
  BY DEF RemoveAt, a, b
<1>7. Len(a \o b) = Len(s) - 1
  BY <1>0, <1>1, <1>2, <1>3
<1> QED
  BY <1>3, <1>4, <1>5, <1>6, <1>7

LEMMA ListFacts ==
    ASSUME TypeOK
    PROVE  /\ Len(devs) \in Nat /\ DOMAIN devs = 1 .. Len(devs)
           /\ devs \in [1 .. Len(devs) -> Entries]
           /\ \A i \in DOMAIN devs : devs[i] \in Entries
BY LenProperties, ElementOfSeq DEF TypeOK

\* A removal changes the state of at most the first entry.
LEMMA AfterUnregisterIs ==
    ASSUME TypeOK, NEW f \in Fds
    PROVE  /\ AfterUnregister(f) \in Seq(Entries)
           /\ DOMAIN AfterUnregister(f) = DOMAIN devs
           /\ \A i \in DOMAIN devs :
                 /\ AfterUnregister(f)[i].fd = devs[i].fd
                 /\ AfterUnregister(f)[i].dev = devs[i].dev
                 /\ AfterUnregister(f)[i].state
                       = IF i = FirstEntry(f) THEN "removed" ELSE devs[i].state
<1> DEFINE n == Len(devs)
<1>1. n \in Nat /\ DOMAIN devs = 1 .. n /\ \A i \in DOMAIN devs : devs[i] \in Entries
  BY ListFacts
<1>2. AfterUnregister(f) \in [1 .. n -> Entries]
  BY <1>1 DEF AfterUnregister, Entries
<1>3. AfterUnregister(f) \in Seq(Entries)
  BY <1>1, <1>2, FunctionIsSeq
<1> QED
  BY <1>1, <1>3 DEF AfterUnregister, Entries

\* A registration replaces the argument of live entries or appends one.
LEMMA AfterRegisterIs ==
    ASSUME TypeOK, NEW f \in Fds, NEW d \in Devices
    PROVE  /\ AfterRegister(f, d) \in Seq(Entries)
           /\ LiveEntries(f) # {} =>
                 /\ DOMAIN AfterRegister(f, d) = DOMAIN devs
                 /\ \A i \in DOMAIN devs :
                       /\ AfterRegister(f, d)[i].fd = devs[i].fd
                       /\ AfterRegister(f, d)[i].state = devs[i].state
                       /\ AfterRegister(f, d)[i].dev
                             = IF i \in LiveEntries(f) THEN d ELSE devs[i].dev
           /\ LiveEntries(f) = {} =>
                 /\ DOMAIN AfterRegister(f, d) = 1 .. (Len(devs) + 1)
                 /\ \A i \in DOMAIN devs : AfterRegister(f, d)[i] = devs[i]
                 /\ AfterRegister(f, d)[Len(devs) + 1]
                       = [fd |-> f, dev |-> d, state |-> "added"]
<1> DEFINE n == Len(devs)
<1>1. n \in Nat /\ DOMAIN devs = 1 .. n /\ \A i \in DOMAIN devs : devs[i] \in Entries
  BY ListFacts
<1>2. CASE LiveEntries(f) # {}
  <2>1. AfterRegister(f, d) \in [1 .. n -> Entries]
    BY <1>1, <1>2 DEF AfterRegister, Entries
  <2>2. AfterRegister(f, d) \in Seq(Entries)
    BY <1>1, <2>1, FunctionIsSeq
  <2> QED
    BY <1>1, <1>2, <2>2 DEF AfterRegister, Entries
<1>3. CASE LiveEntries(f) = {}
  <2> DEFINE e == [fd |-> f, dev |-> d, state |-> "added"]
  <2>1. e \in Entries /\ devs \in Seq(Entries)
    BY DEF Entries, TypeOK
  <2>2. AfterRegister(f, d) = Append(devs, e)
    BY <1>3 DEF AfterRegister
  <2> HIDE DEF e
  <2>3. /\ Append(devs, e) \in Seq(Entries) /\ Len(Append(devs, e)) = n + 1
        /\ \A i \in 1 .. n : Append(devs, e)[i] = devs[i]
        /\ Append(devs, e)[n + 1] = e
    BY <2>1, AppendProperties
  <2>4. DOMAIN Append(devs, e) = 1 .. (n + 1)
    BY <2>3, LenProperties
  <2> QED
    BY <1>1, <1>3, <2>2, <2>3, <2>4 DEF e
<1> QED
  BY <1>2, <1>3

-----------------------------------------------------------------------------
(* Types, the lock and the program counters *)

\* Where the main thread goes on.
LEMMA SignalReturns ==
    ASSUME SignalHotplug
    PROVE  /\ mainPc = "SetupSignal" => mainPc' = "Setup"
           /\ mainPc = "RunSignal" => mainPc' = "Run"
           /\ mainPc = "DisableSignal" => mainPc' = "Disable"
<1>1. DOMAIN Signalling = {"Setup", "Run", "Disable"}
  BY DEF Signalling
<1>2. /\ Signalling["Setup"] = "SetupSignal" /\ Signalling["Run"] = "RunSignal"
      /\ Signalling["Disable"] = "DisableSignal"
  BY DEF Signalling
<1>3. mainPc' = CHOOSE p \in {"Setup", "Run", "Disable"} : Signalling[p] = mainPc
  BY <1>1 DEF SignalHotplug
<1> QED
  BY <1>2, <1>3 DEF SignalHotplug

LEMMA BaseInit == Init => Base
<1> SUFFICES ASSUME Init PROVE Base
  OBVIOUS
<1>1. devs \in Seq(Entries)
  BY EmptySeq DEF Init
<1>2. TypeOK
  <2>1. changed \in BOOLEAN /\ running \in BOOLEAN /\ hotplugOpen \in BOOLEAN
        /\ switched \in BOOLEAN
    BY DEF Init
  <2>2. generation \in 1 .. Generations /\ calls \in 0 .. Calls
    BY ConstantsAssumption DEF Init
  <2>3. registered \in [Fds -> Devices \cup {NoDevice}]
    BY DEF Init
  <2> QED
    BY <1>1, <2>1, <2>2, <2>3 DEF Init, TypeOK
<1> QED
  BY <1>2 DEF Init, Base, LockInv, PcInv, NoLostHotplug

\* The steps of the main thread on the list.
LEMMA BaseRegister ==
    ASSUME Base, NEW f \in Fds, NEW d \in Devices, InputThreadRegisterDev(f, d)
    PROVE  Base'
<1> USE DEF Base
<1>1. devs' \in Seq(Entries)
  BY AfterRegisterIs DEF InputThreadRegisterDev
<1>2. mainPc' = IF mainPc = "Setup" THEN "SetupSignal" ELSE "RunSignal"
  BY DEF InputThreadRegisterDev, RunsDrivers, Signalling
<1>3. TypeOK'
  BY <1>1, <1>2, ConstantsAssumption
     DEF InputThreadRegisterDev, RunsDrivers, TypeOK, lockVars, pipeVars, threadVars
<1>4. LockInv' /\ PcInv' /\ NoLostHotplug'
  BY <1>2 DEF InputThreadRegisterDev, RunsDrivers, CanLock, TypeOK, LockInv, PcInv,
     NoLostHotplug, lockVars, pipeVars, threadVars
<1> QED
  BY <1>3, <1>4

LEMMA BaseUnregister ==
    ASSUME Base, NEW f \in Fds, Unregister(f), calls' \in 0 .. Calls,
           mainPc \in {"Setup", "Run", "Disable"}
    PROVE  Base'
<1> USE DEF Base
<1>1. devs' \in Seq(Entries)
  BY AfterUnregisterIs DEF Unregister
<1>2. mainPc' = IF mainPc = "Setup" THEN "SetupSignal"
                ELSE IF mainPc = "Run" THEN "RunSignal" ELSE "DisableSignal"
  BY DEF Unregister, Signalling
<1>3. TypeOK'
  BY <1>1, <1>2 DEF Unregister, TypeOK, lockVars, pipeVars, threadVars
<1>4. LockInv' /\ PcInv' /\ NoLostHotplug'
  BY <1>2 DEF Unregister, CanLock, TypeOK, LockInv, PcInv, NoLostHotplug,
     lockVars, pipeVars, threadVars
<1> QED
  BY <1>3, <1>4

LEMMA BaseDisable == ASSUME Base, DisableAllDevices PROVE Base'
<1> USE DEF Base
<1>1. CASE \E f \in Fds : registered[f] # NoDevice
  <2>1. PICK f \in Fds : Unregister(f) /\ UNCHANGED calls
    BY <1>1 DEF DisableAllDevices
  <2>2. mainPc = "Disable" /\ calls' \in 0 .. Calls
    BY <2>1 DEF DisableAllDevices, TypeOK
  <2> QED
    BY <2>1, <2>2, BaseUnregister
<1>2. CASE ~(\E f \in Fds : registered[f] # NoDevice)
  <2>1. TypeOK'
    BY <1>2 DEF DisableAllDevices, TypeOK, lockVars, listVars, pipeVars, runVars, threadVars
  <2>2. LockInv' /\ PcInv' /\ NoLostHotplug'
    BY <1>2 DEF DisableAllDevices, TypeOK, LockInv, PcInv, NoLostHotplug,
       lockVars, listVars, pipeVars, runVars, threadVars
  <2> QED
    BY <2>1, <2>2
<1> QED
  BY <1>1, <1>2

\* The other steps of the main thread.
LEMMA BaseMain ==
    ASSUME Base,
           \/ InputThreadInit \/ InputThreadNotifyPipe \/ xf86VTLeave \/ xf86VTEnter
           \/ DispatchReturns \/ SignalHotplug \/ InputThreadFini
    PROVE  Base'
<1> USE DEF Base
<1>1. CASE InputThreadInit
  BY <1>1 DEF InputThreadInit, TypeOK, LockInv, PcInv, NoLostHotplug,
     lockVars, listVars, pipeVars, runVars
<1>2. CASE InputThreadNotifyPipe
  BY <1>2 DEF InputThreadNotifyPipe, TypeOK, LockInv, PcInv, NoLostHotplug,
     lockVars, listVars, mainVars, runVars, threadVars
<1>3. CASE xf86VTLeave
  BY <1>3 DEF xf86VTLeave, input_lock, CanLock, TypeOK, LockInv, PcInv, NoLostHotplug,
     listVars, pipeVars, threadVars
<1>4. CASE xf86VTEnter
  <2>1. owner = "main" /\ depth \in Nat \ {0}
    BY <1>4 DEF xf86VTEnter, LockInv, TypeOK
  <2>2. TypeOK'
    <3>1. /\ owner' \in {"none", "main"} /\ depth' \in Nat /\ count' \in Int
          /\ owner' = "none" <=> depth' = 0
      BY <1>4, <2>1 DEF xf86VTEnter, input_unlock, TypeOK
    <3>2. switched' \in BOOLEAN
      BY <1>4 DEF xf86VTEnter
    <3> QED
      BY <1>4, <3>1, <3>2 DEF xf86VTEnter, TypeOK, listVars, pipeVars, threadVars
  <2>3. LockInv'
    BY <1>4, <2>1 DEF xf86VTEnter, input_unlock, TypeOK, LockInv, listVars, pipeVars, threadVars
  <2>4. PcInv' /\ NoLostHotplug'
    BY <1>4, <2>1 DEF xf86VTEnter, PcInv, NoLostHotplug, listVars, pipeVars, threadVars
  <2> QED
    BY <2>2, <2>3, <2>4
<1>5. CASE DispatchReturns
  BY <1>5 DEF DispatchReturns, TypeOK, LockInv, PcInv, NoLostHotplug,
     lockVars, listVars, pipeVars, runVars, threadVars
<1>6. CASE SignalHotplug
  <2>1. mainPc' \in {"Setup", "Run", "Disable"}
    BY <1>6, SignalReturns DEF SignalHotplug
  <2>2. TypeOK'
    BY <1>6, <2>1 DEF SignalHotplug, TypeOK, lockVars, listVars, runVars, threadVars
  <2>3. LockInv' /\ PcInv'
    BY <1>6, SignalReturns DEF SignalHotplug, TypeOK, LockInv, PcInv,
       lockVars, listVars, runVars, threadVars
  <2>4. NoLostHotplug'
    BY <1>6 DEF SignalHotplug, TypeOK, NoLostHotplug, lockVars, listVars, runVars, threadVars
  <2> QED
    BY <2>2, <2>3, <2>4
<1>7. CASE CloseHotplugPipe
  BY <1>7 DEF CloseHotplugPipe, TypeOK, LockInv, PcInv, NoLostHotplug,
     lockVars, listVars, runVars, threadVars
<1>8. CASE TryLock
  BY <1>8 DEF TryLock, input_lock, CanLock, TypeOK, LockInv, PcInv, NoLostHotplug,
     lockVars, listVars, pipeVars, runVars, threadVars
<1>9. CASE ForceUnlock
  BY <1>9 DEF ForceUnlock, input_unlock, TypeOK, LockInv, PcInv, NoLostHotplug,
     lockVars, listVars, pipeVars, runVars, threadVars
<1>10. CASE Join
  <2>1. devs' \in Seq(Entries)
    BY <1>10, EmptySeq DEF Join
  <2>2. TypeOK'
    <3>1. changed' \in BOOLEAN /\ hotplugOpen' \in BOOLEAN /\ switched' \in BOOLEAN
      BY <1>10 DEF Join
    <3>2. mainPc' \in {"Setup", "Down"} /\ generation' \in 1 .. Generations
      BY <1>10, ConstantsAssumption DEF Join, TypeOK
    <3>3. calls' \in 0 .. Calls
      BY <1>10, ConstantsAssumption DEF Join
    <3> QED
      BY <1>10, <2>1, <3>1, <3>2, <3>3 DEF Join, TypeOK, lockVars
  <2>3. LockInv' /\ PcInv' /\ NoLostHotplug'
    BY <1>10 DEF Join, TypeOK, LockInv, PcInv, NoLostHotplug, lockVars
  <2> QED
    BY <2>2, <2>3
<1> QED
  BY <1>1, <1>2, <1>3, <1>4, <1>5, <1>6, <1>7, <1>8, <1>9, <1>10 DEF InputThreadFini

\* The steps of the input thread.
LEMMA BaseThread == ASSUME Base, InputThreadDoWork PROVE Base'
<1> USE DEF Base
<1>1. CASE Check
  BY <1>1 DEF Check, TypeOK, LockInv, PcInv, NoLostHotplug,
     lockVars, listVars, pipeVars, mainVars, runVars
<1>2. CASE LockForUpdate
  <2>1. owner = "none" /\ depth = 0
    BY <1>2 DEF LockForUpdate, CanLock, LockInv, TypeOK
  <2>2. TypeOK'
    <3>1. owner' = "thread" /\ depth' = 1 /\ count' \in Int
      BY <1>2, <2>1 DEF LockForUpdate, input_lock, TypeOK
    <3>2. changed' \in BOOLEAN
      BY <1>2 DEF LockForUpdate
    <3> QED
      BY <1>2, <3>1, <3>2 DEF LockForUpdate, TypeOK, pipeVars, mainVars, runVars
  <2>3. LockInv' /\ PcInv' /\ NoLostHotplug'
    BY <1>2, <2>1 DEF LockForUpdate, input_lock, LockInv, PcInv, NoLostHotplug,
       pipeVars, mainVars, runVars
  <2> QED
    BY <2>2, <2>3
<1>3. CASE WalkLive
  <2>1. devs[walk] \in Entries /\ walk \in 1 .. Len(devs)
    BY <1>3, ListFacts DEF WalkLive
  <2>2. [devs[walk] EXCEPT !.state = "running"] \in Entries /\ devs[walk].fd \in Fds
    BY <2>1 DEF Entries
  <2>3. devs' \in Seq(Entries)
    BY <1>3, <2>1, <2>2, ExceptSeq DEF WalkLive, TypeOK
  <2>4. TypeOK'
    BY <1>3, <2>2, <2>3 DEF WalkLive, TypeOK, lockVars, pipeVars, mainVars, runVars
  <2>5. LockInv' /\ PcInv' /\ NoLostHotplug'
    BY <1>3 DEF WalkLive, TypeOK, LockInv, PcInv, NoLostHotplug,
       lockVars, pipeVars, mainVars, runVars
  <2> QED
    BY <2>4, <2>5
<1>4. CASE WalkRemoved
  <2>1. devs' \in Seq(Entries)
    BY <1>4, RemoveAtIs, ListFacts DEF WalkRemoved, TypeOK
  <2>2. TypeOK'
    BY <1>4, <2>1 DEF WalkRemoved, TypeOK, lockVars, pipeVars, mainVars, runVars
  <2>3. LockInv' /\ PcInv' /\ NoLostHotplug'
    BY <1>4 DEF WalkRemoved, TypeOK, LockInv, PcInv, NoLostHotplug,
       lockVars, pipeVars, mainVars, runVars
  <2> QED
    BY <2>2, <2>3
<1>5. CASE WalkDone
  BY <1>5 DEF WalkDone, input_unlock, TypeOK, LockInv, PcInv, NoLostHotplug,
     listVars, pipeVars, mainVars, runVars
<1>6. CASE OspollWait
  BY <1>6 DEF OspollWait, Readable, TypeOK, LockInv, PcInv, NoLostHotplug,
     lockVars, listVars, pipeVars, mainVars, runVars
<1>7. CASE InputThreadPipeNotify
  <2>1. BytesLeft(hotplug) \in Nat
    BY ConstantsAssumption DEF BytesLeft, TypeOK
  <2> QED
    BY <1>7, <2>1 DEF InputThreadPipeNotify, TypeOK, LockInv, PcInv, NoLostHotplug,
       lockVars, listVars, mainVars, runVars
<1>8. ASSUME NEW f \in Fds, InputReady(f) PROVE Base'
  BY <1>8 DEF InputReady, input_lock, CanLock, TypeOK, LockInv, PcInv, NoLostHotplug,
     listVars, pipeVars, mainVars, runVars
<1>9. CASE InputReadyDone
  BY <1>9 DEF InputReadyDone, input_unlock, TypeOK, LockInv, PcInv, NoLostHotplug,
     listVars, pipeVars, mainVars, runVars
<1>10. CASE CallbacksDone
  BY <1>10 DEF CallbacksDone, TypeOK, LockInv, PcInv, NoLostHotplug,
     lockVars, listVars, pipeVars, mainVars, runVars
<1>11. CASE InputThreadFillPipe
  BY <1>11 DEF InputThreadFillPipe, FillWakePipe, TypeOK, LockInv, PcInv, NoLostHotplug,
     lockVars, listVars, mainVars, runVars
<1> QED
  BY <1>1, <1>2, <1>3, <1>4, <1>5, <1>6, <1>7, <1>8, <1>9, <1>10, <1>11
     DEF InputThreadDoWork

LEMMA BaseStep == ASSUME Base, [Next]_vars PROVE Base'
<1>1. ASSUME NEW f \in Fds, InputThreadUnregisterDev(f) PROVE Base'
  <2>1. Unregister(f) /\ mainPc \in {"Setup", "Run", "Disable"} /\ calls' \in 0 .. Calls
    BY <1>1, ConstantsAssumption DEF InputThreadUnregisterDev, RunsDrivers, Base, TypeOK
  <2> QED
    BY <2>1, BaseUnregister
<1>2. ASSUME NEW f \in Fds, DataArrives(f) PROVE Base'
  BY <1>2 DEF DataArrives, Base, TypeOK, LockInv, PcInv, NoLostHotplug,
     lockVars, listVars, pipeVars, mainVars, runVars, threadVars
<1>3. CASE UNCHANGED vars
  BY <1>3 DEF Base, TypeOK, LockInv, PcInv, NoLostHotplug, vars,
     lockVars, listVars, pipeVars, mainVars, runVars, threadVars
<1> QED
  BY <1>1, <1>2, <1>3, BaseRegister, BaseDisable, BaseMain, BaseThread
     DEF Next, MainFinishes, Finished

LEMMA BaseHolds == Spec => []Base
<1>1. Init => Base
  BY BaseInit
<1>2. Base /\ [Next]_vars => Base'
  BY BaseStep
<1> QED
  BY <1>1, <1>2, PTL DEF Spec

\* TypeOK: the lock is held exactly as often as its depth says (inputthread.c).
THEOREM TypesHold == Spec => []TypeOK
<1>1. Base => TypeOK
  BY DEF Base
<1> QED
  BY <1>1, BaseHolds, PTL

\* NoLostHotplug: the thread never sleeps on a change of the list unless a
\* byte is in the pipe or about to be written (InputThreadRegisterDev,
\* InputThreadUnregisterDev, InputThreadDoWork).
THEOREM NoHotplugIsLost == Spec => []NoLostHotplug
<1>1. Base => NoLostHotplug
  BY DEF Base
<1> QED
  BY <1>1, BaseHolds, PTL

-----------------------------------------------------------------------------
(* The list of devices, where no driver is impatient *)

LessThan == {p \in Nat \X Nat : p[1] < p[2]}

LEMMA LessThanIsWellFounded == IsWellFoundedOn(LessThan, Nat)
<1>1. LessThan = OpToRel(<, Nat)
  BY DEF LessThan, OpToRel
<1> QED
  BY <1>1, NatLessThanWellFounded

\* What FirstEntry returns where there is an entry.
LEMMA FirstEntryIs ==
    ASSUME TypeOK, NEW f, Listed(f)
    PROVE  /\ FirstEntry(f) \in DOMAIN devs /\ devs[FirstEntry(f)].fd = f
           /\ \A j \in 1 .. (FirstEntry(f) - 1) : devs[j].fd # f
<1> DEFINE I == {i \in DOMAIN devs : devs[i].fd = f}
<1>1. I \subseteq Nat /\ I # {} /\ DOMAIN devs = 1 .. Len(devs) /\ Len(devs) \in Nat
  BY ListFacts DEF Listed
<1>2. PICK i \in I : \A j \in I : ~(<<j, i>> \in LessThan)
  BY <1>1, LessThanIsWellFounded, WFMin
<1>3. ASSUME NEW j \in 1 .. (i - 1) PROVE devs[j].fd # f
  <2>1. i \in Nat /\ j \in Nat /\ j < i /\ j \in DOMAIN devs
    BY <1>1
  <2>2. <<j, i>> \in LessThan
    BY <2>1 DEF LessThan
  <2> QED
    BY <1>2, <2>1, <2>2
<1> QED
  BY <1>3 DEF FirstEntry

\* The entry a patient driver unregisters is the live one, and the only one.
LEMMA PatientEntry ==
    ASSUME Inv, Impatient = FALSE, NEW f \in Fds, registered[f] # NoDevice, Patient(f)
    PROVE  /\ FirstEntry(f) \in DOMAIN devs
           /\ \A i \in DOMAIN devs : devs[i].fd = f <=> i = FirstEntry(f)
<1>1. TypeOK
  BY DEF Inv, Base, Lists
<1>2. DOMAIN devs = 1 .. Len(devs) /\ Len(devs) \in Nat
  BY <1>1, ListFacts
<1>3. PICK i \in DOMAIN devs : devs[i].fd = f /\ Live(devs[i])
  BY DEF Inv, Lists, ListInv
<1>4. \A j \in DOMAIN devs : devs[j].fd = f => j <= i
  BY <1>3 DEF Inv, Lists, ListInv
<1>5. \A j \in 1 .. (i - 1) : devs[j].fd # f
  BY <1>3 DEF Patient, LiveEntries
<1>6. \A j \in DOMAIN devs : devs[j].fd = f <=> j = i
  BY <1>2, <1>3, <1>4, <1>5
<1>7. FirstEntry(f) \in DOMAIN devs /\ devs[FirstEntry(f)].fd = f
  BY <1>1, <1>3, FirstEntryIs DEF Listed
<1> QED
  BY <1>6, <1>7

LEMMA InvRegister ==
    ASSUME Inv, NEW f \in Fds, NEW d \in Devices, InputThreadRegisterDev(f, d)
    PROVE  Lists'
<1>1. TypeOK /\ ListInv /\ PolledInv
  BY DEF Inv, Base, Lists
<1>2. DOMAIN devs = 1 .. Len(devs) /\ Len(devs) \in Nat /\ \A i \in DOMAIN devs : devs[i] \in Entries
  BY <1>1, ListFacts
<1>3. devs' = AfterRegister(f, d) /\ registered' = [registered EXCEPT ![f] = d]
      /\ registered \in [Fds -> Devices \cup {NoDevice}] /\ d # NoDevice
  BY <1>1, ConstantsAssumption DEF InputThreadRegisterDev, TypeOK
<1>6. DisableInv' /\ ClosedInv' /\ ReadsRegistered'
  <2>1. mainPc' \in {"SetupSignal", "RunSignal"}
    BY DEF InputThreadRegisterDev, RunsDrivers, Signalling
  <2>2. threadPc' # "Reading"
    BY DEF InputThreadRegisterDev, CanLock, threadVars, Inv, Base, LockInv
  <2> QED
    BY <2>1, <2>2 DEF DisableInv, ClosedInv, ReadsRegistered
<1>4. CASE LiveEntries(f) # {}
  <2>1. /\ DOMAIN devs' = DOMAIN devs
        /\ \A i \in DOMAIN devs : /\ devs'[i].fd = devs[i].fd
                                  /\ devs'[i].state = devs[i].state
                                  /\ devs'[i].dev = IF i \in LiveEntries(f) THEN d ELSE devs[i].dev
    BY <1>1, <1>3, <1>4, AfterRegisterIs
  <2>2. \A i \in DOMAIN devs : Live(devs'[i]) <=> Live(devs[i])
    BY <2>1 DEF Live
  <2>3. ASSUME NEW i \in DOMAIN devs, Live(devs[i])
        PROVE  devs'[i].dev = registered'[devs'[i].fd]
    <3>1. devs[i].fd \in Fds
      BY <1>2 DEF Entries
    <3>2. i \in LiveEntries(f) <=> devs[i].fd = f
      BY <2>3 DEF LiveEntries
    <3> QED
      BY <1>1, <1>3, <2>1, <2>3, <3>1, <3>2 DEF ListInv
  <2>4. ASSUME NEW g \in Fds, registered'[g] # NoDevice
        PROVE  \E i \in DOMAIN devs : devs[i].fd = g /\ Live(devs[i])
    BY <1>1, <1>3, <1>4, <2>4 DEF ListInv, LiveEntries
  <2>5. ListInv'
    BY <1>1, <2>1, <2>2, <2>3, <2>4 DEF ListInv
  <2>6. PolledInv'
    BY <1>1, <2>1 DEF PolledInv, Listed, InputThreadRegisterDev, threadVars
  <2> QED
    BY <2>5, <2>6, <1>6 DEF Lists
<1>5. CASE LiveEntries(f) = {}
  <2> DEFINE n == Len(devs) + 1
  <2>1. /\ DOMAIN devs' = 1 .. n /\ \A i \in DOMAIN devs : devs'[i] = devs[i]
        /\ devs'[n] = [fd |-> f, dev |-> d, state |-> "added"]
    BY <1>1, <1>3, <1>5, AfterRegisterIs
  <2>2. \A i \in DOMAIN devs' : i \in DOMAIN devs \/ i = n
    BY <1>2, <2>1
  <2>3. Live(devs'[n]) /\ devs'[n].fd = f /\ devs'[n].dev = d
    BY <2>1 DEF Live
  <2>4. ASSUME NEW i \in DOMAIN devs', Live(devs'[i])
        PROVE  /\ devs'[i].dev = registered'[devs'[i].fd]
               /\ \A j \in DOMAIN devs' : devs'[j].fd = devs'[i].fd => j <= i
    <3>1. CASE i = n
      BY <1>2, <1>3, <2>1, <2>3, <3>1
    <3>2. CASE i \in DOMAIN devs
      <4>1. devs[i].fd # f /\ devs[i].fd \in Fds
        BY <1>2, <1>5, <2>1, <2>4, <3>2 DEF LiveEntries, Entries
      <4> QED
        BY <1>1, <1>3, <2>1, <2>2, <2>3, <2>4, <3>2, <4>1 DEF ListInv
    <3> QED
      BY <2>2, <3>1, <3>2
  <2>5. ASSUME NEW g \in Fds, registered'[g] # NoDevice
        PROVE  \E i \in DOMAIN devs' : devs'[i].fd = g /\ Live(devs'[i])
    <3>1. CASE g = f
      BY <1>2, <2>1, <2>3, <3>1
    <3>2. CASE g # f
      BY <1>1, <1>2, <1>3, <2>1, <2>5, <3>2 DEF ListInv
    <3> QED
      BY <3>1, <3>2
  <2>6. ListInv'
    BY <2>4, <2>5 DEF ListInv
  <2>7. PolledInv'
    BY <1>1, <1>2, <2>1 DEF PolledInv, Listed, InputThreadRegisterDev, threadVars
  <2> QED
    BY <2>6, <2>7, <1>6 DEF Lists
<1> QED
  BY <1>4, <1>5

LEMMA InvUnregister ==
    ASSUME Inv, Impatient = FALSE, NEW f \in Fds, Unregister(f), Patient(f),
           mainPc \in {"Setup", "Run", "Disable"}
    PROVE  Lists'
<1>1. TypeOK /\ ListInv /\ PolledInv /\ DisableInv
  BY DEF Inv, Base, Lists
<1>2. DOMAIN devs = 1 .. Len(devs) /\ Len(devs) \in Nat /\ \A i \in DOMAIN devs : devs[i] \in Entries
  BY <1>1, ListFacts
<1>3. devs' = AfterUnregister(f) /\ registered' = [registered EXCEPT ![f] = NoDevice]
      /\ registered \in [Fds -> Devices \cup {NoDevice}] /\ registered[f] # NoDevice
  BY <1>1 DEF Unregister, TypeOK
<1>4. /\ FirstEntry(f) \in DOMAIN devs
      /\ \A i \in DOMAIN devs : devs[i].fd = f <=> i = FirstEntry(f)
  BY <1>3, PatientEntry
<1>5. /\ DOMAIN devs' = DOMAIN devs
      /\ \A i \in DOMAIN devs :
            /\ devs'[i].fd = devs[i].fd /\ devs'[i].dev = devs[i].dev
            /\ devs'[i].state = IF i = FirstEntry(f) THEN "removed" ELSE devs[i].state
  BY <1>1, <1>3, AfterUnregisterIs
<1>6. \A i \in DOMAIN devs : Live(devs'[i]) <=> Live(devs[i]) /\ devs[i].fd # f
  BY <1>4, <1>5 DEF Live
<1>7. ListInv'
  <2>1. ASSUME NEW i \in DOMAIN devs, Live(devs'[i])
        PROVE  devs'[i].dev = registered'[devs'[i].fd]
    BY <1>1, <1>2, <1>3, <1>5, <1>6, <2>1 DEF ListInv, Entries
  <2>2. ASSUME NEW g \in Fds, registered'[g] # NoDevice
        PROVE  \E i \in DOMAIN devs : devs'[i].fd = g /\ Live(devs'[i])
    <3>1. g # f /\ registered[g] # NoDevice
      BY <1>3, <2>2
    <3> QED
      BY <1>1, <1>5, <1>6, <3>1 DEF ListInv
  <2> QED
    BY <1>1, <1>5, <1>6, <2>1, <2>2 DEF ListInv
<1>8. PolledInv'
  BY <1>1, <1>5 DEF PolledInv, Listed, Unregister, threadVars
<1>9. DisableInv'
  <2>1. mainPc' \in {"Disable", "DisableSignal"} => mainPc = "Disable"
    BY DEF Unregister, Signalling
  <2>2. ASSUME NEW g \in Fds, Patient(g) PROVE Patient(g)'
    <3>1. \A i \in LiveEntries(g)' : i \in LiveEntries(g)
      BY <1>5, <1>6 DEF LiveEntries
    <3>2. ASSUME NEW i \in LiveEntries(g), NEW j \in 1 .. (i - 1)
          PROVE  devs'[j].fd = devs[j].fd
      BY <1>2, <1>5 DEF LiveEntries
    <3> QED
      BY <2>2, <3>1, <3>2 DEF Patient
  <2> QED
    BY <1>1, <2>1, <2>2 DEF DisableInv
<1>10. ClosedInv' /\ ReadsRegistered'
  <2>1. mainPc' \in {"SetupSignal", "RunSignal", "DisableSignal"}
    BY DEF Unregister, Signalling
  <2>2. threadPc' # "Reading"
    BY DEF Unregister, CanLock, threadVars, Inv, Base, LockInv
  <2> QED
    BY <2>1, <2>2 DEF ClosedInv, ReadsRegistered
<1> QED
  BY <1>7, <1>8, <1>9, <1>10 DEF Lists

LEMMA InvWalkLive == ASSUME Inv, WalkLive PROVE Lists'
<1>1. TypeOK /\ ListInv /\ PolledInv /\ DisableInv /\ ClosedInv
  BY DEF Inv, Base, Lists
<1>2. DOMAIN devs = 1 .. Len(devs) /\ Len(devs) \in Nat /\ \A i \in DOMAIN devs : devs[i] \in Entries
  BY <1>1, ListFacts
<1>3. /\ walk \in DOMAIN devs /\ Live(devs[walk])
      /\ devs' = [devs EXCEPT ![walk].state = "running"]
      /\ UNCHANGED <<registered, batch, mainPc, threadPc, reading>>
      /\ polled' \subseteq polled \cup {devs[walk].fd}
      /\ threadPc = "Walk"
  BY DEF WalkLive, mainVars
<1>4. /\ DOMAIN devs' = DOMAIN devs
      /\ \A i \in DOMAIN devs : /\ devs'[i].fd = devs[i].fd /\ devs'[i].dev = devs[i].dev
                                /\ Live(devs'[i]) <=> Live(devs[i])
  BY <1>2, <1>3 DEF Live, Entries
<1>5. ListInv'
  BY <1>1, <1>3, <1>4 DEF ListInv
<1>6. PolledInv'
  BY <1>1, <1>3, <1>4 DEF PolledInv, Listed
<1>7. ASSUME NEW g \in Fds, Patient(g) PROVE Patient(g)'
  <2>1. LiveEntries(g)' = LiveEntries(g)
    BY <1>4 DEF LiveEntries
  <2>2. ASSUME NEW i \in LiveEntries(g), NEW j \in 1 .. (i - 1)
        PROVE  devs'[j].fd = devs[j].fd
    BY <1>2, <1>4 DEF LiveEntries
  <2> QED
    BY <1>7, <2>1, <2>2 DEF Patient
<1> QED
  BY <1>1, <1>3, <1>5, <1>6, <1>7 DEF Lists, DisableInv, ClosedInv, ReadsRegistered

LEMMA InvWalkRemoved == ASSUME Inv, WalkRemoved PROVE Lists'
<1>1. TypeOK /\ ListInv /\ PolledInv /\ DisableInv /\ ClosedInv
  BY DEF Inv, Base, Lists
<1> DEFINE n == Len(devs)
           Old(i) == IF i < walk THEN i ELSE i + 1
<1>2. DOMAIN devs = 1 .. n /\ n \in Nat /\ \A i \in DOMAIN devs : devs[i] \in Entries
  BY <1>1, ListFacts
<1>3. /\ walk \in 1 .. n /\ ~Live(devs[walk])
      /\ devs' = RemoveAt(devs, walk)
      /\ UNCHANGED <<registered, batch, mainPc, threadPc, reading>>
      /\ polled' = polled \ {devs[walk].fd}
      /\ threadPc = "Walk"
  BY <1>2 DEF WalkRemoved, mainVars
<1>4. DOMAIN devs' = 1 .. (n - 1) /\ \A i \in 1 .. (n - 1) : devs'[i] = devs[Old(i)]
  BY <1>1, <1>3, RemoveAtIs DEF TypeOK
<1>5. \A i \in 1 .. (n - 1) : Old(i) \in 1 .. n /\ Old(i) # walk
  BY <1>2, <1>3
<1>6. \A i, j \in 1 .. (n - 1) : Old(j) <= Old(i) <=> j <= i
  BY <1>2, <1>3
<1>7. \A i \in 1 .. n : i # walk => \E k \in 1 .. (n - 1) : Old(k) = i
  <2>1. ASSUME NEW i \in 1 .. n, i # walk PROVE \E k \in 1 .. (n - 1) : Old(k) = i
    <3>1. CASE i < walk
      <4>1. i \in 1 .. (n - 1) /\ Old(i) = i
        BY <1>2, <1>3, <3>1
      <4> QED
        BY <4>1
    <3>2. CASE i > walk
      <4>1. i - 1 \in 1 .. (n - 1) /\ Old(i - 1) = i
        BY <1>2, <1>3, <3>2
      <4> QED
        BY <4>1
    <3> QED
      BY <1>2, <1>3, <2>1, <3>1, <3>2
  <2> QED
    BY <2>1
<1> HIDE DEF Old, n
<1>8. ListInv'
  <2>1. ASSUME NEW i \in DOMAIN devs', Live(devs'[i])
        PROVE  /\ devs'[i].dev = registered'[devs'[i].fd]
               /\ \A j \in DOMAIN devs' : devs'[j].fd = devs'[i].fd => j <= i
    BY <1>1, <1>2, <1>3, <1>4, <1>5, <1>6, <2>1 DEF ListInv
  <2>2. ASSUME NEW g \in Fds, registered'[g] # NoDevice
        PROVE  \E i \in DOMAIN devs' : devs'[i].fd = g /\ Live(devs'[i])
    <3>1. PICK i \in 1 .. n : devs[i].fd = g /\ Live(devs[i])
      BY <1>1, <1>2, <1>3, <2>2 DEF ListInv
    <3>2. PICK k \in 1 .. (n - 1) : Old(k) = i
      BY <1>3, <1>7, <3>1
    <3> QED
      BY <1>4, <3>1, <3>2
  <2> QED
    BY <2>1, <2>2 DEF ListInv
<1>9. PolledInv'
  <2>1. batch \ {Hotplug} = {}
    BY <1>3 DEF Inv, Base, PcInv
  <2>2. ASSUME NEW g \in polled' PROVE Listed(g)'
    <3>1. PICK i \in 1 .. n : devs[i].fd = g /\ i # walk
      BY <1>1, <1>2, <1>3 DEF PolledInv, Listed
    <3>2. PICK k \in 1 .. (n - 1) : Old(k) = i
      BY <1>7, <3>1
    <3> QED
      BY <1>4, <3>1, <3>2 DEF Listed
  <2> QED
    BY <1>3, <2>1, <2>2 DEF PolledInv
<1>10. ASSUME NEW g \in Fds, Patient(g) PROVE Patient(g)'
  <2>1. ASSUME NEW i \in LiveEntries(g)', NEW j \in 1 .. (i - 1), ~Impatient
        PROVE  devs'[j].fd # g
    <3>1. i \in 1 .. (n - 1) /\ j \in 1 .. (n - 1) /\ ~(i <= j)
      BY <1>2, <1>4, <2>1 DEF LiveEntries
    <3>2. Old(i) \in LiveEntries(g)
      BY <1>2, <1>4, <1>5, <2>1, <3>1 DEF LiveEntries
    <3>3. Old(j) \in 1 .. (Old(i) - 1)
      BY <1>2, <1>5, <1>6, <3>1
    <3> QED
      BY <1>4, <1>10, <2>1, <3>1, <3>2, <3>3 DEF Patient
  <2> QED
    BY <2>1 DEF Patient
<1> QED
  BY <1>1, <1>3, <1>8, <1>9, <1>10 DEF Lists, DisableInv, ClosedInv, ReadsRegistered

\* A device is read with the argument of the last registration.
LEMMA InvInputReady ==
    ASSUME Inv, NEW f \in Fds, InputReady(f) PROVE Lists'
<1>1. TypeOK /\ ListInv /\ PolledInv /\ DisableInv /\ ClosedInv
  BY DEF Inv, Base, Lists
<1>2. /\ f \in batch \ {Hotplug} /\ batch' = batch \ {f}
      /\ reading' = IF MayRead(f) THEN f ELSE Hotplug
      /\ UNCHANGED <<devs, registered, polled, mainPc>>
  BY DEF InputReady, listVars, mainVars
<1>3. ReadsRegistered'
  <2>1. CASE MayRead(f)
    <3> DEFINE i == FirstEntry(f)
    <3>1. i \in DOMAIN devs /\ devs[i].fd = f
      BY <1>1, <1>2, FirstEntryIs DEF PolledInv
    <3>2. Live(devs[i]) /\ devs[i] \in Entries
      BY <1>1, <2>1, <3>1, ListFacts DEF MayRead, Live
    <3>3. devs[i].dev = registered[f] /\ registered[f] # NoDevice
      BY <1>1, <3>1, <3>2, ConstantsAssumption DEF ListInv, Entries
    <3>4. reading' = f /\ FirstEntry(f)' = i
      BY <1>2, <2>1 DEF FirstEntry
    <3> QED
      BY <1>2, <3>3, <3>4 DEF ReadsRegistered, FirstEntry
  <2>2. CASE ~MayRead(f)
    BY <1>2, <2>2 DEF ReadsRegistered
  <2> QED
    BY <2>1, <2>2
<1> QED
  BY <1>1, <1>2, <1>3 DEF Lists, ListInv, PolledInv, Listed, DisableInv, ClosedInv,
     Patient, LiveEntries

\* Steps that leave the list alone.
LEMMA InvSameList ==
    ASSUME Inv, UNCHANGED <<devs, registered>>,
           polled' = polled, batch' \subseteq batch \cup polled \cup {Hotplug},
           threadPc' = "Reading" => threadPc = "Reading" /\ reading' = reading,
           mainPc' \in {"Disable", "DisableSignal"} =>
               mainPc \in {"Disable", "DisableSignal"} \/ \A f \in Fds : Patient(f),
           mainPc' \in {"Close", "ForceUnlock", "Unlocking", "Join", "Down"} =>
               \/ mainPc \in {"Close", "ForceUnlock", "Unlocking", "Join", "Down"}
               \/ \A f \in Fds : registered[f] = NoDevice
    PROVE  Lists'
<1>1. ListInv' /\ ClosedInv'
  BY DEF Inv, Lists, ListInv, ClosedInv
<1>2. PolledInv'
  BY DEF Inv, Lists, PolledInv, Listed
<1>3. DisableInv'
  BY DEF Inv, Lists, DisableInv, Patient, LiveEntries
<1>4. ReadsRegistered'
  BY DEF Inv, Lists, ReadsRegistered, FirstEntry
<1> QED
  BY <1>1, <1>2, <1>3, <1>4 DEF Lists

LEMMA InvJoin == ASSUME Inv, Join PROVE Lists'
<1>1. /\ devs' = <<>> /\ polled' = {} /\ threadPc' = "None" /\ mainPc' \in {"Setup", "Down"}
      /\ registered' = registered /\ batch' = batch
      /\ \A f \in Fds : registered[f] = NoDevice
  BY DEF Join, Inv, Lists, ClosedInv
<1>2. batch = {}
  BY DEF Join, Inv, Base, PcInv
<1>3. ListInv'
  BY <1>1 DEF ListInv
<1>4. PolledInv' /\ DisableInv' /\ ClosedInv' /\ ReadsRegistered'
  BY <1>1, <1>2 DEF PolledInv, DisableInv, ClosedInv, ReadsRegistered
<1> QED
  BY <1>3, <1>4 DEF Lists

LEMMA InvMain ==
    ASSUME Inv, Impatient = FALSE,
           \/ InputThreadInit \/ InputThreadNotifyPipe \/ xf86VTLeave \/ xf86VTEnter
           \/ DispatchReturns \/ MainFinishes
    PROVE  Lists'
<1>1. CASE InputThreadInit
  BY <1>1, InvSameList DEF InputThreadInit, listVars
<1>2. CASE InputThreadNotifyPipe
  BY <1>2, InvSameList DEF InputThreadNotifyPipe, listVars, mainVars, threadVars
<1>3. CASE xf86VTLeave \/ xf86VTEnter
  BY <1>3, InvSameList DEF xf86VTLeave, xf86VTEnter, listVars, threadVars
<1>4. CASE DispatchReturns
  BY <1>4, InvSameList DEF DispatchReturns, listVars, threadVars
<1>5. CASE SignalHotplug
  BY <1>5, InvSameList, SignalReturns DEF SignalHotplug, listVars, threadVars
<1>6. CASE DisableAllDevices
  <2>1. CASE \E f \in Fds : registered[f] # NoDevice
    <3>1. PICK f \in Fds : Unregister(f)
      BY <1>6, <2>1 DEF DisableAllDevices
    <3>2. mainPc = "Disable" /\ Patient(f)
      BY <1>6 DEF DisableAllDevices, Inv, Lists, DisableInv
    <3> QED
      BY <3>1, <3>2, InvUnregister
  <2>2. CASE ~(\E f \in Fds : registered[f] # NoDevice)
    BY <1>6, <2>2, InvSameList DEF DisableAllDevices, listVars, threadVars
  <2> QED
    BY <2>1, <2>2
<1>7. CASE CloseHotplugPipe
  BY <1>7, InvSameList DEF CloseHotplugPipe, listVars, threadVars
<1>8. CASE TryLock
  BY <1>8, InvSameList DEF TryLock, listVars, threadVars
<1>9. CASE ForceUnlock
  BY <1>9, InvSameList DEF ForceUnlock, listVars, threadVars
<1>10. CASE Join
  BY <1>10, InvJoin
<1> QED
  BY <1>1, <1>2, <1>3, <1>4, <1>5, <1>6, <1>7, <1>8, <1>9, <1>10
     DEF MainFinishes, InputThreadFini

LEMMA InvThread == ASSUME Inv, InputThreadDoWork PROVE Lists'
<1>1. CASE Check
  BY <1>1, InvSameList DEF Check, listVars, mainVars
<1>2. CASE LockForUpdate
  BY <1>2, InvSameList DEF LockForUpdate, mainVars
<1>3. CASE WalkDone
  BY <1>3, InvSameList DEF WalkDone, listVars, mainVars
<1>4. CASE OspollWait
  BY <1>4, InvSameList DEF OspollWait, Readable, listVars, mainVars
<1>5. CASE InputThreadPipeNotify
  BY <1>5, InvSameList DEF InputThreadPipeNotify, listVars, mainVars
<1>6. CASE InputReadyDone
  BY <1>6, InvSameList DEF InputReadyDone, listVars, mainVars
<1>7. CASE CallbacksDone
  BY <1>7, InvSameList DEF CallbacksDone, listVars, mainVars
<1>8. CASE InputThreadFillPipe
  BY <1>8, InvSameList DEF InputThreadFillPipe, listVars, mainVars
<1> QED
  BY <1>1, <1>2, <1>3, <1>4, <1>5, <1>6, <1>7, <1>8, InvWalkLive, InvWalkRemoved,
     InvInputReady DEF InputThreadDoWork

LEMMA InvStep == ASSUME Impatient = FALSE, Inv, [Next]_vars PROVE Inv'
<1>1. Base'
  BY BaseStep DEF Inv
<1>2. ASSUME NEW f \in Fds, InputThreadUnregisterDev(f) PROVE Lists'
  BY <1>2, InvUnregister DEF InputThreadUnregisterDev, RunsDrivers
<1>3. ASSUME NEW f \in Fds, DataArrives(f) PROVE Lists'
  BY <1>3, InvSameList DEF DataArrives, listVars, mainVars, threadVars
<1>4. ASSUME UNCHANGED vars PROVE Lists'
  BY <1>4, InvSameList DEF vars, listVars, mainVars, threadVars
<1>5. Lists'
  BY <1>2, <1>3, <1>4, InvRegister, InvMain, InvThread DEF Next, Finished
<1> QED
  BY <1>1, <1>5 DEF Inv

LEMMA InvInit == Init => Inv
<1> SUFFICES ASSUME Init PROVE Inv
  OBVIOUS
<1>1. Base
  BY BaseInit
<1>2. ListInv /\ PolledInv
  BY DEF Init, ListInv, PolledInv
<1>3. DisableInv /\ ClosedInv /\ ReadsRegistered
  BY DEF Init, DisableInv, ClosedInv, ReadsRegistered
<1> QED
  BY <1>1, <1>2, <1>3 DEF Inv, Lists

\* The invariant of the list of devices, where no descriptor is unregistered
\* while an earlier removal of it waits for the thread (inputthread.c).
THEOREM InvHolds == ASSUME Impatient = FALSE PROVE Spec => []Inv
<1>1. Init => Inv
  BY InvInit
<1>2. Inv /\ [Next]_vars => Inv'
  BY InvStep
<1> QED
  BY <1>1, <1>2, PTL DEF Spec

\* ReadsRegistered: a read procedure runs only for the device that is
\* registered for its descriptor (InputReady).
THEOREM OnlyRegisteredIsRead ==
    ASSUME Impatient = FALSE PROVE Spec => []ReadsRegistered
<1>1. Inv => ReadsRegistered
  BY DEF Inv, Lists
<1> QED
  BY <1>1, InvHolds, PTL

\* ListMatchesCalls: the list says what the main thread last asked for, however
\* far the thread has come with it (InputThreadRegisterDev,
\* InputThreadUnregisterDev).
THEOREM ListMatches ==
    ASSUME Impatient = FALSE PROVE Spec => []ListMatchesCalls
<1>1. ASSUME Inv PROVE ListMatchesCalls
  <2>1. TypeOK /\ ListInv
    BY <1>1 DEF Inv, Base, Lists
  <2>2. \A i \in DOMAIN devs : devs[i] \in Entries
    BY <2>1, ListFacts
  <2>3. ASSUME NEW f \in Fds, registered[f] = NoDevice,
               NEW i \in DOMAIN devs, devs[i].fd = f
        PROVE  ~Live(devs[i])
    BY <2>1, <2>2, <2>3, ConstantsAssumption DEF ListInv, Entries
  <2>4. ASSUME NEW f \in Fds, registered[f] # NoDevice
        PROVE  \E i \in DOMAIN devs :
                  /\ devs[i].fd = f /\ Live(devs[i]) /\ devs[i].dev = registered[f]
                  /\ \A j \in DOMAIN devs :
                        devs[j].fd = f => j <= i /\ (Live(devs[j]) => j = i)
    <3>1. PICK i \in DOMAIN devs : devs[i].fd = f /\ Live(devs[i])
      BY <2>1, <2>4 DEF ListInv
    <3>2. DOMAIN devs = 1 .. Len(devs) /\ Len(devs) \in Nat
      BY <2>1, ListFacts
    <3>3. devs[i].dev = registered[f] /\ \A j \in DOMAIN devs : devs[j].fd = f => j <= i
      BY <2>1, <3>1 DEF ListInv
    <3>4. ASSUME NEW j \in DOMAIN devs, devs[j].fd = f, Live(devs[j]) PROVE j = i
      <4>1. i <= j /\ j <= i
        BY <2>1, <3>1, <3>4 DEF ListInv
      <4> QED
        BY <3>2, <4>1
    <3> QED
      BY <3>1, <3>3, <3>4
  <2> QED
    BY <2>3, <2>4 DEF ListMatchesCalls
<1> QED
  BY <1>1, InvHolds, PTL

=============================================================================
