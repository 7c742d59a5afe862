------------------------------ MODULE Scheduler ------------------------------
(***************************************************************************)
(* Which of the clients that are ready the server serves next, and for how *)
(* long (server/dix/dispatch.c, SmartScheduleClient and the loop of        *)
(* Dispatch around it).  Dispatch leaves the choice open; this module is   *)
(* about the choice only, and leaves open what a client does in its turn.  *)
(*                                                                         *)
(* A client is its index.  Time passes in ticks of SmartScheduleInterval.  *)
(* What the code computes from it, the time since a tick it has noted, is  *)
(* counted here as far as the code compares it with anything.              *)
(***************************************************************************)
EXTENDS Integers, Sequences, SequencesExt, XorgList

CONSTANTS
    Clients,           \* the indexes of the clients
    Modulus,           \* 256: indexes are compared in eight bits
    MaxPriority,       \* SMART_MAX_PRIORITY
    Priorities,        \* the values of client->priority, which SYNC can set
    MaxSlice,          \* SmartScheduleMaxSlice, in ticks
    LongRun,           \* the 1000 ms after which slices grow, in ticks
    MaxLimited,        \* bound: users of the limited latency
    Interactive,       \* clients that input events are delivered to
    Quitters,          \* clients that may be closed
    Killing,           \* whether a client may kill another one
    LongLived          \* whether SmartScheduleTime may outgrow an int

\* client->priority is an int.
MaxInt == 2147483647

ASSUME ConstantsAssumption ==
    /\ Clients \subseteq Nat \ {0}
    /\ Modulus \in Nat \ {0}
    /\ MaxPriority \in Nat
    /\ 0 \in Priorities /\ Priorities \subseteq -MaxInt .. MaxInt
    /\ MaxSlice \in Nat \ {0} /\ LongRun \in Nat /\ MaxLimited \in Nat
    /\ Interactive \subseteq Clients /\ Quitters \subseteq Clients
    /\ Killing \in BOOLEAN /\ LongLived \in BOOLEAN

\* The server's own client has this index; it is never scheduled.
NoClient == 0

\* SMART_MIN_PRIORITY
MinPriority == - MaxPriority

Levels == MinPriority .. MaxPriority

MaxIdle == 2 * MaxSlice

VARIABLES
    ready,                       \* ready_clients
    priority, smart_priority,    \* fields of the clients
    idle,                        \* ticks since smart_stop_tick
    SmartLastIndex, SmartLastClient,
    run,                         \* ticks since smart_start_tick of SmartLastClient
    SmartScheduleSlice, SmartScheduleLatencyLimited,
    client,                      \* whose turn it is
    ticks,                       \* ticks since its turn has begun, or ended
    wide,                        \* SmartScheduleTime does not fit an int
    lastRun,                     \* history: whose turn it was last
    overtook                     \* history: who had a turn while a client waited

clientVars == <<priority, smart_priority>>
timeVars == <<idle, run, ticks, wide>>
sliceVars == <<SmartScheduleSlice, SmartScheduleLatencyLimited>>
lastVars == <<SmartLastIndex, SmartLastClient, lastRun>>
vars == <<ready, clientVars, timeVars, sliceVars, lastVars, client, overtook>>

Init ==
    /\ ready = <<>>
    /\ priority = [c \in Clients |-> 0] /\ smart_priority = [c \in Clients |-> 0]
    /\ idle = [c \in Clients |-> 0]
    /\ SmartLastIndex = [l \in Levels |-> 0] /\ SmartLastClient = NoClient
    /\ run = 0
    /\ SmartScheduleSlice = 1 /\ SmartScheduleLatencyLimited = 0
    /\ client = NoClient
    /\ ticks = 0 /\ wide = FALSE
    /\ lastRun = NoClient /\ overtook = [c \in Clients |-> {}]

-----------------------------------------------------------------------------
(* SmartScheduleClient                                                     *)

\* Mutant: nobody is praised.
PraisedNever == smart_priority

\* Clients that have not run for a while are praised.
Praised ==
    [c \in Clients |->
        IF c \in Range(ready) /\ idle[c] >= 2 * SmartScheduleSlice /\ smart_priority[c] < 0
        THEN smart_priority[c] + 1 ELSE smart_priority[c]]

Robin(level, c) == (c - SmartLastIndex[level]) % Modulus

\* b is served before c, which stands before or behind it in the list.
Ahead(p, b, c) ==
    \/ priority[b] > priority[c]
    \/ /\ priority[b] = priority[c]
       /\ \/ p[b] > p[c]
          \/ p[b] = p[c] /\ Robin(p[b], b) > Robin(p[c], c)

\* Among equals the first one in the list.
Best(p) ==
    ready[CHOOSE i \in DOMAIN ready :
        /\ \A j \in DOMAIN ready : ~Ahead(p, ready[j], ready[i])
        /\ \A j \in 1 .. (i - 1) : Ahead(p, ready[i], ready[j])]

\* The difference to a tick that is noted now.  A field of the client is an int:
\* a time that does not fit is noted as one that is long past.
Noted(longPast) == IF wide THEN longPast ELSE 0

\* Who had a turn while c waited, and the two had the same priorities throughout.
SamePriorities(p, b, c) == priority[b] = priority[c] /\ p[b] = p[c]

Overtaking(p, b) ==
    [c \in Clients |->
        IF c = b \/ c \notin Range(ready) \/ p[c] # smart_priority[c] THEN {}
        ELSE {d \in overtook[c] : p[d] = smart_priority[d]}
             \cup (IF SamePriorities(p, b, c) THEN {b} ELSE {})]

\* Mutant: the client that is served is not remembered.
ScheduleUnmarked(p, b) ==
    /\ client' = b /\ ticks' = 0
    /\ smart_priority' = p
    /\ SmartLastClient' = b /\ UNCHANGED SmartLastIndex
    /\ run' = IF SmartLastClient = b THEN run ELSE Noted(LongRun + 1)
    /\ overtook' = Overtaking(p, b)
    /\ UNCHANGED SmartScheduleSlice

Schedule(p, b) ==
    /\ client' = b /\ ticks' = 0
    /\ smart_priority' = p
    /\ SmartLastIndex' = [SmartLastIndex EXCEPT ![p[b]] = b]
    /\ SmartLastClient' = b
    /\ run' = IF SmartLastClient = b THEN run ELSE Noted(LongRun + 1)
    /\ SmartScheduleSlice' =
           IF Len(ready) > 1 \/ SmartScheduleLatencyLimited > 0 THEN 1
           ELSE IF run' > LongRun /\ SmartScheduleSlice < MaxSlice
           THEN SmartScheduleSlice + 1 ELSE SmartScheduleSlice
    /\ overtook' = Overtaking(p, b)

SmartScheduleClient ==
    /\ client = NoClient /\ ready # <<>>
    /\ Schedule(Praised, Best(Praised))
    /\ UNCHANGED <<ready, priority, SmartScheduleLatencyLimited, idle, wide, lastRun>>

-----------------------------------------------------------------------------
(* The turn of a client, the loop of Dispatch                              *)

\* What c was overtaken by, and whom it has overtaken, is not compared any more.
Forget(c) == [d \in Clients |-> IF d = c THEN {} ELSE overtook[d] \ {c}]

NotWaiting(c) == [overtook EXCEPT ![c] = {}]

\* Mutant: the end of the turn is not noted.
EndOfTurnUnnoted ==
    /\ client' = NoClient /\ ticks' = 0 /\ lastRun' = client
    /\ UNCHANGED idle

EndOfTurn ==
    /\ client' = NoClient /\ ticks' = 0 /\ lastRun' = client
    /\ idle' = IF client = SmartLastClient
               THEN [idle EXCEPT ![client] = Noted(MaxIdle)] ELSE idle

\* Mutant: no floor.
SliceExpiredWithoutFloor ==
    /\ client # NoClient /\ ticks >= SmartScheduleSlice
    /\ smart_priority' = [smart_priority EXCEPT ![client] = @ - 1]
    /\ overtook' = Forget(client)
    /\ EndOfTurn
    /\ UNCHANGED <<ready, priority, run, wide, sliceVars, SmartLastIndex, SmartLastClient>>

\* The client is penalized.
SliceExpired ==
    /\ client # NoClient /\ ticks >= SmartScheduleSlice
    /\ IF smart_priority[client] > MinPriority
       THEN /\ smart_priority' = [smart_priority EXCEPT ![client] = @ - 1]
            /\ overtook' = Forget(client)
       ELSE UNCHANGED <<smart_priority, overtook>>
    /\ EndOfTurn
    /\ UNCHANGED <<ready, priority, run, wide, sliceVars, SmartLastIndex, SmartLastClient>>

\* There was nothing to read, and the client is not ready any more; or a part of
\* a request, an error, or a request that yields, and it stays ready.
TurnEnds ==
    /\ client # NoClient
    /\ \/ ready' = Without(ready, client) /\ overtook' = NotWaiting(client)
       \/ UNCHANGED <<ready, overtook>>
    /\ EndOfTurn
    /\ UNCHANGED <<clientVars, run, wide, sliceVars, SmartLastIndex, SmartLastClient>>

\* ProcSyncSetPriority, for any client; it yields.
SetPriority(c, p) ==
    /\ client # NoClient /\ priority[c] # p
    /\ priority' = [priority EXCEPT ![c] = p]
    /\ overtook' = Forget(c)
    /\ EndOfTurn
    /\ UNCHANGED <<ready, smart_priority, run, wide, sliceVars, SmartLastIndex,
                   SmartLastClient>>

\* CloseDownClient, as far as scheduling is concerned.  The next client with this
\* index begins afresh, as if InitClient were called at once; until it is ready
\* it is not scheduled.
Close(c) ==
    /\ ready' = Without(ready, c)
    /\ priority' = [priority EXCEPT ![c] = 0]
    /\ smart_priority' = [smart_priority EXCEPT ![c] = 0]
    /\ idle' = [idle EXCEPT ![c] = Noted(MaxIdle)]
    /\ SmartLastClient' = NoClient
    /\ lastRun' = IF c \in {client, lastRun} THEN NoClient ELSE lastRun
    /\ overtook' = Forget(c)
    /\ UNCHANGED <<run, wide, sliceVars, SmartLastIndex>>

\* It has failed in its turn or kills itself, or its callback finds it gone.
CloseDownClient(c) ==
    /\ c \in Quitters /\ client \in {c, NoClient}
    /\ client' = NoClient /\ ticks' = IF client = c THEN 0 ELSE ticks
    /\ Close(c)

\* ProcKillClient; the turn goes on.
KillClient(c) ==
    /\ Killing /\ c \in Quitters /\ client \notin {c, NoClient}
    /\ Close(c)
    /\ UNCHANGED <<client, ticks>>

-----------------------------------------------------------------------------
(* Around it                                                               *)

\* mark_client_ready: requests of the client have arrived, or it is attended to.
MarkReady(c) ==
    /\ c \notin Range(ready)
    /\ ready' = Append(ready, c)
    /\ UNCHANGED <<clientVars, timeVars, sliceVars, lastVars, client, overtook>>

\* mark_client_not_ready, mark_client_grab: it is ignored, parked by a grab, or gone
\* with its resources retained.
MarkNotReady(c) ==
    /\ c \in Range(ready)
    /\ ready' = Without(ready, c)
    /\ overtook' = NotWaiting(c)
    /\ UNCHANGED <<clientVars, timeVars, sliceVars, lastVars, client>>

\* A key or a button is delivered: TryClientEvents.
InputEvent(c) ==
    /\ c \in Interactive /\ smart_priority[c] < MaxPriority
    /\ smart_priority' = [smart_priority EXCEPT ![c] = @ + 1]
    /\ overtook' = Forget(c)
    /\ UNCHANGED <<ready, priority, timeVars, sliceVars, lastVars, client>>

EnableLimitedSchedulingLatency ==
    /\ SmartScheduleLatencyLimited < MaxLimited
    /\ SmartScheduleLatencyLimited' = SmartScheduleLatencyLimited + 1
    /\ SmartScheduleSlice' = 1
    /\ UNCHANGED <<ready, clientVars, timeVars, lastVars, client, overtook>>

DisableLimitedSchedulingLatency ==
    /\ SmartScheduleLatencyLimited > 0
    /\ SmartScheduleLatencyLimited' = SmartScheduleLatencyLimited - 1
    /\ UNCHANGED <<ready, clientVars, timeVars, SmartScheduleSlice, lastVars, client, overtook>>

Later(n, most) == IF n < most THEN n + 1 ELSE n

\* SmartScheduleTimer; the timer runs while clients are ready.
Tick ==
    /\ client # NoClient \/ ready # <<>>
    /\ idle' = [c \in Clients |-> Later(idle[c], MaxIdle)]
    /\ run' = Later(run, LongRun + 1)
    /\ ticks' = Later(ticks, MaxIdle)
    /\ UNCHANGED <<ready, clientVars, wide, sliceVars, lastVars, client, overtook>>

\* After 2^31 milliseconds.
Outgrow ==
    /\ LongLived /\ ~wide
    /\ wide' = TRUE
    /\ UNCHANGED <<ready, clientVars, idle, run, ticks, sliceVars, lastVars, client, overtook>>

-----------------------------------------------------------------------------
Serve == SliceExpired \/ TurnEnds

Next ==
    \/ SmartScheduleClient \/ Serve
    \/ \E c \in Clients :
        \/ \E p \in Priorities : SetPriority(c, p)
        \/ CloseDownClient(c) \/ KillClient(c)
        \/ MarkReady(c) \/ MarkNotReady(c) \/ InputEvent(c)
    \/ EnableLimitedSchedulingLatency \/ DisableLimitedSchedulingLatency
    \/ Tick \/ Outgrow

Spec == Init /\ [][Next]_vars

\* Dispatch comes back to the scheduler, turns end, and time passes.
FairSpec ==
    Spec /\ WF_vars(SmartScheduleClient) /\ WF_vars(Serve) /\ WF_vars(Tick)

-----------------------------------------------------------------------------
(* Properties                                                              *)

\* SmartLastIndex has an element for every priority that is reached, and nobody
\* is twice on the list.
TypeOK ==
    /\ ready \in Seq(Clients) /\ Once(ready)
    /\ priority \in [Clients -> Priorities] /\ smart_priority \in [Clients -> Levels]
    /\ idle \in [Clients -> 0 .. MaxIdle] /\ run \in 0 .. (LongRun + 1)
    /\ ticks \in 0 .. MaxIdle /\ wide \in BOOLEAN
    /\ SmartLastIndex \in [Levels -> Clients \cup {NoClient}]
    /\ SmartLastClient \in Clients \cup {NoClient}
    /\ SmartScheduleSlice \in 1 .. MaxSlice
    /\ SmartScheduleLatencyLimited \in 0 .. MaxLimited
    /\ client \in Clients \cup {NoClient} /\ lastRun \in Clients \cup {NoClient}
    /\ overtook \in [Clients -> SUBSET Clients]

\* Nobody has two turns while another client with the same priorities waits:
\* the clients are served in round robin fashion (SmartScheduleClient).
InTurn ==
    [][client' \notin {client, NoClient} =>
          \A c \in Range(ready) \ {client'} :
              SamePriorities(smart_priority, client', c)
                  /\ SamePriorities(smart_priority', client', c)
                  /\ smart_priority'[c] = smart_priority[c]
              => client' \notin overtook[c]]_vars

\* Who has just had a turn is not praised for having been idle, as long as nobody
\* was closed since the turn began and the time fits an int (SmartScheduleClient,
\* Dispatch).
PraisedWhenIdle ==
    [][/\ client' \notin {client, NoClient} /\ ~wide
       /\ lastRun # NoClient /\ SmartLastClient = lastRun /\ ticks < 2 * SmartScheduleSlice
       => smart_priority'[lastRun] <= smart_priority[lastRun]]_vars

\* A client that stays ready has its turn again and again, however many slices it
\* has used up and whatever the others do in their turns, unless some of them have
\* a higher priority or have been raised above the rest by input events.
TurnComes ==
    \A c \in Clients :
        <>[](/\ c \in Range(ready)
             /\ \A d \in Clients : priority[d] <= priority[c] /\ smart_priority[d] <= 0)
            => []<>(client = c)

=============================================================================
