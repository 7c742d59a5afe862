------------------------------ MODULE Dispatch ------------------------------
(***************************************************************************)
(* The single-threaded request dispatcher of the server: the main loop     *)
(* Dispatch(), WaitForSomething() with the edge-triggered epoll beneath    *)
(* it, the ready and saved-ready lists, the server grab, ignored and       *)
(* sleeping clients, and the life of a client slot from accept() to        *)
(* CloseDownClient().                                                      *)
(*                                                                         *)
(* Data is reduced to what the properties tell apart.  A request is up to  *)
(* two units of input, so that a read can end in the middle of one; its    *)
(* kind is chosen when it is executed, except for a request that was put back   *)
(* by ResetCurrentRequest, which keeps its kind ("pending").  The order in *)
(* which the scheduler serves the ready clients is left open.              *)
(***************************************************************************)
EXTENDS Integers, FiniteSets

CONSTANTS
    Whole,            \* units of input in a request: 2, or 1 where no read
                      \* ends inside a request
    LimitClients,     \* size of clients[]; slot 0 is the server itself
    Window,           \* bound: most units a client has unread and buffered
    Requests,         \* the request kinds clients use in this instance
    Quitters,         \* the clients that may drop their connection
    Settled,          \* clients that have connected before the instance starts
    AtReset,          \* values of dispatchExceptionAtReset the command line
                      \* may have set: "none", "reset", "terminate"
    TerminateDelay    \* whether -terminate was given a delay

RequestKinds == {"NoOperation", "BadRequest", "GrabServer", "UngrabServer",
                 "GrabControlOn", "GrabControlOff", "Sleep", "KillClient",
                 "KillAllTemporary", "RetainPermanent", "RetainTemporary",
                 "DestroyAll", "DisconnectOn", "DisconnectOff"}

ASSUME ConstantsAssumption ==
    /\ LimitClients \in Nat /\ LimitClients > 1
    /\ Whole \in {1, 2}
    /\ Window \in Nat /\ Window >= Whole
    /\ Requests \subseteq RequestKinds
    /\ Quitters \subseteq 1 .. (LimitClients - 1)
    /\ Settled \in 0 .. (LimitClients - 1)
    /\ AtReset \subseteq {"none", "reset", "terminate"}
    /\ TerminateDelay \in BOOLEAN

Clients  == 1 .. (LimitClients - 1)
NoClient == 0      \* grabState == GrabNone; also the listening socket in "reported"

VARIABLES
    \* the dispatching thread
    pc,                \* where in Dispatch() / WaitForSomething() it is
    cur,               \* Dispatch()'s local "client"
    isItTimeToYield,
    result,            \* what the request handler returned
    reported,          \* epoll events returned and not yet given to a callback
    \* dix: the client table
    clientState, closeDownMode,
    failed,            \* clients with noClientException # Success
    terminable,        \* XFixes disconnect mode "Terminate"
    nClients, nextFreeClientID,
    \* dix: scheduling
    ready, saved,      \* ready_clients, saved_ready_clients
    grabClient,        \* grabClient, grabState and the os layer's GrabInProgress
    grabWaiters,
    sleepQueue,        \* entries of each client in the sleep queue
    workQueue,         \* clients with a signalled sleep function in the work queue
    \* os: the connections
    ignoreCount,       \* OS_COMM_IGNORED is ignoreCount > 0
    impervious,        \* OS_COMM_GRAB_IMPERVIOUS
    connected,         \* trans_conn # NULL
    hungUp,            \* the peer is gone, as the kernel knows
    socket,            \* units unread in the kernel
    input,             \* units in the input buffer
    pending,           \* kind of the request that was put back, or "none"
    armed,             \* fds with an epoll edge that was not reported yet
    \* leaving the loop
    dispatchException, exceptionTimer,
    dispatchExceptionAtReset    \* set by the command line, never changed

threadVars == <<pc, cur, isItTimeToYield, result, reported>>
tableVars  == <<clientState, closeDownMode, failed, terminable, nClients,
                nextFreeClientID>>
listVars   == <<ready, saved>>
grabVars   == <<grabClient, grabWaiters>>
sleepVars  == <<sleepQueue, workQueue>>
connVars   == <<ignoreCount, impervious, connected, hungUp, socket, input,
                pending, armed>>
exitVars   == <<dispatchException, exceptionTimer, dispatchExceptionAtReset>>
vars == <<threadVars, tableVars, listVars, grabVars, sleepVars, connVars,
          exitVars>>

Init ==
    /\ pc = "Wait" /\ cur = 1 /\ isItTimeToYield = FALSE
    /\ result = "Success" /\ reported = {}
    /\ clientState = [c \in Clients |-> IF c <= Settled THEN "Running" ELSE "Null"]
    /\ closeDownMode = [c \in Clients |-> "DestroyAll"]
    /\ failed = {} /\ terminable = {}
    /\ nClients = Settled /\ nextFreeClientID = Settled + 1
    /\ ready = {} /\ saved = {}
    /\ grabClient = NoClient /\ grabWaiters = {}
    /\ sleepQueue = [c \in Clients |-> 0] /\ workQueue = {}
    /\ ignoreCount = [c \in Clients |-> 0] /\ impervious = {}
    /\ connected = 1 .. Settled /\ hungUp = {}
    /\ socket = [c \in Clients |-> 0] /\ input = [c \in Clients |-> 0]
    /\ pending = [c \in Clients |-> "none"] /\ armed = {}
    /\ dispatchException = FALSE /\ exceptionTimer = FALSE
    /\ dispatchExceptionAtReset \in AtReset

-----------------------------------------------------------------------------
(* Helpers *)

clientGone(c) == clientState[c] = "Retained"
Live(c)       == clientState[c] \in {"Initial", "Running"}

\* Mutant: the grab does not mute other connections.
ListenToAnyone(c, grab, ignored, imp) == ignored[c] = 0

\* listen_to_client() for given values of the grab, the ignore counts and
\* the impervious flags.
ListenTo(c, grab, ignored, imp) ==
    ignored[c] = 0 /\ (grab \in {NoClient, c} \/ c \in imp)

listen_to_client(c) == ListenTo(c, grabClient, ignoreCount, impervious)

\* The clients whose fd has something to report once epoll_mod has armed it
\* again: a hangup always, data only while the fd is listened to.
Pollable(grab, ignored, imp) ==
    {c \in connected : c \in hungUp
                       \/ (socket[c] > 0 /\ ListenTo(c, grab, ignored, imp))}

\* set_poll_client(c): ospoll_listen or ospoll_mute, both through epoll_mod.
ArmedAfterSetPoll(c, grab, ignored, imp) ==
    IF c \in connected
    THEN (armed \ {c}) \cup ({c} \cap Pollable(grab, ignored, imp))
    ELSE armed

MinOf(S) == CHOOSE m \in S : \A n \in S : m <= n

\* Mutant: the scan of the mask stops one word too early.
NoGrabWaiter(W) == {w \in W : \A v \in W : v \div 32 < w \div 32}

\* The waiter UngrabServer picks: the last nonzero word of the mask, its
\* lowest bit.  {} when nobody waits.
NextGrabWaiter(W) ==
    {w \in W : /\ \A v \in W : v \div 32 <= w \div 32
               /\ \A v \in W : v \div 32 = w \div 32 => w <= v}

\* XFixesShouldDisconnectClient over clients[].
ShouldDisconnectRemainingClients(states) ==
    \A c \in Clients :
        states[c] # "Null" => dispatchExceptionAtReset = "terminate" /\ c \in terminable

\* SetDispatchExceptionTimer(), called when "due" holds.
SetDispatchExceptionTimer(due) ==
    /\ dispatchException' =
          \/ dispatchException
          \/ due /\ dispatchExceptionAtReset = "reset"
          \/ due /\ dispatchExceptionAtReset = "terminate" /\ ~TerminateDelay
    /\ exceptionTimer' =
          \/ exceptionTimer
          \/ due /\ dispatchExceptionAtReset = "terminate" /\ TerminateDelay
    /\ UNCHANGED dispatchExceptionAtReset

-----------------------------------------------------------------------------
(* UngrabServer() and AttendClient(), as the values they leave behind *)

\* Mutant: AttendClient is called twice.
AttendCountsTwice(woken) ==
    [c \in Clients |-> IF c \in woken THEN ignoreCount[c] - 2 ELSE ignoreCount[c]]

\* AttendClient on each client of "woken".
AttendCounts(woken) ==
    [c \in Clients |-> IF c \in woken THEN ignoreCount[c] - 1 ELSE ignoreCount[c]]

\* Mutant: mark_client_ungrab is forgotten.
ReadyWithoutSaved(woken) == ready \cup {w \in woken : ignoreCount[w] = 1}

\* mark_client_ungrab, then AttendClient of the woken waiter, which marks it
\* ready when its ignore count drops to zero.
ReadyAfterUngrab(woken) ==
    ready \cup saved \cup {w \in woken : ignoreCount[w] = 1}

\* Mutant: the bit of the woken waiter is not cleared.
WaitersKept(woken) == grabWaiters

WaitersAfterUngrab(woken) == grabWaiters \ woken

\* Mutant: the descriptors are not armed again.
ArmedAsBefore(woken, counts) == armed

\* ListenToAllClients: if a grab was on, set_poll_clients arms every fd again;
\* AttendClient arms the fd of the woken waiter.
ArmedAfterUngrab(woken, counts) ==
    IF grabClient = NoClient
    THEN armed \cup {w \in woken : counts[w] = 0
                        /\ w \in Pollable(NoClient, counts, impervious)}
    ELSE Pollable(NoClient, counts, impervious)

\* Everything CloseDownClient(c) does, for a client whose closeDownMode is
\* "mode".  A client that is already gone is destroyed; a live one first
\* gives up its server grab, its place among the waiters, its sleep (its
\* sleep function is signalled, run by ProcessWorkQueueZombies and calls
\* ClientWakeup), its connection and its place in the ready lists.  Of the
\* variables, only those of the thread other than "reported" are left open.
CloseDownClient(c, mode) ==
    LET gone    == clientGone(c)
        destroy == gone \/ mode = "DestroyAll"
        ungrab  == ~gone /\ grabClient = c
        woken   == IF ungrab THEN NextGrabWaiter(grabWaiters) ELSE {}
        counts  == [AttendCounts(woken) EXCEPT ![c] = 0]
        states  == [clientState EXCEPT ![c] = IF destroy THEN "Null" ELSE "Retained"]
        running == IF clientState[c] = "Running" THEN nClients - 1 ELSE nClients
    IN  /\ grabClient' = IF ungrab THEN NoClient ELSE grabClient
        /\ grabWaiters' = IF gone THEN grabWaiters
                          ELSE WaitersAfterUngrab(woken) \ {c}
        /\ ignoreCount' = counts
        /\ ready' = (IF ungrab THEN ReadyAfterUngrab(woken) ELSE ready) \ {c}
        /\ saved' = (IF ungrab THEN {} ELSE saved) \ {c}
        /\ sleepQueue' = [sleepQueue EXCEPT ![c] = 0]
        /\ workQueue' = workQueue \ {c}
        /\ connected' = connected \ {c}
        /\ hungUp' = hungUp \ {c}
        /\ socket' = [socket EXCEPT ![c] = 0]
        /\ input' = [input EXCEPT ![c] = 0]
        /\ pending' = [pending EXCEPT ![c] = "none"]
        /\ armed' = (IF ungrab THEN ArmedAfterUngrab(woken, counts) ELSE armed) \ {c}
        /\ reported' = reported \ {<<c, "READ">>, <<c, "ERROR">>}
        /\ impervious' = impervious \ {c}
        /\ nClients' = running
        /\ clientState' = states
        /\ closeDownMode' = [closeDownMode EXCEPT ![c] =
                                IF destroy THEN "DestroyAll" ELSE mode]
        /\ failed' = IF destroy THEN failed \ {c} ELSE failed
        /\ terminable' = IF destroy THEN terminable \ {c} ELSE terminable
        /\ nextFreeClientID' = IF destroy /\ c < nextFreeClientID
                               THEN c ELSE nextFreeClientID
        /\ SetDispatchExceptionTimer(
              \/ clientState[c] = "Running" /\ destroy /\ running = 0
              \/ ShouldDisconnectRemainingClients(states))

-----------------------------------------------------------------------------
(* The clients, at the other end of the connections *)

\* Half a request arrives.  The kernel raises an edge only while the fd is
\* listened to; otherwise epoll_mod finds the data when it is listened to.
Send(c) ==
    /\ c \in connected \ hungUp
    /\ socket[c] + input[c] < Window
    /\ socket' = [socket EXCEPT ![c] = @ + 1]
    /\ armed' = IF listen_to_client(c) THEN armed \cup {c} ELSE armed
    /\ UNCHANGED <<threadVars, tableVars, listVars, grabVars, sleepVars, exitVars,
                   ignoreCount, impervious, connected, hungUp, input, pending>>

\* The peer closes.  epoll reports a hangup whether or not the fd is muted.
HangUp(c) ==
    /\ c \in Quitters
    /\ c \in connected \ hungUp
    /\ hungUp' = hungUp \cup {c}
    /\ armed' = armed \cup {c}
    /\ UNCHANGED <<threadVars, tableVars, listVars, grabVars, sleepVars, exitVars,
                   ignoreCount, impervious, connected, socket, input, pending>>

-----------------------------------------------------------------------------
(* Output that fails, signals to sleepers, the terminate timer *)

\* WriteToClient(c) meets a write error: AbortClient closes the descriptor
\* and marks the client ready, MarkClientException condemns it.  Events are
\* written to any client whenever input or another client's request is
\* processed, and when output is flushed.
AbortClient(c) ==
    /\ pc \in {"Wait", "Serve", "Execute"}
    /\ c \in connected \cap hungUp
    /\ connected' = connected \ {c}
    /\ armed' = armed \ {c}
    /\ ready' = IF c \in saved THEN ready ELSE ready \cup {c}
    /\ failed' = failed \cup {c}
    /\ UNCHANGED <<threadVars, clientState, closeDownMode, terminable, nClients,
                   nextFreeClientID, saved, grabVars, sleepVars, exitVars,
                   ignoreCount, impervious, hungUp, socket, input, pending>>

\* ClientSignal(c), from a poll callback or from another client's request.
ClientSignal(c) ==
    /\ pc \in {"Deliver", "Execute"}
    /\ sleepQueue[c] > 0
    /\ workQueue' = workQueue \cup {c}
    /\ UNCHANGED <<threadVars, tableVars, listVars, grabVars, sleepQueue, connVars,
                   exitVars>>

\* Mutant: a client woken during a grab is not kept for its end.
NotSavedAfterAttend(c, counts) == saved

\* AttendClient when the ignore count has dropped to zero: the client becomes
\* ready, or is saved until the server grab is over.
ReadyAfterAttend(c, counts) ==
    IF ListenTo(c, grabClient, counts, impervious) /\ c \notin saved
    THEN ready \cup {c} ELSE ready

SavedAfterAttend(c, counts) ==
    IF ~ListenTo(c, grabClient, counts, impervious) /\ c \notin ready
    THEN saved \cup {c} ELSE saved

\* ProcessWorkQueue runs c's sleep function, which finds its answer and calls
\* ClientWakeup(c), or finds that it must go on sleeping.
ProcessWorkQueue(c) ==
    LET counts == AttendCounts({c})
    IN  /\ pc = "Wait" /\ ~dispatchException
        /\ c \in workQueue
        /\ workQueue' = workQueue \ {c}
        /\ \/ UNCHANGED <<listVars, sleepQueue, ignoreCount, armed>>
           \/ /\ sleepQueue[c] > 0
              /\ sleepQueue' = [sleepQueue EXCEPT ![c] = @ - 1]
              /\ ignoreCount' = counts
              /\ IF counts[c] = 0
                 THEN /\ armed' = ArmedAfterSetPoll(c, grabClient, counts, impervious)
                      /\ ready' = ReadyAfterAttend(c, counts)
                      /\ saved' = SavedAfterAttend(c, counts)
                 ELSE UNCHANGED <<armed, listVars>>
        /\ UNCHANGED <<threadVars, tableVars, grabVars, impervious, connected, hungUp,
                       socket, input, pending, exitVars>>

\* DispatchExceptionCallback, run by check_timers.
DispatchExceptionCallback ==
    /\ pc = "Wait" /\ workQueue = {} /\ exceptionTimer
    /\ exceptionTimer' = FALSE
    /\ dispatchException' = TRUE
    /\ UNCHANGED <<threadVars, tableVars, listVars, grabVars, sleepVars, connVars,
                   dispatchExceptionAtReset>>

-----------------------------------------------------------------------------
(* WaitForSomething: poll and the poll callbacks *)

\* Mutant: a hangup is reported only while the client is listened to.
EpollEventsWhenListened ==
    {<<c, IF c \in hungUp THEN "ERROR" ELSE "READ">> :
        c \in {d \in armed \cap Pollable(grabClient, ignoreCount, impervious) :
                  listen_to_client(d)}}

\* What epoll_wait returns for the armed descriptors; a hangup comes with
\* EPOLLHUP, which ospoll_wait turns into X_NOTIFY_ERROR.
EpollEvents ==
    {<<c, IF c \in hungUp THEN "ERROR" ELSE "READ">> :
        c \in armed \cap Pollable(grabClient, ignoreCount, impervious)}

\* ospoll_wait; "newConnection" says that the listening socket has a
\* connection to accept.  The server blocks while there is nothing to do.
Poll ==
    /\ pc = "Wait" /\ ~dispatchException /\ workQueue = {}
    /\ \E newConnection \in BOOLEAN :
          /\ newConnection \/ ready # {} \/ EpollEvents # {}
          /\ reported' = EpollEvents
                         \cup (IF newConnection THEN {<<NoClient, "READ">>} ELSE {})
    /\ armed' = {}
    /\ pc' = "Deliver"
    /\ UNCHANGED <<cur, isItTimeToYield, result, tableVars, listVars, grabVars,
                   sleepVars, ignoreCount, impervious, connected, hungUp, socket,
                   input, pending, exitVars>>

\* ClientReady with X_NOTIFY_ERROR.
ClientReadyError(c) ==
    /\ pc = "Deliver"
    /\ <<c, "ERROR">> \in reported
    /\ CloseDownClient(c, closeDownMode[c])
    /\ UNCHANGED <<pc, cur, isItTimeToYield, result>>

\* ClientReady with X_NOTIFY_READ: mark_client_ready.
ClientReadyRead(c) ==
    /\ pc = "Deliver"
    /\ <<c, "READ">> \in reported
    /\ reported' = reported \ {<<c, "READ">>}
    /\ ready' = IF c \in saved THEN ready ELSE ready \cup {c}
    /\ UNCHANGED <<pc, cur, isItTimeToYield, result, tableVars, saved, grabVars,
                   sleepVars, connVars, exitVars>>

\* EstablishNewConnections: first the stragglers are closed, a client that
\* has not authenticated for a minute or one condemned by a write error.
EstablishNewConnections ==
    /\ pc = "Deliver"
    /\ <<NoClient, "READ">> \in reported
    /\ reported' = reported \ {<<NoClient, "READ">>}
    /\ pc' = "Accept"
    /\ UNCHANGED <<cur, isItTimeToYield, result, tableVars, listVars, grabVars,
                   sleepVars, connVars, exitVars>>

Condemned(c) == Live(c) /\ c \in failed

CloseStraggler(c) ==
    /\ pc = "Accept"
    /\ clientState[c] = "Initial" \/ Condemned(c)
    /\ CloseDownClient(c, closeDownMode[c])
    /\ UNCHANGED <<pc, cur, isItTimeToYield, result>>

\* Mutant: the next slot is taken to be free.
NextSlot(states) == nextFreeClientID + 1

\* NextAvailableClient's search for the next free slot.
NextFree(states) == MinOf({c \in Clients : states[c] = "Null"} \cup {LimitClients})

\* AllocNewConnection and NextAvailableClient; without a free slot the
\* connection is refused (ErrorConnMax).
AcceptConnection ==
    /\ pc = "Accept"
    /\ \A c \in Clients : ~Condemned(c)
    /\ pc' = "Deliver"
    /\ IF nextFreeClientID = LimitClients
       THEN UNCHANGED <<clientState, nextFreeClientID, connected, isItTimeToYield>>
       ELSE LET states == [clientState EXCEPT ![nextFreeClientID] = "Initial"]
            IN  /\ clientState' = states
                /\ nextFreeClientID' = NextFree(states)
                /\ connected' = connected \cup {nextFreeClientID}
                /\ isItTimeToYield' = TRUE
    /\ UNCHANGED <<cur, result, reported, closeDownMode, failed, terminable, nClients,
                   listVars, grabVars, sleepVars, ignoreCount, impervious, hungUp,
                   socket, input, pending, armed, exitVars>>

\* All events delivered: WaitForSomething returns if a client is ready, and
\* Dispatch lets the scheduler choose one.
Schedule(c) ==
    /\ pc = "Deliver" /\ reported = {} /\ ~dispatchException
    /\ c \in ready
    /\ cur' = c
    /\ isItTimeToYield' = FALSE
    /\ pc' = "Serve"
    /\ UNCHANGED <<result, reported, tableVars, listVars, grabVars, sleepVars,
                   connVars, exitVars>>

NothingReady ==
    /\ pc = "Deliver" /\ reported = {}
    /\ ready = {} \/ dispatchException
    /\ pc' = "Wait"
    /\ UNCHANGED <<cur, isItTimeToYield, result, reported, tableVars, listVars,
                   grabVars, sleepVars, connVars, exitVars>>

-----------------------------------------------------------------------------
(* Dispatch: the inner loop that serves one client *)

\* The scheduling slice is used up; the client stays on its list.
SliceExpired ==
    /\ pc = "Serve"
    /\ pc' = "Wait"
    /\ UNCHANGED <<cur, isItTimeToYield, result, reported, tableVars, listVars,
                   grabVars, sleepVars, connVars, exitVars>>

\* ReadRequestFromClient returns a whole request: from the input buffer
\* alone if it holds one, else after one read of all the kernel has.
ReadRequest ==
    LET c   == cur
        got == IF input[c] >= Whole THEN input[c] ELSE input[c] + socket[c]
    IN  /\ pc = "Serve"
        /\ input[c] >= Whole \/ (c \in connected /\ got >= Whole)
        /\ input' = [input EXCEPT ![c] = got - Whole]
        /\ socket' = IF input[c] >= Whole THEN socket ELSE [socket EXCEPT ![c] = 0]
        /\ pc' = "Execute"
        /\ UNCHANGED <<cur, isItTimeToYield, result, reported, tableVars, listVars,
                       grabVars, sleepVars, ignoreCount, impervious, connected,
                       hungUp, pending, armed, exitVars>>

\* The read ends inside a request: it returns 0 and the client stays ready.
ReadPartial ==
    LET c == cur
    IN  /\ pc = "Serve"
        /\ c \in connected /\ socket[c] > 0 /\ input[c] + socket[c] < Whole
        /\ input' = [input EXCEPT ![c] = @ + socket[c]]
        /\ socket' = [socket EXCEPT ![c] = 0]
        /\ isItTimeToYield' = TRUE
        /\ pc' = "Wait"
        /\ UNCHANGED <<cur, result, reported, tableVars, listVars,
                       grabVars, sleepVars, ignoreCount, impervious, connected,
                       hungUp, pending, armed, exitVars>>

\* mark_client_not_ready takes the client off whichever list it is on.
NotReady(c) ==
    /\ ready' = ready \ {c}
    /\ saved' = saved \ {c}

\* The read would block: mark_client_not_ready.
ReadWouldBlock ==
    LET c == cur
    IN  /\ pc = "Serve"
        /\ c \in connected \ hungUp /\ socket[c] = 0 /\ input[c] < Whole
        /\ NotReady(c)
        /\ isItTimeToYield' = TRUE
        /\ pc' = "Wait"
        /\ UNCHANGED <<cur, result, reported, tableVars, grabVars, sleepVars, connVars,
                       exitVars>>

\* End of file, or no connection any more: the client is closed down.
ReadFails ==
    LET c == cur
    IN  /\ pc = "Serve"
        /\ input[c] < Whole
        /\ c \notin connected \/ (socket[c] = 0 /\ c \in hungUp)
        /\ CloseDownClient(c, closeDownMode[c])
        /\ pc' = "Wait"
        /\ UNCHANGED <<cur, isItTimeToYield, result>>

\* After the handler: a condemned client is closed down (the fields of a
\* client freed by its own KillClient are still as they were), an error or
\* a wish to yield ends the turn.
AfterRequest ==
    /\ pc = "Check"
    /\ IF Condemned(cur) \/ (clientGone(cur) /\ cur \in failed)
       THEN /\ CloseDownClient(cur, closeDownMode[cur])
            /\ pc' = "Wait"
            /\ UNCHANGED <<cur, isItTimeToYield, result>>
       ELSE /\ pc' = IF result = "Success" /\ ~isItTimeToYield THEN "Serve" ELSE "Wait"
            /\ UNCHANGED <<cur, isItTimeToYield, result, reported, tableVars, listVars,
                           grabVars, sleepVars, connVars, exitVars>>

-----------------------------------------------------------------------------
(* The handlers.  Each runs for the client "cur" and leaves its result.    *)

Executing(state, kind) ==
    /\ pc = "Execute"
    /\ clientState[cur] = state
    /\ pending[cur] \in {"none", kind}
    /\ pc' = "Check"
    /\ UNCHANGED <<cur, reported>>

Request(kind) == kind \in Requests /\ Executing("Running", kind)

\* ResetCurrentRequest: the request is put back whole.
PutBack(kind) ==
    /\ input' = [input EXCEPT ![cur] = @ + Whole]
    /\ pending' = [pending EXCEPT ![cur] = kind]

\* ProcInitialConnection: a bad byte order condemns the client; otherwise
\* the request grows by the authorization data, which may not be here yet,
\* and is put back.
ProcInitialConnection ==
    /\ Executing("Initial", "InitialConnection")
    /\ \/ /\ failed' = failed \cup {cur}
          /\ result' = "Error"
          /\ UNCHANGED <<isItTimeToYield, input, pending, ready>>
       \/ /\ \/ PutBack("EstablishConnection")
             \/ /\ input[cur] = 0 /\ Whole > 1
                /\ input' = [input EXCEPT ![cur] = 1]
                /\ pending' = [pending EXCEPT ![cur] = "EstablishConnection"]
          /\ ready' = IF input'[cur] >= Whole /\ listen_to_client(cur) /\ cur \notin saved
                      THEN ready \cup {cur} ELSE ready
          /\ result' = "Success"
          /\ isItTimeToYield' = TRUE
          /\ UNCHANGED failed
    /\ pending[cur] = "none"
    /\ UNCHANGED <<clientState, closeDownMode, terminable, nClients, nextFreeClientID,
                   saved, grabVars, sleepVars, ignoreCount, impervious, connected,
                   hungUp, socket, armed, exitVars>>

\* Mutant: the timer goes on running.
KeepDispatchExceptionTimer == UNCHANGED exceptionTimer

CancelDispatchExceptionTimer == exceptionTimer' = FALSE

\* ProcEstablishConnection and SendConnSetup: refused, the client is
\* condemned; accepted, it is counted and the terminate timer is cancelled.
ProcEstablishConnection ==
    /\ Executing("Initial", "EstablishConnection")
    /\ pending[cur] = "EstablishConnection"
    /\ pending' = [pending EXCEPT ![cur] = "none"]
    /\ \/ /\ failed' = failed \cup {cur}
          /\ result' = "Error"
          /\ UNCHANGED <<clientState, nClients, exceptionTimer>>
       \/ /\ clientState' = [clientState EXCEPT ![cur] = "Running"]
          /\ nClients' = nClients + 1
          /\ CancelDispatchExceptionTimer
          /\ result' = "Success"
          /\ UNCHANGED failed
    /\ UNCHANGED <<isItTimeToYield, closeDownMode, terminable, nextFreeClientID,
                   listVars, grabVars, sleepVars, ignoreCount, impervious, connected,
                   hungUp, socket, input, armed, dispatchException,
                   dispatchExceptionAtReset>>

\* A request that changes nothing here, and one that is answered by an error.
OrdinaryRequest ==
    /\ \/ Request("NoOperation") /\ result' = "Success"
       \/ Request("BadRequest") /\ result' = "Error"
    /\ UNCHANGED <<isItTimeToYield, tableVars, listVars, grabVars, sleepVars, connVars,
                   exitVars>>

\* IgnoreClient(cur): only the first call takes it off the lists and mutes it.
IgnoreClient ==
    LET counts == [ignoreCount EXCEPT ![cur] = @ + 1]
    IN  /\ ignoreCount' = counts
        /\ IF ignoreCount[cur] = 0
           THEN /\ NotReady(cur)
                /\ armed' = ArmedAfterSetPoll(cur, grabClient, counts, impervious)
           ELSE UNCHANGED <<ready, saved, armed>>

\* ProcGrabServer while another client holds the grab: the request is put
\* back and the client waits, ignored.
GrabServerBlocked ==
    /\ Request("GrabServer")
    /\ grabClient \notin {NoClient, cur}
    /\ PutBack("GrabServer")
    /\ grabWaiters' = grabWaiters \cup {cur}
    /\ IgnoreClient
    /\ isItTimeToYield' = TRUE
    /\ result' = "Success"
    /\ UNCHANGED <<tableVars, grabClient, sleepVars, impervious, connected, hungUp,
                   socket, exitVars>>

\* mark_client_grab: every other ready client is saved for the release.
MarkClientGrab(c) ==
    /\ ready' = ready \cap {c}
    /\ saved' = saved \cup (ready \ {c})

\* ProcGrabServer otherwise; the grabber may grab again.
GrabServer ==
    /\ Request("GrabServer")
    /\ grabClient \in {NoClient, cur}
    /\ pending' = [pending EXCEPT ![cur] = "none"]
    /\ grabClient' = cur
    /\ MarkClientGrab(cur)
    /\ armed' = IF grabClient = NoClient THEN Pollable(cur, ignoreCount, impervious)
                ELSE armed
    /\ result' = "Success"
    /\ UNCHANGED <<isItTimeToYield, tableVars, grabWaiters, sleepVars, ignoreCount,
                   impervious, connected, hungUp, socket, input, exitVars>>

\* ProcUngrabServer, which does not ask who holds the grab.
UngrabServer ==
    LET woken  == NextGrabWaiter(grabWaiters)
        counts == AttendCounts(woken)
    IN  /\ Request("UngrabServer")
        /\ grabClient' = NoClient
        /\ grabWaiters' = WaitersAfterUngrab(woken)
        /\ ready' = ReadyAfterUngrab(woken)
        /\ saved' = {}
        /\ ignoreCount' = counts
        /\ armed' = ArmedAfterUngrab(woken, counts)
        /\ result' = "Success"
        /\ UNCHANGED <<isItTimeToYield, tableVars, sleepVars, impervious, connected,
                       hungUp, socket, input, pending, exitVars>>

\* XTestGrabControl: MakeClientGrabImpervious, MakeClientGrabPervious.
GrabControl ==
    /\ \/ /\ Request("GrabControlOn")
          /\ impervious' = impervious \cup {cur}
          /\ UNCHANGED isItTimeToYield
       \/ /\ Request("GrabControlOff")
          /\ impervious' = impervious \ {cur}
          /\ isItTimeToYield' = TRUE
    /\ armed' = ArmedAfterSetPoll(cur, grabClient, ignoreCount, impervious')
    /\ result' = "Success"
    /\ UNCHANGED <<tableVars, listVars, grabVars, sleepVars, ignoreCount, connected,
                   hungUp, socket, input, pending, exitVars>>

\* A request that must wait for an answer (a font server, a buffer swap)
\* and calls ClientSleep.
ClientSleep ==
    /\ Request("Sleep")
    /\ sleepQueue' = [sleepQueue EXCEPT ![cur] = @ + 1]
    /\ IgnoreClient
    /\ isItTimeToYield' = (isItTimeToYield \/ ignoreCount[cur] = 0)
    /\ result' = "Success"
    /\ UNCHANGED <<tableVars, grabVars, workQueue, impervious, connected, hungUp,
                   socket, input, pending, exitVars>>

\* ProcKillClient for the owner of a resource.
KillClient(c) ==
    /\ pc = "Execute" /\ clientState[cur] = "Running" /\ pending[cur] = "none"
    /\ "KillClient" \in Requests
    /\ clientState[c] \in {"Running", "Retained"}
    /\ CloseDownClient(c, closeDownMode[c])
    /\ isItTimeToYield' = (isItTimeToYield \/ c = cur)
    /\ result' = "Success"
    /\ pc' = "Check"
    /\ UNCHANGED cur

\* ProcKillClient(AllTemporary): CloseDownRetainedResources.
KillAllTemporary ==
    LET dead   == {c \in Clients : clientGone(c) /\ closeDownMode[c] = "RetainTemporary"}
        states == [c \in Clients |-> IF c \in dead THEN "Null" ELSE clientState[c]]
    IN  /\ Request("KillAllTemporary")
        /\ clientState' = states
        /\ closeDownMode' = [c \in Clients |->
                                IF c \in dead THEN "DestroyAll" ELSE closeDownMode[c]]
        /\ failed' = failed \ dead
        /\ terminable' = terminable \ dead
        /\ nextFreeClientID' = MinOf(dead \cup {nextFreeClientID})
        /\ SetDispatchExceptionTimer(dead # {} /\ ShouldDisconnectRemainingClients(states))
        /\ result' = "Success"
        /\ UNCHANGED <<isItTimeToYield, nClients, listVars, grabVars, sleepVars, connVars>>

\* ProcChangeCloseDownMode.
ProcChangeCloseDownMode ==
    /\ \E mode \in {"DestroyAll", "RetainPermanent", "RetainTemporary"} :
          /\ Request(mode)
          /\ closeDownMode' = [closeDownMode EXCEPT ![cur] = mode]
    /\ result' = "Success"
    /\ UNCHANGED <<isItTimeToYield, clientState, failed, terminable, nClients,
                   nextFreeClientID, listVars, grabVars, sleepVars, connVars, exitVars>>

\* XFixes SetClientDisconnectMode.
SetClientDisconnectMode ==
    /\ \/ Request("DisconnectOn") /\ terminable' = terminable \cup {cur}
       \/ Request("DisconnectOff") /\ terminable' = terminable \ {cur}
    /\ result' = "Success"
    /\ UNCHANGED <<isItTimeToYield, clientState, closeDownMode, failed, nClients,
                   nextFreeClientID, listVars, grabVars, sleepVars, connVars, exitVars>>

-----------------------------------------------------------------------------
(* The end of Dispatch: KillAllClients, then the next server generation    *)

LeaveLoop ==
    /\ pc = "Wait" /\ dispatchException
    /\ pc' = "Shutdown"
    /\ UNCHANGED <<cur, isItTimeToYield, result, reported, tableVars, listVars,
                   grabVars, sleepVars, connVars, exitVars>>

\* KillAllClients takes the clients in order and forces DestroyAll on each.
KillNextClient ==
    LET used == {c \in Clients : clientState[c] # "Null"}
    IN  /\ pc = "Shutdown" /\ used # {}
        /\ CloseDownClient(MinOf(used), "DestroyAll")
        /\ UNCHANGED <<pc, cur, isItTimeToYield, result>>

\* A reset starts the next generation; DE_TERMINATE ends the server.
EndOfGeneration ==
    /\ pc = "Shutdown"
    /\ \A c \in Clients : clientState[c] = "Null"
    /\ pc' = IF dispatchExceptionAtReset = "terminate" THEN "Exit" ELSE "Wait"
    /\ dispatchException' = (dispatchExceptionAtReset = "terminate")
    /\ nextFreeClientID' = 1 /\ nClients' = 0
    /\ ready' = {} /\ saved' = {}
    /\ UNCHANGED <<cur, isItTimeToYield, result, reported, clientState, closeDownMode,
                   failed, terminable, grabVars, sleepVars, connVars, exceptionTimer,
                   dispatchExceptionAtReset>>

-----------------------------------------------------------------------------

Serve == \/ SliceExpired \/ ReadRequest \/ ReadPartial \/ ReadWouldBlock
         \/ ReadFails \/ AfterRequest

Handle == \/ ProcInitialConnection \/ ProcEstablishConnection \/ OrdinaryRequest
          \/ GrabServerBlocked \/ GrabServer \/ UngrabServer \/ GrabControl
          \/ ClientSleep \/ KillAllTemporary \/ ProcChangeCloseDownMode
          \/ SetClientDisconnectMode
          \/ \E c \in Clients : KillClient(c)

WaitForSomething ==
    \/ Poll \/ EstablishNewConnections \/ AcceptConnection \/ NothingReady
    \/ \E c \in Clients : \/ ProcessWorkQueue(c) \/ ClientReadyError(c)
                          \/ ClientReadyRead(c) \/ CloseStraggler(c)

Finish == LeaveLoop \/ KillNextClient \/ EndOfGeneration

Peer == \E c \in Clients : Send(c) \/ HangUp(c)

Happening == \/ DispatchExceptionCallback
             \/ \E c \in Clients : AbortClient(c) \/ ClientSignal(c)

Next == \/ WaitForSomething
        \/ \E c \in Clients : Schedule(c)
        \/ Serve \/ Handle \/ Finish \/ Peer \/ Happening

Spec == Init /\ [][Next]_vars

\* The dispatching thread never stops, and SmartScheduleClient passes over no
\* ready client for ever (it lowers the priority of those that use up their
\* slices and serves equals in turn).  The slice is checked before every
\* request, so that no client keeps the thread for ever; it is not used up
\* before the first request every time.
Fairness ==
    /\ WF_vars(WaitForSomething) /\ WF_vars(Finish)
    /\ WF_vars(AfterRequest) /\ WF_vars(Handle)
    /\ SF_vars(SliceExpired)
    /\ \A c \in Clients :
          /\ SF_vars(Schedule(c))
          /\ SF_vars(cur = c /\ (ReadRequest \/ ReadPartial \/ ReadWouldBlock \/ ReadFails))

FairSpec == Spec /\ Fairness

(* Properties *)

TypeOK ==
    /\ pc \in {"Wait", "Deliver", "Accept", "Serve", "Execute", "Check",
               "Shutdown", "Exit"}
    /\ cur \in Clients
    /\ isItTimeToYield \in BOOLEAN
    /\ result \in {"Success", "Error"}
    /\ reported \subseteq ((Clients \X {"READ", "ERROR"}) \cup {<<NoClient, "READ">>})
    /\ clientState \in [Clients -> {"Null", "Initial", "Running", "Retained"}]
    /\ closeDownMode \in [Clients -> {"DestroyAll", "RetainPermanent", "RetainTemporary"}]
    /\ failed \subseteq Clients
    /\ terminable \subseteq Clients
    /\ nClients \in Nat
    /\ nextFreeClientID \in 1 .. LimitClients
    /\ ready \subseteq Clients /\ saved \subseteq Clients
    /\ grabClient \in Clients \cup {NoClient}
    /\ grabWaiters \subseteq Clients
    /\ sleepQueue \in [Clients -> Nat] /\ workQueue \subseteq Clients
    /\ ignoreCount \in [Clients -> Nat] /\ impervious \subseteq Clients
    /\ connected \subseteq Clients /\ hungUp \subseteq Clients
    /\ socket \in [Clients -> Nat] /\ input \in [Clients -> Nat]
    /\ pending \in [Clients -> {"none", "EstablishConnection", "GrabServer"}]
    /\ armed \subseteq Clients
    /\ dispatchException \in BOOLEAN /\ exceptionTimer \in BOOLEAN
    /\ dispatchExceptionAtReset \in AtReset

\* nClients counts the clients that finished their connection setup and
\* were not closed down; nextFreeClientID is, as its comment says, always
\* the least free slot (NextAvailableClient, CloseDownClient).
TableConsistent ==
    /\ nClients = Cardinality({c \in Clients : clientState[c] = "Running"})
    /\ nextFreeClientID \in Clients => clientState[nextFreeClientID] = "Null"
    /\ \A c \in Clients : c < nextFreeClientID => clientState[c] # "Null"

\* A client is on one list at most, only live clients are listed, and the
\* saved list is in use only during a server grab (mark_client_grab,
\* mark_client_ungrab, CloseDownClient).
ListsConsistent ==
    /\ ready \cap saved = {}
    /\ \A c \in ready \cup saved : Live(c)
    /\ grabClient = NoClient => saved = {}

\* Whoever holds the server grab or waits for it is a live client; a client
\* that waits, or is ignored for another reason, is not scheduled unless its
\* connection broke (IgnoreClient, AbortClient, CloseDownClient).
ParkedIsIgnored ==
    /\ grabClient # NoClient => clientState[grabClient] = "Running"
    /\ \A c \in Clients :
          /\ c \in grabWaiters => clientState[c] = "Running" /\ ignoreCount[c] > 0
          /\ ignoreCount[c] > 0 /\ c \notin failed => c \notin ready \cup saved

\* Each IgnoreClient has exactly one AttendClient still to come: the ignore
\* count is the number of reasons to be parked (ClientSleep and ClientWakeup,
\* ProcGrabServer and UngrabServer).
IgnoreCountBalanced ==
    \A c \in Clients : clientState[c] = "Running" /\ c \notin failed =>
        ignoreCount[c] = sleepQueue[c] + (IF c \in grabWaiters THEN 1 ELSE 0)

\* No request is forgotten: one that is whole in the input buffer keeps its
\* client on a list, since epoll will not report it again (AttendClient,
\* ResetCurrentRequest, mark_client_not_ready).
BufferedIsListed ==
    \A c \in Clients :
        Live(c) /\ input[c] >= Whole /\ ignoreCount[c] = 0 => c \in ready \cup saved

\* No lost wake-up: a client that is listened to and has unread data, or
\* whose peer is gone, is listed or has an edge still to be delivered
\* (set_poll_client with the edge-triggered ospoll).
NoLostEdge ==
    \A c \in Pollable(grabClient, ignoreCount, impervious) :
        \/ c \in ready \cup saved
        \/ c \in armed
        \/ <<c, "READ">> \in reported \/ <<c, "ERROR">> \in reported

\* While the server is grabbed, only the grabber, an impervious client, or
\* a client whose connection broke has a request executed.
GrabExclusion ==
    pc = "Execute" => \/ grabClient \in {NoClient, cur}
                      \/ cur \in impervious
                      \/ cur \in failed

\* A client waits for the grab only while somebody holds it or is about to
\* ask for it again (UngrabServer wakes one waiter, which repeats its request
\* and in the end wakes the next).
WaitersHaveHope ==
    grabWaiters # {} =>
        \/ grabClient # NoClient
        \/ \E c \in Clients \ grabWaiters : Live(c) /\ pending[c] = "GrabServer"

\* The exception that ends a generation is raised only when the last running
\* client has left or those that remain agreed to be disconnected
\* (SetDispatchExceptionTimer, CancelDispatchExceptionTimer).
EndsWhenEmpty ==
    [][~dispatchException /\ dispatchException'
       => \A c \in Clients : clientState'[c] = "Running" => c \in terminable']_vars

\* A request that reached the server is served: a client that can be
\* listened to and has a whole request is given its turn, unless it is
\* parked or saved for the end of a grab in the meantime (the fairness of
\* Dispatch, with the lists and the edge-triggered poll beneath it).
HasRequest(c) ==
    /\ c \in connected \ saved
    /\ listen_to_client(c)
    /\ input[c] + socket[c] >= Whole

RequestsServed ==
    \A c \in Clients :
        HasRequest(c) ~> \/ pc = "Execute" /\ cur = c
                         \/ ~HasRequest(c)

\* A hangup is acted on whatever state the client is in: ignored, asleep,
\* waiting for the grab or shut out by it (ClientReady, ReadRequestFromClient).
HangUpReaped ==
    \A c \in Clients : c \in connected \cap hungUp ~> c \notin connected

=============================================================================
