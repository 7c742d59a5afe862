------------------------------- MODULE Output -------------------------------
(***************************************************************************)
(* How the server writes to its clients (server/os/io.c): WriteToClient    *)
(* puts what fits into the client's buffer, FlushClient writes the buffer  *)
(* to the socket and keeps what the socket does not take, FlushAllOutput   *)
(* does so for all clients that have output pending and no requests        *)
(* waiting, before the server sleeps.  A client whose socket is full is    *)
(* polled until it can be written again.                                   *)
(*                                                                         *)
(* FlushClient tells the Record extension first, which may have something  *)
(* to write to the client that records (server/record/record.c).           *)
(*                                                                         *)
(* What is written is cut into units, numbered for each client.  "os" is   *)
(* the state of this part of the server, so that the functions of the code *)
(* are operators that return the states they may end in.                   *)
(***************************************************************************)
EXTENDS Integers, Sequences, SequencesExt, XorgList

CONSTANTS
    Clients, NoClient,
    Local,             \* clients on the same host, which are written at once
    Recorder,          \* the client that records the others, or NoClient
    BufSize,           \* BUFSIZE, in units
    ReplyBufSize,      \* REPLY_BUF_SIZE, in units
    Stalled,           \* clients that may stop reading
    Quitters,          \* clients that may disconnect
    MaxWritten         \* bound: units written to each client

ASSUME ConstantsAssumption ==
    /\ NoClient \notin Clients
    /\ Local \subseteq Clients /\ Recorder \in Clients \cup {NoClient}
    /\ BufSize \in Nat \ {0} /\ ReplyBufSize \in Nat \ {0}
    /\ Stalled \subseteq Clients /\ Quitters \subseteq Clients
    /\ MaxWritten \in Nat

VARIABLES
    os,                \* see Init
    hungUp,            \* clients that have closed the connection
    edge,              \* clients for which epoll has an event to report
    reported,          \* clients whose callback ospoll_wait has still to call
    pc,                \* "Work", "Flush", "Wait" or "Callbacks"
    after,             \* where FlushAllOutput returns to
    at                 \* the element of the list FlushAllOutput is at

vars == <<os, hungUp, edge, reported, pc, after, at>>

Init ==
    /\ os = [buf |-> [c \in Clients |-> <<>>],        \* oc->output: buf and count
             size |-> [c \in Clients |-> BufSize],    \* its size
             connected |-> Clients,                   \* oc->trans_conn
             gone |-> {},                             \* clientGone
             ready |-> {},                            \* on a list of ready clients
             pending |-> <<>>,                        \* output_pending_clients
             newOutput |-> FALSE,                     \* NewOutputPending
             writable |-> Clients,                    \* the socket has room
             listening |-> {},                        \* polled for X_NOTIFY_WRITE
             recorded |-> 0,                          \* numBufBytes
             stuck |-> FALSE,                         \* a loop that never ends
             written |-> [c \in Clients |-> 0],       \* history
             sent |-> [c \in Clients |-> 0]]
    /\ hungUp = {} /\ edge = {} /\ reported = {}
    /\ pc = "Work" /\ after = "Work" /\ at = NoClient

-----------------------------------------------------------------------------
(* FlushClient                                                             *)

output_pending_mark(s, c) ==
    IF c \in s.gone \/ c \in Range(s.pending) THEN s.pending
    ELSE Append(s.pending, c)

\* Mutant: the client is still polled when its connection is closed.
AbortedListening(s, c) ==
    [s EXCEPT !.buf[c] = <<>>, !.connected = @ \ {c},
              !.ready = IF c \in s.connected THEN @ \cup {c} ELSE @]

\* A client whose connection is closed already is left as it is.
AbortClient(s, c) ==
    [s EXCEPT !.buf[c] = <<>>,
              !.connected = @ \ {c}, !.listening = @ \ {c},
              !.ready = IF c \in s.connected THEN @ \cup {c} ELSE @]

\* The socket has taken n units of what there was: the buffer is freed.
Flushed(s, c, n) ==
    [s EXCEPT !.buf[c] = <<>>, !.size[c] = BufSize,
              !.pending = Without(@, c), !.sent[c] = @ + n]

\* The first n units of what is there; beyond it, what lies in memory.
FirstOf(all, n) == [i \in 1 .. n |-> IF i <= Len(all) THEN all[i] ELSE 0]

\* The socket has taken k of n units and is full.
Kept(s, c, all, n, k) ==
    [s EXCEPT !.buf[c] = FirstOf(SubSeq(all, k + 1, Len(all)), n - k),
              !.size[c] = IF n - k > @ THEN n - k + BufSize ELSE @,
              !.pending = output_pending_mark(s, c),
              !.listening = @ \cup {c}, !.writable = @ \ {c},
              !.sent[c] = @ + k]

\* How many units the socket takes before it is full.
Taken(s, c, all, n) ==
    IF c \in s.writable THEN 1 .. ((IF n < Len(all) THEN n ELSE Len(all)) - 1)
    ELSE IF all # <<>> THEN {0} ELSE {}

Blocked(s, c, all, n) ==
    {Kept(s, c, all, n, k) : k \in Taken(s, c, all, n)}
    \cup {AbortClient([s EXCEPT !.sent[c] = @ + k], c) :
              k \in {j \in Taken(s, c, all, n) : n - j > s.size[c]}}

\* The loop of FlushClient, which tries to write n units from the buffer and
\* from "extra".  There are n units unless FlushCallback has changed the buffer;
\* when they run out early nothing is left to write and the loop goes on.
WriteLoop(s, c, extra, n) ==
    LET all == s.buf[c] \o extra
    IN  IF c \notin s.connected \/ c \in hungUp THEN {AbortClient(s, c)}
        ELSE Blocked(s, c, all, n) \cup
             (IF c \notin s.writable /\ all # <<>> THEN {}
              ELSE IF Len(all) < n THEN {[s EXCEPT !.stuck = TRUE]}
              ELSE {Flushed(s, c, n),
                    [Flushed(s, c, n) EXCEPT !.writable = @ \ {c}]})

\* WriteToClient, up to the call of FlushClient if there is one.
WritesThrough(s, c, n) ==
    \/ s.buf[c] = <<>> /\ c \in Local
    \/ Len(s.buf[c]) + n > s.size[c]

Unlisted(s, c) ==
    [s EXCEPT !.pending = Without(@, c),
              !.newOutput = IF Without(s.pending, c) = <<>> THEN FALSE ELSE @]

Buffered(s, c, units) ==
    [s EXCEPT !.newOutput = TRUE, !.pending = output_pending_mark(s, c),
              !.buf[c] = @ \o units]

\* There is no memory for a buffer.
Unallocated(s, c) == IF s.buf[c] = <<>> THEN {AbortClient(s, c)} ELSE {}

Units(s, c, n) == [i \in 1 .. n |-> s.written[c] + i]

Numbered(s, c, n) == [s EXCEPT !.written[c] = @ + n]

\* WriteToClient as RecordFlushReplyBuffer calls it: FlushCallback does nothing
\* while inFlush is set.
WriteRecorded(s, n) ==
    LET units == Units(s, Recorder, n)
        t == Numbered(s, Recorder, n)
    IN  IF n = 0 \/ Recorder \in s.gone THEN {s}
        ELSE Unallocated(s, Recorder) \cup
             (IF WritesThrough(t, Recorder, n)
              THEN LET u == Unlisted(t, Recorder)
                   IN  WriteLoop(u, Recorder, units, Len(u.buf[Recorder]) + n)
              ELSE {Buffered(t, Recorder, units)})

\* What is recorded, and then n units more.
RecordFlushReplyBuffer(s, n) ==
    IF Recorder = NoClient \/ Recorder \in s.gone THEN {s}
    ELSE UNION {WriteRecorded([t EXCEPT !.recorded = 0], n) :
                    t \in WriteRecorded(s, s.recorded)}

\* RecordFlushAllContexts
FlushCallback(s) == IF s.recorded = 0 THEN {s} ELSE RecordFlushReplyBuffer(s, 0)

FlushClient(s, c, extra) ==
    LET notWritten == Len(s.buf[c]) + Len(extra)
    IN  IF notWritten = 0 THEN {s}
        ELSE UNION {WriteLoop(t, c, extra, notWritten) : t \in FlushCallback(s)}

-----------------------------------------------------------------------------
(* Writing                                                                 *)

\* What epoll reports of clients it is told to look at again (epoll_mod), and
\* of those it need not look at any more.
EdgesAfter(old, new) ==
    ((edge \cup ((new.listening \cap new.writable) \ old.listening)) \cap new.connected)
        \ ((old.listening \ new.listening) \ hungUp)

Become(S) ==
    /\ os' \in S
    /\ edge' = EdgesAfter(os, os')
    /\ reported' = reported \cap os'.connected

\* Handlers of requests, input events and timers write, and so do callbacks.
MayWrite == pc \in {"Work", "Callbacks"}

\* Mutant: what is in the buffer comes after what is written through.
WriteUnitsFirst(s, c, n) ==
    IF c \in s.gone THEN {s}
    ELSE IF WritesThrough(s, c, n)
    THEN FlushClient([Unlisted(Numbered(s, c, n), c) EXCEPT !.buf[c] = Units(s, c, n)],
                     c, s.buf[c])
    ELSE {Buffered(Numbered(s, c, n), c, Units(s, c, n))}

WriteUnits(s, c, n) ==
    IF c \in s.gone THEN {s}
    ELSE Unallocated(s, c) \cup
         (IF WritesThrough(s, c, n)
          THEN FlushClient(Unlisted(Numbered(s, c, n), c), c, Units(s, c, n))
          ELSE {Buffered(Numbered(s, c, n), c, Units(s, c, n))})

\* A unit is recorded: RecordAProtocolElement.  What was recorded before is
\* flushed first if it is of another client or another kind.
RecordUnit(s) ==
    UNION {IF t.recorded < ReplyBufSize THEN {[t EXCEPT !.recorded = @ + 1]}
           ELSE RecordFlushReplyBuffer(t, 1) :
               t \in {s} \cup RecordFlushReplyBuffer(s, 0)}

Recordings(s, c) ==
    IF Recorder \in {NoClient, c} \cup s.gone THEN {s} ELSE {s} \cup RecordUnit(s)

\* A reply, an event or an error of n units, which may be recorded.
WriteToClient(c, n) ==
    /\ MayWrite /\ ~os.stuck
    /\ c \notin os.gone /\ os.written[c] + n <= MaxWritten
    /\ Become(UNION {WriteUnits(s, c, n) : s \in Recordings(os, c)})
    /\ UNCHANGED <<hungUp, pc, after, at>>

-----------------------------------------------------------------------------
(* FlushAllOutput                                                          *)

First == IF os.pending = <<>> THEN NoClient ELSE Head(os.pending)

\* What follows c in the list.  An element that is in no list points to itself.
Following(c) ==
    IF c \notin Range(os.pending) THEN c
    ELSE LET i == Place(os.pending, c)
         IN  IF i = Len(os.pending) THEN NoClient ELSE os.pending[i + 1]

FlushAllOutput(p) ==
    /\ pc' = "Flush" /\ after' = p
    /\ IF os.newOutput THEN at' = First /\ os' = [os EXCEPT !.newOutput = FALSE]
       ELSE at' = NoClient /\ UNCHANGED os
    /\ UNCHANGED <<hungUp, edge, reported>>

\* Mutant: who has requests waiting is passed over and forgotten.
FlushNextForgets ==
    /\ pc = "Flush" /\ at # NoClient /\ ~os.stuck
    /\ at' = Following(at)
    /\ Become(IF at \in os.gone \cup os.ready THEN {os}
              ELSE FlushClient(os, at, <<>>))
    /\ UNCHANGED <<hungUp, pc, after>>

\* One round of its loop, which has fetched the next element before.
FlushNext ==
    /\ pc = "Flush" /\ at # NoClient /\ ~os.stuck
    /\ at' = Following(at)
    /\ Become(IF at \in os.gone THEN {os}
              ELSE IF at \in os.ready THEN {[os EXCEPT !.newOutput = TRUE]}
              ELSE FlushClient(os, at, <<>>))
    /\ UNCHANGED <<hungUp, pc, after>>

FlushDone ==
    /\ pc = "Flush" /\ at = NoClient
    /\ pc' = after
    /\ UNCHANGED <<os, hungUp, edge, reported, after, at>>

\* The end of a client's turn, a critical event, a window that was resized.
FlushInWork == pc = "Work" /\ ~os.stuck /\ os.newOutput /\ FlushAllOutput("Work")

-----------------------------------------------------------------------------
(* The loop of the server                                                  *)

\* A client's requests were served.
Served(c) ==
    /\ pc = "Work" /\ ~os.stuck /\ c \in os.ready \cap os.connected
    /\ os' = [os EXCEPT !.ready = @ \ {c}]
    /\ UNCHANGED <<hungUp, edge, reported, pc, after, at>>

\* WaitForSomething flushes before it polls.
WaitForSomething == pc = "Work" /\ ~os.stuck /\ FlushAllOutput("Wait")

\* ospoll_wait returns what is there.  It does not wait if clients are ready,
\* and may return at any time for something else, a timer or a device.
Poll ==
    /\ pc = "Wait"
    /\ reported' = edge \cap (os.writable \cup hungUp)
    /\ edge' = {}
    /\ pc' = "Callbacks"
    /\ UNCHANGED <<os, hungUp, after, at>>

\* CloseDownFileDescriptor, and the lists CloseDownClient takes the client off.
Closed(s, c) ==
    [s EXCEPT !.buf[c] = <<>>, !.connected = @ \ {c}, !.listening = @ \ {c},
              !.pending = Without(@, c), !.ready = @ \ {c},
              !.recorded = IF c = Recorder THEN 0 ELSE @]

\* CloseDownClient, as far as output is concerned: what is buffered is written
\* if the socket takes it, and dropped otherwise.
CloseDown(c) ==
    LET s == [os EXCEPT !.gone = @ \cup {c}]
    IN  Become({Closed(t, c) :
                    t \in UNION {FlushClient(u, c, <<>>) : u \in FlushCallback(s)}})

\* A client that was aborted, has failed or was killed.
CloseDownClient(c) ==
    /\ pc = "Work" /\ ~os.stuck /\ c \notin os.gone
    /\ c \in Quitters \/ c \notin os.connected
    /\ CloseDown(c)
    /\ UNCHANGED <<hungUp, pc, after, at>>

\* The callback of a client with X_NOTIFY_ERROR.
ClientReadyError(c) ==
    /\ pc = "Callbacks" /\ ~os.stuck /\ c \in reported \cap hungUp
    /\ CloseDown(c)
    /\ UNCHANGED <<hungUp, pc, after, at>>

\* Mutant: the callback does not ask for a flush.
ClientReadyWriteQuietly(c) ==
    /\ pc = "Callbacks" /\ c \in reported \ hungUp
    /\ os' = [os EXCEPT !.listening = @ \ {c}]
    /\ edge' = edge \ {c}
    /\ reported' = reported \ {c}
    /\ UNCHANGED <<hungUp, pc, after, at>>

\* With X_NOTIFY_WRITE.
ClientReadyWrite(c) ==
    /\ pc = "Callbacks" /\ c \in reported \ hungUp
    /\ os' = [os EXCEPT !.listening = @ \ {c}, !.newOutput = TRUE]
    /\ edge' = edge \ {c}
    /\ reported' = reported \ {c}
    /\ UNCHANGED <<hungUp, pc, after, at>>

\* With X_NOTIFY_READ.
ClientReadyRead(c) ==
    /\ pc = "Callbacks" /\ c \in os.connected \ os.ready
    /\ os' = [os EXCEPT !.ready = @ \cup {c}]
    /\ UNCHANGED <<hungUp, edge, reported, pc, after, at>>

CallbacksDone ==
    /\ pc = "Callbacks" /\ reported = {}
    /\ pc' = "Work"
    /\ UNCHANGED <<os, hungUp, edge, reported, after, at>>

-----------------------------------------------------------------------------
(* The clients                                                             *)

\* A client reads what is in its socket.
Drain(c) ==
    /\ c \in os.connected \ (os.writable \cup hungUp)
    /\ os' = [os EXCEPT !.writable = @ \cup {c}]
    /\ edge' = IF c \in os.listening THEN edge \cup {c} ELSE edge
    /\ UNCHANGED <<hungUp, reported, pc, after, at>>

HangUp(c) ==
    /\ c \in (os.connected \cap Quitters) \ hungUp
    /\ hungUp' = hungUp \cup {c}
    /\ edge' = edge \cup {c}
    /\ UNCHANGED <<os, reported, pc, after, at>>

-----------------------------------------------------------------------------
Flushing == FlushNext \/ FlushDone

Looping == FlushInWork \/ WaitForSomething \/ Poll \/ CallbacksDone

Next ==
    \/ \E c \in Clients :
        \/ \E n \in 1 .. (BufSize + 1) : WriteToClient(c, n)
        \/ Served(c) \/ CloseDownClient(c)
        \/ ClientReadyError(c) \/ ClientReadyWrite(c) \/ ClientReadyRead(c)
        \/ Drain(c) \/ HangUp(c)
    \/ Flushing \/ Looping

Spec == Init /\ [][Next]_vars

\* The server comes back to WaitForSomething again and again, and its callbacks
\* are called; a client reads unless it is one that may stop.
FairSpec ==
    /\ Spec
    /\ WF_vars(Flushing) /\ WF_vars(Poll) /\ SF_vars(WaitForSomething)
    /\ WF_vars(CallbacksDone)
    /\ \A c \in Clients : /\ WF_vars(ClientReadyWrite(c)) /\ WF_vars(ClientReadyError(c))
                          /\ c \notin Stalled => WF_vars(Drain(c))

-----------------------------------------------------------------------------
(* Properties                                                              *)

States ==
    [buf : [Clients -> Seq(Nat)], size : [Clients -> Nat],
     connected : SUBSET Clients, gone : SUBSET Clients, ready : SUBSET Clients,
     pending : Seq(Clients), newOutput : BOOLEAN,
     writable : SUBSET Clients, listening : SUBSET Clients,
     recorded : 0 .. ReplyBufSize, stuck : BOOLEAN,
     written : [Clients -> Nat], sent : [Clients -> Nat]]

\* Only who is connected is polled, and epoll has nothing to report of others.
TypeOK ==
    /\ os \in States /\ os.listening \subseteq os.connected
    /\ hungUp \subseteq Clients
    /\ edge \subseteq os.connected /\ reported \subseteq os.connected
    /\ pc \in {"Work", "Flush", "Wait", "Callbacks"} /\ after \in {"Work", "Wait"}
    /\ at \in Clients \cup {NoClient}

\* What is not sent yet is in the buffer, in order and each unit once, and the
\* buffer is large enough for it: nothing is lost, doubled or overtaken by what
\* is written through when the buffer is full, whenever the socket stops
\* (WriteToClient, FlushClient).
NothingLost ==
    \A c \in os.connected :
        /\ os.sent[c] <= os.written[c]
        /\ os.buf[c] = [i \in 1 .. (os.written[c] - os.sent[c]) |-> os.sent[c] + i]
        /\ Len(os.buf[c]) <= os.size[c]

\* The server does not go to sleep on output it could write: whoever has output
\* and no requests waiting is polled, and the poll will report that it can be
\* written (FlushAllOutput, ClientReady; the edges of epoll).
NoOutputForgotten ==
    pc = "Wait" =>
        \A c \in os.connected \ os.ready :
            os.buf[c] # <<>> =>
                /\ c \in Range(os.pending) /\ c \in os.listening
                /\ c \in os.writable => c \in edge

\* Whoever reads and has no more requests waiting gets everything, also while
\* others do not read, and are polled and flushed in vain.
OutputIsWritten ==
    \A c \in Clients \ Stalled :
        <>[](c \notin os.ready) =>
            [](os.buf[c] # <<>> => <>(os.buf[c] = <<>>))

=============================================================================
