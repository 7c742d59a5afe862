-------------------------------- MODULE Xcb --------------------------------
(***************************************************************************)
(* One libxcb connection shared by the threads of a client: the numbering  *)
(* and sending of requests, the hand-over of the socket to another library *)
(* (Xlib), and the threads that wait for replies and events, of which one  *)
(* polls the socket on behalf of all.                                      *)
(*                                                                         *)
(* A call is a stack of steps, named after the functions of the code.  The *)
(* thread that has iolock executes the top of its stack; the lock is given *)
(* up where the code does so: in pthread_cond_wait, in poll() and around   *)
(* the return_socket callback.                                             *)
(*                                                                         *)
(* A request, a reply, an error and an event is one unit each.             *)
(***************************************************************************)
EXTENDS Integers, Sequences, FiniteSets, SequencesExt

CONSTANTS
    Threads, NoThread,
    Owners,            \* threads that take the socket over, as Xlib does
    Wire,              \* the modulus of sequence numbers on the wire
    QueueSize,         \* requests that out.queue holds
    SocketSize,        \* requests in flight before the socket is full
    Operations,        \* the calls the threads make
    Kinds,             \* the kinds of requests they send
    Calls,             \* bound: calls of each thread
    Events,            \* bound: events the server sends
    Errors,            \* whether the server may answer with an error
    Breaks             \* whether the connection may break

AllOperations == {"send", "wait", "check", "poll", "discard", "event",
                  "pollevent", "flush", "take", "write"}

ASSUME ConstantsAssumption ==
    /\ NoThread \notin Threads /\ Owners \subseteq Threads
    /\ Wire \in Nat /\ Wire > 2
    /\ QueueSize \in Nat /\ SocketSize \in Nat \ {0}
    /\ Operations \subseteq AllOperations
    /\ Kinds \subseteq {"void", "check", "query"}
    /\ Calls \in Nat /\ Events \in Nat
    /\ Errors \in BOOLEAN /\ Breaks \in BOOLEAN

VARIABLES
    lock,              \* the thread that has iolock
    th,                \* what each thread does
    in, out,           \* xcb_connection_t.in and .out
    net,               \* has_error, the socket and the server
    log                \* the requests that were numbered, in order (history)

vars == <<lock, th, in, out, net, log>>

\* xcb_poll_for_reply, xcb_wait_for_event and so on begin with a test of
\* has_error outside of the lock; "stack" is then what is left to do.
Idle == [op |-> "none", kind |-> "void", request |-> 0,
         stack |-> <<>>,
         wait |-> "run",     \* "run", "poll", "callback" or a condition variable
         revents |-> {},     \* what poll() returned
         ok |-> TRUE,        \* what the last function returned
         vec |-> <<>>,       \* requests the thread has still to write
         target |-> 0,       \* the argument of _xcb_out_flush_to
         cookies |-> {},     \* its requests whose answer it may ask for
         calls |-> 0]

Init ==
    /\ lock = NoThread
    /\ th = [t \in Threads |-> Idle]
    /\ in = [reading |-> 0, read |-> 0, completed |-> 0, expected |-> 0,
             current |-> <<>>, replies |-> {}, events |-> <<>>,
             packets |-> <<>>, readers |-> <<>>, pending |-> <<>>]
    /\ out = [request |-> 0, written |-> 0, expectedWritten |-> 0,
              queue |-> <<>>, writing |-> 0, returnSocket |-> NoThread,
              moving |-> FALSE, owns |-> {}]
    /\ net = [error |-> FALSE, broken |-> FALSE, socket |-> <<>>,
              served |-> 0, wire |-> <<>>, emitted |-> 0]
    /\ log = <<>>

-----------------------------------------------------------------------------
(* Threads, the lock and the condition variables                           *)

\* What the threads, the server and poll() do outside of iolock happens between
\* two critical sections: a section sees no more of it than what was there when
\* it began or what comes after it.
Outside == lock = NoThread

\* The thread has the lock, or takes it, and this is its next step.
At(t, step) ==
    /\ lock \in {NoThread, t}
    /\ th[t].stack # <<>> /\ th[t].wait = "run"
    /\ Head(th[t].stack) = step

\* The step is done and replaced by the steps s.
Goto(t, s) == [th EXCEPT ![t].stack = s \o Tail(@)]
Return(t)  == Goto(t, <<>>)

\* The thread waits, and goes on with the steps s.
Block(t, cond, s) == [Goto(t, s) EXCEPT ![t].wait = cond]

Signal(f, S, cond) ==
    [u \in Threads |-> IF u \in S /\ f[u].wait = cond
                       THEN [f[u] EXCEPT !.wait = "run"] ELSE f[u]]

Broadcast(f, cond) == Signal(f, Threads, cond)

\* Mutant: nobody is told of an event.
SignalNobody(f) == {f}

\* pthread_cond_signal(&event_cond): one of the threads that wait for events.
SignalEvent(f) ==
    LET W == {u \in Threads : f[u].wait = "event"}
    IN IF W = {} THEN {f} ELSE {Signal(f, {u}, "event") : u \in W}

_xcb_in_wake_up_next_reader(f) ==
    IF in.readers # <<>> THEN {Signal(f, {Head(in.readers).thread}, "reader")}
    ELSE SignalEvent(f)

\* The thread goes on as f says; it gives the lock up when it waits and when
\* its call is over.
Continue(t, f) ==
    /\ th' = IF f[t].stack # <<>> THEN f
             ELSE [f EXCEPT ![t] = [Idle EXCEPT !.cookies = f[t].cookies,
                                                !.calls = f[t].calls]]
    /\ lock' = IF f[t].stack = <<>> \/ f[t].wait # "run" THEN NoThread ELSE t

-----------------------------------------------------------------------------
(* The calls                                                               *)

Steps(op) ==
    CASE op = "send"      -> <<"prepare", "send", "cookie">>
      [] op = "wait"      -> <<"reply">>
      [] op = "check"     -> <<"check">>
      [] op = "poll"      -> <<"pollreply">>
      [] op = "discard"   -> <<"discard">>
      [] op = "event"     -> <<"eventloop", "wakenext">>
      [] op = "pollevent" -> <<"pollevent">>
      [] op = "flush"     -> <<"flushall">>
      [] op = "take"      -> <<"getback", "takeflush">>
      [] op = "write"     -> <<"writev">>

Call(t, op, kind, request) ==
    /\ Outside /\ th[t].stack = <<>> /\ th[t].calls < Calls
    /\ op \in Operations /\ ~net.error
    /\ th' = [th EXCEPT ![t].op = op, ![t].kind = kind, ![t].request = request,
                        ![t].stack = Steps(op), ![t].calls = @ + 1,
                        ![t].cookies = IF op \in {"wait", "check", "discard"}
                                       THEN @ \ {request} ELSE @]
    /\ UNCHANGED <<lock, in, out, net, log>>

xcb_send_request(t)    == \E k \in Kinds : Call(t, "send", k, 0)
xcb_wait_for_event(t)  == Call(t, "event", "void", 0)
xcb_poll_for_event(t)  == Call(t, "pollevent", "void", 0)
xcb_flush(t)           == Call(t, "flush", "void", 0)
xcb_take_socket(t)     == t \in Owners \ out.owns /\ Call(t, "take", "void", 0)

\* What xcbext.h asks of an owner: the first request after xcb_take_socket has a
\* reply, and after every Wire - 1 requests without one there is one with a reply.
OwnerMaySkipReply ==
    \E n \in 1 .. out.request :
        /\ n >= Last(in.pending).first /\ log[n].kind = "query"
        /\ out.request - n < Wire - 1

xcb_writev(t) ==
    /\ t \in out.owns
    /\ \E k \in Kinds \ {"check"} :
        (k = "void" => OwnerMaySkipReply) /\ Call(t, "write", k, 0)

\* A thread asks for the answer to a request of its own.
xcb_wait_for_reply(t) ==
    \E r \in th[t].cookies : log[r].kind = "query" /\ Call(t, "wait", "void", r)
xcb_request_check(t) ==
    \E r \in th[t].cookies : log[r].kind = "check" /\ Call(t, "check", "void", r)
xcb_poll_for_reply(t) ==
    \E r \in th[t].cookies : Call(t, "poll", "void", r)
xcb_discard_reply(t) ==
    \E r \in th[t].cookies : Call(t, "discard", "void", r)

-----------------------------------------------------------------------------
(* Numbering and queueing requests (xcb_out.c)                             *)

\* Mutant: the socket is checked, other writers are not.
WritableAtOnce(t) == Return(t)

\* The rest of the loop of prepare_socket_request: nobody else may write.
Writable(t) == IF out.writing = 0 THEN Return(t) ELSE Block(t, "out", <<"prepare">>)

\* prepare_socket_request: XCB must own the socket.
PrepareSocketRequest(t) ==
    /\ At(t, "prepare")
    /\ Continue(t, IF net.error THEN Return(t)
                   ELSE IF out.returnSocket # NoThread
                   THEN Goto(t, <<"getback", "writable">>)
                   ELSE Writable(t))
    /\ UNCHANGED <<in, out, net, log>>

PrepareWritable(t) ==
    /\ At(t, "writable")
    /\ Continue(t, Writable(t))
    /\ UNCHANGED <<in, out, net, log>>

get_socket_back(t) ==
    /\ At(t, "getback")
    /\ \/ /\ out.returnSocket = NoThread
          /\ Continue(t, Return(t)) /\ UNCHANGED out
       \/ /\ out.returnSocket # NoThread /\ out.moving
          /\ Continue(t, Block(t, "socket", <<"getback">>)) /\ UNCHANGED out
       \/ /\ out.returnSocket # NoThread /\ ~out.moving
          /\ out' = [out EXCEPT !.moving = TRUE]
          /\ Continue(t, Block(t, "callback", <<"gotback">>))
    /\ UNCHANGED <<in, net, log>>

\* Xlib's return_socket, called without iolock: it takes the display's lock,
\* which the owner holds while it takes the socket and while it writes.
return_socket(t) ==
    /\ Outside /\ th[t].wait = "callback"
    /\ LET o == out.returnSocket
       IN /\ th[o].stack = <<>> \/ th[o].op \notin {"take", "write"}
          /\ out' = [out EXCEPT !.owns = @ \ {o}]
    /\ th' = [th EXCEPT ![t].wait = "run"]
    /\ UNCHANGED <<lock, in, net, log>>

\* _xcb_in_replies_done: close the last entry if it is the owner's.
RepliesDone ==
    IF in.pending = <<>> \/ ~Last(in.pending).external THEN in.pending
    ELSE IF Last(in.pending).first <= out.request
    THEN Front(in.pending)
         \o <<[Last(in.pending) EXCEPT !.last = out.request, !.external = FALSE]>>
    ELSE Front(in.pending)

GotSocketBack(t) ==
    /\ At(t, "gotback")
    /\ out' = [out EXCEPT !.moving = FALSE, !.returnSocket = NoThread]
    /\ in' = [in EXCEPT !.pending = RepliesDone]
    /\ Continue(t, Broadcast(Return(t), "socket"))
    /\ UNCHANGED <<net, log>>

\* Mutant: a request too few.
SyncTooLate(kind) == kind \in {"void", "check"} /\ out.request = in.expected + Wire

\* A request with a reply must be sent before the server's 16 bit sequence
\* number has gone around.
NeedsSync(kind) == kind \in {"void", "check"} /\ out.request = in.expected + Wire - 2

SyncBeforeWrap(t) ==
    /\ At(t, "send") /\ NeedsSync(th[t].kind)
    /\ Continue(t, Goto(t, <<"sync", "prepare", "send">>))
    /\ UNCHANGED <<in, out, net, log>>

\* _xcb_in_expect_reply
Expect(first, discard, checked, external) ==
    [first |-> first, last |-> first, discard |-> discard, checked |-> checked,
     external |-> external]

\* send_request: number the request, and queue it or write the whole queue.
SendRequest(t, kind) ==
    LET n == out.request + 1
        queue == Append(out.queue, n)
    IN
    IF net.error THEN Continue(t, Return(t)) /\ UNCHANGED <<in, out, log>>
    ELSE
    /\ log' = Append(log, [kind |-> kind, by |-> t])
    /\ in' = [in EXCEPT
                !.expected = IF kind \in {"query", "sync"} THEN n ELSE @,
                !.pending = IF kind = "void" THEN @
                            ELSE Append(@, Expect(n, kind = "sync", kind # "sync", FALSE))]
    /\ IF Len(queue) <= QueueSize
       THEN /\ out' = [out EXCEPT !.request = n, !.queue = queue]
            /\ Continue(t, Return(t))
       ELSE /\ out' = [out EXCEPT !.request = n, !.queue = <<>>]
            /\ Continue(t, [Goto(t, <<"outsend">>) EXCEPT ![t].vec = queue])

send_request(t) ==
    /\ \/ At(t, "send") /\ ~NeedsSync(th[t].kind) /\ SendRequest(t, th[t].kind)
       \/ At(t, "sync") /\ SendRequest(t, "sync")
    /\ UNCHANGED net

\* The end of xcb_send_request: the number the caller gets.
ReturnCookie(t) ==
    /\ At(t, "cookie")
    /\ Continue(t, [Return(t) EXCEPT ![t].cookies =
                      IF net.error \/ th[t].kind = "void" THEN @
                      ELSE @ \cup {out.request}])
    /\ UNCHANGED <<in, out, net, log>>

-----------------------------------------------------------------------------
(* Writing (xcb_out.c, xcb_conn.c)                                         *)

\* Mutant: only threads that want to write are told.
WakeWriters(f) == {Broadcast(f, "out")}

WakeAll(f) == _xcb_in_wake_up_next_reader(Broadcast(f, "out"))

\* _xcb_out_send: _xcb_conn_wait to write until all is written or a failure.
OutSend(t) ==
    /\ At(t, "outsend")
    /\ \/ /\ th[t].vec = <<>>
          /\ out' = [out EXCEPT !.written = out.request, !.expectedWritten = in.expected]
          /\ \E f \in WakeAll(Return(t)) : Continue(t, f)
          /\ UNCHANGED in
       \/ /\ th[t].vec # <<>> /\ out.writing > 0
          /\ Continue(t, Block(t, "out", <<"outsend">>))
          /\ UNCHANGED <<in, out>>
       \/ /\ th[t].vec # <<>> /\ out.writing = 0
          /\ in' = [in EXCEPT !.reading = @ + 1]
          /\ out' = [out EXCEPT !.writing = @ + 1]
          /\ Continue(t, Block(t, "poll", <<"polled", "write", "outsend">>))
    /\ UNCHANGED <<net, log>>

WritesToo(t) == "write" \in ToSet(th[t].stack)

\* The room the server has left in the socket.
Room == SocketSize - (Len(net.socket) - net.served)

\* poll() returns what is ready; the lock is not held.  A connection that was
\* closed by the peer may also be reported as POLLHUP, which counts as failure.
PollReturns(t) ==
    /\ Outside /\ th[t].wait = "poll"
    /\ LET ready == (IF net.wire # <<>> \/ net.broken THEN {"in"} ELSE {})
                    \cup (IF WritesToo(t) /\ (Room > 0 \/ net.broken) THEN {"out"} ELSE {})
       IN \E r \in {ready} \cup (IF net.broken THEN {{"hup"}} ELSE {}) :
            /\ r # {}
            /\ th' = [th EXCEPT ![t].wait = "run", ![t].revents = r]
            /\ net' = [net EXCEPT !.error = @ \/ r = {"hup"}]
    /\ UNCHANGED <<lock, in, out, log>>

\* A writer leaves the reading to a thread that polls in order to read.
MayRead(t) == in.reading = 1 \/ ~WritesToo(t)

Polled(t) ==
    /\ At(t, "polled")
    /\ LET revents == th[t].revents
           f == [th EXCEPT ![t].revents = {}, ![t].ok = revents # {"hup"}]
           next == IF "in" \in revents /\ MayRead(t) THEN <<"read">> ELSE <<>>
       IN Continue(t, [f EXCEPT ![t].stack = next \o Tail(@),
                                ![t].revents = revents \cap {"out"}])
    /\ UNCHANGED <<in, out, net, log>>

\* write_vec, if the socket was reported writable, and the end of
\* _xcb_conn_wait for a writer; after a failure nothing more is written.
WriteVec(t) ==
    /\ At(t, "write")
    /\ LET writable == th[t].ok /\ "out" \in th[t].revents
       IN \E n \in (IF writable /\ ~net.broken THEN 1 .. Len(th[t].vec) ELSE {0}) :
            /\ n <= Room
            /\ LET ok == th[t].ok /\ ~(writable /\ net.broken)
               IN /\ net' = [net EXCEPT !.socket = @ \o SubSeq(th[t].vec, 1, n),
                                        !.error = @ \/ (writable /\ net.broken)]
                  /\ Continue(t, [Return(t) EXCEPT
                                    ![t].ok = ok, ![t].revents = {},
                                    ![t].vec = IF ok THEN SubSeq(@, n + 1, Len(@)) ELSE <<>>])
    /\ in' = [in EXCEPT !.reading = @ - 1]
    /\ out' = [out EXCEPT !.writing = @ - 1]
    /\ UNCHANGED log

\* _xcb_out_flush_to(c, target)
FlushTo(t) ==
    /\ At(t, "flush")
    /\ \/ /\ out.written >= th[t].target
          /\ Continue(t, [Return(t) EXCEPT ![t].ok = TRUE])
          /\ UNCHANGED out
       \/ /\ out.written < th[t].target /\ out.queue # <<>>
          /\ out' = [out EXCEPT !.queue = <<>>]
          /\ Continue(t, [Goto(t, <<"outsend">>) EXCEPT ![t].vec = out.queue])
       \/ /\ out.written < th[t].target /\ out.queue = <<>>
          /\ Continue(t, Goto(t, <<"flushing">>))
          /\ UNCHANGED out
    /\ UNCHANGED <<in, net, log>>

WaitFlushed(t) ==
    /\ At(t, "flushing")
    /\ Continue(t, IF out.writing > 0 THEN Block(t, "out", <<"flushing">>)
                   ELSE [Return(t) EXCEPT ![t].ok = TRUE])
    /\ UNCHANGED <<in, out, net, log>>

FlushAll(t) ==
    /\ At(t, "flushall")
    /\ Continue(t, [Goto(t, <<"flush">>) EXCEPT ![t].target = out.request])
    /\ UNCHANGED <<in, out, net, log>>

\* xcb_take_socket
TakeFlush(t) ==
    /\ At(t, "takeflush")
    /\ Continue(t, [Goto(t, <<"flush", "take">>) EXCEPT ![t].target = out.request])
    /\ UNCHANGED <<in, out, net, log>>

\* Mutant: the socket is given away after one flush.
TakeAfterOneFlush(t) ==
    /\ At(t, "take")
    /\ \/ /\ ~th[t].ok
          /\ Continue(t, Return(t)) /\ UNCHANGED <<in, out>>
       \/ /\ th[t].ok
          /\ out' = [out EXCEPT !.returnSocket = t, !.owns = @ \cup {t}]
          /\ in' = [in EXCEPT !.pending =
                      Append(@, Expect(out.request + 1, FALSE, TRUE, TRUE))]
          /\ Continue(t, Return(t))
    /\ UNCHANGED <<net, log>>

TakeSocket(t) ==
    /\ At(t, "take")
    /\ \/ /\ ~th[t].ok
          /\ Continue(t, Return(t)) /\ UNCHANGED <<in, out>>
       \/ /\ th[t].ok /\ out.request # out.written
          /\ Continue(t, Goto(t, <<"takeflush">>)) /\ UNCHANGED <<in, out>>
       \/ /\ th[t].ok /\ out.request = out.written
          /\ out' = [out EXCEPT !.returnSocket = t, !.owns = @ \cup {t}]
          /\ in' = [in EXCEPT !.pending =
                      Append(@, Expect(out.request + 1, FALSE, TRUE, TRUE))]
          /\ Continue(t, Return(t))
    /\ UNCHANGED <<net, log>>

\* xcb_writev with one request of the owner's.
Writev(t) ==
    /\ At(t, "writev")
    /\ out' = [out EXCEPT !.request = @ + 1]
    /\ log' = Append(log, [kind |-> th[t].kind, by |-> t])
    /\ Continue(t, [Goto(t, <<"outsend">>) EXCEPT
                      ![t].vec = <<out.request + 1>>,
                      ![t].cookies = IF th[t].kind = "query"
                                     THEN @ \cup {out.request + 1} ELSE @])
    /\ UNCHANGED <<in, net>>

-----------------------------------------------------------------------------
(* Reading (xcb_in.c)                                                      *)

\* _xcb_in_read: everything on the wire is received, then taken apart.
Receive(t) ==
    /\ At(t, "read")
    /\ in' = [in EXCEPT !.packets = net.wire]
    /\ net' = [net EXCEPT !.wire = <<>>,
                          !.error = @ \/ (net.wire = <<>> /\ net.broken)]
    /\ Continue(t, [Goto(t, IF net.wire = <<>> THEN <<>> ELSE <<"packets">>) EXCEPT
                      ![t].ok = net.wire # <<>> \/ ~net.broken])
    /\ UNCHANGED <<out, log>>

\* Mutant: a second packet about the same request counts as a round.
WidenTooFar(serial) ==
    LET n == in.read - (in.read % Wire) + serial
    IN IF n <= in.read THEN n + Wire ELSE n

\* The full number of the request that a packet with this number follows.
Widen(serial) ==
    LET n == in.read - (in.read % Wire) + serial
    IN IF n < in.read THEN n + Wire ELSE n

\* The number of elements at the front of a list of n that are in S, a set of
\* places: where a loop over the list ends that goes on as long as they are.
FrontRun(n, S) == CHOOSE k \in 0 .. n : 1 .. k \subseteq S /\ (k < n => k + 1 \notin S)

\* Entries that later packets cannot match any more are dropped from the front.
DropFinished(pending, completed) ==
    LET finished == {i \in DOMAIN pending :
                       ~pending[i].external /\ pending[i].last <= completed}
    IN SubSeq(pending, 1 + FrontRun(Len(pending), finished), Len(pending))

Matches(pend, read) ==
    pend.first <= read /\ (pend.external \/ read <= pend.last)

\* The readers of requests up to r are in front of the others.
ReadersUpTo(r) ==
    FrontRun(Len(in.readers), {i \in DOMAIN in.readers : in.readers[i].request <= r})

\* read_packet
read_packet(t) ==
    /\ At(t, "packets")
    /\ LET p         == Head(in.packets)
           read      == Widen(p.serial)
           moved     == read # in.read
           before    == IF moved THEN read - 1 ELSE in.completed
           pending   == DropFinished(in.pending, before)
           completed == IF p.type = "error" THEN read ELSE before
           finished  == ReadersUpTo(completed)
           readers   == SubSeq(in.readers, finished + 1, Len(in.readers))
           match     == /\ p.type # "event" /\ pending # <<>>
                        /\ Matches(Head(pending), read)
           discard   == match /\ Head(pending).discard
           answer    == p.type = "reply"
                        \/ (p.type = "error" /\ match /\ Head(pending).checked)
           filed     == [request |-> in.read, answers |-> in.current]
           current   == IF moved THEN <<>> ELSE in.current
           told      == Signal(IF Len(in.packets) = 1 THEN Return(t) ELSE th,
                               {in.readers[i].thread : i \in 1 .. finished}, "reader")
           head      == IF readers # <<>> /\ Head(readers).request = read
                        THEN {Head(readers).thread} ELSE {}
       IN /\ in' = [in EXCEPT
                      !.packets = Tail(@), !.read = read, !.completed = completed,
                      !.expected = IF read > @ THEN read ELSE @,
                      !.pending = pending, !.readers = readers,
                      !.replies = IF moved /\ in.current # <<>> THEN @ \cup {filed} ELSE @,
                      !.current = IF answer /\ ~discard THEN Append(current, p) ELSE current,
                      !.events = IF answer \/ discard THEN @
                                 ELSE Append(@, [type |-> p.type, of |-> p.of, seq |-> read])]
          /\ \E f \in IF discard THEN {told}
                      ELSE IF answer THEN {Signal(told, head, "reader")}
                      ELSE SignalEvent(told) : Continue(t, f)
    /\ UNCHANGED <<out, net, log>>

\* poll_for_reply: there is an answer, or it is certain that there is none.
FiledFor(r) == {e \in in.replies : e.request = r}
Answered(r) ==
    \/ r < in.read
    \/ r = in.read /\ in.current # <<>>
    \/ r = in.completed
AnswersFor(r) ==
    IF r < in.read THEN IF FiledFor(r) = {} THEN <<>>
                        ELSE (CHOOSE e \in FiledFor(r) : TRUE).answers
    ELSE IF r = in.read THEN in.current ELSE <<>>

\* What is left when the first k answers have been handed out.
WithoutAnswers(r, k) ==
    IF r < in.read
    THEN [in EXCEPT !.replies =
            (@ \ FiledFor(r)) \cup
            {[e EXCEPT !.answers = SubSeq(@, k + 1, Len(@))] :
                e \in {x \in FiledFor(r) : Len(x.answers) > k}}]
    ELSE IF r = in.read THEN [in EXCEPT !.current = SubSeq(@, k + 1, Len(@))]
    ELSE in

\* _xcb_conn_wait to read: wait for the reading thread, or poll.
WaitToRead(t, cond) ==
    IF in.reading > 0
    THEN /\ Continue(t, Block(t, cond, <<Head(th[t].stack)>>))
         /\ UNCHANGED in
    ELSE /\ in' = [in EXCEPT !.reading = @ + 1]
         /\ Continue(t, Block(t, "poll", <<"polled", "waited", Head(th[t].stack)>>))

\* The end of _xcb_conn_wait for a reader; without success the loop ends.
ReaderPolled(t) ==
    /\ At(t, "waited")
    /\ in' = [in EXCEPT !.reading = @ - 1]
    /\ Continue(t, IF th[t].ok THEN Return(t)
                   ELSE [th EXCEPT ![t].stack = SubSeq(@, 3, Len(@))])
    /\ UNCHANGED <<out, net, log>>

\* Mutant: wait_for_reply waits for an answer to a request that is still queued.
UnflushedReply(t) ==
    /\ At(t, "reply")
    /\ Continue(t, [Goto(t, <<"insert">>) EXCEPT ![t].ok = TRUE])
    /\ UNCHANGED <<in, out, net, log>>

\* wait_for_reply
WaitForReply(t) ==
    /\ At(t, "reply")
    /\ Continue(t, IF out.returnSocket # NoThread
                   THEN [Goto(t, <<"insert">>) EXCEPT ![t].ok = TRUE]
                   ELSE [Goto(t, <<"flush", "insert">>) EXCEPT
                           ![t].target = th[t].request])
    /\ UNCHANGED <<in, out, net, log>>

InsertReader(t) ==
    /\ At(t, "insert")
    /\ IF ~th[t].ok
       THEN Continue(t, Goto(t, <<"wakenext">>)) /\ UNCHANGED in
       ELSE /\ Continue(t, Goto(t, <<"replyloop", "remove", "wakenext">>))
            /\ in' = [in EXCEPT !.readers =
                        InsertAt(@, ReadersUpTo(th[t].request) + 1,
                                 [thread |-> t, request |-> th[t].request])]
    /\ UNCHANGED <<out, net, log>>

ReplyLoop(t) ==
    /\ At(t, "replyloop")
    /\ IF Answered(th[t].request)
       THEN Continue(t, Return(t)) /\ in' = WithoutAnswers(th[t].request, 1)
       ELSE WaitToRead(t, "reader")
    /\ UNCHANGED <<out, net, log>>

\* remove_reader never goes on to the next element of the list: if the first
\* one is another thread's, with a request that is not later, it does not
\* return, and the thread keeps iolock.
RemoveReader(t) ==
    /\ At(t, "remove")
    /\ \/ /\ ~(in.readers # <<>> /\ Head(in.readers).request <= th[t].request)
          /\ UNCHANGED in
       \/ /\ in.readers # <<>> /\ Head(in.readers).thread = t
          /\ in' = [in EXCEPT !.readers = Tail(@)]
    /\ Continue(t, Return(t))
    /\ UNCHANGED <<out, net, log>>

WakeNext(t) ==
    /\ At(t, "wakenext")
    /\ \E f \in _xcb_in_wake_up_next_reader(Return(t)) : Continue(t, f)
    /\ UNCHANGED <<in, out, net, log>>

EventLoop(t) ==
    /\ At(t, "eventloop")
    /\ IF in.events # <<>>
       THEN Continue(t, Return(t)) /\ in' = [in EXCEPT !.events = Tail(@)]
       ELSE WaitToRead(t, "event")
    /\ UNCHANGED <<out, net, log>>

\* xcb_request_check: a later request with a reply tells that there was no error.
RequestCheck(t) ==
    /\ At(t, "check")
    /\ Continue(t, IF th[t].request <= in.completed THEN Goto(t, <<"reply">>)
                   ELSE IF th[t].request >= in.expected
                   THEN Goto(t, <<"prepare", "sync", "checkflush", "reply">>)
                   ELSE Goto(t, <<"checkflush", "reply">>))
    /\ UNCHANGED <<in, out, net, log>>

CheckFlush(t) ==
    /\ At(t, "checkflush")
    /\ Continue(t, IF th[t].request >= out.expectedWritten
                   THEN [Goto(t, <<"flush">>) EXCEPT ![t].target = out.request]
                   ELSE Return(t))
    /\ UNCHANGED <<in, out, net, log>>

\* xcb_poll_for_reply and xcb_poll_for_event: look, read once, look again.
PollForReply(t) ==
    /\ At(t, "pollreply") \/ At(t, "pollagain")
    /\ IF Answered(th[t].request) /\ (At(t, "pollreply") \/ th[t].ok)
       THEN /\ in' = WithoutAnswers(th[t].request, 1)
            /\ Continue(t, [Return(t) EXCEPT ![t].cookies = @ \ {th[t].request}])
       ELSE /\ UNCHANGED in
            /\ Continue(t, IF At(t, "pollreply") /\ in.reading = 0
                           THEN Goto(t, <<"read", "pollagain">>) ELSE Return(t))
    /\ UNCHANGED <<out, net, log>>

PollForEvent(t) ==
    /\ At(t, "pollevent") \/ At(t, "eventagain")
    /\ IF in.events # <<>> /\ (At(t, "pollevent") \/ th[t].ok)
       THEN in' = [in EXCEPT !.events = Tail(@)] /\ Continue(t, Return(t))
       ELSE /\ UNCHANGED in
            /\ Continue(t, IF At(t, "pollevent") /\ in.reading = 0
                           THEN Goto(t, <<"read", "eventagain">>) ELSE Return(t))
    /\ UNCHANGED <<out, net, log>>

\* discard_reply: drop what has come, and mark the entry of what will come.
DiscardReply(t) ==
    /\ At(t, "discard")
    /\ LET r == th[t].request
           left == WithoutAnswers(r, Len(AnswersFor(r)))
           place == 1 + FrontRun(Len(in.pending), {i \in DOMAIN in.pending : in.pending[i].first < r})
       IN in' = IF r <= in.completed THEN left
                ELSE IF place \in DOMAIN in.pending /\ in.pending[place].first = r
                THEN [left EXCEPT !.pending[place].discard = TRUE]
                ELSE [left EXCEPT !.pending = InsertAt(@, place, Expect(r, TRUE, FALSE, FALSE))]
    /\ Continue(t, Return(t))
    /\ UNCHANGED <<out, net, log>>

-----------------------------------------------------------------------------
(* The server                                                              *)

Packet(type, n) == [type |-> type, serial |-> n % Wire, of |-> n]

\* The server counts the requests as they arrive.
Serve ==
    /\ Outside /\ ~net.broken /\ net.served < Len(net.socket)
    /\ LET n == net.served + 1
           replies == log[net.socket[n]].kind \in {"query", "sync"}
       IN \E type \in {IF replies THEN "reply" ELSE "none"}
                      \cup (IF Errors THEN {"error"} ELSE {}) :
            net' = [net EXCEPT !.served = n,
                               !.wire = IF type = "none" THEN @
                                        ELSE Append(@, [Packet(type, n) EXCEPT
                                                          !.of = net.socket[n]])]
    /\ UNCHANGED <<lock, th, in, out, log>>

SendEvent ==
    /\ Outside /\ ~net.broken /\ net.emitted < Events
    /\ net' = [net EXCEPT !.emitted = @ + 1,
                          !.wire = Append(@, Packet("event", net.served))]
    /\ UNCHANGED <<lock, th, in, out, log>>

Break ==
    /\ Outside /\ Breaks /\ ~net.broken
    /\ net' = [net EXCEPT !.broken = TRUE]
    /\ UNCHANGED <<lock, th, in, out, log>>

-----------------------------------------------------------------------------
Calling(t) ==
    \/ xcb_send_request(t) \/ xcb_wait_for_reply(t) \/ xcb_request_check(t)
    \/ xcb_poll_for_reply(t) \/ xcb_discard_reply(t) \/ xcb_wait_for_event(t)
    \/ xcb_poll_for_event(t) \/ xcb_flush(t) \/ xcb_take_socket(t) \/ xcb_writev(t)

Sending(t) ==
    \/ PrepareSocketRequest(t) \/ PrepareWritable(t) \/ get_socket_back(t)
    \/ GotSocketBack(t) \/ SyncBeforeWrap(t) \/ send_request(t) \/ ReturnCookie(t)
    \/ OutSend(t) \/ Polled(t) \/ WriteVec(t)
    \/ FlushTo(t) \/ WaitFlushed(t) \/ FlushAll(t) \/ TakeFlush(t) \/ TakeSocket(t)
    \/ Writev(t)

Reading(t) ==
    \/ Receive(t) \/ read_packet(t) \/ ReaderPolled(t)
    \/ WaitForReply(t) \/ InsertReader(t) \/ ReplyLoop(t) \/ RemoveReader(t)
    \/ WakeNext(t) \/ EventLoop(t) \/ RequestCheck(t) \/ CheckFlush(t)
    \/ PollForReply(t) \/ PollForEvent(t) \/ DiscardReply(t)

Running(t) == Sending(t) \/ Reading(t) \/ PollReturns(t) \/ return_socket(t)

Next ==
    \/ \E t \in Threads : Calling(t) \/ Running(t)
    \/ Serve \/ SendEvent \/ Break

Spec == Init /\ [][Next]_vars

\* Threads that can run do run, and the server works on.  Strong fairness: what
\* needs the lock, or happens outside of it, is not kept out for ever by threads
\* that take the lock again and again.
FairSpec == Spec /\ SF_vars(Serve) /\ \A t \in Threads : SF_vars(Running(t))

-----------------------------------------------------------------------------
(* Properties                                                              *)

InCall(t, ops) == th[t].stack # <<>> /\ th[t].op \in ops

\* The shapes of the state.
TypeOK ==
    /\ lock \in Threads \cup {NoThread}
    /\ lock # NoThread => th[lock].stack # <<>> /\ th[lock].wait = "run"
    /\ \A t \in Threads :
        /\ th[t].wait \in {"run", "poll", "callback", "reader", "event", "out", "socket"}
        /\ th[t].revents \subseteq {"in", "out", "hup"}
        /\ th[t].cookies \subseteq 1 .. out.request
        /\ th[t].vec # <<>> => th[t].stack # <<>>
    /\ in.reading \in 0 .. 2 /\ out.writing \in 0 .. 1
    /\ in.completed <= out.request /\ in.read <= out.request
    /\ in.completed \in {in.read - 1, in.read} \/ in.completed = 0
    /\ in.expected <= out.request /\ out.written <= out.request
    /\ out.owns \subseteq Threads
    /\ Len(log) = out.request

\* Requests reach the server in the order of their numbers, each once: what is
\* in the socket, what a thread is writing and what is queued together are all
\* requests (send_request and _xcb_out_send rely on the one writer).
InOrder ==
    LET writing == {t \in Threads : th[t].vec # <<>>}
        vec == IF writing = {} THEN <<>> ELSE th[CHOOSE t \in writing : TRUE].vec
    IN ~net.error =>
       /\ Cardinality(writing) <= 1
       /\ net.socket \o vec \o out.queue = [n \in 1 .. out.request |-> n]

\* Each answer is kept for the request that it answers, whatever the server's
\* short number was, and goes to the caller if somebody is to be given it, to
\* the list of events only if nobody is (read_packet).
AnswersFiled ==
    /\ \A e \in in.replies : \A i \in DOMAIN e.answers : e.answers[i].of = e.request
    /\ \A i \in DOMAIN in.current : in.current[i].of = in.read
    /\ \A i \in DOMAIN in.events :
        /\ in.events[i].seq = in.events[i].of
        /\ in.events[i].type = "error" => log[in.events[i].of].kind = "void"
    /\ \A e \in in.replies \cup {[request |-> in.read, answers |-> in.current]} :
        e.answers # <<>> => log[e.request].kind \in {"query", "check"}

\* A thread is given the numbers of its own requests, although the lock is free
\* while xcb_send_request writes and the number is read after that.
CookiesAreOwn ==
    \A t \in Threads : \A r \in th[t].cookies : log[r].by = t

\* As long as a thread sleeps until another one has read for it, there is one
\* that polls or one that will (_xcb_in_wake_up_next_reader).
SomebodyReads ==
    (\E t \in Threads : th[t].wait \in {"reader", "event"}) =>
        \E t \in Threads : \/ th[t].wait = "poll"
                           \/ th[t].stack # <<>> /\ th[t].wait = "run"

\* Nobody but the owner of the socket writes to it, and it is the owner that
\* XCB will ask to give the socket back.
OwnerIsAlone ==
    \A o \in out.owns :
        /\ out.returnSocket = o
        /\ out.queue = <<>>
        /\ \A t \in Threads \ {o} : th[t].vec = <<>>

\* Every call but a wait for an event returns: the reply that a thread waits for
\* is written, answered and handed to the thread, and the socket comes back.
CallsReturn ==
    \A t \in Threads : InCall(t, AllOperations \ {"event"}) ~> ~InCall(t, AllOperations)

\* A thread that waits for an event does not sleep on while one is there.
EventsAreTaken ==
    \A t \in Threads :
        (InCall(t, {"event"}) /\ in.events # <<>>) ~> (~InCall(t, {"event"}) \/ in.events = <<>>)

=============================================================================
