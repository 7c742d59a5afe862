----------------------------- MODULE XcbProofs ------------------------------
(***************************************************************************)
(* Proofs about Xcb for any threads, any room in the queue and in the      *)
(* socket and any modulus of the numbers on the wire, as long as no two    *)
(* threads take the socket over.  XcbSteps says what a step does; here is  *)
(* the invariant, one part after the other, and what follows from it.  The *)
(* last theorem, of the answers that are kept, is about a connection whose *)
(* socket no library takes over.                                           *)
(***************************************************************************)
EXTENDS XcbSteps

-----------------------------------------------------------------------------
(* The types after a step, and what a step leaves alone                    *)

\* The types of what a step of a thread leaves behind, and the steps of the others.
LEMMA QuietTypes ==
    ASSUME Base, NEW t \in Threads, Quiet(t)
    PROVE  /\ in' \in InRecords /\ out' \in OutRecords /\ net' \in NetRecords
           /\ log' \in Seq(LogRecords)
           /\ Moved(t) \/ Called(t)
<1>1. in \in InRecords /\ out \in OutRecords /\ net \in NetRecords /\ log \in Seq(LogRecords)
  BY TypesAre
<1>2. CASE Simple(t)
  BY <1>1, <1>2 DEF Simple, InKept
<1>3. CASE Moves(t)
  BY <1>1, <1>3 DEF Moves, Plain, OutRecords
<1>4. CASE GivesBack(t)
  BY <1>1, <1>4 DEF GivesBack, Plain
<1>5. CASE HandsOut(t)
  BY <1>1, <1>5 DEF HandsOut
<1>6. CASE Queues(t)
  BY <1>1, <1>6 DEF Queues, Plain, Numbering
<1>7. CASE Owns(t)
  BY <1>1, <1>7 DEF Owns, Plain
<1>8. CASE Inserts(t)
  BY <1>1, <1>8 DEF Inserts, Plain, InKept
<1>9. CASE Removes(t)
  BY <1>1, <1>9 DEF Removes, Plain, InKept
<1>10. CASE Called(t)
  BY <1>1, <1>10 DEF Called
<1> QED BY <1>2, <1>3, <1>4, <1>5, <1>6, <1>7, <1>8, <1>9, <1>10 DEF Quiet

\* The types of what a step leaves behind.
LEMMA SendsTypes ==
    ASSUME Base, NEW t \in Threads, Sends(t)
    PROVE  /\ in' \in InRecords /\ out' \in OutRecords /\ net' \in NetRecords
           /\ log' \in Seq(LogRecords)
           /\ Moved(t)
<1>1. in \in InRecords /\ out \in OutRecords /\ net \in NetRecords /\ log \in Seq(LogRecords)
  BY TypesAre
<1>2. CASE SendsNow(t)
  BY <1>1, <1>2 DEF SendsNow, Numbering
<1>3. CASE Flushes(t)
  BY <1>1, <1>3 DEF Flushes
<1>4. CASE WritesOwn(t)
  BY <1>1, <1>4 DEF WritesOwn
<1>5. CASE SentAll(t)
  BY <1>1, <1>5 DEF SentAll, Plain
<1>6. CASE PollsToWrite(t)
  BY <1>1, <1>6 DEF PollsToWrite, Plain
<1>7. CASE Writes(t)
  BY <1>1, <1>7 DEF Writes
<1> QED BY <1>2, <1>3, <1>4, <1>5, <1>6, <1>7 DEF Sends

LEMMA ReadsTypes ==
    ASSUME Base, NEW t \in Threads, Reads(t) \/ LetsGo(t)
    PROVE  /\ in' \in InRecords /\ out' \in OutRecords /\ net' \in NetRecords
           /\ log' \in Seq(LogRecords)
           /\ Moved(t) \/ (Resumed(t) /\ Now(t) \in {"polled", "gotback"})
<1>1. in \in InRecords /\ out \in OutRecords /\ net \in NetRecords /\ log \in Seq(LogRecords)
  BY TypesAre
<1>2. CASE LooksAt(t) \/ Receives(t) \/ ReadsPacket(t)
  BY <1>1, <1>2 DEF LooksAt, Receives, ReadsPacket, Polling
<1>3. CASE ReadsOn(t)
  BY <1>1, <1>3 DEF ReadsOn, Plain, InKept
<1>4. CASE PollsToRead(t)
  BY <1>1, <1>4 DEF PollsToRead, Plain, InKept
<1>5. CASE Returned(t)
  BY <1>1, <1>5 DEF Returned
<1>6. CASE LetsGo(t)
  BY <1>1, <1>6 DEF LetsGo
<1> QED BY <1>2, <1>3, <1>4, <1>5, <1>6 DEF Reads

\* A step keeps types and control, and leaves the other threads alone.
LEMMA StepTypes ==
    ASSUME Base, NEW t \in Threads, ThreadStep(t)
    PROVE  /\ Base' /\ in' \in InRecords /\ out' \in OutRecords /\ net' \in NetRecords
           /\ log' \in Seq(LogRecords)
           /\ \A v \in Threads \ {t} : SameThread(v) /\ Now(v) \in Unlocked \cup {"end"}
           /\ Moved(t) \/ Resumed(t) \/ Called(t)
<1>1. /\ in' \in InRecords /\ out' \in OutRecords /\ net' \in NetRecords
      /\ log' \in Seq(LogRecords)
      /\ Moved(t) \/ Called(t) \/ (Resumed(t) /\ Now(t) \in {"polled", "gotback"})
  BY QuietTypes, SendsTypes, ReadsTypes DEF ThreadStep
<1>2. Base'
  BY <1>1, BaseMoved, BaseResumed, BaseCalled
<1>3. \A v \in Threads \ {t} : SameThread(v) /\ Now(v) \in Unlocked \cup {"end"}
  BY <1>1, OthersAre, OthersUnlocked
<1> QED BY <1>1, <1>2, <1>3

\* What is left alone when only the server does something.
LEMMA ServerRoles ==
    ASSUME Server \/ UNCHANGED vars
    PROVE  \A v \in Threads :
             /\ Now(v)' = Now(v) /\ Then(v)' = Then(v)
             /\ (Writing(v)' <=> Writing(v)) /\ (ReadingOn(v)' <=> ReadingOn(v)) /\ (SendsOut(v)' <=> SendsOut(v))
             /\ (Attending(v)' <=> Attending(v)) /\ (InLoop(v)' <=> InLoop(v)) /\ (InReaders(v)' <=> InReaders(v))
             /\ (Numbered(v)' <=> Numbered(v)) /\ (InTake(v)' <=> InTake(v))
<1>1. th' = th
  BY DEF Server, vars
<1> QED BY <1>1, SameStack

-----------------------------------------------------------------------------
(* The invariant: one thread writes, and one reads                         *)

\* in.reading and out.writing count the threads inside _xcb_conn_wait: one at
\* most that writes, and one at most that reads.
Counters ==
    /\ \A t, u \in Threads : SendsOut(t) /\ SendsOut(u) => t = u
    /\ \A t, u \in Threads : ReadingOn(t) /\ ReadingOn(u) => t = u
    /\ out.writing = IF \E t \in Threads : Writing(t) THEN 1 ELSE 0
    /\ in.reading = out.writing + (IF \E t \in Threads : ReadingOn(t) THEN 1 ELSE 0)

\* A step that keeps the counters right.
Counts(t) ==
    /\ SendsOut(t)' => SendsOut(t) \/ \A u \in Threads : ~SendsOut(u)
    /\ \/ (Writing(t)' <=> Writing(t)) /\ out'.writing = out.writing
       \/ ~Writing(t) /\ Writing(t)' /\ out.writing = 0 /\ out'.writing = 1
       \/ Writing(t) /\ ~Writing(t)' /\ out'.writing = out.writing - 1
    /\ \/ (ReadingOn(t)' <=> ReadingOn(t)) /\ in'.reading - in.reading = out'.writing - out.writing
       \/ /\ ~ReadingOn(t) /\ ReadingOn(t)' /\ ~(in.reading > 0) /\ in'.reading = in.reading + 1
          /\ out'.writing = out.writing
       \/ /\ ReadingOn(t) /\ ~ReadingOn(t)' /\ in'.reading = in.reading - 1
          /\ out'.writing = out.writing

\* They are kept when each change of a role is counted.
LEMMA CountersKept ==
    ASSUME Counters, NEW t \in Threads, Counts(t), \A v \in Threads \ {t} : SameThread(v),
           in.reading \in Int, out.writing \in Int, in'.reading \in Int, out'.writing \in Int
    PROVE  Counters'
<1>1. \A v \in Threads \ {t} :
        /\ SendsOut(v)' <=> SendsOut(v)
        /\ Writing(v)' <=> Writing(v)
        /\ ReadingOn(v)' <=> ReadingOn(v)
  BY DEF SameThread
<1>2. \A v \in Threads : /\ Writing(v) => SendsOut(v)
                         /\ Writing(v)' => SendsOut(v)'
  BY DEF SendsOut
<1>3. \A v, u \in Threads : SendsOut(v)' /\ SendsOut(u)' => v = u
  BY <1>1 DEF Counters, Counts
<1>4. out'.writing = IF \E v \in Threads : Writing(v)' THEN 1 ELSE 0
  <2>1. CASE (Writing(t)' <=> Writing(t)) /\ out'.writing = out.writing
    BY <1>1, <2>1 DEF Counters
  <2>2. CASE ~Writing(t) /\ Writing(t)' /\ out.writing = 0 /\ out'.writing = 1
    BY <2>2
  <2>3. CASE Writing(t) /\ ~Writing(t)' /\ out'.writing = out.writing - 1
    BY <1>1, <1>2, <2>3 DEF Counters
  <2> QED BY <2>1, <2>2, <2>3 DEF Counts
<1>5. CASE (ReadingOn(t)' <=> ReadingOn(t)) /\ in'.reading - in.reading = out'.writing - out.writing
  BY <1>1, <1>3, <1>4, <1>5 DEF Counters
<1>6. CASE /\ ~ReadingOn(t) /\ ReadingOn(t)' /\ ~(in.reading > 0) /\ in'.reading = in.reading + 1
           /\ out'.writing = out.writing
  <2>1. \A v \in Threads : ~ReadingOn(v)
    BY <1>6 DEF Counters
  <2> QED BY <1>1, <1>3, <1>4, <1>6, <2>1 DEF Counters
<1>7. CASE /\ ReadingOn(t) /\ ~ReadingOn(t)' /\ in'.reading = in.reading - 1
           /\ out'.writing = out.writing
  <2>1. \A v \in Threads : ~ReadingOn(v)'
    BY <1>1, <1>7 DEF Counters
  <2> QED BY <1>1, <1>3, <1>4, <1>7, <2>1 DEF Counters
<1> QED BY <1>5, <1>6, <1>7 DEF Counts

-----------------------------------------------------------------------------
(* The invariant: who writes, and who owns the socket                      *)

\* Who writes has something to write, and nobody adds to the queue then.
Writers ==
    /\ \A t \in Threads : th[t].vec # <<>> => SendsOut(t) /\ out.written < out.request
    /\ \A t \in Threads : Writing(t) => th[t].vec # <<>>
    /\ \A t \in Threads : SendsOut(t) => out.queue = <<>>
    /\ \A t \in Threads : Now(t) \in {"send", "sync"} /\ ~net.error =>
                            out.writing = 0 /\ out.returnSocket = NoThread
    /\ \A t \in Threads : Now(t) = "writable" => out.returnSocket = NoThread
    /\ out.queue # <<>> => out.written < out.request
    /\ out.written <= out.request

\* Who has the socket, and who asks for it.
Ownership ==
    /\ out.owns \subseteq {out.returnSocket}
    /\ ~out.moving /\ out.returnSocket # NoThread => out.returnSocket \in out.owns
    /\ out.moving => \E t \in Threads : Now(t) = "gotback"
    /\ \A t \in Threads : Now(t) = "gotback" =>
         /\ out.moving /\ out.returnSocket # NoThread
         /\ th[t].wait = "run" => out.owns = {}
    /\ \A t, u \in Threads : Now(t) = "gotback" /\ Now(u) = "gotback" => t = u
    /\ \A o \in out.owns : out.queue = <<>> /\ \A t \in Threads \ {o} : th[t].vec = <<>>

\* The owner writes only while it has the socket, and asks for it only when it has not.
Takes ==
    \A t \in Threads :
        /\ Now(t) = "writev" => th[t].op = "write"
        /\ th[t].op = "write" /\ Now(t) # "end" => t \in out.owns
        /\ InTake(t) => t \in Owners \ out.owns
        /\ InTake(t) /\ Now(t) \notin {"getback", "gotback"} => out.returnSocket = NoThread

\* What is proved together about the socket.
Socket == Counters /\ Writers /\ Ownership /\ Takes

\* With the lock, and no writer polling, nobody is inside _xcb_out_send.
LEMMA NobodySends ==
    ASSUME Base, Counters, out.writing = 0, NEW t \in Threads, ~SendsOut(t),
           \A v \in Threads \ {t} : Now(v) \in Unlocked \cup {"end"}
    PROVE  \A v \in Threads : ~SendsOut(v)
<1> SUFFICES ASSUME NEW v \in Threads \ {t}
             PROVE  ~SendsOut(v)
  OBVIOUS
<1>1. ~Writing(v)
  BY DEF Counters
<1>2. Now(v) # "outsend"
  BY DEF Unlocked
<1> QED BY <1>1, <1>2 DEF SendsOut

\* Where a request is numbered nobody writes, and the socket is nobody else's.
LEMMA NumberingIsAlone ==
    ASSUME Base, Counters, Writers, Ownership, NEW t \in Threads, Now(t) \in {"send", "sync"}, ~net.error,
           \A v \in Threads \ {t} : Now(v) \in Unlocked \cup {"end"}
    PROVE  /\ \A v \in Threads : ~SendsOut(v) /\ th[v].vec = <<>>
           /\ out.owns = {} /\ out.returnSocket = NoThread /\ out.writing = 0
<1>1. out.writing = 0 /\ out.returnSocket = NoThread
  BY DEF Writers
<1>2. ~SendsOut(t)
  BY RolesAre DEF Apart, Lone, RolesAt, Bare
<1>3. \A v \in Threads : ~SendsOut(v)
  BY <1>1, <1>2, NobodySends
<1>4. out.owns = {}
  <2>1. out.owns \subseteq Threads /\ NoThread \notin Threads
    BY TypesAre, ConstantsAssumption DEF OutRecords
  <2> QED BY <1>1, <2>1 DEF Ownership
<1> QED BY <1>1, <1>3, <1>4 DEF Writers

\* So it is when the owner writes.
LEMMA OwnerWritesAlone ==
    ASSUME Base, Writers, Ownership, Takes, Counters, NEW t \in Threads, Now(t) = "writev",
           \A v \in Threads \ {t} : Now(v) \in Unlocked \cup {"end"}
    PROVE  /\ \A v \in Threads : ~SendsOut(v) /\ th[v].vec = <<>>
           /\ out.owns = {t} /\ out.returnSocket = t /\ out.queue = <<>>
<1>1. t \in out.owns
  BY DEF Takes
<1>2. out.returnSocket = t /\ out.owns = {t} /\ out.queue = <<>>
      /\ \A v \in Threads \ {t} : th[v].vec = <<>>
  BY <1>1 DEF Ownership
<1>3. \A v \in Threads \ {t} : ~SendsOut(v)
  BY <1>2 DEF Writers, SendsOut, Unlocked
<1>4. ~SendsOut(t)
  BY RolesAre DEF Apart, Lone, RolesAt, Bare
<1>5. th[t].vec = <<>>
  BY <1>4 DEF Writers
<1> QED BY <1>2, <1>3, <1>4, <1>5

\* Where there is a queue nobody writes.
LEMMA FlushesAlone ==
    ASSUME Base, Writers, Ownership, NEW t \in Threads, out.queue # <<>>
    PROVE  /\ \A v \in Threads : ~SendsOut(v) /\ th[v].vec = <<>>
           /\ out.owns = {}
BY DEF Writers, Ownership

\* Every step of a thread counts right.
LEMMA CountersNext ==
    ASSUME Base, Socket, NEW t \in Threads, ThreadStep(t)
    PROVE  Counters'
<1>1. /\ \A v \in Threads \ {t} : SameThread(v) /\ Now(v) \in Unlocked \cup {"end"}
      /\ in' \in InRecords /\ out' \in OutRecords
  BY StepTypes
<1>2. in.reading \in Int /\ out.writing \in Int /\ in'.reading \in Int /\ out'.writing \in Int
  BY <1>1, TypesAre DEF InRecords, OutRecords
<1>3. in \in InRecords /\ out \in OutRecords
  BY TypesAre
<1> SUFFICES Counts(t)
  BY <1>1, <1>2, CountersKept DEF Socket
<1>4. \A v \in Threads : Writing(v) => SendsOut(v)
  BY DEF SendsOut
<1>5. Writing(t)' => SendsOut(t)'
  BY DEF SendsOut
<1>6. CASE Quiet(t)
  <2>1. Simple(t) \/ Called(t) \/ Moves(t) \/ GivesBack(t) \/ HandsOut(t) \/ Queues(t) \/ Owns(t)
        \/ Inserts(t) \/ Removes(t)
    BY <1>6 DEF Quiet
  <2>2. Bare(t) /\ Bare(t)'
    BY <2>1, MovesRoles, QueuesRoles, OwnsRoles, InsertsRoles, CalledRoles
       DEF Simple, GivesBack, HandsOut, Removes, Aside, RolesAt
  <2>3. in'.reading = in.reading /\ out'.writing = out.writing
    <3>1. CASE Simple(t) \/ Called(t) \/ HandsOut(t) \/ Inserts(t) \/ Removes(t)
      BY <3>1 DEF Simple, Called, HandsOut, Inserts, Removes
    <3>2. CASE Moves(t) \/ GivesBack(t)
      BY <1>3, <3>2 DEF Moves, GivesBack, OutRecords, InRecords
    <3>3. CASE Queues(t)
      BY <1>3, <3>3 DEF Queues, Numbering, OutRecords, InRecords
    <3>4. CASE Owns(t)
      BY <1>3, <3>4 DEF Owns, OutRecords, InRecords
    <3> QED BY <2>1, <3>1, <3>2, <3>3, <3>4
  <2> QED BY <1>2, <1>4, <1>5, <2>2, <2>3 DEF Bare, Counts
<1>7. CASE SendsNow(t) \/ Flushes(t) \/ WritesOwn(t)
  <2>1. BeginsToSend(t)
    BY <1>7, SendsNowRoles, FlushesRoles DEF WritesOwn
  <2>2. \A v \in Threads : ~SendsOut(v)
    BY <1>1, <1>7, NumberingIsAlone, OwnerWritesAlone, FlushesAlone
       DEF Socket, SendsNow, Numbering, Flushes, WritesOwn
  <2>3. in'.reading = in.reading /\ out'.writing = out.writing
    <3>1. CASE SendsNow(t)
      BY <1>3, <3>1 DEF SendsNow, Numbering, OutRecords, InRecords
    <3>2. CASE Flushes(t)
      BY <1>3, <3>2 DEF Flushes, OutRecords
    <3>3. CASE WritesOwn(t)
      BY <1>3, <3>3 DEF WritesOwn, OutRecords
    <3> QED BY <1>7, <3>1, <3>2, <3>3
  <2> QED BY <1>2, <1>4, <2>1, <2>2, <2>3 DEF BeginsToSend, RolesAt, Bare, Counts
<1>8. CASE SentAll(t)
  <2>1. in'.reading = in.reading /\ out'.writing = out.writing
    BY <1>3, <1>8 DEF SentAll, OutRecords
  <2> QED BY <1>2, <1>5, <1>8, <2>1 DEF SentAll, RolesAt, Bare, Counts
<1>9. CASE PollsToWrite(t)
  <2>1. in'.reading = in.reading + 1 /\ out'.writing = 1 /\ out.writing = 0
    BY <1>2, <1>3, <1>9 DEF PollsToWrite, OutRecords, InRecords
  <2> QED BY <1>2, <1>9, <2>1 DEF PollsToWrite, Counts
<1>10. CASE Writes(t)
  <2>1. in'.reading = in.reading - 1 /\ out'.writing = out.writing - 1
    BY <1>2, <1>3, <1>10 DEF Writes, OutRecords, InRecords
  <2> QED BY <1>2, <1>10, <2>1 DEF Writes, Counts
<1>11. CASE LooksAt(t) \/ Receives(t) \/ ReadsPacket(t)
  <2>1. Polling(t)
    BY <1>11 DEF LooksAt, Receives, ReadsPacket
  <2>2. in'.reading = in.reading /\ out'.writing = out.writing
    BY <2>1 DEF Polling
  <2> QED BY <1>2, <2>1, <2>2 DEF Polling, SameRoles, Counts
<1>12. CASE ReadsOn(t)
  <2>1. in'.reading = in.reading - 1 /\ out'.writing = out.writing
    BY <1>2, <1>3, <1>12 DEF ReadsOn, InRecords
  <2> QED BY <1>2, <1>5, <1>12, <2>1 DEF ReadsOn, RolesAt, Bare, Counts
<1>13. CASE PollsToRead(t)
  <2>1. RolesAt(t) /\ ReadingOn(t)' /\ ~Writing(t)' /\ ~SendsOut(t)'
    BY <1>13, PollsToReadRoles
  <2>2. ~Writing(t) /\ ~ReadingOn(t)
    BY <1>4, <2>1 DEF RolesAt, Bare
  <2> QED BY <1>2, <1>13, <2>1, <2>2 DEF PollsToRead, Counts
<1>14. CASE Returned(t) \/ LetsGo(t)
  <2>1. (Writing(t)' <=> Writing(t)) /\ (ReadingOn(t)' <=> ReadingOn(t)) /\ (SendsOut(t)' <=> SendsOut(t))
    BY <1>14, SameStack DEF Returned, LetsGo, Resumed
  <2>2. in'.reading = in.reading /\ out'.writing = out.writing
    BY <1>3, <1>14 DEF Returned, LetsGo, OutRecords
  <2> QED BY <1>2, <2>1, <2>2 DEF Counts
<1> QED BY <1>6, <1>7, <1>8, <1>9, <1>10, <1>11, <1>12, <1>13, <1>14 DEF ThreadStep, Sends, Reads

\* What a step of another thread does not change for v.
LEMMA WritersOfOthers ==
    ASSUME Writers, NEW v \in Threads, SameThread(v), out'.written < out'.request \/ th[v].vec = <<>>
    PROVE  /\ th'[v].vec # <<>> => SendsOut(v)' /\ out'.written < out'.request
           /\ Writing(v)' => th'[v].vec # <<>>
           /\ SendsOut(v)' <=> SendsOut(v)
BY DEF Writers, SameThread

\* Others are not where requests are numbered.
LEMMA NumberingElsewhere ==
    ASSUME NEW t \in Threads, NEW v \in Threads \ {t}, SameThread(v), Now(v) \in Unlocked \cup {"end"}
    PROVE  Now(v)' \notin {"send", "sync", "writable", "packets", "write", "outsend", "cookie"}
BY DEF SameThread, Unlocked

\* Every step leads from one of these to one of these.
WritersNow(t) ==
    /\ th'[t].vec # <<>> => SendsOut(t)' /\ out'.written < out'.request
    /\ Writing(t)' => th'[t].vec # <<>>
    /\ SendsOut(t)' => out'.queue = <<>>
    /\ Now(t)' \in {"send", "sync"} /\ ~net'.error => out'.writing = 0 /\ out'.returnSocket = NoThread
    /\ Now(t)' = "writable" => out'.returnSocket = NoThread
    /\ out'.queue # <<>> => out'.written < out'.request
    /\ out'.written <= out'.request

\* What is to be shown of a step that keeps Writers.
LEMMA WritersKept ==
    ASSUME Writers, NEW t \in Threads, WritersNow(t),
           \A v \in Threads \ {t} : SameThread(v) /\ Now(v) \in Unlocked \cup {"end"},
           out'.written < out'.request \/ \A v \in Threads \ {t} : th[v].vec = <<>>,
           out'.queue = <<>> \/ \A v \in Threads \ {t} : ~SendsOut(v)
    PROVE  Writers'
<1>1. ASSUME NEW v \in Threads \ {t}
      PROVE  /\ th'[v].vec # <<>> => SendsOut(v)' /\ out'.written < out'.request
             /\ Writing(v)' => th'[v].vec # <<>>
             /\ SendsOut(v)' <=> SendsOut(v)
             /\ Now(v)' \notin {"send", "sync", "writable"}
  BY WritersOfOthers, NumberingElsewhere
<1> QED BY <1>1 DEF WritersNow, Writers

\* Every step of a thread keeps Writers.
LEMMA WritersNext ==
    ASSUME Base, Socket, NEW t \in Threads, ThreadStep(t)
    PROVE  Writers'
<1>1. /\ \A v \in Threads \ {t} : SameThread(v) /\ Now(v) \in Unlocked \cup {"end"}
      /\ in' \in InRecords /\ out' \in OutRecords
  BY StepTypes
<1>3. in \in InRecords /\ out \in OutRecords /\ Counters /\ Writers /\ Ownership /\ Takes
  BY TypesAre DEF Socket
<1>4. out.written \in Nat /\ out.request \in Nat /\ out.queue \in Seq(Nat)
  BY <1>3 DEF OutRecords
<1>5. \A v \in Threads : th[v].vec = <<>> \/ out.written < out.request
  BY <1>3 DEF Writers
<1>6. out.queue = <<>> \/ \A v \in Threads : ~SendsOut(v)
  BY <1>3 DEF Writers
<1>7. out.written < out.request \/ \A v \in Threads : th[v].vec = <<>>
  BY <1>5
<1>8. Writing(t)' => SendsOut(t)'
  BY DEF SendsOut
<1>10. CASE Simple(t) \/ Called(t)
  <2>1. Bare(t) /\ Bare(t)'
    BY <1>10, CalledRoles DEF Simple, Aside, RolesAt
  <2>2. UNCHANGED <<out, net>> /\ th'[t].vec = <<>>
    BY <1>3, <1>10, <2>1 DEF Simple, Called, Bare, Writers
  <2>3. /\ Now(t)' \in {"send", "sync"} /\ ~net'.error => out'.writing = 0 /\ out'.returnSocket = NoThread
        /\ Now(t)' = "writable" => out'.returnSocket = NoThread
    BY <1>3, <1>10, <2>2, CalledRoles DEF Simple, Settled, Writers
  <2>4. WritersNow(t)
    BY <1>3, <1>8, <2>1, <2>2, <2>3 DEF WritersNow, Bare, Writers
  <2> QED BY <1>1, <1>3, <1>6, <1>7, <2>2, <2>4, WritersKept
<1>11. CASE Moves(t) \/ HandsOut(t) \/ Inserts(t) \/ Removes(t) \/ GivesBack(t)
  <2>1. Aside(t) /\ Bare(t) /\ Bare(t)'
    BY <1>11, MovesRoles, InsertsRoles DEF GivesBack, HandsOut, Removes, Aside, RolesAt
  <2>2. th'[t].vec = <<>>
    BY <1>3, <1>11, <2>1 DEF Moves, HandsOut, Inserts, Removes, GivesBack, Plain, Bare, Writers
  <2>3. out'.written = out.written /\ out'.request = out.request /\ out'.queue = out.queue
    BY <1>3, <1>11 DEF Moves, HandsOut, Inserts, Removes, GivesBack, OutRecords
  <2>4. /\ Now(t)' \notin {"send", "sync"}
        /\ Now(t)' = "writable" => out'.returnSocket = NoThread
    <3>1. CASE Moves(t) \/ HandsOut(t) \/ Inserts(t) \/ Removes(t)
      BY <3>1, MovesRoles, InsertsRoles DEF HandsOut, Removes
    <3>2. CASE GivesBack(t)
      BY <1>3, <3>2 DEF GivesBack, OutRecords
    <3> QED BY <1>11, <3>1, <3>2
  <2>5. WritersNow(t)
    BY <1>3, <1>8, <2>1, <2>2, <2>3, <2>4 DEF WritersNow, Bare, Writers
  <2> QED BY <1>1, <1>3, <1>6, <1>7, <2>3, <2>5, WritersKept
<1>12. CASE Queues(t)
  <2>1. /\ \A v \in Threads : ~SendsOut(v) /\ th[v].vec = <<>>
        /\ out.returnSocket = NoThread /\ out.writing = 0
    BY <1>1, <1>3, <1>12, NumberingIsAlone DEF Queues, Numbering
  <2>2. Bare(t)' /\ Now(t)' \in {"cookie", "prepare", "checkflush"}
    BY <1>12, QueuesRoles DEF Aside, RolesAt
  <2>3. th'[t].vec = <<>>
    BY <1>12, <2>1 DEF Queues, Plain
  <2>4. out'.written = out.written /\ out'.request = out.request + 1
    BY <1>3, <1>12 DEF Queues, OutRecords
  <2>5. out'.written < out'.request
    BY <1>3, <1>4, <2>4 DEF Writers
  <2>6. WritersNow(t)
    BY <1>4, <1>8, <2>2, <2>3, <2>4, <2>5 DEF WritersNow, Bare
  <2> QED BY <1>1, <1>3, <2>1, <2>6, WritersKept
<1>13. CASE Owns(t)
  <2>1. Bare(t) /\ Bare(t)' /\ Now(t)' = "end"
    BY <1>13, OwnsRoles DEF Aside, RolesAt
  <2>2. th'[t].vec = <<>>
    BY <1>3, <1>13, <2>1 DEF Owns, Plain, Bare, Writers
  <2>3. out'.written = out.written /\ out'.request = out.request /\ out'.queue = out.queue
    BY <1>3, <1>13 DEF Owns, OutRecords
  <2>5. WritersNow(t)
    BY <1>3, <1>8, <2>1, <2>2, <2>3 DEF WritersNow, Bare, Writers
  <2> QED BY <1>1, <1>3, <1>6, <1>7, <2>3, <2>5, WritersKept
<1>14. CASE SendsNow(t) \/ Flushes(t) \/ WritesOwn(t)
  <2>1. BeginsToSend(t)
    BY <1>14, SendsNowRoles, FlushesRoles DEF WritesOwn
  <2>2. \A v \in Threads : ~SendsOut(v) /\ th[v].vec = <<>>
    BY <1>1, <1>3, <1>14, NumberingIsAlone, OwnerWritesAlone, FlushesAlone
       DEF SendsNow, Numbering, Flushes, WritesOwn
  <2>3. out'.queue = <<>> /\ out'.written < out'.request
    <3>1. CASE SendsNow(t)
      BY <1>3, <1>4, <3>1 DEF SendsNow, OutRecords, Writers
    <3>2. CASE Flushes(t)
      BY <1>3, <1>4, <3>2 DEF Flushes, OutRecords, Writers
    <3>3. CASE WritesOwn(t)
      <4>1. out'.queue = out.queue /\ out.queue = <<>>
        BY <1>1, <1>3, <3>3, OwnerWritesAlone DEF WritesOwn, OutRecords
      <4> QED BY <1>3, <1>4, <3>3, <4>1 DEF WritesOwn, OutRecords, Writers
    <3> QED BY <1>14, <3>1, <3>2, <3>3
  <2>4. WritersNow(t)
    BY <1>1, <2>1, <2>3 DEF WritersNow, BeginsToSend, OutRecords
  <2> QED BY <1>1, <1>3, <2>2, <2>3, <2>4, WritersKept
<1>15. CASE SentAll(t)
  <2>1. SendsOut(t) /\ th[t].vec = <<>> /\ Bare(t)' /\ th'[t].vec = <<>>
    BY <1>15 DEF SentAll, RolesAt, Plain
  <2>2. \A v \in Threads \ {t} : ~SendsOut(v) /\ th[v].vec = <<>>
    BY <1>3, <2>1 DEF Counters, Writers
  <2>3. out'.written = out'.request /\ out'.queue = <<>> /\ out'.request = out.request
    BY <1>3, <1>15, <2>1 DEF SentAll, OutRecords, Writers
  <2>4. Now(t)' \notin {"send", "sync", "writable"}
    BY <1>15 DEF SentAll
  <2>5. WritersNow(t)
    BY <1>4, <1>8, <2>1, <2>3, <2>4 DEF WritersNow, Bare
  <2> QED BY <1>1, <1>3, <2>2, <2>5, WritersKept
<1>16. CASE PollsToWrite(t) \/ Writes(t)
  <2>1. SendsOut(t) /\ SendsOut(t)' /\ th[t].vec # <<>>
    BY <1>3, <1>16 DEF PollsToWrite, Writes, Writers
  <2>2. out'.written = out.written /\ out'.request = out.request /\ out'.queue = out.queue
    BY <1>3, <1>16 DEF PollsToWrite, Writes, OutRecords
  <2>3. out.queue = <<>> /\ out.written < out.request
    BY <1>3, <2>1 DEF Writers
  <2>4. Writing(t)' => th'[t].vec # <<>>
    BY <1>16 DEF PollsToWrite, Writes
  <2>5. Now(t)' \notin {"send", "sync", "writable"}
    BY <1>16 DEF PollsToWrite, Writes
  <2>6. WritersNow(t)
    BY <1>4, <2>1, <2>2, <2>3, <2>4, <2>5 DEF WritersNow
  <2> QED BY <1>1, <1>3, <2>2, <2>3, <2>6, WritersKept
<1>17. CASE LooksAt(t) \/ Receives(t) \/ ReadsPacket(t)
  <2>1. Polling(t)
    BY <1>17 DEF LooksAt, Receives, ReadsPacket
  <2>2. WritersNow(t)
    BY <1>3, <1>4, <2>1 DEF Polling, SameRoles, WritersNow, Writers
  <2> QED BY <1>1, <1>3, <1>6, <1>7, <2>1, <2>2, WritersKept DEF Polling
<1>18. CASE ReadsOn(t) \/ PollsToRead(t)
  <2>1. ~SendsOut(t) /\ ~SendsOut(t)'
    BY <1>18, PollsToReadRoles DEF ReadsOn, RolesAt, Bare
  <2>2. th'[t].vec = <<>> /\ UNCHANGED out
    BY <1>3, <1>18, <2>1 DEF ReadsOn, PollsToRead, Plain, Writers
  <2>3. Now(t)' \notin {"send", "sync", "writable"}
    BY <1>18 DEF ReadsOn, PollsToRead
  <2>4. WritersNow(t)
    BY <1>3, <1>8, <2>1, <2>2, <2>3 DEF WritersNow, Writers
  <2> QED BY <1>1, <1>3, <1>6, <1>7, <2>2, <2>4, WritersKept
<1>19. CASE Returned(t) \/ LetsGo(t)
  <2>1. (Writing(t)' <=> Writing(t)) /\ (SendsOut(t)' <=> SendsOut(t)) /\ Now(t)' = Now(t)
        /\ th'[t].vec = th[t].vec /\ Now(t) \in {"polled", "gotback"}
    BY <1>19, SameStack DEF Returned, LetsGo, Resumed
  <2>2. out'.written = out.written /\ out'.request = out.request /\ out'.queue = out.queue
    BY <1>3, <1>19 DEF Returned, LetsGo, OutRecords
  <2>3. WritersNow(t)
    BY <1>3, <2>1, <2>2 DEF WritersNow, Writers
  <2> QED BY <1>1, <1>3, <1>6, <1>7, <2>2, <2>3, WritersKept
<1> QED BY <1>10, <1>11, <1>12, <1>13, <1>14, <1>15, <1>16, <1>17, <1>18, <1>19
        DEF ThreadStep, Quiet, Sends, Reads

\* At most one library takes the socket over, as Xlib does.  With two of them
\* xcb_take_socket, which gives iolock up while it flushes, may let both in.
OneOwner == \A o, p \in Owners : o = p

\* What a step of another thread leaves alone for v.
LEMMA TakesOfOthers ==
    ASSUME Takes, NEW v \in Threads, SameThread(v),
           th[v].op = "write" /\ Now(v) # "end" => v \in out'.owns,
           InTake(v) => v \notin out'.owns,
           InTake(v) /\ Now(v) \notin {"getback", "gotback"} => out'.returnSocket = NoThread
    PROVE  /\ Now(v)' = "writev" => th'[v].op = "write"
           /\ th'[v].op = "write" /\ Now(v)' # "end" => v \in out'.owns
           /\ InTake(v)' => v \in Owners \ out'.owns
           /\ InTake(v)' /\ Now(v)' \notin {"getback", "gotback"} => out'.returnSocket = NoThread
BY DEF Takes, SameThread

\* The most frequent case: the thread goes on with its call, and the socket is where it was.
LEMMA TakesKept ==
    ASSUME Takes, NEW t \in Threads, Moved(t), Now(t) # "end", \A v \in Threads \ {t} : SameThread(v),
           Now(t)' # "writev", out'.owns = out.owns,
           out'.returnSocket \in {out.returnSocket, NoThread},
           InTake(t)' => /\ InTake(t)
                         /\ Now(t)' \notin {"getback", "gotback"} =>
                              Now(t) \notin {"getback", "gotback"} \/ out'.returnSocket = NoThread
    PROVE  Takes'
<1>1. ASSUME NEW v \in Threads \ {t}
      PROVE  /\ Now(v)' = "writev" => th'[v].op = "write"
             /\ th'[v].op = "write" /\ Now(v)' # "end" => v \in out'.owns
             /\ InTake(v)' => v \in Owners \ out'.owns
             /\ InTake(v)' /\ Now(v)' \notin {"getback", "gotback"} => out'.returnSocket = NoThread
  BY TakesOfOthers DEF Takes
<1>2. /\ th'[t].op = "write" /\ Now(t)' # "end" => t \in out'.owns
      /\ InTake(t)' => t \in Owners \ out'.owns
      /\ InTake(t)' /\ Now(t)' \notin {"getback", "gotback"} => out'.returnSocket = NoThread
  BY DEF Takes, Moved
<1> QED BY <1>1, <1>2 DEF Takes

\* Every step of a thread keeps Takes.
LEMMA TakesNext ==
    ASSUME Base, OneOwner, Socket, NEW t \in Threads, ThreadStep(t)
    PROVE  Takes'
<1>1. /\ \A v \in Threads \ {t} : SameThread(v) /\ Now(v) \in Unlocked \cup {"end"}
      /\ in' \in InRecords /\ out' \in OutRecords
  BY StepTypes
<1>3. in \in InRecords /\ out \in OutRecords /\ Counters /\ Writers /\ Ownership /\ Takes
  BY TypesAre DEF Socket
<1>4. \A v \in Threads : InTake(v) => v \in Owners \ out.owns
  BY <1>3 DEF Takes
<1>10. CASE Simple(t)
  <2>1. Moved(t) /\ UNCHANGED out /\ Now(t)' # "writev" /\ TakesOn(t) /\ Now(t) # "end"
        /\ Now(t)' # "gotback"
    BY <1>10 DEF Simple
  <2> QED BY <1>1, <1>3, <2>1, TakesKept DEF TakesOn, Takes
<1>11. CASE Called(t)
  <2>1. \A v \in Threads \ {t} : SameThread(v) /\ UNCHANGED out
    BY <1>1, <1>11 DEF Called
  <2>2. \A v \in Threads \ {t} :
           /\ Now(v)' = "writev" => th'[v].op = "write"
           /\ th'[v].op = "write" /\ Now(v)' # "end" => v \in out'.owns
           /\ InTake(v)' => v \in Owners \ out'.owns
           /\ InTake(v)' /\ Now(v)' \notin {"getback", "gotback"} => out'.returnSocket = NoThread
    BY <1>3, <2>1, TakesOfOthers DEF Takes
  <2>3. /\ Now(t)' = "writev" => th'[t].op = "write"
        /\ th'[t].op = "write" => t \in out'.owns
        /\ InTake(t)' => Now(t)' = "getback" /\ t \in Owners \ out'.owns
    BY <1>11, CalledRoles DEF Called
  <2> QED BY <2>2, <2>3 DEF Takes
<1>12. CASE Moves(t)
  <2>1. Now(t) = "getback" /\ Now(t)' = "gotback" /\ (InTake(t)' <=> InTake(t))
    BY <1>12, MovesRoles
  <2>2. Moved(t) /\ out'.owns = out.owns /\ out'.returnSocket = out.returnSocket
    BY <1>3, <1>12 DEF Moves, Plain, OutRecords
  <2> QED BY <1>1, <1>3, <2>1, <2>2, TakesKept
<1>13. CASE GivesBack(t)
  <2>1. /\ Moved(t) /\ Now(t) = "gotback" /\ Now(t)' \in {"writable", "takeflush"}
        /\ Now(t)' = Then(t) /\ Aside(t)
    BY <1>13 DEF GivesBack, Plain
  <2>2. out'.owns = out.owns /\ out'.returnSocket = NoThread
    BY <1>3, <1>13 DEF GivesBack, OutRecords
  <2>3. InTake(t)' => InTake(t)
    BY <2>1 DEF Aside, RolesAt, Take
  <2> QED BY <1>1, <1>3, <2>1, <2>2, <2>3, TakesKept
<1>14. CASE HandsOut(t) \/ Inserts(t) \/ Removes(t) \/ Queues(t)
  <2>1. /\ Moved(t) /\ Aside(t) /\ Now(t) \notin {"end", "gotback"}
        /\ Now(t)' \in {"end", "replyloop", "wakenext", "cookie", "prepare", "checkflush"}
    BY <1>14, InsertsRoles, QueuesRoles DEF HandsOut, Removes, Inserts, Queues, Plain
  <2>2. out'.owns = out.owns /\ out'.returnSocket = out.returnSocket
    BY <1>3, <1>14 DEF HandsOut, Inserts, Removes, Queues, OutRecords
  <2>3. ~InTake(t)'
    BY <2>1 DEF Aside, RolesAt, Take
  <2> QED BY <1>1, <1>3, <2>1, <2>2, <2>3, TakesKept
<1>15. CASE Owns(t)
  <2>1. Aside(t) /\ Now(t) = "take" /\ Now(t)' = "end" /\ InTake(t)
    BY <1>15, OwnsRoles
  <2>2. out'.owns = out.owns \cup {t} /\ out'.returnSocket = t
    BY <1>3, <1>15 DEF Owns, OutRecords
  <2>3. \A v \in Threads \ {t} : ~InTake(v)
    BY <1>4, <2>1 DEF OneOwner
  <2>4. ~InTake(t)'
    BY <2>1 DEF Aside, RolesAt, Take
  <2>5. \A v \in Threads \ {t} :
           /\ Now(v)' = "writev" => th'[v].op = "write"
           /\ th'[v].op = "write" /\ Now(v)' # "end" => v \in out'.owns
           /\ ~InTake(v)'
    BY <1>1, <1>3, <2>2, <2>3 DEF SameThread, Takes
  <2> QED BY <2>1, <2>4, <2>5 DEF Takes
<1>16. CASE SendsNow(t) \/ Flushes(t) \/ WritesOwn(t)
  <2>1. Now(t)' = "outsend" /\ Moved(t) /\ Now(t) \in {"send", "sync", "flush", "writev"}
    BY <1>16, SendsNowRoles, FlushesRoles DEF WritesOwn, SendsNow, Flushes, BeginsToSend
  <2>2. InTake(t)' => InTake(t)
    <3>1. CASE SendsNow(t)
      BY <3>1, SendsNowRoles
    <3>2. CASE Flushes(t)
      BY <3>2, FlushesRoles
    <3>3. CASE WritesOwn(t)
      BY <3>3 DEF WritesOwn, BeginsToSend, Take
    <3> QED BY <1>16, <3>1, <3>2, <3>3
  <2>3. out'.owns = out.owns /\ out'.returnSocket = out.returnSocket
    BY <1>3, <1>16 DEF SendsNow, Flushes, WritesOwn, OutRecords
  <2> QED BY <1>1, <1>3, <2>1, <2>2, <2>3, TakesKept
<1>17. CASE SentAll(t) \/ PollsToWrite(t) \/ Writes(t)
  <2>1. /\ Moved(t) /\ Now(t) \in {"outsend", "write"} /\ Now(t)' # "writev"
        /\ InTake(t)' => InTake(t)
    BY <1>17 DEF SentAll, PollsToWrite, Writes, Plain
  <2>2. out'.owns = out.owns /\ out'.returnSocket = out.returnSocket
    BY <1>3, <1>17 DEF SentAll, PollsToWrite, Writes, OutRecords
  <2> QED BY <1>1, <1>3, <2>1, <2>2, TakesKept
<1>18. CASE LooksAt(t) \/ Receives(t) \/ ReadsPacket(t)
  <2>1. Polling(t)
    BY <1>18 DEF LooksAt, Receives, ReadsPacket
  <2>2. /\ Moved(t) /\ Now(t) \in Tops /\ Now(t)' # "writev" /\ UNCHANGED out
        /\ InTake(t)' => InTake(t)
    BY <2>1 DEF Polling, SameRoles
  <2> QED BY <1>1, <1>3, <2>2, TakesKept DEF Tops
<1>19. CASE ReadsOn(t) \/ PollsToRead(t)
  <2>1. Moved(t) /\ Now(t) \in {"waited", "replyloop", "eventloop"} /\ UNCHANGED out
        /\ Now(t)' \in {"replyloop", "eventloop", "remove", "wakenext", "polled"}
    BY <1>19 DEF ReadsOn, PollsToRead, Plain
  <2>2. ~InTake(t)'
    BY <1>19, <2>1, PollsToReadRoles DEF ReadsOn, RolesAt, Take
  <2> QED BY <1>1, <1>3, <2>1, <2>2, TakesKept
<1>20. CASE Returned(t) \/ LetsGo(t)
  <2>1. /\ Now(t)' = Now(t) /\ Then(t)' = Then(t) /\ (InTake(t)' <=> InTake(t))
        /\ th'[t].op = th[t].op /\ Now(t) \in {"polled", "gotback"}
    BY <1>20, SameStack DEF Returned, LetsGo, Resumed
  <2>2. out'.owns \subseteq out.owns /\ out'.returnSocket = out.returnSocket
    BY <1>3, <1>20 DEF Returned, LetsGo, OutRecords
  <2>3. \A v \in Threads : th[v].op = "write" /\ Now(v) # "end" => v \in out'.owns
    <3>1. CASE Returned(t)
      BY <1>3, <3>1 DEF Returned, Takes
    <3>2. CASE LetsGo(t)
      <4>1. \A v \in Threads : Now(v) = "end" <=> th[v].stack = <<>>
        BY TypesAre, PlacesAre
      <4>2. out'.owns = out.owns \ {out.returnSocket}
        BY <1>3, <3>2 DEF LetsGo, OutRecords
      <4> QED BY <1>3, <3>2, <4>1, <4>2 DEF LetsGo, Takes
    <3> QED BY <1>20, <3>1, <3>2
  <2>4. \A v \in Threads \ {t} :
           /\ Now(v)' = "writev" => th'[v].op = "write"
           /\ th'[v].op = "write" /\ Now(v)' # "end" => v \in out'.owns
           /\ InTake(v)' => v \in Owners \ out'.owns
           /\ InTake(v)' /\ Now(v)' \notin {"getback", "gotback"} => out'.returnSocket = NoThread
    BY <1>1, <1>3, <2>2, <2>3, TakesOfOthers DEF Takes
  <2>5. /\ Now(t)' # "writev"
        /\ th'[t].op = "write" /\ Now(t)' # "end" => t \in out'.owns
        /\ InTake(t)' => t \in Owners \ out'.owns
        /\ InTake(t)' /\ Now(t)' \notin {"getback", "gotback"} => out'.returnSocket = NoThread
    BY <1>3, <2>1, <2>2, <2>3 DEF Takes
  <2> QED BY <2>4, <2>5 DEF Takes
<1> QED BY <1>10, <1>11, <1>12, <1>13, <1>14, <1>15, <1>16, <1>17, <1>18, <1>19, <1>20
        DEF ThreadStep, Quiet, Sends, Reads

\* A thread in the callback is not woken by others.
LEMMA GotBackOfOthers ==
    ASSUME Base, NEW v \in Threads, SameThread(v), Now(v) = "gotback"
    PROVE  th'[v].wait = th[v].wait
<1>1. Control(v)
  BY DEF Base
<1>2. th[v].wait \in {"run", "callback"}
  BY <1>1 DEF Control, WaitsAt
<1> QED BY <1>2 DEF SameThread, Sleeps

\* The socket stays where it is.
LEMMA OwnershipKept ==
    ASSUME Base, Ownership, NEW t \in Threads, \A v \in Threads \ {t} : SameThread(v),
           Now(t) # "gotback", Now(t)' # "gotback",
           out'.owns = out.owns, out'.returnSocket = out.returnSocket, out'.moving = out.moving,
           out.owns # {} => out'.queue = <<>>,
           out.owns \ {t} # {} => th'[t].vec = <<>>
    PROVE  Ownership'
<1>1. \A v \in Threads : Now(v)' = "gotback" <=> Now(v) = "gotback"
  BY DEF SameThread
<1>2. \A v \in Threads : Now(v) = "gotback" => th'[v].wait = th[v].wait
  BY GotBackOfOthers
<1>3. ASSUME NEW o \in out.owns
      PROVE  out'.queue = <<>> /\ \A v \in Threads \ {o} : th'[v].vec = <<>>
  BY DEF Ownership, SameThread
<1> QED BY <1>1, <1>2, <1>3 DEF Ownership

\* Every step of a thread keeps Ownership.
LEMMA OwnershipNext ==
    ASSUME Base, Socket, NEW t \in Threads, ThreadStep(t)
    PROVE  Ownership'
<1>1. /\ \A v \in Threads \ {t} : SameThread(v) /\ Now(v) \in Unlocked \cup {"end"}
      /\ in' \in InRecords /\ out' \in OutRecords
  BY StepTypes
<1>3. in \in InRecords /\ out \in OutRecords /\ Counters /\ Writers /\ Ownership /\ Takes
  BY TypesAre DEF Socket
<1>4. \A v \in Threads : ~SendsOut(v) => th[v].vec = <<>>
  BY <1>3 DEF Writers
<1>5. out.owns # {} => out.queue = <<>>
  BY <1>3 DEF Ownership
<1>6. out.owns \ {t} # {} => th[t].vec = <<>>
  BY <1>3 DEF Ownership
<1>7. NoThread \notin Threads /\ out.owns \subseteq Threads
  BY <1>3, ConstantsAssumption DEF OutRecords
<1>10. CASE Simple(t) \/ Called(t)
  <2>1. Now(t) # "gotback" /\ Now(t)' # "gotback" /\ UNCHANGED out
    BY <1>10, CalledRoles DEF Simple, Called
  <2>2. th'[t].vec \in {<<>>, th[t].vec}
    BY <1>10 DEF Simple, Called
  <2> QED BY <1>1, <1>3, <1>5, <1>6, <2>1, <2>2, OwnershipKept
<1>11. CASE HandsOut(t) \/ Inserts(t) \/ Removes(t) \/ ReadsOn(t) \/ PollsToRead(t)
  <2>1. Now(t) # "gotback" /\ Now(t)' # "gotback" /\ UNCHANGED out
    BY <1>11, InsertsRoles DEF HandsOut, Inserts, Removes, ReadsOn, PollsToRead
  <2>2. th'[t].vec \in {<<>>, th[t].vec}
    BY <1>11 DEF HandsOut, Inserts, Removes, ReadsOn, PollsToRead, Plain
  <2> QED BY <1>1, <1>3, <1>5, <1>6, <2>1, <2>2, OwnershipKept
<1>12. CASE Moves(t)
  <2>1. Now(t) = "getback" /\ Now(t)' = "gotback" /\ th'[t].wait = "callback"
    BY <1>12, MovesRoles DEF Moves
  <2>2. /\ out'.owns = out.owns /\ out'.returnSocket = out.returnSocket /\ out'.moving
        /\ out'.queue = out.queue /\ out.returnSocket # NoThread /\ ~out.moving
    BY <1>3, <1>12 DEF Moves, OutRecords
  <2>3. \A v \in Threads : Now(v) # "gotback"
    BY <1>3, <2>2 DEF Ownership
  <2>4. \A v \in Threads \ {t} : Now(v)' # "gotback" /\ th'[v].vec = th[v].vec
    BY <1>1, <2>3 DEF SameThread
  <2>5. th'[t].vec \in {<<>>, th[t].vec}
    BY <1>12 DEF Moves, Plain
  <2>6. ASSUME NEW o \in out'.owns
        PROVE  out'.queue = <<>> /\ \A v \in Threads \ {o} : th'[v].vec = <<>>
    BY <1>3, <2>2, <2>4, <2>5 DEF Ownership
  <2>7. /\ out'.owns \subseteq {out'.returnSocket}
        /\ out'.moving => \E v \in Threads : Now(v)' = "gotback"
    BY <1>3, <2>1, <2>2 DEF Ownership
  <2>8. ASSUME NEW v \in Threads, Now(v)' = "gotback"
        PROVE  v = t
    BY <2>4, <2>8
  <2> QED BY <2>1, <2>2, <2>6, <2>7, <2>8 DEF Ownership
<1>13. CASE GivesBack(t)
  <2>1. Now(t) = "gotback" /\ Now(t)' # "gotback" /\ th[t].wait = "run"
    BY <1>13 DEF GivesBack, Plain, Moved
  <2>2. /\ out'.owns = out.owns /\ out'.returnSocket = NoThread /\ ~out'.moving
    BY <1>3, <1>13 DEF GivesBack, OutRecords
  <2>3. out.owns = {} /\ \A v \in Threads \ {t} : Now(v) # "gotback"
    BY <1>3, <2>1 DEF Ownership
  <2>4. \A v \in Threads : Now(v)' # "gotback"
    BY <1>1, <2>1, <2>3 DEF SameThread
  <2> QED BY <2>2, <2>3, <2>4 DEF Ownership
<1>14. CASE Queues(t) \/ SendsNow(t)
  <2>1. out.owns = {}
    BY <1>1, <1>3, <1>14, NumberingIsAlone DEF Queues, SendsNow, Numbering
  <2>2. Now(t) # "gotback" /\ Now(t)' # "gotback"
    BY <1>14, QueuesRoles, SendsNowRoles DEF Queues, SendsNow, BeginsToSend
  <2>3. out'.owns = out.owns /\ out'.returnSocket = out.returnSocket /\ out'.moving = out.moving
    BY <1>3, <1>14 DEF Queues, SendsNow, OutRecords
  <2> QED BY <1>1, <1>3, <2>1, <2>2, <2>3, OwnershipKept
<1>15. CASE Owns(t)
  <2>1. Now(t) = "take" /\ Now(t)' = "end" /\ InTake(t) /\ th'[t].vec = <<>>
    BY <1>4, <1>15, OwnsRoles DEF Aside, RolesAt, Bare, Owns, Plain
  <2>2. out.returnSocket = NoThread
    BY <1>3, <2>1 DEF Takes
  <2>3. out.owns = {} /\ \A v \in Threads : Now(v) # "gotback"
    BY <1>3, <1>7, <2>2 DEF Ownership
  <2>4. ~out.moving
    BY <1>3, <2>3 DEF Ownership
  <2>5. out'.owns = {t} /\ out'.returnSocket = t /\ ~out'.moving /\ out'.queue = out.queue
    BY <1>3, <1>15, <2>3, <2>4 DEF Owns, OutRecords
  <2>6. out.queue = <<>> /\ \A v \in Threads : th[v].vec = <<>>
    <3>1. out.request = out.written /\ out.written \in Nat
      BY <1>3, <1>15 DEF Owns, OutRecords
    <3> QED BY <1>3, <3>1 DEF Writers
  <2>7. \A v \in Threads : th'[v].vec = <<>> /\ Now(v)' # "gotback"
    BY <1>1, <2>1, <2>3, <2>6 DEF SameThread
  <2> QED BY <2>5, <2>6, <2>7 DEF Ownership
<1>16. CASE Flushes(t)
  <2>1. out.owns = {}
    BY <1>3, <1>16 DEF Flushes, Ownership
  <2>2. Now(t) # "gotback" /\ Now(t)' # "gotback"
    BY <1>16, FlushesRoles DEF Flushes, BeginsToSend
  <2>3. out'.owns = out.owns /\ out'.returnSocket = out.returnSocket /\ out'.moving = out.moving
    BY <1>3, <1>16 DEF Flushes, OutRecords
  <2> QED BY <1>1, <1>3, <2>1, <2>2, <2>3, OwnershipKept
<1>17. CASE WritesOwn(t)
  <2>1. out.owns = {t} /\ out.queue = <<>>
    BY <1>1, <1>3, <1>17, OwnerWritesAlone DEF WritesOwn
  <2>2. Now(t) # "gotback" /\ Now(t)' # "gotback"
    BY <1>17 DEF WritesOwn, BeginsToSend
  <2>3. out'.owns = out.owns /\ out'.returnSocket = out.returnSocket /\ out'.moving = out.moving
        /\ out'.queue = out.queue
    BY <1>3, <1>17 DEF WritesOwn, OutRecords
  <2>4. out.owns \ {t} = {}
    BY <2>1
  <2> QED BY <1>1, <1>3, <2>1, <2>2, <2>3, <2>4, OwnershipKept
<1>18. CASE SentAll(t) \/ PollsToWrite(t) \/ Writes(t)
  <2>1. Now(t) # "gotback" /\ Now(t)' # "gotback"
    BY <1>18 DEF SentAll, PollsToWrite, Writes
  <2>2. out'.owns = out.owns /\ out'.returnSocket = out.returnSocket /\ out'.moving = out.moving
        /\ out'.queue = out.queue
    BY <1>3, <1>18 DEF SentAll, PollsToWrite, Writes, OutRecords
  <2>3. out.owns \ {t} # {} => th'[t].vec = <<>>
    <3>1. CASE SentAll(t) \/ PollsToWrite(t)
      BY <1>6, <3>1 DEF SentAll, PollsToWrite, Plain
    <3>2. CASE Writes(t)
      BY <1>3, <1>6, <3>2 DEF Writes, Writers
    <3> QED BY <1>18, <3>1, <3>2
  <2> QED BY <1>1, <1>3, <1>5, <2>1, <2>2, <2>3, OwnershipKept
<1>19. CASE LooksAt(t) \/ Receives(t) \/ ReadsPacket(t)
  <2>1. Polling(t)
    BY <1>19 DEF LooksAt, Receives, ReadsPacket
  <2>2. Now(t) # "gotback" /\ Now(t)' # "gotback" /\ UNCHANGED out /\ th'[t].vec = th[t].vec
    BY <2>1 DEF Polling, Tops
  <2> QED BY <1>1, <1>3, <1>5, <1>6, <2>2, OwnershipKept
<1>20. CASE Returned(t)
  <2>1. Now(t) # "gotback" /\ Now(t)' # "gotback" /\ UNCHANGED out /\ th'[t].vec = th[t].vec
    BY <1>20, SameStack DEF Returned, Resumed
  <2> QED BY <1>1, <1>3, <1>5, <1>6, <2>1, OwnershipKept
<1>21. CASE LetsGo(t)
  <2>1. Now(t) = "gotback" /\ Now(t)' = "gotback" /\ th'[t].wait = "run"
    BY <1>21, SameStack DEF LetsGo, Resumed
  <2>2. out'.owns = out.owns \ {out.returnSocket} /\ out'.returnSocket = out.returnSocket
        /\ out'.moving = out.moving
    BY <1>3, <1>21 DEF LetsGo, OutRecords
  <2>3. out'.owns = {} /\ out.moving /\ out.returnSocket # NoThread
    BY <1>3, <2>1, <2>2 DEF Ownership
  <2>4. \A v \in Threads : Now(v)' = "gotback" => v = t
    BY <1>1, <1>3, <2>1 DEF SameThread, Ownership
  <2> QED BY <2>1, <2>2, <2>3, <2>4 DEF Ownership
<1> QED BY <1>10, <1>11, <1>12, <1>13, <1>14, <1>15, <1>16, <1>17, <1>18, <1>19, <1>20, <1>21
        DEF ThreadStep, Quiet, Sends, Reads

-----------------------------------------------------------------------------
(* The invariant: a failure is seen by all                                 *)

\* A failure that a thread has seen is the connection's.
Failures ==
    /\ net.error => net.broken
    /\ \A t \in Threads :
         /\ Now(t) \in {"write", "packets"} /\ ~th[t].ok => net.error
         /\ Now(t) = "polled" /\ th[t].wait = "run" /\ th[t].revents = {"hup"} => net.error

\* What the steps do to the connection.
LEMMA NetStep ==
    ASSUME Base, NEW t \in Threads, ThreadStep(t)
    PROVE  /\ net.error => net'.error
           /\ net'.error => net.error \/ net.broken
           /\ net'.broken = net.broken /\ net'.served = net.served
           /\ ~Writes(t) => net'.socket = net.socket
           /\ ~Writes(t) /\ ~Receives(t) => net'.wire = net.wire
<1>0. net \in NetRecords
  BY TypesAre
<1>1. CASE Quiet(t)
  BY <1>1 DEF Quiet, Simple, Moves, GivesBack, HandsOut, Queues, Owns, Inserts, Removes, Called
<1>2. CASE Writes(t)
  <2>1. net'.broken = net.broken /\ net'.served = net.served /\ net'.wire = net.wire
    BY <1>0, <1>2 DEF Writes, NetRecords
  <2> QED BY <1>2, <2>1 DEF Writes
<1>3. CASE SendsNow(t) \/ Flushes(t) \/ WritesOwn(t) \/ SentAll(t) \/ PollsToWrite(t)
  BY <1>3 DEF SendsNow, Flushes, WritesOwn, SentAll, PollsToWrite
<1>4. CASE LooksAt(t) \/ ReadsPacket(t) \/ ReadsOn(t) \/ PollsToRead(t) \/ LetsGo(t)
  BY <1>4 DEF LooksAt, ReadsPacket, ReadsOn, PollsToRead, LetsGo
<1>5. CASE Receives(t)
  BY <1>5 DEF Receives, Polling
<1>6. CASE Returned(t)
  BY <1>0, <1>6 DEF Returned, NetRecords
<1> QED BY <1>1, <1>2, <1>3, <1>4, <1>5, <1>6 DEF ThreadStep, Sends, Reads

\* Every step of a thread keeps Failures.
LEMMA FailuresNext ==
    ASSUME Base, Failures, NEW t \in Threads, ThreadStep(t)
    PROVE  Failures'
<1>1. \A v \in Threads \ {t} : SameThread(v) /\ Now(v) \in Unlocked \cup {"end"}
  BY StepTypes
<1>2. (net.error => net'.error) /\ (net'.error => net'.broken)
  BY NetStep DEF Failures
<1>3. ASSUME NEW v \in Threads \ {t}
      PROVE  /\ Now(v)' \in {"write", "packets"} /\ ~th'[v].ok => net'.error
             /\ Now(v)' = "polled" /\ th'[v].wait = "run" /\ th'[v].revents = {"hup"} => net'.error
  <2>1. Control(v)
    BY DEF Base
  <2>2. Now(v)' = Now(v) /\ th'[v].ok = th[v].ok /\ th'[v].revents = th[v].revents
    BY <1>1 DEF SameThread
  <2>3. Now(v) = "polled" => th'[v].wait = th[v].wait
    BY <1>1, <2>1 DEF SameThread, Control, WaitsAt, Sleeps
  <2> QED BY <1>2, <2>2, <2>3 DEF Failures
<1> SUFFICES
      /\ Now(t)' \in {"write", "packets"} /\ ~th'[t].ok => net'.error
      /\ Now(t)' = "polled" /\ th'[t].wait = "run" /\ th'[t].revents = {"hup"} => net'.error
  BY <1>2, <1>3 DEF Failures
<1>4. CASE Quiet(t)
  <2>1. Now(t)' \notin {"write", "packets", "polled"}
    <3>1. CASE Simple(t)
      BY <3>1 DEF Simple
    <3>2. CASE Called(t)
      BY <3>2 DEF Called, Starts
    <3>3. CASE Moves(t) \/ GivesBack(t) \/ HandsOut(t) \/ Queues(t) \/ Owns(t) \/ Inserts(t) \/ Removes(t)
      BY <3>3, MovesRoles, QueuesRoles, OwnsRoles, InsertsRoles DEF GivesBack, HandsOut, Removes
    <3> QED BY <1>4, <3>1, <3>2, <3>3 DEF Quiet
  <2> QED BY <2>1
<1>5. CASE Sends(t)
  <2>1. /\ Now(t)' \notin {"write", "packets"}
        /\ Now(t)' = "polled" => th'[t].wait = "poll"
    BY <1>5, SendsNowRoles, FlushesRoles
       DEF Sends, BeginsToSend, WritesOwn, SentAll, PollsToWrite, Writes
  <2> QED BY <2>1
<1>6. CASE LooksAt(t)
  BY <1>2, <1>6 DEF LooksAt, Polling, Failures
<1>7. CASE Receives(t)
  BY <1>2, <1>7 DEF Receives, Polling
<1>8. CASE ReadsPacket(t)
  BY <1>2, <1>8 DEF ReadsPacket, Polling, Failures
<1>9. CASE ReadsOn(t) \/ PollsToRead(t)
  <2>1. /\ Now(t)' \notin {"write", "packets"}
        /\ Now(t)' = "polled" => th'[t].wait = "poll"
    BY <1>9 DEF ReadsOn, PollsToRead
  <2> QED BY <2>1
<1>10. CASE Returned(t) \/ LetsGo(t)
  <2>1. Now(t)' = Now(t) /\ Now(t) \in {"polled", "gotback"}
    BY <1>10, SameStack DEF Returned, LetsGo, Resumed
  <2> QED BY <1>10, <2>1 DEF Returned, LetsGo
<1> QED BY <1>4, <1>5, <1>6, <1>7, <1>8, <1>9, <1>10 DEF ThreadStep, Reads

-----------------------------------------------------------------------------
(* The invariant: the requests are in order                                *)

\* q holds the numbers after m, up to n, in order.
Follows(q, m, n) == Len(q) = n - m /\ \A i \in 1 .. Len(q) : q[i] = m + i

\* A number more, numbers dropped from the front, numbers joined.
LEMMA FollowsAppend ==
    ASSUME NEW q \in Seq(Nat), NEW m \in Nat, NEW n \in Nat, Follows(q, m, n)
    PROVE  Follows(Append(q, n + 1), m, n + 1) /\ Append(q, n + 1) # <<>>
<1> DEFINE r == Append(q, n + 1)
<1>1. n + 1 \in Nat
  OBVIOUS
<1>2. /\ Len(r) = Len(q) + 1 /\ r[Len(q) + 1] = n + 1 /\ \A i \in 1 .. Len(q) : r[i] = q[i]
      /\ Len(q) \in Nat /\ r # <<>>
  BY <1>1
<1> HIDE DEF r
<1>3. Len(q) = n - m /\ \A i \in 1 .. Len(q) : q[i] = m + i
  BY DEF Follows
<1>4. ASSUME NEW i \in 1 .. Len(r)
      PROVE  r[i] = m + i
  <2>1. CASE i = Len(q) + 1
    BY <1>2, <1>3, <2>1
  <2>2. CASE i \in 1 .. Len(q)
    BY <1>2, <1>3, <2>2
  <2> QED BY <1>2, <2>1, <2>2
<1> QED BY <1>2, <1>3, <1>4 DEF Follows, r

LEMMA FollowsDrop ==
    ASSUME NEW q \in Seq(Nat), NEW m \in Nat, NEW n \in Nat, Follows(q, m, n), NEW k \in 0 .. Len(q)
    PROVE  Follows(SubSeq(q, k + 1, Len(q)), m + k, n)
<1> DEFINE r == SubSeq(q, k + 1, Len(q))
<1>1. Len(r) = Len(q) - k /\ Len(q) \in Nat
  OBVIOUS
<1>2. \A i \in 1 .. Len(r) : r[i] = q[k + i]
  BY <1>1
<1> HIDE DEF r
<1>3. \A i \in 1 .. Len(r) : r[i] = m + k + i
  BY <1>1, <1>2 DEF Follows
<1> QED BY <1>1, <1>3 DEF Follows, r

LEMMA FollowsJoin ==
    ASSUME NEW s \in Seq(Nat), NEW q \in Seq(Nat), NEW n \in Nat, Follows(q, Len(s), n),
           \A i \in 1 .. Len(s) : s[i] = i, NEW k \in Nat, k <= Len(q)
    PROVE  LET r == s \o SubSeq(q, 1, k)
           IN Len(r) = Len(s) + k /\ Len(r) <= n /\ \A i \in 1 .. Len(r) : r[i] = i
<1> DEFINE p == SubSeq(q, 1, k)
           r == s \o p
<1>1. p \in Seq(Nat) /\ Len(p) = k /\ \A i \in 1 .. k : p[i] = q[i]
  OBVIOUS
<1> HIDE DEF p
<1>2. Len(s) \in Nat /\ Len(q) \in Nat
  OBVIOUS
<1>3. Len(r) = Len(s) + k /\ (\A i \in 1 .. Len(s) : r[i] = s[i])
      /\ \A i \in Len(s) + 1 .. Len(s) + k : r[i] = p[i - Len(s)]
  BY <1>1, <1>2 DEF p
<1> HIDE DEF r
<1>4. ASSUME NEW i \in 1 .. Len(r)
      PROVE  r[i] = i
  <2>1. CASE i \in 1 .. Len(s)
    BY <1>3, <2>1
  <2>2. CASE i \in Len(s) + 1 .. Len(s) + k
    <3>1. i - Len(s) \in 1 .. k
      BY <1>2, <2>2
    <3>2. r[i] = q[i - Len(s)]
      BY <1>1, <1>3, <2>2, <3>1
    <3> QED BY <1>2, <3>1, <3>2 DEF Follows
  <2> QED BY <1>2, <1>3, <2>1, <2>2
<1>5. Len(r) = Len(s) + k /\ Len(r) <= n
  BY <1>2, <1>3 DEF Follows
<1> QED BY <1>4, <1>5 DEF r, p

\* What was numbered is in the socket, with the writing thread, or queued.
Order ==
    /\ Len(log) = out.request /\ Len(net.socket) <= out.request
    /\ \A i \in 1 .. Len(net.socket) : net.socket[i] = i
    /\ ~net.error =>
         /\ \A t \in Threads : th[t].vec # <<>> => Follows(th[t].vec, Len(net.socket), out.request)
         /\ (\A t \in Threads : th[t].vec = <<>>) => Follows(out.queue, Len(net.socket), out.request)

\* A step that numbers and writes nothing keeps the order,
LEMMA OrderKept ==
    ASSUME Order, NEW t \in Threads, \A v \in Threads \ {t} : SameThread(v), th'[t].vec = th[t].vec,
           log' = log, out'.request = out.request, out'.queue = out.queue,
           net'.socket = net.socket, net.error => net'.error
    PROVE  Order'
<1>1. \A v \in Threads : th'[v].vec = th[v].vec
  BY DEF SameThread
<1> QED BY <1>1 DEF Order

\* The writing thread and the queue, after a request was numbered.
LEMMA OrderNumbered ==
    ASSUME Base, Order, NEW t \in Threads, \A v \in Threads \ {t} : SameThread(v),
           \A v \in Threads : th[v].vec = <<>>,
           NEW e, log' = Append(log, e), log' \in Seq(LogRecords), out'.request = out.request + 1,
           net'.socket = net.socket, net.error => net'.error,
           ~net.error => \/ /\ th'[t].vec = <<>>
                            /\ out'.queue = Append(out.queue, out.request + 1)
                         \/ /\ th'[t].vec = Append(out.queue, out.request + 1)
    PROVE  Order'
<1>1. out.request \in Nat /\ net.socket \in Seq(Nat) /\ out.queue \in Seq(Nat) /\ log \in Seq(LogRecords)
  BY TypesAre DEF OutRecords, NetRecords
<1>2. Len(log') = Len(log) + 1
  BY <1>1
<1>3. Len(log') = out'.request /\ Len(net'.socket) <= out'.request
      /\ \A i \in 1 .. Len(net'.socket) : net'.socket[i] = i
  BY <1>1, <1>2 DEF Order
<1>4. \A v \in Threads \ {t} : th'[v].vec = <<>>
  BY DEF SameThread
<1>5. ASSUME ~net'.error
      PROVE  /\ \A v \in Threads : th'[v].vec # <<>> => Follows(th'[v].vec, Len(net'.socket), out'.request)
             /\ (\A v \in Threads : th'[v].vec = <<>>) => Follows(out'.queue, Len(net'.socket), out'.request)
  <2>1. Follows(out.queue, Len(net.socket), out.request)
    BY <1>5 DEF Order
  <2>2. Len(net.socket) \in Nat
    BY <1>1
  <2>3. /\ Follows(Append(out.queue, out.request + 1), Len(net.socket), out.request + 1)
        /\ Append(out.queue, out.request + 1) # <<>>
    BY <1>1, <2>1, <2>2, FollowsAppend
  <2>4. Follows(Append(out.queue, out.request + 1), Len(net'.socket), out'.request)
    BY <2>3
  <2> QED BY <1>4, <1>5, <2>3, <2>4
<1> QED BY <1>3, <1>5 DEF Order
\* A thread that does not send has nothing to write.
LEMMA QuietWritesNothing ==
    ASSUME Base, Writers, NEW t \in Threads, Quiet(t)
    PROVE  th[t].vec = <<>> /\ th'[t].vec = <<>> /\ net' = net
<1>1. ~SendsOut(t) => th[t].vec = <<>>
  BY DEF Writers
<1>2. CASE Simple(t)
  BY <1>1, <1>2 DEF Simple, Bare
<1>3. CASE Moves(t)
  BY <1>1, <1>3, MovesRoles DEF Moves, Plain, Aside, RolesAt, Bare
<1>4. CASE GivesBack(t)
  BY <1>1, <1>4 DEF GivesBack, Plain, Aside, RolesAt, Bare
<1>5. CASE HandsOut(t)
  BY <1>1, <1>5 DEF HandsOut, Aside, RolesAt, Bare
<1>6. CASE Queues(t)
  BY <1>1, <1>6, QueuesRoles DEF Queues, Plain, Aside, RolesAt, Bare
<1>7. CASE Owns(t)
  BY <1>1, <1>7, OwnsRoles DEF Owns, Plain, Aside, RolesAt, Bare
<1>8. CASE Inserts(t)
  BY <1>1, <1>8, InsertsRoles DEF Inserts, Plain, Aside, RolesAt, Bare
<1>9. CASE Removes(t)
  BY <1>1, <1>9 DEF Removes, Plain, Aside, RolesAt, Bare
<1>10. CASE Called(t)
  BY <1>10 DEF Called, Base, Control
<1> QED BY <1>2, <1>3, <1>4, <1>5, <1>6, <1>7, <1>8, <1>9, <1>10 DEF Quiet

\* What is written follows what was written before.
LEMMA OrderWrites ==
    ASSUME Base, Counters, Writers, Failures, Order, NEW t \in Threads, Writes(t),
           \A v \in Threads \ {t} : SameThread(v)
    PROVE  Order'
<1>0. net \in NetRecords /\ out \in OutRecords /\ th[t] \in ThreadRecords
  BY TypesAre
<1>1. /\ out.request \in Nat /\ net.socket \in Seq(Nat) /\ out.queue \in Seq(Nat) /\ th[t].vec \in Seq(Nat)
      /\ Len(net.socket) \in Nat
  BY <1>0 DEF OutRecords, NetRecords, ThreadRecords
<1>2. out'.request = out.request /\ out'.queue = out.queue /\ log' = log /\ (net.error => net'.error)
  BY <1>0 DEF Writes, OutRecords
<1>3. SendsOut(t) /\ th[t].vec # <<>> /\ out.queue = <<>>
  BY DEF Writes, Writers
<1>4. \A v \in Threads \ {t} : th[v].vec = <<>> /\ th'[v].vec = <<>>
  BY <1>3 DEF Counters, Writers, SameThread
<1>5. PICK n \in 0 .. Len(th[t].vec) :
         /\ net' = [net EXCEPT !.socket = @ \o SubSeq(th[t].vec, 1, n), !.error = net'.error]
         /\ n > 0 => ~net.broken
         /\ \/ th'[t].vec = SubSeq(th[t].vec, n + 1, Len(th[t].vec))
            \/ n = 0 /\ th'[t].vec = <<>> /\ (~th[t].ok \/ net'.error)
  BY DEF Writes
<1>6. net'.socket = net.socket \o SubSeq(th[t].vec, 1, n)
  BY <1>0, <1>5 DEF NetRecords
<1>7. CASE n = 0
  <2>1. net'.socket = net.socket
    BY <1>1, <1>6, <1>7
  <2>2. ASSUME ~net'.error
        PROVE  th'[t].vec = th[t].vec
    <3>1. ~net.error /\ th[t].ok
      BY <1>0, <1>2, <2>2 DEF Failures, Writes, ThreadRecords
    <3>2. th'[t].vec = SubSeq(th[t].vec, 1, Len(th[t].vec))
      BY <1>5, <1>7, <2>2, <3>1
    <3> QED BY <1>1, <3>2
  <2>3. CASE net'.error
    BY <1>2, <2>1, <2>3 DEF Order
  <2>4. CASE ~net'.error
    BY <1>2, <2>1, <2>2, <2>4, OrderKept
  <2> QED BY <2>3, <2>4
<1>8. CASE n > 0
  <2>1. ~net.error
    BY <1>5, <1>8 DEF Failures
  <2>2. Follows(th[t].vec, Len(net.socket), out.request) /\ \A i \in 1 .. Len(net.socket) : net.socket[i] = i
    BY <1>3, <2>1 DEF Order
  <2>3. /\ Len(net'.socket) = Len(net.socket) + n /\ Len(net'.socket) <= out.request
        /\ \A i \in 1 .. Len(net'.socket) : net'.socket[i] = i
    <3>2. n \in Nat /\ n <= Len(th[t].vec)
      BY <1>1
    <3>3. LET r == net.socket \o SubSeq(th[t].vec, 1, n)
          IN Len(r) = Len(net.socket) + n /\ Len(r) <= out.request /\ \A i \in 1 .. Len(r) : r[i] = i
      BY <1>1, <2>2, <3>2, FollowsJoin
    <3> QED BY <1>6, <3>3
  <2>4. th'[t].vec = SubSeq(th[t].vec, n + 1, Len(th[t].vec))
    BY <1>5, <1>8
  <2>5. Follows(th'[t].vec, Len(net'.socket), out'.request)
    <3>1. Follows(SubSeq(th[t].vec, n + 1, Len(th[t].vec)), Len(net.socket) + n, out.request)
      BY <1>1, <2>2, FollowsDrop
    <3> QED BY <1>2, <2>3, <2>4, <3>1
  <2>6. Follows(out'.queue, Len(net'.socket), out'.request) <=> Len(net'.socket) = out'.request
    <3>1. out'.queue = <<>> /\ Len(net'.socket) \in Nat /\ out'.request \in Nat
      BY <1>1, <1>2, <1>3, <2>3
    <3> QED BY <3>1 DEF Follows
  <2>7. th'[t].vec = <<>> => Len(net'.socket) = out'.request
    <3>1. Len(net'.socket) \in Nat /\ out'.request \in Nat
      BY <1>1, <1>2, <2>3
    <3> QED BY <2>5, <3>1 DEF Follows
  <2>8. Len(log') = out'.request /\ Len(net'.socket) <= out'.request
    BY <1>2, <2>3 DEF Order
  <2> QED BY <1>4, <2>3, <2>5, <2>6, <2>7, <2>8 DEF Order
<1> QED BY <1>5, <1>7, <1>8

\* Every step of a thread keeps Order.
LEMMA OrderNext ==
    ASSUME Base, Socket, Failures, Order, NEW t \in Threads, ThreadStep(t)
    PROVE  Order'
<1>1. /\ \A v \in Threads \ {t} : SameThread(v) /\ Now(v) \in Unlocked \cup {"end"}
      /\ log' \in Seq(LogRecords)
  BY StepTypes
<1>2. Counters /\ Writers /\ Ownership /\ Takes
  BY DEF Socket
<1>3. out \in OutRecords /\ net \in NetRecords
  BY TypesAre
<1>4. CASE Queues(t) \/ SendsNow(t)
  <2>1. Now(t) \in {"send", "sync"} /\ Numbering(t, KindNow(t)) /\ net' = net /\ ~net.error
    BY <1>4 DEF Queues, SendsNow, Numbering
  <2>2. \A v \in Threads : ~SendsOut(v) /\ th[v].vec = <<>>
    BY <1>1, <1>2, <2>1, NumberingIsAlone
  <2>3. /\ out'.request = out.request + 1
        /\ \/ /\ th'[t].vec = <<>>
              /\ out'.queue = Append(out.queue, out.request + 1)
           \/ th'[t].vec = Append(out.queue, out.request + 1)
    <3>1. CASE Queues(t)
      BY <1>3, <2>2, <3>1 DEF Queues, Plain, OutRecords
    <3>2. CASE SendsNow(t)
      BY <1>3, <3>2 DEF SendsNow, OutRecords
    <3> QED BY <1>4, <3>1, <3>2
  <2>4. log' = Append(log, [kind |-> KindNow(t), by |-> t])
    BY <2>1 DEF Numbering
  <2> QED BY <1>1, <2>1, <2>2, <2>3, <2>4, OrderNumbered
<1>5. CASE WritesOwn(t)
  <2>1. /\ \A v \in Threads : ~SendsOut(v) /\ th[v].vec = <<>>
        /\ out.queue = <<>>
    BY <1>1, <1>2, <1>5, OwnerWritesAlone DEF WritesOwn
  <2>2. th'[t].vec = Append(out.queue, out.request + 1)
    <3>1. th'[t].vec = <<out.request + 1>>
      BY <1>5 DEF WritesOwn
    <3> QED BY <2>1, <3>1
  <2>3. out'.request = out.request + 1 /\ net' = net
    BY <1>3, <1>5 DEF WritesOwn, OutRecords
  <2>4. log' = Append(log, [kind |-> th[t].kind, by |-> t])
    BY <1>5 DEF WritesOwn
  <2> QED BY <1>1, <2>1, <2>2, <2>3, <2>4, OrderNumbered
<1>6. CASE Flushes(t)
  <2>1. \A v \in Threads : ~SendsOut(v) /\ th[v].vec = <<>>
    BY <1>2, <1>6, FlushesAlone DEF Flushes
  <2>2. /\ th'[t].vec = out.queue /\ out.queue # <<>> /\ out'.queue = <<>> /\ out'.request = out.request
        /\ log' = log /\ net' = net
    BY <1>3, <1>6 DEF Flushes, OutRecords
  <2>3. \A v \in Threads \ {t} : th'[v].vec = <<>>
    BY <1>1, <2>1 DEF SameThread
  <2> QED BY <2>1, <2>2, <2>3 DEF Order
<1>7. CASE Writes(t)
  BY <1>1, <1>2, <1>7, OrderWrites
<1>8. CASE /\ th'[t].vec = th[t].vec /\ log' = log /\ out'.request = out.request /\ out'.queue = out.queue
           /\ ~Writes(t)
  <2>1. net'.socket = net.socket /\ (net.error => net'.error)
    BY <1>8, NetStep
  <2> QED BY <1>1, <1>8, <2>1, OrderKept
<1>9. CASE Quiet(t) /\ ~Queues(t)
  <2>1. th'[t].vec = th[t].vec
    BY <1>2, <1>9, QuietWritesNothing
  <2>2. log' = log /\ out'.request = out.request /\ out'.queue = out.queue
    BY <1>3, <1>9 DEF Quiet, Simple, Moves, GivesBack, HandsOut, Owns, Inserts, Removes, Called, OutRecords
  <2>3. net'.socket = net.socket /\ (net.error => net'.error)
    BY <1>2, <1>9, QuietWritesNothing
  <2> QED BY <1>1, <2>1, <2>2, <2>3, OrderKept
<1>10. CASE Reads(t) \/ LetsGo(t) \/ SentAll(t) \/ PollsToWrite(t)
  <2>1. log' = log /\ out'.request = out.request /\ out'.queue = out.queue
    BY <1>3, <1>10 DEF Reads, LooksAt, Receives, ReadsPacket, ReadsOn, PollsToRead, Returned, Polling,
           LetsGo, SentAll, PollsToWrite, OutRecords
  <2>2. Now(t) # "write"
    BY <1>10 DEF Reads, LooksAt, Receives, ReadsPacket, ReadsOn, PollsToRead, Returned, LetsGo,
           SentAll, PollsToWrite
  <2>3. ~Writes(t)
    BY <2>2 DEF Writes
  <2>4. th'[t].vec = th[t].vec
    <3>1. CASE LooksAt(t) \/ Receives(t) \/ ReadsPacket(t)
      BY <3>1 DEF LooksAt, Receives, ReadsPacket, Polling
    <3>2. CASE ReadsOn(t)
      BY <1>2, <3>2 DEF ReadsOn, Plain, Writers
    <3>3. CASE PollsToRead(t)
      BY <1>2, <3>3, PollsToReadRoles DEF PollsToRead, Plain, Writers, RolesAt, Bare
    <3>4. CASE Returned(t) \/ LetsGo(t)
      BY <3>4 DEF Returned, LetsGo, Resumed
    <3>5. CASE SentAll(t)
      BY <3>5 DEF SentAll, Plain
    <3>6. CASE PollsToWrite(t)
      BY <3>6 DEF PollsToWrite
    <3> QED BY <1>10, <3>1, <3>2, <3>3, <3>4, <3>5, <3>6 DEF Reads
  <2> QED BY <1>8, <2>1, <2>3, <2>4
<1> QED BY <1>4, <1>5, <1>6, <1>7, <1>9, <1>10 DEF ThreadStep, Sends

-----------------------------------------------------------------------------
(* The invariant: cookies                                                  *)

\* Cookies are of requests that the thread numbered, and so is the number that
\* it will return: nobody numbers one between send_request and the return.
Cookies ==
    \A t \in Threads :
        /\ th[t].cookies \subseteq 1 .. out.request
        /\ \A r \in th[t].cookies : log[r].by = t
        /\ Numbered(t) /\ ~net.error => out.request > 0 /\ log[out.request].by = t

\* A thread that has its number is at the end of its call or writes.
LEMMA NumberedRoles ==
    \A t \in Threads : Numbered(t) => Now(t) = "cookie" \/ SendsOut(t)
BY DEF Numbered, SendsOut, Writing, Tops

LEMMA NumberedRolesNext ==
    \A t \in Threads : Numbered(t)' => Now(t)' = "cookie" \/ SendsOut(t)'
<1>1. (\A t \in Threads : Numbered(t) => Now(t) = "cookie" \/ SendsOut(t))'
  BY NumberedRoles, PTL
<1> QED BY <1>1

\* A step that numbers no request keeps the cookies, one that does keeps them too.
LEMMA CookiesKept ==
    ASSUME Cookies, NEW t \in Threads, \A v \in Threads \ {t} : SameThread(v),
           log' = log, out'.request = out.request, net.error => net'.error,
           th'[t].cookies \subseteq th[t].cookies, Numbered(t)' /\ ~net'.error => Numbered(t)
    PROVE  Cookies'
<1>1. \A v \in Threads : th'[v].cookies \subseteq th[v].cookies
  BY DEF SameThread
<1>2. \A v \in Threads : Numbered(v)' /\ ~net'.error => Numbered(v) /\ ~net.error
  BY DEF SameThread
<1> QED BY <1>1, <1>2 DEF Cookies

LEMMA CookiesNumbered ==
    ASSUME Base, Cookies, Len(log) = out.request, NEW t \in Threads, NEW k,
           \A v \in Threads \ {t} : SameThread(v) /\ Now(v) \in Unlocked \cup {"end"},
           \A v \in Threads : ~SendsOut(v),
           log' = Append(log, [kind |-> k, by |-> t]), out'.request = out.request + 1,
           th'[t].cookies \subseteq th[t].cookies \cup {out.request + 1}
    PROVE  Cookies'
<1>1. out \in OutRecords /\ log \in Seq(LogRecords)
  BY TypesAre
<1>2. out.request \in Nat
  BY <1>1 DEF OutRecords
<1>3. /\ \A r \in 1 .. out.request : log'[r] = log[r]
      /\ log'[out.request + 1] = [kind |-> k, by |-> t]
  BY <1>1, <1>2
<1>4. log'[out.request + 1].by = t
  BY <1>3
<1>5. ASSUME NEW v \in Threads
      PROVE  /\ th'[v].cookies \subseteq 1 .. out'.request
             /\ \A r \in th'[v].cookies : log'[r].by = v
  <2>1. th[v].cookies \subseteq 1 .. out.request /\ \A r \in th[v].cookies : log[r].by = v
    BY DEF Cookies
  <2>2. \A r \in th[v].cookies : log'[r].by = v
    BY <1>3, <2>1
  <2>3. CASE v = t
    <3>1. th'[v].cookies \subseteq th[v].cookies \cup {out.request + 1}
      BY <2>3
    <3>2. 1 .. out.request \cup {out.request + 1} \subseteq 1 .. out'.request
      BY <1>2
    <3>3. th'[v].cookies \subseteq 1 .. out'.request
      BY <2>1, <3>1, <3>2
    <3>4. \A r \in th'[v].cookies : log'[r].by = v
      BY <1>4, <2>2, <2>3, <3>1
    <3> QED BY <3>3, <3>4
  <2>4. CASE v # t
    <3>1. th'[v].cookies = th[v].cookies
      BY <2>4 DEF SameThread
    <3> QED BY <1>2, <2>1, <2>2, <3>1
  <2> QED BY <2>3, <2>4
<1>6. ASSUME NEW v \in Threads, Numbered(v)'
      PROVE  out'.request > 0 /\ log'[out'.request].by = v
  <2>1. CASE v = t
    BY <1>2, <1>4, <2>1
  <2>2. CASE v # t
    <3>1. Numbered(v) /\ Now(v) # "cookie"
      BY <1>6, <2>2 DEF SameThread, Unlocked
    <3> QED BY <3>1, NumberedRoles
  <2> QED BY <2>1, <2>2
<1> QED BY <1>5, <1>6 DEF Cookies

\* Every step of a thread keeps Cookies.
LEMMA CookiesNext ==
    ASSUME Base, Socket, Failures, Order, Cookies, NEW t \in Threads, ThreadStep(t)
    PROVE  Cookies'
<1>1. \A v \in Threads \ {t} : SameThread(v) /\ Now(v) \in Unlocked \cup {"end"}
  BY StepTypes
<1>2. Counters /\ Writers /\ Ownership /\ Takes /\ Len(log) = out.request
  BY DEF Socket, Order
<1>3. out \in OutRecords /\ net \in NetRecords
  BY TypesAre
<1>4. net.error => net'.error
  BY NetStep
<1>5. CASE Queues(t) \/ SendsNow(t)
  <2>1. Now(t) \in {"send", "sync"} /\ Numbering(t, KindNow(t)) /\ ~net.error
    BY <1>5 DEF Queues, SendsNow, Numbering
  <2>2. \A v \in Threads : ~SendsOut(v)
    BY <1>1, <1>2, <2>1, NumberingIsAlone
  <2>3. out'.request = out.request + 1 /\ th'[t].cookies = th[t].cookies
    BY <1>3, <1>5 DEF Queues, SendsNow, Plain, OutRecords
  <2>4. log' = Append(log, [kind |-> KindNow(t), by |-> t])
    BY <2>1 DEF Numbering
  <2> QED BY <1>1, <1>2, <2>2, <2>3, <2>4, CookiesNumbered
<1>6. CASE WritesOwn(t)
  <2>1. \A v \in Threads : ~SendsOut(v)
    BY <1>1, <1>2, <1>6, OwnerWritesAlone DEF WritesOwn
  <2>2. out'.request = out.request + 1 /\ th'[t].cookies \subseteq th[t].cookies \cup {out.request + 1}
    BY <1>3, <1>6 DEF WritesOwn, OutRecords
  <2>3. log' = Append(log, [kind |-> th[t].kind, by |-> t])
    BY <1>6 DEF WritesOwn
  <2> QED BY <1>1, <1>2, <2>1, <2>2, <2>3, CookiesNumbered
<1>7. CASE HandsOut(t)
  <2>1. UNCHANGED <<out, net, log>> /\ ~Numbered(t)' /\ Numbered(t)
    BY <1>7 DEF HandsOut, Aside, RolesAt
  <2>2. CASE net.error
    <3>1. th'[t].cookies = th[t].cookies
      BY <1>7, <2>2 DEF HandsOut
    <3> QED BY <1>1, <2>1, <3>1, CookiesKept
  <2>3. CASE ~net.error
    <3>1. out.request > 0 /\ log[out.request].by = t /\ out.request \in Nat
      BY <1>3, <2>1, <2>3 DEF Cookies, OutRecords
    <3>2. th'[t].cookies \subseteq th[t].cookies \cup {out.request}
      BY <1>7 DEF HandsOut
    <3>3. \A v \in Threads \ {t} : th'[v].cookies = th[v].cookies /\ (Numbered(v)' <=> Numbered(v))
      BY <1>1 DEF SameThread
    <3>4. ASSUME NEW v \in Threads
          PROVE  th'[v].cookies \subseteq 1 .. out.request /\ \A r \in th'[v].cookies : log[r].by = v
      BY <3>1, <3>2, <3>3 DEF Cookies
    <3>5. ASSUME NEW v \in Threads, Numbered(v)'
          PROVE  out.request > 0 /\ log[out.request].by = v
      BY <2>1, <2>3, <3>3, <3>5 DEF Cookies
    <3> QED BY <2>1, <3>4, <3>5 DEF Cookies
  <2> QED BY <2>2, <2>3
<1>8. CASE Quiet(t) /\ ~Queues(t) /\ ~HandsOut(t)
  <2>1. log' = log /\ out'.request = out.request
    BY <1>3, <1>8 DEF Quiet, Simple, Moves, GivesBack, Owns, Inserts, Removes, Called, OutRecords
  <2>2. th'[t].cookies \subseteq th[t].cookies
    BY <1>8 DEF Quiet, Simple, Moves, GivesBack, Owns, Inserts, Removes, Called, Plain
  <2>3. Numbered(t)' => net'.error
    <3>1. CASE Simple(t)
      BY <3>1, NumberedRolesNext DEF Simple, Bare, Settled
    <3>2. CASE Moves(t)
      BY <3>2, MovesRoles DEF Aside, RolesAt
    <3>3. CASE GivesBack(t)
      BY <3>3 DEF GivesBack, Aside, RolesAt
    <3>4. CASE Owns(t)
      BY <3>4, OwnsRoles DEF Aside, RolesAt
    <3>5. CASE Inserts(t)
      BY <3>5, InsertsRoles DEF Aside, RolesAt
    <3>6. CASE Removes(t)
      BY <3>6 DEF Removes, Aside, RolesAt
    <3>7. CASE Called(t)
      BY <3>7, CalledRoles
    <3> QED BY <1>8, <3>1, <3>2, <3>3, <3>4, <3>5, <3>6, <3>7 DEF Quiet
  <2> QED BY <1>1, <1>4, <2>1, <2>2, <2>3, CookiesKept
<1>9. CASE Reads(t) \/ LetsGo(t) \/ SentAll(t) \/ PollsToWrite(t) \/ Writes(t) \/ Flushes(t)
  <2>1. log' = log /\ out'.request = out.request
    BY <1>3, <1>9 DEF Reads, LooksAt, Receives, ReadsPacket, ReadsOn, PollsToRead, Returned, Polling,
           LetsGo, SentAll, PollsToWrite, Writes, Flushes, OutRecords
  <2>2. th'[t].cookies = th[t].cookies
    BY <1>9 DEF Reads, LooksAt, Receives, ReadsPacket, ReadsOn, PollsToRead, Returned, Polling,
           LetsGo, SentAll, PollsToWrite, Writes, Flushes, Plain, Resumed
  <2>3. Numbered(t)' => Numbered(t)
    <3>1. CASE LooksAt(t) \/ Receives(t) \/ ReadsPacket(t)
      BY <3>1 DEF LooksAt, Receives, ReadsPacket, Polling, SameRoles
    <3>2. CASE ReadsOn(t)
      BY <3>2 DEF ReadsOn, RolesAt
    <3>3. CASE PollsToRead(t)
      BY <3>3, PollsToReadRoles
    <3>4. CASE Returned(t) \/ LetsGo(t)
      BY <3>4, SameStack DEF Returned, LetsGo, Resumed
    <3>5. CASE SentAll(t) \/ PollsToWrite(t) \/ Writes(t)
      BY <3>5 DEF SentAll, PollsToWrite, Writes
    <3>6. CASE Flushes(t)
      BY <3>6, FlushesRoles
    <3> QED BY <1>9, <3>1, <3>2, <3>3, <3>4, <3>5, <3>6 DEF Reads
  <2> QED BY <1>1, <1>4, <2>1, <2>2, <2>3, CookiesKept
<1> QED BY <1>5, <1>6, <1>7, <1>8, <1>9 DEF ThreadStep, Sends

-----------------------------------------------------------------------------
(* The invariant: packets come in the order of their requests              *)

\* The packets of q are in the order of their requests, which are lo .. hi, and
\* carry the short numbers of these.
Stream(q, lo, hi) ==
    \A i \in 1 .. Len(q) :
        /\ q[i].serial = q[i].of % Wire /\ lo <= q[i].of /\ q[i].of <= hi
        /\ \A j \in 1 .. i : q[j].of <= q[i].of

\* The packets of q come after those of p.
Later(p, q) == \A i \in 1 .. Len(p), j \in 1 .. Len(q) : p[i].of <= q[j].of

\* Facts about sequences of packets and of numbers.
LEMMA EmptyIs ==
    ASSUME NEW q, q = <<>>
    PROVE  Len(q) = 0
OBVIOUS

LEMMA PacketIs ==
    ASSUME NEW q \in Seq(Packets), NEW i \in 1 .. Len(q)
    PROVE  q[i] \in Packets /\ q[i].of \in Nat
<1>1. q[i] \in Packets
  OBVIOUS
<1> QED BY <1>1 DEF Packets

LEMMA JoinIsLonger ==
    ASSUME NEW p \in Seq(Nat), NEW q \in Seq(Nat)
    PROVE  Len(p \o q) >= Len(p)
<1>1. Len(p \o q) = Len(p) + Len(q) /\ Len(p) \in Nat /\ Len(q) \in Nat
  OBVIOUS
<1> QED BY <1>1

\* A packet less, a packet more, a later end.
LEMMA StreamTail ==
    ASSUME NEW p \in Seq(Packets), NEW q \in Seq(Packets), NEW lo \in Nat, NEW hi \in Nat,
           p # <<>>, Stream(p, lo, hi), Stream(q, lo, hi), Later(p, q),
           NEW n \in Nat, n <= Head(p).of
    PROVE  Stream(Tail(p), n, hi) /\ Stream(q, n, hi) /\ Later(Tail(p), q)
<1> DEFINE r == Tail(p)
<1>1. /\ r \in Seq(Packets) /\ Len(r) = Len(p) - 1 /\ Len(p) \in Nat /\ Len(p) >= 1
      /\ \A i \in 1 .. Len(r) : r[i] = p[i + 1]
      /\ Head(p) = p[1] /\ Head(p) \in Packets
  OBVIOUS
<1> HIDE DEF r
<1>2. \A i \in 1 .. Len(p) : p[i] \in Packets /\ p[i].of \in Nat
  BY PacketIs
<1>3. \A i \in 1 .. Len(q) : q[i] \in Packets /\ q[i].of \in Nat
  BY PacketIs
<1>4. p[1].of \in Nat /\ n <= p[1].of
  BY <1>1, <1>2
<1>5. Stream(r, n, hi)
  <2> SUFFICES ASSUME NEW i \in 1 .. Len(r)
               PROVE  /\ r[i].serial = r[i].of % Wire /\ n <= r[i].of /\ r[i].of <= hi
                      /\ \A j \in 1 .. i : r[j].of <= r[i].of
    BY DEF Stream
  <2>1. i + 1 \in 1 .. Len(p) /\ r[i] = p[i + 1]
    BY <1>1
  <2>2. /\ p[i + 1].serial = p[i + 1].of % Wire /\ p[i + 1].of <= hi
        /\ \A j \in 1 .. i + 1 : p[j].of <= p[i + 1].of
    BY <2>1 DEF Stream
  <2>3. n <= p[i + 1].of
    <3>1. p[1].of <= p[i + 1].of /\ p[i + 1].of \in Nat
      BY <1>1, <1>2, <2>1, <2>2
    <3> QED BY <1>4, <3>1
  <2>4. ASSUME NEW j \in 1 .. i
        PROVE  r[j].of <= r[i].of
    <3>1. j \in 1 .. Len(r) /\ j + 1 \in 1 .. i + 1
      BY <1>1
    <3> QED BY <1>1, <2>1, <2>2, <3>1
  <2> QED BY <2>1, <2>2, <2>3, <2>4
<1>6. Stream(q, n, hi)
  <2>1. ASSUME NEW i \in 1 .. Len(q)
        PROVE  n <= q[i].of
    <3>1. p[1].of <= q[i].of
      BY <1>1 DEF Later
    <3> QED BY <1>3, <1>4, <3>1
  <2> QED BY <2>1 DEF Stream
<1>7. Later(r, q)
  <2>1. \A i \in 1 .. Len(r) : i + 1 \in 1 .. Len(p)
    BY <1>1
  <2> QED BY <1>1, <2>1 DEF Later
<1> QED BY <1>5, <1>6, <1>7 DEF r

LEMMA StreamAppend ==
    ASSUME NEW p \in Seq(Packets), NEW q \in Seq(Packets), NEW lo \in Nat, NEW hi \in Nat,
           Stream(p, lo, hi), Stream(q, lo, hi), Later(p, q), NEW n \in Nat, hi <= n, lo <= hi,
           NEW x \in Packets, x.serial = n % Wire, x.of = n
    PROVE  Stream(p, lo, n) /\ Stream(Append(q, x), lo, n) /\ Later(p, Append(q, x))
<1> DEFINE r == Append(q, x)
<1>1. /\ Len(r) = Len(q) + 1 /\ r[Len(q) + 1] = x /\ \A i \in 1 .. Len(q) : r[i] = q[i]
      /\ Len(q) \in Nat
  OBVIOUS
<1> HIDE DEF r
<1>2. \A i \in 1 .. Len(p) : p[i].of \in Nat
  BY PacketIs
<1>3. \A i \in 1 .. Len(q) : q[i].of \in Nat
  BY PacketIs
<1>4. /\ \A i \in 1 .. Len(p) : p[i].of <= n
      /\ \A i \in 1 .. Len(q) : q[i].of <= n
  BY <1>2, <1>3 DEF Stream
<1>5. Stream(p, lo, n)
  BY <1>4 DEF Stream
<1>6. Stream(r, lo, n)
  <2> SUFFICES ASSUME NEW i \in 1 .. Len(r)
               PROVE  /\ r[i].serial = r[i].of % Wire /\ lo <= r[i].of /\ r[i].of <= n
                      /\ \A j \in 1 .. i : r[j].of <= r[i].of
    BY DEF Stream
  <2>1. CASE i = Len(q) + 1
    <3>1. r[i] = x /\ r[i].of = n
      BY <1>1, <2>1
    <3>2. ASSUME NEW j \in 1 .. i
          PROVE  r[j].of <= n
      BY <1>1, <1>4, <2>1
    <3> QED BY <3>1, <3>2
  <2>2. CASE i \in 1 .. Len(q)
    <3>1. r[i] = q[i] /\ \A j \in 1 .. i : r[j] = q[j]
      BY <1>1, <2>2
    <3> QED BY <1>4, <2>2, <3>1 DEF Stream
  <2> QED BY <1>1, <2>1, <2>2
<1>7. Later(p, r)
  <2>1. ASSUME NEW i \in 1 .. Len(p), NEW j \in 1 .. Len(r)
        PROVE  p[i].of <= r[j].of
    <3>1. CASE j = Len(q) + 1
      BY <1>1, <1>4, <3>1
    <3>2. CASE j \in 1 .. Len(q)
      BY <1>1, <3>2 DEF Later
    <3> QED BY <1>1, <3>1, <3>2
  <2> QED BY <2>1 DEF Later
<1> QED BY <1>5, <1>6, <1>7 DEF r

LEMMA StreamLater ==
    ASSUME NEW p \in Seq(Packets), NEW lo \in Nat, NEW hi \in Nat, Stream(p, lo, hi),
           NEW n \in Nat, hi <= n
    PROVE  Stream(p, lo, n)
<1>1. \A i \in 1 .. Len(p) : p[i].of \in Nat
  BY PacketIs
<1> QED BY <1>1 DEF Stream

\* What the server sent is in order, and what has been read is behind it.
Flow ==
    /\ in.read <= net.served /\ net.served <= Len(net.socket)
    /\ \A t \in Threads : Now(t) = "packets" => in.packets # <<>>
    /\ Stream(in.packets, in.read, net.served) /\ Stream(net.wire, in.read, net.served)
    /\ Later(in.packets, net.wire)
    /\ in.completed <= in.read
    /\ in.completed \in {in.read - 1, in.read} \/ in.completed = 0
    /\ in.expected <= out.request

\* A step that neither reads nor is the server's keeps the flow.
LEMMA FlowKept ==
    ASSUME Base, Flow, net'.served = net.served, net'.wire = net.wire,
           net'.socket \in Seq(Nat), Len(net'.socket) >= Len(net.socket),
           in'.read = in.read, in'.completed = in.completed, in'.packets = in.packets,
           in'.expected <= out'.request, \A v \in Threads : Now(v)' # "packets"
    PROVE  Flow'
<1>1. Len(net.socket) \in Nat /\ Len(net'.socket) \in Nat /\ net.served \in Nat
  BY TypesAre DEF NetRecords
<1>2. net'.served <= Len(net'.socket)
  BY <1>1 DEF Flow
<1> QED BY <1>2 DEF Flow

\* Every step of a thread keeps Flow.
LEMMA FlowNext ==
    ASSUME Base, Order, Flow, NEW t \in Threads, ThreadStep(t)
    PROVE  Flow'
<1>1. /\ \A v \in Threads \ {t} : Now(v)' # "packets"
      /\ in' \in InRecords /\ out' \in OutRecords /\ net' \in NetRecords
  BY StepTypes, NumberingElsewhere
<1>2. in \in InRecords /\ out \in OutRecords /\ net \in NetRecords
  BY TypesAre
<1>3. /\ in.read \in Nat /\ in.packets \in Seq(Packets) /\ in.completed \in Nat /\ in.expected \in Nat
      /\ in'.read \in Nat /\ in'.completed \in Nat
      /\ net.wire \in Seq(Packets) /\ net.served \in Nat /\ Len(net.socket) \in Nat
      /\ out.request \in Nat /\ net'.socket \in Seq(Nat) /\ net.socket \in Seq(Nat)
  BY <1>1, <1>2 DEF InRecords, OutRecords, NetRecords
<1>4. net'.served = net.served
  BY NetStep
<1>5. Len(net'.socket) >= Len(net.socket)
  <2>1. CASE ~Writes(t)
    BY <1>3, <2>1, NetStep
  <2>2. CASE Writes(t)
    <3>1. PICK n \in 0 .. Len(th[t].vec) :
             net' = [net EXCEPT !.socket = @ \o SubSeq(th[t].vec, 1, n), !.error = net'.error]
      BY <2>2 DEF Writes
    <3>2. net'.socket = net.socket \o SubSeq(th[t].vec, 1, n)
      BY <1>2, <3>1 DEF NetRecords
    <3>3. th[t].vec \in Seq(Nat)
      BY TypesAre DEF ThreadRecords
    <3>4. SubSeq(th[t].vec, 1, n) \in Seq(Nat)
      BY <3>3
    <3>5. Len(net.socket \o SubSeq(th[t].vec, 1, n)) >= Len(net.socket)
      BY <1>3, <3>4, JoinIsLonger
    <3> QED BY <3>2, <3>5
  <2> QED BY <2>1, <2>2
<1>6. CASE Receives(t)
  <2>1. in' = [in EXCEPT !.packets = net.wire] /\ net'.wire = <<>>
        /\ (Now(t)' = "packets" => net.wire # <<>>) /\ out' = out /\ net'.socket = net.socket
    BY <1>6 DEF Receives, Polling
  <2>2. /\ in'.read = in.read /\ in'.completed = in.completed /\ in'.packets = net.wire
        /\ in'.expected = in.expected
    BY <1>2, <2>1 DEF InRecords
  <2>3. Stream(net'.wire, in.read, net.served) /\ Later(in'.packets, net'.wire)
    BY <2>1 DEF Stream, Later
  <2> QED BY <1>1, <1>4, <2>1, <2>2, <2>3 DEF Flow
<1>7. CASE ReadsPacket(t)
  <2>1. /\ in.packets # <<>> /\ in'.packets = Tail(in.packets) /\ net' = net /\ out' = out
        /\ Now(t)' = "packets" => Len(in.packets) # 1
    BY <1>7 DEF ReadsPacket, Polling
  <2> DEFINE p == Head(in.packets)
  <2>2. p \in Packets /\ p.of \in Nat /\ p.serial = p.of % Wire /\ in.read <= p.of /\ p.of <= net.served
    <3>1. p = in.packets[1] /\ 1 \in 1 .. Len(in.packets) /\ p \in Packets
      BY <1>3, <2>1
    <3>2. p.of \in Nat
      BY <3>1 DEF Packets
    <3> QED BY <3>1, <3>2 DEF Flow, Stream
  <2>3. in'.read <= p.of /\ in'.read >= in.read
    <3>1. Wire \in Nat \ {0}
      BY ConstantsAssumption
    <3>2. p.serial \in Nat
      BY <2>2 DEF Packets
    <3>3. in'.read = Widen(p.serial)
      BY <1>7 DEF ReadsPacket
    <3> HIDE DEF p
    <3>4. Widen(p.of % Wire) <= p.of
      BY <1>3, <2>2, <3>1, WidenUpTo
    <3>5. Widen(p.serial) >= in.read
      BY <1>3, <3>1, <3>2, WidenIs
    <3> QED BY <2>2, <3>3, <3>4, <3>5
  <2>4. /\ Stream(in'.packets, in'.read, net.served) /\ Stream(net.wire, in'.read, net.served)
        /\ Later(in'.packets, net.wire)
    <3>1. Stream(Tail(in.packets), in'.read, net.served) /\ Stream(net.wire, in'.read, net.served)
          /\ Later(Tail(in.packets), net.wire)
      BY <1>3, <2>1, <2>3, StreamTail DEF Flow
    <3> QED BY <2>1, <3>1
  <2>5. in'.read <= net.served /\ in'.read <= out.request
    <3>1. in'.read <= net.served
      BY <1>3, <2>2, <2>3
    <3> QED BY <1>3, <3>1 DEF Flow, Order
  <2>6. in'.completed <= in'.read /\ (in'.completed \in {in'.read - 1, in'.read} \/ in'.completed = 0)
    BY <1>3, <1>7 DEF ReadsPacket, Flow
  <2>7. in'.expected <= out'.request
    BY <1>3, <1>7, <2>1, <2>5 DEF ReadsPacket, Flow
  <2>8. Now(t)' = "packets" => in'.packets # <<>>
    <3>1. Len(Tail(in.packets)) = Len(in.packets) - 1 /\ Len(in.packets) \in Nat
      BY <1>3, <2>1
    <3>2. Len(in.packets) # 1 => Len(Tail(in.packets)) # 0
      BY <3>1
    <3>3. ASSUME Tail(in.packets) = <<>>
          PROVE  Len(Tail(in.packets)) = 0
      BY <3>3, EmptyIs, Zenon
    <3> QED BY <2>1, <3>2, <3>3
  <2>9. in'.read <= net'.served /\ net'.served <= Len(net'.socket)
    BY <2>1, <2>5 DEF Flow
  <2> QED BY <1>1, <2>1, <2>4, <2>6, <2>7, <2>8, <2>9 DEF Flow
<1>8. CASE ~Receives(t) /\ ~ReadsPacket(t)
  <2>1. net'.wire = net.wire
    <3>1. CASE ~Writes(t)
      BY <1>8, <3>1, NetStep
    <3>2. CASE Writes(t)
      BY <1>2, <3>2 DEF Writes, NetRecords
    <3> QED BY <3>1, <3>2
  <2>2. in'.read = in.read /\ in'.completed = in.completed /\ in'.packets = in.packets
    <3>1. CASE Quiet(t)
      BY <1>2, <3>1 DEF Quiet, Simple, Moves, GivesBack, HandsOut, Queues, Owns, Inserts, Removes, Called,
             Numbering, InKept, InRecords
    <3>2. CASE Sends(t)
      BY <1>2, <3>2 DEF Sends, SendsNow, Flushes, WritesOwn, SentAll, PollsToWrite, Writes, Numbering,
             InRecords
    <3>3. CASE LooksAt(t) \/ ReadsOn(t) \/ PollsToRead(t) \/ Returned(t) \/ LetsGo(t)
      BY <3>3 DEF LooksAt, ReadsOn, PollsToRead, Returned, LetsGo, InKept
    <3> QED BY <1>8, <3>1, <3>2, <3>3 DEF ThreadStep, Reads
  <2>3. in'.expected <= out'.request
    <3>1. in.expected <= out.request
      BY DEF Flow
    <3>2. CASE Queues(t) \/ SendsNow(t)
      <4>1. out'.request = out.request + 1
        BY <1>2, <3>2 DEF Queues, SendsNow, OutRecords
      <4>2. in'.expected \in {in.expected, out.request + 1}
        BY <1>2, <3>2 DEF Queues, SendsNow, Numbering, InRecords
      <4> QED BY <1>3, <3>1, <4>1, <4>2
    <3>3. CASE WritesOwn(t)
      <4>1. out'.request = out.request + 1 /\ in' = in
        BY <1>2, <3>3 DEF WritesOwn, OutRecords
      <4> QED BY <1>3, <3>1, <4>1
    <3>4. CASE ~(Queues(t) \/ SendsNow(t) \/ WritesOwn(t))
      <4>1. out'.request = out.request
        BY <1>2, <1>8, <3>4 DEF ThreadStep, Quiet, Simple, Moves, GivesBack, HandsOut, Owns, Inserts, Removes,
               Called, Sends, Flushes, SentAll, PollsToWrite, Writes, Reads, LooksAt, ReadsOn, PollsToRead,
               Returned, LetsGo, Polling, OutRecords
      <4>2. in'.expected = in.expected
        <5>1. CASE Quiet(t)
          BY <1>2, <3>4, <5>1 DEF Quiet, Simple, Moves, GivesBack, HandsOut, Owns, Inserts, Removes, Called,
             InKept, InRecords
        <5>2. CASE Sends(t)
          BY <1>2, <3>4, <5>2 DEF Sends, Flushes, SentAll, PollsToWrite, Writes, InRecords
        <5>3. CASE LooksAt(t) \/ ReadsOn(t) \/ PollsToRead(t) \/ Returned(t) \/ LetsGo(t)
          BY <5>3 DEF LooksAt, ReadsOn, PollsToRead, Returned, LetsGo, InKept
        <5> QED BY <1>8, <5>1, <5>2, <5>3 DEF ThreadStep, Reads
      <4> QED BY <3>1, <4>1, <4>2
    <3> QED BY <3>2, <3>3, <3>4
  <2>4. Now(t)' # "packets"
    <3>1. CASE Quiet(t)
      BY <3>1, MovesRoles, QueuesRoles, OwnsRoles, InsertsRoles, CalledRoles
         DEF Quiet, Simple, GivesBack, HandsOut, Removes
    <3>2. CASE Sends(t)
      BY <3>2, SendsNowRoles, FlushesRoles DEF Sends, WritesOwn, SentAll, PollsToWrite, Writes, BeginsToSend
    <3>3. CASE LooksAt(t) \/ ReadsOn(t) \/ PollsToRead(t)
      BY <3>3 DEF LooksAt, ReadsOn, PollsToRead
    <3>4. CASE Returned(t) \/ LetsGo(t)
      BY <3>4, SameStack DEF Returned, LetsGo, Resumed
    <3> QED BY <1>8, <3>1, <3>2, <3>3, <3>4 DEF ThreadStep, Reads
  <2>5. \A v \in Threads : Now(v)' # "packets"
    BY <1>1, <2>4
  <2> QED BY <1>3, <1>4, <1>5, <2>1, <2>2, <2>3, <2>5, FlowKept
<1> QED BY <1>6, <1>7, <1>8

-----------------------------------------------------------------------------
(* The invariant: the list of readers                                      *)

\* The list is in the order of the requests, a thread is in it once.
Sorted(q) == \A i \in 1 .. Len(q) : \A j \in 1 .. i : q[j].request <= q[i].request
Distinct(q) == \A i, j \in 1 .. Len(q) : q[i].thread = q[j].thread => i = j
HasEntry(q, t) == \E i \in 1 .. Len(q) : q[i].thread = t

\* Lists of readers: the type of an entry, what is left when the first ones are
\* dropped, and what there is when one is put at its place.
LEMMA EntryIs ==
    ASSUME NEW q \in Seq(ReaderEntries), NEW i \in 1 .. Len(q)
    PROVE  q[i] \in ReaderEntries /\ q[i].request \in Nat /\ q[i].thread \in Threads
<1>1. q[i] \in ReaderEntries
  OBVIOUS
<1> QED BY <1>1 DEF ReaderEntries

LEMMA DroppedIs ==
    ASSUME NEW q \in Seq(ReaderEntries), NEW r, NEW k \in 0 .. Len(q),
           Len(r) = Len(q) - k, \A i \in 1 .. Len(r) : r[i] = q[k + i],
           Sorted(q), Distinct(q)
    PROVE  /\ Sorted(r) /\ Distinct(r)
           /\ \A i \in 1 .. Len(r) : k + i \in 1 .. Len(q)
           /\ \A i \in k + 1 .. Len(q) : HasEntry(r, q[i].thread)
<1>1. Len(q) \in Nat /\ \A i \in 1 .. Len(r) : k + i \in 1 .. Len(q)
  OBVIOUS
<1>2. Sorted(r)
  <2> SUFFICES ASSUME NEW i \in 1 .. Len(r), NEW j \in 1 .. i
               PROVE  r[j].request <= r[i].request
    BY DEF Sorted
  <2>1. j \in 1 .. Len(r) /\ k + j \in 1 .. k + i
    BY <1>1
  <2>2. r[j] = q[k + j] /\ r[i] = q[k + i]
    BY <2>1
  <2> QED BY <1>1, <2>1, <2>2 DEF Sorted
<1>3. Distinct(r)
  <2> SUFFICES ASSUME NEW i \in 1 .. Len(r), NEW j \in 1 .. Len(r), r[i].thread = r[j].thread
               PROVE  i = j
    BY DEF Distinct
  <2>1. k + i = k + j
    BY <1>1 DEF Distinct
  <2> QED BY <1>1, <2>1
<1>4. ASSUME NEW i \in k + 1 .. Len(q)
      PROVE  HasEntry(r, q[i].thread)
  <2>1. i - k \in 1 .. Len(r) /\ r[i - k] = q[i]
    BY <1>1
  <2> QED BY <2>1 DEF HasEntry
<1> QED BY <1>1, <1>2, <1>3, <1>4

LEMMA InsertedIs ==
    ASSUME NEW q \in Seq(ReaderEntries), NEW r, NEW k \in 0 .. Len(q), NEW m, m = k + 1, NEW e \in ReaderEntries,
           Len(r) = Len(q) + 1, \A i \in 1 .. k : r[i] = q[i], r[m] = e,
           \A i \in k + 2 .. Len(q) + 1 : r[i] = q[i - 1],
           Sorted(q), Distinct(q), ~HasEntry(q, e.thread),
           \A i \in 1 .. k : q[i].request <= e.request,
           m <= Len(q) => e.request <= q[m].request
    PROVE  /\ Sorted(r) /\ Distinct(r)
           /\ \A i \in 1 .. Len(r) : r[i] = e \/ \E j \in 1 .. Len(q) : r[i] = q[j]
           /\ \A i \in 1 .. Len(q) : HasEntry(r, q[i].thread)
           /\ HasEntry(r, e.thread)
<1>1. Len(q) \in Nat /\ k \in Nat /\ k <= Len(q) /\ m \in 1 .. Len(r) /\ e.request \in Nat
  BY DEF ReaderEntries
<1>2. \A i \in 1 .. Len(r) : i \in 1 .. k \/ i = m \/ (i \in k + 2 .. Len(q) + 1 /\ i - 1 \in m .. Len(q))
  BY <1>1
<1>3. \A i \in 1 .. Len(q) : q[i].request \in Nat
  BY EntryIs
<1>4. \A i \in m .. Len(q) : e.request <= q[i].request
  <2> SUFFICES ASSUME NEW i \in m .. Len(q)
               PROVE  e.request <= q[i].request
    OBVIOUS
  <2>1. m <= Len(q) /\ i \in 1 .. Len(q) /\ m \in 1 .. i /\ m \in 1 .. Len(q)
    BY <1>1
  <2>2. q[m].request <= q[i].request
    BY <2>1 DEF Sorted
  <2> QED BY <1>1, <1>3, <2>1, <2>2
<1>5. Sorted(r)
  <2> SUFFICES ASSUME NEW i \in 1 .. Len(r), NEW j \in 1 .. i
               PROVE  r[j].request <= r[i].request
    BY DEF Sorted
  <2>1. CASE i \in 1 .. k
    <3>1. j \in 1 .. k /\ i \in 1 .. Len(q) /\ r[i] = q[i] /\ r[j] = q[j]
      BY <1>1, <2>1
    <3> QED BY <3>1 DEF Sorted
  <2>2. CASE i = m
    <3>1. CASE j = m
      BY <1>1, <2>2, <3>1
    <3>2. CASE j \in 1 .. k
      BY <2>2, <3>2
    <3> QED BY <1>1, <2>2, <3>1, <3>2
  <2>3. CASE i \in k + 2 .. Len(q) + 1
    <3>1. r[i] = q[i - 1] /\ i - 1 \in m .. Len(q) /\ i - 1 \in 1 .. Len(q)
      BY <1>1, <2>3
    <3>2. CASE j \in 1 .. k
      <4>1. r[j] = q[j] /\ j \in 1 .. i - 1
        BY <1>1, <2>3, <3>2
      <4> QED BY <3>1, <4>1 DEF Sorted
    <3>3. CASE j = m
      BY <1>4, <3>1, <3>3
    <3>4. CASE j \in k + 2 .. Len(q) + 1
      <4>1. r[j] = q[j - 1] /\ j - 1 \in 1 .. i - 1
        BY <1>1, <2>3, <3>4
      <4> QED BY <3>1, <4>1 DEF Sorted
    <3>5. j \in 1 .. Len(r)
      BY <1>1
    <3> QED BY <1>2, <3>2, <3>3, <3>4, <3>5
  <2> QED BY <1>2, <2>1, <2>2, <2>3
<1>6. \A i \in 1 .. Len(r) : i # m =>
        /\ r[i] = q[IF i <= k THEN i ELSE i - 1] /\ (IF i <= k THEN i ELSE i - 1) \in 1 .. Len(q)
  BY <1>1, <1>2
<1>7. Distinct(r)
  <2> SUFFICES ASSUME NEW i \in 1 .. Len(r), NEW j \in 1 .. Len(r), r[i].thread = r[j].thread
               PROVE  i = j
    BY DEF Distinct
  <2> DEFINE F(x) == IF x <= k THEN x ELSE x - 1
  <2>1. CASE i # m /\ j # m
    <3>1. r[i] = q[F(i)] /\ r[j] = q[F(j)] /\ F(i) \in 1 .. Len(q) /\ F(j) \in 1 .. Len(q)
      BY <1>6, <2>1
    <3>2. F(i) = F(j)
      <4> HIDE DEF F
      <4> QED BY <3>1 DEF Distinct
    <3> QED BY <1>1, <2>1, <3>2
  <2>2. CASE i = m /\ j # m
    <3>1. r[j] = q[F(j)] /\ F(j) \in 1 .. Len(q)
      BY <1>6, <2>2
    <3> HIDE DEF F
    <3> QED BY <2>2, <3>1 DEF HasEntry
  <2>3. CASE i # m /\ j = m
    <3>1. r[i] = q[F(i)] /\ F(i) \in 1 .. Len(q)
      BY <1>6, <2>3
    <3> HIDE DEF F
    <3> QED BY <2>3, <3>1 DEF HasEntry
  <2> QED BY <2>1, <2>2, <2>3
<1>8. \A i \in 1 .. Len(r) : r[i] = e \/ \E j \in 1 .. Len(q) : r[i] = q[j]
  BY <1>6
<1>9. ASSUME NEW i \in 1 .. Len(q)
      PROVE  HasEntry(r, q[i].thread)
  <2>1. CASE i <= k
    <3>1. i \in 1 .. Len(r) /\ r[i] = q[i]
      BY <1>1, <2>1
    <3> QED BY <3>1 DEF HasEntry
  <2>2. CASE i > k
    <3>1. i + 1 \in 1 .. Len(r) /\ r[i + 1] = q[i]
      BY <1>1, <2>2
    <3> QED BY <3>1 DEF HasEntry
  <2> QED BY <1>1, <2>1, <2>2
<1>10. HasEntry(r, e.thread)
  BY <1>1 DEF HasEntry
<1> QED BY <1>5, <1>7, <1>8, <1>9, <1>10

LEMMA InsertedPlace ==
    ASSUME NEW q \in Seq(ReaderEntries), NEW k \in 0 .. Len(q), NEW e \in ReaderEntries
    PROVE  Len(InsertAt(q, k + 1, e)) = Len(q) + 1 /\ InsertAt(q, k + 1, e)[k + 1] = e
<1> DEFINE new == InsertAt(q, k + 1, e)
<1>1. Len(new) = Len(q) + 1 /\ new[k + 1] = e
  BY InsertAtIs
<1> QED BY <1>1

LEMMA InsertedAt ==
    ASSUME NEW q \in Seq(ReaderEntries), NEW k \in 0 .. Len(q), NEW e \in ReaderEntries,
           NEW r, r = InsertAt(q, k + 1, e), Sorted(q), Distinct(q), ~HasEntry(q, e.thread),
           \A i \in 1 .. k : q[i].request <= e.request,
           k < Len(q) => ~(q[k + 1].request <= e.request)
    PROVE  /\ Sorted(r) /\ Distinct(r)
           /\ \A i \in 1 .. Len(r) : r[i] = e \/ \E j \in 1 .. Len(q) : r[i] = q[j]
           /\ \A i \in 1 .. Len(q) : HasEntry(r, q[i].thread)
           /\ HasEntry(r, e.thread)
<1>1. Len(q) \in Nat /\ k \in Nat /\ e.request \in Nat
  BY DEF ReaderEntries
<1>2. PICK m \in Nat : m = k + 1
  BY <1>1
<1> DEFINE new == InsertAt(q, k + 1, e)
<1>3. /\ Len(new) = Len(q) + 1 /\ new[k + 1] = e
      /\ \A i \in 1 .. k : new[i] = q[i]
      /\ \A i \in (k + 2) .. (Len(q) + 1) : new[i] = q[i - 1]
  <2>1. Len(new) = Len(q) + 1 /\ new[k + 1] = e
    BY InsertedPlace
  <2>2. \A i \in 1 .. k : new[i] = q[i]
    BY InsertAtIs
  <2>3. \A i \in (k + 2) .. (Len(q) + 1) : new[i] = q[i - 1]
    BY InsertAtIs
  <2> HIDE DEF new
  <2> QED BY <2>1, <2>2, <2>3
<1> HIDE DEF new
<1>4. r = new /\ new[m] = e
  BY <1>2, <1>3 DEF new
<1>5. ASSUME m <= Len(q)
      PROVE  e.request <= q[m].request
  <2>1. k < Len(q) /\ m \in 1 .. Len(q)
    BY <1>1, <1>2, <1>5
  <2>2. q[m].request \in Nat
    BY <2>1, EntryIs
  <2> QED BY <1>1, <1>2, <2>1, <2>2
<1> QED BY <1>2, <1>3, <1>4, <1>5, InsertedIs

\* The list of readers: in the order of requests, each thread once, and every
\* thread that waits for a reply that may still come.
Readers ==
    /\ Sorted(in.readers) /\ Distinct(in.readers)
    /\ \A t \in Threads : \A i \in 1 .. Len(in.readers) :
         in.readers[i].thread = t => InReaders(t) /\ in.readers[i].request = th[t].request
    /\ \A t \in Threads : InLoop(t) /\ th[t].request > in.completed => HasEntry(in.readers, t)
    /\ \A t \in Threads : th[t].wait = "reader" => HasEntry(in.readers, t)

\* The thread leaves the list as it is, and stays in it.
Keeps(t) ==
    /\ in'.readers = in.readers /\ in'.completed = in.completed
    /\ InReaders(t) => InReaders(t)' /\ th'[t].request = th[t].request
    /\ InLoop(t)' => InLoop(t)
    /\ th'[t].wait = "reader" => th[t].wait = "reader" \/ (Now(t) = "replyloop" /\ ~Answered(th[t].request))

\* A step that keeps its thread's place keeps the list.
LEMMA ReadersKept ==
    ASSUME Base, Flow, Readers, NEW t \in Threads, Keeps(t), \A v \in Threads \ {t} : SameThread(v)
    PROVE  Readers'
<1>1. in \in InRecords /\ th[t] \in ThreadRecords
  BY TypesAre
<1>2. in.readers \in Seq(ReaderEntries) /\ in.completed \in Nat /\ in.read \in Nat /\ th[t].request \in Nat
  BY <1>1 DEF InRecords, ThreadRecords
<1>3. \A v \in Threads : InReaders(v) => InReaders(v)' /\ th'[v].request = th[v].request
  BY DEF Keeps, SameThread
<1>4. \A v \in Threads : InLoop(v)' => InLoop(v) /\ th'[v].request = th[v].request
  BY <1>3 DEF Keeps, SameThread, InReaders
<1>5. ASSUME NEW v \in Threads, th'[v].wait = "reader"
      PROVE  HasEntry(in.readers, v)
  <2>1. CASE th[v].wait = "reader"
    BY <2>1 DEF Readers
  <2>2. CASE th[v].wait # "reader"
    <3>1. v = t /\ Now(t) = "replyloop" /\ ~Answered(th[t].request)
      BY <1>5, <2>2 DEF Keeps, SameThread
    <3>2. InLoop(t) /\ th[t].request > in.completed
      <4>1. ~(th[t].request < in.read) /\ th[t].request # in.completed
        BY <3>1 DEF Answered
      <4>2. in.completed <= in.read
        BY DEF Flow
      <4> QED BY <1>2, <3>1, <4>1, <4>2 DEF InLoop
    <3> QED BY <3>1, <3>2 DEF Readers
  <2> QED BY <2>1, <2>2
<1>6. \A i \in 1 .. Len(in.readers) : in.readers[i].thread \in Threads
  BY <1>2, EntryIs
<1>7. in'.readers = in.readers /\ in'.completed = in.completed
  BY DEF Keeps
<1>8. ASSUME NEW v \in Threads, NEW i \in 1 .. Len(in'.readers), in'.readers[i].thread = v
      PROVE  InReaders(v)' /\ in'.readers[i].request = th'[v].request
  BY <1>3, <1>7, <1>8 DEF Readers
<1> QED BY <1>4, <1>5, <1>7, <1>8 DEF Readers

\* Where a thread is that is in the list, and where one that sleeps.
LEMMA InReadersAre ==
    \A t \in Threads : InReaders(t) => Now(t) \in Tops \cup {"waited", "replyloop", "remove"}
BY DEF InReaders, InLoop

LEMMA InReadersAreNext ==
    \A t \in Threads : InReaders(t)' => Now(t)' \in Tops \cup {"waited", "replyloop", "remove"}
<1>1. (\A t \in Threads : InReaders(t) => Now(t) \in Tops \cup {"waited", "replyloop", "remove"})'
  BY InReadersAre, PTL
<1> QED BY <1>1

LEMMA SleepersAre ==
    Base => \A t \in Threads : th[t].wait = "reader" => Now(t) = "replyloop" /\ InLoop(t)
BY DEF Base, Control, WaitsAt, InLoop

LEMMA SleepersAreNext ==
    Base' => \A t \in Threads : th'[t].wait = "reader" => Now(t)' = "replyloop" /\ InLoop(t)'
<1>1. (Base => \A t \in Threads : th[t].wait = "reader" => Now(t) = "replyloop" /\ InLoop(t))'
  BY SleepersAre, PTL
<1> QED BY <1>1

\* A thread that is not in the list, and does not enter it.
LEMMA KeepsOut ==
    ASSUME Base', NEW t \in Threads, in'.readers = in.readers, in'.completed = in.completed,
           ~InReaders(t), ~InLoop(t)'
    PROVE  Keeps(t)
BY SleepersAreNext DEF Keeps

\* All steps keep it but three kinds,
LEMMA ReadersSame ==
    ASSUME Base, NEW t \in Threads, ThreadStep(t), ~ReadsPacket(t), ~Inserts(t), ~Removes(t)
    PROVE  Keeps(t)
<1>1. Base'
  BY StepTypes
<1>2. in \in InRecords
  BY TypesAre
<1>3. in'.readers = in.readers /\ in'.completed = in.completed
  <2>1. CASE Quiet(t)
    BY <1>2, <2>1 DEF Quiet, Simple, Moves, GivesBack, HandsOut, Queues, Owns, Called, Numbering, InKept,
           InRecords
  <2>2. CASE Sends(t)
    BY <1>2, <2>2 DEF Sends, SendsNow, Flushes, WritesOwn, SentAll, PollsToWrite, Writes, Numbering, InRecords
  <2>3. CASE LooksAt(t) \/ ReadsOn(t) \/ PollsToRead(t) \/ Returned(t) \/ LetsGo(t) \/ Receives(t)
    BY <1>2, <2>3 DEF LooksAt, ReadsOn, PollsToRead, Returned, LetsGo, Receives, InKept, InRecords
  <2> QED BY <2>1, <2>2, <2>3 DEF ThreadStep, Reads
<1>4. CASE Simple(t)
  <2>1. LoopsOn(t) /\ Moved(t)
    BY <1>4 DEF Simple
  <2>2. InReaders(t) => InReaders(t)' /\ th'[t].request = th[t].request
    BY <2>1, InReadersAreNext DEF LoopsOn, Moved, Tops
  <2> QED BY <1>3, <2>1, <2>2 DEF Keeps, LoopsOn
<1>5. CASE Moves(t) \/ GivesBack(t) \/ HandsOut(t) \/ Queues(t) \/ Owns(t)
  <2>1. /\ Aside(t) /\ Now(t) \notin {"replyloop", "remove"}
        /\ Now(t)' \notin {"replyloop", "remove"}
    BY <1>5, MovesRoles, QueuesRoles, OwnsRoles DEF GivesBack, HandsOut, Queues
  <2> QED BY <1>1, <1>3, <2>1, KeepsOut DEF Aside, RolesAt
<1>6. CASE Called(t)
  BY <1>1, <1>3, <1>6, CalledRoles, InReadersAre, KeepsOut DEF Called, Tops
<1>7. CASE Sends(t)
  <2>1. Now(t) \in {"send", "sync", "flush", "writev", "outsend", "write"}
    BY <1>7 DEF Sends, SendsNow, Flushes, WritesOwn, SentAll, PollsToWrite, Writes
  <2>2. ~InLoop(t)'
    <3>1. CASE SentAll(t)
      BY <3>1 DEF SentAll, RolesAt
    <3>2. CASE ~SentAll(t)
      BY <1>7, <3>2, SendsNowRoles, FlushesRoles DEF Sends, WritesOwn, PollsToWrite, Writes, BeginsToSend
    <3> QED BY <3>1, <3>2
  <2> QED BY <1>1, <1>3, <2>1, <2>2, InReadersAre, KeepsOut DEF Tops
<1>8. CASE LooksAt(t) \/ Receives(t)
  <2>1. Polling(t)
    BY <1>8 DEF LooksAt, Receives
  <2>2. Moved(t) /\ SameRoles(t) /\ th'[t].wait = "run"
    BY <2>1 DEF Polling
  <2>3. InReaders(t) => InReaders(t)' /\ th'[t].request = th[t].request
    BY <2>2, InReadersAreNext DEF Moved, SameRoles, Tops
  <2> QED BY <1>3, <2>2, <2>3 DEF Keeps, SameRoles
<1>9. CASE ReadsOn(t)
  <2>1. Moved(t) /\ th'[t].wait = "run" /\ (InLoop(t)' => InLoop(t)) /\ (InReaders(t)' <=> InReaders(t))
    BY <1>9 DEF ReadsOn, Plain
  <2>2. InReaders(t) => InReaders(t)' /\ th'[t].request = th[t].request
    BY <2>1, InReadersAreNext DEF Moved, Tops
  <2> QED BY <1>3, <2>1, <2>2 DEF Keeps
<1>10. CASE PollsToRead(t)
  <2>1. Moved(t) /\ th'[t].wait = "poll" /\ (InLoop(t)' => InLoop(t)) /\ (InReaders(t)' <=> InReaders(t))
    BY <1>10, PollsToReadRoles DEF PollsToRead, Plain
  <2>2. InReaders(t) => InReaders(t)' /\ th'[t].request = th[t].request
    BY <2>1, InReadersAreNext DEF Moved, Tops
  <2> QED BY <1>3, <2>1, <2>2 DEF Keeps
<1>11. CASE Returned(t) \/ LetsGo(t)
  <2>1. Resumed(t)
    BY <1>11 DEF Returned, LetsGo
  <2> QED BY <1>3, <2>1, SameStack DEF Resumed, Keeps
<1> QED BY <1>4, <1>5, <1>6, <1>7, <1>8, <1>9, <1>10, <1>11 DEF ThreadStep, Quiet, Reads

\* wait_for_reply puts its own entry at its place,
LEMMA ReadersInserted ==
    ASSUME Base, Readers, NEW t \in Threads, Inserts(t), \A v \in Threads \ {t} : SameThread(v), Base'
    PROVE  Readers'
<1>1. in \in InRecords /\ th[t] \in ThreadRecords /\ in' \in InRecords /\ in.readers \in Seq(ReaderEntries)
      /\ th[t].request \in Nat
  <2>1. in \in InRecords /\ th[t] \in ThreadRecords
    BY TypesAre
  <2> QED BY <2>1 DEF InRecords, ThreadRecords, Inserts, InKept
<1> DEFINE e == [thread |-> t, request |-> th[t].request]
           k == ReadersUpTo(th[t].request)
           q == in.readers
           r == in'.readers
<1>2. /\ e \in ReaderEntries /\ e.thread = t /\ e.request = th[t].request
      /\ in'.completed = in.completed /\ th'[t].request = th[t].request /\ th'[t].wait = "run"
      /\ r = InsertAt(q, k + 1, e)
  <2>1. Now(t)' = "replyloop"
    BY InsertsRoles
  <2> QED BY <2>1 DEF Inserts, Plain, Moved, InKept
<1>3. InReaders(t)' /\ ~InReaders(t)
  BY InsertsRoles DEF Aside, RolesAt
<1>4. /\ k \in 0 .. Len(q) /\ (\A i \in 1 .. k : q[i].request <= e.request)
      /\ (k < Len(q) => ~(q[k + 1].request <= e.request))
  BY <1>1, <1>2, ReadersUpToIs
<1> HIDE DEF k, e
<1>8. ~HasEntry(q, e.thread)
  BY <1>2, <1>3 DEF HasEntry, Readers
<1>9. Sorted(q) /\ Distinct(q)
  BY DEF Readers
<1> HIDE DEF q, r
<1>10. /\ Sorted(r) /\ Distinct(r)
       /\ \A i \in 1 .. Len(r) : r[i] = e \/ \E j \in 1 .. Len(q) : r[i] = q[j]
       /\ \A i \in 1 .. Len(q) : HasEntry(r, q[i].thread)
       /\ HasEntry(r, e.thread)
  <2>1. q \in Seq(ReaderEntries)
    BY <1>1 DEF q
  <2>2. e \in ReaderEntries /\ k \in 0 .. Len(q) /\ \A i \in 1 .. k : q[i].request <= e.request
    BY <1>2, <1>4 DEF q
  <2>3. /\ r = InsertAt(q, k + 1, e)
        /\ k < Len(q) => ~(q[k + 1].request <= e.request)
    BY <1>2, <1>4 DEF q, r
  <2> QED BY <1>8, <1>9, <2>1, <2>2, <2>3, InsertedAt
<1>11. ASSUME NEW v \in Threads, HasEntry(q, v)
       PROVE  HasEntry(r, v)
  BY <1>10, <1>11 DEF HasEntry
<1>12. ASSUME NEW v \in Threads, NEW i \in 1 .. Len(in'.readers), in'.readers[i].thread = v
       PROVE  InReaders(v)' /\ in'.readers[i].request = th'[v].request
  <2>1. CASE r[i] = e
    BY <1>2, <1>3, <1>12, <2>1 DEF r
  <2>2. CASE r[i] # e
    <3>1. PICK j \in 1 .. Len(q) : r[i] = q[j]
      BY <1>10, <1>12, <2>2 DEF r
    <3>2. InReaders(v) /\ in.readers[j].request = th[v].request
      BY <1>12, <3>1 DEF Readers, q, r
    <3>3. v # t
      BY <1>3, <3>2
    <3> QED BY <3>1, <3>2, <3>3 DEF SameThread, q, r
  <2> QED BY <2>1, <2>2
<1>13. ASSUME NEW v \in Threads, InLoop(v)', th'[v].request > in'.completed
       PROVE  HasEntry(r, v)
  <2>1. CASE v = t
    BY <1>2, <1>10, <2>1
  <2>2. CASE v # t
    <3>1. InLoop(v) /\ th[v].request > in.completed
      BY <1>2, <1>13, <2>2 DEF SameThread
    <3> QED BY <1>11, <3>1 DEF Readers, q
  <2> QED BY <2>1, <2>2
<1>14. ASSUME NEW v \in Threads, th'[v].wait = "reader"
       PROVE  HasEntry(r, v)
  <2>1. v # t
    BY <1>2, <1>14
  <2>2. th[v].wait = "reader"
    BY <1>14, <2>1 DEF SameThread
  <2> QED BY <1>11, <2>2 DEF Readers, q
<1> QED BY <1>10, <1>12, <1>13, <1>14 DEF Readers, r

\* Lists of readers without their first entries.
LEMMA CutIs ==
    ASSUME NEW q \in Seq(ReaderEntries), NEW k \in 0 .. Len(q), NEW r, r = SubSeq(q, k + 1, Len(q)),
           Sorted(q), Distinct(q)
    PROVE  /\ Sorted(r) /\ Distinct(r)
           /\ \A i \in 1 .. Len(r) : k + i \in 1 .. Len(q) /\ r[i] = q[k + i]
           /\ \A i \in k + 1 .. Len(q) : HasEntry(r, q[i].thread)
<1>1. Len(r) = Len(q) - k /\ \A i \in 1 .. Len(r) : r[i] = q[k + i]
  BY DropIs
<1> QED BY <1>1, DroppedIs

LEMMA TailIs ==
    ASSUME NEW q \in Seq(ReaderEntries), q # <<>>, NEW r, r = Tail(q), Sorted(q), Distinct(q)
    PROVE  /\ Sorted(r) /\ Distinct(r) /\ Len(q) \in Nat /\ 1 \in 1 .. Len(q) /\ Head(q) = q[1]
           /\ \A i \in 1 .. Len(r) : 1 + i \in 1 .. Len(q) /\ r[i] = q[1 + i]
           /\ \A i \in 2 .. Len(q) : HasEntry(r, q[i].thread)
<1>1. Len(q) \in Nat /\ 1 \in 1 .. Len(q) /\ 1 \in 0 .. Len(q) /\ Head(q) = q[1]
  OBVIOUS
<1>2. Len(r) = Len(q) - 1 /\ \A i \in 1 .. Len(r) : r[i] = q[1 + i]
  OBVIOUS
<1>3. /\ Sorted(r) /\ Distinct(r)
      /\ \A i \in 1 .. Len(r) : 1 + i \in 1 .. Len(q)
      /\ \A i \in 1 + 1 .. Len(q) : HasEntry(r, q[i].thread)
  BY <1>1, <1>2, DroppedIs
<1> QED BY <1>1, <1>2, <1>3

\* read_packet drops readers it has woken,
LEMMA ReadersCut ==
    ASSUME Base, Flow, Readers, NEW t \in Threads, ReadsPacket(t),
           \A v \in Threads \ {t} : SameThread(v)
    PROVE  Readers'
<1>1. in \in InRecords /\ in' \in InRecords
  BY TypesAre DEF ReadsPacket, Polling
<1>2. /\ in.readers \in Seq(ReaderEntries) /\ in.completed \in Nat /\ in'.completed \in Nat
      /\ in.read \in Nat /\ in'.read \in Nat
  BY <1>1 DEF InRecords
<1>3. in'.completed >= in.completed
  <2>1. Wire \in Nat \ {0} /\ in.packets # <<>> /\ in.packets \in Seq(Packets)
    BY <1>1, ConstantsAssumption DEF ReadsPacket, InRecords
  <2>2. Head(in.packets) \in Packets
    BY <2>1
  <2>3. Head(in.packets).serial \in Nat
    BY <2>2 DEF Packets
  <2>4. in'.read >= in.read
    BY <1>2, <2>1, <2>3, WidenIs DEF ReadsPacket
  <2>5. in.completed <= in.read
    BY DEF Flow
  <2> QED BY <1>2, <2>4, <2>5 DEF ReadsPacket
<1> DEFINE k == ReadersUpTo(in'.completed)
           q == in.readers
           r == in'.readers
<1>4. k \in 0 .. Len(q) /\ (\A i \in 1 .. k : q[i].request <= in'.completed)
  BY ReadersUpToIs
<1>5. /\ r = SubSeq(q, k + 1, Len(q))
      /\ \A i \in 1 .. k : th'[q[i].thread].wait # "reader"
  BY DEF ReadsPacket
<1> HIDE DEF k
<1>6. Sorted(q) /\ Distinct(q)
  BY DEF Readers
<1>7. /\ Sorted(r) /\ Distinct(r)
      /\ \A i \in 1 .. Len(r) : k + i \in 1 .. Len(q) /\ r[i] = q[k + i]
      /\ \A i \in k + 1 .. Len(q) : HasEntry(r, q[i].thread)
  <2>1. /\ q \in Seq(ReaderEntries) /\ k \in 0 .. Len(q) /\ r = SubSeq(q, k + 1, Len(q))
        /\ Sorted(q) /\ Distinct(q)
    BY <1>2, <1>4, <1>5, <1>6
  <2> HIDE DEF q, r
  <2>2. Sorted(r) /\ Distinct(r)
    BY <2>1, CutIs
  <2>3. \A i \in 1 .. Len(r) : k + i \in 1 .. Len(q) /\ r[i] = q[k + i]
    BY <2>1, CutIs
  <2>4. \A i \in k + 1 .. Len(q) : HasEntry(r, q[i].thread)
    BY <2>1, CutIs
  <2> QED BY <2>2, <2>3, <2>4
<1>8. Len(q) \in Nat /\ \A i \in 1 .. Len(q) : i \in 1 .. k \/ i \in k + 1 .. Len(q)
  BY <1>2, <1>4
<1>9. ASSUME NEW v \in Threads
      PROVE  /\ InReaders(v)' <=> InReaders(v)
             /\ InLoop(v)' <=> InLoop(v)
             /\ InReaders(v) => th'[v].request = th[v].request
             /\ InLoop(v) => InReaders(v)
             /\ th'[v].wait = "reader" => th[v].wait = "reader"
  <2>1. CASE v = t
    <3>1. Moved(t) /\ SameRoles(t) /\ th'[t].wait = "run"
      BY DEF ReadsPacket, Polling
    <3> QED BY <2>1, <3>1, InReadersAreNext DEF Moved, SameRoles, InReaders, Tops
  <2>2. CASE v # t
    BY <2>2 DEF SameThread, InReaders
  <2> QED BY <2>1, <2>2
<1>10. ASSUME NEW v \in Threads, NEW i \in 1 .. Len(in'.readers), in'.readers[i].thread = v
       PROVE  InReaders(v)' /\ in'.readers[i].request = th'[v].request
  BY <1>7, <1>9, <1>10 DEF Readers
<1>11. ASSUME NEW v \in Threads, NEW i \in 1 .. Len(q), q[i].thread = v,
              th'[v].wait = "reader" \/ q[i].request > in'.completed
       PROVE  HasEntry(r, v)
  <2>1. q[i].request \in Nat
    BY <1>2, EntryIs
  <2>2. i \notin 1 .. k
    BY <1>2, <1>4, <1>5, <1>11, <2>1
  <2> QED BY <1>7, <1>8, <1>11, <2>2
<1>12. ASSUME NEW v \in Threads, InLoop(v)', th'[v].request > in'.completed
       PROVE  HasEntry(r, v)
  <2>1. InLoop(v) /\ th'[v].request = th[v].request
    BY <1>9, <1>12
  <2>2. th[v].request \in Nat
    BY TypesAre DEF ThreadRecords
  <2>3. HasEntry(q, v)
    BY <1>2, <1>3, <1>12, <2>1, <2>2 DEF Readers
  <2>4. PICK i \in 1 .. Len(q) : q[i].thread = v
    BY <2>3 DEF HasEntry
  <2>5. q[i].request = th[v].request
    BY <2>4 DEF Readers
  <2> QED BY <1>11, <1>12, <2>1, <2>4, <2>5
<1>13. ASSUME NEW v \in Threads, th'[v].wait = "reader"
       PROVE  HasEntry(r, v)
  <2>1. HasEntry(q, v)
    BY <1>9, <1>13 DEF Readers
  <2>2. PICK i \in 1 .. Len(q) : q[i].thread = v
    BY <2>1 DEF HasEntry
  <2> QED BY <1>11, <1>13, <2>2
<1> QED BY <1>7, <1>10, <1>12, <1>13 DEF Readers

\* and remove_reader the one that is the first.
LEMMA ReadersRemoved ==
    ASSUME Base, Readers, NEW t \in Threads, Removes(t), \A v \in Threads \ {t} : SameThread(v)
    PROVE  Readers'
<1>1. in \in InRecords /\ th[t] \in ThreadRecords
  BY TypesAre
<1>2. /\ in.readers \in Seq(ReaderEntries) /\ th[t].request \in Nat
      /\ in'.completed = in.completed
  BY <1>1 DEF InRecords, ThreadRecords, Removes, InKept
<1>3. ~InReaders(t)' /\ ~InLoop(t)' /\ th'[t].wait = "run"
  BY DEF Removes, Aside, RolesAt
<1> DEFINE q == in.readers
           r == in'.readers
<1>4. Sorted(q) /\ Distinct(q)
  BY DEF Readers
<1>5. /\ Sorted(r) /\ Distinct(r)
      /\ \A i \in 1 .. Len(r) : \E j \in 1 .. Len(q) : r[i] = q[j] /\ q[j].thread # t
      /\ \A i \in 1 .. Len(q) : q[i].thread # t => HasEntry(r, q[i].thread)
  <2>1. CASE in' = in /\ ~(in.readers # <<>> /\ Head(in.readers).request <= th[t].request)
    <3>1. ASSUME NEW i \in 1 .. Len(q), q[i].thread = t
          PROVE  FALSE
      <4>1. q[i].request = th[t].request
        BY <3>1 DEF Readers
      <4>2. 1 \in 1 .. i /\ q[1].request <= q[i].request
        BY <1>2, <1>4 DEF Sorted
      <4>3. q # <<>> /\ Head(q) = q[1]
        BY <1>2
      <4> QED BY <2>1, <4>1, <4>2, <4>3
    <3> QED BY <1>4, <2>1, <3>1 DEF HasEntry
  <2>2. CASE q # <<>> /\ Head(q).thread = t /\ r = Tail(q)
    <3>1. q \in Seq(ReaderEntries) /\ q # <<>> /\ r = Tail(q) /\ Sorted(q) /\ Distinct(q)
      BY <1>2, <1>4, <2>2
    <3> HIDE DEF q, r
    <3>2. /\ Sorted(r) /\ Distinct(r) /\ Len(q) \in Nat /\ 1 \in 1 .. Len(q) /\ Head(q) = q[1]
          /\ \A i \in 1 .. Len(r) : 1 + i \in 1 .. Len(q) /\ r[i] = q[1 + i]
          /\ \A i \in 2 .. Len(q) : HasEntry(r, q[i].thread)
      <4>1. Sorted(r) /\ Distinct(r) /\ Len(q) \in Nat /\ 1 \in 1 .. Len(q) /\ Head(q) = q[1]
        BY <3>1, TailIs
      <4>2. \A i \in 1 .. Len(r) : 1 + i \in 1 .. Len(q) /\ r[i] = q[1 + i]
        BY <3>1, TailIs
      <4>3. \A i \in 2 .. Len(q) : HasEntry(r, q[i].thread)
        BY <3>1, TailIs
      <4> QED BY <4>1, <4>2, <4>3
    <3>3. \A i \in 1 .. Len(q) : q[i].thread = t <=> i = 1
      BY <1>4, <2>2, <3>2 DEF Distinct
    <3>4. \A i \in 1 .. Len(r) : \E j \in 1 .. Len(q) : r[i] = q[j] /\ q[j].thread # t
      <4> SUFFICES ASSUME NEW i \in 1 .. Len(r)
                   PROVE  1 + i \in 1 .. Len(q) /\ r[i] = q[1 + i] /\ q[1 + i].thread # t
        OBVIOUS
      <4>1. 1 + i \in 1 .. Len(q) /\ r[i] = q[1 + i]
        BY <3>2
      <4>2. 1 + i # 1
        OBVIOUS
      <4> QED BY <3>3, <4>1, <4>2
    <3>5. \A i \in 1 .. Len(q) : i # 1 => i \in 2 .. Len(q)
      BY <3>2
    <3> QED BY <3>2, <3>3, <3>4, <3>5
  <2> QED BY <2>1, <2>2 DEF Removes
<1>6. \A v \in Threads \ {t} :
         /\ InReaders(v)' <=> InReaders(v)
         /\ InLoop(v)' <=> InLoop(v)
         /\ th'[v].request = th[v].request
         /\ th'[v].wait = "reader" => th[v].wait = "reader"
  BY DEF SameThread
<1>7. ASSUME NEW v \in Threads \ {t}, HasEntry(q, v)
      PROVE  HasEntry(r, v)
  <2>1. PICK i \in 1 .. Len(q) : q[i].thread = v
    BY <1>7 DEF HasEntry
  <2> QED BY <1>5, <2>1
<1>8. ASSUME NEW v \in Threads, NEW i \in 1 .. Len(in'.readers), in'.readers[i].thread = v
      PROVE  InReaders(v)' /\ in'.readers[i].request = th'[v].request
  <2>1. PICK j \in 1 .. Len(q) : in'.readers[i] = q[j] /\ q[j].thread # t
    BY <1>5
  <2> QED BY <1>6, <1>8, <2>1 DEF Readers
<1>9. ASSUME NEW v \in Threads, InLoop(v)', th'[v].request > in'.completed
      PROVE  HasEntry(r, v)
  BY <1>2, <1>3, <1>6, <1>7, <1>9 DEF Readers
<1>10. ASSUME NEW v \in Threads, th'[v].wait = "reader"
       PROVE  HasEntry(r, v)
  BY <1>3, <1>6, <1>7, <1>10 DEF Readers
<1> QED BY <1>5, <1>8, <1>9, <1>10 DEF Readers

\* Every step of a thread keeps Readers.
LEMMA ReadersNext ==
    ASSUME Base, Flow, Readers, NEW t \in Threads, ThreadStep(t)
    PROVE  Readers'
<1>1. Base' /\ \A v \in Threads \ {t} : SameThread(v)
  BY StepTypes
<1> QED BY <1>1, ReadersSame, ReadersKept, ReadersCut, ReadersInserted, ReadersRemoved

-----------------------------------------------------------------------------
(* The invariant: who sleeps is woken                                      *)

\* The thread will tell those that sleep, without being told itself.
WillWake(t) == th[t].wait \in {"run", "poll"} /\ (SendsOut(t) \/ Attending(t))

\* As long as one sleeps there is one that will wake it.
Duty == (\E t \in Threads : th[t].wait \in {"reader", "event"}) => \E t \in Threads : WillWake(t)

\* Who polls is not asleep.
LEMMA BusyIs ==
    Base => \A t \in Threads : Writing(t) \/ ReadingOn(t) => WillWake(t)
<1> SUFFICES ASSUME Base, NEW t \in Threads, Writing(t) \/ ReadingOn(t)
             PROVE  WillWake(t)
  OBVIOUS
<1>1. Now(t) \in {"polled", "read", "packets", "write", "waited"}
  BY DEF Writing, ReadingOn, Tops
<1>2. th[t].wait \in {"run", "poll"}
  BY <1>1 DEF Base, Control, WaitsAt
<1> QED BY <1>2 DEF WillWake, SendsOut, Attending

\* While a thread polls, there is one that will wake the others.
LEMMA PollingWakes ==
    Base /\ Counters /\ in.reading > 0 => \E t \in Threads : WillWake(t)
<1> SUFFICES ASSUME Base, Counters, in.reading > 0
             PROVE  \E t \in Threads : WillWake(t)
  OBVIOUS
<1>1. (\E t \in Threads : Writing(t)) \/ (\E t \in Threads : ReadingOn(t))
  <2> SUFFICES ASSUME ~(\E t \in Threads : Writing(t)), ~(\E t \in Threads : ReadingOn(t))
               PROVE  FALSE
    OBVIOUS
  <2>1. in.reading = 0 + 0
    BY DEF Counters
  <2> QED BY <2>1
<1> QED BY <1>1, BusyIs

LEMMA PollingWakesNext ==
    Base' /\ Counters' /\ in'.reading > 0 => \E t \in Threads : WillWake(t)'
<1>1. (Base /\ Counters /\ in.reading > 0 => \E t \in Threads : WillWake(t))'
  BY PollingWakes, PTL
<1> QED BY <1>1

\* The first reader is awake.
LEMMA ListedWakes ==
    ASSUME Base, Readers, NEW t \in Threads, HasEntry(in.readers, t), th[t].wait # "reader"
    PROVE  WillWake(t)
<1>1. InReaders(t)
  BY DEF Readers, HasEntry
<1>2. Attending(t)
  BY <1>1 DEF InReaders, InLoop, Attending, ReadingOn
<1>3. Now(t) \in {"polled", "read", "packets", "waited", "replyloop", "remove"}
  BY <1>1 DEF InReaders, InLoop, Tops
<1>4. th[t].wait \in {"run", "poll"}
  BY <1>3 DEF Base, Control, WaitsAt
<1> QED BY <1>2, <1>4 DEF WillWake

LEMMA ListedWakesNext ==
    Base' /\ Readers' => \A t \in Threads : HasEntry(in'.readers, t) /\ th'[t].wait # "reader" => WillWake(t)'
<1>1. Base /\ Readers => \A t \in Threads : HasEntry(in.readers, t) /\ th[t].wait # "reader" => WillWake(t)
  BY ListedWakes
<1>2. (Base /\ Readers => \A t \in Threads : HasEntry(in.readers, t) /\ th[t].wait # "reader" => WillWake(t))'
  BY <1>1, PTL
<1> QED BY <1>2

\* _xcb_in_wake_up_next_reader does not leave the sleeping ones alone.
LEMMA WokenWakes ==
    ASSUME Base, Base', Readers', in'.readers = in.readers, NEW t \in Threads, th[t].wait = "run",
           \A v \in Threads \ {t} : SameThread(v), WakesReader(th'),
           \E v \in Threads : th'[v].wait \in {"reader", "event"}
    PROVE  \E v \in Threads : WillWake(v)'
<1>1. in.readers \in Seq(ReaderEntries)
  BY TypesAre DEF InRecords
<1>2. CASE in.readers # <<>> /\ th'[Head(in.readers).thread].wait # "reader"
  <2>1. PICK h \in Threads : h = Head(in.readers).thread
    <3>1. Head(in.readers) \in ReaderEntries
      BY <1>1, <1>2
    <3> QED BY <3>1 DEF ReaderEntries
  <2>2. HasEntry(in'.readers, h) /\ th'[h].wait # "reader"
    <3>1. 1 \in 1 .. Len(in.readers) /\ Head(in.readers) = in.readers[1]
      BY <1>1, <1>2
    <3> QED BY <1>2, <2>1, <3>1 DEF HasEntry
  <2> QED BY <2>2, ListedWakesNext
<1>3. CASE in.readers = <<>> /\ \E u \in Threads : th[u].wait = "event" /\ th'[u].wait = "run"
  <2>1. PICK u \in Threads : th[u].wait = "event" /\ th'[u].wait = "run"
    BY <1>3
  <2>2. SameThread(u)
    BY <2>1
  <2>3. Now(u) = "eventloop"
    BY <2>1 DEF Base, Control, WaitsAt
  <2>4. Attending(u)'
    BY <2>2, <2>3 DEF SameThread, Attending
  <2> QED BY <2>1, <2>4 DEF WillWake
<1>4. CASE in.readers = <<>> /\ \A u \in Threads : th'[u].wait # "event"
  <2>1. PICK v \in Threads : th'[v].wait = "reader"
    BY <1>4
  <2>2. HasEntry(in'.readers, v)
    BY <2>1 DEF Readers
  <2> QED BY <1>4, <2>2 DEF HasEntry
<1> QED BY <1>2, <1>3, <1>4 DEF WakesReader

\* A step that sends nobody to sleep and leaves the duty to its thread.
LEMMA DutyKept ==
    ASSUME Duty, NEW t \in Threads, \A v \in Threads \ {t} : SameThread(v),
           th'[t].wait \notin {"reader", "event"}, WillWake(t) => WillWake(t)'
    PROVE  Duty'
<1> SUFFICES ASSUME NEW v \in Threads, th'[v].wait \in {"reader", "event"}
             PROVE  \E u \in Threads : WillWake(u)'
  BY DEF Duty
<1>1. th[v].wait \in {"reader", "event"}
  BY DEF SameThread
<1>2. PICK u \in Threads : WillWake(u)
  BY <1>1 DEF Duty
<1>3. CASE u = t
  BY <1>2, <1>3
<1>4. CASE u # t
  BY <1>2, <1>4 DEF WillWake, SameThread
<1> QED BY <1>3, <1>4

\* Every step of a thread keeps Duty.
LEMMA DutyNext ==
    ASSUME Base, Counters', Readers', Duty, NEW t \in Threads, ThreadStep(t)
    PROVE  Duty'
<1>1. Base' /\ \A v \in Threads \ {t} : SameThread(v)
  BY StepTypes
<1>2. in \in InRecords
  BY TypesAre
<1>3. /\ th'[t].wait = "reader" => Now(t)' = "replyloop"
      /\ th'[t].wait = "event" => Now(t)' = "eventloop"
  BY <1>1 DEF Base, Control, WaitsAt
<1>4. CASE Simple(t)
  <2>1. Moved(t) /\ LoopsOn(t) /\ Attends(t) /\ ~SendsOut(t) /\ in'.readers = in.readers
        /\ in'.reading = in.reading
    BY <1>4 DEF Simple, Bare
  <2>2. CASE ~Attending(t)
    <3>1. th'[t].wait \notin {"reader", "event"}
      BY <2>1, <2>2 DEF LoopsOn, Attending
    <3> QED BY <1>1, <2>1, <2>2, <3>1, DutyKept DEF WillWake
  <2>3. CASE Attending(t)' /\ th'[t].wait \in {"run", "poll"}
    BY <2>3 DEF WillWake, Duty
  <2>4. CASE WakesReader(th')
    BY <1>1, <2>1, <2>4, WokenWakes DEF Moved, Duty
  <2>5. CASE in.reading > 0
    BY <1>1, <2>1, <2>5, PollingWakesNext DEF Duty
  <2> QED BY <2>1, <2>2, <2>3, <2>4, <2>5 DEF Attends
<1>5. CASE Moves(t) \/ GivesBack(t) \/ HandsOut(t) \/ Queues(t) \/ Owns(t)
  <2>1. /\ Aside(t) /\ Now(t) \notin {"replyloop", "remove", "wakenext", "eventloop"}
        /\ Now(t)' \notin {"replyloop", "eventloop"}
    BY <1>5, MovesRoles, QueuesRoles, OwnsRoles DEF GivesBack, HandsOut, Queues
  <2>2. ~WillWake(t)
    BY <2>1 DEF Aside, RolesAt, Bare, WillWake
  <2> QED BY <1>1, <1>3, <2>1, <2>2, DutyKept
<1>6. CASE Inserts(t)
  <2>1. ~WillWake(t) /\ th'[t].wait = "run"
    BY <1>6, InsertsRoles DEF Aside, RolesAt, Bare, WillWake
  <2> QED BY <1>1, <2>1, DutyKept
<1>7. CASE Called(t)
  <2>1. ~WillWake(t)
    BY <1>7, CalledRoles DEF Aside, RolesAt, Bare, WillWake
  <2>2. th'[t].wait = "run"
    BY <1>7 DEF Called, Base, Control
  <2> QED BY <1>1, <2>1, <2>2, DutyKept
<1>8. CASE Removes(t)
  BY <1>8 DEF Removes, Aside, RolesAt, WillWake, Duty
<1>9. CASE SendsNow(t) \/ Flushes(t) \/ WritesOwn(t)
  BY <1>9, SendsNowRoles, FlushesRoles DEF WritesOwn, BeginsToSend, WillWake, Duty
<1>10. CASE SentAll(t)
  <2>1. in'.readers = in.readers /\ th[t].wait = "run" /\ WakesReader(th')
    BY <1>10 DEF SentAll, Plain, Moved
  <2> QED BY <1>1, <2>1, WokenWakes DEF Duty
<1>11. CASE PollsToWrite(t) \/ Writes(t)
  BY <1>11 DEF PollsToWrite, Writes, WillWake, Duty
<1>12. CASE LooksAt(t) \/ Receives(t) \/ ReadsPacket(t)
  <2>1. Polling(t)
    BY <1>12 DEF LooksAt, Receives, ReadsPacket
  <2>2. th'[t].wait = "run" /\ (WillWake(t) => WillWake(t)')
    BY <2>1 DEF Polling, SameRoles, WillWake
  <2> QED BY <1>1, <2>2, DutyKept
<1>13. CASE ReadsOn(t)
  BY <1>13 DEF ReadsOn, RolesAt, WillWake, Duty
<1>14. CASE PollsToRead(t)
  <2>1. Attending(t)' /\ th'[t].wait = "poll"
    BY <1>14, PollsToReadRoles DEF PollsToRead, Attending
  <2> QED BY <2>1 DEF WillWake, Duty
<1>15. CASE Returned(t) \/ LetsGo(t)
  <2>1. Resumed(t)
    BY <1>15 DEF Returned, LetsGo
  <2>2. th'[t].wait = "run" /\ (WillWake(t) => WillWake(t)')
    BY <2>1, SameStack DEF Resumed, WillWake
  <2> QED BY <1>1, <2>2, DutyKept
<1> QED BY <1>4, <1>5, <1>6, <1>7, <1>8, <1>9, <1>10, <1>11, <1>12, <1>13, <1>14, <1>15
         DEF ThreadStep, Quiet, Sends, Reads

-----------------------------------------------------------------------------
(* All of the invariant together                                           *)

\* All of it together is inductive.
IInv == Base /\ Socket /\ Failures /\ Order /\ Cookies /\ Flow /\ Readers /\ Duty

\* A thread in _xcb_out_send finds no other writer.
LEMMA ReadyIs == IInv => Ready
<1> SUFFICES ASSUME IInv, NEW t \in Threads
             PROVE  /\ Now(t) = "outsend" => out.writing = 0
                    /\ Now(t) = "packets" => in.packets # <<>>
  BY DEF Ready
<1>1. Now(t) = "packets" => in.packets # <<>>
  BY DEF IInv, Flow
<1>2. ASSUME Now(t) = "outsend", out.writing # 0
      PROVE  FALSE
  <2>1. PICK u \in Threads : Writing(u)
    BY <1>2 DEF IInv, Socket, Counters
  <2>2. SendsOut(u) /\ SendsOut(t)
    BY <1>2, <2>1 DEF SendsOut
  <2>3. u = t
    BY <2>2 DEF IInv, Socket, Counters
  <2> QED BY <1>2, <2>1, <2>3 DEF Writing, Tops
<1> QED BY <1>1, <1>2

\* A step that changes nothing is like one of the server that does nothing.
LEMMA StutterIs ==
    ASSUME Base, UNCHANGED vars
    PROVE  Server
<1>1. net' = net /\ UNCHANGED <<lock, th, in, out, log>>
  BY DEF vars
<1>2. net' \in NetRecords
  BY <1>1, TypesAre
<1> QED BY <1>1, <1>2 DEF Server

\* The server leaves the threads and their counters alone,
LEMMA ServerSocket ==
    ASSUME Base, Socket, Server
    PROVE  Socket'
<1>1. th' = th /\ in' = in /\ out' = out /\ net'.error = net.error
  BY DEF Server
<1>2. \A v \in Threads : Now(v)' = Now(v) /\ Then(v)' = Then(v)
  BY ServerRoles
<1>3. \A v \in Threads : (Writing(v)' <=> Writing(v)) /\ (ReadingOn(v)' <=> ReadingOn(v))
                         /\ (SendsOut(v)' <=> SendsOut(v)) /\ (InTake(v)' <=> InTake(v))
  BY ServerRoles
<1>4. Counters'
  <2>1. \A t, u \in Threads : SendsOut(t)' /\ SendsOut(u)' => t = u
    BY <1>3 DEF Socket, Counters
  <2>2. \A t, u \in Threads : ReadingOn(t)' /\ ReadingOn(u)' => t = u
    BY <1>3 DEF Socket, Counters
  <2>3. (\E t \in Threads : Writing(t)') <=> (\E t \in Threads : Writing(t))
    BY <1>3
  <2>4. (\E t \in Threads : ReadingOn(t)') <=> (\E t \in Threads : ReadingOn(t))
    BY <1>3
  <2>5. out'.writing = IF \E t \in Threads : Writing(t)' THEN 1 ELSE 0
    BY <1>1, <2>3 DEF Socket, Counters
  <2>6. in'.reading = out'.writing + (IF \E t \in Threads : ReadingOn(t)' THEN 1 ELSE 0)
    BY <1>1, <2>4 DEF Socket, Counters
  <2> QED BY <2>1, <2>2, <2>5, <2>6 DEF Counters
<1>5. Writers'
  BY <1>1, <1>2, <1>3 DEF Socket, Writers
<1>6. Ownership'
  BY <1>1, <1>2 DEF Socket, Ownership
<1>7. Takes'
  BY <1>1, <1>2, <1>3 DEF Socket, Takes
<1> QED BY <1>4, <1>5, <1>6, <1>7 DEF Socket

LEMMA ServerOrder ==
    ASSUME Order, Server
    PROVE  Order'
BY DEF Order, Server

LEMMA ServerFailures ==
    ASSUME Failures, Server
    PROVE  Failures'
<1>1. th' = th /\ net'.error = net.error /\ (net.broken => net'.broken)
  BY DEF Server
<1>2. \A v \in Threads : Now(v)' = Now(v)
  BY ServerRoles
<1> QED BY <1>1, <1>2 DEF Failures

LEMMA ServerCookies ==
    ASSUME Cookies, Server
    PROVE  Cookies'
<1>1. th' = th /\ out' = out /\ log' = log /\ net'.error = net.error
  BY DEF Server
<1>2. \A v \in Threads : Numbered(v)' <=> Numbered(v)
  BY ServerRoles
<1> QED BY <1>1, <1>2 DEF Cookies

LEMMA ServerReaders ==
    ASSUME Readers, Server
    PROVE  Readers'
<1>1. th' = th /\ in' = in
  BY DEF Server
<1>2. \A v \in Threads : (InLoop(v)' <=> InLoop(v)) /\ (InReaders(v)' <=> InReaders(v))
  BY ServerRoles
<1> QED BY <1>1, <1>2 DEF Readers

LEMMA ServerDuty ==
    ASSUME Duty, Server
    PROVE  Duty'
<1>1. th' = th
  BY DEF Server
<1>2. \A v \in Threads : (SendsOut(v)' <=> SendsOut(v)) /\ (Attending(v)' <=> Attending(v))
  BY ServerRoles
<1> QED BY <1>1, <1>2 DEF Duty, WillWake

\* and sends its packets in the order of the requests.
LEMMA ServerFlow ==
    ASSUME Base, Order, Flow, Server
    PROVE  Flow'
<1>1. th' = th /\ in' = in /\ out' = out /\ net'.socket = net.socket
  BY DEF Server
<1>2. \A v \in Threads : Now(v)' = Now(v)
  BY ServerRoles
<1>3. /\ in.packets \in Seq(Packets) /\ net.wire \in Seq(Packets) /\ in.read \in Nat
      /\ net.served \in Nat /\ net.socket \in Seq(Nat) /\ net'.served \in Nat
  <2>1. in \in InRecords /\ net \in NetRecords /\ net' \in NetRecords
    BY TypesAre DEF Server
  <2> QED BY <2>1 DEF InRecords, NetRecords
<1>4. net.served <= net'.served /\ net'.served <= Len(net.socket)
  BY <1>3 DEF Server, Flow
<1>5. /\ Stream(in.packets, in.read, net.served) /\ Stream(net.wire, in.read, net.served)
      /\ Later(in.packets, net.wire) /\ in.read <= net.served
  BY DEF Flow
<1>6. Stream(in.packets, in.read, net'.served)
  BY <1>3, <1>4, <1>5, StreamLater
<1>7. Stream(net'.wire, in.read, net'.served) /\ Later(in.packets, net'.wire)
  <2>1. CASE net'.wire = net.wire
    BY <1>3, <1>4, <1>5, <2>1, StreamLater
  <2>2. ASSUME NEW p \in Packets, p.serial = net'.served % Wire,
               p.of = IF net'.served = net.served THEN net.served ELSE net.socket[net'.served],
               net'.wire = Append(net.wire, p)
        PROVE  Stream(net'.wire, in.read, net'.served) /\ Later(in.packets, net'.wire)
    <3>1. p.of = net'.served
      <4>1. CASE net'.served = net.served
        BY <2>2, <4>1
      <4>2. CASE net'.served # net.served
        <5>1. net'.served \in 1 .. Len(net.socket)
          BY <1>3, <1>4, <4>2
        <5> QED BY <2>2, <4>2, <5>1 DEF Order
      <4> QED BY <4>1, <4>2
    <3>2. Stream(Append(net.wire, p), in.read, net'.served)
      BY <1>3, <1>4, <1>5, <2>2, <3>1, StreamAppend
    <3>3. Later(in.packets, Append(net.wire, p))
      BY <1>3, <1>4, <1>5, <2>2, <3>1, StreamAppend
    <3> QED BY <2>2, <3>2, <3>3
  <2> QED BY <2>1, <2>2 DEF Server
<1>8. in'.read <= net'.served /\ net'.served <= Len(net'.socket)
  BY <1>1, <1>3, <1>4, <1>5
<1>9. /\ in'.completed <= in'.read
      /\ in'.completed \in {in'.read - 1, in'.read} \/ in'.completed = 0
      /\ in'.expected <= out'.request
      /\ \A v \in Threads : Now(v)' = "packets" => in'.packets # <<>>
  BY <1>1, <1>2 DEF Flow
<1> QED BY <1>1, <1>6, <1>7, <1>8, <1>9 DEF Flow

\* The server's steps keep the invariant.
LEMMA ServerKeeps ==
    ASSUME IInv, Server
    PROVE  IInv'
<1>1. Base'
  BY BaseServer DEF IInv, Server
<1>2. Socket' /\ Failures' /\ Order' /\ Cookies'
  BY ServerSocket, ServerFailures, ServerOrder, ServerCookies DEF IInv
<1>3. Flow' /\ Readers' /\ Duty'
  BY ServerFlow, ServerReaders, ServerDuty DEF IInv
<1> QED BY <1>1, <1>2, <1>3 DEF IInv

\* The first state.
LEMMA InitBase ==
    ASSUME Init
    PROVE  /\ Base
           /\ \A t \in Threads : th[t] = Idle /\ Now(t) = "end" /\ RolesAt(t)
<1>1. Valid(<<>>) /\ Item(<<>>, 1) = "end"
  BY DEF Valid, Item
<1>2. Idle \in ThreadRecords
  <2>1. <<>> \in Seq(Names) /\ <<>> \in Seq(Nat)
    OBVIOUS
  <2> QED BY <2>1 DEF Idle, ThreadRecords, Waits
<1>3. \A t \in Threads : th[t] = Idle
  BY DEF Init
<1>4. \A t \in Threads : Now(t) = "end"
  BY <1>1, <1>3 DEF Now, Place, Idle
<1>5. \A t \in Threads : RolesAt(t)
  <2>1. "end" \in Lone
    BY DEF Lone
  <2> QED BY <1>4, <2>1, RolesAre DEF Apart
<1>6. in \in InRecords
  <2>1. /\ <<>> \in Seq(Packets) /\ <<>> \in Seq(EventEntries) /\ <<>> \in Seq(ReaderEntries)
        /\ <<>> \in Seq(PendingEntries)
    OBVIOUS
  <2> QED BY <2>1 DEF Init, InRecords
<1>7. out \in OutRecords /\ net \in NetRecords
  BY DEF Init, OutRecords, NetRecords
<1>8. Types
  BY <1>2, <1>6, <1>7 DEF Init, Types
<1>9. \A t \in Threads : Control(t)
  BY <1>1, <1>3, <1>4, ConstantsAssumption DEF Init, Control, Idle
<1> QED BY <1>3, <1>4, <1>5, <1>8, <1>9 DEF Base

\* Nobody is in a call, and nothing was sent.
LEMMA InitIs == Init => IInv
<1> SUFFICES ASSUME Init
             PROVE  IInv
  OBVIOUS
<1>1. Base
  BY InitBase
<1>2. \A t \in Threads : th[t] = Idle /\ Now(t) = "end"
  BY InitBase
<1>3. \A t \in Threads : /\ ~SendsOut(t) /\ ~ReadingOn(t) /\ ~Writing(t)
                         /\ ~Attending(t) /\ ~InLoop(t) /\ ~InReaders(t) /\ ~Numbered(t) /\ ~InTake(t)
  <2>1. \A t \in Threads : RolesAt(t)
    BY InitBase
  <2> QED BY <1>2, <2>1 DEF RolesAt, Bare, SendsOut, Take
<1>4. \A t \in Threads : th[t].vec = <<>> /\ th[t].wait = "run" /\ th[t].op = "none" /\ th[t].cookies = {}
  BY <1>2 DEF Idle
<1>5. Counters
  BY <1>3 DEF Init, Counters
<1>6. Writers
  BY <1>2, <1>3, <1>4 DEF Init, Writers
<1>7. Ownership
  BY <1>2, <1>4 DEF Init, Ownership
<1>8. Takes
  BY <1>2, <1>3, <1>4 DEF Init, Takes
<1>9. Failures
  BY <1>2 DEF Init, Failures
<1>10. Order
  BY <1>4 DEF Init, Order, Follows
<1>11. Cookies
  BY <1>3, <1>4 DEF Init, Cookies
<1>12. Flow
  BY <1>2 DEF Init, Flow, Stream, Later
<1>13. Readers
  BY <1>3, <1>4 DEF Init, Readers, Sorted, Distinct
<1>14. Duty
  BY <1>4 DEF Duty
<1> QED BY <1>1, <1>5, <1>6, <1>7, <1>8, <1>9, <1>10, <1>11, <1>12, <1>13, <1>14 DEF IInv, Socket

\* The steps of a thread keep the invariant.
LEMMA ThreadKeeps ==
    ASSUME OneOwner, IInv, NEW t \in Threads, ThreadStep(t)
    PROVE  IInv'
<1>1. Base /\ Socket /\ Failures /\ Order /\ Cookies /\ Flow /\ Readers /\ Duty
  BY DEF IInv
<1>2. Base'
  BY <1>1, StepTypes
<1>3. Counters'
  BY <1>1, CountersNext
<1>4. Writers'
  BY <1>1, WritersNext
<1>5. Ownership'
  BY <1>1, OwnershipNext
<1>6. Takes'
  BY <1>1, TakesNext
<1>7. Failures'
  BY <1>1, FailuresNext
<1>8. Order'
  BY <1>1, OrderNext
<1>9. Cookies'
  BY <1>1, CookiesNext
<1>10. Flow'
  BY <1>1, FlowNext
<1>11. Readers'
  BY <1>1, ReadersNext
<1>12. Duty'
  BY <1>1, <1>3, <1>11, DutyNext
<1> QED BY <1>2, <1>3, <1>4, <1>5, <1>6, <1>7, <1>8, <1>9, <1>10, <1>11, <1>12 DEF IInv, Socket

\* Every step keeps the invariant, and so it holds always.
LEMMA StepKeeps ==
    ASSUME OneOwner, IInv, [Next]_vars
    PROVE  IInv'
<1>1. Base /\ Ready
  BY ReadyIs DEF IInv
<1>2. CASE Next
  <2>1. (\E t \in Threads : ThreadStep(t)) \/ Server
    BY <1>1, <1>2, StepIs
  <2> QED BY <2>1, ThreadKeeps, ServerKeeps
<1>3. CASE UNCHANGED vars
  BY <1>1, <1>3, StutterIs, ServerKeeps
<1> QED BY <1>2, <1>3

LEMMA AlwaysIInv ==
    ASSUME OneOwner
    PROVE  Spec => []IInv
<1>1. Init => IInv
  BY InitIs
<1>2. IInv /\ [Next]_vars => IInv'
  BY StepKeeps
<1> QED BY <1>1, <1>2, PTL DEF Spec

-----------------------------------------------------------------------------
(* What holds of every state                                               *)

\* The state is always of the shape that TypeOK gives.
THEOREM TypesHold ==
    ASSUME OneOwner
    PROVE  Spec => []TypeOK
<1>1. IInv => TypeOK
  <2> SUFFICES ASSUME IInv
               PROVE  TypeOK
    OBVIOUS
  <2>1. Base /\ Counters /\ Writers /\ Order /\ Cookies /\ Flow
    BY DEF IInv, Socket
  <2>2. /\ Types /\ in \in InRecords /\ out \in OutRecords /\ net \in NetRecords
        /\ \A t \in Threads : th[t] \in ThreadRecords
        /\ \A t \in Threads : Control(t)
    BY <2>1, TypesAre DEF Base
  <2>3. \A t \in Threads : Now(t) = "end" <=> th[t].stack = <<>>
    <3>1. \A t \in Threads : Valid(th[t].stack)
      BY <2>2 DEF Control
    <3> QED BY <3>1, PlacesAre
  <2>4. lock \in Threads \cup {NoThread}
    BY <2>2 DEF Types
  <2>5. lock # NoThread => th[lock].stack # <<>> /\ th[lock].wait = "run"
    BY <2>2, <2>3, <2>4 DEF Control
  <2>6. \A t \in Threads :
          /\ th[t].wait \in {"run", "poll", "callback", "reader", "event", "out", "socket"}
          /\ th[t].revents \subseteq {"in", "out", "hup"}
    BY <2>2 DEF ThreadRecords, Waits
  <2>7. \A t \in Threads : th[t].cookies \subseteq 1 .. out.request
    BY <2>1 DEF Cookies
  <2>8. \A t \in Threads : th[t].vec # <<>> => th[t].stack # <<>>
    BY <2>2, <2>3 DEF Control
  <2>9. in.reading \in 0 .. 2 /\ out.writing \in 0 .. 1
    BY <2>1 DEF Counters
  <2>10. /\ in.read \in Nat /\ in.completed \in Nat /\ net.served \in Nat /\ out.request \in Nat
         /\ Len(net.socket) \in Nat
    BY <2>2 DEF InRecords, OutRecords, NetRecords
  <2>11. in.read <= out.request /\ in.completed <= out.request
    BY <2>1, <2>10 DEF Flow, Order
  <2>12. /\ in.completed \in {in.read - 1, in.read} \/ in.completed = 0
         /\ in.expected <= out.request
    BY <2>1 DEF Flow
  <2>13. out.written <= out.request /\ Len(log) = out.request
    BY <2>1 DEF Writers, Order
  <2>14. out.owns \subseteq Threads
    BY <2>2 DEF OutRecords
  <2> QED BY <2>4, <2>5, <2>6, <2>7, <2>8, <2>9, <2>11, <2>12, <2>13, <2>14 DEF TypeOK
<1> QED BY <1>1, AlwaysIInv, PTL

\* What was written and what follows it are together all the requests.
LEMMA WholeOrder ==
    ASSUME NEW s \in Seq(Nat), NEW q \in Seq(Nat), NEW n \in Nat, Follows(q, Len(s), n),
           \A i \in 1 .. Len(s) : s[i] = i
    PROVE  s \o q = [i \in 1 .. n |-> i]
<1> DEFINE r == [i \in 1 .. n |-> i]
<1>1. r \in Seq(Nat) /\ Len(r) = n /\ \A i \in 1 .. n : r[i] = i
  OBVIOUS
<1>2. /\ s \o q \in Seq(Nat) /\ Len(s \o q) = Len(s) + Len(q)
      /\ \A i \in 1 .. Len(s) + Len(q) : (s \o q)[i] = IF i <= Len(s) THEN s[i] ELSE q[i - Len(s)]
  BY ConcatProperties
<1>3. Len(s) \in Nat /\ Len(q) \in Nat /\ Len(q) = n - Len(s)
  BY DEF Follows
<1>4. ASSUME NEW i \in 1 .. Len(s \o q)
      PROVE  (s \o q)[i] = r[i]
  <2>1. i \in 1 .. n /\ i \in 1 .. Len(s) + Len(q)
    BY <1>2, <1>3
  <2>2. CASE i <= Len(s)
    <3>1. i \in 1 .. Len(s)
      BY <1>3, <2>1, <2>2
    <3> QED BY <1>1, <1>2, <2>1, <2>2, <3>1
  <2>3. CASE ~(i <= Len(s))
    <3>3. i - Len(s) \in 1 .. Len(q) /\ i = Len(s) + (i - Len(s))
      BY <1>3, <2>1, <2>3
    <3>1. PICK j \in 1 .. Len(q) : j = i - Len(s)
      BY <3>3
    <3>2. q[j] = Len(s) + j
      BY <3>1 DEF Follows
    <3> QED BY <1>1, <1>2, <1>3, <2>1, <2>3, <3>1, <3>2
  <2> QED BY <2>2, <2>3
<1>5. Len(s \o q) = Len(r)
  BY <1>1, <1>2, <1>3
<1> HIDE DEF r
<1>6. s \o q = r
  BY <1>1, <1>2, <1>4, <1>5, SeqEqual
<1> QED BY <1>6 DEF r

\* Requests are sent in the order of their numbers, each once, whoever writes.
THEOREM RequestsInOrder ==
    ASSUME OneOwner
    PROVE  Spec => []InOrder
<1>1. IInv => InOrder
  <2> DEFINE writing == {t \in Threads : th[t].vec # <<>>}
             vec == IF writing = {} THEN <<>> ELSE th[CHOOSE t \in writing : TRUE].vec
  <2> SUFFICES ASSUME IInv, ~net.error
               PROVE  /\ Cardinality(writing) <= 1
                      /\ net.socket \o vec \o out.queue = [n \in 1 .. out.request |-> n]
    BY DEF InOrder
  <2>1. Base /\ Counters /\ Writers /\ Order
    BY DEF IInv, Socket
  <2>2. /\ net.socket \in Seq(Nat) /\ out.queue \in Seq(Nat) /\ out.request \in Nat
        /\ \A t \in Threads : th[t].vec \in Seq(Nat)
    <3>1. out \in OutRecords /\ net \in NetRecords /\ \A t \in Threads : th[t] \in ThreadRecords
      BY <2>1, TypesAre
    <3> QED BY <3>1 DEF OutRecords, NetRecords, ThreadRecords
  <2>3. \A i \in 1 .. Len(net.socket) : net.socket[i] = i
    BY <2>1 DEF Order
  <2>4. CASE writing = {}
    <3>1. Cardinality(writing) = 0
      BY <2>4, FS_EmptySet
    <3>2. Follows(out.queue, Len(net.socket), out.request)
      BY <2>1, <2>4 DEF Order
    <3>3. net.socket \o out.queue = [n \in 1 .. out.request |-> n]
      BY <2>2, <2>3, <3>2, WholeOrder
    <3>4. net.socket \o <<>> = net.socket
      BY <2>2, ConcatEmptySeq
    <3>5. vec = <<>>
      BY <2>4
    <3> HIDE DEF writing, vec
    <3>6. net.socket \o vec = net.socket
      BY <3>4, <3>5
    <3>7. net.socket \o vec \o out.queue = [n \in 1 .. out.request |-> n]
      BY <3>3, <3>6, Zenon
    <3>8. Cardinality(writing) <= 1
      BY <3>1
    <3> QED BY <3>7, <3>8
  <2>5. CASE writing # {}
    <3>1. PICK t \in Threads : th[t].vec # <<>>
      BY <2>5
    <3>2. \A u \in Threads : th[u].vec # <<>> => u = t
      BY <2>1, <3>1 DEF Writers, Counters
    <3>3. writing = {t}
      BY <3>1, <3>2
    <3>4. Cardinality(writing) = 1
      BY <3>3, FS_Singleton
    <3>5. vec = th[t].vec
      BY <3>3
    <3>6. out.queue = <<>>
      BY <2>1, <3>1 DEF Writers
    <3>7. Follows(th[t].vec, Len(net.socket), out.request)
      BY <2>1, <3>1 DEF Order
    <3>8. net.socket \o th[t].vec = [n \in 1 .. out.request |-> n]
      BY <2>2, <2>3, <3>7, WholeOrder
    <3>9. (net.socket \o th[t].vec) \o <<>> = net.socket \o th[t].vec
      <4>1. net.socket \o th[t].vec \in Seq(Nat)
        BY <2>2, ConcatProperties
      <4> QED BY <4>1, ConcatEmptySeq
    <3> HIDE DEF writing, vec
    <3> QED BY <3>4, <3>5, <3>6, <3>8, <3>9
  <2> QED BY <2>4, <2>5
<1> QED BY <1>1, AlwaysIInv, PTL

\* The cookies that a thread holds are those of requests it made itself.
THEOREM CookiesHold ==
    ASSUME OneOwner
    PROVE  Spec => []CookiesAreOwn
<1>1. IInv => CookiesAreOwn
  BY DEF IInv, Cookies, CookiesAreOwn
<1> QED BY <1>1, AlwaysIInv, PTL

\* While another library owns the socket, nobody else has requests to write.
THEOREM OwnerHolds ==
    ASSUME OneOwner
    PROVE  Spec => []OwnerIsAlone
<1>1. IInv => OwnerIsAlone
  BY DEF IInv, Socket, Ownership, OwnerIsAlone
<1> QED BY <1>1, AlwaysIInv, PTL

\* While a thread waits to be told of a packet, another one reads or is on its
\* way to read or to tell.
THEOREM SomebodyAlwaysReads ==
    ASSUME OneOwner
    PROVE  Spec => []SomebodyReads
<1>1. IInv => SomebodyReads
  <2> SUFFICES ASSUME IInv, \E t \in Threads : th[t].wait \in {"reader", "event"}
               PROVE  \E t \in Threads : \/ th[t].wait = "poll"
                                         \/ th[t].stack # <<>> /\ th[t].wait = "run"
    BY DEF SomebodyReads
  <2>1. PICK t \in Threads : WillWake(t)
    BY DEF IInv, Duty
  <2>2. Now(t) # "end"
    BY <2>1 DEF WillWake, SendsOut, Writing, Attending, ReadingOn, Tops
  <2>3. Valid(th[t].stack)
    BY TypesAre DEF IInv
  <2>4. th[t].stack # <<>>
    BY <2>2, <2>3, PlacesAre
  <2> QED BY <2>1, <2>4 DEF WillWake
<1> QED BY <1>1, AlwaysIInv, PTL

-----------------------------------------------------------------------------
(* The invariant: an answer is told from its short number                  *)

\* Requests that have a reply, and those whose answers are kept for a caller.
Replied(l, n) == l[n].kind \in {"query", "sync"}
Kept(l, n)    == n \in 1 .. Len(l) /\ l[n].kind \in {"query", "check"}

\* Every element of q is one of p.
Part(q, p) == \A i \in 1 .. Len(q) : \E j \in 1 .. Len(p) : q[i] = p[j]

\* A packet of q is about request n.
About(q, n) == \E i \in 1 .. Len(q) : q[i].of = n

\* Of the requests of l, the server has answered s; p and q hold the packets that
\* were not taken apart.  One about n is there, or is certain to be sent.
Coming(l, p, q, s, n) ==
    \/ About(p, n) \/ About(q, n)
    \/ s < n /\ n <= Len(l) /\ Replied(l, n)

\* After request n fewer than Wire requests follow, or a packet about one of the
\* next Wire - 1 is to come: none of the short numbers is taken for one of a
\* later round.
Spaced(l, p, q, s, n) ==
    \/ Len(l) <= n + Wire - 2
    \/ \E m \in 1 .. Len(l) : n < m /\ m < n + Wire /\ Coming(l, p, q, s, m)

\* From the request read last on, requests are spaced like this; in.expected is
\* one that has a packet to come, unless it was read.
Paced(l, p, q, s, read, expected) ==
    /\ \A n \in read .. Len(l) : Spaced(l, p, q, s, n)
    /\ expected <= read \/ Coming(l, p, q, s, expected)
    /\ Len(l) <= expected + Wire - 2 /\ expected <= Len(l)

\* More packets are to come than before, as far as they are about requests after read.
ComesToo(l, p, q, s, p2, q2, s2, read) ==
    \A m \in 1 .. Len(l) : read < m /\ Coming(l, p, q, s, m) => Coming(l, p2, q2, s2, m)

LEMMA PacedKept ==
    ASSUME NEW l, NEW p, NEW q, NEW s, NEW p2, NEW q2, NEW s2, NEW read \in Nat, NEW read2 \in Nat,
           NEW e \in Nat, NEW e2 \in Nat, Len(l) \in Nat, Wire \in Nat, Wire > 2,
           Paced(l, p, q, s, read, e), read <= read2, ComesToo(l, p, q, s, p2, q2, s2, read2),
           read2 <= Len(l), e2 = IF read2 > e THEN read2 ELSE e
    PROVE  Paced(l, p2, q2, s2, read2, e2)
<1>1. ASSUME NEW n \in read2 .. Len(l)
      PROVE  Spaced(l, p2, q2, s2, n)
  <2>1. n \in read .. Len(l) /\ n \in Nat
    OBVIOUS
  <2>2. Spaced(l, p, q, s, n)
    BY <2>1 DEF Paced
  <2>3. ASSUME NEW m \in 1 .. Len(l), n < m, m < n + Wire, Coming(l, p, q, s, m)
        PROVE  Spaced(l, p2, q2, s2, n)
    <3>1. read2 < m
      BY <2>1, <2>3
    <3>2. Coming(l, p2, q2, s2, m)
      BY <2>3, <3>1 DEF ComesToo
    <3> QED BY <2>3, <3>2 DEF Spaced
  <2> QED BY <2>2, <2>3 DEF Spaced
<1>2. e2 <= read2 \/ Coming(l, p2, q2, s2, e2)
  <2>1. CASE e <= read2
    BY <2>1
  <2>2. CASE e > read2
    <3>1. e2 = e /\ ~(e <= read) /\ e \in 1 .. Len(l)
      BY <2>2 DEF Paced
    <3>2. Coming(l, p, q, s, e)
      BY <3>1 DEF Paced
    <3>3. Coming(l, p2, q2, s2, e)
      BY <2>2, <3>1, <3>2 DEF ComesToo
    <3> QED BY <3>1, <3>3
  <2> QED BY <2>1, <2>2
<1>3. Len(l) <= e2 + Wire - 2 /\ e2 <= Len(l)
  BY DEF Paced
<1> QED BY <1>1, <1>2, <1>3 DEF Paced

\* Nothing was read, and the same packets are to come.
LEMMA PacedMoved ==
    ASSUME NEW l, NEW p, NEW q, NEW s, NEW p2, NEW q2, NEW s2, NEW read \in Nat, NEW e \in Nat,
           Len(l) \in Nat, Wire \in Nat, Wire > 2,
           Paced(l, p, q, s, read, e), ComesToo(l, p, q, s, p2, q2, s2, read)
    PROVE  Paced(l, p2, q2, s2, read, e)
<1>1. ASSUME NEW n \in read .. Len(l)
      PROVE  Spaced(l, p2, q2, s2, n)
  <2>1. Spaced(l, p, q, s, n)
    BY DEF Paced
  <2>2. ASSUME NEW m \in 1 .. Len(l), n < m, m < n + Wire, Coming(l, p, q, s, m)
        PROVE  Spaced(l, p2, q2, s2, n)
    <3>1. Coming(l, p2, q2, s2, m)
      BY <2>2 DEF ComesToo
    <3> QED BY <2>2, <3>1 DEF Spaced
  <2> QED BY <2>1, <2>2 DEF Spaced
<1>2. e <= read \/ Coming(l, p2, q2, s2, e)
  <2>1. CASE e > read
    <3>1. e \in 1 .. Len(l) /\ Coming(l, p, q, s, e)
      BY <2>1 DEF Paced
    <3> QED BY <2>1, <3>1 DEF ComesToo
  <2> QED BY <2>1
<1> QED BY <1>1, <1>2 DEF Paced

\* A request more, before which one with a reply was sent if it was time.
LEMMA PacedNumbered ==
    ASSUME NEW l \in Seq(LogRecords), NEW p, NEW q, NEW s \in Nat, NEW read \in Nat, NEW e \in Nat,
           Wire \in Nat, Wire > 2, s <= Len(l), Paced(l, p, q, s, read, e),
           NEW k, NEW t, NEW l2, l2 = Append(l, [kind |-> k, by |-> t]), NEW e2,
           \/ k \in {"query", "sync"} /\ e2 = Len(l) + 1
           \/ k \notin {"query", "sync"} /\ e2 = e /\ Len(l) # e + Wire - 2
    PROVE  Paced(l2, p, q, s, read, e2)
<1>1. /\ Len(l) \in Nat /\ Len(l2) = Len(l) + 1 /\ \A i \in 1 .. Len(l) : l2[i] = l[i]
      /\ l2[Len(l) + 1] = [kind |-> k, by |-> t]
  OBVIOUS
<1>2. ASSUME NEW m \in 1 .. Len(l), Coming(l, p, q, s, m)
      PROVE  Coming(l2, p, q, s, m)
  BY <1>1, <1>2 DEF Coming, Replied
<1>3. PICK x \in Nat : x = Len(l) + 1
  BY <1>1
<1>4. Len(l2) = x /\ l2[x].kind = k
  BY <1>1, <1>3
<1>5. CASE k \in {"query", "sync"}
  <2>1. Coming(l2, p, q, s, x)
    BY <1>1, <1>3, <1>4, <1>5 DEF Coming, Replied
  <2>2. ASSUME NEW n \in read .. x
        PROVE  Spaced(l2, p, q, s, n)
    <3>1. CASE n = x
      BY <1>4, <3>1 DEF Spaced
    <3>2. CASE n # x
      <4>1. n \in read .. Len(l) /\ n \in Nat
        BY <1>1, <1>3, <3>2
      <4>2. Spaced(l, p, q, s, n)
        BY <4>1 DEF Paced
      <4>3. CASE Len(l) <= n + Wire - 2
        <5>1. n < x /\ x < n + Wire /\ x \in 1 .. x
          BY <1>1, <1>3, <4>1, <4>3
        <5> QED BY <1>4, <2>1, <5>1 DEF Spaced
      <4>4. ASSUME NEW m \in 1 .. Len(l), n < m, m < n + Wire, Coming(l, p, q, s, m)
            PROVE  Spaced(l2, p, q, s, n)
        <5>1. m \in 1 .. x /\ Coming(l2, p, q, s, m)
          BY <1>1, <1>2, <1>3, <4>4
        <5> QED BY <1>4, <4>4, <5>1 DEF Spaced
      <4> QED BY <4>2, <4>3, <4>4 DEF Spaced
    <3> QED BY <3>1, <3>2
  <2>3. x <= x + Wire - 2 /\ x <= x
    OBVIOUS
  <2>4. e2 = x
    BY <1>3, <1>5
  <2> QED BY <1>4, <2>1, <2>2, <2>3, <2>4 DEF Paced
<1>6. CASE k \notin {"query", "sync"}
  <2>1. e2 = e /\ x <= e + Wire - 2 /\ e <= Len(l)
    BY <1>1, <1>3, <1>6 DEF Paced
  <2>2. e <= read \/ Coming(l2, p, q, s, e)
    <3>1. CASE e <= read
      BY <3>1
    <3>2. CASE ~(e <= read)
      <4>1. e \in 1 .. Len(l) /\ Coming(l, p, q, s, e)
        BY <1>1, <2>1, <3>2 DEF Paced
      <4> QED BY <1>2, <4>1
    <3> QED BY <3>1, <3>2
  <2>3. ASSUME NEW n \in read .. x
        PROVE  Spaced(l2, p, q, s, n)
    <3>1. CASE e <= n
      <4>1. x <= n + Wire - 2
        BY <1>3, <2>1, <3>1
      <4> QED BY <1>4, <4>1 DEF Spaced
    <3>2. CASE ~(e <= n)
      <4>1. n \in read .. Len(l) /\ n \in Nat /\ e \in 1 .. Len(l) /\ ~(e <= read)
        BY <1>1, <1>3, <2>1, <3>2
      <4>2. Spaced(l, p, q, s, n)
        BY <4>1 DEF Paced
      <4>3. CASE Len(l) <= n + Wire - 2
        <5>1. n < e /\ e < n + Wire /\ e \in 1 .. x
          BY <1>1, <1>3, <3>2, <4>1, <4>3
        <5>2. Coming(l2, p, q, s, e)
          BY <2>2, <4>1
        <5> QED BY <1>4, <5>1, <5>2 DEF Spaced
      <4>4. ASSUME NEW m \in 1 .. Len(l), n < m, m < n + Wire, Coming(l, p, q, s, m)
            PROVE  Spaced(l2, p, q, s, n)
        <5>1. m \in 1 .. x /\ Coming(l2, p, q, s, m)
          BY <1>1, <1>2, <1>3, <4>4
        <5> QED BY <1>4, <4>4, <5>1 DEF Spaced
      <4> QED BY <4>2, <4>3, <4>4 DEF Spaced
    <3> QED BY <3>1, <3>2
  <2>4. x <= e + Wire - 2 /\ e <= x
    BY <1>1, <1>3, <2>1
  <2> QED BY <1>4, <2>1, <2>2, <2>3, <2>4 DEF Paced
<1> QED BY <1>5, <1>6

\* A short number is the one of the first request from the last one read on.
LEMMA WidenWithin ==
    ASSUME Wire \in Nat \ {0}, in.read \in Nat, NEW n \in Nat, in.read <= n, n < in.read + Wire
    PROVE  Widen(n % Wire) = n
<1> DEFINE p == in.read \div Wire
           b == in.read % Wire
           q == n \div Wire
           c == n % Wire
<1>1. /\ b \in Nat /\ b < Wire /\ p \in Nat /\ in.read = Wire * p + b
      /\ c \in Nat /\ c < Wire /\ q \in Nat /\ n = Wire * q + c
  BY DivisionIs
<1>2. Widen(c) = IF in.read - b + c < in.read THEN in.read - b + c + Wire ELSE in.read - b + c
  BY DEF Widen
<1> HIDE DEF p, b, q, c
<1>3. Wire * p \in Nat /\ Wire * q \in Nat /\ in.read - b = Wire * p
  BY <1>1
<1>4. Wire * p + b <= Wire * q + c /\ Wire * q + c < Wire * p + b + Wire
  BY <1>1
<1>5. Wire * p + c <= Wire * q + c /\ (c < b => Wire * p + c + Wire <= Wire * q + c)
  BY <1>1, <1>4, Rounds
<1>6. PICK d \in Nat : q = p + d
  <2>1. p <= q
    <3>1. SUFFICES ASSUME q + 1 <= p PROVE FALSE
      BY <1>1
    <3>2. PICK f \in Nat : p = q + 1 + f
      <4>1. p - (q + 1) \in Nat /\ p = q + 1 + (p - (q + 1))
        BY <1>1, <3>1
      <4> QED BY <4>1
    <3>3. Wire * p = Wire * q + Wire + Wire * f /\ Wire * f >= 0
      BY <1>1, <3>2
    <3> QED BY <1>1, <1>3, <1>5, <3>3
  <2>2. q - p \in Nat /\ q = p + (q - p)
    BY <1>1, <2>1
  <2> QED BY <2>2
<1>7. Wire * q = Wire * p + Wire * d /\ Wire * d \in Nat
  BY <1>1, <1>6
<1>8. ASSUME d = 0
      PROVE  Widen(c) = n
  <2>1. Wire * d = 0
    BY <1>8
  <2> QED BY <1>1, <1>2, <1>3, <1>4, <1>5, <1>7, <2>1
<1>9. ASSUME d = 1
      PROVE  Widen(c) = n
  <2>1. Wire * d = Wire
    BY <1>9
  <2>2. c < b
    BY <1>1, <1>3, <1>4, <1>7, <2>1
  <2> QED BY <1>1, <1>2, <1>3, <1>4, <1>7, <2>1, <2>2
<1>10. ASSUME d # 0, d # 1
       PROVE  FALSE
  <2>1. PICK f \in Nat : d = f + 2
    <3>1. d - 2 \in Nat /\ d = (d - 2) + 2
      BY <1>10
    <3> QED BY <3>1
  <2>2. Wire * d = Wire * f + Wire + Wire /\ Wire * f >= 0 /\ Wire * f \in Nat
    BY <2>1
  <2> QED BY <1>1, <1>3, <1>4, <1>7, <2>2
<1>11. Widen(c) = n
  BY <1>8, <1>9, <1>10
<1> QED BY <1>11 DEF c

-----------------------------------------------------------------------------
\* What the list of pending replies says of one request: the answers are kept
\* only if the caller may ask for them.
Entry(l, e) ==
    /\ ~e.external /\ e.last = e.first /\ e.first \in 1 .. Len(l)
    /\ e.discard \/ e.checked
    /\ e.checked => Kept(l, e.first)

\* The entries are in the order of the requests, and one of request n is there.
Ascending(q) == \A i, j \in 1 .. Len(q) : i < j => q[i].first < q[j].first
Listed(q, n) == \E i \in 1 .. Len(q) : q[i].first = n

\* Requests after c have an entry unless they have neither reply nor check.
Noted(l, q, c) ==
    /\ \A i \in 1 .. Len(q) : Entry(l, q[i])
    /\ Ascending(q)
    /\ \A n \in 1 .. Len(l) : c < n /\ l[n].kind # "void" => Listed(q, n)

\* r is q with the element e more, at place z.
Longer(q, e, r, z) ==
    /\ Len(q) \in Nat /\ z \in Nat /\ Len(r) = z /\ z = Len(q) + 1 /\ r[z] = e
    /\ \A i \in 1 .. Len(q) : i \in 1 .. Len(r) /\ r[i] = q[i]
    /\ \A i \in 1 .. Len(r) : i = z \/ i \in 1 .. Len(q)

LEMMA AppendIs ==
    ASSUME NEW X, NEW q \in Seq(X), NEW e \in X, NEW r, r = Append(q, e), NEW z, z = Len(q) + 1
    PROVE  r \in Seq(X) /\ Longer(q, e, r, z)
<1>1. r \in Seq(X) /\ Len(r) = z
  OBVIOUS
<1>2. r[z] = e
  OBVIOUS
<1>3. \A i \in 1 .. Len(q) : r[i] = q[i]
  OBVIOUS
<1>4. Len(q) \in Nat
  OBVIOUS
<1> QED BY <1>1, <1>2, <1>3, <1>4 DEF Longer

LEMMA PendingIs ==
    ASSUME NEW q \in Seq(PendingEntries), NEW i \in 1 .. Len(q)
    PROVE  /\ q[i] \in PendingEntries /\ q[i].first \in Nat /\ q[i].last \in Nat
           /\ q[i].discard \in BOOLEAN /\ q[i].checked \in BOOLEAN /\ q[i].external \in BOOLEAN
<1>1. q[i] \in PendingEntries
  OBVIOUS
<1> QED BY <1>1 DEF PendingEntries

\* What is left of the list when finished entries are dropped.
LEMMA NotedDropped ==
    ASSUME NEW l \in Seq(LogRecords), NEW q \in Seq(PendingEntries), NEW c \in Nat,
           NEW b \in Int, c <= b, Noted(l, q, c), NEW r, r = DropFinished(q, b)
    PROVE  /\ Noted(l, r, b) /\ r \in Seq(PendingEntries)
           /\ r # <<>> => Head(r) = r[1] /\ 1 \in 1 .. Len(r) /\ b < Head(r).first
<1> DEFINE S == {i \in DOMAIN q : ~q[i].external /\ q[i].last <= b}
           k == FrontRun(Len(q), S)
<1>1. Len(q) \in Nat /\ DOMAIN q = 1 .. Len(q)
  OBVIOUS
<1>2. k \in 0 .. Len(q) /\ 1 .. k \subseteq S /\ (k < Len(q) => k + 1 \notin S)
  <2> HIDE DEF S
  <2> QED BY <1>1, FrontRunIs
<1>3. r = SubSeq(q, 1 + k, Len(q)) /\ 1 + k = k + 1
  BY <1>2 DEF DropFinished
<1>4. \A i \in 1 .. k : i \in 1 .. Len(q) /\ q[i].last <= b
  BY <1>1, <1>2
<1>5. \A i \in 1 .. Len(q) : i = k + 1 => ~(~q[i].external /\ q[i].last <= b)
  BY <1>1, <1>2
<1> HIDE DEF k
<1>6. /\ r \in Seq(PendingEntries) /\ Len(r) = Len(q) - k
      /\ \A i \in 1 .. (Len(q) - k) : r[i] = q[k + i]
  BY <1>2, <1>3, DropIs
<1>7. \A i \in 1 .. Len(r) : k + i \in 1 .. Len(q) /\ r[i] = q[k + i]
  BY <1>1, <1>2, <1>6
<1>8. \A i \in 1 .. Len(r) : Entry(l, r[i])
  BY <1>7 DEF Noted
<1>9. Ascending(r)
  <2> SUFFICES ASSUME NEW i \in 1 .. Len(r), NEW j \in 1 .. Len(r), i < j
               PROVE  r[i].first < r[j].first
    BY DEF Ascending
  <2>1. PICK x \in 1 .. Len(q), y \in 1 .. Len(q) : x < y /\ r[i] = q[x] /\ r[j] = q[y]
    BY <1>2, <1>7
  <2> QED BY <2>1 DEF Noted, Ascending
<1>10. ASSUME NEW n \in 1 .. Len(l), b < n, l[n].kind # "void"
       PROVE  Listed(r, n)
  <2>1. c < n
    BY <1>10
  <2>2. PICK i \in 1 .. Len(q) : q[i].first = n
    BY <1>10, <2>1 DEF Noted, Listed
  <2>3. q[i].last = n
    BY <2>2 DEF Noted, Entry
  <2>4. ~(i \in 1 .. k)
    BY <1>4, <1>10, <2>3
  <2>5. i - k \in 1 .. Len(r) /\ k + (i - k) = i
    BY <1>1, <1>2, <1>6, <2>4
  <2>6. r[i - k] = q[i]
    BY <1>7, <2>5
  <2> QED BY <2>2, <2>5, <2>6 DEF Listed
<1>11. ASSUME r # <<>>
       PROVE  Head(r) = r[1] /\ 1 \in 1 .. Len(r) /\ b < Head(r).first
  <2>1. Len(r) \in Nat /\ Len(r) # 0 /\ Head(r) = r[1]
    BY <1>6, <1>11
  <2>2. 1 \in 1 .. Len(r)
    BY <2>1
  <2>3. PICK x \in 1 .. Len(q) : x = k + 1 /\ r[1] = q[x]
    BY <1>7, <2>2
  <2>4. ~(~q[x].external /\ q[x].last <= b)
    BY <1>5, <2>3
  <2>5. ~q[x].external /\ q[x].last = q[x].first /\ q[x].first \in Nat
    BY PendingIs DEF Noted, Entry
  <2>6. b < q[x].first
    BY <2>4, <2>5
  <2> QED BY <2>1, <2>2, <2>3, <2>6
<1> QED BY <1>6, <1>8, <1>9, <1>10, <1>11 DEF Noted

\* The first entry that is left is that of the next request, if this has one.
LEMMA NotedNext ==
    ASSUME NEW l \in Seq(LogRecords), NEW q \in Seq(PendingEntries), NEW b \in Int, NEW n, n = b + 1,
           n \in 1 .. Len(l), Noted(l, q, b),
           q # <<>> => Head(q) = q[1] /\ 1 \in 1 .. Len(q) /\ b < Head(q).first
    PROVE  /\ l[n].kind # "void" => q # <<>> /\ Matches(Head(q), n)
           /\ q # <<>> /\ Matches(Head(q), n) => Entry(l, Head(q)) /\ Head(q).first = n
<1>1. ASSUME l[n].kind # "void"
      PROVE  q # <<>> /\ Matches(Head(q), n)
  <2>1. PICK i \in 1 .. Len(q) : q[i].first = n
    BY <1>1 DEF Noted, Listed
  <2>2. q # <<>>
    <3>1. ASSUME q = <<>> PROVE FALSE
      <4>1. Len(q) = 0
        BY <3>1, EmptyIs
      <4> QED BY <4>1
    <3> QED BY <3>1
  <2>3. Head(q) = q[1] /\ 1 \in 1 .. Len(q) /\ b < Head(q).first
    BY <2>2
  <2>4. Entry(l, q[1]) /\ q[1].first \in Nat
    BY <2>3, PendingIs DEF Noted
  <2>5. i = 1
    <3>1. ASSUME 1 < i PROVE FALSE
      <4>1. q[1].first < q[i].first
        BY <2>3, <3>1 DEF Noted, Ascending
      <4> QED BY <2>1, <2>3, <2>4, <4>1
    <3> QED BY <3>1
  <2> QED BY <2>1, <2>2, <2>3, <2>4, <2>5 DEF Matches, Entry
<1>2. ASSUME q # <<>>, Matches(Head(q), n)
      PROVE  Entry(l, Head(q)) /\ Head(q).first = n
  <2>1. Head(q) = q[1] /\ 1 \in 1 .. Len(q) /\ b < Head(q).first
    BY <1>2
  <2>2. Entry(l, q[1]) /\ q[1].first \in Nat
    BY <2>1, PendingIs DEF Noted
  <2>3. q[1].first <= n
    BY <1>2, <2>1 DEF Matches
  <2> QED BY <2>1, <2>2, <2>3
<1> QED BY <1>1, <1>2

\* A later number is read.
LEMMA NotedLater ==
    ASSUME NEW l \in Seq(LogRecords), NEW q, NEW b \in Int, NEW c \in Int, b <= c, Noted(l, q, b)
    PROVE  Noted(l, q, c)
<1>1. \A n \in 1 .. Len(l) : c < n => b < n
  OBVIOUS
<1> QED BY <1>1 DEF Noted

\* A request more, with its entry.
Listing(q, q2, k, n) ==
    q2 = IF k = "void" THEN q ELSE Append(q, Expect(n, k = "sync", k # "sync", FALSE))

LEMMA NotedNumbered ==
    ASSUME NEW l \in Seq(LogRecords), NEW q \in Seq(PendingEntries), NEW c \in Nat, Noted(l, q, c),
           NEW k, NEW t, NEW l2, l2 = Append(l, [kind |-> k, by |-> t]), k \in {"void", "check", "query", "sync"},
           NEW n \in Nat, n = Len(l) + 1,
           NEW q2, Listing(q, q2, k, n)
    PROVE  Noted(l2, q2, c)
<1>1. /\ Len(l) \in Nat /\ Len(l2) = n /\ \A i \in 1 .. Len(l) : l2[i] = l[i]
      /\ l2[Len(l) + 1] = [kind |-> k, by |-> t]
  OBVIOUS
<1>2. l2[n].kind = k
  BY <1>1
<1>3. ASSUME NEW e, Entry(l, e)
      PROVE  Entry(l2, e) /\ e.first < n
  <2>1. e.first \in 1 .. Len(l) /\ e.first < n /\ e.first \in 1 .. Len(l2) /\ l2[e.first] = l[e.first]
    BY <1>1, <1>3 DEF Entry
  <2> QED BY <1>3, <2>1 DEF Entry, Kept
<1>4. CASE k = "void"
  <2>1. q2 = q
    BY <1>4 DEF Listing
  <2>2. \A i \in 1 .. Len(q) : Entry(l2, q[i])
    BY <1>3 DEF Noted
  <2>3. ASSUME NEW m \in 1 .. n, c < m, l2[m].kind # "void"
        PROVE  Listed(q, m)
    <3>1. m # n /\ m \in 1 .. Len(l)
      BY <1>1, <1>2, <1>4, <2>3
    <3> QED BY <1>1, <2>3, <3>1 DEF Noted
  <2> QED BY <1>1, <2>1, <2>2, <2>3 DEF Noted
<1>5. CASE k # "void"
  <2> DEFINE e == Expect(n, k = "sync", k # "sync", FALSE)
  <2>1. /\ ~e.external /\ e.last = n /\ e.first = n /\ (e.discard <=> k = "sync") /\ (e.checked <=> k # "sync")
    BY DEF Expect
  <2>2. Entry(l2, e)
    <3>1. n \in 1 .. Len(l2)
      BY <1>1
    <3> HIDE DEF e
    <3> QED BY <1>2, <1>5, <2>1, <3>1 DEF Entry, Kept
  <2>3. q2 = Append(q, e)
    BY <1>5 DEF Listing
  <2>10. e \in PendingEntries
    <3>1. (k = "sync") \in BOOLEAN /\ (k # "sync") \in BOOLEAN /\ FALSE \in BOOLEAN
      OBVIOUS
    <3> QED BY <3>1, ExpectType
  <2> HIDE DEF e
  <2> DEFINE z == Len(q) + 1
  <2>11. z = Len(q) + 1
    OBVIOUS
  <2> HIDE DEF z
  <2>12. Longer(q, e, q2, z)
    BY <2>3, <2>10, <2>11, AppendIs
  <2>4. /\ Len(q) \in Nat /\ Len(q2) = z /\ z \in 1 .. Len(q2) /\ q2[z] = e
        /\ \A i \in 1 .. Len(q) : i \in 1 .. Len(q2) /\ q2[i] = q[i]
        /\ \A i \in 1 .. Len(q2) : i = z \/ i \in 1 .. Len(q)
    <3>1. Len(q) \in Nat /\ Len(q2) = z /\ z = Len(q) + 1 /\ q2[z] = e
      BY <2>12 DEF Longer
    <3>2. \A i \in 1 .. Len(q) : i \in 1 .. Len(q2) /\ q2[i] = q[i]
      BY <2>12 DEF Longer
    <3>3. \A i \in 1 .. Len(q2) : i = z \/ i \in 1 .. Len(q)
      BY <2>12 DEF Longer
    <3>4. z \in 1 .. Len(q2)
      BY <3>1
    <3> QED BY <3>1, <3>2, <3>3, <3>4
  <2>5. \A i \in 1 .. Len(q2) : i \in 1 .. Len(q) \/ (i = z /\ q2[i] = e)
    BY <2>4
  <2>6. \A i \in 1 .. Len(q) : Entry(l2, q2[i]) /\ q2[i].first < n
    BY <1>3, <2>4 DEF Noted
  <2>7. \A i \in 1 .. Len(q2) : Entry(l2, q2[i])
    BY <2>2, <2>5, <2>6
  <2>8. Ascending(q2)
    <3> SUFFICES ASSUME NEW i \in 1 .. Len(q2), NEW j \in 1 .. Len(q2), i < j
                 PROVE  q2[i].first < q2[j].first
      BY DEF Ascending
    <3>1. i \in 1 .. Len(q)
      BY <2>4, <2>11
    <3>2. CASE j \in 1 .. Len(q)
      BY <2>4, <3>1, <3>2 DEF Noted, Ascending
    <3>3. CASE ~(j \in 1 .. Len(q))
      BY <2>1, <2>5, <2>6, <3>1, <3>3
    <3> QED BY <3>2, <3>3
  <2>9. ASSUME NEW m \in 1 .. n, c < m, l2[m].kind # "void"
        PROVE  Listed(q2, m)
    <3>1. CASE m = n
      <4> QED BY <2>1, <2>4, <3>1 DEF Listed
    <3>2. CASE m # n
      <4>1. m \in 1 .. Len(l) /\ l[m].kind # "void"
        BY <1>1, <2>9, <3>2
      <4>2. PICK i \in 1 .. Len(q) : q[i].first = m
        BY <2>9, <4>1 DEF Noted, Listed
      <4>3. i \in 1 .. Len(q2) /\ q2[i] = q[i]
        BY <2>4
      <4> QED BY <4>2, <4>3 DEF Listed
    <3> QED BY <3>1, <3>2
  <2> QED BY <1>1, <2>7, <2>8, <2>9 DEF Noted
<1> QED BY <1>4, <1>5

\* The entry of a request whose reply is not wanted is marked,
LEMMA NotedMarked ==
    ASSUME NEW l \in Seq(LogRecords), NEW q \in Seq(PendingEntries), NEW c \in Nat, Noted(l, q, c),
           NEW k \in 1 .. Len(q), NEW q2, q2 = [q EXCEPT ![k].discard = TRUE]
    PROVE  Noted(l, q2, c)
<1>1. Len(q2) = Len(q)
  OBVIOUS
<1>2. \A i \in 1 .. Len(q) : i # k => q2[i] = q[i]
  OBVIOUS
<1>3. q[k] \in PendingEntries /\ q2[k] = [q[k] EXCEPT !.discard = TRUE]
  <2>1. q[k] \in PendingEntries
    BY PendingIs
  <2>2. DOMAIN q = 1 .. Len(q)
    OBVIOUS
  <2>3. q2[k] = [q[k] EXCEPT !.discard = TRUE]
    BY <2>2
  <2> QED BY <2>1, <2>3
<1>4. /\ q2[k].first = q[k].first /\ q2[k].last = q[k].last /\ q2[k].external = q[k].external
      /\ q2[k].checked = q[k].checked /\ q2[k].discard = TRUE
  BY <1>3 DEF PendingEntries
<1>5. \A i \in 1 .. Len(q) : q2[i].first = q[i].first
  BY <1>2, <1>4
<1>6. ASSUME NEW i \in 1 .. Len(q)
      PROVE  Entry(l, q2[i])
  <2>1. Entry(l, q[i])
    BY DEF Noted
  <2>2. CASE i = k
    BY <1>4, <2>1, <2>2 DEF Entry
  <2>3. CASE i # k
    BY <1>2, <2>1, <2>3
  <2> QED BY <2>2, <2>3
<1>7. Ascending(q2)
  BY <1>1, <1>5 DEF Noted, Ascending
<1>8. \A n : Listed(q, n) => Listed(q2, n)
  BY <1>1, <1>5 DEF Listed
<1> HIDE DEF Noted
<1>9. \A n \in 1 .. Len(l) : c < n /\ l[n].kind # "void" => Listed(q2, n)
  BY <1>8 DEF Noted
<1> QED BY <1>1, <1>6, <1>7, <1>9 DEF Noted

\* or put at its place.
LEMMA EntryInserted ==
    ASSUME NEW l \in Seq(LogRecords), NEW q \in Seq(PendingEntries), NEW c \in Nat, Noted(l, q, c),
           NEW r, NEW k \in 0 .. Len(q), NEW m, m = k + 1, NEW e \in PendingEntries, Entry(l, e),
           Len(r) = Len(q) + 1, \A i \in 1 .. k : r[i] = q[i], r[m] = e,
           \A i \in k + 2 .. Len(q) + 1 : r[i] = q[i - 1],
           \A i \in 1 .. k : q[i].first < e.first,
           m <= Len(q) => e.first < q[m].first
    PROVE  Noted(l, r, c)
<1>1. Len(q) \in Nat /\ k \in Nat /\ k <= Len(q) /\ m \in 1 .. Len(r) /\ e.first \in Nat
  BY DEF PendingEntries
<1>2. \A i \in 1 .. Len(r) : i \in 1 .. k \/ i = m \/ (i \in k + 2 .. Len(q) + 1 /\ i - 1 \in m .. Len(q))
  BY <1>1
<1>3. \A i \in 1 .. Len(q) : q[i].first \in Nat
  BY PendingIs
<1>4. \A i \in m .. Len(q) : e.first < q[i].first
  <2> SUFFICES ASSUME NEW i \in m .. Len(q)
               PROVE  e.first < q[i].first
    OBVIOUS
  <2>1. m <= Len(q) /\ i \in 1 .. Len(q) /\ m \in 1 .. Len(q)
    BY <1>1
  <2>2. i = m \/ q[m].first < q[i].first
    BY <2>1 DEF Noted, Ascending
  <2> QED BY <1>1, <1>3, <2>1, <2>2
<1>5. Ascending(r)
  <2> SUFFICES ASSUME NEW i \in 1 .. Len(r), NEW j \in 1 .. Len(r), i < j
               PROVE  r[i].first < r[j].first
    BY DEF Ascending
  <2>1. CASE j \in 1 .. k
    <3>1. i \in 1 .. k /\ i \in 1 .. Len(q) /\ j \in 1 .. Len(q) /\ r[i] = q[i] /\ r[j] = q[j]
      BY <1>1, <2>1
    <3> QED BY <3>1 DEF Noted, Ascending
  <2>2. CASE j = m
    <3>1. i \in 1 .. k
      BY <1>1, <2>2
    <3> QED BY <2>2, <3>1
  <2>3. CASE j \in k + 2 .. Len(q) + 1 /\ j - 1 \in m .. Len(q)
    <3>1. PICK y \in m .. Len(q) : y = j - 1 /\ r[j] = q[y]
      BY <2>3
    <3>2. CASE i \in 1 .. k
      <4>1. i < y /\ i \in 1 .. Len(q) /\ y \in 1 .. Len(q) /\ r[i] = q[i]
        BY <1>1, <3>1, <3>2
      <4> QED BY <3>1, <4>1 DEF Noted, Ascending
    <3>3. CASE i = m
      BY <1>4, <3>1, <3>3
    <3>4. CASE i \in k + 2 .. Len(q) + 1 /\ i - 1 \in m .. Len(q)
      <4>1. PICK x \in m .. Len(q) : x = i - 1 /\ r[i] = q[x]
        BY <3>4
      <4>2. x < y /\ x \in 1 .. Len(q) /\ y \in 1 .. Len(q)
        BY <1>1, <3>1, <4>1
      <4> QED BY <3>1, <4>1, <4>2 DEF Noted, Ascending
    <3> QED BY <1>2, <3>2, <3>3, <3>4
  <2> QED BY <1>2, <2>1, <2>2, <2>3
<1>6. \A i \in 1 .. Len(r) : Entry(l, r[i])
  <2> SUFFICES ASSUME NEW i \in 1 .. Len(r)
               PROVE  Entry(l, r[i])
    OBVIOUS
  <2>1. CASE i \in 1 .. k
    BY <1>1, <2>1 DEF Noted
  <2>2. CASE i = m
    BY <2>2
  <2>3. CASE i \in k + 2 .. Len(q) + 1 /\ i - 1 \in m .. Len(q)
    <3>1. PICK x \in m .. Len(q) : x = i - 1 /\ r[i] = q[x]
      BY <2>3
    <3>2. x \in 1 .. Len(q)
      BY <1>1, <3>1
    <3> QED BY <3>1, <3>2 DEF Noted
  <2> QED BY <1>2, <2>1, <2>2, <2>3
<1>7. ASSUME NEW x, Listed(q, x)
      PROVE  Listed(r, x)
  <2>1. PICK i \in 1 .. Len(q) : q[i].first = x
    BY <1>7 DEF Listed
  <2>2. CASE i <= k
    <3>1. i \in 1 .. k /\ i \in 1 .. Len(r)
      BY <1>1, <2>2
    <3> QED BY <2>1, <3>1 DEF Listed
  <2>3. CASE i > k
    <3>1. PICK y \in k + 2 .. Len(q) + 1 : i = y - 1
      <4>1. i + 1 \in k + 2 .. Len(q) + 1 /\ i = (i + 1) - 1
        BY <1>1, <2>3
      <4> QED BY <4>1
    <3>2. r[y] = q[i] /\ y \in 1 .. Len(r)
      BY <1>1, <3>1
    <3> QED BY <2>1, <3>2 DEF Listed
  <2> QED BY <1>1, <2>2, <2>3
<1> QED BY <1>5, <1>6, <1>7 DEF Noted

LEMMA PendingPlace ==
    ASSUME NEW q \in Seq(PendingEntries), NEW k \in 0 .. Len(q), NEW e \in PendingEntries
    PROVE  Len(InsertAt(q, k + 1, e)) = Len(q) + 1 /\ InsertAt(q, k + 1, e)[k + 1] = e
<1> DEFINE new == InsertAt(q, k + 1, e)
<1>1. Len(new) = Len(q) + 1 /\ new[k + 1] = e
  BY InsertAtIs
<1> QED BY <1>1

LEMMA NotedInserted ==
    ASSUME NEW l \in Seq(LogRecords), NEW q \in Seq(PendingEntries), NEW c \in Nat, Noted(l, q, c),
           NEW n \in 1 .. Len(l), NEW k \in 0 .. Len(q), \A i \in 1 .. k : q[i].first < n,
           \A i \in 1 .. Len(q) : i = k + 1 => n < q[i].first,
           NEW q2, q2 = InsertAt(q, k + 1, Expect(n, TRUE, FALSE, FALSE))
    PROVE  Noted(l, q2, c)
<1> DEFINE e == Expect(n, TRUE, FALSE, FALSE)
<1>1. /\ ~e.external /\ e.last = n /\ e.first = n /\ e.discard /\ ~e.checked
      /\ e \in PendingEntries
  <2>1. n \in Nat /\ TRUE \in BOOLEAN /\ FALSE \in BOOLEAN
    OBVIOUS
  <2>2. e \in PendingEntries
    BY <2>1, ExpectType
  <2> QED BY <2>2 DEF Expect
<1>2. Entry(l, e)
  <2> HIDE DEF e
  <2> QED BY <1>1 DEF Entry
<1> HIDE DEF e
<1>3. Len(q) \in Nat /\ k \in Nat /\ e \in PendingEntries /\ e.first = n
  BY <1>1
<1>4. PICK m \in Nat : m = k + 1
  BY <1>3
<1> DEFINE new == InsertAt(q, k + 1, e)
<1>5. /\ Len(new) = Len(q) + 1 /\ new[k + 1] = e
      /\ \A i \in 1 .. k : new[i] = q[i]
      /\ \A i \in (k + 2) .. (Len(q) + 1) : new[i] = q[i - 1]
  <2>1. Len(new) = Len(q) + 1 /\ new[k + 1] = e
    BY <1>3, PendingPlace
  <2>2. \A i \in 1 .. k : new[i] = q[i]
    BY <1>3, InsertAtIs
  <2>3. \A i \in (k + 2) .. (Len(q) + 1) : new[i] = q[i - 1]
    BY <1>3, InsertAtIs
  <2> HIDE DEF new
  <2> QED BY <2>1, <2>2, <2>3
<1> HIDE DEF new
<1>6. q2 = new /\ new[m] = e
  BY <1>4, <1>5 DEF new, e
<1>7. m <= Len(q) => e.first < q[m].first
  <2>1. m <= Len(q) => m \in 1 .. Len(q)
    BY <1>3, <1>4
  <2> QED BY <1>3, <1>4, <2>1
<1>8. \A i \in 1 .. k : q[i].first < e.first
  BY <1>3
<1>9. Noted(l, new, c)
  BY <1>2, <1>3, <1>4, <1>5, <1>6, <1>7, <1>8, EntryInserted
<1> QED BY <1>6, <1>9

-----------------------------------------------------------------------------
(* The invariant: the packets that were not taken apart                    *)

\* An answer is about a request after c, to which nothing came before, and a reply
\* is about one that has replies.
Answering(l, q, c) ==
    \A i \in 1 .. Len(q) :
        /\ q[i].type # "event" => c < q[i].of /\ \A j \in 1 .. Len(q) : j < i => q[j].of < q[i].of
        /\ q[i].type = "reply" => Replied(l, q[i].of)

\* No packet of p is about the request of an answer in q, or a later one.
Before(p, q) == \A i \in 1 .. Len(p), j \in 1 .. Len(q) : q[j].type # "event" => p[i].of < q[j].of

\* A packet less,
LEMMA AnswersTail ==
    ASSUME NEW l, NEW p \in Seq(Packets), NEW q \in Seq(Packets), NEW c, NEW d \in Nat, p # <<>>,
           Answering(l, p, c), Answering(l, q, c), Before(p, q), d <= Head(p).of
    PROVE  Answering(l, Tail(p), d) /\ Answering(l, q, d) /\ Before(Tail(p), q)
<1> DEFINE r == Tail(p)
<1>1. /\ r \in Seq(Packets) /\ Len(r) = Len(p) - 1 /\ Len(p) \in Nat /\ Len(p) >= 1
      /\ \A i \in 1 .. Len(r) : r[i] = p[i + 1]
      /\ Head(p) = p[1]
  OBVIOUS
<1> HIDE DEF r
<1>2. \A i \in 1 .. Len(p) : p[i].of \in Nat
  BY PacketIs
<1>3. \A i \in 1 .. Len(q) : q[i].of \in Nat
  BY PacketIs
<1>4. p[1].of \in Nat /\ d <= p[1].of /\ 1 \in 1 .. Len(p)
  BY <1>1, <1>2
<1>5. Answering(l, r, d)
  <2> SUFFICES ASSUME NEW i \in 1 .. Len(r)
               PROVE  /\ r[i].type # "event" =>
                           d < r[i].of /\ \A j \in 1 .. Len(r) : j < i => r[j].of < r[i].of
                      /\ r[i].type = "reply" => Replied(l, r[i].of)
    BY DEF Answering
  <2>1. PICK x \in 1 .. Len(p) : x = i + 1 /\ r[i] = p[x]
    BY <1>1
  <2>2. ASSUME r[i].type # "event"
        PROVE  d < r[i].of /\ \A j \in 1 .. Len(r) : j < i => r[j].of < r[i].of
    <3>1. \A j \in 1 .. Len(p) : j < x => p[j].of < p[x].of
      BY <2>1, <2>2 DEF Answering
    <3>2. p[1].of < p[x].of
      BY <1>4, <2>1, <3>1
    <3>3. d < r[i].of
      BY <1>2, <1>4, <2>1, <3>2
    <3>4. ASSUME NEW j \in 1 .. Len(r), j < i
          PROVE  r[j].of < r[i].of
      <4>1. PICK y \in 1 .. Len(p) : y = j + 1 /\ r[j] = p[y]
        BY <1>1
      <4> QED BY <2>1, <3>1, <3>4, <4>1
    <3> QED BY <3>3, <3>4
  <2>3. r[i].type = "reply" => Replied(l, r[i].of)
    BY <2>1 DEF Answering
  <2> QED BY <2>2, <2>3
<1>6. Answering(l, q, d)
  <2>1. ASSUME NEW i \in 1 .. Len(q), q[i].type # "event"
        PROVE  d < q[i].of
    <3>1. p[1].of < q[i].of
      BY <1>4, <2>1 DEF Before
    <3> QED BY <1>3, <1>4, <3>1
  <2> QED BY <2>1 DEF Answering
<1>7. Before(r, q)
  <2> SUFFICES ASSUME NEW i \in 1 .. Len(r), NEW j \in 1 .. Len(q), q[j].type # "event"
               PROVE  r[i].of < q[j].of
    BY DEF Before
  <2>1. PICK x \in 1 .. Len(p) : r[i] = p[x]
    BY <1>1
  <2> QED BY <2>1 DEF Before
<1> QED BY <1>5, <1>6, <1>7 DEF r

\* a packet more: an event, or an answer to a request after all the others,
Longest(l, q, x, r, n) ==
    /\ x \in Packets /\ r = Append(q, x)
    /\ (x.type # "event" => x.of = n) /\ (x.type = "reply" => Replied(l, n))

LEMMA AnswersMore ==
    ASSUME NEW l, NEW p \in Seq(Packets), NEW q \in Seq(Packets), NEW c \in Nat, NEW lo, NEW hi \in Nat,
           Answering(l, q, c), Before(p, q), Stream(p, lo, hi), Stream(q, lo, hi), c <= hi,
           NEW x, NEW r, NEW n, n = hi + 1, Longest(l, q, x, r, n)
    PROVE  Answering(l, r, c) /\ Before(p, r)
<1>0. /\ x \in Packets /\ r = Append(q, x)
      /\ (x.type # "event" => x.of = n) /\ (x.type = "reply" => Replied(l, n))
  BY DEF Longest
<1> DEFINE z == Len(q) + 1
<1>1. z = Len(q) + 1
  OBVIOUS
<1> HIDE DEF z
<1>2. Longer(q, x, r, z)
  BY <1>0, <1>1, AppendIs
<1>3. Len(q) \in Nat /\ Len(r) = z /\ z = Len(q) + 1 /\ r[z] = x
  BY <1>2 DEF Longer
<1>4. \A i \in 1 .. Len(q) : i \in 1 .. Len(r) /\ r[i] = q[i]
  BY <1>2 DEF Longer
<1>5. \A i \in 1 .. Len(r) : i = z \/ i \in 1 .. Len(q)
  BY <1>2 DEF Longer
<1>6. \A i \in 1 .. Len(p) : p[i].of \in Nat /\ p[i].of < n
  BY PacketIs DEF Stream
<1>7. \A i \in 1 .. Len(q) : q[i].of \in Nat /\ q[i].of < n
  BY PacketIs DEF Stream
<1>8. c < n
  OBVIOUS
<1>9. Answering(l, r, c)
  <2> SUFFICES ASSUME NEW i \in 1 .. Len(r)
               PROVE  /\ r[i].type # "event" =>
                           c < r[i].of /\ \A j \in 1 .. Len(r) : j < i => r[j].of < r[i].of
                      /\ r[i].type = "reply" => Replied(l, r[i].of)
    BY DEF Answering
  <2>1. \A j \in 1 .. Len(r) : j < i => j \in 1 .. Len(q) /\ r[j] = q[j]
    <3>1. \A j \in 1 .. Len(r) : j < i => j \in 1 .. Len(q)
      BY <1>3
    <3> QED BY <1>4, <3>1
  <2>2. CASE i = z
    <3>1. r[i] = x
      BY <1>3, <2>2
    <3>2. ASSUME x.type # "event"
          PROVE  c < x.of /\ \A j \in 1 .. Len(r) : j < i => r[j].of < x.of
      BY <1>0, <1>7, <1>8, <2>1, <3>2
    <3> QED BY <1>0, <3>1, <3>2
  <2>3. CASE i \in 1 .. Len(q)
    <3>1. r[i] = q[i]
      BY <1>4, <2>3
    <3> QED BY <2>1, <2>3, <3>1 DEF Answering
  <2> QED BY <1>5, <2>2, <2>3
<1>10. Before(p, r)
  <2> SUFFICES ASSUME NEW i \in 1 .. Len(p), NEW j \in 1 .. Len(r), r[j].type # "event"
               PROVE  p[i].of < r[j].of
    BY DEF Before
  <2>1. CASE j = z
    BY <1>0, <1>3, <1>6, <2>1
  <2>2. CASE j \in 1 .. Len(q)
    <3>1. r[j] = q[j]
      BY <1>4, <2>2
    <3> QED BY <2>2, <3>1 DEF Before
  <2> QED BY <1>5, <2>1, <2>2
<1> QED BY <1>9, <1>10

\* a request more.
LEMMA AnswersNumbered ==
    ASSUME NEW l \in Seq(LogRecords), NEW q \in Seq(Packets), NEW c \in Nat, NEW lo, NEW hi \in Nat,
           Answering(l, q, c), Stream(q, lo, hi), hi <= Len(l), NEW e, NEW l2, l2 = Append(l, e)
    PROVE  Answering(l2, q, c)
<1>1. Len(l) \in Nat /\ \A i \in 1 .. Len(l) : l2[i] = l[i]
  OBVIOUS
<1>2. ASSUME NEW i \in 1 .. Len(q), q[i].type = "reply"
      PROVE  Replied(l2, q[i].of)
  <2>1. q[i].of \in Nat /\ c < q[i].of /\ q[i].of <= hi /\ Replied(l, q[i].of)
    BY <1>2, PacketIs DEF Answering, Stream
  <2>2. q[i].of \in 1 .. Len(l)
    BY <1>1, <2>1
  <2> QED BY <1>1, <2>1, <2>2 DEF Replied
<1> QED BY <1>2 DEF Answering

-----------------------------------------------------------------------------
(* The invariant: where the answers are kept                               *)

\* The answers q are to request r, and somebody may ask for them.
Filed(l, r, q) == \A i \in 1 .. Len(q) : q[i].of = r /\ Kept(l, r)

\* An event has the full number of its request; an error among the events is of a
\* request whose errors nobody asks for.
Told(l, e) ==
    /\ e.seq = e.of
    /\ e.type = "error" => e.of \in 1 .. Len(l) /\ l[e.of].kind = "void"

\* Some of the answers.
LEMMA FiledPart ==
    ASSUME NEW l, NEW r, NEW q, NEW p, Filed(l, r, p), Part(q, p)
    PROVE  Filed(l, r, q)
BY DEF Filed, Part

\* A request more.
LEMMA FiledNumbered ==
    ASSUME NEW l \in Seq(LogRecords), NEW e, NEW l2, l2 = Append(l, e)
    PROVE  /\ \A r, q : Filed(l, r, q) => Filed(l2, r, q)
           /\ \A x : Told(l, x) => Told(l2, x)
<1>1. /\ Len(l) \in Nat /\ Len(l2) = Len(l) + 1 /\ \A i \in 1 .. Len(l) : l2[i] = l[i]
  OBVIOUS
<1>2. \A i \in 1 .. Len(l) : i \in 1 .. Len(l2)
  BY <1>1
<1>3. \A r : Kept(l, r) => Kept(l2, r)
  BY <1>1, <1>2 DEF Kept
<1>4. \A r, q : Filed(l, r, q) => Filed(l2, r, q)
  BY <1>3 DEF Filed
<1>5. \A x : Told(l, x) => Told(l2, x)
  BY <1>1, <1>2 DEF Told
<1> QED BY <1>4, <1>5

\* An answer more.
LEMMA FiledMore ==
    ASSUME NEW l, NEW r, NEW q \in Seq(Packets), NEW x \in Packets, Filed(l, r, q), x.of = r, Kept(l, r)
    PROVE  Filed(l, r, Append(q, x))
<1>1. /\ Len(q) \in Nat /\ Len(Append(q, x)) = Len(q) + 1 /\ Append(q, x)[Len(q) + 1] = x
      /\ \A i \in 1 .. Len(q) : Append(q, x)[i] = q[i]
  OBVIOUS
<1>2. \A i \in 1 .. Len(q) + 1 : i \in 1 .. Len(q) \/ i = Len(q) + 1
  BY <1>1
<1> QED BY <1>1, <1>2 DEF Filed

LEMMA ToldMore ==
    ASSUME NEW l, NEW q \in Seq(EventEntries), NEW x \in EventEntries, \A i \in 1 .. Len(q) : Told(l, q[i]),
           Told(l, x), NEW r, r = Append(q, x)
    PROVE  \A i \in 1 .. Len(r) : Told(l, r[i])
<1>1. /\ Len(q) \in Nat /\ Len(r) = Len(q) + 1 /\ r[Len(q) + 1] = x
      /\ \A i \in 1 .. Len(q) : r[i] = q[i]
  OBVIOUS
<1>2. \A i \in 1 .. Len(r) : i \in 1 .. Len(q) \/ i = Len(q) + 1
  BY <1>1
<1> QED BY <1>1, <1>2

\* Parts of lists.
LEMMA PartSame ==
    ASSUME NEW q
    PROVE  Part(q, q)
BY DEF Part

LEMMA PartDrop ==
    ASSUME NEW X, NEW q \in Seq(X), NEW k \in Nat
    PROVE  Part(SubSeq(q, k + 1, Len(q)), q)
<1> DEFINE r == SubSeq(q, k + 1, Len(q))
<1>1. CASE k \in 0 .. Len(q)
  <2>1. Len(r) = Len(q) - k /\ \A i \in 1 .. (Len(q) - k) : r[i] = q[k + i]
    BY <1>1, DropIs
  <2>2. \A i \in 1 .. (Len(q) - k) : k + i \in 1 .. Len(q)
    BY <1>1
  <2> QED BY <2>1, <2>2 DEF Part
<1>2. CASE ~(k \in 0 .. Len(q))
  <2>1. Len(q) \in Nat /\ ~(k + 1 <= Len(q)) /\ k + 1 \in Int /\ Len(q) \in Int
    BY <1>2
  <2>2. Len(r) = 0
    <3>1. \A i \in k + 1 .. Len(q) : q[i] \in X
      BY <2>1
    <3> QED BY <2>1, <3>1, SubSeqProperties
  <2> QED BY <2>2 DEF Part
<1> QED BY <1>1, <1>2

LEMMA PartTail ==
    ASSUME NEW X, NEW q \in Seq(X), q # <<>>
    PROVE  Part(Tail(q), q)
<1>1. /\ Len(Tail(q)) = Len(q) - 1 /\ Len(q) \in Nat
      /\ \A i \in 1 .. Len(q) - 1 : Tail(q)[i] = q[i + 1]
  OBVIOUS
<1>2. \A i \in 1 .. Len(q) - 1 : i + 1 \in 1 .. Len(q)
  BY <1>1
<1> QED BY <1>1, <1>2 DEF Part

-----------------------------------------------------------------------------
(* What the actions do to the answers that are kept                        *)

\* The answers and events of a are among those of b.
Fewer(a, b) ==
    /\ \A e \in a.replies : \E x \in b.replies : e.request = x.request /\ Part(e.answers, x.answers)
    /\ Part(a.current, b.current) /\ Part(a.events, b.events)

\* Nothing is numbered, sent or read.
Still(t) ==
    /\ Now(t) # "packets" /\ out'.request = out.request /\ log' = log
    /\ net'.served = net.served /\ net'.wire = net.wire
    /\ in'.read = in.read /\ in'.completed = in.completed /\ in'.expected = in.expected
    /\ in'.packets = in.packets

\* Nothing but that answers and events are handed out.
Drops(t) == Still(t) /\ in'.pending = in.pending /\ Fewer(in', in)

LEMMA FewerSame ==
    ASSUME in'.replies = in.replies, in'.current = in.current, in'.events = in.events
    PROVE  Fewer(in', in)
<1>1. Part(in'.current, in.current) /\ Part(in'.events, in.events) /\ \A e : Part(e, e)
  BY PartSame
<1> QED BY <1>1 DEF Fewer

\* The fields of in that say nothing of answers.
LEMMA DropsNothing ==
    ASSUME Base, NEW t \in Threads, Now(t) # "packets", NEW r, NEW q,
           \/ in' = in
           \/ in' = [in EXCEPT !.reading = r]
           \/ in' = [in EXCEPT !.readers = q],
           out'.request = out.request, log' = log, net'.served = net.served, net'.wire = net.wire
    PROVE  Drops(t)
<1>1. in \in InRecords
  BY TypesAre
<1>2. /\ in'.read = in.read /\ in'.completed = in.completed /\ in'.expected = in.expected
      /\ in'.packets = in.packets /\ in'.pending = in.pending
      /\ in'.replies = in.replies /\ in'.current = in.current /\ in'.events = in.events
  BY <1>1 DEF InRecords
<1>3. Fewer(in', in)
  BY <1>2, FewerSame
<1> QED BY <1>2, <1>3 DEF Drops, Still

\* To hand answers out,
LEMMA FewerWithout ==
    ASSUME Base, NEW r, NEW k \in Nat, NEW q, q = WithoutAnswers(r, k)
    PROVE  Fewer(q, in)
<1>0. /\ in \in InRecords /\ in.current \in Seq(Packets) /\ in.replies \subseteq ReplyEntries
  BY TypesAre DEF InRecords
<1>1. /\ Part(in.current, in.current) /\ Part(in.events, in.events)
      /\ \A e \in in.replies : Part(e.answers, e.answers)
  BY PartSame
<1>2. CASE r < in.read
  <2> DEFINE new == (in.replies \ FiledFor(r)) \cup
                    {[e EXCEPT !.answers = SubSeq(@, k + 1, Len(@))] :
                        e \in {x \in FiledFor(r) : Len(x.answers) > k}}
  <2>1. q = [in EXCEPT !.replies = new]
    BY <1>2 DEF WithoutAnswers
  <2>2. ASSUME NEW e \in new
        PROVE  \E x \in in.replies : e.request = x.request /\ Part(e.answers, x.answers)
    <3>1. CASE e \in in.replies
      BY <1>1, <3>1
    <3>2. CASE ~(e \in in.replies)
      <4>1. PICK x \in FiledFor(r) : e = [x EXCEPT !.answers = SubSeq(@, k + 1, Len(@))]
        BY <3>2
      <4>2. x \in in.replies /\ x \in ReplyEntries
        BY <1>0 DEF FiledFor
      <4>3. x.answers \in Seq(Packets)
        BY <4>2 DEF ReplyEntries
      <4>4. e.request = x.request /\ e.answers = SubSeq(x.answers, k + 1, Len(x.answers))
        BY <4>1, <4>2 DEF ReplyEntries
      <4>5. Part(SubSeq(x.answers, k + 1, Len(x.answers)), x.answers)
        BY <4>3, PartDrop
      <4> QED BY <4>2, <4>4, <4>5
    <3> QED BY <3>1, <3>2
  <2> HIDE DEF new
  <2>3. q.replies = new /\ q.current = in.current /\ q.events = in.events
    BY <1>0, <2>1 DEF InRecords
  <2> QED BY <1>1, <2>2, <2>3 DEF Fewer
<1>3. CASE ~(r < in.read) /\ r = in.read
  <2>1. q = [in EXCEPT !.current = SubSeq(in.current, k + 1, Len(in.current))]
    BY <1>3 DEF WithoutAnswers
  <2>2. /\ q.replies = in.replies /\ q.events = in.events
        /\ q.current = SubSeq(in.current, k + 1, Len(in.current))
    BY <1>0, <2>1 DEF InRecords
  <2>3. Part(SubSeq(in.current, k + 1, Len(in.current)), in.current)
    BY <1>0, PartDrop
  <2> QED BY <1>1, <2>2, <2>3 DEF Fewer
<1>4. CASE ~(r < in.read) /\ r # in.read
  <2>1. q = in
    BY <1>4 DEF WithoutAnswers
  <2> QED BY <1>1, <2>1 DEF Fewer
<1> QED BY <1>2, <1>3, <1>4

LEMMA DropsAnswers ==
    ASSUME Base, NEW t \in Threads, Now(t) # "packets", in' = WithoutAnswers(th[t].request, 1),
           UNCHANGED <<out, net, log>>
    PROVE  Drops(t)
<1> DEFINE q == WithoutAnswers(th[t].request, 1)
<1>1. in' = q
  OBVIOUS
<1>2. /\ q.read = in.read /\ q.completed = in.completed /\ q.expected = in.expected
      /\ q.packets = in.packets /\ q.pending = in.pending
  BY WithoutIs
<1>3. Fewer(q, in)
  BY FewerWithout
<1> HIDE DEF q
<1> QED BY <1>1, <1>2, <1>3 DEF Drops, Still

\* or an event.
LEMMA DropsEvent ==
    ASSUME Base, NEW t \in Threads, Now(t) # "packets", in.events # <<>>, in' = [in EXCEPT !.events = Tail(@)],
           UNCHANGED <<out, net, log>>
    PROVE  Drops(t)
<1>1. in \in InRecords /\ in.events \in Seq(EventEntries)
  BY TypesAre DEF InRecords
<1>2. /\ in'.read = in.read /\ in'.completed = in.completed /\ in'.expected = in.expected
      /\ in'.packets = in.packets /\ in'.pending = in.pending
      /\ in'.replies = in.replies /\ in'.current = in.current /\ in'.events = Tail(in.events)
  BY <1>1 DEF InRecords
<1>3. Part(Tail(in.events), in.events) /\ Part(in.current, in.current)
      /\ \A e \in in.replies : Part(e.answers, e.answers)
  BY <1>1, PartTail, PartSame
<1>4. Fewer(in', in)
  BY <1>2, <1>3 DEF Fewer
<1> QED BY <1>2, <1>4 DEF Drops, Still

\* The actions that send and flush, but for the one that numbers a request.
LEMMA SendingDrops ==
    ASSUME Base, NEW t \in Threads,
           \/ PrepareSocketRequest(t) \/ PrepareWritable(t) \/ SyncBeforeWrap(t) \/ ReturnCookie(t)
           \/ WaitFlushed(t) \/ FlushAll(t) \/ TakeFlush(t) \/ Polled(t)
    PROVE  Drops(t)
<1>1. Now(t) # "packets"
  <2>1. PICK x \in {"prepare", "writable", "send", "cookie", "flushing", "flushall", "takeflush", "polled"} :
           At(t, x)
    BY DEF PrepareSocketRequest, PrepareWritable, SyncBeforeWrap, ReturnCookie, WaitFlushed, FlushAll,
           TakeFlush, Polled
  <2>2. Now(t) = x
    BY <2>1, BaseIs
  <2> QED BY <2>2
<1>2. UNCHANGED <<in, out, net, log>>
  BY DEF PrepareSocketRequest, PrepareWritable, SyncBeforeWrap, ReturnCookie, WaitFlushed, FlushAll,
         TakeFlush, Polled
<1> QED BY <1>1, <1>2, DropsNothing

LEMMA WritingDrops ==
    ASSUME Base, NEW t \in Threads, get_socket_back(t) \/ OutSend(t) \/ FlushTo(t) \/ WriteVec(t)
    PROVE  Drops(t)
<1>0. out \in OutRecords /\ net \in NetRecords
  BY TypesAre
<1>1. Now(t) # "packets"
  <2>1. PICK x \in {"getback", "outsend", "flush", "write"} : At(t, x)
    BY DEF get_socket_back, OutSend, FlushTo, WriteVec
  <2>2. Now(t) = x
    BY <2>1, BaseIs
  <2> QED BY <2>2
<1>2. CASE get_socket_back(t)
  <2>1. UNCHANGED <<in, net, log>> /\ out'.request = out.request
    BY <1>0, <1>2 DEF get_socket_back, OutRecords
  <2> QED BY <1>1, <2>1, DropsNothing
<1>3. CASE OutSend(t)
  <2>1. UNCHANGED <<net, log>> /\ out'.request = out.request
    BY <1>0, <1>3 DEF OutSend, OutRecords
  <2>2. in' = in \/ in' = [in EXCEPT !.reading = in.reading + 1]
    BY <1>3 DEF OutSend
  <2> QED BY <1>1, <2>1, <2>2, DropsNothing
<1>4. CASE FlushTo(t)
  <2>1. UNCHANGED <<in, net, log>> /\ out'.request = out.request
    BY <1>0, <1>4 DEF FlushTo, OutRecords
  <2> QED BY <1>1, <2>1, DropsNothing
<1>5. CASE WriteVec(t)
  <2>1. log' = log /\ out'.request = out.request /\ in' = [in EXCEPT !.reading = in.reading - 1]
    BY <1>0, <1>5 DEF WriteVec, OutRecords
  <2>2. net'.served = net.served /\ net'.wire = net.wire
    BY <1>0, <1>5 DEF WriteVec, NetRecords
  <2> QED BY <1>1, <2>1, <2>2, DropsNothing
<1> QED BY <1>2, <1>3, <1>4, <1>5

\* The actions that read, but for those that take packets and what they answer.
LEMMA WaitingDrops ==
    ASSUME Base, NEW t \in Threads,
           \/ ReaderPolled(t) \/ WaitForReply(t) \/ InsertReader(t) \/ RemoveReader(t)
           \/ WakeNext(t) \/ RequestCheck(t) \/ CheckFlush(t)
    PROVE  Drops(t)
<1>1. Now(t) # "packets"
  BY BaseIs DEF ReaderPolled, WaitForReply, InsertReader, RemoveReader, WakeNext, RequestCheck, CheckFlush
<1>2. UNCHANGED <<out, net, log>>
  BY DEF ReaderPolled, WaitForReply, InsertReader, RemoveReader, WakeNext, RequestCheck, CheckFlush
<1>3. CASE WaitForReply(t) \/ WakeNext(t) \/ RequestCheck(t) \/ CheckFlush(t)
  <2>1. in' = in
    BY <1>3 DEF WaitForReply, WakeNext, RequestCheck, CheckFlush
  <2> QED BY <1>1, <1>2, <2>1, DropsNothing
<1>4. CASE ReaderPolled(t)
  <2>1. in' = [in EXCEPT !.reading = in.reading - 1]
    BY <1>4 DEF ReaderPolled
  <2> QED BY <1>1, <1>2, <2>1, DropsNothing
<1>5. CASE InsertReader(t)
  <2> DEFINE q == InsertAt(in.readers, ReadersUpTo(th[t].request) + 1,
                           [thread |-> t, request |-> th[t].request])
  <2>1. in' = in \/ in' = [in EXCEPT !.readers = q]
    BY <1>5 DEF InsertReader
  <2> HIDE DEF q
  <2> QED BY <1>1, <1>2, <2>1, DropsNothing
<1>6. CASE RemoveReader(t)
  <2>1. in' = in \/ in' = [in EXCEPT !.readers = Tail(in.readers)]
    BY <1>6 DEF RemoveReader
  <2> QED BY <1>1, <1>2, <2>1, DropsNothing
<1> QED BY <1>3, <1>4, <1>5, <1>6

LEMMA WaitToReadDrops ==
    ASSUME Base, NEW t \in Threads, NEW cond, WaitToRead(t, cond), Now(t) # "packets",
           UNCHANGED <<out, net, log>>
    PROVE  Drops(t)
<1>1. in' = in \/ in' = [in EXCEPT !.reading = in.reading + 1]
  BY DEF WaitToRead
<1> QED BY <1>1, DropsNothing

LEMMA AnsweringDrops ==
    ASSUME Base, NEW t \in Threads, ReplyLoop(t) \/ EventLoop(t) \/ PollForReply(t) \/ PollForEvent(t)
    PROVE  Drops(t)
<1>1. Now(t) # "packets" /\ UNCHANGED <<out, net, log>>
  BY BaseIs DEF ReplyLoop, EventLoop, PollForReply, PollForEvent
<1>2. CASE ReplyLoop(t)
  <2>1. in' = WithoutAnswers(th[t].request, 1) \/ WaitToRead(t, "reader")
    BY <1>2 DEF ReplyLoop
  <2> QED BY <1>1, <2>1, DropsAnswers, WaitToReadDrops
<1>3. CASE EventLoop(t)
  <2>1. (in.events # <<>> /\ in' = [in EXCEPT !.events = Tail(@)]) \/ WaitToRead(t, "event")
    BY <1>3 DEF EventLoop
  <2> QED BY <1>1, <2>1, DropsEvent, WaitToReadDrops
<1>4. CASE PollForReply(t)
  <2>1. in' = WithoutAnswers(th[t].request, 1) \/ in' = in
    BY <1>4 DEF PollForReply
  <2> QED BY <1>1, <2>1, DropsAnswers, DropsNothing
<1>5. CASE PollForEvent(t)
  <2>1. (in.events # <<>> /\ in' = [in EXCEPT !.events = Tail(@)]) \/ in' = in
    BY <1>5 DEF PollForEvent
  <2> QED BY <1>1, <2>1, DropsEvent, DropsNothing
<1> QED BY <1>2, <1>3, <1>4, <1>5

\* poll() and return_socket, and the beginning of a call.
LEMMA OutsideDrops ==
    ASSUME Base, NEW t \in Threads, PollReturns(t) \/ return_socket(t)
    PROVE  Drops(t)
<1>0. out \in OutRecords /\ net \in NetRecords
  BY TypesAre
<1>1. Returned(t) \/ LetsGo(t)
  BY OutsideStep
<1>2. CASE Returned(t)
  <2>1. Now(t) # "packets" /\ UNCHANGED <<in, out, log>> /\ net' = [net EXCEPT !.error = net'.error]
    BY <1>2 DEF Returned
  <2>2. net'.served = net.served /\ net'.wire = net.wire
    BY <1>0, <2>1 DEF NetRecords
  <2> QED BY <2>1, <2>2, DropsNothing
<1>3. CASE LetsGo(t)
  <2>1. Now(t) # "packets" /\ UNCHANGED <<in, net, log>>
        /\ out' = [out EXCEPT !.owns = out.owns \ {out.returnSocket}]
    BY <1>3 DEF LetsGo
  <2>2. out'.request = out.request
    BY <1>0, <2>1 DEF OutRecords
  <2> QED BY <2>1, <2>2, DropsNothing
<1> QED BY <1>1, <1>2, <1>3

LEMMA CallingDrops ==
    ASSUME Base, NEW t \in Threads, Calling(t)
    PROVE  Drops(t)
<1>1. Now(t) = "end" /\ UNCHANGED <<in, out, net, log>>
  BY CallingIs DEF Called
<1> QED BY <1>1, DropsNothing

\* discard_reply: the answers are dropped, and the entry of those that will come is
\* marked or put in its place.
Discards(t) ==
    /\ Still(t) /\ Fewer(in', in) /\ Now(t) = "discard"
    /\ \/ in'.pending = in.pending
       \/ \E i \in 1 .. Len(in.pending) : in'.pending = [in.pending EXCEPT ![i].discard = TRUE]
       \/ \E k \in 0 .. Len(in.pending) :
            /\ ~(th[t].request <= in.completed)
            /\ \A i \in 1 .. k : in.pending[i].first < th[t].request
            /\ \A i \in 1 .. Len(in.pending) : i = k + 1 => th[t].request < in.pending[i].first
            /\ in'.pending = InsertAt(in.pending, k + 1, Expect(th[t].request, TRUE, FALSE, FALSE))

LEMMA AnswersForType ==
    ASSUME Base, NEW r
    PROVE  AnswersFor(r) \in Seq(Packets)
<1>0. in.current \in Seq(Packets) /\ in.replies \subseteq ReplyEntries
  BY TypesAre DEF InRecords
<1>1. CASE r < in.read /\ FiledFor(r) # {}
  <2>1. (CHOOSE x \in FiledFor(r) : TRUE) \in FiledFor(r)
    BY <1>1
  <2>2. (CHOOSE x \in FiledFor(r) : TRUE) \in ReplyEntries
    BY <1>0, <2>1 DEF FiledFor
  <2> QED BY <1>1, <2>2 DEF AnswersFor, ReplyEntries
<1>2. CASE ~(r < in.read /\ FiledFor(r) # {})
  BY <1>0, <1>2, EmptySeq DEF AnswersFor
<1> QED BY <1>1, <1>2

LEMMA DiscardsIs ==
    ASSUME Base, NEW t \in Threads, DiscardReply(t)
    PROVE  Discards(t)
<1> DEFINE r == th[t].request
           k == Len(AnswersFor(r))
           left == WithoutAnswers(r, k)
           S == {i \in DOMAIN in.pending : in.pending[i].first < r}
           m == FrontRun(Len(in.pending), S)
           place == 1 + m
           e == Expect(r, TRUE, FALSE, FALSE)
<1>0. in \in InRecords /\ in.pending \in Seq(PendingEntries) /\ r \in Nat
  BY TypesAre DEF InRecords, ThreadRecords
<1>1. /\ UNCHANGED <<out, net, log>> /\ Now(t) = "discard"
      /\ in' = IF r <= in.completed THEN left
               ELSE IF place \in DOMAIN in.pending /\ in.pending[place].first = r
               THEN [left EXCEPT !.pending[place].discard = TRUE]
               ELSE [left EXCEPT !.pending = InsertAt(@, place, e)]
  BY BaseIs DEF DiscardReply
<1>2. k \in Nat
  <2>1. AnswersFor(r) \in Seq(Packets)
    BY AnswersForType
  <2> QED BY <2>1
<1>3. /\ left \in InRecords /\ left.read = in.read
      /\ left.completed = in.completed /\ left.expected = in.expected
      /\ left.packets = in.packets /\ left.pending = in.pending
  <2> HIDE DEF k
  <2> QED BY <1>2, WithoutIs
<1>4. Fewer(left, in)
  <2> HIDE DEF k
  <2> QED BY <1>2, FewerWithout
<1>5. DOMAIN in.pending = 1 .. Len(in.pending) /\ Len(in.pending) \in Nat
  BY <1>0
<1>6. m \in 0 .. Len(in.pending) /\ 1 .. m \subseteq S /\ (m < Len(in.pending) => m + 1 \notin S)
  <2> HIDE DEF S
  <2> QED BY <1>5, FrontRunIs
<1>7. \A i \in 1 .. m : in.pending[i].first < r
  BY <1>6
<1>8. \A i \in 1 .. Len(in.pending) : i = m + 1 => ~(in.pending[i].first < r)
  BY <1>5, <1>6
<1>9. place = m + 1
  BY <1>6
<1>r. r = th[t].request /\ e = Expect(th[t].request, TRUE, FALSE, FALSE)
  OBVIOUS
<1> HIDE DEF r, k, left, S, m, e, place
<1>10. CASE r <= in.completed
  <2>1. in' = left
    BY <1>1, <1>10
  <2> QED BY <1>1, <1>3, <1>4, <2>1 DEF Discards, Still
<1>11. CASE ~(r <= in.completed) /\ place \in DOMAIN in.pending /\ in.pending[place].first = r
  <2> DEFINE new == [in.pending EXCEPT ![place].discard = TRUE]
  <2>1. in' = [left EXCEPT !.pending = new]
    BY <1>1, <1>3, <1>11
  <2>2. place \in 1 .. Len(in.pending) /\ new = [in.pending EXCEPT ![place].discard = TRUE]
    BY <1>5, <1>11
  <2> HIDE DEF new
  <2>3. /\ in'.read = left.read /\ in'.completed = left.completed /\ in'.expected = left.expected
        /\ in'.packets = left.packets /\ in'.pending = new
        /\ in'.replies = left.replies /\ in'.current = left.current /\ in'.events = left.events
    BY <1>3, <2>1 DEF InRecords
  <2>4. Fewer(in', in)
    BY <1>4, <2>3 DEF Fewer
  <2>5. Still(t)
    BY <1>1, <1>3, <2>3 DEF Still
  <2> QED BY <1>1, <2>2, <2>3, <2>4, <2>5 DEF Discards
<1>12. CASE ~(r <= in.completed) /\ ~(place \in DOMAIN in.pending /\ in.pending[place].first = r)
  <2> DEFINE new == InsertAt(in.pending, place, e)
  <2>1. in' = [left EXCEPT !.pending = new]
    BY <1>1, <1>3, <1>12
  <2>2. \A i \in 1 .. Len(in.pending) : i = m + 1 => r < in.pending[i].first
    <3> SUFFICES ASSUME NEW i \in 1 .. Len(in.pending), i = m + 1
                 PROVE  r < in.pending[i].first
      OBVIOUS
    <3>1. in.pending[i].first # r
      BY <1>5, <1>9, <1>12
    <3>2. in.pending[i].first \in Nat /\ ~(in.pending[i].first < r)
      BY <1>0, <1>8, PendingIs
    <3> QED BY <1>0, <3>1, <3>2
  <2>3. new = InsertAt(in.pending, m + 1, Expect(th[t].request, TRUE, FALSE, FALSE))
    BY <1>9, <1>r
  <2> HIDE DEF new
  <2>4. /\ in'.read = left.read /\ in'.completed = left.completed /\ in'.expected = left.expected
        /\ in'.packets = left.packets /\ in'.pending = new
        /\ in'.replies = left.replies /\ in'.current = left.current /\ in'.events = left.events
    BY <1>3, <2>1 DEF InRecords
  <2>5. Fewer(in', in)
    BY <1>4, <2>4 DEF Fewer
  <2>6. Still(t)
    BY <1>1, <1>3, <2>4 DEF Still
  <2>7. /\ ~(th[t].request <= in.completed)
        /\ \A i \in 1 .. m : in.pending[i].first < th[t].request
        /\ \A i \in 1 .. Len(in.pending) : i = m + 1 => th[t].request < in.pending[i].first
        /\ in'.pending = InsertAt(in.pending, m + 1, Expect(th[t].request, TRUE, FALSE, FALSE))
    BY <1>7, <1>12, <1>r, <2>2, <2>3, <2>4
  <2> QED BY <1>1, <1>6, <2>5, <2>6, <2>7 DEF Discards
<1> QED BY <1>10, <1>11, <1>12

\* send_request numbers a request, after one with a reply if it is time for that.
Numbers(t) ==
    /\ Numbering(t, KindNow(t)) /\ Now(t) \in {"send", "sync"} /\ UNCHANGED net
    /\ out'.request = out.request + 1
    /\ KindNow(t) \in {"void", "check", "query", "sync"}
    /\ KindNow(t) \notin {"query", "sync"} => out.request # in.expected + Wire - 2

LEMMA NumbersIs ==
    ASSUME Base, NEW t \in Threads, send_request(t)
    PROVE  Drops(t) \/ Numbers(t)
<1>0. out \in OutRecords /\ th[t] \in ThreadRecords
  BY TypesAre
<1>1. /\ Now(t) \in {"send", "sync"} /\ UNCHANGED net
      /\ Now(t) = "send" => ~NeedsSync(th[t].kind)
  BY SendIs
<1>2. \/ net.error /\ Popped(t) /\ UNCHANGED <<in, out, log>> /\ Plain(t)
      \/ /\ Numbering(t, KindNow(t)) /\ Popped(t) /\ Plain(t)
         /\ out' = [out EXCEPT !.request = out.request + 1,
                               !.queue = Append(out.queue, out.request + 1)]
      \/ /\ Numbering(t, KindNow(t)) /\ Pushed(t, "outsend") /\ th'[t].wait = "run"
         /\ out' = [out EXCEPT !.request = out.request + 1, !.queue = <<>>]
         /\ th'[t].vec = Append(out.queue, out.request + 1)
  BY SendIs
<1>3. CASE UNCHANGED <<in, out, log>>
  BY <1>1, <1>3, DropsNothing
<1>4. ASSUME Numbering(t, KindNow(t)), out'.request = out.request + 1
      PROVE  Numbers(t)
  <2>1. th[t].kind \in {"void", "check", "query"}
    BY <1>0 DEF ThreadRecords
  <2>2. KindNow(t) \in {"void", "check", "query", "sync"}
    BY <2>1 DEF KindNow
  <2>3. KindNow(t) \notin {"query", "sync"} => out.request # in.expected + Wire - 2
    BY <1>1, <2>1 DEF KindNow, NeedsSync
  <2> QED BY <1>1, <1>4, <2>2, <2>3 DEF Numbers
<1>5. UNCHANGED <<in, out, log>> \/ (Numbering(t, KindNow(t)) /\ out'.request = out.request + 1)
  BY <1>0, <1>2 DEF OutRecords
<1> QED BY <1>3, <1>4, <1>5

\* What the server sends about request n, or without counting one.
Tells(p, n) ==
    /\ p \in Packets /\ p.of = n /\ p.serial = n % Wire /\ net'.wire = Append(net.wire, p)

ServerSends ==
    /\ UNCHANGED <<lock, th, in, out, log>> /\ net' \in NetRecords
    /\ \/ net'.served = net.served /\ net'.wire = net.wire
       \/ net'.served = net.served /\ \E p : Tells(p, net.served) /\ p.type = "event"
       \/ /\ net'.served = net.served + 1 /\ net.served < Len(net.socket)
          /\ \/ net'.wire = net.wire /\ ~Replied(log, net'.served)
             \/ \E p : Tells(p, net'.served) /\ p.type # "event"
                       /\ (p.type = "reply" => Replied(log, net'.served))

LEMMA ServerSendsIs ==
    ASSUME Base, Order, Serve \/ SendEvent \/ Break \/ UNCHANGED vars
    PROVE  ServerSends
<1>0. net \in NetRecords /\ net.served \in Nat /\ net.socket \in Seq(Nat) /\ net.wire \in Seq(Packets)
      /\ net.emitted \in Nat /\ Wire \in Nat \ {0}
  BY TypesAre, ConstantsAssumption DEF NetRecords
<1>1. CASE UNCHANGED vars
  BY <1>0, <1>1 DEF vars, ServerSends
<1>2. CASE Break
  BY <1>0, <1>2, BreakIs DEF ServerSends
<1>3. CASE SendEvent
  <2> DEFINE p == Packet("event", net.served)
  <2>1. UNCHANGED <<lock, th, in, out, log>> /\ net' = [net EXCEPT !.emitted = @ + 1, !.wire = Append(@, p)]
    BY <1>3 DEF SendEvent
  <2>2. net.served % Wire \in Nat
    BY <1>0, DivisionIs
  <2>3. p \in Packets /\ p.serial = net.served % Wire /\ p.of = net.served /\ p.type = "event"
    BY <1>0, <2>2 DEF Packet, Packets
  <2> HIDE DEF p
  <2>4. net' \in NetRecords
    BY <1>0, <1>3, SendEventIs
  <2>5. net'.served = net.served /\ net'.wire = Append(net.wire, p)
    BY <1>0, <2>1 DEF NetRecords
  <2>6. Tells(p, net.served)
    BY <2>3, <2>5 DEF Tells
  <2> QED BY <2>1, <2>3, <2>4, <2>5, <2>6 DEF ServerSends
<1>4. CASE Serve
  <2> DEFINE n == net.served + 1
  <2>1. UNCHANGED <<lock, th, in, out, log>> /\ net.served < Len(net.socket)
    BY <1>4 DEF Serve
  <2>2. n \in Nat /\ n \in 1 .. Len(net.socket) /\ n % Wire \in Nat
    <3>1. n \in Nat /\ n \in 1 .. Len(net.socket)
      BY <1>0, <2>1
    <3> HIDE DEF n
    <3>2. n % Wire \in Nat
      BY <1>0, <3>1, DivisionIs
    <3> QED BY <3>1, <3>2
  <2>3. net.socket[n] = n
    <3> HIDE DEF n
    <3> QED BY <2>2 DEF Order
  <2>4. PICK type \in {IF log[net.socket[n]].kind \in {"query", "sync"} THEN "reply" ELSE "none"}
                      \cup (IF Errors THEN {"error"} ELSE {}) :
          net' = [net EXCEPT !.served = n,
                             !.wire = IF type = "none" THEN @
                                      ELSE Append(@, [Packet(type, n) EXCEPT !.of = net.socket[n]])]
    BY <1>4 DEF Serve
  <2>5. /\ type \in {"reply", "none", "error"}
        /\ type = "none" => ~Replied(log, n)
        /\ type = "reply" => Replied(log, n)
    BY <2>3, <2>4 DEF Replied
  <2>6. net' \in NetRecords /\ net'.served = n
    BY <1>0, <1>4, ServeIs
  <2>7. CASE type = "none"
    <3>1. net'.wire = net.wire
      BY <1>0, <2>4, <2>7 DEF NetRecords
    <3> QED BY <2>1, <2>5, <2>6, <2>7, <3>1 DEF ServerSends
  <2>8. CASE type # "none"
    <3> DEFINE p == [Packet(type, n) EXCEPT !.of = net.socket[n]]
    <3>1. p \in Packets /\ p.serial = n % Wire /\ p.of = n /\ p.type = type
      BY <2>2, <2>3, <2>5, <2>8 DEF Packet, Packets
    <3>2. net' = [net EXCEPT !.served = n, !.wire = Append(net.wire, p)]
      BY <2>4, <2>8
    <3> HIDE DEF p
    <3>3. net'.wire = Append(net.wire, p)
      BY <1>0, <3>2 DEF NetRecords
    <3> HIDE DEF n
    <3>4. Tells(p, n) /\ p.type # "event" /\ (p.type = "reply" => Replied(log, n))
      BY <2>5, <3>1, <3>3 DEF Tells
    <3>5. net'.served = net.served + 1
      BY <2>6 DEF n
    <3> QED BY <2>1, <2>6, <3>4, <3>5 DEF ServerSends
  <2> QED BY <2>7, <2>8
<1> QED BY <1>1, <1>2, <1>3, <1>4

-----------------------------------------------------------------------------
(* The invariant of the answers                                            *)

\* What was not taken apart and what was not read; every answer can be told.
Answers ==
    /\ Answering(log, in.packets, in.completed) /\ Answering(log, net.wire, in.completed)
    /\ Before(in.packets, net.wire) /\ in.read <= in.completed + 1

Pacing == Paced(log, in.packets, net.wire, net.served, in.read, in.expected)

\* What the list of pending replies says of the requests.
Notes == Noted(log, in.pending, in.completed)

\* The answers that are kept, and the events.
Files ==
    /\ \A e \in in.replies : Filed(log, e.request, e.answers)
    /\ Filed(log, in.read, in.current)
    /\ \A i \in 1 .. Len(in.events) : Told(log, in.events[i])

\* The types that the steps need.
LEMMA FieldsAre ==
    ASSUME Base
    PROVE  /\ in.packets \in Seq(Packets) /\ net.wire \in Seq(Packets) /\ in.pending \in Seq(PendingEntries)
           /\ in.read \in Nat /\ in.completed \in Nat /\ in.expected \in Nat /\ net.served \in Nat
           /\ in.current \in Seq(Packets) /\ in.replies \subseteq ReplyEntries
           /\ in.events \in Seq(EventEntries) /\ out.request \in Nat /\ log \in Seq(LogRecords)
           /\ Len(net.socket) \in Nat
<1>1. in \in InRecords /\ out \in OutRecords /\ net \in NetRecords /\ log \in Seq(LogRecords)
  BY TypesAre
<1>2. net.socket \in Seq(Nat)
  BY <1>1 DEF NetRecords
<1> QED BY <1>1, <1>2 DEF InRecords, OutRecords, NetRecords

\* A step that only hands out,
LEMMA FilesFewer ==
    ASSUME Files, Fewer(in', in), in'.read = in.read, log' = log
    PROVE  Files'
<1>1. ASSUME NEW e \in in'.replies
      PROVE  Filed(log, e.request, e.answers)
  <2>1. PICK x \in in.replies : e.request = x.request /\ Part(e.answers, x.answers)
    BY DEF Fewer
  <2>2. Filed(log, x.request, x.answers)
    BY DEF Files
  <2>3. Filed(log, x.request, e.answers)
    BY <2>1, <2>2, FiledPart
  <2> QED BY <2>1, <2>3
<1>2. Filed(log, in.read, in'.current)
  <2>1. Filed(log, in.read, in.current) /\ Part(in'.current, in.current)
    BY DEF Files, Fewer
  <2> QED BY <2>1, FiledPart
<1>3. \A i \in 1 .. Len(in'.events) : Told(log, in'.events[i])
  BY DEF Files, Fewer, Part
<1> QED BY <1>1, <1>2, <1>3 DEF Files

LEMMA StillKeeps ==
    ASSUME NEW t, Still(t), Answers, Pacing
    PROVE  Answers' /\ Pacing'
BY DEF Still, Answers, Pacing

LEMMA DropsKeeps ==
    ASSUME NEW t \in Threads, Drops(t), Answers, Pacing, Notes, Files
    PROVE  Answers' /\ Pacing' /\ Notes' /\ Files'
<1>1. Answers' /\ Pacing'
  BY StillKeeps DEF Drops
<1>2. Notes'
  BY DEF Drops, Still, Notes
<1>3. Files'
  BY FilesFewer DEF Drops, Still
<1> QED BY <1>1, <1>2, <1>3

\* or marks the entry of a request,
LEMMA DiscardsKeeps ==
    ASSUME Base, NEW t \in Threads, Discards(t), Answers, Pacing, Notes, Files,
           th[t].request <= out.request, Len(log) = out.request
    PROVE  Answers' /\ Pacing' /\ Notes' /\ Files'
<1>0. /\ in.pending \in Seq(PendingEntries) /\ in.completed \in Nat /\ log \in Seq(LogRecords)
      /\ out.request \in Nat
  BY FieldsAre
<1>1. Answers' /\ Pacing'
  BY StillKeeps DEF Discards
<1>2. Files'
  BY FilesFewer DEF Discards, Still
<1>3. Noted(log, in'.pending, in.completed)
  <2>1. Noted(log, in.pending, in.completed)
    BY DEF Notes
  <2>2. CASE in'.pending = in.pending
    BY <2>1, <2>2
  <2>3. ASSUME NEW i \in 1 .. Len(in.pending), in'.pending = [in.pending EXCEPT ![i].discard = TRUE]
        PROVE  Noted(log, in'.pending, in.completed)
    BY <1>0, <2>1, <2>3, NotedMarked
  <2>4. ASSUME NEW k \in 0 .. Len(in.pending),
               ~(th[t].request <= in.completed),
               \A i \in 1 .. k : in.pending[i].first < th[t].request,
               \A i \in 1 .. Len(in.pending) : i = k + 1 => th[t].request < in.pending[i].first,
               in'.pending = InsertAt(in.pending, k + 1, Expect(th[t].request, TRUE, FALSE, FALSE))
        PROVE  Noted(log, in'.pending, in.completed)
    <3>1. th[t].request \in Nat
      BY TypesAre DEF ThreadRecords
    <3>2. th[t].request \in 1 .. Len(log)
      BY <1>0, <2>4, <3>1
    <3> QED BY <1>0, <2>1, <2>4, <3>2, NotedInserted
  <2> QED BY <2>2, <2>3, <2>4 DEF Discards
<1>4. Notes'
  BY <1>3 DEF Discards, Still, Notes
<1> QED BY <1>1, <1>2, <1>4

\* or numbers one.
LEMMA NumbersKeeps ==
    ASSUME Base, Order, Flow, NEW t \in Threads, Numbers(t), Answers, Pacing, Notes, Files
    PROVE  Answers' /\ Pacing' /\ Notes' /\ Files'
<1> DEFINE k == KindNow(t)
           e == [kind |-> k, by |-> t]
<1>0. /\ in.packets \in Seq(Packets) /\ net.wire \in Seq(Packets) /\ in.pending \in Seq(PendingEntries)
      /\ in.read \in Nat /\ in.completed \in Nat /\ in.expected \in Nat /\ net.served \in Nat
      /\ out.request \in Nat /\ log \in Seq(LogRecords) /\ Len(net.socket) \in Nat
      /\ Wire \in Nat /\ Wire > 2
  BY FieldsAre, ConstantsAssumption
<1>1. /\ log' = Append(log, e) /\ net' = net
      /\ k \in {"void", "check", "query", "sync"}
      /\ k \notin {"query", "sync"} => out.request # in.expected + Wire - 2
  BY DEF Numbers, Numbering
<1>2. /\ in'.packets = in.packets /\ in'.read = in.read /\ in'.completed = in.completed
      /\ in'.expected = (IF k \in {"query", "sync"} THEN out.request + 1 ELSE in.expected)
      /\ in'.pending = PendingWith(k)
      /\ in'.replies = in.replies /\ in'.current = in.current /\ in'.events = in.events
  <2>1. in \in InRecords
    BY TypesAre
  <2>2. in' = [in EXCEPT
                 !.expected = IF k \in {"query", "sync"} THEN out.request + 1 ELSE @,
                 !.pending = PendingWith(k)]
    BY DEF Numbers, Numbering
  <2> HIDE DEF k
  <2> QED BY <2>1, <2>2 DEF InRecords
<1>3. Len(log) = out.request /\ net.served <= Len(log)
  BY <1>0 DEF Order, Flow
<1> HIDE DEF k
<1>4. /\ Stream(in.packets, in.read, net.served) /\ Stream(net.wire, in.read, net.served)
  BY DEF Flow
<1>5. Answers'
  <2>1. Answering(log, in.packets, in.completed) /\ Answering(log, net.wire, in.completed)
    BY DEF Answers
  <2>2. Answering(log', in.packets, in.completed)
    BY <1>0, <1>1, <1>3, <1>4, <2>1, AnswersNumbered
  <2>3. Answering(log', net.wire, in.completed)
    BY <1>0, <1>1, <1>3, <1>4, <2>1, AnswersNumbered
  <2> QED BY <1>1, <1>2, <2>2, <2>3 DEF Answers
<1>6. Pacing'
  <2>1. Paced(log, in.packets, net.wire, net.served, in.read, in.expected)
    BY DEF Pacing
  <2>2. \/ k \in {"query", "sync"} /\ in'.expected = Len(log) + 1
        \/ k \notin {"query", "sync"} /\ in'.expected = in.expected /\ Len(log) # in.expected + Wire - 2
    BY <1>1, <1>2, <1>3
  <2>3. log' = Append(log, [kind |-> k, by |-> t])
    BY <1>1
  <2>4. Paced(log', in.packets, net.wire, net.served, in.read, in'.expected)
    BY <1>0, <1>3, <2>1, <2>2, <2>3, PacedNumbered
  <2> QED BY <1>1, <1>2, <2>4 DEF Pacing
<1>7. Notes'
  <2>1. Noted(log, in.pending, in.completed)
    BY DEF Notes
  <2>2. PICK n \in Nat : n = Len(log) + 1
    BY <1>0, <1>3
  <2>3. Listing(in.pending, in'.pending, k, n)
    BY <1>2, <1>3, <2>2 DEF PendingWith, Listing
  <2>4. log' = Append(log, [kind |-> k, by |-> t])
    BY <1>1
  <2>5. Noted(log', in'.pending, in.completed)
    BY <1>0, <1>1, <2>1, <2>2, <2>3, <2>4, NotedNumbered
  <2> QED BY <1>2, <2>5 DEF Notes
<1>8. Files'
  <2>0. PICK x : log' = Append(log, x)
    BY <1>1
  <2>1. \A r, q : Filed(log, r, q) => Filed(log', r, q)
    BY <1>0, <2>0, FiledNumbered
  <2>2. \A y : Told(log, y) => Told(log', y)
    BY <1>0, <2>0, FiledNumbered
  <2> QED BY <1>2, <2>1, <2>2 DEF Files
<1> QED BY <1>5, <1>6, <1>7, <1>8

\* What is on the wire is taken, when nothing is left to be taken apart.
LEMMA ReceiveKeeps ==
    ASSUME Base, Order, Flow, NEW t \in Threads, Receive(t), in.packets = <<>>, Answers, Pacing, Notes, Files
    PROVE  Answers' /\ Pacing' /\ Notes' /\ Files'
<1>0. /\ in.packets \in Seq(Packets) /\ net.wire \in Seq(Packets)
      /\ in.read \in Nat /\ in.completed \in Nat /\ in.expected \in Nat /\ net.served \in Nat
      /\ out.request \in Nat /\ log \in Seq(LogRecords) /\ Len(net.socket) \in Nat
      /\ Wire \in Nat /\ Wire > 2
  BY FieldsAre, ConstantsAssumption
<1>1. /\ UNCHANGED <<out, log>> /\ in' = [in EXCEPT !.packets = net.wire]
      /\ net' = [net EXCEPT !.wire = <<>>, !.error = net'.error] /\ net' \in NetRecords
  BY ReceiveIs
<1>2. /\ in'.packets = net.wire /\ in'.read = in.read /\ in'.completed = in.completed
      /\ in'.expected = in.expected /\ in'.pending = in.pending
      /\ in'.replies = in.replies /\ in'.current = in.current /\ in'.events = in.events
  <2>1. in \in InRecords
    BY TypesAre
  <2> QED BY <1>1, <2>1 DEF InRecords
<1>3. net'.wire = <<>> /\ net'.served = net.served
  <2>1. net \in NetRecords
    BY TypesAre
  <2> QED BY <1>1, <2>1 DEF NetRecords
<1>4. Len(in.packets) = 0 /\ Len(net'.wire) = 0
  BY <1>3, EmptyIs
<1>5. Answers'
  <2>1. Answering(log, net'.wire, in.completed) /\ Before(net.wire, net'.wire)
    BY <1>4 DEF Answering, Before
  <2> QED BY <1>1, <1>2, <2>1 DEF Answers
<1>6. Pacing'
  <2>1. Paced(log, in.packets, net.wire, net.served, in.read, in.expected)
    BY DEF Pacing
  <2>2. ComesToo(log, in.packets, net.wire, net.served, net.wire, net'.wire, net.served, in.read)
    BY <1>4 DEF ComesToo, Coming, About
  <2>3. in.read <= Len(log) /\ Len(log) \in Nat
    BY <1>0 DEF Flow, Order
  <2>5. Paced(log, net.wire, net'.wire, net.served, in.read, in.expected)
    BY <1>0, <2>1, <2>2, <2>3, PacedMoved
  <2> QED BY <1>1, <1>2, <1>3, <2>5 DEF Pacing
<1>7. Notes' /\ Files'
  BY <1>1, <1>2 DEF Notes, Files
<1> QED BY <1>5, <1>6, <1>7

-----------------------------------------------------------------------------
\* What read_packet makes of the packet p, of request n, with b the number up to
\* which entries are dropped.
Match(p, n)    == p.type # "event" /\ in'.pending # <<>> /\ Matches(Head(in'.pending), n)
Unwanted(p, n) == Match(p, n) /\ Head(in'.pending).discard
Given(p, n)    == p.type = "reply" \/ (p.type = "error" /\ Match(p, n) /\ Head(in'.pending).checked)
Rest(n)        == IF n # in.read THEN <<>> ELSE in.current

Parses(p, n, b) ==
    /\ UNCHANGED <<out, net, log>>
    /\ b = (IF n # in.read THEN n - 1 ELSE in.completed)
    /\ in'.packets = Tail(in.packets) /\ in'.read = n
    /\ in'.completed = (IF p.type = "error" THEN n ELSE b)
    /\ in'.expected = (IF n > in.expected THEN n ELSE in.expected)
    /\ in'.pending = DropFinished(in.pending, b)
    /\ in'.replies = in.replies \cup
         (IF n # in.read /\ in.current # <<>>
          THEN {[request |-> in.read, answers |-> in.current]} ELSE {})
    /\ in'.current = (IF Given(p, n) /\ ~Unwanted(p, n) THEN Append(Rest(n), p) ELSE Rest(n))
    /\ in'.events = (IF Given(p, n) \/ Unwanted(p, n) THEN in.events
                     ELSE Append(in.events, [type |-> p.type, of |-> p.of, seq |-> n]))

LEMMA ParsesIs ==
    ASSUME Base, NEW t \in Threads, read_packet(t)
    PROVE  \E b : Parses(Head(in.packets), Widen(Head(in.packets).serial), b)
<1> DEFINE p         == Head(in.packets)
           n         == Widen(p.serial)
           before    == IF n # in.read THEN n - 1 ELSE in.completed
           pending   == DropFinished(in.pending, before)
           completed == IF p.type = "error" THEN n ELSE before
           finished  == ReadersUpTo(completed)
           readers   == SubSeq(in.readers, finished + 1, Len(in.readers))
           match     == /\ p.type # "event" /\ pending # <<>>
                        /\ Matches(Head(pending), n)
           discard   == match /\ Head(pending).discard
           answer    == p.type = "reply"
                        \/ (p.type = "error" /\ match /\ Head(pending).checked)
           filed     == [request |-> in.read, answers |-> in.current]
           current   == IF n # in.read THEN <<>> ELSE in.current
           replies2  == IF n # in.read /\ in.current # <<>> THEN in.replies \cup {filed} ELSE in.replies
           current2  == IF answer /\ ~discard THEN Append(current, p) ELSE current
           events2   == IF answer \/ discard THEN in.events
                        ELSE Append(in.events, [type |-> p.type, of |-> p.of, seq |-> n])
           expected2 == IF n > in.expected THEN n ELSE in.expected
<1>1. in \in InRecords
  BY TypesAre
<1>2. /\ in' = [in EXCEPT
                  !.packets = Tail(in.packets), !.read = n, !.completed = completed,
                  !.expected = expected2, !.pending = pending, !.readers = readers,
                  !.replies = replies2, !.current = current2, !.events = events2]
      /\ UNCHANGED <<out, net, log>>
  BY DEF read_packet
<1>3. /\ expected2 = IF n > in.expected THEN n ELSE in.expected
      /\ completed = IF p.type = "error" THEN n ELSE before
      /\ pending = DropFinished(in.pending, before)
      /\ before = IF n # in.read THEN n - 1 ELSE in.completed
  OBVIOUS
<1>4. replies2 = in.replies \cup
         (IF n # in.read /\ in.current # <<>>
          THEN {[request |-> in.read, answers |-> in.current]} ELSE {})
  OBVIOUS
<1>5. current = Rest(n)
  BY DEF Rest
<1>6. /\ discard <=> match /\ Head(pending).discard
      /\ answer <=> p.type = "reply" \/ (p.type = "error" /\ match /\ Head(pending).checked)
      /\ match <=> p.type # "event" /\ pending # <<>> /\ Matches(Head(pending), n)
      /\ current2 = IF answer /\ ~discard THEN Append(current, p) ELSE current
      /\ events2 = IF answer \/ discard THEN in.events
                   ELSE Append(in.events, [type |-> p.type, of |-> p.of, seq |-> n])
  OBVIOUS
<1> HIDE DEF p, n, before, pending, completed, finished, readers, match, discard, answer, filed,
             current, replies2, current2, events2, expected2
<1>7. /\ in'.packets = Tail(in.packets) /\ in'.read = n /\ in'.completed = completed
      /\ in'.expected = expected2 /\ in'.pending = pending /\ in'.replies = replies2
      /\ in'.current = current2 /\ in'.events = events2
  BY <1>1, <1>2 DEF InRecords
<1>8. Match(p, n) <=> match
  BY <1>6, <1>7 DEF Match
<1>9. (Unwanted(p, n) <=> discard) /\ (Given(p, n) <=> answer)
  BY <1>6, <1>7, <1>8 DEF Unwanted, Given
<1>10. /\ in'.current = (IF Given(p, n) /\ ~Unwanted(p, n) THEN Append(Rest(n), p) ELSE Rest(n))
       /\ in'.events = (IF Given(p, n) \/ Unwanted(p, n) THEN in.events
                        ELSE Append(in.events, [type |-> p.type, of |-> p.of, seq |-> n]))
  BY <1>5, <1>6, <1>7, <1>9
<1>11. Parses(p, n, before)
  BY <1>2, <1>3, <1>4, <1>7, <1>10 DEF Parses
<1> QED BY <1>11 DEF p, n

\* The packet that is taken apart next is of the request that its short number says.
LEMMA NextPacket ==
    ASSUME Base, Order, Flow, Pacing, in.packets # <<>>, NEW p, p = Head(in.packets)
    PROVE  /\ p \in Packets /\ p.of \in Nat /\ in.read <= p.of /\ p.of <= net.served
           /\ p.of <= Len(log) /\ Widen(p.serial) = p.of
           /\ p = in.packets[1] /\ 1 \in 1 .. Len(in.packets)
<1>0. /\ in.packets \in Seq(Packets) /\ net.wire \in Seq(Packets) /\ in.read \in Nat
      /\ net.served \in Nat /\ log \in Seq(LogRecords) /\ Len(net.socket) \in Nat /\ out.request \in Nat
      /\ Wire \in Nat \ {0}
  BY FieldsAre, ConstantsAssumption
<1>1. p = in.packets[1] /\ 1 \in 1 .. Len(in.packets) /\ Len(in.packets) \in Nat
  BY <1>0
<1>2. p \in Packets /\ p.of \in Nat
  BY <1>0, <1>1, PacketIs
<1>3. in.read <= p.of /\ p.of <= net.served /\ p.serial = p.of % Wire
  BY <1>1 DEF Flow, Stream
<1>4. Len(log) \in Nat /\ net.served <= Len(log)
  BY <1>0 DEF Flow, Order
<1>5. p.of <= Len(log) /\ in.read \in in.read .. Len(log)
  BY <1>0, <1>2, <1>3, <1>4
<1>6. Spaced(log, in.packets, net.wire, net.served, in.read)
  BY <1>5 DEF Pacing, Paced
<1>7. p.of < in.read + Wire
  <2>1. CASE Len(log) <= in.read + Wire - 2
    BY <1>0, <1>2, <1>4, <1>5, <2>1
  <2>2. ASSUME NEW m \in 1 .. Len(log), m < in.read + Wire,
               Coming(log, in.packets, net.wire, net.served, m)
        PROVE  p.of < in.read + Wire
    <3>1. CASE About(in.packets, m)
      <4>1. PICK i \in 1 .. Len(in.packets) : in.packets[i].of = m
        BY <3>1 DEF About
      <4>2. 1 \in 1 .. i
        BY <1>1
      <4>3. p.of <= m
        BY <1>1, <4>1, <4>2 DEF Flow, Stream
      <4> QED BY <1>0, <1>2, <2>2, <4>3
    <3>2. CASE About(net.wire, m)
      <4>1. PICK j \in 1 .. Len(net.wire) : net.wire[j].of = m
        BY <3>2 DEF About
      <4>2. p.of <= m
        BY <1>1, <4>1 DEF Flow, Later
      <4> QED BY <1>0, <1>2, <2>2, <4>2
    <3>3. CASE net.served < m
      BY <1>0, <1>2, <1>3, <2>2, <3>3
    <3> QED BY <2>2, <3>1, <3>2, <3>3 DEF Coming
  <2> QED BY <1>6, <2>1, <2>2 DEF Spaced
<1>8. Widen(p.of % Wire) = p.of
  BY <1>0, <1>2, <1>3, <1>7, WidenWithin
<1> QED BY <1>1, <1>2, <1>3, <1>5, <1>8

\* What read_packet keeps, part by part.
LEMMA ParsesAnswers ==
    ASSUME Base, Order, Flow, Pacing, Answers, in.packets # <<>>, NEW p, p = Head(in.packets),
           NEW n, n = p.of, NEW b, Parses(p, n, b)
    PROVE  /\ Answers' /\ Pacing' /\ b \in Int /\ in.completed <= b /\ b <= in'.completed
           /\ in'.completed \in Nat /\ (p.type # "event" => n = b + 1 /\ n \in 1 .. Len(log))
           /\ p.type = "reply" => Replied(log, n)
<1>0. /\ in.packets \in Seq(Packets) /\ net.wire \in Seq(Packets) /\ in.read \in Nat
      /\ in.completed \in Nat /\ in.expected \in Nat
      /\ net.served \in Nat /\ log \in Seq(LogRecords) /\ Len(log) \in Nat /\ Wire \in Nat /\ Wire > 2
  BY FieldsAre, ConstantsAssumption
<1>1. /\ p \in Packets /\ n \in Nat /\ in.read <= n /\ n <= Len(log)
      /\ p = in.packets[1] /\ 1 \in 1 .. Len(in.packets)
  BY NextPacket
<1>2. in.completed <= in.read /\ in.read <= in.completed + 1
  BY DEF Flow, Answers
<1>3. /\ b = (IF n # in.read THEN n - 1 ELSE in.completed) /\ in'.read = n
      /\ in'.completed = (IF p.type = "error" THEN n ELSE b)
      /\ in'.expected = (IF n > in.expected THEN n ELSE in.expected)
      /\ in'.packets = Tail(in.packets) /\ net' = net /\ log' = log
  BY DEF Parses
<1>4. /\ b \in Int /\ in.completed <= b /\ b <= in'.completed /\ in'.completed \in Nat
      /\ in'.completed <= n /\ n <= in'.completed + 1
  BY <1>0, <1>1, <1>2, <1>3
<1>5. p.type # "event" => in.completed < n
  BY <1>1 DEF Answers, Answering
<1>6. p.type # "event" => n = b + 1 /\ n \in 1 .. Len(log)
  BY <1>0, <1>1, <1>2, <1>3, <1>5
<1>7. p.type = "reply" => Replied(log, n)
  BY <1>1 DEF Answers, Answering
<1>8. Answers'
  <2>1. /\ Answering(log, in.packets, in.completed) /\ Answering(log, net.wire, in.completed)
        /\ Before(in.packets, net.wire)
    BY DEF Answers
  <2>2. in'.completed <= Head(in.packets).of
    BY <1>4
  <2>3. Answering(log, Tail(in.packets), in'.completed)
    BY <1>0, <1>4, <2>1, <2>2, AnswersTail
  <2>4. Answering(log, net.wire, in'.completed)
    BY <1>0, <1>4, <2>1, <2>2, AnswersTail
  <2>5. Before(Tail(in.packets), net.wire)
    BY <1>0, <1>4, <2>1, <2>2, AnswersTail
  <2> QED BY <1>3, <1>4, <2>3, <2>4, <2>5 DEF Answers
<1>9. Pacing'
  <2> DEFINE r == Tail(in.packets)
  <2>1. ASSUME NEW m \in 1 .. Len(log), n < m, About(in.packets, m)
        PROVE  About(r, m)
    <3>1. PICK i \in 1 .. Len(in.packets) : in.packets[i].of = m
      BY <2>1 DEF About
    <3>2. i # 1
      BY <1>1, <2>1, <3>1
    <3>3. Len(r) = Len(in.packets) - 1 /\ Len(in.packets) \in Nat
          /\ \A k \in 1 .. Len(in.packets) - 1 : r[k] = in.packets[k + 1]
      BY <1>0
    <3> HIDE DEF r
    <3>4. i - 1 \in 1 .. Len(r) /\ (i - 1) + 1 = i
      BY <3>2, <3>3
    <3>5. r[i - 1] = in.packets[(i - 1) + 1]
      BY <3>3, <3>4
    <3>6. r[i - 1].of = m
      BY <3>1, <3>4, <3>5
    <3> QED BY <3>4, <3>6 DEF About
  <2>2. r = Tail(in.packets)
    OBVIOUS
  <2> HIDE DEF r
  <2>3. ComesToo(log, in.packets, net.wire, net.served, r, net.wire, net.served, n)
    BY <2>1 DEF ComesToo, Coming
  <2>4. Paced(log, in.packets, net.wire, net.served, in.read, in.expected)
    BY DEF Pacing
  <2>5. Paced(log, r, net.wire, net.served, n, in'.expected)
    BY <1>0, <1>1, <1>3, <2>3, <2>4, PacedKept
  <2> QED BY <1>3, <2>2, <2>5 DEF Pacing
<1> QED BY <1>4, <1>6, <1>7, <1>8, <1>9

LEMMA ReadPacketKeeps ==
    ASSUME Base, Order, Flow, NEW t \in Threads, read_packet(t), Answers, Pacing, Notes, Files
    PROVE  Answers' /\ Pacing' /\ Notes' /\ Files'
<1>0. /\ in.packets \in Seq(Packets) /\ in.pending \in Seq(PendingEntries) /\ in.read \in Nat
      /\ in.completed \in Nat /\ in.current \in Seq(Packets) /\ in.events \in Seq(EventEntries)
      /\ log \in Seq(LogRecords) /\ Len(log) \in Nat
  BY FieldsAre
<1>1. in.packets # <<>>
  <2>1. Now(t) = "packets"
    BY BaseIs DEF read_packet
  <2> QED BY <2>1 DEF Flow
<1>2. PICK p : p = Head(in.packets)
  OBVIOUS
<1>3. /\ p \in Packets /\ p.of \in Nat /\ Widen(p.serial) = p.of /\ in.read <= p.of
  BY <1>1, <1>2, NextPacket
<1>4. PICK n \in Nat : n = p.of
  BY <1>3
<1>5. n = Widen(p.serial)
  BY <1>3, <1>4
<1>6. PICK b : Parses(p, n, b)
  BY <1>2, <1>5, ParsesIs
<1>7. /\ Answers' /\ Pacing' /\ b \in Int /\ in.completed <= b /\ b <= in'.completed
      /\ in'.completed \in Nat /\ (p.type # "event" => n = b + 1 /\ n \in 1 .. Len(log))
      /\ p.type = "reply" => Replied(log, n)
  BY <1>1, <1>2, <1>4, <1>6, ParsesAnswers
<1> DEFINE q == in'.pending
<1>q. q = in'.pending
  OBVIOUS
<1>8. q = DropFinished(in.pending, b) /\ log' = log
  BY <1>6 DEF Parses
<1> HIDE DEF q
<1>9. Noted(log, in.pending, in.completed)
  BY DEF Notes
<1>10. /\ Noted(log, q, b) /\ q \in Seq(PendingEntries)
       /\ q # <<>> => Head(q) = q[1] /\ 1 \in 1 .. Len(q) /\ b < Head(q).first
  BY <1>0, <1>7, <1>8, <1>9, NotedDropped
<1>11. Notes'
  <2>1. Noted(log, q, in'.completed)
    BY <1>0, <1>7, <1>10, NotedLater
  <2> QED BY <1>q, <1>8, <2>1 DEF Notes
<1>12. ASSUME p.type # "event"
       PROVE  /\ log[n].kind # "void" => q # <<>> /\ Matches(Head(q), n)
              /\ q # <<>> /\ Matches(Head(q), n) => Entry(log, Head(q)) /\ Head(q).first = n
  <2>1. n = b + 1 /\ n \in 1 .. Len(log)
    BY <1>7, <1>12
  <2> QED BY <1>0, <1>7, <1>10, <2>1, NotedNext
<1>13. p.type \in {"reply", "error", "event"}
  BY <1>3 DEF Packets
<1>14. Match(p, n) => Entry(log, Head(q)) /\ Head(q).first = n
  BY <1>12, <1>q DEF Match
<1>15. ASSUME Given(p, n), ~Unwanted(p, n)
       PROVE  Kept(log, n)
  <2>1. Match(p, n)
    <3>1. CASE p.type = "reply"
      <4>1. log[n].kind # "void"
        BY <1>7, <3>1 DEF Replied
      <4> QED BY <1>12, <1>q, <3>1, <4>1 DEF Match
    <3>2. CASE p.type # "reply"
      BY <1>15, <3>2 DEF Given
    <3> QED BY <3>1, <3>2
  <2>2. ~Head(q).discard
    BY <1>15, <1>q, <2>1 DEF Unwanted
  <2> QED BY <1>14, <2>1, <2>2 DEF Entry
<1>16. ASSUME ~Given(p, n), ~Unwanted(p, n), p.type # "event"
       PROVE  p.type = "error" /\ n \in 1 .. Len(log) /\ log[n].kind = "void"
  <2>1. p.type = "error"
    BY <1>13, <1>16 DEF Given
  <2>2. ~Match(p, n)
    BY <1>14, <1>16, <1>q, <2>1 DEF Given, Unwanted, Entry
  <2>3. log[n].kind = "void"
    BY <1>12, <1>16, <1>q, <2>2 DEF Match
  <2> QED BY <1>7, <2>1, <2>3
<1>17. \A e \in in'.replies : Filed(log, e.request, e.answers)
  <2>1. \A e \in in.replies : Filed(log, e.request, e.answers)
    BY DEF Files
  <2>2. Filed(log, in.read, in.current)
    BY DEF Files
  <2>3. in'.replies = in.replies \cup
         (IF n # in.read /\ in.current # <<>>
          THEN {[request |-> in.read, answers |-> in.current]} ELSE {})
    BY <1>6 DEF Parses
  <2> QED BY <2>1, <2>2, <2>3
<1>18. Filed(log, n, in'.current)
  <2>1. Rest(n) \in Seq(Packets) /\ Filed(log, n, Rest(n))
    <3>1. CASE n = in.read
      <4>1. Rest(n) = in.current
        BY <3>1 DEF Rest
      <4> QED BY <1>0, <3>1, <4>1 DEF Files
    <3>2. CASE n # in.read
      <4>1. Rest(n) = <<>>
        BY <3>2 DEF Rest
      <4>2. Len(Rest(n)) = 0
        BY <4>1, EmptyIs
      <4> QED BY <4>1, <4>2, EmptySeq DEF Filed
    <3> QED BY <3>1, <3>2
  <2>2. CASE Given(p, n) /\ ~Unwanted(p, n)
    <3>1. in'.current = Append(Rest(n), p)
      BY <1>6, <2>2 DEF Parses
    <3>2. Kept(log, n)
      BY <1>15, <2>2
    <3>3. Filed(log, n, Append(Rest(n), p))
      BY <1>3, <1>4, <2>1, <3>2, FiledMore
    <3> QED BY <3>1, <3>3
  <2>3. CASE ~(Given(p, n) /\ ~Unwanted(p, n))
    <3>1. in'.current = Rest(n)
      BY <1>6, <2>3 DEF Parses
    <3> QED BY <2>1, <3>1
  <2> QED BY <2>2, <2>3
<1>19. \A i \in 1 .. Len(in'.events) : Told(log, in'.events[i])
  <2>1. \A i \in 1 .. Len(in.events) : Told(log, in.events[i])
    BY DEF Files
  <2>2. CASE Given(p, n) \/ Unwanted(p, n)
    <3>1. in'.events = in.events
      BY <1>6, <2>2 DEF Parses
    <3> QED BY <2>1, <3>1
  <2>3. CASE ~(Given(p, n) \/ Unwanted(p, n))
    <3>1. PICK x : x = [type |-> p.type, of |-> p.of, seq |-> n]
      OBVIOUS
    <3>2. x \in EventEntries /\ x.type = p.type /\ x.of = n /\ x.seq = n
      BY <1>4, <1>13, <3>1 DEF EventEntries
    <3>3. Told(log, x)
      BY <1>16, <2>3, <3>2 DEF Told
    <3>4. in'.events = Append(in.events, x)
      BY <1>6, <2>3, <3>1 DEF Parses
    <3> QED BY <1>0, <2>1, <3>2, <3>3, <3>4, ToldMore
  <2> QED BY <2>2, <2>3
<1>20. Files'
  BY <1>6, <1>8, <1>17, <1>18, <1>19 DEF Files, Parses
<1> QED BY <1>7, <1>11, <1>20

-----------------------------------------------------------------------------
\* The server answers requests that it counts, or sends an event.
LEMMA ServerSendsKeeps ==
    ASSUME Base, Order, Flow, ServerSends, Answers, Pacing, Notes, Files
    PROVE  Answers' /\ Pacing' /\ Notes' /\ Files'
<1>0. /\ in.packets \in Seq(Packets) /\ net.wire \in Seq(Packets) /\ in.read \in Nat
      /\ in.completed \in Nat /\ in.expected \in Nat /\ net.served \in Nat
      /\ log \in Seq(LogRecords) /\ Len(log) \in Nat /\ Wire \in Nat /\ Wire > 2
  BY FieldsAre, ConstantsAssumption
<1>1. in' = in /\ log' = log
  BY DEF ServerSends
<1>2. Notes' /\ Files'
  BY <1>1 DEF Notes, Files
<1>3. /\ Stream(in.packets, in.read, net.served) /\ Stream(net.wire, in.read, net.served)
      /\ in.completed <= net.served
  BY <1>0 DEF Flow
<1>4. /\ Answering(log, in.packets, in.completed) /\ Answering(log, net.wire, in.completed)
      /\ Before(in.packets, net.wire) /\ in.read <= in.completed + 1
  BY DEF Answers
<1>5. ASSUME NEW x, NEW n, Tells(x, n), x.type # "event" => n = net.served + 1,
             x.type = "reply" => Replied(log, n)
      PROVE  Answering(log, net'.wire, in.completed) /\ Before(in.packets, net'.wire)
  <2>1. x \in Packets /\ x.of = n /\ net'.wire = Append(net.wire, x)
    BY <1>5 DEF Tells
  <2>2. PICK k \in Nat : k = net.served + 1
    BY <1>0
  <2>3. Longest(log, net.wire, x, net'.wire, k)
    BY <1>5, <2>1, <2>2 DEF Longest
  <2>5. Answering(log, net'.wire, in.completed)
    BY <1>0, <1>3, <1>4, <2>2, <2>3, AnswersMore
  <2>6. Before(in.packets, net'.wire)
    BY <1>0, <1>3, <1>4, <2>2, <2>3, AnswersMore
  <2> QED BY <2>5, <2>6
<1>6. Answering(log, net'.wire, in.completed) /\ Before(in.packets, net'.wire)
  <2>1. CASE net'.wire = net.wire
    BY <1>4, <2>1
  <2>2. ASSUME NEW x, Tells(x, net.served), x.type = "event"
        PROVE  Answering(log, net'.wire, in.completed) /\ Before(in.packets, net'.wire)
    BY <1>5, <2>2
  <2>3. ASSUME NEW x, Tells(x, net'.served), net'.served = net.served + 1,
               x.type = "reply" => Replied(log, net'.served)
        PROVE  Answering(log, net'.wire, in.completed) /\ Before(in.packets, net'.wire)
    BY <1>5, <2>3
  <2> QED BY <2>1, <2>2, <2>3 DEF ServerSends
<1>7. Answers'
  BY <1>1, <1>4, <1>6 DEF Answers
<1>8. ASSUME NEW x, NEW n, Tells(x, n)
      PROVE  About(net'.wire, n) /\ \A m : About(net.wire, m) => About(net'.wire, m)
  <2>1. x \in Packets /\ x.of = n /\ net'.wire = Append(net.wire, x)
    BY <1>8 DEF Tells
  <2>2. PICK z \in Nat : z = Len(net.wire) + 1
    BY <1>0
  <2>3. Longer(net.wire, x, net'.wire, z)
    BY <1>0, <2>1, <2>2, AppendIs
  <2>4. z \in 1 .. Len(net'.wire) /\ net'.wire[z] = x
    BY <2>3 DEF Longer
  <2>5. \A i \in 1 .. Len(net.wire) : i \in 1 .. Len(net'.wire) /\ net'.wire[i] = net.wire[i]
    BY <2>3 DEF Longer
  <2> QED BY <2>1, <2>4, <2>5 DEF About
<1>9. \A m : About(net.wire, m) => About(net'.wire, m)
  <2>1. net'.wire = net.wire \/ \E x, n : Tells(x, n)
    BY DEF ServerSends
  <2> QED BY <1>8, <2>1
<1>10. ASSUME NEW m \in 1 .. Len(log), net.served < m, Replied(log, m)
       PROVE  net'.served < m \/ About(net'.wire, m)
  <2>1. CASE net'.served = net.served
    BY <1>10, <2>1
  <2>2. ASSUME net'.served = net.served + 1, net'.served = m
        PROVE  About(net'.wire, m)
    <3>1. \E x : Tells(x, m)
      BY <1>0, <1>10, <2>2 DEF ServerSends
    <3> QED BY <1>8, <3>1
  <2>3. ASSUME net'.served = net.served + 1, net'.served # m
        PROVE  net'.served < m
    BY <1>0, <1>10, <2>3
  <2>4. net'.served = net.served \/ net'.served = net.served + 1
    BY DEF ServerSends
  <2> QED BY <2>1, <2>2, <2>3, <2>4
<1>11. Pacing'
  <2>1. Paced(log, in.packets, net.wire, net.served, in.read, in.expected)
    BY DEF Pacing
  <2>2. ComesToo(log, in.packets, net.wire, net.served, in.packets, net'.wire, net'.served, in.read)
    BY <1>9, <1>10 DEF ComesToo, Coming
  <2>3. Paced(log, in.packets, net'.wire, net'.served, in.read, in.expected)
    BY <1>0, <2>1, <2>2, PacedMoved
  <2> QED BY <1>1, <2>3 DEF Pacing
<1> QED BY <1>2, <1>7, <1>11

-----------------------------------------------------------------------------
(* The invariant: nobody takes the socket over, nothing is left unread     *)

\* XCB has the socket all the time.
Alone == out.returnSocket = NoThread

\* Packets that were received are taken apart before the lock is given up.
Unread == in.packets # <<>> => \E t \in Threads : Now(t) = "packets"

\* A call is about a request that was numbered.
Asked == \A t \in Threads : Now(t) # "end" => th[t].request <= out.request

\* What nobody does as long as no thread is an owner.
LEMMA NobodyTakes ==
    ASSUME Owners = {}, Base, Socket, Alone, NEW t \in Threads
    PROVE  Now(t) \notin {"take", "gotback", "writev"}
<1>1. Ownership /\ Takes
  BY DEF Socket
<1>2. t # NoThread
  BY ConstantsAssumption
<1>3. Now(t) # "take"
  BY <1>1 DEF Takes, InTake, Take
<1>4. Now(t) # "gotback"
  BY <1>1 DEF Ownership, Alone
<1>5. Now(t) # "writev"
  BY <1>1, <1>2 DEF Ownership, Takes, Alone
<1> QED BY <1>3, <1>4, <1>5

LEMMA AloneNext ==
    ASSUME Owners = {}, Base, Socket, Alone, NEW t \in Threads, ThreadStep(t)
    PROVE  Alone'
<1>0. out \in OutRecords
  BY TypesAre
<1>1. Now(t) \notin {"take", "gotback", "writev"}
  BY NobodyTakes
<1>2. CASE Quiet(t)
  BY <1>0, <1>1, <1>2 DEF Quiet, Simple, Moves, GivesBack, HandsOut, Queues, Owns, Inserts, Removes, Called,
     Alone, OutRecords
<1>3. CASE Sends(t)
  BY <1>0, <1>1, <1>3 DEF Sends, SendsNow, Flushes, WritesOwn, SentAll, PollsToWrite, Writes, Alone, OutRecords
<1>4. CASE Reads(t) \/ LetsGo(t)
  BY <1>0, <1>1, <1>4 DEF Reads, LooksAt, Receives, ReadsPacket, ReadsOn, PollsToRead, Returned, LetsGo,
     Polling, Alone
<1> QED BY <1>2, <1>3, <1>4 DEF ThreadStep

\* A step of a call, by what it does to the answers.
Takings(t) == Drops(t) \/ Discards(t) \/ Numbers(t) \/ Receive(t) \/ read_packet(t)

LEMMA TakingsAre ==
    ASSUME Owners = {}, Base, Socket, Alone, NEW t \in Threads, Running(t)
    PROVE  Takings(t)
<1>1. Now(t) \notin {"take", "gotback", "writev"}
  BY NobodyTakes
<1>2. ~GotSocketBack(t) /\ ~TakeSocket(t) /\ ~Writev(t)
  BY <1>1, BaseIs DEF GotSocketBack, TakeSocket, Writev
<1>3. CASE Sending(t)
  BY <1>2, <1>3, SendingDrops, WritingDrops, NumbersIs DEF Sending, Takings
<1>4. CASE Reading(t)
  BY <1>4, WaitingDrops, AnsweringDrops, DiscardsIs DEF Reading, Takings
<1>5. CASE PollReturns(t) \/ return_socket(t)
  BY <1>5, OutsideDrops DEF Takings
<1> QED BY <1>3, <1>4, <1>5 DEF Running

\* The thread is in a call.
LEMMA RunningIs ==
    ASSUME Base, NEW t \in Threads, Running(t)
    PROVE  Now(t) # "end"
<1>1. CASE PollReturns(t) \/ return_socket(t)
  <2>1. Returned(t) \/ LetsGo(t)
    BY <1>1, OutsideStep
  <2> QED BY <2>1 DEF Returned, LetsGo
<1>2. CASE Sending(t)
  <2>1. \E x : At(t, x)
    BY <1>2 DEF Sending, PrepareSocketRequest, PrepareWritable, get_socket_back, GotSocketBack,
       SyncBeforeWrap, send_request, ReturnCookie, OutSend, Polled, WriteVec, FlushTo, WaitFlushed, FlushAll,
       TakeFlush, TakeSocket, Writev
  <2> QED BY <2>1, BaseIs
<1>3. CASE Reading(t)
  <2>1. \E x : At(t, x)
    BY <1>3 DEF Reading, Receive, read_packet, ReaderPolled, WaitForReply, InsertReader, ReplyLoop,
       RemoveReader, WakeNext, EventLoop, RequestCheck, CheckFlush, PollForReply, PollForEvent, DiscardReply
  <2> QED BY <2>1, BaseIs
<1> QED BY <1>1, <1>2, <1>3 DEF Running

\* The thread asks for nothing or for the answer to a request of its own.
LEMMA CallingAsks ==
    ASSUME Base, NEW t \in Threads, Calling(t)
    PROVE  th'[t].request = 0 \/ th'[t].request \in th[t].cookies
<1>0. th \in [Threads -> ThreadRecords] /\ th[t] \in ThreadRecords
  BY TypesAre
<1>1. ASSUME NEW op, NEW k, NEW r, Call(t, op, k, r)
      PROVE  th'[t].request = r
  BY <1>0, <1>1 DEF Call, ThreadRecords
<1>2. CASE xcb_send_request(t) \/ xcb_wait_for_event(t) \/ xcb_poll_for_event(t) \/ xcb_flush(t)
           \/ xcb_take_socket(t) \/ xcb_writev(t)
  <2>1. \E op, k : Call(t, op, k, 0)
    BY <1>2, Zenon DEF xcb_send_request, xcb_wait_for_event, xcb_poll_for_event, xcb_flush, xcb_take_socket,
       xcb_writev
  <2> QED BY <1>1, <2>1
<1>3. CASE xcb_wait_for_reply(t) \/ xcb_request_check(t) \/ xcb_poll_for_reply(t) \/ xcb_discard_reply(t)
  <2>1. \E op, k : \E r \in th[t].cookies : Call(t, op, k, r)
    BY <1>3, Zenon DEF xcb_wait_for_reply, xcb_request_check, xcb_poll_for_reply, xcb_discard_reply
  <2> QED BY <1>1, <2>1
<1> QED BY <1>2, <1>3 DEF Calling

\* Nobody is taking packets apart while another thread does a step.
LEMMA NothingUnread ==
    ASSUME Base, Unread, NEW t \in Threads, ThreadStep(t), Now(t) # "packets"
    PROVE  in.packets = <<>>
<1>1. \A v \in Threads \ {t} : Now(v) \in Unlocked \cup {"end"}
  BY StepTypes
<1> QED BY <1>1 DEF Unread, Unlocked

LEMMA UnreadNext ==
    ASSUME Base, Flow, Unread, NEW t \in Threads, ThreadStep(t), Takings(t)
    PROVE  Unread'
<1>0. in \in InRecords /\ in.packets \in Seq(Packets)
  BY TypesAre DEF InRecords
<1>1. CASE Drops(t) \/ Discards(t) \/ Numbers(t)
  <2>1. in'.packets = in.packets
    BY <1>0, <1>1 DEF Drops, Discards, Still, Numbers, Numbering, InRecords
  <2>2. Now(t) # "packets"
    BY <1>1 DEF Drops, Discards, Still, Numbers
  <2> QED BY <2>1, <2>2, NothingUnread DEF Unread
<1>2. CASE Receive(t)
  <2>1. /\ in' = [in EXCEPT !.packets = net.wire]
        /\ net.wire = <<>> \/ Pushed(t, "packets")
    BY <1>2, ReceiveIs
  <2> QED BY <1>0, <2>1 DEF Unread, Pushed, InRecords
<1>3. CASE read_packet(t)
  <2>1. Now(t) = "packets"
    BY <1>3, BaseIs DEF read_packet
  <2>2. in.packets # <<>> /\ Wire \in Nat \ {0}
    BY <2>1, ConstantsAssumption DEF Flow
  <2>3. /\ Popped(t) \/ Pushed(t, "packets")
        /\ Popped(t) <=> Len(in.packets) = 1
        /\ in'.packets = Tail(in.packets)
    BY <1>3, <2>2, ReadPacketIs
  <2>4. CASE Len(in.packets) = 1
    <3>2. Tail(in.packets) \in Seq(Packets) /\ Len(Tail(in.packets)) = 0
      BY <1>0, <2>2, <2>4
    <3>1. Tail(in.packets) = <<>>
      <4>1. ASSUME Tail(in.packets) # <<>> PROVE FALSE
        <5>1. Len(Tail(in.packets)) \in Nat \ {0}
          BY <3>2, <4>1, EmptySeq
        <5> QED BY <3>2, <5>1
      <4> QED BY <4>1
    <3> QED BY <2>3, <3>1 DEF Unread
  <2>5. CASE Len(in.packets) # 1
    BY <2>3, <2>5 DEF Unread, Pushed
  <2> QED BY <2>4, <2>5
<1> QED BY <1>1, <1>2, <1>3 DEF Takings

LEMMA AskedNext ==
    ASSUME Base, Cookies, Asked, NEW t \in Threads, ThreadStep(t),
           Calling(t) \/ (Running(t) /\ Takings(t))
    PROVE  Asked'
<1>0. /\ out.request \in Nat /\ out'.request \in Nat
      /\ \A v \in Threads : th[v].request \in Nat
      /\ \A v \in Threads \ {t} : SameThread(v)
      /\ Moved(t) \/ Resumed(t) \/ Called(t)
  BY TypesAre, StepTypes DEF OutRecords, ThreadRecords
<1>1. out'.request = out.request \/ out'.request = out.request + 1
  <2>1. CASE Calling(t)
    BY <2>1, CallingIs DEF Called
  <2>2. CASE Drops(t) \/ Discards(t) \/ Numbers(t)
    BY <2>2 DEF Drops, Discards, Still, Numbers
  <2>3. CASE Receive(t) \/ read_packet(t)
    BY <2>3 DEF Receive, read_packet
  <2> QED BY <2>1, <2>2, <2>3 DEF Takings
<1>2. ASSUME NEW v \in Threads \ {t}, Now(v)' # "end"
      PROVE  th'[v].request <= out'.request
  <2>1. Now(v) # "end" /\ th'[v].request = th[v].request
    BY <1>0, <1>2 DEF SameThread
  <2>2. th[v].request <= out.request
    BY <2>1 DEF Asked
  <2> QED BY <1>0, <1>1, <2>1, <2>2
<1>3. ASSUME Now(t)' # "end"
      PROVE  th'[t].request <= out'.request
  <2>1. CASE Calling(t)
    <3>1. th'[t].request = 0 \/ th'[t].request \in 1 .. out.request
      BY <2>1, CallingAsks DEF Cookies
    <3> QED BY <1>0, <1>1, <3>1
  <2>2. CASE Running(t)
    <3>1. Now(t) # "end"
      BY <2>2, RunningIs
    <3>2. th'[t].request = th[t].request
      BY <1>0, <1>3, <3>1 DEF Moved, Resumed, Called
    <3>3. th[t].request <= out.request
      BY <3>1 DEF Asked
    <3> QED BY <1>0, <1>1, <3>2, <3>3
  <2> QED BY <2>1, <2>2
<1>4. \A v \in Threads : Now(v)' # "end" => th'[v].request <= out'.request
  BY <1>2, <1>3
<1> QED BY <1>4 DEF Asked

-----------------------------------------------------------------------------
(* All of it together                                                      *)

Filing == Answers /\ Pacing /\ Notes /\ Files

FInv == IInv /\ Alone /\ Unread /\ Asked /\ Filing

LEMMA InitFiling == Init => FInv
<1> SUFFICES ASSUME Init
             PROVE  FInv
  OBVIOUS
<1>1. IInv
  BY InitIs
<1>2. /\ in.packets = <<>> /\ net.wire = <<>> /\ in.pending = <<>> /\ in.current = <<>>
      /\ in.events = <<>> /\ in.replies = {} /\ in.read = 0 /\ in.completed = 0 /\ in.expected = 0
      /\ net.served = 0 /\ log = <<>> /\ out.returnSocket = NoThread
  BY DEF Init
<1>3. /\ Len(in.packets) = 0 /\ Len(net.wire) = 0 /\ Len(in.pending) = 0 /\ Len(in.current) = 0
      /\ Len(in.events) = 0 /\ Len(log) = 0
  BY <1>2, EmptyIs
<1>4. Alone /\ Unread
  BY <1>2 DEF Alone, Unread
<1>5. Asked
  <2>1. \A t \in Threads : Now(t) = "end"
    BY InitBase
  <2> QED BY <2>1 DEF Asked
<1>6. Answers
  BY <1>2, <1>3 DEF Answers, Answering, Before
<1>7. Pacing
  <2>1. Wire \in Nat /\ Wire > 2
    BY ConstantsAssumption
  <2>2. \A n \in 0 .. 0 : 0 <= n + Wire - 2
    BY <2>1
  <2> QED BY <1>2, <1>3, <2>1, <2>2 DEF Pacing, Paced, Spaced
<1>8. Notes
  BY <1>2, <1>3 DEF Notes, Noted, Ascending
<1>9. Files
  BY <1>2, <1>3 DEF Files, Filed
<1> QED BY <1>1, <1>4, <1>5, <1>6, <1>7, <1>8, <1>9 DEF FInv, Filing

\* A step of a thread keeps it,
LEMMA ThreadFiles ==
    ASSUME Owners = {}, FInv, NEW t \in Threads, Calling(t) \/ Running(t)
    PROVE  Alone' /\ Unread' /\ Asked' /\ Filing'
<1>1. Base /\ Socket /\ Order /\ Cookies /\ Flow /\ Alone /\ Unread /\ Asked
  BY DEF FInv, IInv
<1>2. Answers /\ Pacing /\ Notes /\ Files
  BY DEF FInv, Filing
<1>3. ThreadStep(t)
  <2>1. Ready
    BY ReadyIs DEF FInv
  <2> QED BY <1>1, <2>1, CallingIs, SendingStep, ReadingStep, OutsideStep DEF Running, ThreadStep, Quiet, Reads
<1>4. Alone'
  BY <1>1, <1>3, AloneNext
<1>5. Calling(t) => Drops(t)
  BY <1>1, CallingDrops
<1>6. Takings(t)
  BY <1>1, <1>5, TakingsAre DEF Takings
<1>7. Unread'
  BY <1>1, <1>3, <1>6, UnreadNext
<1>8. Asked'
  BY <1>1, <1>3, <1>6, AskedNext
<1>9. CASE Drops(t)
  BY <1>2, <1>4, <1>7, <1>8, <1>9, DropsKeeps DEF Filing
<1>10. CASE Discards(t)
  <2>1. Now(t) = "discard"
    BY <1>10 DEF Discards
  <2>2. th[t].request <= out.request /\ Len(log) = out.request
    BY <1>1, <2>1 DEF Asked, Order
  <2>3. Answers' /\ Pacing' /\ Notes' /\ Files'
    BY <1>1, <1>2, <1>10, <2>2, DiscardsKeeps
  <2> QED BY <1>4, <1>7, <1>8, <2>3 DEF Filing
<1>11. CASE Numbers(t)
  <2>1. Answers' /\ Pacing' /\ Notes' /\ Files'
    BY <1>1, <1>2, <1>11, NumbersKeeps
  <2> QED BY <1>4, <1>7, <1>8, <2>1 DEF Filing
<1>12. CASE Receive(t)
  <2>1. Now(t) = "read"
    BY <1>1, <1>12, BaseIs DEF Receive
  <2>2. in.packets = <<>>
    BY <1>1, <1>3, <2>1, NothingUnread
  <2>3. Answers' /\ Pacing' /\ Notes' /\ Files'
    BY <1>1, <1>2, <1>12, <2>2, ReceiveKeeps
  <2> QED BY <1>4, <1>7, <1>8, <2>3 DEF Filing
<1>13. CASE read_packet(t)
  <2>1. Answers' /\ Pacing' /\ Notes' /\ Files'
    BY <1>1, <1>2, <1>13, ReadPacketKeeps
  <2> QED BY <1>4, <1>7, <1>8, <2>1 DEF Filing
<1> QED BY <1>6, <1>9, <1>10, <1>11, <1>12, <1>13 DEF Takings

\* and one of the server does.
LEMMA ServerFiles ==
    ASSUME FInv, Serve \/ SendEvent \/ Break \/ UNCHANGED vars
    PROVE  Alone' /\ Unread' /\ Asked' /\ Filing'
<1>1. Base /\ Order /\ Flow /\ Alone /\ Unread /\ Asked
  BY DEF FInv, IInv
<1>2. Answers /\ Pacing /\ Notes /\ Files
  BY DEF FInv, Filing
<1>3. ServerSends
  BY <1>1, ServerSendsIs
<1>4. Answers' /\ Pacing' /\ Notes' /\ Files'
  BY <1>1, <1>2, <1>3, ServerSendsKeeps
<1>5. th' = th /\ in' = in /\ out' = out
  BY <1>3 DEF ServerSends
<1>6. \A v \in Threads : Now(v)' = Now(v)
  BY <1>5 DEF Now, Place, Item
<1>7. Alone' /\ Unread' /\ Asked'
  BY <1>1, <1>5, <1>6 DEF Alone, Unread, Asked
<1> QED BY <1>4, <1>7 DEF Filing

LEMMA StepFiles ==
    ASSUME Owners = {}, FInv, [Next]_vars
    PROVE  FInv'
<1>1. OneOwner
  BY DEF OneOwner
<1>2. IInv'
  BY <1>1, StepKeeps DEF FInv
<1>3. Alone' /\ Unread' /\ Asked' /\ Filing'
  BY ThreadFiles, ServerFiles DEF Next
<1> QED BY <1>2, <1>3 DEF FInv

\* What is kept for a request answers this request, whatever went round on the
\* wire, and nothing that somebody may ask for is among the events: as long as
\* all requests are XCB's own.
THEOREM AnswersAreFiled ==
    ASSUME Owners = {}
    PROVE  Spec => []AnswersFiled
<1>1. FInv => AnswersFiled
  <2> SUFFICES ASSUME FInv
               PROVE  AnswersFiled
    OBVIOUS
  <2>1. Base /\ Files
    BY DEF FInv, IInv, Filing
  <2>2. /\ in.current \in Seq(Packets) /\ in.replies \subseteq ReplyEntries
        /\ in.events \in Seq(EventEntries)
    BY <2>1, FieldsAre
  <2>3. ASSUME NEW r, NEW q \in Seq(Packets), Filed(log, r, q)
        PROVE  /\ \A i \in DOMAIN q : q[i].of = r
               /\ q # <<>> => log[r].kind \in {"query", "check"}
    <3>1. DOMAIN q = 1 .. Len(q)
      OBVIOUS
    <3>2. \A i \in DOMAIN q : q[i].of = r
      BY <2>3, <3>1 DEF Filed
    <3>3. ASSUME q # <<>>
          PROVE  log[r].kind \in {"query", "check"}
      <4>1. Len(q) \in Nat \ {0}
        BY <3>3, EmptySeq
      <4>2. 1 \in 1 .. Len(q)
        BY <4>1
      <4> QED BY <2>3, <4>2 DEF Filed, Kept
    <3> QED BY <3>2, <3>3
  <2>4. \A e \in in.replies : e.answers \in Seq(Packets) /\ Filed(log, e.request, e.answers)
    BY <2>1, <2>2 DEF Files, ReplyEntries
  <2>5. Filed(log, in.read, in.current)
    BY <2>1 DEF Files
  <2>6. \A e \in in.replies : \A i \in DOMAIN e.answers : e.answers[i].of = e.request
    BY <2>3, <2>4
  <2>7. \A i \in DOMAIN in.current : in.current[i].of = in.read
    BY <2>2, <2>3, <2>5
  <2>8. \A i \in DOMAIN in.events :
          /\ in.events[i].seq = in.events[i].of
          /\ in.events[i].type = "error" => log[in.events[i].of].kind = "void"
    <3>1. DOMAIN in.events = 1 .. Len(in.events)
      BY <2>2
    <3> QED BY <2>1, <3>1 DEF Files, Told
  <2>9. \A e \in in.replies \cup {[request |-> in.read, answers |-> in.current]} :
          e.answers # <<>> => log[e.request].kind \in {"query", "check"}
    <3>1. \A e \in in.replies : e.answers # <<>> => log[e.request].kind \in {"query", "check"}
      BY <2>3, <2>4
    <3>2. in.current # <<>> => log[in.read].kind \in {"query", "check"}
      BY <2>2, <2>3, <2>5
    <3> QED BY <3>1, <3>2
  <2> QED BY <2>6, <2>7, <2>8, <2>9 DEF AnswersFiled
<1>2. Init => FInv
  BY InitFiling
<1>3. FInv /\ [Next]_vars => FInv'
  BY StepFiles
<1> QED BY <1>1, <1>2, <1>3, PTL DEF Spec

=============================================================================
