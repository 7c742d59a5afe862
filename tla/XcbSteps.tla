------------------------------ MODULE XcbSteps ------------------------------
(***************************************************************************)
(* What each action of Xcb does to the thread that takes it, to the others *)
(* and to what they share, for any threads, any room in the queue and in   *)
(* the socket and any modulus of the numbers on the wire.                  *)
(*                                                                         *)
(* A stack of steps is looked at through its first places: which step may  *)
(* come after which bounds what the thread will do.  The roles of a thread *)
(* (it polls in order to write, it is in the list of readers, it takes the *)
(* socket, it will return a number) are read off these places, and each    *)
(* action is shown to be a step of one of a few kinds, which say what it   *)
(* does to roles, counters and lists.                                      *)
(***************************************************************************)
EXTENDS Xcb, FiniteSetTheorems, SequenceTheorems, WellFoundedInduction, TLAPS

-----------------------------------------------------------------------------
(* Stacks of steps                                                         *)

\* The steps that a stack may hold.
Names == {"prepare", "writable", "getback", "gotback", "send", "sync", "cookie",
          "outsend", "polled", "write", "flush", "flushing", "flushall",
          "takeflush", "take", "writev", "read", "packets", "waited", "reply",
          "insert", "replyloop", "remove", "wakenext", "eventloop", "check",
          "checkflush", "pollreply", "pollagain", "pollevent", "eventagain",
          "discard"}

\* The steps that may come after a step when it returns.
After(s) ==
    CASE s = "polled" -> {"write", "waited"}
      [] s \in {"read", "packets"} -> {"write", "waited", "pollagain", "eventagain"}
      [] s = "write" -> {"outsend"}
      [] s = "waited" -> {"replyloop", "eventloop"}
      [] s = "outsend" -> {"cookie", "prepare", "checkflush", "insert", "reply", "take", "end"}
      [] s \in {"prepare", "writable"} -> {"send", "sync"}
      [] s \in {"getback", "gotback"} -> {"writable", "takeflush"}
      [] s = "send" -> {"cookie"}
      [] s = "sync" -> {"prepare", "checkflush"}
      [] s = "checkflush" -> {"reply"}
      [] s \in {"flush", "flushing"} -> {"insert", "reply", "take", "end"}
      [] s = "replyloop" -> {"remove"}
      [] s \in {"remove", "eventloop"} -> {"wakenext"}
      [] OTHER -> {"end"}

\* What is at place i of a stack.
Item(s, i) == IF i \in 1 .. Len(s) THEN s[i] ELSE "end"

\* Each step of the stack is followed by one that may follow it.
Valid(s) ==
    /\ s \in Seq(Names)
    /\ \A i \in 1 .. Len(s) : Item(s, i + 1) \in After(s[i])

\* Every place of a stack holds a step, or "end" beyond its length.
LEMMA ItemIs ==
    ASSUME NEW s, Valid(s), NEW i \in Nat \ {0}
    PROVE  /\ Item(s, i) \in Names \cup {"end"}
           /\ Item(s, i) = "end" <=> i > Len(s)
           /\ Item(s, i + 1) \in After(Item(s, i))
<1>1. s \in Seq(Names) /\ Len(s) \in Nat
  BY DEF Valid
<1>2. "end" \notin Names
  BY DEF Names
<1>3. CASE i \in 1 .. Len(s)
  <2>1. s[i] \in Names /\ Item(s, i) = s[i]
    BY <1>1, <1>3 DEF Item
  <2> QED BY <1>1, <1>2, <1>3, <2>1 DEF Valid
<1>4. CASE i \notin 1 .. Len(s)
  <2>1. Item(s, i) = "end" /\ Item(s, i + 1) = "end" /\ i > Len(s)
    BY <1>1, <1>4 DEF Item
  <2>2. After("end") = {"end"}
    BY DEF After
  <2> QED BY <2>1, <2>2
<1> QED BY <1>3, <1>4

\* The first places of a stack, one after the other.
LEMMA Shape ==
    ASSUME NEW s, Valid(s)
    PROVE  /\ Item(s, 1) = "end" <=> s = <<>>
           /\ \A i \in 1 .. 5 : Item(s, i) \in Names \cup {"end"}
           /\ Item(s, 2) \in After(Item(s, 1)) /\ Item(s, 3) \in After(Item(s, 2))
           /\ Item(s, 4) \in After(Item(s, 3)) /\ Item(s, 5) \in After(Item(s, 4))
           /\ Item(s, 6) \in After(Item(s, 5))
<1>1. s \in Seq(Names)
  BY DEF Valid
<1>2. Item(s, 1) = "end" <=> s = <<>>
  BY <1>1, ItemIs
<1>3. \A i \in 1 .. 5 : Item(s, i) \in Names \cup {"end"} /\ Item(s, i + 1) \in After(Item(s, i))
  BY ItemIs
<1> QED BY <1>2, <1>3

\* A stack without its first step.
LEMMA Pop ==
    ASSUME NEW s, Valid(s), s # <<>>
    PROVE  /\ Valid(Tail(s)) /\ <<>> \o Tail(s) = Tail(s)
           /\ Item(Tail(s), 1) = Item(s, 2) /\ Item(Tail(s), 2) = Item(s, 3)
           /\ Item(Tail(s), 3) = Item(s, 4) /\ Item(Tail(s), 4) = Item(s, 5)
<1>1. s \in Seq(Names) /\ Tail(s) \in Seq(Names) /\ Len(Tail(s)) = Len(s) - 1
      /\ Len(s) \in Nat /\ \A i \in 1 .. Len(Tail(s)) : Tail(s)[i] = s[i + 1]
  BY HeadTailProperties DEF Valid
<1>2. ASSUME NEW i \in Nat \ {0}
      PROVE  Item(Tail(s), i) = Item(s, i + 1)
  BY <1>1 DEF Item
<1>3. ASSUME NEW i \in 1 .. Len(Tail(s))
      PROVE  Item(Tail(s), i + 1) \in After(Tail(s)[i])
  <2>1. i + 1 \in Nat \ {0} /\ Tail(s)[i] = s[i + 1] /\ i + 1 \in 1 .. Len(s)
    BY <1>1
  <2>2. Item(s, (i + 1) + 1) \in After(s[i + 1])
    BY <2>1 DEF Valid
  <2> QED BY <1>2, <2>1, <2>2
<1>4. Valid(Tail(s)) /\ <<>> \o Tail(s) = Tail(s)
  BY <1>1, <1>3 DEF Valid
<1>5. /\ Item(Tail(s), 1) = Item(s, 2) /\ Item(Tail(s), 2) = Item(s, 3)
      /\ Item(Tail(s), 3) = Item(s, 4) /\ Item(Tail(s), 4) = Item(s, 5)
  BY <1>2
<1> QED BY <1>4, <1>5

\* One step in place of the first.
LEMMA Push ==
    ASSUME NEW s, Valid(s), NEW a \in Names, Item(s, 1) \in After(a)
    PROVE  /\ Valid(<<a>> \o s)
           /\ Item(<<a>> \o s, 1) = a /\ Item(<<a>> \o s, 2) = Item(s, 1)
           /\ Item(<<a>> \o s, 3) = Item(s, 2) /\ Item(<<a>> \o s, 4) = Item(s, 3)
<1> DEFINE r == <<a>> \o s
<1>1. /\ s \in Seq(Names) /\ r \in Seq(Names) /\ Len(r) = Len(s) + 1 /\ Len(s) \in Nat
      /\ r[1] = a /\ \A i \in 1 .. Len(s) : r[i + 1] = s[i]
  BY DEF Valid
<1>2. ASSUME NEW i \in Nat \ {0}
      PROVE  Item(r, i + 1) = Item(s, i)
  BY <1>1 DEF Item
<1>3. Item(r, 1) = a
  BY <1>1 DEF Item
<1>4. ASSUME NEW i \in 1 .. Len(r)
      PROVE  Item(r, i + 1) \in After(r[i])
  <2>1. CASE i = 1
    BY <1>1, <1>2, <2>1
  <2>2. CASE i # 1
    <3>1. i - 1 \in 1 .. Len(s) /\ (i - 1) + 1 = i
      BY <1>1, <2>2
    <3>2. r[i] = s[i - 1]
      <4>1. r[(i - 1) + 1] = s[i - 1]
        BY <1>1, <3>1
      <4> QED BY <3>1, <4>1
    <3>4. Item(r, i + 1) = Item(s, (i - 1) + 1)
      <4>1. i \in Nat \ {0}
        BY <1>1
      <4>2. Item(r, i + 1) = Item(s, i)
        BY <1>2, <4>1
      <4> QED BY <3>1, <4>2
    <3>3. Item(s, (i - 1) + 1) \in After(s[i - 1])
      BY <3>1 DEF Valid
    <3> QED BY <3>2, <3>3, <3>4
  <2> QED BY <2>1, <2>2
<1> HIDE DEF r
<1>5. Valid(r)
  BY <1>1, <1>4 DEF Valid
<1>6. Item(r, 2) = Item(s, 1) /\ Item(r, 3) = Item(s, 2) /\ Item(r, 4) = Item(s, 3)
  BY <1>2
<1> QED BY <1>3, <1>5, <1>6 DEF r

\* Steps are put in front one at a time.
LEMMA TwoSteps ==
    ASSUME NEW s \in Seq(Names), NEW a \in Names, NEW b \in Names
    PROVE  <<a, b>> \o s = <<a>> \o (<<b>> \o s)
<1>1. <<a>> \in Seq(Names) /\ <<b>> \in Seq(Names) /\ <<a, b>> \in Seq(Names)
  OBVIOUS
<1>2. <<a>> \o <<b>> = <<a, b>>
  <2> DEFINE r == <<a>> \o <<b>>
  <2>1. r \in Seq(Names) /\ Len(r) = 2 /\ r[1] = a /\ r[2] = b
    BY <1>1
  <2> HIDE DEF r
  <2>2. r = <<a, b>>
    BY <1>1, <2>1
  <2> QED BY <2>2 DEF r
<1>3. <<a>> \o (<<b>> \o s) = (<<a>> \o <<b>>) \o s
  BY <1>1, ConcatAssociative
<1> QED BY <1>2, <1>3

LEMMA ThreeSteps ==
    ASSUME NEW s \in Seq(Names), NEW a \in Names, NEW b \in Names, NEW c \in Names
    PROVE  <<a, b, c>> \o s = <<a>> \o (<<b>> \o (<<c>> \o s))
<1>1. /\ <<a, b>> \in Seq(Names) /\ <<c>> \in Seq(Names)
      /\ <<a, b, c>> \in Seq(Names) /\ <<c>> \o s \in Seq(Names)
  OBVIOUS
<1>2. <<a, b>> \o <<c>> = <<a, b, c>>
  <2> DEFINE r == <<a, b>> \o <<c>>
  <2>1. r \in Seq(Names) /\ Len(r) = 3 /\ r[1] = a /\ r[2] = b /\ r[3] = c
    BY <1>1
  <2> HIDE DEF r
  <2>2. r = <<a, b, c>>
    BY <1>1, <2>1
  <2> QED BY <2>2 DEF r
<1>3. <<a, b>> \o (<<c>> \o s) = (<<a, b>> \o <<c>>) \o s
  BY <1>1, ConcatAssociative
<1>4. <<a, b>> \o (<<c>> \o s) = <<a>> \o (<<b>> \o (<<c>> \o s))
  BY <1>1, TwoSteps
<1> QED BY <1>2, <1>3, <1>4

-----------------------------------------------------------------------------
(* The state, and what the building blocks of a step do to it              *)

\* What is at place i of the thread's stack.
Place(t, i) == Item(th[t].stack, i)

\* What the thread does next, and what after that.
Now(t)  == Place(t, 1)
Then(t) == Place(t, 2)

\* What a thread may wait for.
Waits == {"run", "poll", "callback", "reader", "event", "out", "socket"}

\* The condition variables.
Sleeps == {"reader", "event", "out", "socket"}

\* The values of the variables.
ThreadRecords ==
    [op : AllOperations \cup {"none"}, kind : {"void", "check", "query"},
     request : Nat, stack : Seq(Names), wait : Waits,
     revents : SUBSET {"in", "out", "hup"}, ok : BOOLEAN, vec : Seq(Nat),
     target : Nat, cookies : SUBSET Nat, calls : Nat]

Packets == [type : {"reply", "error", "event"}, serial : Nat, of : Nat]

ReplyEntries == [request : Nat, answers : Seq(Packets)]

EventEntries == [type : {"reply", "error", "event"}, of : Nat, seq : Nat]

ReaderEntries == [thread : Threads, request : Nat]

PendingEntries == [first : Nat, last : Nat, discard : BOOLEAN, checked : BOOLEAN,
                   external : BOOLEAN]

InRecords ==
    [reading : Int, read : Nat, completed : Nat, expected : Nat,
     current : Seq(Packets), replies : SUBSET ReplyEntries, events : Seq(EventEntries),
     packets : Seq(Packets), readers : Seq(ReaderEntries), pending : Seq(PendingEntries)]

OutRecords ==
    [request : Nat, written : Nat, expectedWritten : Nat, queue : Seq(Nat),
     writing : Int, returnSocket : Threads \cup {NoThread}, moving : BOOLEAN,
     owns : SUBSET Threads]

NetRecords ==
    [error : BOOLEAN, broken : BOOLEAN, socket : Seq(Nat), served : Nat,
     wire : Seq(Packets), emitted : Nat]

LogRecords == [kind : {"void", "check", "query", "sync"}, by : Threads]

\* Every variable has a value of its kind.
Types ==
    /\ lock \in Threads \cup {NoThread}
    /\ th \in [Threads -> ThreadRecords]
    /\ in \in InRecords /\ out \in OutRecords /\ net \in NetRecords
    /\ log \in Seq(LogRecords)

\* A record of a thread that was woken, or left alone.
Woken(a, b) == b = a \/ (a.wait \in Sleeps /\ b = [a EXCEPT !.wait = "run"])

\* Where a thread waits for what.
WaitsAt == {<<"poll", "polled">>, <<"callback", "gotback">>, <<"reader", "replyloop">>,
            <<"event", "eventloop">>, <<"out", "prepare">>, <<"out", "flushing">>,
            <<"socket", "getback">>}

\* The steps a thread may be at without the lock: the first one of a call, and
\* those that take the lock again.
Unlocked == {"polled", "gotback", "prepare", "getback", "flushing", "replyloop",
             "eventloop", "reply", "check", "pollreply", "discard", "pollevent",
             "flushall", "writev"}

\* A stack is valid, a thread waits only at the steps where it may, and the
\* lock is held by one that runs; who does not hold it is between two sections.
Control(t) ==
    /\ Valid(th[t].stack)
    /\ Now(t) = "end" => th[t].wait = "run" /\ th[t].vec = <<>>
    /\ th[t].wait # "run" => <<th[t].wait, Now(t)>> \in WaitsAt
    /\ lock = t => Now(t) # "end" /\ th[t].wait = "run"
    /\ lock # t /\ th[t].wait = "run" => Now(t) \in Unlocked \cup {"end"}

\* The types, and the control of every thread.
Base == Types /\ \A t \in Threads : Control(t)

\* A thread has done a step of its stack, and the others nothing.
Moved(t) ==
    /\ th' \in [Threads -> ThreadRecords]
    /\ \A v \in Threads \ {t} : Woken(th[v], th'[v])
    /\ th[t].wait = "run" /\ lock \in {NoThread, t}
    /\ Valid(th'[t].stack)
    /\ th'[t].wait # "run" => <<th'[t].wait, Now(t)'>> \in WaitsAt
    /\ lock' = IF Now(t)' = "end" \/ th'[t].wait # "run" THEN NoThread ELSE t
    /\ Now(t)' = "end" => th'[t].wait = "run" /\ th'[t].vec = <<>> /\ th'[t].op = "none"
    /\ Now(t)' # "end" => th'[t].op = th[t].op /\ th'[t].kind = th[t].kind
                          /\ th'[t].request = th[t].request

\* The step returns, or is replaced by others.
Popped(t) == /\ Now(t)' = Then(t) /\ Then(t)' = Place(t, 3)
             /\ Place(t, 3)' = Place(t, 4) /\ Place(t, 4)' = Place(t, 5)

Pushed(t, a) == /\ Now(t)' = a /\ Then(t)' = Then(t)
                /\ Place(t, 3)' = Place(t, 3) /\ Place(t, 4)' = Place(t, 4)

Pushed2(t, a, b) == /\ Now(t)' = a /\ Then(t)' = b
                    /\ Place(t, 3)' = Then(t) /\ Place(t, 4)' = Place(t, 3)

Pushed3(t, a, b, c) == /\ Now(t)' = a /\ Then(t)' = b
                       /\ Place(t, 3)' = c /\ Place(t, 4)' = Then(t)

\* What Return and Goto make of a valid stack.
LEMMA PopIs ==
    ASSUME NEW t \in Threads, Valid(th[t].stack), th[t].stack # <<>>,
           th'[t].stack = <<>> \o Tail(th[t].stack)
    PROVE  Popped(t) /\ Valid(th'[t].stack)
<1> DEFINE s == th[t].stack
<1>1. /\ Valid(Tail(s)) /\ <<>> \o Tail(s) = Tail(s)
      /\ Item(Tail(s), 1) = Item(s, 2) /\ Item(Tail(s), 2) = Item(s, 3)
      /\ Item(Tail(s), 3) = Item(s, 4) /\ Item(Tail(s), 4) = Item(s, 5)
  BY Pop
<1>2. th'[t].stack = Tail(s)
  BY <1>1
<1> QED BY <1>1, <1>2 DEF Popped, Now, Then, Place

LEMMA PushIs ==
    ASSUME NEW t \in Threads, Valid(th[t].stack), th[t].stack # <<>>,
           NEW a \in Names, Then(t) \in After(a),
           th'[t].stack = <<a>> \o Tail(th[t].stack)
    PROVE  Pushed(t, a) /\ Valid(th'[t].stack)
<1> DEFINE s == Tail(th[t].stack)
           q == <<a>> \o s
<1>1. /\ Valid(s) /\ Item(s, 1) = Then(t) /\ Item(s, 2) = Place(t, 3)
      /\ Item(s, 3) = Place(t, 4)
  BY Pop DEF Then, Place
<1> HIDE DEF s
<1>2. /\ Valid(q) /\ Item(q, 1) = a /\ Item(q, 2) = Item(s, 1)
      /\ Item(q, 3) = Item(s, 2) /\ Item(q, 4) = Item(s, 3)
  BY <1>1, Push
<1>3. th'[t].stack = q
  BY DEF s
<1> HIDE DEF q
<1>4. Now(t)' = a /\ Then(t)' = Item(s, 1) /\ Place(t, 3)' = Item(s, 2) /\ Place(t, 4)' = Item(s, 3)
  BY <1>2, <1>3 DEF Now, Then, Place
<1> QED BY <1>1, <1>2, <1>3, <1>4 DEF Pushed

LEMMA Push2Is ==
    ASSUME NEW t \in Threads, Valid(th[t].stack), th[t].stack # <<>>,
           NEW a \in Names, NEW b \in Names, b \in After(a), Then(t) \in After(b),
           th'[t].stack = <<a, b>> \o Tail(th[t].stack)
    PROVE  Pushed2(t, a, b) /\ Valid(th'[t].stack)
<1> DEFINE s == Tail(th[t].stack)
           q == <<b>> \o s
           r == <<a>> \o q
<1>1. /\ Valid(s) /\ Item(s, 1) = Then(t) /\ Item(s, 2) = Place(t, 3)
      /\ Item(s, 3) = Place(t, 4)
  BY Pop DEF Then, Place
<1> HIDE DEF s
<1>2. /\ Valid(q) /\ Item(q, 1) = b /\ Item(q, 2) = Item(s, 1)
      /\ Item(q, 3) = Item(s, 2) /\ Item(q, 4) = Item(s, 3)
  BY <1>1, Push
<1>3. th'[t].stack = r
  <2>1. s \in Seq(Names)
    BY <1>1 DEF Valid
  <2>2. <<a, b>> \o s = r
    BY <2>1, TwoSteps
  <2> QED BY <2>2 DEF s
<1> HIDE DEF q
<1>4. /\ Valid(r) /\ Item(r, 1) = a /\ Item(r, 2) = Item(q, 1)
      /\ Item(r, 3) = Item(q, 2) /\ Item(r, 4) = Item(q, 3)
  BY <1>2, Push
<1> HIDE DEF r
<1>5. Now(t)' = a /\ Then(t)' = Item(q, 1) /\ Place(t, 3)' = Item(q, 2) /\ Place(t, 4)' = Item(q, 3)
  BY <1>3, <1>4 DEF Now, Then, Place
<1> QED BY <1>1, <1>2, <1>3, <1>4, <1>5 DEF Pushed2

LEMMA Push3Is ==
    ASSUME NEW t \in Threads, Valid(th[t].stack), th[t].stack # <<>>,
           NEW a \in Names, NEW b \in Names, NEW c \in Names,
           b \in After(a), c \in After(b), Then(t) \in After(c),
           th'[t].stack = <<a, b, c>> \o Tail(th[t].stack)
    PROVE  Pushed3(t, a, b, c) /\ Valid(th'[t].stack)
<1> DEFINE s == Tail(th[t].stack)
           p == <<c>> \o s
           q == <<b>> \o p
           r == <<a>> \o q
<1>1. Valid(s) /\ Item(s, 1) = Then(t)
  BY Pop DEF Then, Place
<1> HIDE DEF s
<1>2. Valid(p) /\ Item(p, 1) = c /\ Item(p, 2) = Item(s, 1)
  BY <1>1, Push
<1>3. th'[t].stack = r
  <2>1. s \in Seq(Names)
    BY <1>1 DEF Valid
  <2>2. <<a, b, c>> \o s = <<a>> \o (<<b>> \o (<<c>> \o s))
    BY <2>1, ThreeSteps
  <2> QED BY <2>2 DEF s
<1> HIDE DEF p
<1>4. Valid(q) /\ Item(q, 1) = b /\ Item(q, 2) = Item(p, 1) /\ Item(q, 3) = Item(p, 2)
  BY <1>2, Push
<1> HIDE DEF q
<1>5. /\ Valid(r) /\ Item(r, 1) = a /\ Item(r, 2) = Item(q, 1)
      /\ Item(r, 3) = Item(q, 2) /\ Item(r, 4) = Item(q, 3)
  BY <1>4, Push
<1> HIDE DEF r
<1>6. Now(t)' = a /\ Then(t)' = Item(q, 1) /\ Place(t, 3)' = Item(q, 2) /\ Place(t, 4)' = Item(q, 3)
  BY <1>3, <1>5 DEF Now, Then, Place
<1> QED BY <1>1, <1>2, <1>3, <1>4, <1>5, <1>6 DEF Pushed3

\* The first places of a thread's stack.
LEMMA PlacesAre ==
    ASSUME NEW t \in Threads, Valid(th[t].stack)
    PROVE  /\ Now(t) = "end" <=> th[t].stack = <<>>
           /\ Now(t) \in Names \cup {"end"} /\ Then(t) \in Names \cup {"end"}
           /\ Place(t, 3) \in Names \cup {"end"} /\ Place(t, 4) \in Names \cup {"end"}
           /\ Then(t) \in After(Now(t)) /\ Place(t, 3) \in After(Then(t))
           /\ Place(t, 4) \in After(Place(t, 3)) /\ Place(t, 5) \in After(Place(t, 4))
BY Shape DEF Now, Then, Place

\* What At says of the thread.
LEMMA AtIs ==
    ASSUME Types, NEW t \in Threads, NEW x, At(t, x), Valid(th[t].stack)
    PROVE  /\ Now(t) = x /\ x \in Names /\ th[t].wait = "run" /\ lock \in {NoThread, t}
           /\ th[t].stack # <<>>
<1>1. th[t].stack \in Seq(Names) /\ th[t].stack # <<>> /\ Head(th[t].stack) = x
  BY DEF At, Valid
<1>2. th[t].stack[1] = x /\ 1 \in 1 .. Len(th[t].stack) /\ x \in Names
  BY <1>1
<1> QED BY <1>1, <1>2 DEF At, Now, Place, Item

\* What Continue makes of the threads and of the lock.
LEMMA ContinueIs ==
    ASSUME Types, NEW t \in Threads, Valid(th[t].stack), NEW f \in [Threads -> ThreadRecords],
           NEW x, At(t, x), Continue(t, f), Valid(f[t].stack),
           \A v \in Threads \ {t} : Woken(th[v], f[v]),
           f[t].op = th[t].op, f[t].kind = th[t].kind, f[t].request = th[t].request,
           f[t].wait # "run" => <<f[t].wait, Item(f[t].stack, 1)>> \in WaitsAt
    PROVE  /\ Moved(t) /\ th'[t].stack = f[t].stack /\ th'[t].cookies = f[t].cookies
           /\ th'[t].calls = f[t].calls
           /\ \A v \in Threads \ {t} : th'[v] = f[v]
           /\ Now(t)' # "end" => th'[t] = f[t]
<1> DEFINE g == [Idle EXCEPT !.cookies = f[t].cookies, !.calls = f[t].calls]
<1>0. f[t].cookies \in SUBSET Nat /\ f[t].calls \in Nat
  BY DEF ThreadRecords
<1>1. /\ g \in ThreadRecords /\ g.stack = <<>> /\ g.wait = "run" /\ g.vec = <<>> /\ g.op = "none"
      /\ g.cookies = f[t].cookies /\ g.calls = f[t].calls
  BY <1>0, EmptySeq DEF Idle, ThreadRecords, Waits, AllOperations
<1> HIDE DEF g
<1>2. /\ th' = IF f[t].stack # <<>> THEN f ELSE [f EXCEPT ![t] = g]
      /\ lock' = IF f[t].stack = <<>> \/ f[t].wait # "run" THEN NoThread ELSE t
  BY DEF Continue, g
<1>3. /\ th' \in [Threads -> ThreadRecords] /\ th'[t].stack = f[t].stack
      /\ \A v \in Threads \ {t} : th'[v] = f[v]
      /\ f[t].stack # <<>> => th'[t] = f[t]
      /\ f[t].stack = <<>> => th'[t] = g
  BY <1>1, <1>2
<1>4. Now(t)' = "end" <=> f[t].stack = <<>>
  <2>1. Item(th'[t].stack, 1) = "end" <=> th'[t].stack = <<>>
    BY <1>3, Shape
  <2> QED BY <1>3, <2>1 DEF Now, Place
<1>5. th[t].wait = "run" /\ lock \in {NoThread, t}
  BY DEF At
<1>6. th'[t].wait # "run" => <<th'[t].wait, Now(t)'>> \in WaitsAt
  BY <1>1, <1>3, <1>4 DEF Now, Place
<1> QED BY <1>1, <1>2, <1>3, <1>4, <1>5, <1>6 DEF Moved

\* What the thread t is to go on as: the others may be woken.
Changed(f, t, s) ==
    /\ f \in [Threads -> ThreadRecords]
    /\ f[t].stack = s \o Tail(th[t].stack)
    /\ \A v \in Threads \ {t} : Woken(th[v], f[v])
    /\ f[t].op = th[t].op /\ f[t].kind = th[t].kind /\ f[t].request = th[t].request

\* What has become of it.
Done(f, t) ==
    /\ Moved(t) /\ th'[t].cookies = f[t].cookies
    /\ \A v \in Threads \ {t} : th'[v] = f[v]
    /\ Now(t)' # "end" => th'[t] = f[t]

\* What a step does that continues with f and replaces its own step by none,
\* one, two or three.
LEMMA PopStep ==
    ASSUME Base, NEW t \in Threads, NEW x, At(t, x), NEW f, Changed(f, t, <<>>),
           f[t].wait = "run", Continue(t, f)
    PROVE  Popped(t) /\ Done(f, t) /\ th'[t].wait = "run"
<1>1. Valid(th[t].stack) /\ Types /\ th[t].stack # <<>>
  BY DEF Base, Control, At
<1>2. Valid(f[t].stack)
  <2>1. f[t].stack = Tail(th[t].stack)
    BY <1>1, Pop DEF Changed
  <2> QED BY <1>1, <2>1, Pop
<1>3. Done(f, t) /\ th'[t].stack = f[t].stack
  BY <1>1, <1>2, ContinueIs DEF Changed, Done
<1>4. th'[t].wait = "run"
  BY <1>3 DEF Done, Moved
<1> QED BY <1>1, <1>3, <1>4, PopIs DEF Changed

LEMMA PushStep ==
    ASSUME Base, NEW t \in Threads, NEW x, At(t, x),
           NEW a \in Names, Then(t) \in After(a), NEW f, Changed(f, t, <<a>>),
           f[t].wait = "run" \/ <<f[t].wait, a>> \in WaitsAt, Continue(t, f)
    PROVE  Pushed(t, a) /\ Done(f, t) /\ th'[t] = f[t]
<1>1. Valid(th[t].stack) /\ Types /\ th[t].stack # <<>>
  BY DEF Base, Control, At
<1>2. Valid(f[t].stack) /\ Item(f[t].stack, 1) = a
  <2>1. f[t].stack = <<a>> \o Tail(th[t].stack)
    BY DEF Changed
  <2>2. Valid(Tail(th[t].stack)) /\ Item(Tail(th[t].stack), 1) = Then(t)
    BY <1>1, Pop DEF Then, Place
  <2> QED BY <2>1, <2>2, Push
<1>3. Done(f, t) /\ th'[t].stack = f[t].stack
  BY <1>1, <1>2, ContinueIs DEF Changed, Done
<1>4. Pushed(t, a)
  BY <1>1, <1>3, PushIs DEF Changed
<1>5. a # "end"
  BY DEF Names
<1> QED BY <1>3, <1>4, <1>5 DEF Pushed, Done

LEMMA Push2Step ==
    ASSUME Base, NEW t \in Threads, NEW x, At(t, x),
           NEW a \in Names, NEW b \in Names, b \in After(a), Then(t) \in After(b),
           NEW f, Changed(f, t, <<a, b>>),
           f[t].wait = "run" \/ <<f[t].wait, a>> \in WaitsAt, Continue(t, f)
    PROVE  Pushed2(t, a, b) /\ Done(f, t) /\ th'[t] = f[t]
<1>1. Valid(th[t].stack) /\ Types /\ th[t].stack # <<>>
  BY DEF Base, Control, At
<1>2. Valid(f[t].stack) /\ Item(f[t].stack, 1) = a
  <2> DEFINE s == Tail(th[t].stack)
             q == <<b>> \o s
  <2>1. Valid(s) /\ Item(s, 1) = Then(t)
    BY <1>1, Pop DEF Then, Place
  <2>0. f[t].stack = <<a, b>> \o s
    BY DEF Changed
  <2> HIDE DEF s
  <2>2. f[t].stack = <<a>> \o q
    <3>1. s \in Seq(Names)
      BY <2>1 DEF Valid
    <3> QED BY <2>0, <3>1, TwoSteps
  <2>3. Valid(q) /\ Item(q, 1) = b
    BY <2>1, Push
  <2> HIDE DEF q
  <2> QED BY <2>2, <2>3, Push
<1>3. Done(f, t) /\ th'[t].stack = f[t].stack
  BY <1>1, <1>2, ContinueIs DEF Changed, Done
<1>4. Pushed2(t, a, b)
  BY <1>1, <1>3, Push2Is DEF Changed
<1>5. a # "end"
  BY DEF Names
<1> QED BY <1>3, <1>4, <1>5 DEF Pushed2, Done

LEMMA Push3Step ==
    ASSUME Base, NEW t \in Threads, NEW x, At(t, x),
           NEW a \in Names, NEW b \in Names, NEW c \in Names,
           b \in After(a), c \in After(b), Then(t) \in After(c),
           NEW f, NEW u, u = <<a, b, c>>, Changed(f, t, u),
           f[t].wait = "run" \/ <<f[t].wait, a>> \in WaitsAt, Continue(t, f)
    PROVE  Pushed3(t, a, b, c) /\ Done(f, t) /\ th'[t] = f[t]
<1>1. Valid(th[t].stack) /\ Types /\ th[t].stack # <<>>
  BY DEF Base, Control, At
<1>2. Valid(f[t].stack) /\ Item(f[t].stack, 1) = a
  <2> DEFINE s == Tail(th[t].stack)
             p == <<c>> \o s
             q == <<b>> \o p
  <2>1. Valid(s) /\ Item(s, 1) = Then(t)
    BY <1>1, Pop DEF Then, Place
  <2>0. f[t].stack = <<a, b, c>> \o s
    BY DEF Changed
  <2> HIDE DEF s
  <2>2. f[t].stack = <<a>> \o q
    <3>1. s \in Seq(Names)
      BY <2>1 DEF Valid
    <3>2. <<a, b, c>> \o s = <<a>> \o (<<b>> \o (<<c>> \o s))
      BY <3>1, ThreeSteps
    <3> QED BY <2>0, <3>2
  <2>3. Valid(p) /\ Item(p, 1) = c
    BY <2>1, Push
  <2> HIDE DEF p
  <2>4. Valid(q) /\ Item(q, 1) = b
    BY <2>3, Push
  <2> HIDE DEF q
  <2> QED BY <2>2, <2>4, Push
<1>3. Done(f, t) /\ th'[t].stack = f[t].stack
  BY <1>1, <1>2, ContinueIs DEF Changed, Done
<1>4. Pushed3(t, a, b, c)
  BY <1>1, <1>3, Push3Is DEF Changed
<1>5. a # "end"
  BY DEF Names
<1> QED BY <1>3, <1>4, <1>5 DEF Pushed3, Done

\* Goto, Block and Signal.
LEMMA GotoIs ==
    ASSUME Base, NEW t \in Threads, NEW s \in Seq(Names), th[t].stack # <<>>
    PROVE  /\ Goto(t, s) = [th EXCEPT ![t] = [th[t] EXCEPT !.stack = s \o Tail(th[t].stack)]]
           /\ Changed(Goto(t, s), t, s)
           /\ Goto(t, s)[t].wait = th[t].wait /\ Goto(t, s)[t].vec = th[t].vec
           /\ Goto(t, s)[t].cookies = th[t].cookies /\ Goto(t, s)[t].ok = th[t].ok
<1>1. th \in [Threads -> ThreadRecords] /\ th[t].stack \in Seq(Names)
  BY DEF Base, Types, Control, Valid
<1>2. Goto(t, s) = [th EXCEPT ![t] = [th[t] EXCEPT !.stack = s \o Tail(th[t].stack)]]
  BY DEF Goto
<1>3. s \o Tail(th[t].stack) \in Seq(Names)
  BY <1>1
<1> DEFINE r == [th[t] EXCEPT !.stack = s \o Tail(th[t].stack)]
<1>4. /\ r \in ThreadRecords /\ r.stack = s \o Tail(th[t].stack)
      /\ r.op = th[t].op /\ r.kind = th[t].kind /\ r.request = th[t].request
      /\ r.wait = th[t].wait /\ r.vec = th[t].vec /\ r.cookies = th[t].cookies
      /\ r.ok = th[t].ok
  BY <1>1, <1>3 DEF ThreadRecords
<1>5. Goto(t, s) = [th EXCEPT ![t] = r]
  BY <1>2
<1> HIDE DEF r
<1>6. /\ Goto(t, s) \in [Threads -> ThreadRecords] /\ Goto(t, s)[t] = r
      /\ \A v \in Threads \ {t} : Goto(t, s)[v] = th[v]
  BY <1>1, <1>4, <1>5
<1> QED BY <1>2, <1>4, <1>6 DEF Changed, Woken

\* What Block and Signal do to the threads.
LEMMA BlockIs ==
    ASSUME Base, NEW t \in Threads, NEW s \in Seq(Names), th[t].stack # <<>>,
           NEW cond \in Waits
    PROVE  /\ Changed(Block(t, cond, s), t, s)
           /\ Block(t, cond, s)[t].wait = cond /\ Block(t, cond, s)[t].vec = th[t].vec
           /\ Block(t, cond, s)[t].cookies = th[t].cookies
<1> DEFINE g == Goto(t, s)
           r == [g[t] EXCEPT !.wait = cond]
<1>1. /\ Changed(g, t, s) /\ g[t].vec = th[t].vec /\ g[t].cookies = th[t].cookies
  BY GotoIs
<1>2. Block(t, cond, s) = [g EXCEPT ![t] = r]
  BY DEF Block
<1> HIDE DEF g
<1>3. g[t] \in ThreadRecords
  BY <1>1 DEF Changed
<1>4. /\ r \in ThreadRecords /\ r.stack = g[t].stack
      /\ r.op = g[t].op /\ r.kind = g[t].kind /\ r.request = g[t].request
      /\ r.wait = cond /\ r.vec = th[t].vec /\ r.cookies = th[t].cookies
  BY <1>1, <1>3 DEF ThreadRecords
<1> HIDE DEF r
<1> QED BY <1>1, <1>2, <1>4 DEF Changed

LEMMA SignalIs ==
    ASSUME NEW f \in [Threads -> ThreadRecords], NEW S, NEW cond \in Sleeps
    PROVE  /\ Signal(f, S, cond) \in [Threads -> ThreadRecords]
           /\ \A u \in Threads :
                /\ Signal(f, S, cond)[u] = IF u \in S /\ f[u].wait = cond
                                           THEN [f[u] EXCEPT !.wait = "run"] ELSE f[u]
                /\ Woken(f[u], Signal(f, S, cond)[u])
<1>1. \A u \in Threads : [f[u] EXCEPT !.wait = "run"] \in ThreadRecords
  BY DEF ThreadRecords, Waits
<1> QED BY <1>1 DEF Signal, Woken

\* To wake twice is to wake.
LEMMA WokenTwice ==
    ASSUME NEW a \in ThreadRecords, NEW b, NEW c, Woken(a, b), Woken(b, c)
    PROVE  Woken(a, c)
BY DEF Woken, ThreadRecords, Sleeps

-----------------------------------------------------------------------------
(* What each step does: the lock, the condition variables, the hand-over   *)

\* A step that writes nothing and hands no cookie out.
Plain(t) ==
    /\ Moved(t) /\ th'[t].vec \in {<<>>, th[t].vec} /\ th'[t].cookies = th[t].cookies

\* The steps that go on as Return, Goto and Block say.
LEMMA PlainIs ==
    ASSUME NEW t \in Threads, NEW f, Done(f, t), f[t].vec = th[t].vec, f[t].cookies = th[t].cookies
    PROVE  Plain(t)
BY DEF Done, Plain, Moved

LEMMA BaseIs ==
    ASSUME Base, NEW t \in Threads, NEW x, At(t, x)
    PROVE  /\ Now(t) = x /\ x \in Names /\ th[t].wait = "run" /\ lock \in {NoThread, t}
           /\ th[t].stack # <<>> /\ Then(t) \in After(x) /\ Place(t, 3) \in After(Then(t))
           /\ Place(t, 4) \in After(Place(t, 3)) /\ Place(t, 5) \in After(Place(t, 4))
           /\ x = "end" => FALSE
BY AtIs, PlacesAre DEF Base, Control, Names

LEMMA ReturnStep ==
    ASSUME Base, NEW t \in Threads, NEW x, At(t, x), Continue(t, Return(t))
    PROVE  Popped(t) /\ Plain(t) /\ th'[t].wait = "run"
<1>1. /\ Changed(Return(t), t, <<>>) /\ Return(t)[t].wait = "run" /\ Return(t)[t].vec = th[t].vec
      /\ Return(t)[t].cookies = th[t].cookies
  BY BaseIs, GotoIs, EmptySeq DEF Return
<1>2. Popped(t) /\ Done(Return(t), t) /\ th'[t].wait = "run"
  BY <1>1, PopStep
<1> QED BY <1>1, <1>2, PlainIs

LEMMA GotoStep ==
    ASSUME Base, NEW t \in Threads, NEW x, At(t, x), NEW a \in Names, Then(t) \in After(a),
           Continue(t, Goto(t, <<a>>))
    PROVE  Pushed(t, a) /\ Plain(t) /\ th'[t].wait = "run"
<1> DEFINE f == Goto(t, <<a>>)
<1>0. <<a>> \in Seq(Names)
  OBVIOUS
<1>1. Changed(f, t, <<a>>) /\ f[t].wait = "run" /\ f[t].vec = th[t].vec /\ f[t].cookies = th[t].cookies
  BY <1>0, BaseIs, GotoIs
<1> HIDE DEF f
<1>2. Pushed(t, a) /\ Done(f, t) /\ th'[t] = f[t]
  BY <1>1, PushStep DEF f
<1> QED BY <1>1, <1>2, PlainIs

LEMMA Goto2Step ==
    ASSUME Base, NEW t \in Threads, NEW x, At(t, x), NEW a \in Names, NEW b \in Names,
           b \in After(a), Then(t) \in After(b), Continue(t, Goto(t, <<a, b>>))
    PROVE  Pushed2(t, a, b) /\ Plain(t) /\ th'[t].wait = "run"
<1> DEFINE f == Goto(t, <<a, b>>)
<1>0. <<a, b>> \in Seq(Names)
  OBVIOUS
<1>1. Changed(f, t, <<a, b>>) /\ f[t].wait = "run" /\ f[t].vec = th[t].vec /\ f[t].cookies = th[t].cookies
  BY <1>0, BaseIs, GotoIs
<1> HIDE DEF f
<1>2. Pushed2(t, a, b) /\ Done(f, t) /\ th'[t] = f[t]
  BY <1>1, Push2Step DEF f
<1> QED BY <1>1, <1>2, PlainIs

LEMMA Goto3Step ==
    ASSUME Base, NEW t \in Threads, NEW x, At(t, x), NEW a \in Names, NEW b \in Names, NEW c \in Names,
           b \in After(a), c \in After(b), Then(t) \in After(c),
           NEW u, u = <<a, b, c>>, Continue(t, Goto(t, u))
    PROVE  Pushed3(t, a, b, c) /\ Plain(t) /\ th'[t].wait = "run"
<1>1. u \in Seq(Names)
  OBVIOUS
<1>2. /\ Changed(Goto(t, u), t, u) /\ Goto(t, u)[t].wait = "run" /\ Goto(t, u)[t].vec = th[t].vec
      /\ Goto(t, u)[t].cookies = th[t].cookies
  BY <1>1, BaseIs, GotoIs
<1>3. Pushed3(t, a, b, c) /\ Done(Goto(t, u), t)
  BY <1>2, Push3Step
<1>4. th'[t] = Goto(t, u)[t]
  BY <1>3 DEF Done, Pushed3, Names
<1> QED BY <1>2, <1>3, <1>4, PlainIs

LEMMA BlockStep ==
    ASSUME Base, NEW t \in Threads, NEW x, At(t, x), NEW a \in Names, Then(t) \in After(a),
           NEW cond \in Waits, <<cond, a>> \in WaitsAt, Continue(t, Block(t, cond, <<a>>))
    PROVE  Pushed(t, a) /\ Plain(t) /\ th'[t].wait = cond
<1> DEFINE f == Block(t, cond, <<a>>)
<1>0. <<a>> \in Seq(Names)
  OBVIOUS
<1>1. Changed(f, t, <<a>>) /\ f[t].wait = cond /\ f[t].vec = th[t].vec /\ f[t].cookies = th[t].cookies
  BY <1>0, BaseIs, BlockIs
<1> HIDE DEF f
<1>2. Pushed(t, a) /\ Done(f, t) /\ th'[t] = f[t]
  BY <1>1, PushStep DEF f
<1> QED BY <1>1, <1>2, PlainIs

LEMMA Block3Step ==
    ASSUME Base, NEW t \in Threads, NEW x, At(t, x), NEW a \in Names, NEW b \in Names, NEW c \in Names,
           b \in After(a), c \in After(b), Then(t) \in After(c),
           NEW cond \in Waits, <<cond, a>> \in WaitsAt,
           NEW u, u = <<a, b, c>>, Continue(t, Block(t, cond, u))
    PROVE  Pushed3(t, a, b, c) /\ Plain(t) /\ th'[t].wait = cond /\ th'[t].vec = th[t].vec
<1>1. u \in Seq(Names)
  OBVIOUS
<1>2. /\ Changed(Block(t, cond, u), t, u) /\ Block(t, cond, u)[t].wait = cond
      /\ Block(t, cond, u)[t].vec = th[t].vec /\ Block(t, cond, u)[t].cookies = th[t].cookies
  BY <1>1, BaseIs, BlockIs
<1>3. Pushed3(t, a, b, c) /\ Done(Block(t, cond, u), t)
  BY <1>2, Push3Step
<1>4. th'[t] = Block(t, cond, u)[t]
  BY <1>3 DEF Done, Pushed3, Names
<1> QED BY <1>2, <1>3, <1>4, PlainIs

\* A step that changes something more than the stack.
LikeGoto(t, s, r) ==
    /\ r \in ThreadRecords /\ r.stack = Goto(t, s)[t].stack
    /\ r.op = th[t].op /\ r.kind = th[t].kind /\ r.request = th[t].request

\* The same with another field of the thread's record changed.
LEMMA ExceptIs ==
    ASSUME Base, NEW t \in Threads, NEW x, At(t, x), NEW s \in Seq(Names), NEW r,
           LikeGoto(t, s, r)
    PROVE  Changed([Goto(t, s) EXCEPT ![t] = r], t, s) /\ [Goto(t, s) EXCEPT ![t] = r][t] = r
<1> DEFINE g == Goto(t, s)
<1>1. Changed(g, t, s)
  BY BaseIs, GotoIs
<1>2. r.stack = g[t].stack
  BY DEF LikeGoto
<1> HIDE DEF g
<1>3. Changed([g EXCEPT ![t] = r], t, s) /\ [g EXCEPT ![t] = r][t] = r
  BY <1>1, <1>2 DEF Changed, LikeGoto
<1> QED BY <1>3 DEF g

LEMMA ReturnWith ==
    ASSUME Base, NEW t \in Threads, NEW x, At(t, x), NEW r, LikeGoto(t, <<>>, r),
           r.wait = "run", Continue(t, [Return(t) EXCEPT ![t] = r])
    PROVE  /\ Popped(t) /\ Moved(t) /\ th'[t].wait = "run" /\ th'[t].cookies = r.cookies
           /\ Now(t)' # "end" => th'[t] = r
<1>1. Changed([Return(t) EXCEPT ![t] = r], t, <<>>) /\ [Return(t) EXCEPT ![t] = r][t] = r
  BY EmptySeq, ExceptIs DEF Return
<1>2. Popped(t) /\ Done([Return(t) EXCEPT ![t] = r], t) /\ th'[t].wait = "run"
  BY <1>1, PopStep
<1> QED BY <1>1, <1>2 DEF Done

LEMMA GotoWith ==
    ASSUME Base, NEW t \in Threads, NEW x, At(t, x), NEW a \in Names, Then(t) \in After(a),
           NEW r, LikeGoto(t, <<a>>, r), r.wait = "run",
           Continue(t, [Goto(t, <<a>>) EXCEPT ![t] = r])
    PROVE  Pushed(t, a) /\ Moved(t) /\ th'[t] = r
<1>0. <<a>> \in Seq(Names)
  OBVIOUS
<1>1. Changed([Goto(t, <<a>>) EXCEPT ![t] = r], t, <<a>>) /\ [Goto(t, <<a>>) EXCEPT ![t] = r][t] = r
  BY <1>0, ExceptIs
<1>2. Pushed(t, a) /\ Done([Goto(t, <<a>>) EXCEPT ![t] = r], t)
  BY <1>1, PushStep
<1> QED BY <1>1, <1>2 DEF Done, Pushed, Names

LEMMA Goto2With ==
    ASSUME Base, NEW t \in Threads, NEW x, At(t, x), NEW a \in Names, NEW b \in Names,
           b \in After(a), Then(t) \in After(b),
           NEW r, LikeGoto(t, <<a, b>>, r), r.wait = "run",
           Continue(t, [Goto(t, <<a, b>>) EXCEPT ![t] = r])
    PROVE  Pushed2(t, a, b) /\ Moved(t) /\ th'[t] = r
<1>0. <<a, b>> \in Seq(Names)
  OBVIOUS
<1>1. /\ Changed([Goto(t, <<a, b>>) EXCEPT ![t] = r], t, <<a, b>>)
      /\ [Goto(t, <<a, b>>) EXCEPT ![t] = r][t] = r
  BY <1>0, ExceptIs
<1>2. Pushed2(t, a, b) /\ Done([Goto(t, <<a, b>>) EXCEPT ![t] = r], t)
  BY <1>1, Push2Step
<1> QED BY <1>1, <1>2 DEF Done, Pushed2, Names

\* prepare_socket_request and get_socket_back.
LEMMA WritableIs ==
    ASSUME Base, NEW t \in Threads, NEW x, At(t, x), Continue(t, Writable(t)),
           x \in {"prepare", "writable"}
    PROVE  /\ Plain(t)
           /\ \/ out.writing = 0 /\ Popped(t) /\ th'[t].wait = "run"
              \/ out.writing # 0 /\ Pushed(t, "prepare") /\ th'[t].wait = "out"
<1>1. CASE out.writing = 0
  <2>1. Continue(t, Return(t))
    BY <1>1 DEF Writable
  <2> QED BY <1>1, <2>1, ReturnStep
<1>2. CASE out.writing # 0
  <2>1. Continue(t, Block(t, "out", <<"prepare">>))
    BY <1>2 DEF Writable
  <2>2. Then(t) \in After("prepare") /\ "prepare" \in Names /\ "out" \in Waits
        /\ <<"out", "prepare">> \in WaitsAt
    BY BaseIs DEF After, Names, Waits, WaitsAt
  <2> QED BY <1>2, <2>1, <2>2, BlockStep
<1> QED BY <1>1, <1>2

LEMMA PrepareIs ==
    ASSUME Base, NEW t \in Threads, PrepareSocketRequest(t)
    PROVE  /\ Plain(t) /\ Now(t) = "prepare" /\ UNCHANGED <<in, out, net, log>>
           /\ \/ net.error /\ Popped(t)
              \/ out.returnSocket # NoThread /\ Pushed2(t, "getback", "writable")
              \/ out.returnSocket = NoThread /\ out.writing = 0 /\ Popped(t)
              \/ out.returnSocket = NoThread /\ out.writing # 0 /\ Pushed(t, "prepare")
<1>1. At(t, "prepare") /\ UNCHANGED <<in, out, net, log>> /\ Now(t) = "prepare"
  BY BaseIs DEF PrepareSocketRequest
<1>2. CASE net.error
  <2>1. Continue(t, Return(t))
    BY <1>2 DEF PrepareSocketRequest
  <2> QED BY <1>1, <1>2, <2>1, ReturnStep
<1>3. CASE ~net.error /\ out.returnSocket # NoThread
  <2>1. Continue(t, Goto(t, <<"getback", "writable">>))
    BY <1>3 DEF PrepareSocketRequest
  <2>2. /\ "getback" \in Names /\ "writable" \in Names /\ "writable" \in After("getback")
        /\ Then(t) \in After("writable")
    BY <1>1, BaseIs DEF After, Names
  <2> QED BY <1>1, <1>3, <2>1, <2>2, Goto2Step
<1>4. CASE ~net.error /\ out.returnSocket = NoThread
  <2>1. Continue(t, Writable(t))
    BY <1>4 DEF PrepareSocketRequest
  <2> QED BY <1>1, <1>4, <2>1, WritableIs
<1> QED BY <1>2, <1>3, <1>4

LEMMA PrepareWritableIs ==
    ASSUME Base, NEW t \in Threads, PrepareWritable(t)
    PROVE  /\ Plain(t) /\ Now(t) = "writable" /\ UNCHANGED <<in, out, net, log>>
           /\ \/ out.writing = 0 /\ Popped(t)
              \/ out.writing # 0 /\ Pushed(t, "prepare")
<1>1. At(t, "writable") /\ UNCHANGED <<in, out, net, log>> /\ Continue(t, Writable(t))
  BY DEF PrepareWritable
<1> QED BY <1>1, WritableIs, BaseIs

LEMMA GetSocketBackIs ==
    ASSUME Base, NEW t \in Threads, get_socket_back(t)
    PROVE  /\ Plain(t) /\ Now(t) = "getback" /\ UNCHANGED <<in, net, log>>
           /\ \/ out.returnSocket = NoThread /\ Popped(t) /\ UNCHANGED out
              \/ out.returnSocket # NoThread /\ out.moving /\ Pushed(t, "getback") /\ UNCHANGED out
              \/ /\ out.returnSocket # NoThread /\ ~out.moving /\ Pushed(t, "gotback")
                 /\ th'[t].wait = "callback" /\ out' = [out EXCEPT !.moving = TRUE]
<1>1. At(t, "getback") /\ UNCHANGED <<in, net, log>> /\ Now(t) = "getback"
      /\ Then(t) \in After("getback") /\ Then(t) \in After("gotback")
  BY BaseIs DEF get_socket_back, After
<1>2. /\ "getback" \in Names /\ "gotback" \in Names /\ "socket" \in Waits /\ "callback" \in Waits
      /\ <<"socket", "getback">> \in WaitsAt /\ <<"callback", "gotback">> \in WaitsAt
  BY DEF Names, Waits, WaitsAt
<1>3. CASE out.returnSocket = NoThread
  <2>1. Continue(t, Return(t)) /\ UNCHANGED out
    BY <1>3 DEF get_socket_back
  <2> QED BY <1>1, <1>3, <2>1, ReturnStep
<1>4. CASE out.returnSocket # NoThread /\ out.moving
  <2>1. Continue(t, Block(t, "socket", <<"getback">>)) /\ UNCHANGED out
    BY <1>4 DEF get_socket_back
  <2> QED BY <1>1, <1>2, <1>4, <2>1, BlockStep
<1>5. CASE out.returnSocket # NoThread /\ ~out.moving
  <2>1. Continue(t, Block(t, "callback", <<"gotback">>)) /\ out' = [out EXCEPT !.moving = TRUE]
    BY <1>5 DEF get_socket_back
  <2> QED BY <1>1, <1>2, <1>5, <2>1, BlockStep
<1> QED BY <1>3, <1>4, <1>5

\* The list of pending replies keeps its type.
LEMMA PendingRecords ==
    ASSUME NEW p \in Seq(PendingEntries), NEW i \in 1 .. Len(p)
    PROVE  /\ p[i] \in PendingEntries /\ p[i].first \in Nat /\ p[i].last \in Nat
           /\ p[i].discard \in BOOLEAN /\ p[i].checked \in BOOLEAN /\ p[i].external \in BOOLEAN
<1>1. p[i] \in PendingEntries
  OBVIOUS
<1> QED BY <1>1 DEF PendingEntries

LEMMA RepliesDoneType ==
    ASSUME Types
    PROVE  RepliesDone \in Seq(PendingEntries)
<1> DEFINE p == in.pending
<1>1. p \in Seq(PendingEntries) /\ out.request \in Nat
  BY DEF Types, InRecords, OutRecords
<1>2. CASE p = <<>>
  BY <1>1, <1>2 DEF RepliesDone
<1>3. CASE p # <<>>
  <2>1. /\ Front(p) = SubSeq(p, 1, Len(p) - 1) /\ Last(p) = p[Len(p)]
        /\ Len(p) \in 1 .. Len(p) /\ \A i \in 1 .. (Len(p) - 1) : p[i] \in PendingEntries
    BY <1>1, <1>3 DEF Front, Last
  <2>2. Front(p) \in Seq(PendingEntries)
    <3>1. Len(p) - 1 \in Int
      BY <1>1
    <3> QED BY <2>1, <3>1, SubSeqProperties
  <2>3. [Last(p) EXCEPT !.last = out.request, !.external = FALSE] \in PendingEntries
    <3>1. Last(p) \in PendingEntries
      BY <1>1, <2>1, PendingRecords
    <3> HIDE DEF p
    <3> QED BY <1>1, <3>1 DEF PendingEntries
  <2>4. Front(p) \o <<[Last(p) EXCEPT !.last = out.request, !.external = FALSE]>>
          \in Seq(PendingEntries)
    BY <2>2, <2>3
  <2> HIDE DEF p
  <2>5. RepliesDone \in {p, Front(p), Front(p) \o <<[Last(p) EXCEPT !.last = out.request, !.external = FALSE]>>}
    BY DEF RepliesDone, p
  <2> QED BY <1>1, <2>2, <2>4, <2>5
<1> QED BY <1>2, <1>3

\* Others are woken as the thread goes on.
LEMMA BroadcastIs ==
    ASSUME Types, NEW t \in Threads, NEW s, NEW f, Changed(f, t, s), f[t].wait = "run",
           NEW cond \in Sleeps
    PROVE  /\ Changed(Broadcast(f, cond), t, s) /\ Broadcast(f, cond)[t] = f[t]
           /\ \A u \in Threads : Broadcast(f, cond)[u] = IF f[u].wait = cond
                                 THEN [f[u] EXCEPT !.wait = "run"] ELSE f[u]
<1>0. f \in [Threads -> ThreadRecords]
  BY DEF Changed
<1> DEFINE g == Signal(f, Threads, cond)
<1>a. g \in [Threads -> ThreadRecords]
  BY <1>0, SignalIs
<1>b. \A u \in Threads : g[u] = IF u \in Threads /\ f[u].wait = cond
                               THEN [f[u] EXCEPT !.wait = "run"] ELSE f[u]
  BY <1>0, SignalIs
<1>c. \A u \in Threads : Woken(f[u], g[u])
  BY <1>0, SignalIs
<1>d. g[t] = f[t]
  BY <1>b DEF Sleeps
<1>5. g = Broadcast(f, cond)
  BY DEF Broadcast
<1> HIDE DEF g
<1>3. ASSUME NEW v \in Threads \ {t}
      PROVE  Woken(th[v], g[v])
  <2>1. th[v] \in ThreadRecords /\ Woken(th[v], f[v]) /\ Woken(f[v], g[v])
    BY <1>c, <1>3 DEF Changed, Types
  <2> QED BY <2>1, WokenTwice
<1>4. Changed(g, t, s)
  BY <1>a, <1>d, <1>3 DEF Changed
<1> QED BY <1>b, <1>d, <1>4, <1>5

\* Who is woken: by a signal, by an event, by the end of a read.
LEMMA SignalOneIs ==
    ASSUME Types, NEW t \in Threads, NEW s, NEW f, Changed(f, t, s), f[t].wait = "run",
           NEW S, NEW cond \in Sleeps
    PROVE  /\ Changed(Signal(f, S, cond), t, s) /\ Signal(f, S, cond)[t] = f[t]
           /\ \A u \in Threads : Signal(f, S, cond)[u] = IF u \in S /\ f[u].wait = cond
                                 THEN [f[u] EXCEPT !.wait = "run"] ELSE f[u]
<1>0. f \in [Threads -> ThreadRecords]
  BY DEF Changed
<1> DEFINE g == Signal(f, S, cond)
<1>a. g \in [Threads -> ThreadRecords]
  BY <1>0, SignalIs
<1>b. \A u \in Threads : g[u] = IF u \in S /\ f[u].wait = cond
                               THEN [f[u] EXCEPT !.wait = "run"] ELSE f[u]
  BY <1>0, SignalIs
<1>c. \A u \in Threads : Woken(f[u], g[u])
  BY <1>0, SignalIs
<1> HIDE DEF g
<1>d. g[t] = f[t]
  BY <1>b DEF Sleeps
<1>3. ASSUME NEW v \in Threads \ {t}
      PROVE  Woken(th[v], g[v])
  <2>1. th[v] \in ThreadRecords /\ Woken(th[v], f[v]) /\ Woken(f[v], g[v])
    BY <1>c, <1>3 DEF Changed, Types
  <2> QED BY <2>1, WokenTwice
<1>4. Changed(g, t, s)
  BY <1>a, <1>d, <1>3 DEF Changed
<1> QED BY <1>b, <1>d, <1>4 DEF g

\* Somebody is woken who reads for the others, or nobody sleeps.
WakesReader(g) ==
    \/ in.readers # <<>> /\ g[Head(in.readers).thread].wait # "reader"
    \/ in.readers = <<>> /\ \/ \E u \in Threads : th[u].wait = "event" /\ g[u].wait = "run"
                            \/ \A u \in Threads : g[u].wait # "event"

LEMMA SignalEventIs ==
    ASSUME Types, NEW t \in Threads, th[t].wait = "run", NEW s, NEW f, Changed(f, t, s),
           f[t].wait = "run", NEW g \in SignalEvent(f)
    PROVE  /\ Changed(g, t, s) /\ g[t] = f[t]
           /\ \/ \E u \in Threads : th[u].wait = "event" /\ g[u].wait = "run"
              \/ \A u \in Threads : g[u].wait # "event"
<1> DEFINE W == {u \in Threads : f[u].wait = "event"}
<1>1. CASE W = {}
  <2>1. g = f
    BY <1>1 DEF SignalEvent
  <2> QED BY <1>1, <2>1
<1>2. CASE W # {}
  <2>1. PICK u \in W : g = Signal(f, {u}, "event")
    BY <1>2 DEF SignalEvent
  <2>2. "event" \in Sleeps
    BY DEF Sleeps
  <2>3. Changed(g, t, s) /\ g[t] = f[t]
    BY <2>1, <2>2, SignalOneIs
  <2>4. \A v \in Threads : g[v] = IF v \in {u} /\ f[v].wait = "event"
                                 THEN [f[v] EXCEPT !.wait = "run"] ELSE f[v]
    BY <2>1, <2>2, SignalOneIs
  <2>5. f[u] \in ThreadRecords /\ u # t /\ u \in Threads /\ f[u].wait = "event"
    BY DEF Changed
  <2>6. g[u] = [f[u] EXCEPT !.wait = "run"]
    BY <2>4, <2>5
  <2>7. g[u].wait = "run"
    BY <2>5, <2>6 DEF ThreadRecords
  <2>8. th[u].wait = "event"
    <3>1. Woken(th[u], f[u]) /\ th[u] \in ThreadRecords
      BY <2>5 DEF Changed, Types
    <3> QED BY <2>5, <3>1 DEF Woken, ThreadRecords
  <2> QED BY <2>3, <2>5, <2>7, <2>8
<1> QED BY <1>1, <1>2

LEMMA WakeUpIs ==
    ASSUME Types, NEW t \in Threads, th[t].wait = "run", NEW s, NEW f, Changed(f, t, s),
           f[t].wait = "run", NEW g \in _xcb_in_wake_up_next_reader(f)
    PROVE  Changed(g, t, s) /\ g[t] = f[t] /\ WakesReader(g)
<1>1. CASE in.readers = <<>>
  <2>1. g \in SignalEvent(f)
    BY <1>1 DEF _xcb_in_wake_up_next_reader
  <2> QED BY <1>1, <2>1, SignalEventIs DEF WakesReader
<1>2. CASE in.readers # <<>>
  <2> DEFINE u == Head(in.readers).thread
  <2>1. g = Signal(f, {u}, "reader")
    BY <1>2 DEF _xcb_in_wake_up_next_reader
  <2>2. "reader" \in Sleeps
    BY DEF Sleeps
  <2>3. Changed(g, t, s) /\ g[t] = f[t]
    BY <2>1, <2>2, SignalOneIs
  <2>4. \A v \in Threads : g[v] = IF v \in {u} /\ f[v].wait = "reader"
                                 THEN [f[v] EXCEPT !.wait = "run"] ELSE f[v]
    BY <2>1, <2>2, SignalOneIs
  <2>5. u \in Threads
    <3>1. in.readers \in Seq(ReaderEntries)
      BY DEF Types, InRecords
    <3>2. Head(in.readers) \in ReaderEntries
      BY <1>2, <3>1
    <3> QED BY <3>2 DEF ReaderEntries
  <2> HIDE DEF u
  <2>6. f[u] \in ThreadRecords
    BY <2>5 DEF Changed
  <2>7. g[u] = IF f[u].wait = "reader" THEN [f[u] EXCEPT !.wait = "run"] ELSE f[u]
    BY <2>4, <2>5
  <2>8. g[u].wait # "reader"
    BY <2>6, <2>7 DEF ThreadRecords
  <2> QED BY <1>2, <2>3, <2>8 DEF WakesReader, u
<1> QED BY <1>1, <1>2

\* The rest of get_socket_back, the loop of send_request and its end.
LEMMA GotSocketBackIs ==
    ASSUME Base, NEW t \in Threads, GotSocketBack(t)
    PROVE  /\ Plain(t) /\ Now(t) = "gotback" /\ Popped(t) /\ UNCHANGED <<net, log>>
           /\ out' = [out EXCEPT !.moving = FALSE, !.returnSocket = NoThread]
           /\ in' = [in EXCEPT !.pending = RepliesDone]
           /\ in' \in InRecords /\ out' \in OutRecords
<1>0. Types
  BY DEF Base
<1>1. /\ At(t, "gotback") /\ UNCHANGED <<net, log>> /\ Now(t) = "gotback" /\ th[t].wait = "run"
      /\ out' = [out EXCEPT !.moving = FALSE, !.returnSocket = NoThread]
      /\ in' = [in EXCEPT !.pending = RepliesDone]
      /\ Continue(t, Broadcast(Return(t), "socket"))
  BY BaseIs DEF GotSocketBack
<1>2. in' \in InRecords /\ out' \in OutRecords
  BY <1>0, <1>1, RepliesDoneType DEF Types, InRecords, OutRecords
<1>3. /\ Changed(Return(t), t, <<>>) /\ Return(t)[t].wait = "run" /\ Return(t)[t].vec = th[t].vec
      /\ Return(t)[t].cookies = th[t].cookies
  BY <1>1, BaseIs, GotoIs, EmptySeq DEF Return
<1>4. "socket" \in Sleeps
  BY DEF Sleeps
<1> DEFINE f == Broadcast(Return(t), "socket")
<1>5. Changed(f, t, <<>>) /\ f[t] = Return(t)[t]
  BY <1>0, <1>3, <1>4, BroadcastIs
<1>6. Popped(t) /\ Done(f, t)
  BY <1>1, <1>3, <1>5, PopStep
<1>7. Plain(t)
  BY <1>3, <1>5, <1>6, PlainIs
<1> QED BY <1>1, <1>2, <1>6, <1>7

LEMMA SyncBeforeWrapIs ==
    ASSUME Base, NEW t \in Threads, SyncBeforeWrap(t)
    PROVE  /\ Plain(t) /\ Now(t) = "send" /\ Pushed3(t, "sync", "prepare", "send")
           /\ UNCHANGED <<in, out, net, log>>
<1>1. /\ At(t, "send") /\ UNCHANGED <<in, out, net, log>> /\ Now(t) = "send"
      /\ Continue(t, Goto(t, <<"sync", "prepare", "send">>)) /\ Then(t) \in After("send")
  BY BaseIs DEF SyncBeforeWrap
<1>2. /\ "sync" \in Names /\ "prepare" \in Names /\ "send" \in Names
      /\ "prepare" \in After("sync") /\ "send" \in After("prepare")
  BY DEF Names, After
<1> QED BY <1>1, <1>2, Goto3Step

LEMMA CookieIs ==
    ASSUME Base, NEW t \in Threads, ReturnCookie(t)
    PROVE  /\ Moved(t) /\ Now(t) = "cookie" /\ Popped(t) /\ UNCHANGED <<in, out, net, log>>
           /\ th'[t].vec = <<>>
           /\ th'[t].cookies = IF net.error \/ th[t].kind = "void" THEN th[t].cookies
                               ELSE th[t].cookies \cup {out.request}
<1> DEFINE new == IF net.error \/ th[t].kind = "void" THEN th[t].cookies
                  ELSE th[t].cookies \cup {out.request}
           r == [Return(t)[t] EXCEPT !.cookies = new]
<1>0. Types
  BY DEF Base
<1>1. /\ At(t, "cookie") /\ UNCHANGED <<in, out, net, log>> /\ Now(t) = "cookie" /\ th[t].wait = "run"
      /\ th[t].stack # <<>> /\ Then(t) = "end"
  BY BaseIs DEF ReturnCookie, After
<1>2. /\ Changed(Return(t), t, <<>>) /\ Return(t)[t].wait = "run"
      /\ Return(t)[t].cookies = th[t].cookies
  BY <1>1, GotoIs, EmptySeq DEF Return
<1>3. new \in SUBSET Nat
  BY <1>0 DEF Types, ThreadRecords, OutRecords
<1>4. Return(t)[t] \in ThreadRecords
  BY <1>2 DEF Changed
<1>5. LikeGoto(t, <<>>, r) /\ r.wait = "run" /\ r.cookies = new
  <2> HIDE DEF new
  <2> QED BY <1>2, <1>3, <1>4 DEF ThreadRecords, LikeGoto, Changed, Return
<1>6. Continue(t, [Return(t) EXCEPT ![t] = r])
  BY <1>2 DEF ReturnCookie
<1> HIDE DEF r
<1>8. Popped(t) /\ Moved(t) /\ th'[t].cookies = r.cookies
  BY <1>1, <1>5, <1>6, ReturnWith
<1>9. Now(t)' = "end"
  BY <1>1, <1>8 DEF Popped
<1> QED BY <1>1, <1>5, <1>8, <1>9 DEF Moved

-----------------------------------------------------------------------------
(* What each step does: numbering and writing requests                     *)

\* The request that a thread sends, and what the code notes of it.
KindNow(t) == IF Now(t) = "sync" THEN "sync" ELSE th[t].kind

\* The list of pending replies after the request is numbered.
PendingWith(kind) ==
    IF kind = "void" THEN in.pending
    ELSE Append(in.pending, Expect(out.request + 1, kind = "sync", kind # "sync", FALSE))

\* What numbering a request does besides queueing it.
Numbering(t, kind) ==
    /\ ~net.error
    /\ log' = Append(log, [kind |-> kind, by |-> t]) /\ log' \in Seq(LogRecords)
    /\ in' = [in EXCEPT
                !.expected = IF kind \in {"query", "sync"} THEN out.request + 1 ELSE @,
                !.pending = PendingWith(kind)]
    /\ in' \in InRecords /\ out' \in OutRecords

LEMMA ExpectType ==
    ASSUME NEW n \in Nat, NEW d \in BOOLEAN, NEW c \in BOOLEAN, NEW e \in BOOLEAN
    PROVE  Expect(n, d, c, e) \in PendingEntries
BY DEF Expect, PendingEntries

\* send_request: fails, queues the request or sends the whole queue.
LEMMA SendIs ==
    ASSUME Base, NEW t \in Threads, send_request(t)
    PROVE  /\ Moved(t) /\ Now(t) \in {"send", "sync"} /\ UNCHANGED net
           /\ th'[t].cookies = th[t].cookies
           /\ Now(t) = "send" => ~NeedsSync(th[t].kind)
           /\ \/ net.error /\ Popped(t) /\ UNCHANGED <<in, out, log>> /\ Plain(t)
              \/ /\ Numbering(t, KindNow(t)) /\ Popped(t) /\ Plain(t)
                 /\ out' = [out EXCEPT !.request = out.request + 1,
                                       !.queue = Append(out.queue, out.request + 1)]
              \/ /\ Numbering(t, KindNow(t)) /\ Pushed(t, "outsend") /\ th'[t].wait = "run"
                 /\ out' = [out EXCEPT !.request = out.request + 1, !.queue = <<>>]
                 /\ th'[t].vec = Append(out.queue, out.request + 1)
<1> DEFINE kind == KindNow(t)
           n == out.request + 1
           queue == Append(out.queue, n)
<1>0. Types
  BY DEF Base
<1>1. PICK x \in {"send", "sync"} : At(t, x)
  BY DEF send_request
<1>2. Now(t) = x /\ th[t].wait = "run" /\ UNCHANGED net /\ Then(t) \in After(x) /\ th[t].stack # <<>>
  BY <1>1, BaseIs DEF send_request
<1>3. SendRequest(t, kind) /\ (x = "send" => ~NeedsSync(th[t].kind))
  <2>1. \A y : At(t, y) => y = x
    BY <1>1 DEF At
  <2> QED BY <1>2, <2>1 DEF send_request, KindNow
<1>4. CASE net.error
  <2>1. Continue(t, Return(t)) /\ UNCHANGED <<in, out, log>>
    BY <1>3, <1>4 DEF SendRequest
  <2>2. Popped(t) /\ Plain(t)
    BY <1>1, <2>1, ReturnStep
  <2> QED BY <1>2, <1>3, <1>4, <2>1, <2>2 DEF Plain
<1>5. CASE ~net.error
  <2>1. kind \in {"void", "check", "query", "sync"} /\ n \in Nat /\ queue \in Seq(Nat)
        /\ log \in Seq(LogRecords) /\ in \in InRecords /\ out \in OutRecords
    <3>1. th[t] \in ThreadRecords /\ out \in OutRecords /\ log \in Seq(LogRecords) /\ in \in InRecords
      BY <1>0 DEF Types
    <3>2. kind \in {"void", "check", "query", "sync"}
      BY <3>1 DEF ThreadRecords, KindNow
    <3>3. out.request \in Nat /\ out.queue \in Seq(Nat)
      BY <3>1 DEF OutRecords
    <3> QED BY <3>1, <3>2, <3>3
  <2>2. PendingWith(kind) \in Seq(PendingEntries)
    <3>1. \A k : Expect(n, k = "sync", k # "sync", FALSE) \in PendingEntries
      BY <2>1, ExpectType
    <3>2. in.pending \in Seq(PendingEntries)
      BY <2>1 DEF InRecords
    <3> HIDE DEF kind
    <3> DEFINE e == Expect(n, kind = "sync", kind # "sync", FALSE)
    <3>3. e \in PendingEntries
      BY <3>1
    <3>4. PendingWith(kind) = IF kind = "void" THEN in.pending ELSE Append(in.pending, e)
      BY DEF PendingWith
    <3> HIDE DEF e
    <3>5. Append(in.pending, e) \in Seq(PendingEntries)
      BY <3>2, <3>3
    <3> QED BY <3>2, <3>4, <3>5
  <2>3. log' = Append(log, [kind |-> kind, by |-> t])
    BY <1>3, <1>5 DEF SendRequest
  <2>4. in' = [in EXCEPT
                !.expected = IF kind \in {"query", "sync"} THEN n ELSE @,
                !.pending = PendingWith(kind)]
    BY <1>3, <1>5 DEF SendRequest, PendingWith
  <2>5. IF Len(queue) <= QueueSize
        THEN /\ out' = [out EXCEPT !.request = n, !.queue = queue]
             /\ Continue(t, Return(t))
        ELSE /\ out' = [out EXCEPT !.request = n, !.queue = <<>>]
             /\ Continue(t, [Goto(t, <<"outsend">>) EXCEPT ![t].vec = queue])
    BY <1>3, <1>5 DEF SendRequest
  <2> HIDE DEF kind, n, queue
  <2>6. in' \in InRecords
    BY <2>1, <2>2, <2>4 DEF InRecords
  <2>7. log' \in Seq(LogRecords)
    <3>1. [kind |-> kind, by |-> t] \in LogRecords
      BY <2>1 DEF LogRecords
    <3> QED BY <2>1, <2>3, <3>1
  <2>8. out' \in OutRecords
    BY <2>1, <2>5, EmptySeq DEF OutRecords
  <2>9. Numbering(t, kind)
    BY <1>5, <2>3, <2>4, <2>6, <2>7, <2>8 DEF Numbering, n
  <2>10. CASE Len(queue) <= QueueSize
    <3>1. Popped(t) /\ Plain(t)
      BY <1>1, <2>5, <2>10, ReturnStep
    <3> QED BY <1>2, <1>3, <2>5, <2>9, <2>10, <3>1 DEF Plain, kind, n, queue
  <2>11. CASE ~(Len(queue) <= QueueSize)
    <3> DEFINE r == [Goto(t, <<"outsend">>)[t] EXCEPT !.vec = queue]
    <3>1. <<"outsend">> \in Seq(Names) /\ "outsend" \in Names
      BY DEF Names
    <3>2. /\ Changed(Goto(t, <<"outsend">>), t, <<"outsend">>)
          /\ Goto(t, <<"outsend">>)[t].wait = "run"
          /\ Goto(t, <<"outsend">>)[t].cookies = th[t].cookies
      BY <1>2, <3>1, GotoIs
    <3>3. Goto(t, <<"outsend">>)[t] \in ThreadRecords
      BY <3>2 DEF Changed
    <3>4. /\ LikeGoto(t, <<"outsend">>, r) /\ r.wait = "run" /\ r.vec = queue
          /\ r.cookies = th[t].cookies
      BY <2>1, <3>2, <3>3 DEF ThreadRecords, LikeGoto, Changed
    <3>5. Continue(t, [Goto(t, <<"outsend">>) EXCEPT ![t] = r])
      BY <2>5, <2>11
    <3>6. Then(t) \in After("outsend")
      BY <1>2 DEF After
    <3> HIDE DEF r
    <3>7. Pushed(t, "outsend") /\ Moved(t) /\ th'[t] = r
      BY <1>1, <3>1, <3>4, <3>5, <3>6, GotoWith
    <3> QED BY <1>2, <1>3, <2>5, <2>9, <2>11, <3>4, <3>7 DEF kind, n, queue
  <2> QED BY <2>10, <2>11
<1> QED BY <1>4, <1>5

\* _xcb_out_send: is done, or polls in order to write.
LEMMA OutSendIs ==
    ASSUME Base, NEW t \in Threads, OutSend(t), out.writing > 0 => th[t].vec = <<>>
    PROVE  /\ Plain(t) /\ Now(t) = "outsend" /\ UNCHANGED <<net, log>>
           /\ \/ /\ th[t].vec = <<>> /\ Popped(t) /\ WakesReader(th') /\ UNCHANGED in
                 /\ out' = [out EXCEPT !.written = out.request, !.expectedWritten = in.expected]
                 /\ out' \in OutRecords
              \/ /\ th[t].vec # <<>> /\ Pushed3(t, "polled", "write", "outsend")
                 /\ th'[t].wait = "poll" /\ th'[t].vec = th[t].vec /\ out.writing = 0
                 /\ in' = [in EXCEPT !.reading = @ + 1] /\ out' = [out EXCEPT !.writing = @ + 1]
                 /\ in' \in InRecords /\ out' \in OutRecords
<1>0. Types /\ in \in InRecords /\ out \in OutRecords
  BY DEF Base, Types
<1>1. /\ At(t, "outsend") /\ UNCHANGED <<net, log>> /\ Now(t) = "outsend" /\ th[t].wait = "run"
      /\ Then(t) \in After("outsend") /\ th[t].stack # <<>>
  BY BaseIs DEF OutSend
<1>2. CASE th[t].vec = <<>>
  <2>1. /\ out' = [out EXCEPT !.written = out.request, !.expectedWritten = in.expected]
        /\ UNCHANGED in
    BY <1>2 DEF OutSend
  <2>2. PICK g \in WakeAll(Return(t)) : Continue(t, g)
    BY <1>2 DEF OutSend
  <2>3. /\ Changed(Return(t), t, <<>>) /\ Return(t)[t].wait = "run" /\ Return(t)[t].vec = th[t].vec
        /\ Return(t)[t].cookies = th[t].cookies
    BY <1>1, GotoIs, EmptySeq DEF Return
  <2> DEFINE f == Broadcast(Return(t), "out")
  <2>4. "out" \in Sleeps
    BY DEF Sleeps
  <2>5. Changed(f, t, <<>>) /\ f[t] = Return(t)[t]
    BY <1>0, <2>3, <2>4, BroadcastIs
  <2>6. g \in _xcb_in_wake_up_next_reader(f)
    BY <2>2 DEF WakeAll
  <2>7. Changed(g, t, <<>>) /\ g[t] = f[t] /\ WakesReader(g)
    BY <1>0, <1>1, <2>3, <2>5, <2>6, WakeUpIs
  <2>8. Popped(t) /\ Done(g, t) /\ th'[t].wait = "run"
    BY <1>1, <2>2, <2>3, <2>5, <2>7, PopStep
  <2>9. Plain(t)
    BY <2>3, <2>5, <2>7, <2>8, PlainIs
  <2>10. \A u \in Threads : th'[u].wait = g[u].wait
    BY <2>3, <2>5, <2>7, <2>8 DEF Done
  <2>11. in.readers # <<>> => Head(in.readers).thread \in Threads
    <3>1. in.readers \in Seq(ReaderEntries)
      BY <1>0 DEF InRecords
    <3>2. in.readers # <<>> => Head(in.readers) \in ReaderEntries
      BY <3>1
    <3> QED BY <3>2 DEF ReaderEntries
  <2>12. WakesReader(th')
    BY <2>7, <2>10, <2>11 DEF WakesReader
  <2>13. out' \in OutRecords
    BY <1>0, <2>1 DEF InRecords, OutRecords
  <2> QED BY <1>1, <1>2, <2>1, <2>8, <2>9, <2>12, <2>13
<1>3. CASE th[t].vec # <<>>
  <2>1. out.writing = 0
    <3>1. ~(out.writing > 0)
      BY <1>3
    <3> QED BY <1>3, <3>1 DEF OutSend
  <2>2. /\ in' = [in EXCEPT !.reading = @ + 1] /\ out' = [out EXCEPT !.writing = @ + 1]
        /\ Continue(t, Block(t, "poll", <<"polled", "write", "outsend">>))
    BY <1>3, <2>1 DEF OutSend
  <2>3. in' \in InRecords /\ out' \in OutRecords
    <3>1. in.reading + 1 \in Int /\ out.writing + 1 \in Int
      BY <1>0 DEF InRecords, OutRecords
    <3>2. in' \in InRecords
      BY <1>0, <2>2, <3>1 DEF InRecords
    <3>3. out' \in OutRecords
      BY <1>0, <2>2, <3>1 DEF OutRecords
    <3> QED BY <3>2, <3>3
  <2>4. /\ "polled" \in Names /\ "write" \in Names /\ "outsend" \in Names /\ "poll" \in Waits
        /\ "write" \in After("polled") /\ "outsend" \in After("write")
        /\ <<"poll", "polled">> \in WaitsAt
    BY DEF Names, Waits, After, WaitsAt
  <2>5. /\ Pushed3(t, "polled", "write", "outsend") /\ Plain(t) /\ th'[t].wait = "poll"
        /\ th'[t].vec = th[t].vec
    BY <1>1, <2>2, <2>4, Block3Step
  <2> QED BY <1>1, <1>3, <2>1, <2>2, <2>3, <2>5
<1> QED BY <1>2, <1>3

\* A thread that polls in order to write, in order to read.
LEMMA WritesTooIs ==
    ASSUME Base, NEW t \in Threads, Now(t) = "polled"
    PROVE  WritesToo(t) <=> Then(t) = "write"
<1> DEFINE s == th[t].stack
<1>0. Valid(s)
  BY DEF Base, Control
<1>1. Valid(s) /\ s \in Seq(Names) /\ Len(s) \in Nat
  BY <1>0 DEF Valid
<1>2. WritesToo(t) <=> \E i \in 1 .. Len(s) : s[i] = "write"
  BY <1>1 DEF WritesToo, ToSet
<1>3. ASSUME Then(t) = "write"
      PROVE  WritesToo(t)
  <2>1. Item(s, 2) = "write" /\ "write" # "end"
    BY <1>3 DEF Then, Place
  <2>2. 2 \in 1 .. Len(s) /\ s[2] = "write"
    BY <2>1 DEF Item
  <2> QED BY <1>2, <2>2
<1>4. ASSUME Then(t) # "write"
      PROVE  ~WritesToo(t)
  <2>1. Item(s, 1) = "polled" /\ Item(s, 2) = "waited"
    BY <1>1, <1>4, Shape DEF Now, Then, Place, After
  <2>2. Item(s, 3) \in {"replyloop", "eventloop"}
    BY <1>1, <2>1, Shape DEF After
  <2>3. Item(s, 4) \in {"remove", "wakenext"}
    BY <1>1, <2>2, Shape DEF After
  <2>4. Item(s, 5) \in {"wakenext", "end"}
    BY <1>1, <2>3, Shape DEF After
  <2>5. Item(s, 6) = "end"
    BY <1>1, <2>4, Shape DEF After
  <2>6. Len(s) < 6
    BY <1>1, <2>5, ItemIs
  <2>7. ASSUME NEW i \in 1 .. Len(s)
        PROVE  s[i] # "write"
    <3>1. i \in {1, 2, 3, 4, 5} /\ Item(s, i) = s[i]
      BY <1>1, <2>6 DEF Item
    <3> QED BY <2>1, <2>2, <2>3, <2>4, <3>1
  <2> QED BY <1>2, <2>7
<1> QED BY <1>3, <1>4

\* After poll() the thread reads first, if it may.
LEMMA PolledIs ==
    ASSUME Base, NEW t \in Threads, Polled(t)
    PROVE  /\ Moved(t) /\ Now(t) = "polled" /\ UNCHANGED <<in, out, net, log>>
           /\ th'[t].vec = th[t].vec /\ th'[t].cookies = th[t].cookies
           /\ th'[t].wait = "run" /\ th'[t].ok = (th[t].revents # {"hup"})
           /\ Then(t) \in {"write", "waited"}
           /\ \/ Popped(t)
              \/ Pushed(t, "read") /\ (in.reading = 1 \/ Then(t) # "write")
<1> DEFINE revents == th[t].revents
           f == [th EXCEPT ![t].revents = {}, ![t].ok = revents # {"hup"}]
           next == IF "in" \in revents /\ MayRead(t) THEN <<"read">> ELSE <<>>
           g == [f EXCEPT ![t].stack = next \o Tail(@), ![t].revents = revents \cap {"out"}]
<1>0. Types /\ th \in [Threads -> ThreadRecords] /\ th[t] \in ThreadRecords
  BY DEF Base, Types
<1>1. /\ At(t, "polled") /\ UNCHANGED <<in, out, net, log>> /\ Now(t) = "polled"
      /\ th[t].wait = "run" /\ Then(t) \in After("polled") /\ th[t].stack # <<>>
      /\ Continue(t, g)
  BY BaseIs DEF Polled
<1>2. Then(t) \in {"write", "waited"}
  BY <1>1 DEF After
<1>3. next \in Seq(Names) /\ th[t].stack \in Seq(Names)
  <2>1. "read" \in Names
    BY DEF Names
  <2>2. <<"read">> \in Seq(Names) /\ <<>> \in Seq(Names)
    BY <2>1
  <2>3. next \in {<<>>, <<"read">>}
    OBVIOUS
  <2>4. th[t].stack \in Seq(Names)
    BY <1>0 DEF ThreadRecords
  <2> HIDE DEF next
  <2> QED BY <2>2, <2>3, <2>4
<1> DEFINE r == [th[t] EXCEPT !.stack = next \o Tail(@), !.ok = revents # {"hup"},
                              !.revents = revents \cap {"out"}]
<1>4. g = [th EXCEPT ![t] = r]
  BY <1>0 DEF ThreadRecords
<1> HIDE DEF next, g
<1>5. next \o Tail(th[t].stack) \in Seq(Names)
  BY <1>1, <1>3
<1>6. /\ r \in ThreadRecords /\ r.stack = next \o Tail(th[t].stack) /\ r.wait = "run"
      /\ r.op = th[t].op /\ r.kind = th[t].kind /\ r.request = th[t].request
      /\ r.vec = th[t].vec /\ r.cookies = th[t].cookies /\ r.ok = (revents # {"hup"})
  BY <1>0, <1>1, <1>5 DEF ThreadRecords
<1> HIDE DEF r
<1>7. Changed(g, t, next) /\ g[t] = r
  BY <1>0, <1>4, <1>6 DEF Changed, Woken
<1>8. CASE "in" \in revents /\ MayRead(t)
  <2>1. next = <<"read">>
    BY <1>8 DEF next
  <2>2. "read" \in Names /\ Then(t) \in After("read")
    BY <1>2 DEF Names, After
  <2>3. Pushed(t, "read") /\ Done(g, t)
    BY <1>1, <1>6, <1>7, <2>1, <2>2, PushStep
  <2>4. th'[t] = r
    BY <1>7, <2>3 DEF Done, Pushed
  <2>5. in.reading = 1 \/ Then(t) # "write"
    BY <1>1, <1>8, WritesTooIs DEF MayRead
  <2>6. Moved(t)
    BY <2>3 DEF Done
  <2> QED BY <1>1, <1>2, <1>6, <2>3, <2>4, <2>5, <2>6
<1>9. CASE ~("in" \in revents /\ MayRead(t))
  <2>1. next = <<>>
    BY <1>9 DEF next
  <2>3. Popped(t) /\ Done(g, t)
    BY <1>1, <1>6, <1>7, <2>1, PopStep
  <2>4. th'[t] = r /\ Moved(t)
    BY <1>2, <1>7, <2>3 DEF Done, Popped
  <2> QED BY <1>1, <1>2, <1>6, <2>3, <2>4
<1> QED BY <1>8, <1>9

\* The types of the variables, one by one.
LEMMA TypesAre ==
    ASSUME Base
    PROVE  /\ Types /\ in \in InRecords /\ out \in OutRecords /\ net \in NetRecords
           /\ log \in Seq(LogRecords) /\ th \in [Threads -> ThreadRecords]
           /\ \A t \in Threads : th[t] \in ThreadRecords /\ Valid(th[t].stack)
BY DEF Base, Types, Control

\* A thread stays at its step, and goes on.
Resumed(t) ==
    /\ th' \in [Threads -> ThreadRecords] /\ lock = NoThread /\ lock' = lock
    /\ \A v \in Threads \ {t} : th'[v] = th[v]
    /\ th'[t].stack = th[t].stack /\ th'[t].op = th[t].op /\ th'[t].kind = th[t].kind
    /\ th'[t].request = th[t].request /\ th'[t].vec = th[t].vec
    /\ th'[t].cookies = th[t].cookies /\ th'[t].ok = th[t].ok /\ th'[t].wait = "run"

\* poll() returns.
LEMMA PollReturnsIs ==
    ASSUME Base, NEW t \in Threads, PollReturns(t)
    PROVE  /\ Resumed(t) /\ th[t].wait = "poll" /\ UNCHANGED <<in, out, log>>
           /\ th'[t].revents = {"hup"} => net'.error
           /\ net' = [net EXCEPT !.error = net'.error] /\ net' \in NetRecords
           /\ net'.error => net.error \/ net.broken
           /\ net.error => net'.error
<1>0. th \in [Threads -> ThreadRecords] /\ th[t] \in ThreadRecords /\ net \in NetRecords
  BY TypesAre
<1>1. /\ lock = NoThread /\ lock' = lock /\ th[t].wait = "poll" /\ UNCHANGED <<in, out, log>>
  BY DEF PollReturns, Outside
<1> DEFINE ready == (IF net.wire # <<>> \/ net.broken THEN {"in"} ELSE {})
                    \cup (IF WritesToo(t) /\ (Room > 0 \/ net.broken) THEN {"out"} ELSE {})
<1>2. PICK r \in {ready} \cup (IF net.broken THEN {{"hup"}} ELSE {}) :
            /\ th' = [th EXCEPT ![t].wait = "run", ![t].revents = r]
            /\ net' = [net EXCEPT !.error = @ \/ r = {"hup"}]
  BY DEF PollReturns
<1>3. ready \subseteq {"in", "out"}
  OBVIOUS
<1> HIDE DEF ready
<1>4. r \subseteq {"in", "out", "hup"} /\ (r = {"hup"} => net.broken)
  BY <1>2, <1>3
<1>5. net'.error = (net.error \/ r = {"hup"})
  BY <1>0, <1>2 DEF NetRecords
<1>6. net' \in NetRecords /\ net' = [net EXCEPT !.error = net'.error]
  <2>1. (net.error \/ r = {"hup"}) \in BOOLEAN
    OBVIOUS
  <2> QED BY <1>0, <1>2, <1>5, <2>1 DEF NetRecords
<1> DEFINE q == [th[t] EXCEPT !.wait = "run", !.revents = r]
<1>7. th' = [th EXCEPT ![t] = q]
  BY <1>0, <1>2 DEF ThreadRecords
<1>8. /\ q \in ThreadRecords /\ q.stack = th[t].stack /\ q.op = th[t].op /\ q.kind = th[t].kind
      /\ q.request = th[t].request /\ q.vec = th[t].vec /\ q.cookies = th[t].cookies
      /\ q.ok = th[t].ok /\ q.wait = "run" /\ q.revents = r
  BY <1>0, <1>4 DEF ThreadRecords, Waits
<1> HIDE DEF q
<1>9. th'[t] = q /\ th' \in [Threads -> ThreadRecords] /\ \A v \in Threads \ {t} : th'[v] = th[v]
  BY <1>0, <1>7, <1>8
<1> QED BY <1>1, <1>4, <1>5, <1>6, <1>8, <1>9 DEF Resumed

\* return_socket: the owner gives the socket up between two calls of its own.
LEMMA ReturnSocketIs ==
    ASSUME Base, NEW t \in Threads, return_socket(t)
    PROVE  /\ Resumed(t) /\ th[t].wait = "callback" /\ UNCHANGED <<in, net, log>>
           /\ out' = [out EXCEPT !.owns = out.owns \ {out.returnSocket}] /\ out' \in OutRecords
           /\ th[out.returnSocket].stack = <<>> \/ th[out.returnSocket].op \notin {"take", "write"}
<1>0. th \in [Threads -> ThreadRecords] /\ th[t] \in ThreadRecords /\ out \in OutRecords
  BY TypesAre
<1>1. /\ lock = NoThread /\ lock' = lock /\ th[t].wait = "callback" /\ UNCHANGED <<in, net, log>>
      /\ out' = [out EXCEPT !.owns = out.owns \ {out.returnSocket}]
      /\ th[out.returnSocket].stack = <<>> \/ th[out.returnSocket].op \notin {"take", "write"}
      /\ th' = [th EXCEPT ![t].wait = "run"]
  BY DEF return_socket, Outside
<1>2. out' \in OutRecords
  BY <1>0, <1>1 DEF OutRecords
<1> DEFINE q == [th[t] EXCEPT !.wait = "run"]
<1>7. th' = [th EXCEPT ![t] = q]
  BY <1>1
<1>8. /\ q \in ThreadRecords /\ q.stack = th[t].stack /\ q.op = th[t].op /\ q.kind = th[t].kind
      /\ q.request = th[t].request /\ q.vec = th[t].vec /\ q.cookies = th[t].cookies
      /\ q.ok = th[t].ok /\ q.wait = "run"
  BY <1>0 DEF ThreadRecords, Waits
<1> HIDE DEF q
<1>9. th'[t] = q /\ th' \in [Threads -> ThreadRecords] /\ \A v \in Threads \ {t} : th'[v] = th[v]
  BY <1>0, <1>7, <1>8
<1> QED BY <1>1, <1>2, <1>8, <1>9 DEF Resumed

\* write_vec: n requests of those that are to be written go to the socket; after
\* a failure the rest is dropped.
LEMMA WriteVecIs ==
    ASSUME Base, NEW t \in Threads, WriteVec(t)
    PROVE  /\ Moved(t) /\ Now(t) = "write" /\ Popped(t) /\ UNCHANGED log
           /\ Now(t)' = "outsend"
           /\ th'[t].cookies = th[t].cookies
           /\ in' = [in EXCEPT !.reading = @ - 1] /\ out' = [out EXCEPT !.writing = @ - 1]
           /\ in' \in InRecords /\ out' \in OutRecords /\ net' \in NetRecords
           /\ net.error => net'.error
           /\ net'.error => net.error \/ net.broken
           /\ \E n \in 0 .. Len(th[t].vec) :
                /\ net' = [net EXCEPT !.socket = @ \o SubSeq(th[t].vec, 1, n),
                                      !.error = net'.error]
                /\ n > 0 => ~net.broken
                /\ \/ th'[t].vec = SubSeq(th[t].vec, n + 1, Len(th[t].vec))
                   \/ n = 0 /\ th'[t].vec = <<>> /\ (~th[t].ok \/ net'.error)
<1>0. /\ th[t] \in ThreadRecords /\ in \in InRecords /\ out \in OutRecords /\ net \in NetRecords
      /\ th[t].vec \in Seq(Nat) /\ Len(th[t].vec) \in Nat /\ net.socket \in Seq(Nat)
      /\ th[t].ok \in BOOLEAN /\ net.error \in BOOLEAN /\ net.broken \in BOOLEAN
  BY TypesAre DEF ThreadRecords, NetRecords
<1> DEFINE vec == th[t].vec
           writable == th[t].ok /\ "out" \in th[t].revents
           ok == th[t].ok /\ ~(writable /\ net.broken)
<1>1. /\ At(t, "write") /\ UNCHANGED log /\ Now(t) = "write" /\ th[t].wait = "run"
      /\ Then(t) = "outsend" /\ th[t].stack # <<>>
      /\ in' = [in EXCEPT !.reading = @ - 1] /\ out' = [out EXCEPT !.writing = @ - 1]
  BY BaseIs DEF WriteVec, After
<1>2. PICK n \in (IF writable /\ ~net.broken THEN 1 .. Len(vec) ELSE {0}) :
        /\ net' = [net EXCEPT !.socket = @ \o SubSeq(vec, 1, n),
                              !.error = @ \/ (writable /\ net.broken)]
        /\ Continue(t, [Return(t) EXCEPT
                          ![t].ok = ok, ![t].revents = {},
                          ![t].vec = IF ok THEN SubSeq(@, n + 1, Len(@)) ELSE <<>>])
  BY DEF WriteVec
<1>3. n \in 0 .. Len(vec) /\ n \in Nat /\ (~ok => n = 0) /\ (~ok => ~th[t].ok \/ (net.broken /\ writable))
  <2>1. Len(vec) \in Nat
    BY <1>0
  <2>2. n \in 0 .. Len(vec) /\ n \in Nat
    <3>1. CASE writable /\ ~net.broken
      <4>1. n \in 1 .. Len(vec)
        BY <1>2, <3>1
      <4> QED BY <2>1, <4>1
    <3>2. CASE ~(writable /\ ~net.broken)
      <4>1. n = 0
        BY <1>2, <3>2
      <4> QED BY <2>1, <4>1
    <3> QED BY <3>1, <3>2
  <2>3. ~ok => n = 0
    BY <1>2
  <2>4. ~ok => ~th[t].ok \/ (net.broken /\ writable)
    OBVIOUS
  <2> HIDE DEF ok, writable, vec
  <2> QED BY <2>2, <2>3, <2>4
<1>b. n > 0 => ~net.broken
  BY <1>2
<1>4. in' \in InRecords /\ out' \in OutRecords
  <2>1. in.reading - 1 \in Int /\ out.writing - 1 \in Int
    BY <1>0 DEF InRecords, OutRecords
  <2>2. in' \in InRecords
    BY <1>0, <1>1, <2>1 DEF InRecords
  <2>3. out' \in OutRecords
    BY <1>0, <1>1, <2>1 DEF OutRecords
  <2> QED BY <2>2, <2>3
<1>5. SubSeq(vec, 1, n) \in Seq(Nat) /\ SubSeq(vec, n + 1, Len(vec)) \in Seq(Nat)
  <2>1. \A i \in 1 .. n : vec[i] \in Nat
    BY <1>0, <1>3
  <2>2. \A i \in n + 1 .. Len(vec) : vec[i] \in Nat
    BY <1>0, <1>3
  <2>3. n + 1 \in Int /\ Len(vec) \in Int /\ n \in Int /\ 1 \in Int
    BY <1>0, <1>3
  <2>4. SubSeq(vec, 1, n) \in Seq(Nat)
    BY <2>1, <2>3, SubSeqProperties
  <2>5. SubSeq(vec, n + 1, Len(vec)) \in Seq(Nat)
    BY <2>2, <2>3, SubSeqProperties
  <2> QED BY <2>4, <2>5
<1> DEFINE failed == net.error \/ (writable /\ net.broken)
           sent == net.socket \o SubSeq(vec, 1, n)
<1>6. failed \in BOOLEAN /\ sent \in Seq(Nat)
  BY <1>0, <1>5
<1>7. net' = [net EXCEPT !.socket = sent, !.error = failed]
  BY <1>2
<1>8. /\ net' \in NetRecords /\ net'.error = failed
      /\ net' = [net EXCEPT !.socket = net.socket \o SubSeq(th[t].vec, 1, n), !.error = net'.error]
  <2> HIDE DEF failed, sent
  <2>1. net' \in NetRecords /\ net'.error = failed
    BY <1>0, <1>6, <1>7 DEF NetRecords
  <2> QED BY <1>7, <2>1 DEF sent
<1> DEFINE g == Return(t)
           new == IF ok THEN SubSeq(vec, n + 1, Len(vec)) ELSE <<>>
           r == [g[t] EXCEPT !.ok = ok, !.revents = {}, !.vec = new]
<1>9. /\ Changed(g, t, <<>>) /\ g[t].wait = "run" /\ g[t].vec = vec
      /\ g[t].cookies = th[t].cookies
  BY <1>1, GotoIs, EmptySeq DEF Return
<1>10. g[t] \in ThreadRecords
  BY <1>9 DEF Changed
<1>11. new \in Seq(Nat) /\ ok \in BOOLEAN
  BY <1>5
<1>12. Continue(t, [g EXCEPT ![t] = r])
  <2>1. [g EXCEPT ![t].ok = ok, ![t].revents = {},
                  ![t].vec = IF ok THEN SubSeq(@, n + 1, Len(@)) ELSE <<>>] = [g EXCEPT ![t] = r]
    <3> HIDE DEF ok, g
    <3> QED BY <1>9, <1>10 DEF ThreadRecords, Changed
  <2> QED BY <1>2, <2>1
<1>13. LikeGoto(t, <<>>, r) /\ r.wait = "run" /\ r.vec = new /\ r.cookies = th[t].cookies
  <2> HIDE DEF new, ok
  <2> QED BY <1>9, <1>10, <1>11 DEF ThreadRecords, LikeGoto, Changed, Return
<1> HIDE DEF r, new
<1>14. Popped(t) /\ Moved(t) /\ th'[t].cookies = r.cookies /\ (Now(t)' # "end" => th'[t] = r)
  BY <1>1, <1>12, <1>13, ReturnWith
<1>15. Now(t)' = "outsend" /\ th'[t].vec = new
  BY <1>1, <1>13, <1>14 DEF Popped
<1> HIDE DEF writable
<1>16. net.error => net'.error
  BY <1>8
<1>17. net'.error => net.error \/ net.broken
  BY <1>8
<1>18. \/ th'[t].vec = SubSeq(th[t].vec, n + 1, Len(th[t].vec))
       \/ n = 0 /\ th'[t].vec = <<>> /\ (~th[t].ok \/ net'.error)
  BY <1>3, <1>8, <1>15 DEF new
<1> QED BY <1>1, <1>3, <1>b, <1>4, <1>8, <1>13, <1>14, <1>15, <1>16, <1>17, <1>18

-----------------------------------------------------------------------------
(* What each step does: flushing and taking the socket                     *)

\* Goto with "ok" or "target" set.
LEMMA FieldsOfGoto ==
    ASSUME Base, NEW t \in Threads, NEW x, At(t, x), NEW s \in Seq(Names)
    PROVE  /\ Goto(t, s)[t] \in ThreadRecords /\ Goto(t, s)[t].op = th[t].op
           /\ Goto(t, s)[t].kind = th[t].kind /\ Goto(t, s)[t].request = th[t].request
           /\ Goto(t, s)[t].wait = "run" /\ Goto(t, s)[t].vec = th[t].vec
           /\ Goto(t, s)[t].cookies = th[t].cookies /\ Goto(t, s)[t].ok = th[t].ok
<1>1. /\ Changed(Goto(t, s), t, s) /\ Goto(t, s)[t].wait = "run" /\ Goto(t, s)[t].vec = th[t].vec
      /\ Goto(t, s)[t].cookies = th[t].cookies /\ Goto(t, s)[t].ok = th[t].ok
  BY BaseIs, GotoIs
<1> QED BY <1>1 DEF Changed

\* The thread goes on with a new argument, or the result of a function.
LEMMA OkIs ==
    ASSUME Base, NEW t \in Threads, NEW x, At(t, x), NEW s \in Seq(Names), NEW b \in BOOLEAN
    PROVE  /\ LikeGoto(t, s, [Goto(t, s)[t] EXCEPT !.ok = b])
           /\ [Goto(t, s)[t] EXCEPT !.ok = b].wait = "run"
           /\ [Goto(t, s)[t] EXCEPT !.ok = b].vec = th[t].vec
           /\ [Goto(t, s)[t] EXCEPT !.ok = b].cookies = th[t].cookies
           /\ [Goto(t, s)[t] EXCEPT !.ok = b].ok = b
<1> DEFINE g == Goto(t, s)[t]
<1>1. /\ g \in ThreadRecords /\ g.op = th[t].op
      /\ g.kind = th[t].kind /\ g.request = th[t].request
      /\ g.wait = "run" /\ g.vec = th[t].vec
      /\ g.cookies = th[t].cookies
  BY FieldsOfGoto
<1> HIDE DEF g
<1> DEFINE r == [g EXCEPT !.ok = b]
<1>2. /\ r \in ThreadRecords /\ r.stack = g.stack /\ r.op = g.op /\ r.kind = g.kind
      /\ r.request = g.request /\ r.wait = g.wait /\ r.vec = g.vec /\ r.cookies = g.cookies
      /\ r.ok = b
  BY <1>1 DEF ThreadRecords
<1> QED BY <1>1, <1>2 DEF LikeGoto, g

LEMMA TargetIs ==
    ASSUME Base, NEW t \in Threads, NEW x, At(t, x), NEW s \in Seq(Names), NEW n \in Nat
    PROVE  /\ LikeGoto(t, s, [Goto(t, s)[t] EXCEPT !.target = n])
           /\ [Goto(t, s)[t] EXCEPT !.target = n].wait = "run"
           /\ [Goto(t, s)[t] EXCEPT !.target = n].vec = th[t].vec
           /\ [Goto(t, s)[t] EXCEPT !.target = n].cookies = th[t].cookies
<1> DEFINE g == Goto(t, s)[t]
<1>1. /\ g \in ThreadRecords /\ g.op = th[t].op
      /\ g.kind = th[t].kind /\ g.request = th[t].request
      /\ g.wait = "run" /\ g.vec = th[t].vec
      /\ g.cookies = th[t].cookies
  BY FieldsOfGoto
<1> HIDE DEF g
<1> DEFINE r == [g EXCEPT !.target = n]
<1>2. /\ r \in ThreadRecords /\ r.stack = g.stack /\ r.op = g.op /\ r.kind = g.kind
      /\ r.request = g.request /\ r.wait = g.wait /\ r.vec = g.vec /\ r.cookies = g.cookies
  BY <1>1 DEF ThreadRecords
<1> QED BY <1>1, <1>2 DEF LikeGoto, g

\* A function returns with a result.
LEMMA ReturnOk ==
    ASSUME Base, NEW t \in Threads, NEW x, At(t, x), NEW b \in BOOLEAN,
           Continue(t, [Return(t) EXCEPT ![t].ok = b])
    PROVE  Popped(t) /\ Plain(t) /\ th'[t].wait = "run"
<1> DEFINE r == [Goto(t, <<>>)[t] EXCEPT !.ok = b]
<1>0. <<>> \in Seq(Names)
  OBVIOUS
<1>1. LikeGoto(t, <<>>, r) /\ r.wait = "run" /\ r.vec = th[t].vec /\ r.cookies = th[t].cookies
  BY <1>0, OkIs
<1>2. Continue(t, [Return(t) EXCEPT ![t] = r])
  BY DEF Return
<1> HIDE DEF r
<1>3. /\ Popped(t) /\ Moved(t) /\ th'[t].wait = "run" /\ th'[t].cookies = r.cookies
      /\ Now(t)' # "end" => th'[t] = r
  BY <1>1, <1>2, ReturnWith
<1> QED BY <1>1, <1>3 DEF Plain, Moved

LEMMA GotoTarget ==
    ASSUME Base, NEW t \in Threads, NEW x, At(t, x), NEW n \in Nat,
           NEW a \in Names, Then(t) \in After(a),
           Continue(t, [Goto(t, <<a>>) EXCEPT ![t].target = n])
    PROVE  Pushed(t, a) /\ Plain(t) /\ th'[t].wait = "run"
<1> DEFINE r == [Goto(t, <<a>>)[t] EXCEPT !.target = n]
<1>0. <<a>> \in Seq(Names)
  OBVIOUS
<1>1. LikeGoto(t, <<a>>, r) /\ r.wait = "run" /\ r.vec = th[t].vec /\ r.cookies = th[t].cookies
  BY <1>0, TargetIs
<1>2. Continue(t, [Goto(t, <<a>>) EXCEPT ![t] = r])
  OBVIOUS
<1> HIDE DEF r
<1>3. Pushed(t, a) /\ Moved(t) /\ th'[t] = r
  BY <1>1, <1>2, GotoWith
<1> QED BY <1>1, <1>3 DEF Plain

LEMMA Goto2Target ==
    ASSUME Base, NEW t \in Threads, NEW x, At(t, x), NEW n \in Nat,
           NEW a \in Names, NEW b \in Names, b \in After(a), Then(t) \in After(b),
           Continue(t, [Goto(t, <<a, b>>) EXCEPT ![t].target = n])
    PROVE  Pushed2(t, a, b) /\ Plain(t) /\ th'[t].wait = "run"
<1> DEFINE r == [Goto(t, <<a, b>>)[t] EXCEPT !.target = n]
<1>0. <<a, b>> \in Seq(Names)
  OBVIOUS
<1>1. LikeGoto(t, <<a, b>>, r) /\ r.wait = "run" /\ r.vec = th[t].vec /\ r.cookies = th[t].cookies
  BY <1>0, TargetIs
<1>2. Continue(t, [Goto(t, <<a, b>>) EXCEPT ![t] = r])
  OBVIOUS
<1> HIDE DEF r
<1>3. Pushed2(t, a, b) /\ Moved(t) /\ th'[t] = r
  BY <1>1, <1>2, Goto2With
<1> QED BY <1>1, <1>3 DEF Plain

\* _xcb_out_flush_to and its callers.
LEMMA FlushToIs ==
    ASSUME Base, NEW t \in Threads, FlushTo(t)
    PROVE  /\ Moved(t) /\ Now(t) = "flush" /\ UNCHANGED <<in, net, log>>
           /\ th'[t].cookies = th[t].cookies
           /\ \/ Popped(t) /\ Plain(t) /\ UNCHANGED out
              \/ Pushed(t, "flushing") /\ Plain(t) /\ UNCHANGED out
              \/ /\ Pushed(t, "outsend") /\ th'[t].wait = "run"
                 /\ out.queue # <<>> /\ out' = [out EXCEPT !.queue = <<>>] /\ out' \in OutRecords
                 /\ th'[t].vec = out.queue
<1>0. out \in OutRecords /\ out.queue \in Seq(Nat) /\ th[t] \in ThreadRecords
      /\ out.written \in Nat /\ th[t].target \in Nat
  BY TypesAre DEF OutRecords, ThreadRecords
<1>1. /\ At(t, "flush") /\ UNCHANGED <<in, net, log>> /\ Now(t) = "flush"
      /\ Then(t) \in After("flush") /\ Then(t) \in After("flushing") /\ Then(t) \in After("outsend")
      /\ "flushing" \in Names /\ "outsend" \in Names
  BY BaseIs DEF FlushTo, After, Names
<1>2. CASE out.written >= th[t].target
  <2>1. Continue(t, [Return(t) EXCEPT ![t].ok = TRUE]) /\ UNCHANGED out
    BY <1>0, <1>2 DEF FlushTo
  <2>2. Popped(t) /\ Plain(t)
    BY <1>1, <2>1, ReturnOk
  <2> QED BY <1>1, <2>1, <2>2 DEF Plain
<1>3. CASE out.written < th[t].target /\ out.queue = <<>>
  <2>1. Continue(t, Goto(t, <<"flushing">>)) /\ UNCHANGED out
    BY <1>0, <1>3 DEF FlushTo
  <2>2. Pushed(t, "flushing") /\ Plain(t)
    BY <1>1, <2>1, GotoStep
  <2> QED BY <1>1, <2>1, <2>2 DEF Plain
<1>4. CASE out.written < th[t].target /\ out.queue # <<>>
  <2>1. /\ Continue(t, [Goto(t, <<"outsend">>) EXCEPT ![t].vec = out.queue])
        /\ out' = [out EXCEPT !.queue = <<>>]
    BY <1>0, <1>4 DEF FlushTo
  <2>2. out' \in OutRecords
    BY <1>0, <2>1, EmptySeq DEF OutRecords
  <2> DEFINE r == [Goto(t, <<"outsend">>)[t] EXCEPT !.vec = out.queue]
  <2>3. <<"outsend">> \in Seq(Names)
    BY <1>1
  <2>4. /\ Goto(t, <<"outsend">>)[t] \in ThreadRecords /\ Goto(t, <<"outsend">>)[t].op = th[t].op
        /\ Goto(t, <<"outsend">>)[t].kind = th[t].kind
        /\ Goto(t, <<"outsend">>)[t].request = th[t].request
        /\ Goto(t, <<"outsend">>)[t].wait = "run"
        /\ Goto(t, <<"outsend">>)[t].cookies = th[t].cookies
    BY <1>1, <2>3, FieldsOfGoto
  <2>5. /\ LikeGoto(t, <<"outsend">>, r) /\ r.wait = "run" /\ r.vec = out.queue
        /\ r.cookies = th[t].cookies
    BY <1>0, <2>4 DEF ThreadRecords, LikeGoto
  <2>6. Continue(t, [Goto(t, <<"outsend">>) EXCEPT ![t] = r])
    BY <2>1
  <2> HIDE DEF r
  <2>7. Pushed(t, "outsend") /\ Moved(t) /\ th'[t] = r
    BY <1>1, <2>5, <2>6, GotoWith
  <2> QED BY <1>1, <1>4, <2>1, <2>2, <2>5, <2>7
<1> QED BY <1>0, <1>2, <1>3, <1>4

LEMMA WaitFlushedIs ==
    ASSUME Base, NEW t \in Threads, WaitFlushed(t)
    PROVE  /\ Plain(t) /\ Now(t) = "flushing" /\ UNCHANGED <<in, out, net, log>>
           /\ Popped(t) \/ Pushed(t, "flushing")
<1>1. /\ At(t, "flushing") /\ UNCHANGED <<in, out, net, log>> /\ Now(t) = "flushing"
      /\ Then(t) \in After("flushing") /\ "flushing" \in Names /\ "out" \in Waits
      /\ <<"out", "flushing">> \in WaitsAt
  BY BaseIs DEF WaitFlushed, Names, Waits, WaitsAt
<1>2. CASE out.writing > 0
  <2>1. Continue(t, Block(t, "out", <<"flushing">>))
    BY <1>2 DEF WaitFlushed
  <2> QED BY <1>1, <2>1, BlockStep
<1>3. CASE ~(out.writing > 0)
  <2>1. Continue(t, [Return(t) EXCEPT ![t].ok = TRUE])
    BY <1>3 DEF WaitFlushed
  <2> QED BY <1>1, <2>1, ReturnOk
<1> QED BY <1>2, <1>3

LEMMA FlushAllIs ==
    ASSUME Base, NEW t \in Threads, FlushAll(t)
    PROVE  /\ Plain(t) /\ Now(t) = "flushall" /\ UNCHANGED <<in, out, net, log>>
           /\ Pushed(t, "flush")
<1>1. /\ At(t, "flushall") /\ UNCHANGED <<in, out, net, log>> /\ Now(t) = "flushall"
      /\ Then(t) \in After("flush") /\ "flush" \in Names
      /\ Continue(t, [Goto(t, <<"flush">>) EXCEPT ![t].target = out.request])
  BY BaseIs DEF FlushAll, Names, After
<1>2. out.request \in Nat
  BY TypesAre DEF OutRecords
<1> QED BY <1>1, <1>2, GotoTarget

LEMMA TakeFlushIs ==
    ASSUME Base, NEW t \in Threads, TakeFlush(t)
    PROVE  /\ Plain(t) /\ Now(t) = "takeflush" /\ UNCHANGED <<in, out, net, log>>
           /\ Pushed2(t, "flush", "take")
<1>1. /\ At(t, "takeflush") /\ UNCHANGED <<in, out, net, log>> /\ Now(t) = "takeflush"
      /\ Then(t) \in After("take") /\ "flush" \in Names /\ "take" \in Names /\ "take" \in After("flush")
      /\ Continue(t, [Goto(t, <<"flush", "take">>) EXCEPT ![t].target = out.request])
  BY BaseIs DEF TakeFlush, Names, After
<1>2. out.request \in Nat
  BY TypesAre DEF OutRecords
<1> QED BY <1>1, <1>2, Goto2Target

\* xcb_take_socket, when all is written, and xcb_writev.
LEMMA TakeSocketIs ==
    ASSUME Base, NEW t \in Threads, TakeSocket(t)
    PROVE  /\ Plain(t) /\ Now(t) = "take" /\ UNCHANGED <<net, log>>
           /\ \/ Popped(t) /\ UNCHANGED <<in, out>>
              \/ Pushed(t, "takeflush") /\ UNCHANGED <<in, out>>
              \/ /\ Popped(t) /\ out.request = out.written
                 /\ out' = [out EXCEPT !.returnSocket = t, !.owns = @ \cup {t}]
                 /\ in' = [in EXCEPT !.pending =
                             Append(@, Expect(out.request + 1, FALSE, TRUE, TRUE))]
                 /\ in' \in InRecords /\ out' \in OutRecords
<1>0. in \in InRecords /\ out \in OutRecords /\ out.request \in Nat
  BY TypesAre DEF OutRecords
<1>1. /\ At(t, "take") /\ UNCHANGED <<net, log>> /\ Now(t) = "take"
      /\ Then(t) \in After("takeflush") /\ "takeflush" \in Names
  BY BaseIs DEF TakeSocket, Names, After
<1>2. CASE ~th[t].ok
  <2>1. Continue(t, Return(t)) /\ UNCHANGED <<in, out>>
    BY <1>2 DEF TakeSocket
  <2> QED BY <1>1, <2>1, ReturnStep
<1>3. CASE th[t].ok /\ out.request # out.written
  <2>1. Continue(t, Goto(t, <<"takeflush">>)) /\ UNCHANGED <<in, out>>
    BY <1>3 DEF TakeSocket
  <2> QED BY <1>1, <2>1, GotoStep
<1>4. CASE th[t].ok /\ out.request = out.written
  <2>1. /\ Continue(t, Return(t))
        /\ out' = [out EXCEPT !.returnSocket = t, !.owns = @ \cup {t}]
        /\ in' = [in EXCEPT !.pending = Append(@, Expect(out.request + 1, FALSE, TRUE, TRUE))]
    BY <1>4 DEF TakeSocket
  <2>2. out' \in OutRecords
    BY <1>0, <2>1 DEF OutRecords
  <2>3. in' \in InRecords
    <3> DEFINE e == Expect(out.request + 1, FALSE, TRUE, TRUE)
    <3>1. out.request + 1 \in Nat
      BY <1>0
    <3>2. e \in PendingEntries
      BY <3>1, ExpectType
    <3>3. in' = [in EXCEPT !.pending = Append(@, e)]
      BY <2>1
    <3> HIDE DEF e
    <3>4. in.pending \in Seq(PendingEntries)
      BY <1>0 DEF InRecords
    <3>5. Append(in.pending, e) \in Seq(PendingEntries)
      BY <3>2, <3>4
    <3> QED BY <1>0, <3>3, <3>5 DEF InRecords
  <2> QED BY <1>1, <1>4, <2>1, <2>2, <2>3, ReturnStep
<1> QED BY <1>2, <1>3, <1>4

LEMMA WritevIs ==
    ASSUME Base, NEW t \in Threads, Writev(t)
    PROVE  /\ Moved(t) /\ Now(t) = "writev" /\ UNCHANGED <<in, net>>
           /\ Pushed(t, "outsend") /\ th'[t].wait = "run"
           /\ out' = [out EXCEPT !.request = out.request + 1] /\ out' \in OutRecords
           /\ log' = Append(log, [kind |-> th[t].kind, by |-> t]) /\ log' \in Seq(LogRecords)
           /\ th'[t].vec = <<out.request + 1>>
           /\ th'[t].cookies = IF th[t].kind = "query"
                               THEN th[t].cookies \cup {out.request + 1} ELSE th[t].cookies
<1>0. /\ out \in OutRecords /\ out.request \in Nat /\ th[t] \in ThreadRecords
      /\ th[t].cookies \subseteq Nat /\ th[t].kind \in {"void", "check", "query"}
      /\ log \in Seq(LogRecords)
  BY TypesAre DEF OutRecords, ThreadRecords
<1> DEFINE new == IF th[t].kind = "query" THEN th[t].cookies \cup {out.request + 1} ELSE th[t].cookies
           g == Goto(t, <<"outsend">>)
           r == [g[t] EXCEPT !.vec = <<out.request + 1>>, !.cookies = new]
<1>1. /\ At(t, "writev") /\ UNCHANGED <<in, net>> /\ Now(t) = "writev"
      /\ Then(t) \in After("outsend") /\ "outsend" \in Names
      /\ out' = [out EXCEPT !.request = out.request + 1]
      /\ log' = Append(log, [kind |-> th[t].kind, by |-> t])
  BY BaseIs DEF Writev, Names, After
<1>2. <<"outsend">> \in Seq(Names)
  BY <1>1
<1>3. /\ g[t] \in ThreadRecords /\ g[t].op = th[t].op /\ g[t].kind = th[t].kind
      /\ g[t].request = th[t].request /\ g[t].wait = "run" /\ g[t].cookies = th[t].cookies
  BY <1>1, <1>2, FieldsOfGoto
<1>4. Continue(t, [g EXCEPT ![t] = r])
  <2>1. Continue(t, [g EXCEPT ![t].vec = <<out.request + 1>>,
                              ![t].cookies = IF th[t].kind = "query"
                                             THEN @ \cup {out.request + 1} ELSE @])
    BY DEF Writev
  <2>2. [g EXCEPT ![t].vec = <<out.request + 1>>,
                  ![t].cookies = IF th[t].kind = "query"
                                 THEN @ \cup {out.request + 1} ELSE @] = [g EXCEPT ![t] = r]
    <3>1. Changed(g, t, <<"outsend">>)
      BY <1>1, <1>2, BaseIs, GotoIs
    <3> HIDE DEF g
    <3> QED BY <1>3, <3>1 DEF ThreadRecords, Changed
  <2> QED BY <2>1, <2>2
<1>5. new \in SUBSET Nat /\ <<out.request + 1>> \in Seq(Nat)
  <2>1. out.request + 1 \in Nat
    BY <1>0
  <2> QED BY <1>0, <2>1
<1>6. /\ LikeGoto(t, <<"outsend">>, r) /\ r.wait = "run" /\ r.vec = <<out.request + 1>>
      /\ r.cookies = new
  <2> HIDE DEF new
  <2> QED BY <1>3, <1>5 DEF ThreadRecords, LikeGoto
<1> HIDE DEF r
<1>7. Pushed(t, "outsend") /\ Moved(t) /\ th'[t] = r
  BY <1>1, <1>4, <1>6, GotoWith
<1>8. out' \in OutRecords
  <2>1. out.request + 1 \in Nat
    BY <1>0
  <2> QED BY <1>0, <1>1, <2>1 DEF OutRecords
<1>9. log' \in Seq(LogRecords)
  <2>1. [kind |-> th[t].kind, by |-> t] \in LogRecords
    BY <1>0 DEF LogRecords
  <2> QED BY <1>0, <1>1, <2>1
<1> QED BY <1>1, <1>6, <1>7, <1>8, <1>9

-----------------------------------------------------------------------------
(* Runs at the front of a list, and what is inserted or dropped there      *)

\* The natural numbers have no infinite descent.
LessThan == {r \in Nat \X Nat : r[1] < r[2]}

\* A set of numbers that is not empty has a least one.
LEMMA LessThanIsWellFounded == IsWellFoundedOn(LessThan, Nat)
<1>1. LessThan = OpToRel(<, Nat)
  BY DEF LessThan, OpToRel
<1> QED BY <1>1, NatLessThanWellFounded

LEMMA LeastExists ==
    ASSUME NEW T \in SUBSET Nat, T # {}
    PROVE  \E m \in T : \A n \in T : m <= n
<1>1. PICK m \in T : \A n \in T : ~(<<n, m>> \in LessThan)
  BY LessThanIsWellFounded, WFMin
<1>2. ASSUME NEW n \in T
      PROVE  m <= n
  <2>1. m \in Nat /\ n \in Nat
    OBVIOUS
  <2>2. <<n, m>> \in Nat \X Nat /\ <<n, m>>[1] = n /\ <<n, m>>[2] = m
    BY <2>1
  <2>3. n < m => <<n, m>> \in LessThan
    BY <2>2 DEF LessThan
  <2> QED BY <1>1, <2>1, <2>3
<1> QED BY <1>2

\* A loop over the front of a list ends.
LEMMA FrontRunIs ==
    ASSUME NEW n \in Nat, NEW S
    PROVE  /\ FrontRun(n, S) \in 0 .. n /\ 1 .. FrontRun(n, S) \subseteq S
           /\ FrontRun(n, S) < n => FrontRun(n, S) + 1 \notin S
<1> DEFINE T == {k \in 0 .. n : k = n \/ k + 1 \notin S}
<1>1. T \in SUBSET Nat /\ T # {}
  <2>1. n \in T
    OBVIOUS
  <2> QED BY <2>1
<1>2. PICK k \in T : \A j \in T : k <= j
  BY <1>1, LeastExists
<1>3. k \in 0 .. n /\ (k < n => k + 1 \notin S)
  OBVIOUS
<1>4. 1 .. k \subseteq S
  <2>1. ASSUME NEW i \in 1 .. k, i \notin S
        PROVE  FALSE
    <3>1. i - 1 \in 0 .. n /\ (i - 1) + 1 = i
      BY <1>3
    <3>2. i - 1 \in T
      BY <2>1, <3>1
    <3>3. k <= i - 1
      BY <1>2, <3>2
    <3> QED BY <1>3, <3>3
  <2> QED BY <2>1
<1>5. \E j \in 0 .. n : 1 .. j \subseteq S /\ (j < n => j + 1 \notin S)
  BY <1>3, <1>4
<1> QED BY <1>5 DEF FrontRun

\* What InsertAt makes of a list.
LEMMA InsertAtIs ==
    ASSUME NEW X, NEW r \in Seq(X), NEW k \in 0 .. Len(r), NEW e \in X
    PROVE  /\ InsertAt(r, k + 1, e) \in Seq(X) /\ Len(InsertAt(r, k + 1, e)) = Len(r) + 1
           /\ \A i \in 1 .. k : InsertAt(r, k + 1, e)[i] = r[i]
           /\ InsertAt(r, k + 1, e)[k + 1] = e
           /\ \A i \in (k + 2) .. (Len(r) + 1) : InsertAt(r, k + 1, e)[i] = r[i - 1]
<1> DEFINE a == SubSeq(r, 1, k)
           b == SubSeq(r, k + 1, Len(r))
           q == (a \o <<e>>) \o b
<1>1. /\ Len(r) \in Nat /\ k \in Nat /\ k <= Len(r) /\ (k + 1) - 1 = k /\ k + 1 \in Int
      /\ 1 \in Int /\ k \in Int /\ Len(r) \in Int
  OBVIOUS
<1>2. /\ a \in Seq(X) /\ Len(a) = k /\ \A i \in 1 .. k : a[i] = r[i]
  <2>1. \A i \in 1 .. k : r[i] \in X
    BY <1>1
  <2>2. /\ a \in Seq(X) /\ Len(a) = IF 1 <= k THEN k - 1 + 1 ELSE 0
        /\ \A i \in 1 .. k - 1 + 1 : a[i] = r[1 + i - 1]
    BY <1>1, <2>1, SubSeqProperties
  <2> QED BY <1>1, <2>2
<1>3. /\ b \in Seq(X) /\ Len(b) = Len(r) - k
      /\ \A i \in 1 .. (Len(r) - k) : b[i] = r[k + i]
  <2>1. \A i \in k + 1 .. Len(r) : r[i] \in X
    BY <1>1
  <2>2. /\ b \in Seq(X) /\ Len(b) = IF k + 1 <= Len(r) THEN Len(r) - (k + 1) + 1 ELSE 0
        /\ \A i \in 1 .. Len(r) - (k + 1) + 1 : b[i] = r[(k + 1) + i - 1]
    BY <1>1, <2>1, SubSeqProperties
  <2>3. Len(r) - (k + 1) + 1 = Len(r) - k /\ \A i \in 1 .. (Len(r) - k) : (k + 1) + i - 1 = k + i
    BY <1>1
  <2> QED BY <1>1, <2>2, <2>3
<1>4. InsertAt(r, k + 1, e) = q
  BY <1>1 DEF InsertAt
<1> HIDE DEF a, b
<1>5. a \o <<e>> \in Seq(X) /\ Len(a \o <<e>>) = k + 1
  BY <1>1, <1>2
<1>6. q \in Seq(X) /\ Len(q) = Len(r) + 1
  <2>1. b \in Seq(X) /\ Len(b) = Len(r) - k
    BY <1>3
  <2>2. q \in Seq(X) /\ Len(q) = Len(a \o <<e>>) + Len(b)
    BY <1>5, <2>1
  <2>3. Len(a \o <<e>>) = k + 1
    BY <1>5
  <2>4. (k + 1) + (Len(r) - k) = Len(r) + 1
    BY <1>1
  <2> QED BY <2>1, <2>2, <2>3, <2>4
<1>7. \A i \in 1 .. k : q[i] = r[i]
  BY <1>1, <1>2, <1>3, <1>5
<1>8. q[k + 1] = e
  BY <1>1, <1>2, <1>3, <1>5
<1>9. ASSUME NEW i \in (k + 2) .. (Len(r) + 1)
      PROVE  q[i] = r[i - 1]
  <2>1. i - (k + 1) \in 1 .. (Len(r) - k) /\ k + (i - (k + 1)) = i - 1 /\ i \in (Len(a \o <<e>>) + 1) .. Len(q)
    BY <1>1, <1>5, <1>6
  <2>2. q[i] = b[i - (k + 1)]
    BY <1>1, <1>3, <1>5, <2>1
  <2> QED BY <1>3, <2>1, <2>2
<1> HIDE DEF q
<1> QED BY <1>4, <1>6, <1>7, <1>8, <1>9

\* What is left of a list when elements at its front are dropped.
LEMMA DropIs ==
    ASSUME NEW X, NEW r \in Seq(X), NEW k \in 0 .. Len(r)
    PROVE  /\ SubSeq(r, k + 1, Len(r)) \in Seq(X) /\ Len(SubSeq(r, k + 1, Len(r))) = Len(r) - k
           /\ \A i \in 1 .. (Len(r) - k) : SubSeq(r, k + 1, Len(r))[i] = r[k + i]
<1>1. /\ Len(r) \in Nat /\ k \in Nat /\ k <= Len(r) /\ k + 1 \in Int /\ Len(r) \in Int
  OBVIOUS
<1>2. \A i \in k + 1 .. Len(r) : r[i] \in X
  BY <1>1
<1> DEFINE b == SubSeq(r, k + 1, Len(r))
<1>3. /\ b \in Seq(X) /\ Len(b) = IF k + 1 <= Len(r) THEN Len(r) - (k + 1) + 1 ELSE 0
      /\ \A i \in 1 .. Len(r) - (k + 1) + 1 : b[i] = r[(k + 1) + i - 1]
  BY <1>1, <1>2, SubSeqProperties
<1>4. Len(r) - (k + 1) + 1 = Len(r) - k /\ \A i \in 1 .. (Len(r) - k) : (k + 1) + i - 1 = k + i
  BY <1>1
<1> HIDE DEF b
<1>5. Len(b) = Len(r) - k
  <2>1. Len(b) = IF k + 1 <= Len(r) THEN Len(r) - (k + 1) + 1 ELSE 0
    BY <1>3
  <2>2. CASE k + 1 <= Len(r)
    BY <1>1, <2>1, <2>2
  <2>3. CASE ~(k + 1 <= Len(r))
    <3>1. Len(r) = k
      BY <1>1, <2>3
    <3> QED BY <1>1, <2>1, <2>3, <3>1
  <2> QED BY <2>2, <2>3
<1>6. \A i \in 1 .. (Len(r) - k) : b[i] = r[k + i]
  BY <1>3, <1>4
<1> QED BY <1>3, <1>5, <1>6 DEF b

\* The readers in front of the others are those of requests up to r.
LEMMA ReadersUpToIs ==
    ASSUME Base, NEW r
    PROVE  /\ in.readers \in Seq(ReaderEntries) /\ ReadersUpTo(r) \in 0 .. Len(in.readers)
           /\ \A i \in 1 .. ReadersUpTo(r) : in.readers[i].request <= r
           /\ ReadersUpTo(r) < Len(in.readers) => ~(in.readers[ReadersUpTo(r) + 1].request <= r)
<1> DEFINE S == {i \in DOMAIN in.readers : in.readers[i].request <= r}
           k == FrontRun(Len(in.readers), S)
<1>1. in.readers \in Seq(ReaderEntries) /\ Len(in.readers) \in Nat
      /\ DOMAIN in.readers = 1 .. Len(in.readers)
  <2>1. in.readers \in Seq(ReaderEntries)
    BY TypesAre DEF InRecords
  <2> QED BY <2>1
<1>2. /\ k \in 0 .. Len(in.readers) /\ 1 .. k \subseteq S
      /\ k < Len(in.readers) => k + 1 \notin S
  <2> HIDE DEF S
  <2> QED BY <1>1, FrontRunIs
<1>3. k = ReadersUpTo(r)
  BY DEF ReadersUpTo
<1> HIDE DEF k
<1> QED BY <1>1, <1>2, <1>3

-----------------------------------------------------------------------------
(* What each step does: reading and waiting                                *)

\* What a step leaves alone that reads no packet.
InKept ==
    /\ in' \in InRecords /\ in'.read = in.read /\ in'.completed = in.completed
    /\ in'.expected = in.expected /\ in'.packets = in.packets

\* _xcb_in_read takes what is on the wire.
LEMMA ReceiveIs ==
    ASSUME Base, NEW t \in Threads, Receive(t)
    PROVE  /\ Plain(t) /\ Now(t) = "read" /\ UNCHANGED <<out, log>>
           /\ in' = [in EXCEPT !.packets = net.wire] /\ in' \in InRecords
           /\ net' = [net EXCEPT !.wire = <<>>, !.error = net'.error] /\ net' \in NetRecords
           /\ net.error => net'.error
           /\ net'.error => net.error \/ net.broken
           /\ th'[t].ok \/ net'.error
           /\ th'[t].vec = th[t].vec /\ th'[t].wait = "run"
           /\ Then(t) \in {"write", "waited", "pollagain", "eventagain"}
           /\ \/ net.wire = <<>> /\ Popped(t)
              \/ net.wire # <<>> /\ Pushed(t, "packets")
<1>0. /\ in \in InRecords /\ net \in NetRecords /\ net.wire \in Seq(Packets)
      /\ net.error \in BOOLEAN /\ net.broken \in BOOLEAN
  BY TypesAre DEF NetRecords
<1> DEFINE failed == net.error \/ (net.wire = <<>> /\ net.broken)
           b == net.wire # <<>> \/ ~net.broken
<1>1. /\ At(t, "read") /\ UNCHANGED <<out, log>> /\ Now(t) = "read"
      /\ Then(t) \in {"write", "waited", "pollagain", "eventagain"}
      /\ "packets" \in Names /\ Then(t) \in After("packets")
      /\ in' = [in EXCEPT !.packets = net.wire]
      /\ net' = [net EXCEPT !.wire = <<>>, !.error = failed]
  BY BaseIs DEF Receive, After, Names
<1>2. in' \in InRecords
  BY <1>0, <1>1 DEF InRecords
<1>3. net' \in NetRecords /\ net'.error = failed
  BY <1>0, <1>1, EmptySeq DEF NetRecords
<1>4. net' = [net EXCEPT !.wire = <<>>, !.error = net'.error]
  BY <1>1, <1>3
<1>5. Then(t) # "end"
  BY <1>1
<1>6. CASE net.wire = <<>>
  <2> DEFINE r == [Goto(t, <<>>)[t] EXCEPT !.ok = b]
  <2>0. <<>> \in Seq(Names)
    OBVIOUS
  <2>1. /\ LikeGoto(t, <<>>, r) /\ r.wait = "run" /\ r.vec = th[t].vec
        /\ r.cookies = th[t].cookies /\ r.ok = b
    <3>1. b \in BOOLEAN
      OBVIOUS
    <3> HIDE DEF b
    <3> QED BY <1>1, <2>0, <3>1, OkIs
  <2>2. Continue(t, [Return(t) EXCEPT ![t] = r])
    BY <1>6 DEF Receive, Return
  <2> HIDE DEF r
  <2>3. /\ Popped(t) /\ Moved(t) /\ th'[t].cookies = r.cookies
        /\ Now(t)' # "end" => th'[t] = r
    BY <1>1, <2>1, <2>2, ReturnWith
  <2>4. th'[t] = r
    BY <1>5, <2>3 DEF Popped
  <2>5. Plain(t) /\ th'[t].ok = b /\ th'[t].vec = th[t].vec /\ th'[t].wait = "run"
    BY <2>1, <2>3, <2>4 DEF Plain
  <2> QED BY <1>0, <1>1, <1>2, <1>3, <1>4, <1>6, <2>3, <2>5
<1>7. CASE net.wire # <<>>
  <2> DEFINE r == [Goto(t, <<"packets">>)[t] EXCEPT !.ok = b]
  <2>0. <<"packets">> \in Seq(Names)
    BY <1>1
  <2>1. /\ LikeGoto(t, <<"packets">>, r) /\ r.wait = "run" /\ r.vec = th[t].vec
        /\ r.cookies = th[t].cookies /\ r.ok = b
    <3>1. b \in BOOLEAN
      OBVIOUS
    <3> HIDE DEF b
    <3> QED BY <1>1, <2>0, <3>1, OkIs
  <2>2. Continue(t, [Goto(t, <<"packets">>) EXCEPT ![t] = r])
    BY <1>7 DEF Receive
  <2> HIDE DEF r
  <2>3. Pushed(t, "packets") /\ Moved(t) /\ th'[t] = r
    BY <1>1, <2>1, <2>2, GotoWith
  <2>5. Plain(t) /\ th'[t].ok = b /\ th'[t].vec = th[t].vec /\ th'[t].wait = "run"
    BY <2>1, <2>3 DEF Plain
  <2> QED BY <1>0, <1>1, <1>2, <1>3, <1>4, <1>7, <2>3, <2>5
<1> QED BY <1>6, <1>7

\* Two steps are left out when the socket has failed.
LEMMA ReaderPolledIs ==
    ASSUME Base, NEW t \in Threads, ReaderPolled(t)
    PROVE  /\ Plain(t) /\ Now(t) = "waited" /\ UNCHANGED <<out, net, log>> /\ InKept
           /\ in' = [in EXCEPT !.reading = @ - 1]
           /\ Then(t) \in {"replyloop", "eventloop"} /\ th'[t].wait = "run"
           /\ \/ Popped(t)
              \/ Now(t)' = Place(t, 3) /\ Place(t, 3) \in {"remove", "wakenext"}
<1>0. in \in InRecords /\ Types /\ th[t] \in ThreadRecords /\ th \in [Threads -> ThreadRecords]
  BY TypesAre
<1>1. /\ At(t, "waited") /\ UNCHANGED <<out, net, log>> /\ Now(t) = "waited"
      /\ Then(t) \in {"replyloop", "eventloop"} /\ Place(t, 3) \in {"remove", "wakenext"}
      /\ in' = [in EXCEPT !.reading = @ - 1] /\ th[t].wait = "run" /\ th[t].stack # <<>>
  <2>1. /\ At(t, "waited") /\ UNCHANGED <<out, net, log>> /\ in' = [in EXCEPT !.reading = @ - 1]
    BY DEF ReaderPolled
  <2>2. /\ Now(t) = "waited" /\ Then(t) \in After("waited") /\ Place(t, 3) \in After(Then(t))
        /\ th[t].wait = "run" /\ th[t].stack # <<>>
    BY <2>1, BaseIs
  <2>3. Then(t) \in {"replyloop", "eventloop"}
    BY <2>2 DEF After
  <2>4. Place(t, 3) \in {"remove", "wakenext"}
    BY <2>2, <2>3 DEF After
  <2> QED BY <2>1, <2>2, <2>3, <2>4
<1>2. InKept
  <2>1. in.reading - 1 \in Int
    BY <1>0 DEF InRecords
  <2> QED BY <1>0, <1>1, <2>1 DEF InRecords, InKept
<1>3. CASE th[t].ok
  <2>1. Continue(t, Return(t))
    BY <1>3 DEF ReaderPolled
  <2>2. Popped(t) /\ Plain(t) /\ th'[t].wait = "run"
    BY <1>1, <2>1, ReturnStep
  <2> QED BY <1>1, <1>2, <2>2
<1>4. CASE ~th[t].ok
  <2> DEFINE s == th[t].stack
             q == SubSeq(s, 3, Len(s))
             r == [th[t] EXCEPT !.stack = q]
             f == [th EXCEPT ![t] = r]
  <2>1. Continue(t, f)
    BY <1>4 DEF ReaderPolled
  <2>2. Valid(s) /\ s \in Seq(Names) /\ Len(s) \in Nat
    <3>1. Valid(s)
      BY TypesAre
    <3> QED BY <3>1 DEF Valid
  <2>3. Len(s) >= 3
    <3>1. Item(s, 3) # "end"
      BY <1>1 DEF Place
    <3> QED BY <2>2, <3>1 DEF Item
  <2>4. /\ q \in Seq(Names) /\ Len(q) = Len(s) - 2
        /\ \A i \in 1 .. (Len(s) - 2) : q[i] = s[2 + i]
    <3>1. 2 \in 0 .. Len(s) /\ 2 + 1 = 3
      BY <2>2, <2>3
    <3> HIDE DEF s
    <3> QED BY <2>2, <3>1, DropIs
  <2> HIDE DEF q
  <2>5. ASSUME NEW i \in Nat \ {0}
        PROVE  Item(q, i) = Item(s, i + 2)
    BY <2>2, <2>3, <2>4 DEF Item
  <2>6. Valid(q)
    <3>1. ASSUME NEW i \in 1 .. Len(q)
          PROVE  Item(q, i + 1) \in After(q[i])
      <4>1. i \in Nat \ {0} /\ i + 1 \in Nat \ {0} /\ i + 2 \in Nat \ {0} /\ (i + 1) + 2 = (i + 2) + 1
        BY <2>4
      <4>2. Item(q, i + 1) = Item(s, (i + 1) + 2) /\ Item(q, i) = Item(s, i + 2)
        BY <2>5, <4>1
      <4>3. Item(s, (i + 2) + 1) \in After(Item(s, i + 2))
        BY <2>2, <4>1, ItemIs
      <4>4. Item(q, i) = q[i]
        BY DEF Item
      <4> QED BY <4>1, <4>2, <4>3, <4>4
    <3> QED BY <2>4, <3>1 DEF Valid
  <2>7. Item(q, 1) = Place(t, 3)
    BY <2>5 DEF Place
  <2>8. /\ r \in ThreadRecords /\ r.stack = q /\ r.op = th[t].op /\ r.kind = th[t].kind
        /\ r.request = th[t].request /\ r.wait = "run" /\ r.vec = th[t].vec
        /\ r.cookies = th[t].cookies
    BY <1>0, <1>1, <2>4 DEF ThreadRecords
  <2> HIDE DEF r, s
  <2>9. f[t] = r /\ f \in [Threads -> ThreadRecords] /\ \A v \in Threads \ {t} : f[v] = th[v]
    BY <1>0, <2>8
  <2> HIDE DEF f
  <2>10. \A v \in Threads \ {t} : Woken(th[v], f[v])
    BY <2>9 DEF Woken
  <2>11. Valid(th[t].stack)
    BY <2>2 DEF s
  <2>12. Done(f, t) /\ th'[t].stack = q
    <3>1. Moved(t) /\ th'[t].stack = f[t].stack
      BY <1>0, <1>1, <2>1, <2>6, <2>8, <2>9, <2>10, <2>11, ContinueIs
    <3>2. /\ th'[t].cookies = f[t].cookies
          /\ \A v \in Threads \ {t} : th'[v] = f[v]
          /\ Now(t)' # "end" => th'[t] = f[t]
      BY <1>0, <1>1, <2>1, <2>6, <2>8, <2>9, <2>10, <2>11, ContinueIs
    <3> QED BY <2>8, <2>9, <3>1, <3>2 DEF Done
  <2>13. Plain(t)
    BY <2>8, <2>9, <2>12, PlainIs
  <2>14. Now(t)' = Place(t, 3)
    BY <2>7, <2>12 DEF Now, Place
  <2>15. th'[t].wait = "run"
    BY <1>1, <2>8, <2>9, <2>12, <2>14 DEF Done
  <2> QED BY <1>1, <1>2, <2>13, <2>14, <2>15
<1> QED BY <1>3, <1>4

\* The lists of answers keep their types.
LEMMA DropType ==
    ASSUME NEW X, NEW r \in Seq(X), NEW k \in Nat
    PROVE  SubSeq(r, k + 1, Len(r)) \in Seq(X)
<1>1. k + 1 \in Int /\ Len(r) \in Int /\ \A i \in k + 1 .. Len(r) : r[i] \in X
  OBVIOUS
<1> QED BY <1>1, SubSeqProperties

\* To hand answers out changes nothing but the lists of answers.
LEMMA WithoutIs ==
    ASSUME Base, NEW r, NEW k \in Nat, NEW q, q = WithoutAnswers(r, k)
    PROVE  /\ q \in InRecords /\ q.reading = in.reading /\ q.read = in.read
           /\ q.completed = in.completed /\ q.expected = in.expected
           /\ q.packets = in.packets /\ q.readers = in.readers /\ q.pending = in.pending
<1>0. in \in InRecords
  BY TypesAre
<1>1. CASE r < in.read
  <2> DEFINE new == (in.replies \ FiledFor(r)) \cup
                    {[e EXCEPT !.answers = SubSeq(@, k + 1, Len(@))] :
                        e \in {x \in FiledFor(r) : Len(x.answers) > k}}
  <2>1. q = [in EXCEPT !.replies = new]
    BY <1>1 DEF WithoutAnswers
  <2>2. new \subseteq ReplyEntries
    <3>1. ASSUME NEW e \in ReplyEntries
          PROVE  [e EXCEPT !.answers = SubSeq(@, k + 1, Len(@))] \in ReplyEntries
      <4>1. e.answers \in Seq(Packets)
        BY DEF ReplyEntries
      <4>2. SubSeq(e.answers, k + 1, Len(e.answers)) \in Seq(Packets)
        BY <4>1, DropType
      <4> QED BY <4>2 DEF ReplyEntries
    <3>2. in.replies \subseteq ReplyEntries
      BY <1>0 DEF InRecords
    <3> QED BY <3>1, <3>2 DEF FiledFor
  <2> HIDE DEF new
  <2> QED BY <1>0, <2>1, <2>2 DEF InRecords
<1>2. CASE ~(r < in.read) /\ r = in.read
  <2>1. q = [in EXCEPT !.current = SubSeq(in.current, k + 1, Len(in.current))]
    BY <1>2 DEF WithoutAnswers
  <2>2. SubSeq(in.current, k + 1, Len(in.current)) \in Seq(Packets)
    BY <1>0, DropType DEF InRecords
  <2> QED BY <1>0, <2>1, <2>2 DEF InRecords
<1>3. CASE ~(r < in.read) /\ r # in.read
  <2>1. q = in
    BY <1>3 DEF WithoutAnswers
  <2> QED BY <1>0, <2>1
<1> QED BY <1>1, <1>2, <1>3

\* The steps of wait_for_reply and xcb_wait_for_event.
LEMMA WaitForReplyIs ==
    ASSUME Base, NEW t \in Threads, WaitForReply(t)
    PROVE  /\ Plain(t) /\ Now(t) = "reply" /\ UNCHANGED <<in, out, net, log>>
           /\ Pushed(t, "insert") \/ Pushed2(t, "flush", "insert")
<1>1. /\ At(t, "reply") /\ UNCHANGED <<in, out, net, log>> /\ Now(t) = "reply"
      /\ "insert" \in Names /\ "flush" \in Names /\ "insert" \in After("flush")
      /\ Then(t) \in After("insert")
  BY BaseIs DEF WaitForReply, Names, After
<1>2. CASE out.returnSocket # NoThread
  <2> DEFINE r == [Goto(t, <<"insert">>)[t] EXCEPT !.ok = TRUE]
  <2>0. <<"insert">> \in Seq(Names)
    BY <1>1
  <2>1. LikeGoto(t, <<"insert">>, r) /\ r.wait = "run" /\ r.vec = th[t].vec /\ r.cookies = th[t].cookies
    BY <1>1, <2>0, OkIs
  <2>2. Continue(t, [Goto(t, <<"insert">>) EXCEPT ![t] = r])
    BY <1>2 DEF WaitForReply
  <2> HIDE DEF r
  <2>3. Pushed(t, "insert") /\ Moved(t) /\ th'[t] = r
    BY <1>1, <2>1, <2>2, GotoWith
  <2>4. Plain(t)
    BY <2>1, <2>3 DEF Plain
  <2> QED BY <1>1, <2>3, <2>4
<1>3. CASE ~(out.returnSocket # NoThread)
  <2>1. Continue(t, [Goto(t, <<"flush", "insert">>) EXCEPT ![t].target = th[t].request])
    BY <1>3 DEF WaitForReply
  <2>2. th[t].request \in Nat
    BY TypesAre DEF ThreadRecords
  <2> QED BY <1>1, <2>1, <2>2, Goto2Target
<1> QED BY <1>2, <1>3

LEMMA InsertReaderIs ==
    ASSUME Base, NEW t \in Threads, InsertReader(t)
    PROVE  /\ Plain(t) /\ Now(t) = "insert" /\ UNCHANGED <<out, net, log>> /\ InKept
           /\ in'.reading = in.reading /\ th'[t].wait = "run"
           /\ \/ Pushed(t, "wakenext") /\ in' = in
              \/ /\ Pushed3(t, "replyloop", "remove", "wakenext")
                 /\ in'.readers = InsertAt(in.readers, ReadersUpTo(th[t].request) + 1,
                                           [thread |-> t, request |-> th[t].request])
                 /\ [thread |-> t, request |-> th[t].request] \in ReaderEntries
<1>0. in \in InRecords /\ th[t].request \in Nat
  BY TypesAre DEF ThreadRecords
<1>1. /\ At(t, "insert") /\ UNCHANGED <<out, net, log>> /\ Now(t) = "insert"
      /\ "wakenext" \in Names /\ "replyloop" \in Names /\ "remove" \in Names
      /\ "remove" \in After("replyloop") /\ "wakenext" \in After("remove")
      /\ Then(t) \in After("wakenext")
  BY BaseIs DEF InsertReader, Names, After
<1>2. CASE ~th[t].ok
  <2>1. Continue(t, Goto(t, <<"wakenext">>)) /\ UNCHANGED in
    BY <1>2 DEF InsertReader
  <2>2. Pushed(t, "wakenext") /\ Plain(t) /\ th'[t].wait = "run"
    BY <1>1, <2>1, GotoStep
  <2> QED BY <1>0, <1>1, <2>1, <2>2 DEF InKept
<1>3. CASE th[t].ok
  <2> DEFINE e == [thread |-> t, request |-> th[t].request]
             k == ReadersUpTo(th[t].request)
             new == InsertAt(in.readers, k + 1, e)
  <2>1. Continue(t, Goto(t, <<"replyloop", "remove", "wakenext">>))
        /\ in' = [in EXCEPT !.readers = new]
    BY <1>3 DEF InsertReader
  <2>2. Pushed3(t, "replyloop", "remove", "wakenext") /\ Plain(t) /\ th'[t].wait = "run"
    BY <1>1, <2>1, Goto3Step
  <2>3. e \in ReaderEntries
    BY <1>0 DEF ReaderEntries
  <2>4. new \in Seq(ReaderEntries)
    <3>1. in.readers \in Seq(ReaderEntries) /\ k \in 0 .. Len(in.readers)
      BY ReadersUpToIs
    <3> HIDE DEF k, e
    <3> QED BY <2>3, <3>1, InsertAtIs
  <2> HIDE DEF new
  <2>5. InKept /\ in'.readers = new /\ in'.reading = in.reading
    BY <1>0, <2>1, <2>4 DEF InRecords, InKept
  <2> QED BY <1>1, <2>2, <2>3, <2>5 DEF new
<1> QED BY <1>2, <1>3

\* A thread that waits for a reply or an event sleeps, or polls.
LEMMA WaitToReadIs ==
    ASSUME Base, NEW t \in Threads, NEW x \in {"replyloop", "eventloop"}, At(t, x),
           NEW cond \in Waits, <<cond, x>> \in WaitsAt, WaitToRead(t, cond)
    PROVE  /\ Plain(t) /\ InKept /\ in'.readers = in.readers
           /\ \/ in.reading > 0 /\ Pushed(t, x) /\ th'[t].wait = cond /\ in' = in
              \/ /\ ~(in.reading > 0) /\ Pushed3(t, "polled", "waited", x)
                 /\ th'[t].wait = "poll" /\ in'.reading = in.reading + 1
<1>0. in \in InRecords
  BY TypesAre
<1>1. /\ Now(t) = x /\ Then(t) \in After(x) /\ x \in Names /\ Head(th[t].stack) = x
      /\ "polled" \in Names /\ "waited" \in Names /\ "waited" \in After("polled")
      /\ x \in After("waited") /\ "poll" \in Waits /\ <<"poll", "polled">> \in WaitsAt
  BY BaseIs DEF Names, After, Waits, WaitsAt, At
<1>2. CASE in.reading > 0
  <2>1. Continue(t, Block(t, cond, <<x>>)) /\ UNCHANGED in
    BY <1>1, <1>2 DEF WaitToRead
  <2>2. Pushed(t, x) /\ Plain(t) /\ th'[t].wait = cond
    BY <1>1, <2>1, BlockStep
  <2> QED BY <1>0, <1>2, <2>1, <2>2 DEF InKept
<1>3. CASE ~(in.reading > 0)
  <2>1. Continue(t, Block(t, "poll", <<"polled", "waited", x>>))
        /\ in' = [in EXCEPT !.reading = @ + 1]
    BY <1>1, <1>3 DEF WaitToRead
  <2>2. Pushed3(t, "polled", "waited", x) /\ Plain(t) /\ th'[t].wait = "poll"
    BY <1>1, <2>1, Block3Step
  <2>3. InKept /\ in'.readers = in.readers /\ in'.reading = in.reading + 1
    <3>1. in.reading + 1 \in Int
      BY <1>0 DEF InRecords
    <3> QED BY <1>0, <2>1, <3>1 DEF InRecords, InKept
  <2> QED BY <1>3, <2>2, <2>3
<1> QED BY <1>2, <1>3

LEMMA ReplyLoopIs ==
    ASSUME Base, NEW t \in Threads, ReplyLoop(t)
    PROVE  /\ Plain(t) /\ Now(t) = "replyloop" /\ UNCHANGED <<out, net, log>> /\ InKept
           /\ in'.readers = in.readers
           /\ \/ Popped(t) /\ in'.reading = in.reading /\ th'[t].wait = "run"
              \/ /\ in.reading > 0 /\ Pushed(t, "replyloop") /\ th'[t].wait = "reader" /\ in' = in
                 /\ ~Answered(th[t].request)
              \/ /\ ~(in.reading > 0) /\ Pushed3(t, "polled", "waited", "replyloop")
                 /\ th'[t].wait = "poll" /\ in'.reading = in.reading + 1
<1>1. /\ At(t, "replyloop") /\ UNCHANGED <<out, net, log>> /\ Now(t) = "replyloop"
      /\ "reader" \in Waits /\ <<"reader", "replyloop">> \in WaitsAt
  BY BaseIs DEF ReplyLoop, Waits, WaitsAt
<1>2. CASE Answered(th[t].request)
  <2>1. Continue(t, Return(t)) /\ in' = WithoutAnswers(th[t].request, 1)
    BY <1>2 DEF ReplyLoop
  <2>2. /\ in' \in InRecords /\ in'.reading = in.reading /\ in'.read = in.read
        /\ in'.completed = in.completed /\ in'.expected = in.expected
        /\ in'.packets = in.packets /\ in'.readers = in.readers
    BY <2>1, WithoutIs
  <2> QED BY <1>1, <2>1, <2>2, ReturnStep DEF InKept
<1>3. CASE ~Answered(th[t].request)
  <2>1. WaitToRead(t, "reader")
    BY <1>3 DEF ReplyLoop
  <2> QED BY <1>1, <1>3, <2>1, WaitToReadIs
<1> QED BY <1>2, <1>3

LEMMA EventsTail ==
    ASSUME Base, in.events # <<>>, in' = [in EXCEPT !.events = Tail(@)]
    PROVE  InKept /\ in'.readers = in.readers /\ in'.reading = in.reading
<1>1. in \in InRecords /\ in.events \in Seq(EventEntries)
  BY TypesAre DEF InRecords
<1>2. Tail(in.events) \in Seq(EventEntries)
  BY <1>1
<1> QED BY <1>1, <1>2 DEF InRecords, InKept

LEMMA EventLoopIs ==
    ASSUME Base, NEW t \in Threads, EventLoop(t)
    PROVE  /\ Plain(t) /\ Now(t) = "eventloop" /\ UNCHANGED <<out, net, log>> /\ InKept
           /\ in'.readers = in.readers
           /\ \/ Popped(t) /\ in'.reading = in.reading /\ th'[t].wait = "run"
              \/ in.reading > 0 /\ Pushed(t, "eventloop") /\ th'[t].wait = "event" /\ in' = in
              \/ /\ ~(in.reading > 0) /\ Pushed3(t, "polled", "waited", "eventloop")
                 /\ th'[t].wait = "poll" /\ in'.reading = in.reading + 1
<1>1. /\ At(t, "eventloop") /\ UNCHANGED <<out, net, log>> /\ Now(t) = "eventloop"
      /\ "event" \in Waits /\ <<"event", "eventloop">> \in WaitsAt
  BY BaseIs DEF EventLoop, Waits, WaitsAt
<1>2. CASE in.events # <<>>
  <2>1. Continue(t, Return(t)) /\ in' = [in EXCEPT !.events = Tail(@)]
    BY <1>2 DEF EventLoop
  <2> QED BY <1>1, <1>2, <2>1, EventsTail, ReturnStep
<1>3. CASE ~(in.events # <<>>)
  <2>1. WaitToRead(t, "event")
    BY <1>3 DEF EventLoop
  <2> QED BY <1>1, <2>1, WaitToReadIs
<1> QED BY <1>2, <1>3

LEMMA RemoveReaderIs ==
    ASSUME Base, NEW t \in Threads, RemoveReader(t)
    PROVE  /\ Plain(t) /\ Now(t) = "remove" /\ UNCHANGED <<out, net, log>> /\ InKept
           /\ in'.reading = in.reading /\ Popped(t) /\ th'[t].wait = "run"
           /\ \/ in' = in /\ ~(in.readers # <<>> /\ Head(in.readers).request <= th[t].request)
              \/ /\ in.readers # <<>> /\ Head(in.readers).thread = t
                 /\ in'.readers = Tail(in.readers)
<1>0. in \in InRecords /\ in.readers \in Seq(ReaderEntries)
  BY TypesAre DEF InRecords
<1>1. /\ At(t, "remove") /\ UNCHANGED <<out, net, log>> /\ Now(t) = "remove"
      /\ Continue(t, Return(t))
  BY BaseIs DEF RemoveReader
<1>2. Popped(t) /\ Plain(t) /\ th'[t].wait = "run"
  BY <1>1, ReturnStep
<1>3. CASE /\ UNCHANGED in
           /\ ~(in.readers # <<>> /\ Head(in.readers).request <= th[t].request)
  BY <1>0, <1>1, <1>2, <1>3 DEF InKept
<1>4. CASE /\ in.readers # <<>> /\ Head(in.readers).thread = t
           /\ in' = [in EXCEPT !.readers = Tail(@)]
  <2>1. Tail(in.readers) \in Seq(ReaderEntries)
    BY <1>0, <1>4
  <2>2. InKept /\ in'.reading = in.reading /\ in'.readers = Tail(in.readers)
    BY <1>0, <1>4, <2>1 DEF InRecords, InKept
  <2> QED BY <1>1, <1>2, <1>4, <2>2
<1> QED BY <1>3, <1>4 DEF RemoveReader

LEMMA WakeNextIs ==
    ASSUME Base, NEW t \in Threads, WakeNext(t)
    PROVE  /\ Plain(t) /\ Now(t) = "wakenext" /\ UNCHANGED <<in, out, net, log>>
           /\ Popped(t) /\ Now(t)' = "end" /\ WakesReader(th')
<1>0. Types /\ in \in InRecords
  BY TypesAre
<1>1. /\ At(t, "wakenext") /\ UNCHANGED <<in, out, net, log>> /\ Now(t) = "wakenext"
      /\ th[t].wait = "run" /\ th[t].stack # <<>> /\ Then(t) = "end"
  BY BaseIs DEF WakeNext, After
<1>2. PICK g \in _xcb_in_wake_up_next_reader(Return(t)) : Continue(t, g)
  BY DEF WakeNext
<1>3. /\ Changed(Return(t), t, <<>>) /\ Return(t)[t].wait = "run" /\ Return(t)[t].vec = th[t].vec
      /\ Return(t)[t].cookies = th[t].cookies
  BY <1>1, GotoIs, EmptySeq DEF Return
<1>4. Changed(g, t, <<>>) /\ g[t] = Return(t)[t] /\ WakesReader(g)
  BY <1>0, <1>1, <1>2, <1>3, WakeUpIs
<1>5. Popped(t) /\ Done(g, t) /\ th'[t].wait = "run"
  BY <1>1, <1>2, <1>3, <1>4, PopStep
<1>6. Plain(t)
  BY <1>3, <1>4, <1>5, PlainIs
<1>7. \A u \in Threads : th'[u].wait = g[u].wait
  BY <1>3, <1>4, <1>5 DEF Done
<1>8. in.readers # <<>> => Head(in.readers).thread \in Threads
  <2>1. in.readers \in Seq(ReaderEntries)
    BY <1>0 DEF InRecords
  <2>2. in.readers # <<>> => Head(in.readers) \in ReaderEntries
    BY <2>1
  <2> QED BY <2>2 DEF ReaderEntries
<1>9. WakesReader(th')
  BY <1>4, <1>7, <1>8 DEF WakesReader
<1>10. Now(t)' = "end"
  BY <1>1, <1>5 DEF Popped
<1> QED BY <1>1, <1>5, <1>6, <1>9, <1>10

\* Four steps in place of the first.
LEMMA Push4Step ==
    ASSUME Base, NEW t \in Threads, NEW x, At(t, x),
           NEW a \in Names, NEW b \in Names, NEW c \in Names, NEW d \in Names,
           b \in After(a), c \in After(b), d \in After(c), Then(t) \in After(d),
           NEW u, u = <<a, b, c, d>>, Continue(t, Goto(t, u))
    PROVE  Plain(t) /\ Now(t)' = a
<1> DEFINE s == Tail(th[t].stack)
           k == <<d>> \o s
           p == <<c>> \o k
           q == <<b>> \o p
           r == <<a>> \o q
           f == Goto(t, u)
<1>0. /\ th[t].stack # <<>> /\ Valid(th[t].stack) /\ Types /\ th[t].wait = "run"
      /\ u \in Seq(Names)
  BY BaseIs, TypesAre
<1>1. Valid(s) /\ Item(s, 1) = Then(t) /\ s \in Seq(Names)
  BY <1>0, Pop DEF Then, Place, Valid
<1>2. Changed(f, t, u) /\ f[t].wait = "run" /\ f[t].vec = th[t].vec /\ f[t].cookies = th[t].cookies
  BY <1>0, GotoIs
<1>3. f[t].stack = u \o s
  BY <1>2 DEF Changed
<1> HIDE DEF f, s
<1>4. u \o s = r
  <2>1. /\ <<a>> \in Seq(Names) /\ <<b, c, d>> \in Seq(Names)
    OBVIOUS
  <2> DEFINE v == <<a>> \o <<b, c, d>>
  <2>2. v \in Seq(Names) /\ Len(v) = 4 /\ v[1] = a /\ v[2] = b /\ v[3] = c /\ v[4] = d
    BY <2>1
  <2> HIDE DEF v
  <2>3. v = u
    BY <1>0, <2>2
  <2>4. <<a>> \o (<<b, c, d>> \o s) = v \o s
    BY <1>1, <2>1, ConcatAssociative DEF v
  <2>5. <<b, c, d>> \o s = q
    BY <1>1, ThreeSteps
  <2> QED BY <2>3, <2>4, <2>5
<1>5. Valid(k) /\ Item(k, 1) = d
  BY <1>1, Push
<1> HIDE DEF k
<1>6. Valid(p) /\ Item(p, 1) = c
  BY <1>5, Push
<1> HIDE DEF p
<1>7. Valid(q) /\ Item(q, 1) = b
  BY <1>6, Push
<1> HIDE DEF q
<1>8. Valid(r) /\ Item(r, 1) = a
  BY <1>7, Push
<1> HIDE DEF r
<1>9. Valid(f[t].stack) /\ Item(f[t].stack, 1) = a
  BY <1>3, <1>4, <1>8
<1>10. Moved(t) /\ th'[t].stack = f[t].stack
  BY <1>0, <1>2, <1>9, ContinueIs DEF Changed, f
<1>11. /\ th'[t].cookies = f[t].cookies
       /\ \A v \in Threads \ {t} : th'[v] = f[v]
       /\ Now(t)' # "end" => th'[t] = f[t]
  BY <1>0, <1>2, <1>9, ContinueIs DEF Changed, f
<1>12. Done(f, t)
  BY <1>10, <1>11 DEF Done
<1>13. Now(t)' = a
  BY <1>9, <1>10 DEF Now, Place
<1> QED BY <1>2, <1>12, <1>13, PlainIs

\* xcb_request_check, and the polling calls.
LEMMA RequestCheckIs ==
    ASSUME Base, NEW t \in Threads, RequestCheck(t)
    PROVE  /\ Plain(t) /\ Now(t) = "check" /\ UNCHANGED <<in, out, net, log>>
           /\ Now(t)' \in {"reply", "prepare", "checkflush"}
<1>1. /\ At(t, "check") /\ UNCHANGED <<in, out, net, log>> /\ Now(t) = "check" /\ Then(t) = "end"
  BY BaseIs DEF RequestCheck, After
<1>2. /\ "reply" \in Names /\ "prepare" \in Names /\ "sync" \in Names /\ "checkflush" \in Names
      /\ "sync" \in After("prepare") /\ "checkflush" \in After("sync")
      /\ "reply" \in After("checkflush") /\ Then(t) \in After("reply")
  BY <1>1 DEF Names, After
<1>3. CASE th[t].request <= in.completed
  <2>1. Continue(t, Goto(t, <<"reply">>))
    BY <1>3 DEF RequestCheck
  <2> QED BY <1>1, <1>2, <2>1, GotoStep DEF Pushed
<1>4. CASE ~(th[t].request <= in.completed) /\ th[t].request >= in.expected
  <2>1. Continue(t, Goto(t, <<"prepare", "sync", "checkflush", "reply">>))
    BY <1>4 DEF RequestCheck
  <2> QED BY <1>1, <1>2, <2>1, Push4Step
<1>5. CASE ~(th[t].request <= in.completed) /\ ~(th[t].request >= in.expected)
  <2>1. Continue(t, Goto(t, <<"checkflush", "reply">>))
    BY <1>5 DEF RequestCheck
  <2> QED BY <1>1, <1>2, <2>1, Goto2Step DEF Pushed2
<1> QED BY <1>3, <1>4, <1>5

LEMMA CheckFlushIs ==
    ASSUME Base, NEW t \in Threads, CheckFlush(t)
    PROVE  /\ Plain(t) /\ Now(t) = "checkflush" /\ UNCHANGED <<in, out, net, log>>
           /\ Popped(t) \/ Pushed(t, "flush")
<1>1. /\ At(t, "checkflush") /\ UNCHANGED <<in, out, net, log>> /\ Now(t) = "checkflush"
      /\ "flush" \in Names /\ Then(t) \in After("flush") /\ out.request \in Nat
  BY BaseIs, TypesAre DEF CheckFlush, After, Names, OutRecords
<1>2. CASE th[t].request >= out.expectedWritten
  <2>1. Continue(t, [Goto(t, <<"flush">>) EXCEPT ![t].target = out.request])
    BY <1>2 DEF CheckFlush
  <2> QED BY <1>1, <2>1, GotoTarget
<1>3. CASE ~(th[t].request >= out.expectedWritten)
  <2>1. Continue(t, Return(t))
    BY <1>3 DEF CheckFlush
  <2> QED BY <1>1, <2>1, ReturnStep
<1> QED BY <1>2, <1>3

\* The two looks of xcb_poll_for_reply and xcb_poll_for_event.
LEMMA LookIs ==
    ASSUME Base, NEW t \in Threads, NEW first, NEW again, NEW x \in {first, again}, At(t, x),
           <<first, again>> \in {<<"pollreply", "pollagain">>, <<"pollevent", "eventagain">>},
           Continue(t, IF At(t, first) /\ in.reading = 0
                       THEN Goto(t, <<"read", again>>) ELSE Return(t))
    PROVE  Plain(t) /\ (Popped(t) \/ Pushed2(t, "read", again))
<1>1. /\ "read" \in Names /\ again \in Names /\ again \in After("read")
      /\ Then(t) = "end" /\ Then(t) \in After(again)
  <2>1. Then(t) \in After(x)
    BY BaseIs
  <2>2. first \in {"pollreply", "pollevent"} /\ again \in {"pollagain", "eventagain"}
    OBVIOUS
  <2> QED BY <2>1, <2>2 DEF Names, After
<1>2. CASE At(t, first) /\ in.reading = 0
  <2>1. Continue(t, Goto(t, <<"read", again>>))
    BY <1>2
  <2> QED BY <1>1, <2>1, Goto2Step
<1>3. CASE ~(At(t, first) /\ in.reading = 0)
  <2>1. Continue(t, Return(t))
    BY <1>3
  <2> QED BY <2>1, ReturnStep
<1> QED BY <1>2, <1>3

LEMMA PollForReplyIs ==
    ASSUME Base, NEW t \in Threads, PollForReply(t)
    PROVE  /\ Moved(t) /\ th'[t].vec \in {<<>>, th[t].vec} /\ th'[t].cookies \subseteq th[t].cookies
           /\ Now(t) \in {"pollreply", "pollagain"} /\ UNCHANGED <<out, net, log>> /\ InKept
           /\ in'.readers = in.readers /\ in'.reading = in.reading
           /\ Popped(t) \/ Pushed2(t, "read", "pollagain")
<1>0. in \in InRecords
  BY TypesAre
<1>1. PICK x \in {"pollreply", "pollagain"} : At(t, x)
  BY DEF PollForReply
<1>2. /\ Now(t) = x /\ UNCHANGED <<out, net, log>> /\ th[t].wait = "run" /\ th[t].stack # <<>>
      /\ Then(t) = "end"
  BY <1>1, BaseIs DEF PollForReply, After
<1>3. CASE Answered(th[t].request) /\ (At(t, "pollreply") \/ th[t].ok)
  <2> DEFINE new == th[t].cookies \ {th[t].request}
             r == [Goto(t, <<>>)[t] EXCEPT !.cookies = new]
  <2>0. <<>> \in Seq(Names)
    OBVIOUS
  <2>1. /\ in' = WithoutAnswers(th[t].request, 1)
        /\ Continue(t, [Return(t) EXCEPT ![t].cookies = @ \ {th[t].request}])
    BY <1>3 DEF PollForReply
  <2>2. /\ in' \in InRecords /\ in'.reading = in.reading /\ in'.read = in.read
        /\ in'.completed = in.completed /\ in'.expected = in.expected
        /\ in'.packets = in.packets /\ in'.readers = in.readers
    BY <2>1, WithoutIs
  <2>3. new \in SUBSET Nat /\ new \subseteq th[t].cookies
    BY TypesAre DEF ThreadRecords
  <2> HIDE DEF new
  <2>4. /\ Goto(t, <<>>)[t] \in ThreadRecords /\ Goto(t, <<>>)[t].op = th[t].op
        /\ Goto(t, <<>>)[t].kind = th[t].kind /\ Goto(t, <<>>)[t].request = th[t].request
        /\ Goto(t, <<>>)[t].wait = "run" /\ Goto(t, <<>>)[t].vec = th[t].vec
        /\ Goto(t, <<>>)[t].cookies = th[t].cookies
    BY <1>1, <2>0, FieldsOfGoto
  <2>5. LikeGoto(t, <<>>, r) /\ r.wait = "run" /\ r.vec = th[t].vec /\ r.cookies = new
    BY <2>3, <2>4 DEF ThreadRecords, LikeGoto
  <2>6. Continue(t, [Return(t) EXCEPT ![t] = r])
    BY <2>1, <2>4 DEF Return, new
  <2> HIDE DEF r
  <2>7. /\ Popped(t) /\ Moved(t) /\ th'[t].cookies = r.cookies
        /\ Now(t)' # "end" => th'[t] = r
    BY <1>1, <2>5, <2>6, ReturnWith
  <2>8. th'[t].vec = <<>>
    BY <1>2, <2>7 DEF Popped, Moved
  <2> QED BY <1>1, <1>2, <2>2, <2>3, <2>5, <2>7, <2>8 DEF InKept
<1>4. CASE ~(Answered(th[t].request) /\ (At(t, "pollreply") \/ th[t].ok))
  <2>1. /\ UNCHANGED in
        /\ Continue(t, IF At(t, "pollreply") /\ in.reading = 0
                       THEN Goto(t, <<"read", "pollagain">>) ELSE Return(t))
    BY <1>4 DEF PollForReply
  <2>2. Plain(t) /\ (Popped(t) \/ Pushed2(t, "read", "pollagain"))
    BY <1>1, <2>1, LookIs
  <2> QED BY <1>0, <1>1, <1>2, <2>1, <2>2 DEF Plain, InKept
<1> QED BY <1>3, <1>4

LEMMA PollForEventIs ==
    ASSUME Base, NEW t \in Threads, PollForEvent(t)
    PROVE  /\ Plain(t) /\ Now(t) \in {"pollevent", "eventagain"} /\ UNCHANGED <<out, net, log>>
           /\ InKept /\ in'.readers = in.readers /\ in'.reading = in.reading
           /\ Popped(t) \/ Pushed2(t, "read", "eventagain")
<1>0. in \in InRecords
  BY TypesAre
<1>1. PICK x \in {"pollevent", "eventagain"} : At(t, x)
  BY DEF PollForEvent
<1>2. Now(t) = x /\ UNCHANGED <<out, net, log>>
  BY <1>1, BaseIs DEF PollForEvent
<1>3. CASE in.events # <<>> /\ (At(t, "pollevent") \/ th[t].ok)
  <2>1. in' = [in EXCEPT !.events = Tail(@)] /\ Continue(t, Return(t))
    BY <1>3 DEF PollForEvent
  <2>2. InKept /\ in'.readers = in.readers /\ in'.reading = in.reading
    BY <1>3, <2>1, EventsTail
  <2>3. Popped(t) /\ Plain(t)
    BY <1>1, <2>1, ReturnStep
  <2> QED BY <1>1, <1>2, <2>2, <2>3
<1>4. CASE ~(in.events # <<>> /\ (At(t, "pollevent") \/ th[t].ok))
  <2>1. /\ UNCHANGED in
        /\ Continue(t, IF At(t, "pollevent") /\ in.reading = 0
                       THEN Goto(t, <<"read", "eventagain">>) ELSE Return(t))
    BY <1>4 DEF PollForEvent
  <2>2. Plain(t) /\ (Popped(t) \/ Pushed2(t, "read", "eventagain"))
    BY <1>1, <2>1, LookIs
  <2> QED BY <1>0, <1>1, <1>2, <2>1, <2>2 DEF InKept
<1> QED BY <1>3, <1>4

LEMMA DiscardReplyIs ==
    ASSUME Base, NEW t \in Threads, DiscardReply(t)
    PROVE  /\ Plain(t) /\ Now(t) = "discard" /\ UNCHANGED <<out, net, log>>
           /\ InKept /\ in'.readers = in.readers /\ in'.reading = in.reading
           /\ Popped(t)
<1> DEFINE r == th[t].request
           k == Len(AnswersFor(r))
           left == WithoutAnswers(r, k)
           S == {i \in DOMAIN in.pending : in.pending[i].first < r}
           m == FrontRun(Len(in.pending), S)
           place == 1 + m
           e == Expect(r, TRUE, FALSE, FALSE)
<1>0. /\ in \in InRecords /\ in.pending \in Seq(PendingEntries) /\ r \in Nat
      /\ in.current \in Seq(Packets) /\ in.replies \subseteq ReplyEntries
  BY TypesAre DEF InRecords, ThreadRecords
<1>1. /\ At(t, "discard") /\ UNCHANGED <<out, net, log>> /\ Now(t) = "discard"
      /\ Continue(t, Return(t))
      /\ in' = IF r <= in.completed THEN left
               ELSE IF place \in DOMAIN in.pending /\ in.pending[place].first = r
               THEN [left EXCEPT !.pending[place].discard = TRUE]
               ELSE [left EXCEPT !.pending = InsertAt(@, place, e)]
  BY BaseIs DEF DiscardReply
<1>2. Popped(t) /\ Plain(t)
  BY <1>1, ReturnStep
<1>3. k \in Nat
  <2>1. AnswersFor(r) \in Seq(Packets)
    <3>1. CASE r < in.read /\ FiledFor(r) # {}
      <4>1. (CHOOSE x \in FiledFor(r) : TRUE) \in FiledFor(r)
        BY <3>1
      <4>2. (CHOOSE x \in FiledFor(r) : TRUE) \in ReplyEntries
        BY <1>0, <4>1 DEF FiledFor
      <4> QED BY <3>1, <4>2 DEF AnswersFor, ReplyEntries
    <3>2. CASE ~(r < in.read /\ FiledFor(r) # {})
      BY <1>0, <3>2, EmptySeq DEF AnswersFor
    <3> QED BY <3>1, <3>2
  <2> QED BY <2>1
<1>4. /\ left \in InRecords /\ left.reading = in.reading /\ left.read = in.read
      /\ left.completed = in.completed /\ left.expected = in.expected
      /\ left.packets = in.packets /\ left.readers = in.readers /\ left.pending = in.pending
  <2> HIDE DEF k
  <2> QED BY <1>3, WithoutIs
<1>5. m \in 0 .. Len(in.pending) /\ DOMAIN in.pending = 1 .. Len(in.pending)
  <2>1. Len(in.pending) \in Nat /\ DOMAIN in.pending = 1 .. Len(in.pending)
    BY <1>0
  <2> HIDE DEF S
  <2> QED BY <2>1, FrontRunIs
<1>6. e \in PendingEntries
  BY <1>0, ExpectType
<1> HIDE DEF r, k, left, S, m, e
<1>7. CASE r <= in.completed
  <2>1. in' = left
    BY <1>1, <1>7
  <2> QED BY <1>1, <1>2, <1>4, <2>1 DEF InKept
<1>8. CASE ~(r <= in.completed) /\ place \in DOMAIN in.pending /\ in.pending[place].first = r
  <2> DEFINE new == [in.pending EXCEPT ![place].discard = TRUE]
  <2>1. in' = [left EXCEPT !.pending = new]
    BY <1>1, <1>4, <1>8
  <2>2. new \in Seq(PendingEntries)
    <3>1. in.pending[place] \in PendingEntries
      BY <1>0, <1>5, <1>8
    <3>2. [in.pending[place] EXCEPT !.discard = TRUE] \in PendingEntries
      BY <3>1 DEF PendingEntries
    <3> HIDE DEF place
    <3> QED BY <1>0, <1>8, <3>2
  <2> HIDE DEF new
  <2> QED BY <1>1, <1>2, <1>4, <2>1, <2>2 DEF InRecords, InKept
<1>9. CASE ~(r <= in.completed) /\ ~(place \in DOMAIN in.pending /\ in.pending[place].first = r)
  <2> DEFINE new == InsertAt(in.pending, place, e)
  <2>1. in' = [left EXCEPT !.pending = new]
    BY <1>1, <1>4, <1>9
  <2>2. new \in Seq(PendingEntries)
    <3>1. InsertAt(in.pending, m + 1, e) \in Seq(PendingEntries)
      BY <1>0, <1>5, <1>6, InsertAtIs
    <3>2. place = m + 1
      BY <1>5
    <3> QED BY <3>1, <3>2
  <2> HIDE DEF new
  <2> QED BY <1>1, <1>2, <1>4, <2>1, <2>2 DEF InRecords, InKept
<1> QED BY <1>7, <1>8, <1>9

\* A number is some rounds of w and a rest.
LEMMA DivisionIs ==
    ASSUME NEW a \in Nat, NEW w \in Nat \ {0}
    PROVE  /\ a % w \in Nat /\ a % w < w /\ a \div w \in Nat
           /\ a = w * (a \div w) + (a % w)
<1>1. a % w \in Nat /\ a % w < w
  OBVIOUS
<1>2. a \div w \in Int
  OBVIOUS
<1>3. a = w * (a \div w) + (a % w)
  OBVIOUS
<1>4. a \div w \in Nat
  <2>1. ASSUME a \div w < 0
        PROVE  FALSE
    <3>1. PICK d \in Nat : a \div w = -1 - d
      <4>1. -1 - (a \div w) \in Nat /\ a \div w = -1 - (-1 - (a \div w))
        BY <1>2, <2>1
      <4> QED BY <4>1
    <3>2. w * (-1 - d) = -w - w * d /\ w * d \in Nat
      OBVIOUS
    <3>3. a = (-w - w * d) + (a % w)
      BY <1>3, <3>1, <3>2
    <3> QED BY <1>1, <3>2, <3>3
  <2> QED BY <1>2, <2>1
<1> QED BY <1>1, <1>3, <1>4

\* The first number with the rest c that is not before w * p + b.
LEMMA Rounds ==
    ASSUME NEW w \in Nat \ {0}, NEW p \in Nat, NEW q \in Nat, NEW b \in Nat, NEW c \in Nat,
           b < w, c < w, w * p + b <= w * q + c
    PROVE  /\ w * p + c <= w * q + c
           /\ c < b => w * p + c + w <= w * q + c
<1>1. p <= q
  <2>1. SUFFICES ASSUME q + 1 <= p PROVE FALSE
    OBVIOUS
  <2>2. PICK d \in Nat : p = q + 1 + d
    <3>1. p - (q + 1) \in Nat /\ p = q + 1 + (p - (q + 1))
      BY <2>1
    <3> QED BY <3>1
  <2>3. w * p = w * q + w + w * d /\ w * d >= 0
    BY <2>2
  <2> QED BY <2>3
<1>2. PICK d \in Nat : q = p + d
  <2>1. q - p \in Nat /\ q = p + (q - p)
    BY <1>1
  <2> QED BY <2>1
<1>3. w * q = w * p + w * d /\ w * d >= 0 /\ w * d \in Nat
  BY <1>2
<1>4. w * p + c <= w * q + c
  BY <1>3
<1>5. ASSUME c < b
      PROVE  w * p + c + w <= w * q + c
  <2>1. d # 0
    <3>1. SUFFICES ASSUME d = 0 PROVE FALSE
      OBVIOUS
    <3>2. w * p = w * q
      BY <1>2, <3>1
    <3>3. w * p \in Nat
      OBVIOUS
    <3> QED BY <1>5, <3>2, <3>3
  <2>2. PICK e \in Nat : d = e + 1
    <3>1. d - 1 \in Nat /\ d = (d - 1) + 1
      BY <2>1
    <3> QED BY <3>1
  <2>3. w * d = w * e + w /\ w * e >= 0 /\ w * e \in Nat /\ w * p \in Nat
    BY <2>2
  <2> QED BY <1>3, <2>3
<1> QED BY <1>4, <1>5

\* The full number is not before the last one read,
LEMMA WidenIs ==
    ASSUME Wire \in Nat \ {0}, in.read \in Nat, NEW n \in Nat
    PROVE  Widen(n) \in Nat /\ Widen(n) >= in.read
<1> DEFINE p == in.read \div Wire
           b == in.read % Wire
<1>1. b \in Nat /\ b < Wire /\ p \in Nat /\ in.read = Wire * p + b
  BY DivisionIs
<1>2. Widen(n) = IF in.read - b + n < in.read THEN in.read - b + n + Wire ELSE in.read - b + n
  BY DEF Widen
<1> HIDE DEF p, b
<1>3. Wire * p \in Nat /\ in.read - b = Wire * p
  BY <1>1
<1> QED BY <1>1, <1>2, <1>3

\* and not after any number with the same rest that is not before it.
LEMMA WidenUpTo ==
    ASSUME Wire \in Nat \ {0}, in.read \in Nat, NEW n \in Nat, in.read <= n
    PROVE  Widen(n % Wire) <= n
<1> DEFINE p == in.read \div Wire
           b == in.read % Wire
           q == n \div Wire
           c == n % Wire
<1>1. /\ b \in Nat /\ b < Wire /\ p \in Nat /\ in.read = Wire * p + b
      /\ c \in Nat /\ c < Wire /\ q \in Nat /\ n = Wire * q + c
  BY DivisionIs
<1>2. Widen(c) = IF in.read - b + c < in.read THEN in.read - b + c + Wire ELSE in.read - b + c
  BY DEF Widen
<1> HIDE DEF p, b, q, c
<1>3. Wire * p \in Nat /\ Wire * q \in Nat
  BY <1>1
<1>4. Wire * p + c <= Wire * q + c /\ (c < b => Wire * p + c + Wire <= Wire * q + c)
  BY <1>1, Rounds
<1>5. in.read - b = Wire * p
  BY <1>1, <1>3
<1>6. Widen(c) <= n
  BY <1>1, <1>2, <1>3, <1>4, <1>5
<1> QED BY <1>6 DEF c

\* What is left of the list of pending replies.
LEMMA DropFinishedType ==
    ASSUME NEW p \in Seq(PendingEntries), NEW n
    PROVE  DropFinished(p, n) \in Seq(PendingEntries)
<1> DEFINE S == {i \in DOMAIN p : ~p[i].external /\ p[i].last <= n}
           k == FrontRun(Len(p), S)
<1>1. k \in 0 .. Len(p)
  <2>1. Len(p) \in Nat
    OBVIOUS
  <2> HIDE DEF S
  <2> QED BY <2>1, FrontRunIs
<1>2. DropFinished(p, n) = SubSeq(p, 1 + k, Len(p)) /\ 1 + k = k + 1
  BY <1>1 DEF DropFinished
<1> HIDE DEF k
<1> QED BY <1>1, <1>2, DropIs

\* read_packet: the number read and the number completed grow, and the readers
\* that are dropped have been woken.
LEMMA ReadPacketIs ==
    ASSUME Base, Wire \in Nat \ {0}, NEW t \in Threads, read_packet(t), in.packets # <<>>
    PROVE  /\ Plain(t) /\ Now(t) = "packets" /\ UNCHANGED <<out, net, log>>
           /\ th'[t].wait = "run" /\ th'[t].ok = th[t].ok /\ th'[t].vec = th[t].vec
           /\ Popped(t) \/ Pushed(t, "packets")
           /\ Popped(t) <=> Len(in.packets) = 1
           /\ in' \in InRecords /\ in'.reading = in.reading
           /\ Head(in.packets) \in Packets /\ in'.packets = Tail(in.packets)
           /\ in'.read = Widen(Head(in.packets).serial)
           /\ \/ in'.read = in.read /\ in'.completed \in {in.completed, in'.read}
              \/ in'.read # in.read /\ in'.completed \in {in'.read - 1, in'.read}
           /\ in'.expected = IF in'.read > in.expected THEN in'.read ELSE in.expected
           /\ in'.readers = SubSeq(in.readers, ReadersUpTo(in'.completed) + 1, Len(in.readers))
           /\ \A i \in 1 .. ReadersUpTo(in'.completed) :
                th'[in.readers[i].thread].wait # "reader"
<1> DEFINE p         == Head(in.packets)
           read      == Widen(p.serial)
           moved     == read # in.read
           before    == IF moved THEN read - 1 ELSE in.completed
           pending   == DropFinished(in.pending, before)
           completed == IF p.type = "error" THEN read ELSE before
           finished  == ReadersUpTo(completed)
           readers   == SubSeq(in.readers, finished + 1, Len(in.readers))
           match     == /\ p.type # "event" /\ pending # <<>>
                        /\ Matches(Head(pending), read)
           discard   == match /\ Head(pending).discard
           answer    == p.type = "reply"
                        \/ (p.type = "error" /\ match /\ Head(pending).checked)
           filed     == [request |-> in.read, answers |-> in.current]
           current   == IF moved THEN <<>> ELSE in.current
           first     == IF Len(in.packets) = 1 THEN Return(t) ELSE th
           gone      == {in.readers[i].thread : i \in 1 .. finished}
           told      == Signal(first, gone, "reader")
           head      == IF readers # <<>> /\ Head(readers).request = read
                        THEN {Head(readers).thread} ELSE {}
           replies2  == IF moved /\ in.current # <<>> THEN in.replies \cup {filed} ELSE in.replies
           current2  == IF answer /\ ~discard THEN Append(current, p) ELSE current
           events2   == IF answer \/ discard THEN in.events
                        ELSE Append(in.events, [type |-> p.type, of |-> p.of, seq |-> read])
           expected2 == IF read > in.expected THEN read ELSE in.expected
<1>0. /\ Types /\ in \in InRecords /\ in.packets \in Seq(Packets) /\ in.read \in Nat
      /\ in.completed \in Nat /\ in.expected \in Nat /\ in.current \in Seq(Packets)
      /\ in.replies \subseteq ReplyEntries /\ in.events \in Seq(EventEntries)
      /\ in.readers \in Seq(ReaderEntries) /\ in.pending \in Seq(PendingEntries)
      /\ th \in [Threads -> ThreadRecords] /\ th[t] \in ThreadRecords
  BY TypesAre DEF InRecords
<1>1. /\ At(t, "packets") /\ UNCHANGED <<out, net, log>> /\ Now(t) = "packets"
      /\ Then(t) \in After("packets") /\ "packets" \in Names /\ th[t].wait = "run"
      /\ th[t].stack # <<>> /\ Head(th[t].stack) = "packets"
  BY BaseIs DEF read_packet, At
<1>2. /\ in' = [in EXCEPT
                  !.packets = Tail(in.packets), !.read = read, !.completed = completed,
                  !.expected = expected2, !.pending = pending, !.readers = readers,
                  !.replies = replies2, !.current = current2, !.events = events2]
      /\ \E f \in IF discard THEN {told}
                  ELSE IF answer THEN {Signal(told, head, "reader")}
                  ELSE SignalEvent(told) : Continue(t, f)
  BY DEF read_packet
<1>3. p \in Packets /\ p.serial \in Nat /\ p.of \in Nat /\ p.type \in {"reply", "error", "event"}
  <2>1. p \in Packets
    BY <1>0
  <2> QED BY <2>1 DEF Packets
<1>4. read \in Nat /\ read >= in.read
  BY <1>0, <1>3, WidenIs
<1>5. before \in Nat /\ completed \in Nat
  BY <1>0, <1>4
<1>6. pending \in Seq(PendingEntries)
  BY <1>0, DropFinishedType
<1>7. finished \in 0 .. Len(in.readers)
  BY ReadersUpToIs
<1>8. readers \in Seq(ReaderEntries)
  <2> HIDE DEF finished
  <2> QED BY <1>0, <1>7, DropIs
<1>9. Tail(in.packets) \in Seq(Packets)
  BY <1>0
<1>10. expected2 \in Nat
  BY <1>0, <1>4
<1>11. replies2 \subseteq ReplyEntries
  <2>1. filed \in ReplyEntries
    BY <1>0 DEF ReplyEntries
  <2> HIDE DEF filed
  <2> QED BY <1>0, <2>1
<1>12. current2 \in Seq(Packets)
  <2>1. current \in Seq(Packets)
    BY <1>0, EmptySeq
  <2> HIDE DEF current, p, answer, discard
  <2>2. Append(current, p) \in Seq(Packets)
    BY <1>3, <2>1
  <2> QED BY <2>1, <2>2
<1>13. events2 \in Seq(EventEntries)
  <2>1. [type |-> p.type, of |-> p.of, seq |-> read] \in EventEntries
    BY <1>3, <1>4 DEF EventEntries
  <2> HIDE DEF p, read, answer, discard
  <2> DEFINE e == [type |-> p.type, of |-> p.of, seq |-> read]
  <2>2. e \in EventEntries
    BY <2>1
  <2> HIDE DEF e
  <2>3. Append(in.events, e) \in Seq(EventEntries)
    BY <1>0, <2>2
  <2> QED BY <1>0, <2>3 DEF e
<1>14. \/ read = in.read /\ completed \in {in.completed, read}
       \/ read # in.read /\ completed \in {read - 1, read}
  OBVIOUS
<1>15. PICK f \in IF discard THEN {told}
                  ELSE IF answer THEN {Signal(told, head, "reader")}
                  ELSE SignalEvent(told) : Continue(t, f)
  BY <1>2
<1>e. expected2 = IF read > in.expected THEN read ELSE in.expected
  OBVIOUS
<1>r. readers = SubSeq(in.readers, ReadersUpTo(completed) + 1, Len(in.readers))
  OBVIOUS
<1>q. /\ read = Widen(Head(in.packets).serial) /\ p = Head(in.packets)
      /\ finished = ReadersUpTo(completed)
  OBVIOUS
<1> HIDE DEF p, read, moved, before, pending, completed, finished, readers, match, discard,
             answer, filed, current, head, replies2, current2, events2, expected2
<1>16. /\ in' \in InRecords /\ in'.reading = in.reading /\ in'.packets = Tail(in.packets)
       /\ in'.read = read /\ in'.completed = completed /\ in'.expected = expected2
       /\ in'.readers = readers
  BY <1>0, <1>2, <1>4, <1>5, <1>6, <1>8, <1>9, <1>10, <1>11, <1>12, <1>13 DEF InRecords
<1> DEFINE s == IF Len(in.packets) = 1 THEN <<>> ELSE <<"packets">>
<1>17. Changed(first, t, s) /\ first[t].wait = "run" /\ first[t].ok = th[t].ok
       /\ first[t].vec = th[t].vec /\ first[t].cookies = th[t].cookies
  <2>1. CASE Len(in.packets) = 1
    <3>1. /\ Changed(Goto(t, <<>>), t, <<>>) /\ Goto(t, <<>>)[t].wait = "run"
          /\ Goto(t, <<>>)[t].ok = th[t].ok /\ Goto(t, <<>>)[t].vec = th[t].vec
          /\ Goto(t, <<>>)[t].cookies = th[t].cookies
      BY <1>1, GotoIs, EmptySeq
    <3> QED BY <2>1, <3>1 DEF Return
  <2>2. CASE Len(in.packets) # 1
    <3>1. th[t].stack = <<"packets">> \o Tail(th[t].stack)
      <4> DEFINE z == th[t].stack
      <4>1. z \in Seq(Names) /\ z # <<>> /\ Head(z) = "packets"
        BY <1>0, <1>1 DEF ThreadRecords
      <4> HIDE DEF z
      <4> DEFINE y == <<"packets">> \o Tail(z)
      <4>2. /\ Len(z) \in Nat /\ Len(z) > 0 /\ z[1] = "packets"
            /\ Len(Tail(z)) = Len(z) - 1 /\ Tail(z) \in Seq(Names)
            /\ \A i \in 1 .. (Len(z) - 1) : Tail(z)[i] = z[i + 1]
        BY <4>1
      <4>a. <<"packets">> \in Seq(Names) /\ Len(<<"packets">>) = 1 /\ <<"packets">>[1] = "packets"
        BY <1>1
      <4>3. y \in Seq(Names) /\ Len(y) = Len(z)
        <5>1. y \in Seq(Names) /\ Len(y) = 1 + Len(Tail(z))
          BY <4>2, <4>a
        <5> QED BY <4>2, <5>1
      <4>4. \A i \in 1 .. Len(z) : y[i] = z[i]
        <5> TAKE i \in 1 .. Len(z)
        <5>1. CASE i = 1
          BY <4>2, <4>a, <5>1
        <5>2. CASE i # 1
          <6>1. i - 1 \in 1 .. (Len(z) - 1) /\ (i - 1) + 1 = i
            BY <4>2, <5>2
          <6>2. Tail(z)[i - 1] = z[i]
            <7>1. Tail(z)[i - 1] = z[(i - 1) + 1]
              BY <4>2, <6>1
            <7> QED BY <6>1, <7>1
          <6>3. y[i] = Tail(z)[i - 1]
            BY <4>2, <4>a, <5>2, <6>1
          <6> QED BY <6>2, <6>3
        <5> QED BY <5>1, <5>2
      <4> HIDE DEF y
      <4>5. z = y
        BY <4>1, <4>3, <4>4, SeqEqual
      <4> QED BY <4>5 DEF y, z
    <3> QED BY <1>0, <1>1, <2>2, <3>1 DEF Changed, Woken
  <2> QED BY <2>1, <2>2
<1> HIDE DEF first, gone, s
<1>18. "reader" \in Sleeps
  BY DEF Sleeps
<1>19. Changed(told, t, s) /\ told[t] = first[t]
  BY <1>0, <1>17, <1>18, SignalOneIs
<1>20. \A u \in Threads : told[u] = IF u \in gone /\ first[u].wait = "reader"
                                 THEN [first[u] EXCEPT !.wait = "run"] ELSE first[u]
  BY <1>0, <1>17, <1>18, SignalOneIs
<1>21. \A u \in Threads : u \in gone => told[u].wait # "reader"
  <2>1. first \in [Threads -> ThreadRecords]
    BY <1>17 DEF Changed
  <2> HIDE DEF told
  <2> QED BY <1>20, <2>1 DEF ThreadRecords
<1>22. told[t].wait = "run"
  BY <1>17, <1>19
<1> HIDE DEF told
<1>23. /\ Changed(f, t, s) /\ f[t] = told[t]
       /\ \A u \in Threads : told[u].wait # "reader" => f[u].wait # "reader"
  <2>1. CASE discard
    <3>1. f = told
      BY <1>15, <2>1
    <3> QED BY <1>19, <3>1
  <2>2. CASE ~discard /\ answer
    <3>1. f = Signal(told, head, "reader")
      BY <1>15, <2>2
    <3>2. Changed(f, t, s) /\ f[t] = told[t]
      BY <1>0, <1>18, <1>19, <1>22, <3>1, SignalOneIs
    <3>3. \A u \in Threads : f[u] = IF u \in head /\ told[u].wait = "reader"
                                 THEN [told[u] EXCEPT !.wait = "run"] ELSE told[u]
      BY <1>0, <1>18, <1>19, <1>22, <3>1, SignalOneIs
    <3>4. \A u \in Threads : told[u].wait # "reader" => f[u].wait # "reader"
      BY <3>3
    <3> QED BY <3>2, <3>4
  <2>3. CASE ~discard /\ ~answer
    <3>1. f \in SignalEvent(told)
      BY <1>15, <2>3
    <3>2. Changed(f, t, s) /\ f[t] = told[t]
      BY <1>0, <1>1, <1>19, <1>22, <3>1, SignalEventIs
    <3>3. \A u \in Threads : told[u].wait # "reader" => f[u].wait # "reader"
      <4>1. CASE f = told
        BY <4>1
      <4>2. CASE f # told
        <5>1. PICK w \in Threads : f = Signal(told, {w}, "event")
          BY <3>1, <4>2 DEF SignalEvent
        <5>2. told \in [Threads -> ThreadRecords] /\ "event" \in Sleeps
          BY <1>19 DEF Changed, Sleeps
        <5>3. \A u \in Threads : f[u] = IF u \in {w} /\ told[u].wait = "event"
                                     THEN [told[u] EXCEPT !.wait = "run"] ELSE told[u]
          BY <5>1, <5>2, SignalIs
        <5> QED BY <5>2, <5>3 DEF ThreadRecords
      <4> QED BY <4>1, <4>2
    <3> QED BY <3>2, <3>3
  <2> QED BY <2>1, <2>2, <2>3
<1>24. f[t].wait = "run" /\ f[t].ok = th[t].ok /\ f[t].vec = th[t].vec /\ f[t].cookies = th[t].cookies
  BY <1>17, <1>19, <1>23
<1>25. Then(t) \in {"write", "waited", "pollagain", "eventagain"}
  BY <1>1 DEF After
<1>26. Done(f, t) /\ th'[t].wait = "run" /\ th'[t] = f[t]
       /\ (Len(in.packets) = 1 => Popped(t)) /\ (Len(in.packets) # 1 => Pushed(t, "packets"))
  <2>1. CASE Len(in.packets) = 1
    <3>1. Changed(f, t, <<>>)
      BY <1>23, <2>1 DEF s
    <3>2. Popped(t) /\ Done(f, t) /\ th'[t].wait = "run"
      BY <1>1, <1>15, <1>24, <3>1, PopStep
    <3>3. th'[t] = f[t]
      BY <1>25, <3>2 DEF Popped, Done
    <3> QED BY <2>1, <3>2, <3>3
  <2>2. CASE Len(in.packets) # 1
    <3>1. Changed(f, t, <<"packets">>)
      BY <1>23, <2>2 DEF s
    <3>2. Pushed(t, "packets") /\ Done(f, t) /\ th'[t] = f[t]
      BY <1>1, <1>15, <1>24, <3>1, PushStep
    <3> QED BY <1>24, <2>2, <3>2
  <2> QED BY <2>1, <2>2
<1>27. Plain(t)
  BY <1>24, <1>26, PlainIs
<1>28. Popped(t) <=> Len(in.packets) = 1
  BY <1>25, <1>26 DEF Popped, Pushed
<1>29. \A i \in 1 .. ReadersUpTo(completed) : th'[in.readers[i].thread].wait # "reader"
  <2> TAKE i \in 1 .. ReadersUpTo(completed)
  <2> DEFINE u == in.readers[i].thread
  <2>1. i \in 1 .. Len(in.readers)
    <3>1. Len(in.readers) \in Nat
      BY <1>0
    <3> QED BY <1>7, <1>q, <3>1
  <2>2. in.readers[i] \in ReaderEntries
    BY <1>0, <2>1
  <2>3. u \in Threads /\ u \in gone
    BY <1>q, <2>2 DEF ReaderEntries, gone
  <2> HIDE DEF u
  <2>4. f[u].wait # "reader"
    BY <1>21, <1>23, <2>3
  <2>5. th'[u] = f[u]
    BY <1>26, <2>3 DEF Done
  <2> QED BY <2>4, <2>5 DEF u
<1>30. Popped(t) \/ Pushed(t, "packets")
  BY <1>26
<1>31. Head(in.packets) \in Packets
  BY <1>3, <1>q
<1>32. /\ \/ in'.read = in.read /\ in'.completed \in {in.completed, in'.read}
          \/ in'.read # in.read /\ in'.completed \in {in'.read - 1, in'.read}
       /\ in'.expected = IF in'.read > in.expected THEN in'.read ELSE in.expected
       /\ in'.readers = SubSeq(in.readers, ReadersUpTo(in'.completed) + 1, Len(in.readers))
       /\ in'.read = Widen(Head(in.packets).serial)
  BY <1>14, <1>16, <1>e, <1>r, <1>q
<1>33. \A i \in 1 .. ReadersUpTo(in'.completed) : th'[in.readers[i].thread].wait # "reader"
  BY <1>16, <1>29
<1> QED BY <1>1, <1>16, <1>24, <1>26, <1>27, <1>28, <1>30, <1>31, <1>32, <1>33

-----------------------------------------------------------------------------
(* Calls, and what the server does                                         *)

\* A stack of one step.
LEMMA OneStep ==
    ASSUME NEW a \in Names, "end" \in After(a)
    PROVE  Valid(<<a>>) /\ Item(<<a>>, 1) = a
<1>1. <<a>> \in Seq(Names) /\ Len(<<a>>) = 1 /\ <<a>>[1] = a
  OBVIOUS
<1> DEFINE s == <<a>>
<1>2. s \in Seq(Names) /\ Len(s) = 1 /\ s[1] = a
  BY <1>1
<1> HIDE DEF s
<1>3. Item(s, 1) = a /\ Item(s, 1 + 1) = "end"
  BY <1>2 DEF Item
<1>4. Valid(s)
  BY <1>2, <1>3 DEF Valid
<1> QED BY <1>3, <1>4 DEF s

\* The steps that calls begin with.
Starts == {"prepare", "reply", "check", "pollreply", "discard", "eventloop", "pollevent",
           "flushall", "getback", "writev"}

\* The stack of a call that begins.
LEMMA StepsAre ==
    ASSUME NEW op \in AllOperations
    PROVE  /\ Valid(Steps(op)) /\ Item(Steps(op), 1) \in Starts /\ Steps(op) # <<>>
           /\ Item(Steps(op), 1) = "getback" <=> op = "take"
           /\ Item(Steps(op), 1) = "writev" <=> op = "write"
<1>1. CASE op = "send"
  <2> DEFINE p == <<"cookie">>
             q == <<"send">> \o p
             r == <<"prepare">> \o q
  <2>1. /\ "cookie" \in Names /\ "send" \in Names /\ "prepare" \in Names
        /\ "end" \in After("cookie") /\ "cookie" \in After("send") /\ "send" \in After("prepare")
    BY DEF Names, After
  <2>2. Valid(p) /\ Item(p, 1) = "cookie"
    BY <2>1, OneStep
  <2>3. <<"prepare", "send", "cookie">> = r
    <3>1. <<"send">> \in Seq(Names) /\ <<"cookie">> \in Seq(Names)
      BY <2>1
    <3>2. <<"prepare", "send">> \o p = r
      BY <2>1, <3>1, TwoSteps
    <3> DEFINE v == <<"prepare", "send">> \o p
    <3>3. v \in Seq(Names) /\ Len(v) = 3 /\ v[1] = "prepare" /\ v[2] = "send" /\ v[3] = "cookie"
      <4>1. <<"prepare", "send">> \in Seq(Names)
        BY <2>1
      <4> QED BY <3>1, <4>1
    <3> HIDE DEF v
    <3>4. v = <<"prepare", "send", "cookie">>
      BY <2>1, <3>3
    <3> QED BY <3>2, <3>4 DEF v
  <2>4. Steps(op) = r
    BY <1>1, <2>3 DEF Steps
  <2> HIDE DEF p
  <2>5. Valid(q) /\ Item(q, 1) = "send"
    BY <2>1, <2>2, Push
  <2> HIDE DEF q
  <2>6. Valid(r) /\ Item(r, 1) = "prepare"
    BY <2>1, <2>5, Push
  <2>7. r # <<>>
    BY <2>4 DEF Steps
  <2> HIDE DEF r
  <2> QED BY <1>1, <2>4, <2>6, <2>7 DEF Starts
<1>2. ASSUME NEW a \in Names, NEW b \in Names, b \in After(a), "end" \in After(b)
      PROVE  Valid(<<a, b>>) /\ Item(<<a, b>>, 1) = a
  <2> DEFINE p == <<b>>
             r == <<a>> \o p
  <2>1. Valid(p) /\ Item(p, 1) = b
    BY <1>2, OneStep
  <2>2. <<a, b>> = r
    <3>1. <<a>> \in Seq(Names) /\ p \in Seq(Names)
      OBVIOUS
    <3>2. r \in Seq(Names) /\ Len(r) = 2 /\ r[1] = a /\ r[2] = b
      BY <3>1
    <3> HIDE DEF r
    <3> QED BY <3>2
  <2> HIDE DEF p
  <2>3. Valid(r) /\ Item(r, 1) = a
    BY <1>2, <2>1, Push
  <2> HIDE DEF r
  <2> QED BY <2>2, <2>3
<1>3. CASE op = "event"
  <2>1. Steps(op) = <<"eventloop", "wakenext">>
    BY <1>3 DEF Steps
  <2>2. /\ "eventloop" \in Names /\ "wakenext" \in Names /\ "wakenext" \in After("eventloop")
        /\ "end" \in After("wakenext")
    BY DEF Names, After
  <2>3. Valid(Steps(op)) /\ Item(Steps(op), 1) = "eventloop"
    BY <1>2, <2>1, <2>2
  <2> QED BY <1>3, <2>1, <2>3 DEF Starts
<1>4. CASE op = "take"
  <2>1. Steps(op) = <<"getback", "takeflush">>
    BY <1>4 DEF Steps
  <2>2. /\ "getback" \in Names /\ "takeflush" \in Names /\ "takeflush" \in After("getback")
        /\ "end" \in After("takeflush")
    BY DEF Names, After
  <2>3. Valid(Steps(op)) /\ Item(Steps(op), 1) = "getback"
    BY <1>2, <2>1, <2>2
  <2> QED BY <1>4, <2>1, <2>3 DEF Starts
<1>5. ASSUME NEW a \in Starts \ {"prepare", "eventloop", "getback"}
      PROVE  Valid(<<a>>) /\ Item(<<a>>, 1) = a /\ <<a>> # <<>>
  <2>1. a \in Names /\ "end" \in After(a)
    BY DEF Names, After, Starts
  <2>2. <<a>> # <<>>
    OBVIOUS
  <2> QED BY <2>1, <2>2, OneStep
<1>6. CASE op \in {"wait", "check", "poll", "discard", "pollevent", "flush", "write"}
  <2> DEFINE a == CASE op = "wait" -> "reply" [] op = "check" -> "check"
                    [] op = "poll" -> "pollreply" [] op = "discard" -> "discard"
                    [] op = "pollevent" -> "pollevent" [] op = "flush" -> "flushall"
                    [] op = "write" -> "writev"
  <2>1. Steps(op) = <<a>>
    BY <1>6 DEF Steps
  <2>2. a \in Starts \ {"prepare", "eventloop", "getback"} /\ (a = "writev" <=> op = "write")
    BY <1>6 DEF Starts
  <2> HIDE DEF a
  <2>3. Valid(<<a>>) /\ Item(<<a>>, 1) = a /\ <<a>> # <<>>
    BY <1>5, <2>2
  <2> QED BY <1>6, <2>1, <2>2, <2>3
<1> QED BY <1>1, <1>3, <1>4, <1>6 DEF AllOperations

\* A thread has begun a call.
Called(t) ==
    /\ th' \in [Threads -> ThreadRecords] /\ lock = NoThread /\ lock' = lock
    /\ \A v \in Threads \ {t} : th'[v] = th[v]
    /\ Now(t) = "end" /\ Valid(th'[t].stack) /\ Now(t)' \in Starts
    /\ th'[t].wait = th[t].wait /\ th'[t].vec = th[t].vec
    /\ th'[t].cookies \subseteq th[t].cookies
    /\ Now(t)' = "getback" => t \in Owners \ out.owns
    /\ Now(t)' = "writev" <=> th'[t].op = "write"
    /\ th'[t].op = "write" => t \in out.owns
    /\ UNCHANGED <<in, out, net, log>>

\* A call begins.
LEMMA CallIs ==
    ASSUME Base, NEW t \in Threads, NEW op, NEW kind \in {"void", "check", "query"},
           NEW request \in Nat, Call(t, op, kind, request),
           op = "take" => t \in Owners \ out.owns, op = "write" => t \in out.owns
    PROVE  Called(t)
<1>0. th \in [Threads -> ThreadRecords] /\ th[t] \in ThreadRecords /\ Valid(th[t].stack)
  BY TypesAre
<1>1. /\ lock = NoThread /\ th[t].stack = <<>> /\ lock' = lock /\ UNCHANGED <<in, out, net, log>>
      /\ op \in AllOperations
  BY ConstantsAssumption DEF Call, Outside
<1> DEFINE cookies == IF op \in {"wait", "check", "discard"} THEN th[t].cookies \ {request}
                      ELSE th[t].cookies
           r == [th[t] EXCEPT !.op = op, !.kind = kind, !.request = request,
                              !.stack = Steps(op), !.calls = @ + 1, !.cookies = cookies]
<1>2. th' = [th EXCEPT ![t] = r]
  <2>1. th' = [th EXCEPT ![t].op = op, ![t].kind = kind, ![t].request = request,
                         ![t].stack = Steps(op), ![t].calls = @ + 1,
                         ![t].cookies = IF op \in {"wait", "check", "discard"}
                                        THEN @ \ {request} ELSE @]
    BY DEF Call
  <2> QED BY <1>0, <2>1 DEF ThreadRecords
<1>3. cookies \subseteq th[t].cookies /\ cookies \in SUBSET Nat /\ th[t].calls + 1 \in Nat
  BY <1>0 DEF ThreadRecords
<1>4. /\ Valid(Steps(op)) /\ Item(Steps(op), 1) \in Starts /\ Steps(op) \in Seq(Names)
      /\ Item(Steps(op), 1) = "getback" <=> op = "take"
      /\ Item(Steps(op), 1) = "writev" <=> op = "write"
  BY <1>1, StepsAre DEF Valid
<1> HIDE DEF cookies
<1>5. /\ r \in ThreadRecords /\ r.stack = Steps(op) /\ r.op = op /\ r.wait = th[t].wait
      /\ r.vec = th[t].vec /\ r.cookies = cookies
  BY <1>0, <1>1, <1>3, <1>4 DEF ThreadRecords
<1> HIDE DEF r
<1>6. /\ th' \in [Threads -> ThreadRecords] /\ th'[t] = r
      /\ \A v \in Threads \ {t} : th'[v] = th[v]
  BY <1>0, <1>2, <1>5
<1>7. Now(t) = "end"
  BY <1>0, <1>1, PlacesAre
<1>8. Now(t)' = Item(Steps(op), 1)
  BY <1>5, <1>6 DEF Now, Place
<1> QED BY <1>1, <1>3, <1>4, <1>5, <1>6, <1>7, <1>8 DEF Called

LEMMA CallingIs ==
    ASSUME Base, NEW t \in Threads, Calling(t)
    PROVE  Called(t)
<1>0. /\ \A r \in th[t].cookies : r \in Nat
      /\ 0 \in Nat /\ "void" \in {"void", "check", "query"}
      /\ \A k \in Kinds : k \in {"void", "check", "query"}
  BY TypesAre, ConstantsAssumption DEF ThreadRecords
<1>1. CASE xcb_send_request(t)
  BY <1>0, <1>1, CallIs DEF xcb_send_request
<1>2. CASE xcb_wait_for_reply(t)
  BY <1>0, <1>2, CallIs DEF xcb_wait_for_reply
<1>3. CASE xcb_request_check(t)
  BY <1>0, <1>3, CallIs DEF xcb_request_check
<1>4. CASE xcb_poll_for_reply(t)
  BY <1>0, <1>4, CallIs DEF xcb_poll_for_reply
<1>5. CASE xcb_discard_reply(t)
  BY <1>0, <1>5, CallIs DEF xcb_discard_reply
<1>6. CASE xcb_wait_for_event(t)
  BY <1>0, <1>6, CallIs DEF xcb_wait_for_event
<1>7. CASE xcb_poll_for_event(t)
  BY <1>0, <1>7, CallIs DEF xcb_poll_for_event
<1>8. CASE xcb_flush(t)
  BY <1>0, <1>8, CallIs DEF xcb_flush
<1>9. CASE xcb_take_socket(t)
  BY <1>0, <1>9, CallIs DEF xcb_take_socket
<1>10. CASE xcb_writev(t)
  BY <1>0, <1>10, CallIs DEF xcb_writev
<1> QED BY <1>1, <1>2, <1>3, <1>4, <1>5, <1>6, <1>7, <1>8, <1>9, <1>10 DEF Calling

\* The server, and what it sends.
LEMMA ServeIs ==
    ASSUME Base, Wire \in Nat \ {0}, Serve
    PROVE  /\ UNCHANGED <<lock, th, in, out, log>> /\ net' \in NetRecords
           /\ net.served < Len(net.socket) /\ net'.served = net.served + 1
           /\ net'.socket = net.socket /\ net'.error = net.error /\ net'.broken = net.broken
           /\ \/ net'.wire = net.wire
              \/ \E p \in Packets :
                    /\ p.serial = (net.served + 1) % Wire /\ p.of = net.socket[net.served + 1]
                    /\ net'.wire = Append(net.wire, p)
<1>0. net \in NetRecords /\ net.served \in Nat /\ net.socket \in Seq(Nat) /\ net.wire \in Seq(Packets)
  BY TypesAre DEF NetRecords
<1> DEFINE n == net.served + 1
<1>1. UNCHANGED <<lock, th, in, out, log>> /\ net.served < Len(net.socket)
  BY DEF Serve
<1>2. PICK type \in {"reply", "none", "error"} :
        net' = [net EXCEPT !.served = n,
                           !.wire = IF type = "none" THEN @
                                    ELSE Append(@, [Packet(type, n) EXCEPT !.of = net.socket[n]])]
  BY DEF Serve
<1>3. n \in Nat /\ n \in 1 .. Len(net.socket) /\ net.socket[n] \in Nat /\ n % Wire \in Nat
  <2>1. n \in Nat /\ n \in 1 .. Len(net.socket)
    BY <1>0, <1>1
  <2> HIDE DEF n
  <2>2. net.socket[n] \in Nat
    BY <1>0, <2>1
  <2>3. n % Wire \in Nat
    BY <2>1, DivisionIs
  <2> QED BY <2>1, <2>2, <2>3
<1>4. CASE type = "none"
  <2>1. net' = [net EXCEPT !.served = n]
    BY <1>0, <1>2, <1>4 DEF NetRecords
  <2> QED BY <1>0, <1>1, <1>3, <2>1 DEF NetRecords
<1>5. CASE type # "none"
  <2> DEFINE p == [Packet(type, n) EXCEPT !.of = net.socket[n]]
  <2>1. p \in Packets /\ p.serial = n % Wire /\ p.of = net.socket[n]
    BY <1>3, <1>5 DEF Packet, Packets
  <2>2. net' = [net EXCEPT !.served = n, !.wire = Append(net.wire, p)]
    BY <1>2, <1>5
  <2> HIDE DEF p
  <2>3. Append(net.wire, p) \in Seq(Packets)
    BY <1>0, <2>1
  <2>4. /\ net' \in NetRecords /\ net'.served = n /\ net'.socket = net.socket
        /\ net'.error = net.error /\ net'.broken = net.broken
        /\ net'.wire = Append(net.wire, p)
    BY <1>0, <1>3, <2>2, <2>3 DEF NetRecords
  <2> QED BY <1>1, <2>1, <2>4
<1> QED BY <1>4, <1>5

\* The server sends an event, or the connection breaks.
LEMMA SendEventIs ==
    ASSUME Base, Wire \in Nat \ {0}, SendEvent
    PROVE  /\ UNCHANGED <<lock, th, in, out, log>> /\ net' \in NetRecords
           /\ net'.served = net.served /\ net'.socket = net.socket
           /\ net'.error = net.error /\ net'.broken = net.broken
           /\ \E p \in Packets :
                 /\ p.serial = net.served % Wire /\ p.of = net.served
                 /\ net'.wire = Append(net.wire, p)
<1>0. net \in NetRecords /\ net.served \in Nat /\ net.wire \in Seq(Packets) /\ net.emitted \in Nat
  BY TypesAre DEF NetRecords
<1> DEFINE p == Packet("event", net.served)
<1>1. /\ UNCHANGED <<lock, th, in, out, log>>
      /\ net' = [net EXCEPT !.emitted = @ + 1, !.wire = Append(@, p)]
  BY DEF SendEvent
<1>2. net.served % Wire \in Nat
  BY <1>0, DivisionIs
<1>3. p \in Packets /\ p.serial = net.served % Wire /\ p.of = net.served
  BY <1>0, <1>2 DEF Packet, Packets
<1> HIDE DEF p
<1>4. Append(net.wire, p) \in Seq(Packets) /\ net.emitted + 1 \in Nat
  BY <1>0, <1>3
<1>5. /\ net' \in NetRecords /\ net'.served = net.served /\ net'.socket = net.socket
      /\ net'.error = net.error /\ net'.broken = net.broken /\ net'.wire = Append(net.wire, p)
  BY <1>0, <1>1, <1>4 DEF NetRecords
<1> QED BY <1>1, <1>3, <1>5

LEMMA BreakIs ==
    ASSUME Base, Break
    PROVE  /\ UNCHANGED <<lock, th, in, out, log>> /\ net' \in NetRecords
           /\ net'.served = net.served /\ net'.socket = net.socket /\ net'.wire = net.wire
           /\ net'.error = net.error /\ net'.broken
<1>0. net \in NetRecords
  BY TypesAre
<1> QED BY <1>0 DEF Break, NetRecords

-----------------------------------------------------------------------------
(* Roles: what a thread is about to do, seen in its stack                  *)

\* The steps of _xcb_conn_wait that come before those that tell who polls.
Tops == {"polled", "read", "packets"}

\* The thread is inside _xcb_conn_wait in order to write, or to read.
Writing(t)   == Now(t) = "write" \/ (Now(t) \in Tops /\ Then(t) = "write")
ReadingOn(t) == Now(t) = "waited" \/ (Now(t) \in Tops /\ Then(t) = "waited")

\* The thread is inside _xcb_out_send.
SendsOut(t) == Now(t) = "outsend" \/ Writing(t)

\* The thread has to tell the next reader when it is done.
Attending(t) == Now(t) \in {"replyloop", "remove", "wakenext", "eventloop"} \/ ReadingOn(t)

\* The thread waits for a reply, and has an entry in the list of readers or had one.
InLoop(t) ==
    \/ Now(t) = "replyloop"
    \/ Now(t) = "waited" /\ Then(t) = "replyloop"
    \/ Now(t) \in Tops /\ Then(t) = "waited" /\ Place(t, 3) = "replyloop"

\* The thread is inside the loop, or about to leave the list.
InReaders(t) == InLoop(t) \/ Now(t) = "remove"

\* The request of xcb_send_request has its number.
Numbered(t) ==
    \/ Now(t) = "cookie"
    \/ Now(t) = "outsend" /\ Then(t) = "cookie"
    \/ Now(t) = "write" /\ Place(t, 3) = "cookie"
    \/ Now(t) \in Tops /\ Then(t) = "write" /\ Place(t, 4) = "cookie"

\* The thread is inside xcb_take_socket.
Take == {"take", "takeflush"}

\* The thread is inside xcb_take_socket.
InTake(t) ==
    \/ Now(t) \in Take
    \/ Now(t) \in {"getback", "gotback", "flush", "flushing", "outsend"} /\ Then(t) \in Take
    \/ Now(t) = "write" /\ Place(t, 3) \in Take
    \/ Now(t) \in Tops /\ Then(t) = "write" /\ Place(t, 4) \in Take

\* A thread that another one's step concerns as little as possible.
SameThread(v) ==
    /\ Now(v)' = Now(v) /\ Then(v)' = Then(v)
    /\ th'[v].op = th[v].op /\ th'[v].kind = th[v].kind /\ th'[v].request = th[v].request
    /\ th'[v].vec = th[v].vec /\ th'[v].cookies = th[v].cookies
    /\ th'[v].ok = th[v].ok /\ th'[v].revents = th[v].revents
    /\ th'[v].wait = th[v].wait \/ (th[v].wait \in Sleeps /\ th'[v].wait = "run")
    /\ (Writing(v)' <=> Writing(v)) /\ (ReadingOn(v)' <=> ReadingOn(v)) /\ (SendsOut(v)' <=> SendsOut(v))
    /\ (Attending(v)' <=> Attending(v)) /\ (InLoop(v)' <=> InLoop(v)) /\ (InReaders(v)' <=> InReaders(v))
    /\ (Numbered(v)' <=> Numbered(v)) /\ (InTake(v)' <=> InTake(v))

\* Who keeps its stack keeps its roles.
LEMMA SameStack ==
    ASSUME NEW v \in Threads, th'[v].stack = th[v].stack
    PROVE  /\ Now(v)' = Now(v) /\ Then(v)' = Then(v)
           /\ (Writing(v)' <=> Writing(v)) /\ (ReadingOn(v)' <=> ReadingOn(v)) /\ (SendsOut(v)' <=> SendsOut(v))
           /\ (Attending(v)' <=> Attending(v)) /\ (InLoop(v)' <=> InLoop(v)) /\ (InReaders(v)' <=> InReaders(v))
           /\ (Numbered(v)' <=> Numbered(v)) /\ (InTake(v)' <=> InTake(v))
<1>1. Now(v)' = Now(v) /\ Then(v)' = Then(v) /\ Place(v, 3)' = Place(v, 3) /\ Place(v, 4)' = Place(v, 4)
  BY DEF Now, Then, Place
<1>2. (Writing(v)' <=> Writing(v)) /\ (ReadingOn(v)' <=> ReadingOn(v))
  BY <1>1 DEF Writing, ReadingOn
<1>3. (SendsOut(v)' <=> SendsOut(v)) /\ (Attending(v)' <=> Attending(v))
  BY <1>1, <1>2 DEF SendsOut, Attending
<1>4. (InLoop(v)' <=> InLoop(v))
  BY <1>1 DEF InLoop
<1>5. (InReaders(v)' <=> InReaders(v))
  BY <1>1, <1>4 DEF InReaders
<1>6. (Numbered(v)' <=> Numbered(v))
  BY <1>1 DEF Numbered
<1>7. (InTake(v)' <=> InTake(v))
  BY <1>1 DEF InTake
<1> QED BY <1>1, <1>2, <1>3, <1>4, <1>5, <1>6, <1>7

\* A step of t changes nothing of the other threads but their sleep.
LEMMA OthersAre ==
    ASSUME Base, NEW t \in Threads, Moved(t) \/ Resumed(t) \/ Called(t),
           NEW v \in Threads \ {t}
    PROVE  SameThread(v)
<1>1. Woken(th[v], th'[v]) /\ th[v] \in ThreadRecords
  BY TypesAre DEF Moved, Resumed, Called, Woken
<1>2. /\ th'[v].stack = th[v].stack
      /\ th'[v].op = th[v].op /\ th'[v].kind = th[v].kind /\ th'[v].request = th[v].request
      /\ th'[v].vec = th[v].vec /\ th'[v].cookies = th[v].cookies
      /\ th'[v].ok = th[v].ok /\ th'[v].revents = th[v].revents
      /\ th'[v].wait = th[v].wait \/ (th[v].wait \in Sleeps /\ th'[v].wait = "run")
  BY <1>1 DEF Woken, ThreadRecords
<1> QED BY <1>2, SameStack DEF SameThread

\* Others are at steps that they can be at without the lock.
LEMMA OthersUnlocked ==
    ASSUME Base, NEW t \in Threads, Moved(t) \/ Resumed(t) \/ Called(t),
           NEW v \in Threads \ {t}
    PROVE  Now(v) \in Unlocked \cup {"end"}
<1>1. lock # v
  <2>1. lock \in {NoThread, t}
    BY DEF Moved, Resumed, Called
  <2> QED BY <2>1, ConstantsAssumption
<1>2. Control(v)
  BY DEF Base
<1>3. CASE th[v].wait = "run"
  BY <1>1, <1>2, <1>3 DEF Control
<1>4. CASE th[v].wait # "run"
  BY <1>2, <1>4 DEF Control, WaitsAt, Unlocked
<1> QED BY <1>3, <1>4

\* The types and the control are kept by every step.
LEMMA BaseMoved ==
    ASSUME Base, NEW t \in Threads, Moved(t),
           in' \in InRecords, out' \in OutRecords, net' \in NetRecords, log' \in Seq(LogRecords)
    PROVE  Base'
<1>0. t # NoThread /\ NoThread \notin Threads
  BY ConstantsAssumption
<1>1. Types'
  BY DEF Types, Moved
<1>2. Control(t)'
  <2>1. th'[t].wait # "run" => <<th'[t].wait, Now(t)'>> \in WaitsAt
    BY DEF Moved
  <2>2. lock' = IF Now(t)' = "end" \/ th'[t].wait # "run" THEN NoThread ELSE t
    BY DEF Moved
  <2>3. Now(t)' = "end" => th'[t].wait = "run" /\ th'[t].vec = <<>>
    BY DEF Moved
  <2>4. Valid(th'[t].stack)
    BY DEF Moved
  <2> QED BY <1>0, <2>1, <2>2, <2>3, <2>4 DEF Control
<1>3. ASSUME NEW v \in Threads \ {t}
      PROVE  Control(v)'
  <2>1. SameThread(v) /\ Now(v) \in Unlocked \cup {"end"}
    BY OthersAre, OthersUnlocked
  <2>2. lock' # v
    BY <1>0 DEF Moved
  <2>3. Control(v)
    BY DEF Base
  <2>7. Woken(th[v], th'[v]) /\ th[v] \in ThreadRecords
    BY TypesAre DEF Moved
  <2>4. th'[v].stack = th[v].stack
    BY <2>7 DEF Woken, ThreadRecords
  <2>5. "run" \notin Sleeps
    BY DEF Sleeps
  <2>6. th'[v].wait # "run" => th'[v].wait = th[v].wait
    BY <2>1 DEF SameThread
  <2> QED BY <2>1, <2>2, <2>3, <2>4, <2>5, <2>6 DEF Control, SameThread
<1> QED BY <1>1, <1>2, <1>3 DEF Base

LEMMA BaseResumed ==
    ASSUME Base, NEW t \in Threads, Resumed(t), Now(t) \in {"polled", "gotback"},
           in' \in InRecords, out' \in OutRecords, net' \in NetRecords, log' \in Seq(LogRecords)
    PROVE  Base'
<1>0. t # NoThread /\ NoThread \notin Threads
  BY ConstantsAssumption
<1>1. Types'
  <2>1. lock' \in Threads \cup {NoThread} /\ th' \in [Threads -> ThreadRecords]
    BY TypesAre DEF Resumed, Types
  <2> QED BY <2>1 DEF Types
<1>2. Control(t)'
  <2>1. Now(t)' = Now(t) /\ Control(t) /\ lock' = NoThread
    BY SameStack DEF Resumed, Base
  <2> QED BY <1>0, <2>1 DEF Control, Resumed, Unlocked
<1>3. ASSUME NEW v \in Threads \ {t}
      PROVE  Control(v)'
  <2>1. Control(v) /\ th'[v] = th[v] /\ lock' = lock
    BY DEF Base, Resumed
  <2>2. Now(v)' = Now(v)
    BY <2>1 DEF Now, Place
  <2> QED BY <2>1, <2>2 DEF Control
<1> QED BY <1>1, <1>2, <1>3 DEF Base

LEMMA BaseCalled ==
    ASSUME Base, NEW t \in Threads, Called(t)
    PROVE  Base'
<1>0. t # NoThread /\ NoThread \notin Threads
  BY ConstantsAssumption
<1>1. Types'
  BY TypesAre DEF Called, Types
<1>2. Control(t)'
  <2>1. Control(t)
    BY DEF Base
  <2>2. th[t].wait = "run"
    BY <2>1 DEF Control, Called
  <2>3. Now(t)' # "end" /\ Now(t)' \in Unlocked /\ lock' # t
    BY <1>0 DEF Called, Starts, Unlocked
  <2> QED BY <2>2, <2>3 DEF Control, Called
<1>3. ASSUME NEW v \in Threads \ {t}
      PROVE  Control(v)'
  <2>1. Control(v) /\ th'[v] = th[v] /\ lock' = lock
    BY DEF Base, Called
  <2>2. Now(v)' = Now(v)
    BY <2>1 DEF Now, Place
  <2> QED BY <2>1, <2>2 DEF Control
<1> QED BY <1>1, <1>2, <1>3 DEF Base

LEMMA BaseServer ==
    ASSUME Base, UNCHANGED <<lock, th, in, out, log>>, net' \in NetRecords
    PROVE  Base'
<1>1. Types'
  BY TypesAre DEF Types
<1>2. ASSUME NEW v \in Threads
      PROVE  Control(v)'
  <2>1. Control(v)
    BY DEF Base
  <2>2. Now(v)' = Now(v)
    BY DEF Now, Place
  <2> QED BY <2>1, <2>2 DEF Control
<1> QED BY <1>1, <1>2 DEF Base

\* The thread neither writes nor reads.
Bare(t) == ~SendsOut(t) /\ ~ReadingOn(t)

\* When a request may be numbered.
Settled(t) ==
    /\ Now(t)' = "cookie" => net.error
    /\ Now(t)' \in {"send", "sync"} =>
         \/ net.error
         \/ out.writing = 0 /\ (out.returnSocket = NoThread \/ Now(t) = "writable")
         \/ Now(t) = "send"
    /\ Now(t)' = "writable" => Now(t) = "getback" /\ out.returnSocket = NoThread

\* The thread goes on with xcb_take_socket at most.
TakesOn(t) ==
    InTake(t)' => /\ InTake(t)
                  /\ Now(t) \in {"getback", "gotback"} =>
                       out.returnSocket = NoThread \/ Now(t)' = "getback"

\* The thread goes on with wait_for_reply at most.
LoopsOn(t) ==
    /\ InLoop(t)' => InLoop(t)
    /\ InReaders(t)' <=> InReaders(t)
    /\ th'[t].wait = "reader" => Now(t) = "replyloop" /\ ~Answered(th[t].request)
    /\ th'[t].wait = "event" => Now(t) = "eventloop"

\* The thread does not leave the sleeping ones alone.
Attends(t) ==
    Attending(t) => \/ Attending(t)' /\ th'[t].wait \in {"run", "poll"}
                    \/ WakesReader(th')
                    \/ in.reading > 0

\* A step that concerns the thread itself.
Simple(t) ==
    /\ Moved(t) /\ UNCHANGED <<out, net, log>> /\ InKept
    /\ in'.readers = in.readers /\ in'.reading = in.reading
    /\ th'[t].vec \in {<<>>, th[t].vec} /\ th'[t].cookies \subseteq th[t].cookies
    /\ Bare(t) /\ Bare(t)' /\ Now(t) \notin {"gotback", "end"}
    /\ Now(t)' \notin {"gotback", "writev", "packets", "write", "polled"}
    /\ Settled(t) /\ TakesOn(t) /\ LoopsOn(t) /\ Attends(t)

\* Steps at which the roles of a thread are nothing but the step's own.
Lone == {"prepare", "writable", "getback", "send", "sync", "cookie", "flush", "flushing",
         "flushall", "takeflush", "take", "reply", "insert", "replyloop", "remove", "wakenext",
         "eventloop", "check", "checkflush", "pollreply", "pollagain", "pollevent", "eventagain",
         "discard", "writev", "gotback", "end"}

\* The roles of a thread that is not inside _xcb_conn_wait.
RolesAt(t) ==
    /\ Bare(t)
    /\ Attending(t) <=> Now(t) \in {"replyloop", "remove", "wakenext", "eventloop"}
    /\ InLoop(t) <=> Now(t) = "replyloop"
    /\ InReaders(t) <=> Now(t) \in {"replyloop", "remove"}
    /\ Numbered(t) <=> Now(t) = "cookie"
    /\ InTake(t) <=> \/ Now(t) \in Take
                     \/ Now(t) \in {"getback", "gotback", "flush", "flushing"} /\ Then(t) \in Take

\* The thread is not inside _xcb_conn_wait or _xcb_out_send.
Apart(t) ==
    \/ Now(t) \in Lone
    \/ Now(t) \in {"read", "packets"} /\ Then(t) \in {"pollagain", "eventagain"}

\* Its roles, now and after the step.
LEMMA RolesAre == \A t \in Threads : Apart(t) => RolesAt(t)
BY DEF Apart, Lone, RolesAt, Bare, SendsOut, Writing, ReadingOn, Tops, Attending, InLoop, InReaders,
       Numbered, InTake, Take

LEMMA RolesAreNext == \A t \in Threads : Apart(t)' => RolesAt(t)'
<1>1. (\A t \in Threads : Apart(t) => RolesAt(t))'
  BY RolesAre, PTL
<1> QED BY <1>1

-----------------------------------------------------------------------------
(* Steps that change little, and the others                                *)

\* The steps that are simple: those of _xcb_out_flush_to and of the waiting calls,
LEMMA SimpleIs ==
    ASSUME Base, NEW t \in Threads, Moved(t), UNCHANGED <<out, net, log>>, InKept,
           in'.readers = in.readers, in'.reading = in.reading,
           th'[t].vec \in {<<>>, th[t].vec}, th'[t].cookies \subseteq th[t].cookies,
           Apart(t), Apart(t)', Now(t) \notin {"gotback", "end"}, Now(t)' \notin {"gotback", "writev", "packets"},
           RolesAt(t) /\ RolesAt(t)' => Settled(t) /\ TakesOn(t) /\ LoopsOn(t) /\ Attends(t)
    PROVE  Simple(t)
<1>1. RolesAt(t) /\ RolesAt(t)'
  BY RolesAre, RolesAreNext
<1>2. Bare(t) /\ Bare(t)'
  BY <1>1 DEF RolesAt
<1>3. Now(t)' \notin {"write", "polled"}
  BY DEF Apart, Lone
<1> QED BY <1>1, <1>2, <1>3 DEF Simple

\* A step that has nothing to do with the readers and the socket's owner.
LEMMA SimpleAside ==
    ASSUME Base, NEW t \in Threads, Plain(t), UNCHANGED <<in, out, net, log>>,
           Apart(t), Apart(t)', Now(t) \notin {"gotback", "end"},
           Now(t) \notin {"replyloop", "remove", "wakenext", "eventloop"},
           Now(t)' \notin {"gotback", "writev", "packets", "replyloop", "remove", "eventloop", "send", "sync", "cookie", "writable"},
           RolesAt(t) /\ RolesAt(t)' => TakesOn(t)
    PROVE  Simple(t)
<1>0. in \in InRecords
  BY TypesAre
<1>1. /\ Moved(t) /\ InKept /\ in'.readers = in.readers /\ in'.reading = in.reading
      /\ th'[t].vec \in {<<>>, th[t].vec} /\ th'[t].cookies \subseteq th[t].cookies
  BY <1>0 DEF Plain, InKept
<1>2. Settled(t)
  BY DEF Settled
<1>3. ASSUME RolesAt(t), RolesAt(t)'
      PROVE  LoopsOn(t) /\ Attends(t)
  <2>1. ~InLoop(t)' /\ ~InReaders(t)' /\ ~InReaders(t) /\ ~Attending(t)
    BY <1>3 DEF RolesAt
  <2>2. th'[t].wait \notin {"reader", "event"}
    BY <1>1 DEF Moved, WaitsAt
  <2> QED BY <2>1, <2>2 DEF LoopsOn, Attends
<1> QED BY <1>1, <1>2, <1>3, SimpleIs

LEMMA WaitFlushedSimple ==
    ASSUME Base, NEW t \in Threads, WaitFlushed(t)
    PROVE  Simple(t)
<1>1. /\ Plain(t) /\ Now(t) = "flushing" /\ UNCHANGED <<in, out, net, log>>
      /\ Popped(t) \/ Pushed(t, "flushing")
  BY WaitFlushedIs
<1>2. Then(t) \in After("flushing")
  BY <1>1, PlacesAre, TypesAre
<1>3. \/ Now(t)' = Then(t) /\ Then(t) \in {"insert", "reply", "take", "end"}
      \/ Now(t)' = "flushing" /\ Then(t)' = Then(t)
  BY <1>1, <1>2 DEF Popped, Pushed, Pushed2, After
<1>4. RolesAt(t) /\ RolesAt(t)' => TakesOn(t)
  BY <1>1, <1>3 DEF RolesAt, Take, TakesOn
<1> QED BY <1>1, <1>3, <1>4, SimpleAside DEF Lone, Apart

LEMMA FlushAllSimple ==
    ASSUME Base, NEW t \in Threads, FlushAll(t)
    PROVE  Simple(t)
<1>1. /\ Plain(t) /\ Now(t) = "flushall" /\ UNCHANGED <<in, out, net, log>>
      /\ Pushed(t, "flush")
  BY FlushAllIs
<1>2. Then(t) \in After("flushall")
  BY <1>1, PlacesAre, TypesAre
<1>3. Now(t)' = "flush" /\ Then(t)' = "end"
  BY <1>1, <1>2 DEF Popped, Pushed, Pushed2, After
<1>4. RolesAt(t) /\ RolesAt(t)' => TakesOn(t)
  BY <1>1, <1>3 DEF RolesAt, Take, TakesOn
<1> QED BY <1>1, <1>3, <1>4, SimpleAside DEF Lone, Apart

LEMMA TakeFlushSimple ==
    ASSUME Base, NEW t \in Threads, TakeFlush(t)
    PROVE  Simple(t)
<1>1. /\ Plain(t) /\ Now(t) = "takeflush" /\ UNCHANGED <<in, out, net, log>>
      /\ Pushed2(t, "flush", "take")
  BY TakeFlushIs
<1>2. Then(t) \in After("takeflush")
  BY <1>1, PlacesAre, TypesAre
<1>3. Now(t)' = "flush"
  BY <1>1, <1>2 DEF Popped, Pushed, Pushed2, After
<1>4. RolesAt(t) /\ RolesAt(t)' => TakesOn(t)
  BY <1>1, <1>3 DEF RolesAt, Take, TakesOn
<1> QED BY <1>1, <1>3, <1>4, SimpleAside DEF Lone, Apart

LEMMA WaitForReplySimple ==
    ASSUME Base, NEW t \in Threads, WaitForReply(t)
    PROVE  Simple(t)
<1>1. /\ Plain(t) /\ Now(t) = "reply" /\ UNCHANGED <<in, out, net, log>>
      /\ Pushed(t, "insert") \/ Pushed2(t, "flush", "insert")
  BY WaitForReplyIs
<1>2. Then(t) \in After("reply")
  BY <1>1, PlacesAre, TypesAre
<1>3. \/ Now(t)' = "insert"
      \/ Now(t)' = "flush" /\ Then(t)' = "insert"
  BY <1>1, <1>2 DEF Popped, Pushed, Pushed2, After
<1>4. RolesAt(t) /\ RolesAt(t)' => TakesOn(t)
  BY <1>1, <1>3 DEF RolesAt, Take, TakesOn
<1> QED BY <1>1, <1>3, <1>4, SimpleAside DEF Lone, Apart

LEMMA RequestCheckSimple ==
    ASSUME Base, NEW t \in Threads, RequestCheck(t)
    PROVE  Simple(t)
<1>1. /\ Plain(t) /\ Now(t) = "check" /\ UNCHANGED <<in, out, net, log>>
      /\ Now(t)' \in {"reply", "prepare", "checkflush"}
  BY RequestCheckIs
<1>2. Then(t) \in After("check")
  BY <1>1, PlacesAre, TypesAre
<1>3. Now(t)' \in {"reply", "prepare", "checkflush"}
  BY <1>1, <1>2 DEF Popped, Pushed, Pushed2, After
<1>4. RolesAt(t) /\ RolesAt(t)' => TakesOn(t)
  BY <1>1, <1>3 DEF RolesAt, Take, TakesOn
<1> QED BY <1>1, <1>3, <1>4, SimpleAside DEF Lone, Apart

LEMMA CheckFlushSimple ==
    ASSUME Base, NEW t \in Threads, CheckFlush(t)
    PROVE  Simple(t)
<1>1. /\ Plain(t) /\ Now(t) = "checkflush" /\ UNCHANGED <<in, out, net, log>>
      /\ Popped(t) \/ Pushed(t, "flush")
  BY CheckFlushIs
<1>2. Then(t) \in After("checkflush")
  BY <1>1, PlacesAre, TypesAre
<1>3. \/ Now(t)' = "reply"
      \/ Now(t)' = "flush" /\ Then(t)' = "reply"
  BY <1>1, <1>2 DEF Popped, Pushed, Pushed2, After
<1>4. RolesAt(t) /\ RolesAt(t)' => TakesOn(t)
  BY <1>1, <1>3 DEF RolesAt, Take, TakesOn
<1> QED BY <1>1, <1>3, <1>4, SimpleAside DEF Lone, Apart

\* those of prepare_socket_request,
LEMMA PrepareSimple ==
    ASSUME Base, NEW t \in Threads, PrepareSocketRequest(t)
    PROVE  Simple(t)
<1>0. in \in InRecords /\ Then(t) \in After("prepare")
  BY PrepareIs, TypesAre, PlacesAre
<1>1. /\ Plain(t) /\ Now(t) = "prepare" /\ UNCHANGED <<in, out, net, log>>
      /\ \/ net.error /\ Popped(t)
         \/ out.returnSocket # NoThread /\ Pushed2(t, "getback", "writable")
         \/ out.returnSocket = NoThread /\ out.writing = 0 /\ Popped(t)
         \/ out.returnSocket = NoThread /\ out.writing # 0 /\ Pushed(t, "prepare")
  BY PrepareIs
<1>2. Moved(t) /\ InKept /\ in'.readers = in.readers /\ in'.reading = in.reading
      /\ th'[t].vec \in {<<>>, th[t].vec} /\ th'[t].cookies \subseteq th[t].cookies
  BY <1>0, <1>1 DEF Plain, InKept
<1>3. Now(t)' \in {"send", "sync", "getback", "prepare"} /\ (Now(t)' = "getback" => Then(t)' = "writable")
  BY <1>0, <1>1 DEF Popped, Pushed, Pushed2, After
<1>4. Settled(t)
  BY <1>0, <1>1 DEF Popped, Pushed, Pushed2, After, Settled
<1>5. ASSUME RolesAt(t), RolesAt(t)'
      PROVE  TakesOn(t) /\ LoopsOn(t) /\ Attends(t)
  <2>1. ~InTake(t)' /\ ~InLoop(t)' /\ ~InReaders(t)' /\ ~InReaders(t) /\ ~Attending(t)
    BY <1>1, <1>3, <1>5 DEF RolesAt, Take
  <2>2. th'[t].wait \notin {"reader", "event"}
    BY <1>2, <1>3 DEF Moved, WaitsAt
  <2> QED BY <2>1, <2>2 DEF TakesOn, LoopsOn, Attends
<1> QED BY <1>1, <1>2, <1>3, <1>4, <1>5, SimpleIs DEF Lone, Apart

LEMMA PrepareWritableSimple ==
    ASSUME Base, NEW t \in Threads, PrepareWritable(t)
    PROVE  Simple(t)
<1>0. in \in InRecords /\ Then(t) \in After("writable")
  BY PrepareWritableIs, TypesAre, PlacesAre
<1>1. /\ Plain(t) /\ Now(t) = "writable" /\ UNCHANGED <<in, out, net, log>>
      /\ \/ out.writing = 0 /\ Popped(t)
         \/ out.writing # 0 /\ Pushed(t, "prepare")
  BY PrepareWritableIs
<1>2. Moved(t) /\ InKept /\ in'.readers = in.readers /\ in'.reading = in.reading
      /\ th'[t].vec \in {<<>>, th[t].vec} /\ th'[t].cookies \subseteq th[t].cookies
  BY <1>0, <1>1 DEF Plain, InKept
<1>3. Now(t)' \in {"send", "sync", "prepare"}
  BY <1>0, <1>1 DEF Popped, Pushed, After
<1>4. Settled(t)
  BY <1>0, <1>1 DEF Popped, Pushed, After, Settled
<1>5. ASSUME RolesAt(t), RolesAt(t)'
      PROVE  TakesOn(t) /\ LoopsOn(t) /\ Attends(t)
  <2>1. ~InTake(t)' /\ ~InLoop(t)' /\ ~InReaders(t)' /\ ~InReaders(t) /\ ~Attending(t)
    BY <1>1, <1>3, <1>5 DEF RolesAt, Take
  <2>2. th'[t].wait \notin {"reader", "event"}
    BY <1>2, <1>3 DEF Moved, WaitsAt
  <2> QED BY <2>1, <2>2 DEF TakesOn, LoopsOn, Attends
<1> QED BY <1>1, <1>2, <1>3, <1>4, <1>5, SimpleIs DEF Lone, Apart

\* The thread begins to call return_socket.
Moves(t) ==
    /\ Plain(t) /\ Now(t) = "getback" /\ Pushed(t, "gotback") /\ th'[t].wait = "callback"
    /\ out.returnSocket # NoThread /\ ~out.moving
    /\ out' = [out EXCEPT !.moving = TRUE] /\ UNCHANGED <<in, net, log>>

LEMMA GetSocketBackSimple ==
    ASSUME Base, NEW t \in Threads, get_socket_back(t)
    PROVE  Simple(t) \/ Moves(t)
<1>0. in \in InRecords /\ Then(t) \in After("getback")
  BY GetSocketBackIs, TypesAre, PlacesAre
<1>1. /\ Plain(t) /\ Now(t) = "getback" /\ UNCHANGED <<in, net, log>>
      /\ \/ out.returnSocket = NoThread /\ Popped(t) /\ UNCHANGED out
         \/ out.returnSocket # NoThread /\ out.moving /\ Pushed(t, "getback") /\ UNCHANGED out
         \/ /\ out.returnSocket # NoThread /\ ~out.moving /\ Pushed(t, "gotback")
            /\ th'[t].wait = "callback" /\ out' = [out EXCEPT !.moving = TRUE]
  BY GetSocketBackIs
<1>2. Moved(t) /\ InKept /\ in'.readers = in.readers /\ in'.reading = in.reading
      /\ th'[t].vec \in {<<>>, th[t].vec} /\ th'[t].cookies \subseteq th[t].cookies
  BY <1>0, <1>1 DEF Plain, InKept
<1>3. CASE out.returnSocket = NoThread /\ Popped(t) /\ UNCHANGED out
  <2>1. Now(t)' = Then(t) /\ Now(t)' \in {"writable", "takeflush"}
    BY <1>0, <1>3 DEF Popped, After
  <2>2. Settled(t)
    BY <1>1, <1>3, <2>1 DEF Settled
  <2>3. ASSUME RolesAt(t), RolesAt(t)'
        PROVE  TakesOn(t) /\ LoopsOn(t) /\ Attends(t)
    <3>1. ~InLoop(t)' /\ ~InReaders(t)' /\ ~InReaders(t) /\ ~Attending(t) /\ (InTake(t)' => InTake(t))
      BY <1>1, <2>1, <2>3 DEF RolesAt, Take
    <3>2. th'[t].wait \notin {"reader", "event"}
      BY <1>2, <2>1 DEF Moved, WaitsAt
    <3> QED BY <1>3, <3>1, <3>2 DEF TakesOn, LoopsOn, Attends
  <2> QED BY <1>1, <1>2, <1>3, <2>1, <2>2, <2>3, SimpleIs DEF Lone, Apart
<1>4. CASE out.returnSocket # NoThread /\ out.moving /\ Pushed(t, "getback") /\ UNCHANGED out
  <2>1. Now(t)' = "getback" /\ Then(t)' = Then(t)
    BY <1>4 DEF Pushed
  <2>3. RolesAt(t) /\ RolesAt(t)' => TakesOn(t)
    BY <1>1, <2>1 DEF RolesAt, TakesOn
  <2> QED BY <1>1, <1>4, <2>1, <2>3, SimpleAside DEF Lone, Apart
<1> QED BY <1>1, <1>3, <1>4 DEF Moves

LEMMA SyncBeforeWrapSimple ==
    ASSUME Base, NEW t \in Threads, SyncBeforeWrap(t)
    PROVE  Simple(t)
<1>0. in \in InRecords
  BY TypesAre
<1>1. /\ Plain(t) /\ Now(t) = "send" /\ Pushed3(t, "sync", "prepare", "send")
      /\ UNCHANGED <<in, out, net, log>>
  BY SyncBeforeWrapIs
<1>2. Moved(t) /\ InKept /\ in'.readers = in.readers /\ in'.reading = in.reading
      /\ th'[t].vec \in {<<>>, th[t].vec} /\ th'[t].cookies \subseteq th[t].cookies
  BY <1>0, <1>1 DEF Plain, InKept
<1>3. Now(t)' = "sync"
  BY <1>1 DEF Pushed3
<1>4. Settled(t)
  BY <1>1, <1>3 DEF Settled
<1>5. ASSUME RolesAt(t), RolesAt(t)'
      PROVE  TakesOn(t) /\ LoopsOn(t) /\ Attends(t)
  <2>1. ~InTake(t)' /\ ~InLoop(t)' /\ ~InReaders(t)' /\ ~InReaders(t) /\ ~Attending(t)
    BY <1>1, <1>3, <1>5 DEF RolesAt, Take
  <2>2. th'[t].wait \notin {"reader", "event"}
    BY <1>2, <1>3 DEF Moved, WaitsAt
  <2> QED BY <2>1, <2>2 DEF TakesOn, LoopsOn, Attends
<1> QED BY <1>1, <1>2, <1>3, <1>4, <1>5, SimpleIs DEF Lone, Apart

\* A request is queued, or the queue is to be written.
Queues(t) ==
    /\ Now(t) \in {"send", "sync"} /\ Numbering(t, KindNow(t)) /\ Popped(t) /\ Plain(t)
    /\ UNCHANGED net
    /\ out' = [out EXCEPT !.request = out.request + 1,
                          !.queue = Append(out.queue, out.request + 1)]

\* The request is numbered, and the whole queue is to be written.
SendsNow(t) ==
    /\ Now(t) \in {"send", "sync"} /\ Numbering(t, KindNow(t)) /\ Pushed(t, "outsend")
    /\ Moved(t) /\ th'[t].wait = "run" /\ th'[t].cookies = th[t].cookies /\ UNCHANGED net
    /\ out' = [out EXCEPT !.request = out.request + 1, !.queue = <<>>]
    /\ th'[t].vec = Append(out.queue, out.request + 1)

\* send_request is simple when it fails.
LEMMA SendSimple ==
    ASSUME Base, NEW t \in Threads, send_request(t)
    PROVE  Simple(t) \/ Queues(t) \/ SendsNow(t)
<1>0. in \in InRecords /\ Then(t) \in After(Now(t))
  BY TypesAre, PlacesAre
<1>1. /\ Moved(t) /\ Now(t) \in {"send", "sync"} /\ UNCHANGED net
      /\ th'[t].cookies = th[t].cookies
      /\ \/ net.error /\ Popped(t) /\ UNCHANGED <<in, out, log>> /\ Plain(t)
         \/ Queues(t) \/ SendsNow(t)
  BY SendIs DEF Queues, SendsNow
<1>2. CASE net.error /\ Popped(t) /\ UNCHANGED <<in, out, log>> /\ Plain(t)
  <2>1. Moved(t) /\ InKept /\ in'.readers = in.readers /\ in'.reading = in.reading
        /\ th'[t].vec \in {<<>>, th[t].vec} /\ th'[t].cookies \subseteq th[t].cookies
    BY <1>0, <1>2 DEF Plain, InKept
  <2>2. Now(t)' \in {"cookie", "prepare", "checkflush"}
    BY <1>0, <1>1, <1>2 DEF Popped, After
  <2>3. Settled(t)
    BY <1>2, <2>2 DEF Settled
  <2>4. ASSUME RolesAt(t), RolesAt(t)'
        PROVE  TakesOn(t) /\ LoopsOn(t) /\ Attends(t)
    <3>1. ~InTake(t)' /\ ~InLoop(t)' /\ ~InReaders(t)' /\ ~InReaders(t) /\ ~Attending(t)
      BY <1>1, <2>2, <2>4 DEF RolesAt, Take
    <3>2. th'[t].wait \notin {"reader", "event"}
      BY <2>1, <2>2 DEF Moved, WaitsAt
    <3> QED BY <3>1, <3>2 DEF TakesOn, LoopsOn, Attends
  <2> QED BY <1>1, <1>2, <2>1, <2>2, <2>3, <2>4, SimpleIs DEF Lone, Apart
<1> QED BY <1>1, <1>2

\* The queue is to be written.
Flushes(t) ==
    /\ Moved(t) /\ Now(t) = "flush" /\ Pushed(t, "outsend") /\ th'[t].wait = "run"
    /\ UNCHANGED <<in, net, log>> /\ th'[t].cookies = th[t].cookies
    /\ out.queue # <<>> /\ out' = [out EXCEPT !.queue = <<>>] /\ out' \in OutRecords
    /\ th'[t].vec = out.queue

\* _xcb_out_flush_to is simple when there is nothing to write.
LEMMA FlushToSimple ==
    ASSUME Base, NEW t \in Threads, FlushTo(t)
    PROVE  Simple(t) \/ Flushes(t)
<1>1. /\ Moved(t) /\ Now(t) = "flush" /\ UNCHANGED <<in, net, log>>
      /\ th'[t].cookies = th[t].cookies
      /\ \/ (Popped(t) \/ Pushed(t, "flushing")) /\ Plain(t) /\ UNCHANGED out
         \/ Flushes(t)
  BY FlushToIs DEF Flushes
<1>2. Then(t) \in After("flush")
  BY <1>1, PlacesAre, TypesAre
<1>3. CASE (Popped(t) \/ Pushed(t, "flushing")) /\ Plain(t) /\ UNCHANGED out
  <2>1. \/ Now(t)' = Then(t) /\ Then(t) \in {"insert", "reply", "take", "end"}
        \/ Now(t)' = "flushing" /\ Then(t)' = Then(t)
    BY <1>2, <1>3 DEF Popped, Pushed, After
  <2>2. RolesAt(t) /\ RolesAt(t)' => TakesOn(t)
    BY <1>1, <2>1 DEF RolesAt, Take, TakesOn
  <2> QED BY <1>1, <1>3, <2>1, <2>2, SimpleAside DEF Lone, Apart
<1> QED BY <1>1, <1>3

\* The thread becomes the owner of the socket.
Owns(t) ==
    /\ Plain(t) /\ Now(t) = "take" /\ Popped(t) /\ UNCHANGED <<net, log>>
    /\ out.request = out.written
    /\ out' = [out EXCEPT !.returnSocket = t, !.owns = @ \cup {t}]
    /\ in' = [in EXCEPT !.pending = Append(@, Expect(out.request + 1, FALSE, TRUE, TRUE))]
    /\ in' \in InRecords /\ out' \in OutRecords

\* xcb_take_socket is simple as long as the socket is not taken.
LEMMA TakeSocketSimple ==
    ASSUME Base, NEW t \in Threads, TakeSocket(t)
    PROVE  Simple(t) \/ Owns(t)
<1>1. /\ Plain(t) /\ Now(t) = "take" /\ UNCHANGED <<net, log>>
      /\ \/ (Popped(t) \/ Pushed(t, "takeflush")) /\ UNCHANGED <<in, out>>
         \/ Owns(t)
  BY TakeSocketIs DEF Owns
<1>2. Then(t) \in After("take")
  BY <1>1, PlacesAre, TypesAre
<1>3. CASE (Popped(t) \/ Pushed(t, "takeflush")) /\ UNCHANGED <<in, out>>
  <2>1. Now(t)' \in {"takeflush", "end"}
    BY <1>2, <1>3 DEF Popped, Pushed, After
  <2>2. RolesAt(t) /\ RolesAt(t)' => TakesOn(t)
    BY <1>1, <2>1 DEF RolesAt, Take, TakesOn
  <2> QED BY <1>1, <1>3, <2>1, <2>2, SimpleAside DEF Lone, Apart
<1> QED BY <1>1, <1>3

\* The thread gets an entry in the list of readers.
Inserts(t) ==
    /\ Plain(t) /\ Now(t) = "insert" /\ UNCHANGED <<out, net, log>> /\ InKept
    /\ in'.reading = in.reading /\ Pushed3(t, "replyloop", "remove", "wakenext")
    /\ th'[t].wait = "run"
    /\ in'.readers = InsertAt(in.readers, ReadersUpTo(th[t].request) + 1,
                              [thread |-> t, request |-> th[t].request])
    /\ [thread |-> t, request |-> th[t].request] \in ReaderEntries

\* wait_for_reply and the loops that follow are simple as long as they neither
\* enter the list of readers nor poll.
LEMMA InsertReaderSimple ==
    ASSUME Base, NEW t \in Threads, InsertReader(t)
    PROVE  Simple(t) \/ Inserts(t)
<1>1. /\ Plain(t) /\ Now(t) = "insert" /\ UNCHANGED <<out, net, log>>
      /\ (Pushed(t, "wakenext") /\ in' = in) \/ Inserts(t)
  BY InsertReaderIs DEF Inserts
<1>3. CASE Pushed(t, "wakenext") /\ in' = in
  <2>1. Now(t)' = "wakenext"
    BY <1>3 DEF Pushed
  <2>2. RolesAt(t) /\ RolesAt(t)' => TakesOn(t)
    BY <1>1, <2>1 DEF RolesAt, Take, TakesOn
  <2> QED BY <1>1, <1>3, <2>1, <2>2, SimpleAside DEF Lone, Apart
<1> QED BY <1>1, <1>3

\* The thread polls in order to read.
PollsToRead(t) ==
    /\ Plain(t) /\ Now(t) \in {"replyloop", "eventloop"} /\ UNCHANGED <<out, net, log>> /\ InKept
    /\ in'.readers = in.readers /\ ~(in.reading > 0) /\ in'.reading = in.reading + 1
    /\ Now(t)' = "polled" /\ Then(t)' = "waited" /\ Place(t, 3)' = Now(t)
    /\ th'[t].wait = "poll"

LEMMA ReplyLoopSimple ==
    ASSUME Base, NEW t \in Threads, ReplyLoop(t)
    PROVE  Simple(t) \/ PollsToRead(t)
<1>0. in \in InRecords /\ Then(t) \in After("replyloop")
  BY ReplyLoopIs, TypesAre, PlacesAre
<1>1. /\ Plain(t) /\ Now(t) = "replyloop" /\ UNCHANGED <<out, net, log>> /\ InKept
      /\ in'.readers = in.readers
      /\ \/ Popped(t) /\ in'.reading = in.reading /\ th'[t].wait = "run"
         \/ in.reading > 0 /\ Pushed(t, "replyloop") /\ th'[t].wait = "reader" /\ in' = in
            /\ ~Answered(th[t].request)
         \/ ~(in.reading > 0) /\ Pushed3(t, "polled", "waited", "replyloop")
            /\ th'[t].wait = "poll" /\ in'.reading = in.reading + 1
  BY ReplyLoopIs
<1>2. Moved(t) /\ th'[t].vec \in {<<>>, th[t].vec} /\ th'[t].cookies \subseteq th[t].cookies
  BY <1>1 DEF Plain
<1>3. CASE Popped(t) /\ in'.reading = in.reading /\ th'[t].wait = "run"
  <2>1. Now(t)' = "remove"
    BY <1>0, <1>3 DEF Popped, After
  <2>2. Settled(t)
    BY <2>1 DEF Settled
  <2>3. RolesAt(t) /\ RolesAt(t)' => TakesOn(t) /\ LoopsOn(t) /\ Attends(t)
    BY <1>1, <1>3, <2>1 DEF RolesAt, Take, TakesOn, LoopsOn, Attends
  <2> QED BY <1>1, <1>2, <1>3, <2>1, <2>2, <2>3, SimpleIs DEF Lone, Apart
<1>4. CASE in.reading > 0 /\ Pushed(t, "replyloop") /\ th'[t].wait = "reader" /\ in' = in
           /\ ~Answered(th[t].request)
  <2>1. Now(t)' = "replyloop"
    BY <1>4 DEF Pushed
  <2>2. Settled(t)
    BY <2>1 DEF Settled
  <2>3. RolesAt(t) /\ RolesAt(t)' => TakesOn(t) /\ LoopsOn(t) /\ Attends(t)
    BY <1>1, <1>4, <2>1 DEF RolesAt, Take, TakesOn, LoopsOn, Attends
  <2> QED BY <1>1, <1>2, <1>4, <2>1, <2>2, <2>3, SimpleIs DEF Lone, Apart
<1>5. CASE ~(in.reading > 0) /\ Pushed3(t, "polled", "waited", "replyloop")
           /\ th'[t].wait = "poll" /\ in'.reading = in.reading + 1
  BY <1>1, <1>5 DEF PollsToRead, Pushed3
<1> QED BY <1>1, <1>3, <1>4, <1>5

LEMMA EventLoopSimple ==
    ASSUME Base, NEW t \in Threads, EventLoop(t)
    PROVE  Simple(t) \/ PollsToRead(t)
<1>0. in \in InRecords /\ Then(t) \in After("eventloop")
  BY EventLoopIs, TypesAre, PlacesAre
<1>1. /\ Plain(t) /\ Now(t) = "eventloop" /\ UNCHANGED <<out, net, log>> /\ InKept
      /\ in'.readers = in.readers
      /\ \/ Popped(t) /\ in'.reading = in.reading /\ th'[t].wait = "run"
         \/ in.reading > 0 /\ Pushed(t, "eventloop") /\ th'[t].wait = "event" /\ in' = in
         \/ ~(in.reading > 0) /\ Pushed3(t, "polled", "waited", "eventloop")
            /\ th'[t].wait = "poll" /\ in'.reading = in.reading + 1
  BY EventLoopIs
<1>2. Moved(t) /\ th'[t].vec \in {<<>>, th[t].vec} /\ th'[t].cookies \subseteq th[t].cookies
  BY <1>1 DEF Plain
<1>3. CASE Popped(t) /\ in'.reading = in.reading /\ th'[t].wait = "run"
  <2>1. Now(t)' = "wakenext"
    BY <1>0, <1>3 DEF Popped, After
  <2>2. Settled(t)
    BY <2>1 DEF Settled
  <2>3. RolesAt(t) /\ RolesAt(t)' => TakesOn(t) /\ LoopsOn(t) /\ Attends(t)
    BY <1>1, <1>3, <2>1 DEF RolesAt, Take, TakesOn, LoopsOn, Attends
  <2> QED BY <1>1, <1>2, <1>3, <2>1, <2>2, <2>3, SimpleIs DEF Lone, Apart
<1>4. CASE in.reading > 0 /\ Pushed(t, "eventloop") /\ th'[t].wait = "event" /\ in' = in
  <2>1. Now(t)' = "eventloop"
    BY <1>4 DEF Pushed
  <2>2. Settled(t)
    BY <2>1 DEF Settled
  <2>3. RolesAt(t) /\ RolesAt(t)' => TakesOn(t) /\ LoopsOn(t) /\ Attends(t)
    BY <1>1, <1>4, <2>1 DEF RolesAt, Take, TakesOn, LoopsOn, Attends
  <2> QED BY <1>1, <1>2, <1>4, <2>1, <2>2, <2>3, SimpleIs DEF Lone, Apart
<1>5. CASE ~(in.reading > 0) /\ Pushed3(t, "polled", "waited", "eventloop")
           /\ th'[t].wait = "poll" /\ in'.reading = in.reading + 1
  BY <1>1, <1>5 DEF PollsToRead, Pushed3
<1> QED BY <1>1, <1>3, <1>4, <1>5

LEMMA WakeNextSimple ==
    ASSUME Base, NEW t \in Threads, WakeNext(t)
    PROVE  Simple(t)
<1>0. in \in InRecords
  BY TypesAre
<1>1. /\ Plain(t) /\ Now(t) = "wakenext" /\ UNCHANGED <<in, out, net, log>>
      /\ Now(t)' = "end" /\ WakesReader(th')
  BY WakeNextIs
<1>2. Moved(t) /\ InKept /\ in'.readers = in.readers /\ in'.reading = in.reading
      /\ th'[t].vec \in {<<>>, th[t].vec} /\ th'[t].cookies \subseteq th[t].cookies
  BY <1>0, <1>1 DEF Plain, InKept
<1>3. Settled(t) /\ th'[t].wait \notin {"reader", "event"}
  BY <1>1, <1>2 DEF Settled, Moved
<1>4. RolesAt(t) /\ RolesAt(t)' => TakesOn(t) /\ LoopsOn(t) /\ Attends(t)
  BY <1>1, <1>3 DEF RolesAt, Take, TakesOn, LoopsOn, Attends
<1> QED BY <1>1, <1>2, <1>3, <1>4, SimpleIs DEF Lone, Apart

\* xcb_poll_for_reply and xcb_poll_for_event, and xcb_discard_reply.
LEMMA LooksSimple ==
    ASSUME Base, NEW t \in Threads, PollForReply(t) \/ PollForEvent(t) \/ DiscardReply(t)
    PROVE  Simple(t)
<1>1. /\ Moved(t) /\ th'[t].vec \in {<<>>, th[t].vec} /\ th'[t].cookies \subseteq th[t].cookies
      /\ Now(t) \in {"pollreply", "pollagain", "pollevent", "eventagain", "discard"}
      /\ UNCHANGED <<out, net, log>> /\ InKept
      /\ in'.readers = in.readers /\ in'.reading = in.reading
      /\ Popped(t) \/ Pushed2(t, "read", "pollagain") \/ Pushed2(t, "read", "eventagain")
  BY PollForReplyIs, PollForEventIs, DiscardReplyIs DEF Plain
<1>2. Then(t) \in After(Now(t))
  BY PlacesAre, TypesAre
<1>3. Now(t)' = "end" \/ (Now(t)' = "read" /\ Then(t)' \in {"pollagain", "eventagain"})
  BY <1>1, <1>2 DEF Popped, Pushed2, After
<1>4. th'[t].wait \notin {"reader", "event"}
  BY <1>1, <1>3 DEF Moved, WaitsAt
<1>5. Settled(t)
  BY <1>3 DEF Settled
<1>6. RolesAt(t) /\ RolesAt(t)' => TakesOn(t) /\ LoopsOn(t) /\ Attends(t)
  BY <1>1, <1>3, <1>4 DEF RolesAt, Take, TakesOn, LoopsOn, Attends
<1> QED BY <1>1, <1>3, <1>5, <1>6, SimpleIs DEF Lone, Apart

\* The step leaves the thread its roles.
SameRoles(t) ==
    /\ (Writing(t)' <=> Writing(t)) /\ (ReadingOn(t)' <=> ReadingOn(t)) /\ (SendsOut(t)' <=> SendsOut(t))
    /\ (Attending(t)' <=> Attending(t)) /\ (InLoop(t)' <=> InLoop(t)) /\ (InReaders(t)' <=> InReaders(t))
    /\ (Numbered(t)' <=> Numbered(t)) /\ (InTake(t)' <=> InTake(t))

\* The thread goes on with what poll() returned.
Polling(t) ==
    /\ Moved(t) /\ SameRoles(t) /\ UNCHANGED <<out, log>>
    /\ th'[t].vec = th[t].vec /\ th'[t].cookies = th[t].cookies /\ th'[t].wait = "run"
    /\ Now(t) \in Tops /\ Now(t)' \in {"read", "packets", "write", "waited", "pollagain", "eventagain"}
    /\ in' \in InRecords /\ in'.reading = in.reading /\ net' \in NetRecords
    /\ (net.error => net'.error) /\ (net'.error => net.error \/ net.broken)
    /\ net'.broken = net.broken /\ net'.socket = net.socket /\ net'.served = net.served

\* The steps on top of _xcb_conn_wait leave them.
LEMMA SameRolesIs ==
    ASSUME Base, NEW t \in Threads, Now(t) \in Tops,
           \/ Popped(t)
           \/ Pushed(t, "read") \/ Pushed(t, "packets")
    PROVE  /\ SameRoles(t)
           /\ Now(t)' \in {"read", "packets", "write", "waited", "pollagain", "eventagain"}
<1>1. /\ Then(t) \in {"write", "waited", "pollagain", "eventagain"}
      /\ Place(t, 3) \in After(Then(t)) /\ Place(t, 4) \in After(Place(t, 3))
  BY PlacesAre, TypesAre DEF Tops, After
<1>2. /\ Then(t) = "write" => Place(t, 3) = "outsend"
      /\ Then(t) = "waited" => Place(t, 3) \in {"replyloop", "eventloop"}
      /\ Then(t) \in {"pollagain", "eventagain"} => Place(t, 3) = "end"
  BY <1>1 DEF After
<1>3. CASE Popped(t)
  <2>1. Now(t)' = Then(t) /\ Then(t)' = Place(t, 3) /\ Place(t, 3)' = Place(t, 4)
    BY <1>3 DEF Popped
  <2>2. (Writing(t)' <=> Writing(t)) /\ (ReadingOn(t)' <=> ReadingOn(t))
    BY <1>1, <2>1 DEF Writing, ReadingOn, Tops
  <2>3. (SendsOut(t)' <=> SendsOut(t)) /\ (Attending(t)' <=> Attending(t))
    BY <1>1, <2>1, <2>2 DEF SendsOut, Attending, Tops
  <2>4. (InLoop(t)' <=> InLoop(t))
    BY <1>1, <2>1 DEF InLoop, Tops
  <2>5. (InReaders(t)' <=> InReaders(t))
    BY <1>1, <2>1, <2>4 DEF InReaders, Tops
  <2>6. (Numbered(t)' <=> Numbered(t))
    BY <1>1, <2>1 DEF Numbered, Tops
  <2>7. (InTake(t)' <=> InTake(t))
    BY <1>1, <2>1 DEF InTake, Tops, Take
  <2> QED BY <1>1, <2>1, <2>2, <2>3, <2>4, <2>5, <2>6, <2>7 DEF SameRoles
<1>4. CASE Pushed(t, "read") \/ Pushed(t, "packets")
  <2>1. Now(t)' \in {"read", "packets"} /\ Then(t)' = Then(t) /\ Place(t, 3)' = Place(t, 3)
        /\ Place(t, 4)' = Place(t, 4)
    BY <1>4 DEF Pushed
  <2>2. (Writing(t)' <=> Writing(t)) /\ (ReadingOn(t)' <=> ReadingOn(t))
    BY <1>1, <2>1 DEF Writing, ReadingOn, Tops
  <2>3. (SendsOut(t)' <=> SendsOut(t)) /\ (Attending(t)' <=> Attending(t))
    BY <1>1, <2>1, <2>2 DEF SendsOut, Attending, Tops
  <2>4. (InLoop(t)' <=> InLoop(t))
    BY <1>1, <2>1 DEF InLoop, Tops
  <2>5. (InReaders(t)' <=> InReaders(t))
    BY <1>1, <2>1, <2>4 DEF InReaders, Tops
  <2>6. (Numbered(t)' <=> Numbered(t))
    BY <1>1, <2>1 DEF Numbered, Tops
  <2>7. (InTake(t)' <=> InTake(t))
    BY <1>1, <2>1 DEF InTake, Tops, Take
  <2> QED BY <2>1, <2>2, <2>3, <2>4, <2>5, <2>6, <2>7 DEF SameRoles
<1> QED BY <1>3, <1>4

\* poll() has returned, and the thread looks at what it said.
LooksAt(t) ==
    /\ Polling(t) /\ Now(t) = "polled" /\ Now(t)' # "packets" /\ UNCHANGED <<in, net>>
    /\ th'[t].ok = (th[t].revents # {"hup"}) /\ th[t].wait = "run"

LEMMA PolledPolling ==
    ASSUME Base, NEW t \in Threads, Polled(t)
    PROVE  LooksAt(t)
<1>1. /\ Moved(t) /\ Now(t) = "polled" /\ UNCHANGED <<in, out, net, log>>
      /\ th'[t].vec = th[t].vec /\ th'[t].cookies = th[t].cookies
      /\ th'[t].wait = "run" /\ th'[t].ok = (th[t].revents # {"hup"})
      /\ Then(t) \in {"write", "waited"}
      /\ Popped(t) \/ Pushed(t, "read")
  BY PolledIs
<1>2. SameRoles(t) /\ Now(t)' \in {"read", "packets", "write", "waited", "pollagain", "eventagain"}
  BY <1>1, SameRolesIs DEF Tops
<1>3. Now(t)' # "packets"
  BY <1>1 DEF Popped, Pushed
<1>4. in \in InRecords /\ net \in NetRecords
  BY TypesAre
<1>5. Polling(t)
  BY <1>1, <1>2, <1>4 DEF Polling, Tops
<1> QED BY <1>1, <1>3, <1>5 DEF LooksAt, Moved

\* The thread takes what is on the wire.
Receives(t) ==
    /\ Polling(t) /\ Now(t) = "read"
    /\ in' = [in EXCEPT !.packets = net.wire] /\ net'.wire = <<>>
    /\ th'[t].ok \/ net'.error
    /\ Now(t)' = "packets" => net.wire # <<>>

LEMMA ReceivePolling ==
    ASSUME Base, NEW t \in Threads, Receive(t)
    PROVE  Receives(t)
<1>1. /\ Plain(t) /\ Now(t) = "read" /\ UNCHANGED <<out, log>>
      /\ in' = [in EXCEPT !.packets = net.wire] /\ in' \in InRecords
      /\ net' = [net EXCEPT !.wire = <<>>, !.error = net'.error] /\ net' \in NetRecords
      /\ net.error => net'.error
      /\ net'.error => net.error \/ net.broken
      /\ th'[t].ok \/ net'.error
      /\ th'[t].vec = th[t].vec /\ th'[t].wait = "run"
      /\ Then(t) \in {"write", "waited", "pollagain", "eventagain"}
      /\ \/ net.wire = <<>> /\ Popped(t)
         \/ net.wire # <<>> /\ Pushed(t, "packets")
  BY ReceiveIs
<1>2. SameRoles(t) /\ Now(t)' \in {"read", "packets", "write", "waited", "pollagain", "eventagain"}
  BY <1>1, SameRolesIs DEF Tops
<1>3. Now(t)' = "packets" => net.wire # <<>>
  BY <1>1 DEF Popped, Pushed
<1>4. in \in InRecords /\ net \in NetRecords
  BY TypesAre
<1>5. in'.reading = in.reading
  BY <1>1, <1>4 DEF InRecords
<1>6. net'.broken = net.broken /\ net'.socket = net.socket /\ net'.served = net.served
      /\ net'.wire = <<>>
  BY <1>1, <1>4 DEF NetRecords
<1>7. Polling(t)
  BY <1>1, <1>2, <1>5, <1>6 DEF Polling, Tops, Plain
<1> QED BY <1>1, <1>3, <1>6, <1>7 DEF Receives

\* The thread takes a packet apart.
ReadsPacket(t) ==
    /\ Polling(t) /\ Now(t) = "packets" /\ UNCHANGED net /\ th'[t].ok = th[t].ok
    /\ in.packets # <<>> /\ in'.packets = Tail(in.packets)
    /\ Now(t)' = "packets" => Len(in.packets) # 1
    /\ in'.read = Widen(Head(in.packets).serial)
    /\ \/ in'.read = in.read /\ in'.completed \in {in.completed, in'.read}
       \/ in'.read # in.read /\ in'.completed \in {in'.read - 1, in'.read}
    /\ in'.expected = IF in'.read > in.expected THEN in'.read ELSE in.expected
    /\ in'.readers = SubSeq(in.readers, ReadersUpTo(in'.completed) + 1, Len(in.readers))
    /\ \A i \in 1 .. ReadersUpTo(in'.completed) : th'[in.readers[i].thread].wait # "reader"

LEMMA ReadPacketPolling ==
    ASSUME Base, Wire \in Nat \ {0}, NEW t \in Threads, read_packet(t), in.packets # <<>>
    PROVE  ReadsPacket(t)
<1>1. /\ Plain(t) /\ Now(t) = "packets" /\ UNCHANGED <<out, net, log>>
      /\ th'[t].wait = "run" /\ th'[t].ok = th[t].ok /\ th'[t].vec = th[t].vec
      /\ Popped(t) \/ Pushed(t, "packets")
      /\ Popped(t) <=> Len(in.packets) = 1
      /\ in' \in InRecords /\ in'.reading = in.reading
      /\ in'.packets = Tail(in.packets)
  BY ReadPacketIs
<1>2. SameRoles(t) /\ Now(t)' \in {"read", "packets", "write", "waited", "pollagain", "eventagain"}
  BY <1>1, SameRolesIs DEF Tops
<1>3. Then(t) # "packets"
  <2>1. Then(t) \in After("packets")
    BY <1>1, PlacesAre, TypesAre
  <2> QED BY <2>1 DEF After
<1>4. Now(t)' = "packets" => Len(in.packets) # 1
  BY <1>1, <1>3 DEF Popped
<1>5. net \in NetRecords
  BY TypesAre
<1>6. Polling(t)
  BY <1>1, <1>2, <1>5 DEF Polling, Tops, Plain
<1>7. /\ in'.read = Widen(Head(in.packets).serial)
      /\ \/ in'.read = in.read /\ in'.completed \in {in.completed, in'.read}
         \/ in'.read # in.read /\ in'.completed \in {in'.read - 1, in'.read}
      /\ in'.expected = IF in'.read > in.expected THEN in'.read ELSE in.expected
  BY ReadPacketIs
<1>8. /\ in'.readers = SubSeq(in.readers, ReadersUpTo(in'.completed) + 1, Len(in.readers))
      /\ \A i \in 1 .. ReadersUpTo(in'.completed) : th'[in.readers[i].thread].wait # "reader"
  BY ReadPacketIs
<1> QED BY <1>1, <1>4, <1>6, <1>7, <1>8 DEF ReadsPacket

\* A step at which the thread's roles are nothing but the steps' own.
Aside(t) == Apart(t) /\ Apart(t)' /\ RolesAt(t) /\ RolesAt(t)'

\* Who is apart before and after the step has the roles of its steps.
LEMMA AsideIs ==
    ASSUME NEW t \in Threads, Apart(t), Apart(t)'
    PROVE  Aside(t)
BY RolesAre, RolesAreNext DEF Aside

\* The socket is XCB's again.
GivesBack(t) ==
    /\ Plain(t) /\ Now(t) = "gotback" /\ Now(t)' = Then(t) /\ Then(t) \in {"writable", "takeflush"}
    /\ Aside(t) /\ UNCHANGED <<net, log>>
    /\ out' = [out EXCEPT !.moving = FALSE, !.returnSocket = NoThread]
    /\ in' = [in EXCEPT !.pending = RepliesDone]
    /\ in' \in InRecords /\ out' \in OutRecords

LEMMA GivesBackIs ==
    ASSUME Base, NEW t \in Threads, GotSocketBack(t)
    PROVE  GivesBack(t)
<1>1. /\ Plain(t) /\ Now(t) = "gotback" /\ Popped(t) /\ UNCHANGED <<net, log>>
      /\ out' = [out EXCEPT !.moving = FALSE, !.returnSocket = NoThread]
      /\ in' = [in EXCEPT !.pending = RepliesDone]
      /\ in' \in InRecords /\ out' \in OutRecords
  BY GotSocketBackIs
<1>2. Now(t)' = Then(t) /\ Then(t) \in {"writable", "takeflush"}
  BY <1>1, PlacesAre, TypesAre DEF After, Popped
<1>3. Aside(t)
  BY <1>1, <1>2, AsideIs DEF Apart, Lone
<1> QED BY <1>1, <1>2, <1>3 DEF GivesBack

\* xcb_send_request returns the number of the request.
HandsOut(t) ==
    /\ Moved(t) /\ Now(t) = "cookie" /\ Now(t)' = "end" /\ Aside(t) /\ UNCHANGED <<in, out, net, log>>
    /\ th'[t].vec = <<>>
    /\ th'[t].cookies = IF net.error \/ th[t].kind = "void" THEN th[t].cookies
                        ELSE th[t].cookies \cup {out.request}

LEMMA HandsOutIs ==
    ASSUME Base, NEW t \in Threads, ReturnCookie(t)
    PROVE  HandsOut(t)
<1>1. /\ Moved(t) /\ Now(t) = "cookie" /\ Popped(t) /\ UNCHANGED <<in, out, net, log>>
      /\ th'[t].vec = <<>>
      /\ th'[t].cookies = IF net.error \/ th[t].kind = "void" THEN th[t].cookies
                          ELSE th[t].cookies \cup {out.request}
  BY CookieIs
<1>2. Now(t)' = "end"
  BY <1>1, PlacesAre, TypesAre DEF After, Popped
<1>3. Aside(t)
  BY <1>1, <1>2, AsideIs DEF Apart, Lone
<1> QED BY <1>1, <1>2, <1>3 DEF HandsOut

\* What a thread is while it writes.
LEMMA OutSendRoles ==
    \A t \in Threads : Now(t) = "outsend" =>
        /\ SendsOut(t) /\ ~Writing(t) /\ ~ReadingOn(t) /\ ~Attending(t) /\ ~InLoop(t) /\ ~InReaders(t)
        /\ Numbered(t) <=> Then(t) = "cookie"
        /\ InTake(t) <=> Then(t) \in Take
BY DEF SendsOut, Writing, ReadingOn, Attending, InLoop, InReaders, Numbered, InTake, Tops, Take

\* The same after the step.
LEMMA OutSendRolesNext ==
    \A t \in Threads : Now(t)' = "outsend" =>
        /\ SendsOut(t)' /\ ~Writing(t)' /\ ~ReadingOn(t)' /\ ~Attending(t)' /\ ~InLoop(t)' /\ ~InReaders(t)'
        /\ Numbered(t)' <=> Then(t)' = "cookie"
        /\ InTake(t)' <=> Then(t)' \in Take
<1>1. (\A t \in Threads : Now(t) = "outsend" =>
        /\ SendsOut(t) /\ ~Writing(t) /\ ~ReadingOn(t) /\ ~Attending(t) /\ ~InLoop(t) /\ ~InReaders(t)
        /\ Numbered(t) <=> Then(t) = "cookie"
        /\ InTake(t) <=> Then(t) \in Take)'
  BY OutSendRoles, PTL
<1> QED BY <1>1 DEF Take

\* The thread begins to write: it does not write yet, and the roles are those of "outsend".
BeginsToSend(t) ==
    /\ RolesAt(t) /\ Now(t)' = "outsend" /\ th'[t].wait = "run"
    /\ SendsOut(t)' /\ ~Writing(t)' /\ ~ReadingOn(t)' /\ ~InLoop(t)' /\ ~InReaders(t)'
    /\ Numbered(t)' <=> Then(t)' = "cookie"
    /\ InTake(t)' <=> Then(t)' \in Take

\* Who comes to _xcb_out_send has the roles that the step below gives.
LEMMA BeginsToSendIs ==
    ASSUME Base, NEW t \in Threads, Apart(t), Now(t)' = "outsend", th'[t].wait = "run"
    PROVE  BeginsToSend(t)
BY RolesAre, OutSendRolesNext DEF BeginsToSend

\* All is written.
SentAll(t) ==
    /\ Plain(t) /\ Now(t) = "outsend" /\ UNCHANGED <<in, net, log>>
    /\ th[t].vec = <<>> /\ WakesReader(th')
    /\ out' = [out EXCEPT !.written = out.request, !.expectedWritten = in.expected]
    /\ out' \in OutRecords
    /\ Now(t)' = Then(t) /\ RolesAt(t)' /\ SendsOut(t) /\ ~Writing(t) /\ ~ReadingOn(t)
    /\ Now(t)' \in {"cookie", "prepare", "checkflush", "insert", "reply", "take", "end"}
    /\ Numbered(t)' <=> Numbered(t)
    /\ InTake(t)' <=> InTake(t)

\* The thread polls in order to write.
PollsToWrite(t) ==
    /\ Plain(t) /\ Now(t) = "outsend" /\ UNCHANGED <<net, log>>
    /\ th[t].vec # <<>> /\ th'[t].vec = th[t].vec /\ th'[t].wait = "poll" /\ out.writing = 0
    /\ in' = [in EXCEPT !.reading = @ + 1] /\ out' = [out EXCEPT !.writing = @ + 1]
    /\ in' \in InRecords /\ out' \in OutRecords /\ Now(t)' = "polled"
    /\ SendsOut(t) /\ ~Writing(t) /\ ~ReadingOn(t) /\ SendsOut(t)' /\ Writing(t)' /\ ~ReadingOn(t)'
    /\ ~InLoop(t)' /\ ~InReaders(t)'
    /\ Numbered(t)' <=> Numbered(t)
    /\ InTake(t)' <=> InTake(t)

\* _xcb_out_send does one of these.
LEMMA OutSendSteps ==
    ASSUME Base, NEW t \in Threads, OutSend(t), out.writing > 0 => th[t].vec = <<>>
    PROVE  SentAll(t) \/ PollsToWrite(t)
<1>1. /\ Plain(t) /\ Now(t) = "outsend" /\ UNCHANGED <<net, log>>
      /\ \/ /\ th[t].vec = <<>> /\ Popped(t) /\ WakesReader(th') /\ UNCHANGED in
            /\ out' = [out EXCEPT !.written = out.request, !.expectedWritten = in.expected]
            /\ out' \in OutRecords
         \/ /\ th[t].vec # <<>> /\ Pushed3(t, "polled", "write", "outsend")
            /\ th'[t].wait = "poll" /\ th'[t].vec = th[t].vec /\ out.writing = 0
            /\ in' = [in EXCEPT !.reading = @ + 1] /\ out' = [out EXCEPT !.writing = @ + 1]
            /\ in' \in InRecords /\ out' \in OutRecords
  BY OutSendIs
<1>2. /\ SendsOut(t) /\ ~Writing(t) /\ ~ReadingOn(t)
      /\ Numbered(t) <=> Then(t) = "cookie"
      /\ InTake(t) <=> Then(t) \in Take
  BY <1>1, OutSendRoles
<1>3. Then(t) \in {"cookie", "prepare", "checkflush", "insert", "reply", "take", "end"}
  BY <1>1, PlacesAre, TypesAre DEF After
<1>4. CASE Popped(t)
  <2>1. Now(t)' = Then(t)
    BY <1>4 DEF Popped
  <2>2. RolesAt(t)'
    BY <1>3, <2>1, RolesAreNext DEF Apart, Lone
  <2>3. Numbered(t)' <=> Numbered(t)
    BY <1>2, <2>1, <2>2 DEF RolesAt
  <2>4. InTake(t)' <=> InTake(t)
    BY <1>2, <1>3, <2>1, <2>2 DEF RolesAt, Take
  <2>5. Then(t) # "polled"
    BY <1>3
  <2> QED BY <1>1, <1>2, <1>3, <2>1, <2>2, <2>3, <2>4, <2>5 DEF SentAll, Pushed3
<1>5. CASE Pushed3(t, "polled", "write", "outsend")
  <2>1. Now(t)' = "polled" /\ Then(t)' = "write" /\ Place(t, 3)' = "outsend" /\ Place(t, 4)' = Then(t)
    BY <1>5 DEF Pushed3
  <2>2. SendsOut(t)' /\ Writing(t)' /\ ~ReadingOn(t)'
    BY <2>1 DEF SendsOut, Writing, ReadingOn, Tops
  <2>3. ~InLoop(t)' /\ ~InReaders(t)'
    BY <2>1 DEF InLoop, InReaders, Tops
  <2>4. Numbered(t)' <=> Numbered(t)
    BY <1>2, <2>1 DEF Numbered, Tops
  <2>5. InTake(t)' <=> InTake(t)
    BY <1>2, <2>1 DEF InTake, Tops, Take
  <2>6. ~Popped(t)
    BY <1>3, <2>1 DEF Popped
  <2> QED BY <1>1, <1>2, <2>1, <2>2, <2>3, <2>4, <2>5, <2>6 DEF PollsToWrite
<1> QED BY <1>1, <1>4, <1>5

\* The thread has written as much as the socket takes.
Writes(t) ==
    /\ Moved(t) /\ Now(t) = "write" /\ Now(t)' = "outsend" /\ UNCHANGED log /\ th'[t].wait = "run"
    /\ th'[t].cookies = th[t].cookies
    /\ in' = [in EXCEPT !.reading = @ - 1] /\ out' = [out EXCEPT !.writing = @ - 1]
    /\ in' \in InRecords /\ out' \in OutRecords /\ net' \in NetRecords
    /\ net.error => net'.error
    /\ net'.error => net.error \/ net.broken
    /\ \E n \in 0 .. Len(th[t].vec) :
         /\ net' = [net EXCEPT !.socket = @ \o SubSeq(th[t].vec, 1, n), !.error = net'.error]
         /\ n > 0 => ~net.broken
         /\ \/ th'[t].vec = SubSeq(th[t].vec, n + 1, Len(th[t].vec))
            \/ n = 0 /\ th'[t].vec = <<>> /\ (~th[t].ok \/ net'.error)
    /\ SendsOut(t) /\ Writing(t) /\ ~ReadingOn(t) /\ SendsOut(t)' /\ ~Writing(t)' /\ ~ReadingOn(t)'
    /\ ~InLoop(t)' /\ ~InReaders(t)'
    /\ Numbered(t)' <=> Numbered(t)
    /\ InTake(t)' <=> InTake(t)

LEMMA WritesIs ==
    ASSUME Base, NEW t \in Threads, WriteVec(t)
    PROVE  Writes(t)
<1>1. /\ Moved(t) /\ Now(t) = "write" /\ Popped(t) /\ Now(t)' = "outsend"
  BY WriteVecIs
<1>2. Then(t)' = Place(t, 3)
  BY <1>1 DEF Popped
<1>3. /\ SendsOut(t) /\ Writing(t) /\ ~ReadingOn(t)
      /\ Numbered(t) <=> Place(t, 3) = "cookie"
      /\ InTake(t) <=> Place(t, 3) \in Take
  BY <1>1 DEF SendsOut, Writing, ReadingOn, Numbered, InTake, Tops, Take
<1>4. /\ SendsOut(t)' /\ ~Writing(t)' /\ ~ReadingOn(t)' /\ ~InLoop(t)' /\ ~InReaders(t)'
      /\ Numbered(t)' <=> Then(t)' = "cookie"
      /\ InTake(t)' <=> Then(t)' \in Take
  BY <1>1, OutSendRolesNext
<1>5. th'[t].wait = "run"
  BY <1>1 DEF Moved, WaitsAt
<1>6. /\ UNCHANGED log /\ th'[t].cookies = th[t].cookies
      /\ in' = [in EXCEPT !.reading = @ - 1] /\ out' = [out EXCEPT !.writing = @ - 1]
      /\ in' \in InRecords /\ out' \in OutRecords /\ net' \in NetRecords
      /\ net.error => net'.error
      /\ net'.error => net.error \/ net.broken
  BY WriteVecIs
<1>7. \E n \in 0 .. Len(th[t].vec) :
         /\ net' = [net EXCEPT !.socket = @ \o SubSeq(th[t].vec, 1, n), !.error = net'.error]
         /\ n > 0 => ~net.broken
         /\ \/ th'[t].vec = SubSeq(th[t].vec, n + 1, Len(th[t].vec))
            \/ n = 0 /\ th'[t].vec = <<>> /\ (~th[t].ok \/ net'.error)
  BY WriteVecIs
<1> QED BY <1>1, <1>2, <1>3, <1>4, <1>5, <1>6, <1>7 DEF Writes

\* The owner of the socket numbers a request and goes to write it.
WritesOwn(t) ==
    /\ Moved(t) /\ Now(t) = "writev" /\ UNCHANGED <<in, net>> /\ BeginsToSend(t)
    /\ Then(t)' = "end"
    /\ out' = [out EXCEPT !.request = out.request + 1] /\ out' \in OutRecords
    /\ log' = Append(log, [kind |-> th[t].kind, by |-> t]) /\ log' \in Seq(LogRecords)
    /\ th'[t].vec = <<out.request + 1>>
    /\ th'[t].cookies = IF th[t].kind = "query"
                        THEN th[t].cookies \cup {out.request + 1} ELSE th[t].cookies

LEMMA WritesOwnIs ==
    ASSUME Base, NEW t \in Threads, Writev(t)
    PROVE  WritesOwn(t)
<1>1. Now(t) = "writev" /\ Pushed(t, "outsend") /\ th'[t].wait = "run"
  BY WritevIs
<1>2. Now(t)' = "outsend" /\ Then(t)' = Then(t) /\ Then(t) = "end"
  BY <1>1, PlacesAre, TypesAre DEF Pushed, After
<1>3. BeginsToSend(t)
  BY <1>1, <1>2, BeginsToSendIs DEF Apart, Lone
<1>4. /\ Moved(t) /\ UNCHANGED <<in, net>>
      /\ out' = [out EXCEPT !.request = out.request + 1] /\ out' \in OutRecords
      /\ log' = Append(log, [kind |-> th[t].kind, by |-> t]) /\ log' \in Seq(LogRecords)
      /\ th'[t].vec = <<out.request + 1>>
  BY WritevIs
<1>5. th'[t].cookies = IF th[t].kind = "query"
                       THEN th[t].cookies \cup {out.request + 1} ELSE th[t].cookies
  BY WritevIs
<1> QED BY <1>1, <1>2, <1>3, <1>4, <1>5 DEF WritesOwn

\* The roles before and after each of the steps.
LEMMA SendsNowRoles ==
    ASSUME Base, NEW t \in Threads, SendsNow(t)
    PROVE  /\ BeginsToSend(t) /\ ~InTake(t)'
           /\ Numbered(t)' => Now(t) = "send"
<1>1. Now(t) \in {"send", "sync"} /\ Now(t)' = "outsend" /\ Then(t)' = Then(t) /\ th'[t].wait = "run"
  BY DEF SendsNow, Pushed
<1>2. Then(t) \in {"cookie", "prepare", "checkflush"} /\ (Then(t) = "cookie" => Now(t) = "send")
  BY <1>1, PlacesAre, TypesAre DEF After
<1>3. BeginsToSend(t)
  BY <1>1, BeginsToSendIs DEF Apart, Lone
<1> QED BY <1>1, <1>2, <1>3 DEF BeginsToSend, Take

LEMMA FlushesRoles ==
    ASSUME Base, NEW t \in Threads, Flushes(t)
    PROVE  /\ BeginsToSend(t) /\ ~Numbered(t)'
           /\ InTake(t)' <=> InTake(t)
<1>1. Now(t) = "flush" /\ Now(t)' = "outsend" /\ Then(t)' = Then(t) /\ th'[t].wait = "run"
  BY DEF Flushes, Pushed
<1>2. Then(t) \in {"insert", "reply", "take", "end"}
  BY <1>1, PlacesAre, TypesAre DEF After
<1>3. BeginsToSend(t)
  BY <1>1, BeginsToSendIs DEF Apart, Lone
<1> QED BY <1>1, <1>2, <1>3 DEF BeginsToSend, RolesAt, Take

LEMMA QueuesRoles ==
    ASSUME Base, NEW t \in Threads, Queues(t)
    PROVE  /\ Aside(t) /\ Now(t)' \in {"cookie", "prepare", "checkflush"}
           /\ Now(t)' = "cookie" => Now(t) = "send"
<1>1. Now(t) \in {"send", "sync"} /\ Now(t)' = Then(t)
  BY DEF Queues, Popped
<1>2. Then(t) \in {"cookie", "prepare", "checkflush"} /\ (Then(t) = "cookie" => Now(t) = "send")
  BY <1>1, PlacesAre, TypesAre DEF After
<1> QED BY <1>1, <1>2, AsideIs DEF Apart, Lone

LEMMA OwnsRoles ==
    ASSUME Base, NEW t \in Threads, Owns(t)
    PROVE  Aside(t) /\ Now(t) = "take" /\ Now(t)' = "end" /\ InTake(t)
<1>1. Now(t) = "take" /\ Now(t)' = "end"
  BY PlacesAre, TypesAre DEF Owns, After, Popped
<1>2. Aside(t)
  BY <1>1, AsideIs DEF Apart, Lone
<1> QED BY <1>1, <1>2 DEF Aside, RolesAt, Take

LEMMA MovesRoles ==
    ASSUME Base, NEW t \in Threads, Moves(t)
    PROVE  Aside(t) /\ Now(t) = "getback" /\ Now(t)' = "gotback" /\ (InTake(t)' <=> InTake(t))
<1>1. Now(t) = "getback" /\ Now(t)' = "gotback" /\ Then(t)' = Then(t)
  BY DEF Moves, Pushed
<1>2. Aside(t)
  BY <1>1, AsideIs DEF Apart, Lone
<1> QED BY <1>1, <1>2 DEF Aside, RolesAt, Take

LEMMA InsertsRoles ==
    ASSUME Base, NEW t \in Threads, Inserts(t)
    PROVE  Aside(t) /\ Now(t) = "insert" /\ Now(t)' = "replyloop" /\ th'[t].wait = "run"
<1>1. Now(t) = "insert" /\ Now(t)' = "replyloop"
  BY DEF Inserts, Pushed3
<1>2. Aside(t)
  BY <1>1, AsideIs DEF Apart, Lone
<1> QED BY <1>1, <1>2 DEF Inserts

\* The thread goes on after it has read.
ReadsOn(t) ==
    /\ Plain(t) /\ Now(t) = "waited" /\ UNCHANGED <<out, net, log>> /\ InKept
    /\ in' = [in EXCEPT !.reading = @ - 1] /\ th'[t].wait = "run"
    /\ Now(t)' \in {"replyloop", "eventloop", "remove", "wakenext"}
    /\ ReadingOn(t) /\ ~Writing(t) /\ ~SendsOut(t) /\ RolesAt(t)'
    /\ InLoop(t)' => InLoop(t)
    /\ InReaders(t)' <=> InReaders(t)

\* The thread that has polled in order to read goes on with its loop.
LEMMA ReadsOnIs ==
    ASSUME Base, NEW t \in Threads, ReaderPolled(t)
    PROVE  ReadsOn(t)
<1>1. /\ Plain(t) /\ Now(t) = "waited" /\ UNCHANGED <<out, net, log>> /\ InKept
      /\ in' = [in EXCEPT !.reading = @ - 1]
      /\ Then(t) \in {"replyloop", "eventloop"} /\ th'[t].wait = "run"
      /\ \/ Popped(t)
         \/ Now(t)' = Place(t, 3) /\ Place(t, 3) \in {"remove", "wakenext"}
  BY ReaderPolledIs
<1>2. Place(t, 3) \in After(Then(t))
  BY PlacesAre, TypesAre
<1>3. /\ Now(t)' \in {"replyloop", "eventloop", "remove", "wakenext"}
      /\ Now(t)' \in {"replyloop", "remove"} <=> Then(t) = "replyloop"
  BY <1>1, <1>2 DEF Popped, After
<1>4. RolesAt(t)'
  BY <1>3, RolesAreNext DEF Apart, Lone
<1>5. ReadingOn(t) /\ ~Writing(t) /\ ~SendsOut(t) /\ (InLoop(t) <=> Then(t) = "replyloop")
  BY <1>1 DEF ReadingOn, Writing, SendsOut, InLoop, Tops
<1>6. (InLoop(t)' => InLoop(t)) /\ (InReaders(t)' <=> InReaders(t))
  <2>1. InReaders(t) <=> Then(t) = "replyloop"
    BY <1>1, <1>5 DEF InReaders
  <2>2. /\ InReaders(t)' <=> Now(t)' \in {"replyloop", "remove"}
        /\ InLoop(t)' <=> Now(t)' = "replyloop"
    BY <1>4 DEF RolesAt
  <2> QED BY <1>3, <1>5, <2>1, <2>2
<1> QED BY <1>1, <1>3, <1>4, <1>5, <1>6 DEF ReadsOn

\* The thread gives its entry up.
Removes(t) ==
    /\ Plain(t) /\ Now(t) = "remove" /\ Now(t)' = "wakenext" /\ th'[t].wait = "run" /\ Aside(t)
    /\ UNCHANGED <<out, net, log>> /\ InKept /\ in'.reading = in.reading
    /\ \/ in' = in /\ ~(in.readers # <<>> /\ Head(in.readers).request <= th[t].request)
       \/ /\ in.readers # <<>> /\ Head(in.readers).thread = t
          /\ in'.readers = Tail(in.readers)

LEMMA RemovesIs ==
    ASSUME Base, NEW t \in Threads, RemoveReader(t)
    PROVE  Removes(t)
<1>1. /\ Plain(t) /\ Now(t) = "remove" /\ UNCHANGED <<out, net, log>> /\ InKept
      /\ in'.reading = in.reading /\ Popped(t) /\ th'[t].wait = "run"
      /\ \/ in' = in /\ ~(in.readers # <<>> /\ Head(in.readers).request <= th[t].request)
         \/ /\ in.readers # <<>> /\ Head(in.readers).thread = t
            /\ in'.readers = Tail(in.readers)
  BY RemoveReaderIs
<1>2. Now(t)' = "wakenext"
  BY <1>1, PlacesAre, TypesAre DEF After, Popped
<1>3. Aside(t)
  BY <1>1, <1>2, AsideIs DEF Apart, Lone
<1> QED BY <1>1, <1>2, <1>3 DEF Removes

LEMMA PollsToReadRoles ==
    ASSUME Base, NEW t \in Threads, PollsToRead(t)
    PROVE  /\ RolesAt(t) /\ ReadingOn(t)' /\ ~Writing(t)' /\ ~SendsOut(t)'
           /\ ~Numbered(t)' /\ ~InTake(t)'
           /\ InLoop(t)' => InLoop(t)
           /\ InReaders(t)' <=> InReaders(t)
<1>1. /\ Now(t) \in {"replyloop", "eventloop"} /\ Now(t)' = "polled" /\ Then(t)' = "waited"
      /\ Place(t, 3)' = Now(t)
  BY DEF PollsToRead
<1>2. RolesAt(t)
  BY <1>1, RolesAre DEF Apart, Lone
<1>3. ReadingOn(t)' /\ ~Writing(t)' /\ ~SendsOut(t)' /\ ~Numbered(t)' /\ ~InTake(t)'
  BY <1>1 DEF ReadingOn, Writing, SendsOut, Numbered, InTake, Tops, Take
<1>4. (InLoop(t)' => InLoop(t)) /\ (InReaders(t)' <=> InReaders(t))
  BY <1>1, <1>2 DEF InLoop, InReaders, RolesAt, Tops
<1> QED BY <1>2, <1>3, <1>4

LEMMA CalledRoles ==
    ASSUME NEW t \in Threads, Called(t)
    PROVE  /\ Aside(t) /\ Now(t) = "end" /\ Now(t)' \notin {"send", "sync", "writable", "gotback", "cookie", "replyloop", "remove", "packets"}
           /\ ~InLoop(t)' /\ ~InReaders(t)' /\ ~Numbered(t)'
           /\ InTake(t)' => Now(t)' = "getback"
<1>1. Aside(t)
  BY AsideIs DEF Called, Starts, Apart, Lone
<1> QED BY <1>1 DEF Called, Starts, Aside, RolesAt, Take

-----------------------------------------------------------------------------
(* A step is one of a few kinds                                            *)

\* poll() has returned.
Returned(t) ==
    /\ Resumed(t) /\ Now(t) = "polled" /\ UNCHANGED <<in, out, log>>
    /\ th'[t].revents = {"hup"} => net'.error
    /\ net' = [net EXCEPT !.error = net'.error] /\ net' \in NetRecords
    /\ net'.error => net.error \/ net.broken
    /\ net.error => net'.error

\* The owner has let the socket go.
LetsGo(t) ==
    /\ Resumed(t) /\ Now(t) = "gotback" /\ UNCHANGED <<in, net, log>>
    /\ out' = [out EXCEPT !.owns = out.owns \ {out.returnSocket}] /\ out' \in OutRecords
    /\ th[out.returnSocket].stack = <<>> \/ th[out.returnSocket].op \notin {"take", "write"}

\* A step of the server.
Server ==
    /\ UNCHANGED <<lock, th, in, out, log>> /\ net' \in NetRecords
    /\ net'.socket = net.socket /\ net'.error = net.error /\ (net.broken => net'.broken)
    /\ \/ net'.served = net.served
       \/ net'.served = net.served + 1 /\ net.served < Len(net.socket)
    /\ \/ net'.wire = net.wire
       \/ \E p \in Packets :
             /\ p.serial = net'.served % Wire
             /\ p.of = IF net'.served = net.served THEN net.served ELSE net.socket[net'.served]
             /\ net'.wire = Append(net.wire, p)

\* The steps of a thread, by what they do to the parts of the invariant.
Quiet(t) == Simple(t) \/ Moves(t) \/ GivesBack(t) \/ HandsOut(t) \/ Queues(t) \/ Owns(t)
            \/ Inserts(t) \/ Removes(t) \/ Called(t)

\* The steps of those that write, and of those that read.
Sends(t) == SendsNow(t) \/ Flushes(t) \/ WritesOwn(t) \/ SentAll(t) \/ PollsToWrite(t) \/ Writes(t)

Reads(t) == LooksAt(t) \/ Receives(t) \/ ReadsPacket(t) \/ ReadsOn(t) \/ PollsToRead(t)
            \/ Returned(t)

\* A step of a thread is one of these.
ThreadStep(t) == Quiet(t) \/ Sends(t) \/ Reads(t) \/ LetsGo(t)

\* What the invariant has to say for a step to be one of these.
Ready ==
    \A t \in Threads : /\ Now(t) = "outsend" => out.writing = 0
                       /\ Now(t) = "packets" => in.packets # <<>>

\* Every action is a step of one of these kinds.
LEMMA SendingStep ==
    ASSUME Base, Ready, NEW t \in Threads, Sending(t)
    PROVE  Quiet(t) \/ Sends(t) \/ LooksAt(t)
<1>1. ASSUME OutSend(t)
      PROVE  SentAll(t) \/ PollsToWrite(t)
  <2>1. Now(t) = "outsend"
    BY <1>1, BaseIs DEF OutSend
  <2>2. out.writing = 0
    BY <2>1 DEF Ready
  <2> QED BY <1>1, <2>2, OutSendSteps
<1> QED BY <1>1, PrepareSimple, PrepareWritableSimple, GetSocketBackSimple, GivesBackIs,
           SyncBeforeWrapSimple, SendSimple, HandsOutIs, PolledPolling, WritesIs, FlushToSimple,
           WaitFlushedSimple, FlushAllSimple, TakeFlushSimple, TakeSocketSimple, WritesOwnIs
        DEF Sending, Quiet, Sends

LEMMA ReadingStep ==
    ASSUME Base, Ready, NEW t \in Threads, Reading(t)
    PROVE  Quiet(t) \/ Reads(t)
<1>1. ASSUME read_packet(t)
      PROVE  ReadsPacket(t)
  <2>1. Now(t) = "packets"
    BY <1>1, BaseIs DEF read_packet
  <2>2. in.packets # <<>> /\ Wire \in Nat \ {0}
    BY <2>1, ConstantsAssumption DEF Ready
  <2> QED BY <1>1, <2>2, ReadPacketPolling
<1> QED BY <1>1, ReceivePolling, ReadsOnIs, WaitForReplySimple, InsertReaderSimple, ReplyLoopSimple,
           RemovesIs, WakeNextSimple, EventLoopSimple, RequestCheckSimple, CheckFlushSimple,
           LooksSimple
        DEF Reading, Quiet, Reads

LEMMA OutsideStep ==
    ASSUME Base, NEW t \in Threads, PollReturns(t) \/ return_socket(t)
    PROVE  Returned(t) \/ LetsGo(t)
<1>1. Control(t)
  BY DEF Base
<1>2. ASSUME PollReturns(t)
      PROVE  Returned(t)
  <2>1. /\ Resumed(t) /\ th[t].wait = "poll" /\ UNCHANGED <<in, out, log>>
        /\ th'[t].revents = {"hup"} => net'.error
        /\ net' = [net EXCEPT !.error = net'.error] /\ net' \in NetRecords
        /\ net'.error => net.error \/ net.broken
        /\ net.error => net'.error
    BY <1>2, PollReturnsIs
  <2>2. Now(t) = "polled"
    BY <1>1, <2>1 DEF Control, WaitsAt
  <2> QED BY <2>1, <2>2 DEF Returned
<1>3. ASSUME return_socket(t)
      PROVE  LetsGo(t)
  <2>1. /\ Resumed(t) /\ th[t].wait = "callback" /\ UNCHANGED <<in, net, log>>
        /\ out' = [out EXCEPT !.owns = out.owns \ {out.returnSocket}] /\ out' \in OutRecords
        /\ th[out.returnSocket].stack = <<>> \/ th[out.returnSocket].op \notin {"take", "write"}
    BY <1>3, ReturnSocketIs
  <2>2. Now(t) = "gotback"
    BY <1>1, <2>1 DEF Control, WaitsAt
  <2> QED BY <2>1, <2>2 DEF LetsGo
<1> QED BY <1>2, <1>3

LEMMA ServerStep ==
    ASSUME Base, Serve \/ SendEvent \/ Break
    PROVE  Server
<1>0. Wire \in Nat \ {0} /\ net \in NetRecords /\ net.served \in Nat
  BY ConstantsAssumption, TypesAre DEF NetRecords
<1>1. ASSUME Serve
      PROVE  Server
  BY <1>0, <1>1, ServeIs DEF Server
<1>2. ASSUME SendEvent
      PROVE  Server
  BY <1>0, <1>2, SendEventIs DEF Server
<1>3. ASSUME Break
      PROVE  Server
  BY <1>0, <1>3, BreakIs DEF Server
<1> QED BY <1>1, <1>2, <1>3

\* Every step is one of a thread or of the server.
LEMMA StepIs ==
    ASSUME Base, Ready, Next
    PROVE  (\E t \in Threads : ThreadStep(t)) \/ Server
<1>1. ASSUME NEW t \in Threads, Calling(t) \/ Running(t)
      PROVE  ThreadStep(t)
  BY <1>1, CallingIs, SendingStep, ReadingStep, OutsideStep DEF Running, ThreadStep, Quiet, Reads
<1> QED BY <1>1, ServerStep DEF Next

=============================================================================
