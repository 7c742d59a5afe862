---------------------------- MODULE OutputProofs ----------------------------
(***************************************************************************)
(* Proofs about Output for any clients, buffers of any size and any number *)
(* of units, where no client records the others.                           *)
(*                                                                         *)
(* First the list of clients with output pending, then what FlushClient    *)
(* does to the client it flushes and to the others, then writing, closing  *)
(* down and the loop of FlushAllOutput, and last the actions.              *)
(***************************************************************************)
EXTENDS Output, SequenceTheorems, TLAPS

-----------------------------------------------------------------------------
(* The list: what is on it after an element has been removed or appended   *)

LEMMA RangeIs ==
    ASSUME NEW S, NEW list \in Seq(S)
    PROVE  /\ DOMAIN list = 1 .. Len(list)
           /\ Range(list) = {list[i] : i \in 1 .. Len(list)}
           /\ Range(list) \subseteq S
BY DEF Range

LEMMA PlaceIs ==
    ASSUME NEW S, NEW list \in Seq(S), NEW c \in Range(list)
    PROVE  /\ Place(list, c) \in 1 .. Len(list)
           /\ list[Place(list, c)] = c
<1>1. \E i \in DOMAIN list : list[i] = c
  BY RangeIs
<1>2. Place(list, c) \in DOMAIN list /\ list[Place(list, c)] = c
  BY <1>1 DEF Place
<1> QED BY <1>2, RangeIs

LEMMA Removed ==
    ASSUME NEW S, NEW list \in Seq(S), NEW i \in 1 .. Len(list)
    PROVE  /\ RemoveAt(list, i) \in Seq(S)
           /\ Len(RemoveAt(list, i)) = Len(list) - 1
           /\ \A j \in 1 .. (Len(list) - 1) :
                 RemoveAt(list, i)[j] = IF j < i THEN list[j] ELSE list[j + 1]
<1> DEFINE a == SubSeq(list, 1, i - 1)
           b == SubSeq(list, i + 1, Len(list))
<1>1. /\ a \in Seq(S) /\ Len(a) = i - 1
      /\ \A j \in 1 .. (i - 1) : a[j] = list[j]
  BY SubSeqProperties
<1>2. /\ b \in Seq(S) /\ Len(b) = Len(list) - i
      /\ \A j \in 1 .. (Len(list) - i) : b[j] = list[i + j]
  BY SubSeqProperties
<1>3. RemoveAt(list, i) = a \o b
  BY DEF RemoveAt
<1> HIDE DEF a, b
<1>4. /\ a \o b \in Seq(S) /\ Len(a \o b) = Len(a) + Len(b)
      /\ \A j \in 1 .. Len(a) + Len(b) :
            (a \o b)[j] = IF j <= Len(a) THEN a[j] ELSE b[j - Len(a)]
  <2>1. a \in Seq(S) /\ b \in Seq(S)
    BY <1>1, <1>2
  <2> QED BY ONLY <2>1, ConcatProperties
<1> DEFINE w == a \o b
<1>5. /\ Len(w) = Len(list) - 1
      /\ \A j \in 1 .. (Len(list) - 1) : w[j] = IF j <= i - 1 THEN a[j] ELSE b[j - (i - 1)]
  BY <1>1, <1>2, <1>4
<1> HIDE DEF w
<1>6. ASSUME NEW j \in 1 .. (Len(list) - 1)
      PROVE  w[j] = IF j < i THEN list[j] ELSE list[j + 1]
  <2>1. CASE j < i
    BY <1>1, <1>5, <2>1
  <2>2. CASE j >= i
    <3>1. j - (i - 1) \in 1 .. (Len(list) - i)
      BY <2>2
    <3>2. w[j] = b[j - (i - 1)]
      BY <1>5, <2>2
    <3>3. b[j - (i - 1)] = list[i + (j - (i - 1))]
      BY <1>2, <3>1
    <3> QED BY <2>2, <3>2, <3>3
  <2> QED BY <2>1, <2>2
<1> QED BY <1>3, <1>4, <1>5, <1>6 DEF w

LEMMA WithoutIs ==
    ASSUME NEW S, NEW list \in Seq(S), Once(list), NEW c
    PROVE  /\ Without(list, c) \in Seq(S)
           /\ Once(Without(list, c))
           /\ Range(Without(list, c)) = Range(list) \ {c}
<1>1. CASE c \notin Range(list)
  BY <1>1 DEF Without
<1>2. CASE c \in Range(list)
  <2> DEFINE i == Place(list, c)
             w == RemoveAt(list, i)
  <2>1. i \in 1 .. Len(list) /\ list[i] = c
    BY <1>2, PlaceIs
  <2>2. Without(list, c) = w
    BY <1>2 DEF Without
  <2>3. /\ w \in Seq(S) /\ Len(w) = Len(list) - 1
        /\ \A j \in 1 .. (Len(list) - 1) :
              w[j] = IF j < i THEN list[j] ELSE list[j + 1]
    BY <2>1, Removed
  <2> HIDE DEF i, w
  <2>4. Once(w)
    <3> SUFFICES ASSUME NEW j \in 1 .. Len(w), NEW k \in 1 .. Len(w), w[j] = w[k]
                 PROVE  j = k
      BY DEF Once
    <3> DEFINE old(n) == IF n < i THEN n ELSE n + 1
    <3>1. old(j) \in 1 .. Len(list) /\ old(k) \in 1 .. Len(list)
      BY <2>1, <2>3
    <3>2. list[old(j)] = list[old(k)]
      BY <2>3
    <3>3. old(j) = old(k)
      BY <3>1, <3>2 DEF Once
    <3> QED BY <2>1, <3>3
  <2>5. \A x \in Range(w) : x \in Range(list) \ {c}
    BY <2>1, <2>3, RangeIs DEF Once
  <2>6. \A x \in Range(list) \ {c} : x \in Range(w)
    <3> TAKE x \in Range(list) \ {c}
    <3>1. PICK j \in 1 .. Len(list) : list[j] = x
      BY RangeIs
    <3>2. CASE j < i
      BY <2>1, <2>3, <3>1, <3>2, RangeIs
    <3>3. CASE j > i
      <4>1. j - 1 \in 1 .. (Len(list) - 1) /\ w[j - 1] = x
        BY <2>1, <2>3, <3>1, <3>3
      <4> QED BY <4>1, <2>3, RangeIs
    <3> QED BY <2>1, <3>1, <3>2, <3>3
  <2> QED BY <2>2, <2>3, <2>4, <2>5, <2>6
<1> QED BY <1>1, <1>2

LEMMA AppendIs ==
    ASSUME NEW S, NEW list \in Seq(S), NEW c \in S
    PROVE  /\ Append(list, c) \in Seq(S)
           /\ Range(Append(list, c)) = Range(list) \cup {c}
           /\ Once(list) /\ c \notin Range(list) => Once(Append(list, c))
<1> DEFINE w == Append(list, c)
<1>1. /\ w \in Seq(S) /\ Len(w) = Len(list) + 1 /\ w[Len(list) + 1] = c
      /\ \A i \in 1 .. Len(list) : w[i] = list[i]
  BY AppendProperties
<1> HIDE DEF w
<1>2. Range(w) = Range(list) \cup {c}
  BY <1>1, RangeIs
<1>3. ASSUME Once(list), c \notin Range(list)
      PROVE  Once(w)
  <2>1. \A i \in 1 .. Len(list) : list[i] # c
    BY <1>3, RangeIs
  <2> QED BY <1>1, <1>3, <2>1 DEF Once
<1> QED BY <1>1, <1>2, <1>3 DEF w

LEMMA MarkIs ==
    ASSUME NEW s \in States, NEW c \in Clients, Once(s.pending)
    PROVE  /\ output_pending_mark(s, c) \in Seq(Clients)
           /\ Once(output_pending_mark(s, c))
           /\ Range(s.pending) \subseteq Range(output_pending_mark(s, c))
           /\ Range(output_pending_mark(s, c)) \subseteq Range(s.pending) \cup {c}
           /\ c \notin s.gone => c \in Range(output_pending_mark(s, c))
           /\ c \in s.gone => output_pending_mark(s, c) = s.pending
           /\ c \in Range(s.pending) => output_pending_mark(s, c) = s.pending
<1> s.pending \in Seq(Clients)
  BY DEF States
<1>1. CASE c \in s.gone \/ c \in Range(s.pending)
  BY <1>1 DEF output_pending_mark
<1>2. CASE c \notin s.gone /\ c \notin Range(s.pending)
  BY <1>2, AppendIs DEF output_pending_mark
<1> QED BY <1>1, <1>2

LEMMA MarkRange ==
    ASSUME NEW s \in States, NEW c \in Clients
    PROVE  /\ \A x \in Clients \ {c} :
                 x \in Range(output_pending_mark(s, c)) <=> x \in Range(s.pending)
           /\ c \notin s.gone => c \in Range(output_pending_mark(s, c))
<1> s.pending \in Seq(Clients)
  BY DEF States
<1>1. Range(Append(s.pending, c)) = Range(s.pending) \cup {c}
  BY AppendIs
<1> QED BY <1>1 DEF output_pending_mark

-----------------------------------------------------------------------------
(* What flushing a client does to it and to the others                     *)

\* What NothingLost says of one client.
Ordered(s, c) ==
    /\ s.sent[c] <= s.written[c]
    /\ s.buf[c] = [i \in 1 .. (s.written[c] - s.sent[c]) |-> s.sent[c] + i]
    /\ Len(s.buf[c]) <= s.size[c]

Same(s, t, x) ==
    /\ t.buf[x] = s.buf[x] /\ t.size[x] = s.size[x]
    /\ t.written[x] = s.written[x] /\ t.sent[x] = s.sent[x]
    /\ x \in t.connected <=> x \in s.connected
    /\ x \in t.ready <=> x \in s.ready
    /\ x \in t.listening <=> x \in s.listening
    /\ x \in Range(t.pending) <=> x \in Range(s.pending)

Elsewhere(s, t, c) ==
    /\ \A x \in Clients \ {c} : Same(s, t, x)
    /\ t.gone = s.gone /\ t.newOutput = s.newOutput /\ t.stuck = s.stuck
    /\ t.connected \subseteq s.connected /\ t.writable \subseteq s.writable

Here(s, t, c) ==
    /\ c \in t.listening => c \in t.connected
    /\ c \in t.connected => Ordered(t, c)
    /\ c \in t.connected /\ t.buf[c] # <<>> =>
          c \in t.listening /\ (c \notin t.gone => c \in Range(t.pending))
    /\ t.pending \in {s.pending, Without(s.pending, c), output_pending_mark(s, c)}

Flushes(s, t, c) == t \in States /\ Elsewhere(s, t, c) /\ Here(s, t, c)

\* A state that differs from s in these fields.
Changed(s, b, z, n, r, p, o, w, l, i, e) ==
    [s EXCEPT !.buf = b, !.size = z, !.connected = n, !.ready = r, !.pending = p,
              !.newOutput = o, !.writable = w, !.listening = l,
              !.written = i, !.sent = e]

LEMMA FieldTypes ==
    ASSUME NEW s \in States
    PROVE  /\ s.buf \in [Clients -> Seq(Nat)] /\ s.size \in [Clients -> Nat]
           /\ s.connected \in SUBSET Clients /\ s.gone \in SUBSET Clients
           /\ s.ready \in SUBSET Clients /\ s.pending \in Seq(Clients)
           /\ s.newOutput \in BOOLEAN /\ s.stuck \in BOOLEAN
           /\ s.writable \in SUBSET Clients /\ s.listening \in SUBSET Clients
           /\ s.written \in [Clients -> Nat] /\ s.sent \in [Clients -> Nat]
           /\ <<>> \in Seq(Nat)
BY DEF States

LEMMA AbortIs ==
    ASSUME NEW s \in States, NEW c \in Clients
    PROVE  Flushes(s, AbortClient(s, c), c)
<1> DEFINE t == AbortClient(s, c)
           b == [s.buf EXCEPT ![c] = <<>>]
           r == IF c \in s.connected THEN s.ready \cup {c} ELSE s.ready
<1>1. t = Changed(s, b, s.size, s.connected \ {c}, r, s.pending, s.newOutput,
                  s.writable, s.listening \ {c}, s.written, s.sent)
  BY DEF AbortClient, Changed, States
<1>2. b \in [Clients -> Seq(Nat)] /\ r \in SUBSET Clients
  BY FieldTypes
<1>3. /\ \A x \in Clients \ {c} : b[x] = s.buf[x]
      /\ \A x \in Clients \ {c} : x \in r <=> x \in s.ready
  BY FieldTypes
<1> HIDE DEF t, b, r
<1>4. /\ t \in States
      /\ t.buf = b /\ t.connected = s.connected \ {c} /\ t.listening = s.listening \ {c}
      /\ t.ready = r
      /\ t.size = s.size /\ t.written = s.written /\ t.sent = s.sent
      /\ t.pending = s.pending /\ t.writable = s.writable
      /\ t.gone = s.gone /\ t.newOutput = s.newOutput /\ t.stuck = s.stuck
  <2> DEFINE n == s.connected \ {c}
             l == s.listening \ {c}
  <2>1. n \in SUBSET Clients /\ l \in SUBSET Clients
    BY FieldTypes
  <2> HIDE DEF n, l
  <2>2. t = Changed(s, b, s.size, n, r, s.pending, s.newOutput, s.writable, l, s.written, s.sent)
    BY <1>1 DEF n, l
  <2>3. /\ t \in States
        /\ t.buf = b /\ t.connected = n /\ t.listening = l /\ t.ready = r
        /\ t.size = s.size /\ t.written = s.written /\ t.sent = s.sent
        /\ t.pending = s.pending /\ t.writable = s.writable
        /\ t.gone = s.gone /\ t.newOutput = s.newOutput /\ t.stuck = s.stuck
    BY ONLY s \in States, <1>2, <2>1, <2>2, FieldTypes DEF Changed, States
  <2> QED BY <2>3 DEF n, l
<1>5. Elsewhere(s, t, c)
  BY <1>3, <1>4 DEF Elsewhere, Same
<1>6. Here(s, t, c)
  BY <1>4 DEF Here
<1> QED BY <1>4, <1>5, <1>6 DEF Flushes, t

\* The units from e + 1 to w.
From(e, w) == [i \in 1 .. (w - e) |-> e + i]

\* The client's units that are not sent yet.
Rest(s, c) == From(s.sent[c], s.written[c])

LEMMA FromIs ==
    ASSUME NEW w \in Nat, NEW e \in Nat, e <= w
    PROVE  /\ From(e, w) \in Seq(Nat) /\ Len(From(e, w)) = w - e
           /\ \A i \in 1 .. (w - e) : From(e, w)[i] = e + i
BY DEF From

LEMMA Unsent ==
    ASSUME NEW w \in Nat, NEW e \in Nat, e <= w, NEW k \in 0 .. (w - e)
    PROVE  FirstOf(SubSeq(From(e, w), k + 1, Len(From(e, w))), Len(From(e, w)) - k)
              = From(e + k, w)
<1> DEFINE all == From(e, w)
<1>1. /\ all \in Seq(Nat) /\ Len(all) = w - e
      /\ \A i \in 1 .. (w - e) : all[i] = e + i
  BY FromIs
<1> HIDE DEF all
<1> DEFINE b == SubSeq(all, k + 1, Len(all))
<1>2. /\ Len(b) = (w - e) - k
      /\ \A i \in 1 .. ((w - e) - k) : b[i] = all[k + i]
  BY <1>1, SubSeqProperties
<1>3. \A i \in 1 .. ((w - e) - k) : b[i] = (e + k) + i
  BY <1>1, <1>2
<1> HIDE DEF b
<1>4. FirstOf(b, Len(all) - k) = [i \in 1 .. (w - (e + k)) |-> (e + k) + i]
  BY <1>1, <1>2, <1>3 DEF FirstOf
<1> QED BY <1>1, <1>4 DEF all, b, From

LEMMA KeptIs ==
    ASSUME NEW s \in States, NEW c \in s.connected,
           s.sent[c] <= s.written[c], NEW all, all = Rest(s, c),
           NEW k \in 0 .. Len(all)
    PROVE  Flushes(s, Kept(s, c, all, Len(all), k), c)
<1> DEFINE d == Len(all) - k
           f == FirstOf(SubSeq(all, k + 1, Len(all)), d)
           t == Kept(s, c, all, Len(all), k)
           b == [s.buf EXCEPT ![c] = f]
           z == [s.size EXCEPT ![c] = IF d > @ THEN d + BufSize ELSE @]
           p == output_pending_mark(s, c)
           w == s.writable \ {c}
           l == s.listening \cup {c}
           e == [s.sent EXCEPT ![c] = @ + k]
<1>0. c \in Clients
  BY FieldTypes
<1>1. /\ s.sent[c] \in Nat /\ s.written[c] \in Nat /\ s.size[c] \in Nat /\ BufSize \in Nat
  BY <1>0, FieldTypes, ConstantsAssumption
<1>2. /\ Len(all) = s.written[c] - s.sent[c]
      /\ f = From(s.sent[c] + k, s.written[c])
  <2>1. Len(all) = s.written[c] - s.sent[c]
    BY <1>1, FromIs DEF Rest
  <2>2. k \in 0 .. (s.written[c] - s.sent[c])
    BY <2>1
  <2> QED BY <1>1, <2>1, <2>2, Unsent DEF Rest
<1>3. /\ s.sent[c] + k \in Nat /\ s.sent[c] + k <= s.written[c]
      /\ d = s.written[c] - (s.sent[c] + k) /\ d \in Nat
  BY <1>1, <1>2
<1>4. f \in Seq(Nat) /\ Len(f) = d
  <2> HIDE DEF d, f
  <2> QED BY <1>1, <1>2, <1>3, FromIs
<1> HIDE DEF f, d
<1>5. t = Changed(s, b, z, s.connected, s.ready, p, s.newOutput, w, l, s.written, e)
  BY DEF Kept, Changed, States, d, f
<1>6. /\ b \in [Clients -> Seq(Nat)] /\ z \in [Clients -> Nat] /\ p \in Seq(Clients)
      /\ w \in SUBSET Clients /\ l \in SUBSET Clients /\ e \in [Clients -> Nat]
  <2>1. p \in Seq(Clients)
    BY <1>0, FieldTypes, AppendProperties DEF output_pending_mark
  <2>2. b \in [Clients -> Seq(Nat)]
    BY <1>4, FieldTypes
  <2>3. z \in [Clients -> Nat]
    BY <1>1, <1>3, FieldTypes
  <2>4. e \in [Clients -> Nat]
    BY <1>3, FieldTypes
  <2> QED BY <1>0, <2>1, <2>2, <2>3, <2>4, FieldTypes
<1>7. /\ \A x \in Clients \ {c} : b[x] = s.buf[x] /\ z[x] = s.size[x] /\ e[x] = s.sent[x]
      /\ b[c] = f /\ d <= z[c] /\ e[c] = s.sent[c] + k
  BY <1>0, <1>1, <1>3, FieldTypes
<1>8. /\ \A x \in Clients \ {c} : x \in l <=> x \in s.listening
      /\ c \in l /\ w \subseteq s.writable
  OBVIOUS
<1>9. /\ \A x \in Clients \ {c} : x \in Range(p) <=> x \in Range(s.pending)
      /\ c \notin s.gone => c \in Range(p)
  BY <1>0, MarkRange
<1>10. p = output_pending_mark(s, c)
  OBVIOUS
<1> HIDE DEF t, b, z, p, w, l, e
<1>11. /\ t \in States
       /\ t.buf = b /\ t.size = z /\ t.connected = s.connected /\ t.ready = s.ready
       /\ t.pending = p /\ t.newOutput = s.newOutput /\ t.writable = w
       /\ t.listening = l /\ t.written = s.written /\ t.sent = e
       /\ t.gone = s.gone /\ t.stuck = s.stuck
  BY ONLY s \in States, <1>5, <1>6, FieldTypes DEF Changed, States
<1>12. Elsewhere(s, t, c)
  BY <1>7, <1>8, <1>9, <1>11 DEF Elsewhere, Same
<1>13. Here(s, t, c)
  <2>1. Ordered(t, c)
    BY <1>2, <1>3, <1>4, <1>7, <1>11 DEF Ordered, From
  <2> QED BY <2>1, <1>8, <1>9, <1>10, <1>11 DEF Here
<1> QED BY <1>11, <1>12, <1>13 DEF Flushes, t

LEMMA FlushedIs ==
    ASSUME NEW s \in States, NEW c \in s.connected, Once(s.pending),
           s.sent[c] <= s.written[c], NEW n, n = s.written[c] - s.sent[c]
    PROVE  /\ Flushes(s, Flushed(s, c, n), c)
           /\ Flushes(s, [Flushed(s, c, n) EXCEPT !.writable = @ \ {c}], c)
<1> SUFFICES ASSUME NEW w \in {s.writable, s.writable \ {c}},
                    NEW t, t = [Flushed(s, c, n) EXCEPT !.writable = w]
             PROVE  Flushes(s, t, c)
  <2>1. Flushed(s, c, n) = [Flushed(s, c, n) EXCEPT !.writable = s.writable]
    BY DEF Flushed, States
  <2>2. Flushed(s, c, n).writable = s.writable
    BY DEF Flushed, States
  <2> QED BY <2>1, <2>2
<1> DEFINE b == [s.buf EXCEPT ![c] = <<>>]
           z == [s.size EXCEPT ![c] = BufSize]
           p == Without(s.pending, c)
           e == [s.sent EXCEPT ![c] = @ + n]
<1>0. c \in Clients
  BY FieldTypes
<1>1. /\ s.sent[c] \in Nat /\ s.written[c] \in Nat /\ BufSize \in Nat
  BY <1>0, FieldTypes, ConstantsAssumption
<1>2. t = Changed(s, b, z, s.connected, s.ready, p, s.newOutput, w, s.listening, s.written, e)
  BY DEF Flushed, Changed, States
<1>3. /\ b \in [Clients -> Seq(Nat)] /\ z \in [Clients -> Nat] /\ p \in Seq(Clients)
      /\ w \in SUBSET Clients /\ e \in [Clients -> Nat]
  BY <1>0, <1>1, FieldTypes, WithoutIs
<1>4. /\ \A x \in Clients \ {c} : b[x] = s.buf[x] /\ z[x] = s.size[x] /\ e[x] = s.sent[x]
      /\ b[c] = <<>> /\ z[c] = BufSize /\ e[c] = s.written[c]
  BY <1>0, <1>1, FieldTypes
<1>5. \A x \in Clients \ {c} : x \in Range(p) <=> x \in Range(s.pending)
  BY <1>0, FieldTypes, WithoutIs
<1>6. p = Without(s.pending, c) /\ w \subseteq s.writable
  OBVIOUS
<1> HIDE DEF b, z, p, e
<1>7. /\ t \in States
      /\ t.buf = b /\ t.size = z /\ t.connected = s.connected /\ t.ready = s.ready
      /\ t.pending = p /\ t.newOutput = s.newOutput /\ t.writable = w
      /\ t.listening = s.listening /\ t.written = s.written /\ t.sent = e
      /\ t.gone = s.gone /\ t.stuck = s.stuck
  BY ONLY s \in States, <1>2, <1>3, FieldTypes DEF Changed, States
<1>8. Elsewhere(s, t, c)
  BY <1>4, <1>5, <1>6, <1>7 DEF Elsewhere, Same
<1>9. Here(s, t, c)
  <2>1. b[c] = [i \in 1 .. (s.written[c] - e[c]) |-> e[c] + i]
    BY <1>1, <1>4
  <2>2. Ordered(t, c)
    BY <2>1, <1>1, <1>4, <1>7 DEF Ordered
  <2> QED BY <2>2, <1>4, <1>6, <1>7 DEF Here
<1> QED BY <1>7, <1>8, <1>9 DEF Flushes

\* The client was told of k units more before it was aborted.
LEMMA AbortedIs ==
    ASSUME NEW s \in States, NEW c \in Clients, NEW k \in Nat
    PROVE  Flushes(s, AbortClient([s EXCEPT !.sent[c] = @ + k], c), c)
<1> DEFINE u == [s EXCEPT !.sent[c] = @ + k]
           t == AbortClient(u, c)
           e == [s.sent EXCEPT ![c] = @ + k]
<1>1. e \in [Clients -> Nat] /\ \A x \in Clients \ {c} : e[x] = s.sent[x]
  BY FieldTypes
<1>2. u = [s EXCEPT !.sent = e]
  BY DEF States
<1> HIDE DEF e
<1>3. /\ u \in States /\ u.sent = e
      /\ u.buf = s.buf /\ u.size = s.size /\ u.connected = s.connected
      /\ u.ready = s.ready /\ u.pending = s.pending /\ u.newOutput = s.newOutput
      /\ u.writable = s.writable /\ u.listening = s.listening
      /\ u.written = s.written /\ u.gone = s.gone /\ u.stuck = s.stuck
  BY <1>1, <1>2 DEF States
<1> HIDE DEF u
<1>4. Flushes(u, t, c)
  BY <1>3, AbortIs
<1>5. t.connected = u.connected \ {c}
  BY <1>3 DEF AbortClient, States
<1> HIDE DEF t
<1>6. Elsewhere(s, t, c)
  BY <1>1, <1>3, <1>4 DEF Flushes, Elsewhere, Same
<1>7. t.pending \in {s.pending, Without(s.pending, c), output_pending_mark(s, c)}
  BY <1>3, <1>4 DEF Flushes, Here, output_pending_mark
<1>8. Here(s, t, c)
  BY <1>4, <1>5, <1>7 DEF Flushes, Here
<1> QED BY <1>4, <1>6, <1>8 DEF Flushes, t, u

LEMMA WriteLoopIs ==
    ASSUME NEW s \in States, NEW c \in Clients, Once(s.pending),
           NEW extra \in Seq(Nat), NEW n, n = Len(s.buf[c] \o extra),
           c \in s.connected =>
               s.sent[c] <= s.written[c] /\ s.buf[c] \o extra = Rest(s, c),
           NEW t \in WriteLoop(s, c, extra, n)
    PROVE  Flushes(s, t, c)
<1> DEFINE all == s.buf[c] \o extra
<1>1. all \in Seq(Nat)
  BY FieldTypes, ConcatProperties
<1> HIDE DEF all
<1>2. n \in Nat /\ n = Len(all)
  BY <1>1 DEF all
<1>3. CASE c \notin s.connected \/ c \in hungUp
  BY <1>3, AbortIs DEF WriteLoop
<1>4. CASE c \in s.connected /\ c \notin hungUp
  <2>1. s.sent[c] <= s.written[c] /\ all = Rest(s, c)
    BY <1>4 DEF all
  <2>2. n = s.written[c] - s.sent[c]
    BY <1>2, <2>1, FromIs, FieldTypes DEF Rest
  <2>3. \/ t \in Blocked(s, c, all, n)
        \/ t \in {Flushed(s, c, n), [Flushed(s, c, n) EXCEPT !.writable = @ \ {c}]}
    BY <1>2, <1>4 DEF WriteLoop, all
  <2>4. CASE t \in Blocked(s, c, all, n)
    <3>1. Taken(s, c, all, n) \subseteq 0 .. Len(all)
      BY <1>2 DEF Taken
    <3>2. CASE \E k \in Taken(s, c, all, n) : t = Kept(s, c, all, n, k)
      BY <1>2, <1>4, <2>1, <3>1, <3>2, KeptIs
    <3>3. CASE \E k \in Taken(s, c, all, n) :
                   t = AbortClient([s EXCEPT !.sent[c] = @ + k], c)
      BY <1>2, <3>1, <3>3, AbortedIs
    <3> QED BY <2>4, <3>2, <3>3 DEF Blocked
  <2>5. CASE t \in {Flushed(s, c, n), [Flushed(s, c, n) EXCEPT !.writable = @ \ {c}]}
    BY <1>4, <2>1, <2>2, <2>5, FlushedIs
  <2> QED BY <2>3, <2>4, <2>5
<1> QED BY <1>3, <1>4

\* There is no client that records, and FlushCallback changes nothing.
LEMMA FlushCallbackIs ==
    ASSUME Recorder = NoClient, NEW s
    PROVE  FlushCallback(s) = {s}
BY DEF FlushCallback, RecordFlushReplyBuffer

LEMMA FlushClientIs ==
    ASSUME Recorder = NoClient,
           NEW s \in States, NEW c \in Clients, Once(s.pending),
           s.listening \subseteq s.connected,
           NEW extra \in Seq(Nat),
           c \in s.connected =>
               s.sent[c] <= s.written[c] /\ s.buf[c] \o extra = Rest(s, c),
           NEW t \in FlushClient(s, c, extra)
    PROVE  Flushes(s, t, c)
<1> DEFINE n == Len(s.buf[c]) + Len(extra)
<1>1. s.buf[c] \in Seq(Nat)
  BY FieldTypes
<1>2. n = Len(s.buf[c] \o extra) /\ n \in Nat
  BY <1>1, ConcatProperties
<1>3. CASE n = 0
  <2>1. t = s
    BY <1>3 DEF FlushClient
  <2>2. s.buf[c] = <<>>
    BY <1>1, <1>3
  <2>3. c \in s.connected => Ordered(s, c)
    <3>1. CASE c \in s.connected
      <4>1. s.sent[c] <= s.written[c] /\ <<>> = Rest(s, c)
        BY <1>1, <1>3, <2>2, <3>1
      <4>2. s.size[c] \in Nat
        BY FieldTypes
      <4> QED BY <2>2, <4>1, <4>2 DEF Ordered, Rest, From
    <3> QED BY <3>1
  <2> QED BY <2>1, <2>2, <2>3 DEF Flushes, Elsewhere, Same, Here
<1>4. CASE n # 0
  <2>1. t \in WriteLoop(s, c, extra, n)
    BY <1>4, FlushCallbackIs DEF FlushClient
  <2> QED BY <1>2, <2>1, WriteLoopIs
<1> QED BY <1>3, <1>4

-----------------------------------------------------------------------------
(* The invariant                                                           *)

\* Who has output is on the list, except for the clients of E, which are being
\* written to or closed down.
SoundBut(s, E) ==
    /\ s \in States /\ s.listening \subseteq s.connected /\ Once(s.pending)
    /\ s.connected \cap s.gone \subseteq E
    /\ \A x \in s.connected \ E :
          Ordered(s, x) /\ (s.buf[x] # <<>> => x \in Range(s.pending))

Sound(s) == SoundBut(s, {})

\* Who has output is polled, or there will be a flush.
OwedBut(s, E) ==
    \A x \in s.connected \ E :
        s.buf[x] # <<>> => x \in s.listening \/ s.newOutput

Owed(s) == OwedBut(s, {})

Settled(s, x) == x \in s.listening \/ (x \in s.ready /\ s.newOutput)

\* x is not before a on the list.
Comes(list, a, x) ==
    \E i, j \in 1 .. Len(list) : i <= j /\ list[i] = a /\ list[j] = x

\* Who was flushed is polled, or is ready and there will be another flush.
Flushable ==
    /\ at # NoClient => at \in Range(os.pending)
    /\ \A x \in os.connected :
          os.buf[x] # <<>> =>
              Settled(os, x) \/ (at # NoClient /\ Comes(os.pending, at, x))

NoneOwed ==
    /\ pc \in {"Work", "Callbacks"} => Owed(os)
    /\ pc = "Flush" => Flushable
    /\ pc = "Wait" => \A x \in os.connected : os.buf[x] # <<>> => Settled(os, x)

Polled ==
    /\ os.listening \cap os.writable \subseteq edge \cup reported
    /\ reported # {} => pc = "Callbacks"

IInv == TypeOK /\ Sound(os) /\ NoneOwed /\ Polled

LEMMA FlushesSound ==
    ASSUME NEW s, NEW c \in Clients, SoundBut(s, {c}), NEW t, Flushes(s, t, c)
    PROVE  /\ SoundBut(t, {c}) /\ t.writable \subseteq s.writable
           /\ c \notin s.gone => Sound(t)
           /\ OwedBut(s, {c}) => Owed(t)
<1>1. s \in States /\ t \in States
  BY DEF SoundBut, Flushes
<1>2. Once(t.pending)
  <2>1. CASE t.pending = s.pending
    BY <2>1 DEF SoundBut
  <2>2. CASE t.pending = Without(s.pending, c)
    BY <1>1, <2>2, FieldTypes, WithoutIs DEF SoundBut
  <2>3. CASE t.pending = output_pending_mark(s, c)
    BY <1>1, <2>3, MarkIs DEF SoundBut
  <2> QED BY <2>1, <2>2, <2>3 DEF Flushes, Here
<1>3. \A x \in Clients \ {c} : Same(s, t, x)
  BY DEF Flushes, Elsewhere
<1>4. /\ t.gone = s.gone /\ t.connected \subseteq s.connected /\ t.newOutput = s.newOutput
      /\ t.writable \subseteq s.writable
  BY DEF Flushes, Elsewhere
<1>5. t.connected \subseteq Clients /\ t.listening \subseteq Clients
  BY <1>1, FieldTypes
<1>6. t.listening \subseteq t.connected
  <2> SUFFICES ASSUME NEW x \in t.listening PROVE x \in t.connected
    OBVIOUS
  <2>1. CASE x = c
    BY <2>1 DEF Flushes, Here
  <2>2. CASE x # c
    BY <1>3, <1>5, <2>2 DEF Same, SoundBut
  <2> QED BY <2>1, <2>2
<1>7. \A x \in t.connected \ {c} :
         Ordered(t, x) /\ (t.buf[x] # <<>> => x \in Range(t.pending))
  <2> TAKE x \in t.connected \ {c}
  <2>1. Ordered(s, x) /\ (s.buf[x] # <<>> => x \in Range(s.pending))
    BY <1>4 DEF SoundBut
  <2>2. Same(s, t, x)
    BY <1>3, <1>5
  <2> QED BY <2>1, <2>2 DEF Same, Ordered
<1>8. SoundBut(t, {c})
  BY <1>1, <1>2, <1>4, <1>6, <1>7 DEF SoundBut
<1>9. c \notin s.gone => Sound(t)
  BY <1>4, <1>8 DEF Sound, SoundBut, Flushes, Here
<1>10. OwedBut(s, {c}) => Owed(t)
  <2> SUFFICES ASSUME OwedBut(s, {c}), NEW x \in t.connected, t.buf[x] # <<>>
               PROVE  x \in t.listening \/ t.newOutput
    BY DEF Owed, OwedBut
  <2>1. CASE x = c
    BY <2>1 DEF Flushes, Here
  <2>2. CASE x # c
    <3>1. Same(s, t, x)
      BY <1>3, <1>5, <2>2
    <3> QED BY <1>4, <2>2, <3>1 DEF Same, OwedBut
  <2> QED BY <2>1, <2>2
<1> QED BY <1>4, <1>8, <1>9, <1>10

\* n units after the first w.
After(w, n) == [i \in 1 .. n |-> w + i]

LEMMA UnitsFollow ==
    ASSUME NEW w \in Nat, NEW e \in Nat, e <= w, NEW n \in Nat
    PROVE  /\ From(e, w) \o After(w, n) = From(e, w + n)
           /\ Len(From(e, w) \o After(w, n)) = Len(From(e, w)) + n
<1> DEFINE u == After(w, n)
<1>1. u \in Seq(Nat) /\ Len(u) = n /\ \A i \in 1 .. n : u[i] = w + i
  BY DEF After
<1> DEFINE f == From(e, w)
           g == From(e, w + n)
<1>2. /\ f \in Seq(Nat) /\ Len(f) = w - e /\ \A i \in 1 .. (w - e) : f[i] = e + i
      /\ g \in Seq(Nat) /\ Len(g) = (w + n) - e
      /\ \A i \in 1 .. ((w + n) - e) : g[i] = e + i
  <2>1. w + n \in Nat /\ e <= w + n
    OBVIOUS
  <2> QED BY <2>1, FromIs
<1> HIDE DEF f, g, u
<1> DEFINE h == f \o u
<1>3. /\ h \in Seq(Nat) /\ Len(h) = (w - e) + n
      /\ \A i \in 1 .. (w - e) + n :
            h[i] = IF i <= w - e THEN f[i] ELSE u[i - (w - e)]
  <2>1. /\ h \in Seq(Nat) /\ Len(h) = Len(f) + Len(u)
        /\ \A i \in 1 .. Len(f) + Len(u) :
              h[i] = IF i <= Len(f) THEN f[i] ELSE u[i - Len(f)]
    BY <1>1, <1>2, ConcatProperties
  <2> HIDE DEF h
  <2> QED BY <1>1, <1>2, <2>1
<1> HIDE DEF h
<1>4. h = g
  <2>1. ASSUME NEW i \in 1 .. (w - e) + n
        PROVE  h[i] = e + i
    <3>1. CASE i <= w - e
      <4>1. i \in 1 .. (w - e) /\ i \in 1 .. ((w - e) + n)
        BY <3>1
      <4>2. f[i] = e + i
        BY <1>2, <4>1
      <4>3. h[i] = f[i]
        BY <1>3, <3>1, <4>1
      <4> QED BY <4>2, <4>3
    <3>2. CASE i > w - e
      <4>1. i - (w - e) \in 1 .. n
        BY <3>2
      <4>2. u[i - (w - e)] = w + (i - (w - e))
        BY <1>1, <4>1
      <4> QED BY <1>3, <3>2, <4>2
    <3> QED BY <3>1, <3>2
  <2>2. \A i \in 1 .. Len(h) : h[i] = g[i]
    BY <1>2, <1>3, <2>1
  <2>3. Len(h) = Len(g)
    BY <1>2, <1>3
  <2> QED BY <1>2, <1>3, <2>2, <2>3, SeqEqual
<1> QED BY <1>1, <1>2, <1>3, <1>4 DEF f, g, h, u

-----------------------------------------------------------------------------
(* Writing and closing down                                                *)

LEMMA SoundIs ==
    ASSUME NEW s, Sound(s), NEW c \in Clients, c \notin s.gone
    PROVE  SoundBut(s, {c}) /\ (Owed(s) => OwedBut(s, {c}))
BY DEF Sound, SoundBut, Owed, OwedBut

LEMMA UnlistedIs ==
    ASSUME NEW s, Sound(s), Owed(s), NEW c \in Clients, c \notin s.gone,
           NEW n \in Nat, NEW u, u = Unlisted(Numbered(s, c, n), c)
    PROVE  /\ SoundBut(u, {c}) /\ OwedBut(u, {c})
           /\ u.gone = s.gone /\ u.writable = s.writable
           /\ u.buf = s.buf /\ u.sent = s.sent /\ u.connected = s.connected
           /\ u.written[c] = s.written[c] + n
<1> DEFINE p == Without(s.pending, c)
           o == IF p = <<>> THEN FALSE ELSE s.newOutput
           i == [s.written EXCEPT ![c] = @ + n]
<1>1. s \in States
  BY DEF Sound, SoundBut
<1>2. u = Changed(s, s.buf, s.size, s.connected, s.ready, p, o, s.writable,
                  s.listening, i, s.sent)
  BY <1>1 DEF Unlisted, Numbered, Changed, States
<1>3. /\ p \in Seq(Clients) /\ Once(p) /\ Range(p) = Range(s.pending) \ {c}
  BY <1>1, FieldTypes, WithoutIs DEF Sound, SoundBut
<1>4. /\ o \in BOOLEAN /\ i \in [Clients -> Nat]
      /\ \A x \in Clients \ {c} : i[x] = s.written[x]
      /\ i[c] = s.written[c] + n
  <2>1. o \in BOOLEAN
    BY <1>1, FieldTypes
  <2>2. s.written[c] + n \in Nat
    BY <1>1, FieldTypes
  <2> QED BY <1>1, <2>1, <2>2, FieldTypes
<1>5. p # <<>> => o = s.newOutput
  OBVIOUS
<1> HIDE DEF p, o, i
<1>6. /\ u \in States
      /\ u.buf = s.buf /\ u.size = s.size /\ u.connected = s.connected
      /\ u.ready = s.ready /\ u.pending = p /\ u.newOutput = o
      /\ u.writable = s.writable /\ u.listening = s.listening
      /\ u.written = i /\ u.sent = s.sent
      /\ u.gone = s.gone /\ u.stuck = s.stuck
  BY ONLY <1>1, <1>2, <1>3, <1>4, FieldTypes DEF Changed, States
<1>7. s.connected \subseteq Clients
  BY <1>1, FieldTypes
<1>8. SoundBut(u, {c})
  <2>1. ASSUME NEW x \in u.connected \ {c}
        PROVE  Ordered(u, x) /\ (u.buf[x] # <<>> => x \in Range(u.pending))
    <3>1. Ordered(s, x) /\ (s.buf[x] # <<>> => x \in Range(s.pending))
      BY <1>6 DEF Sound, SoundBut
    <3>2. i[x] = s.written[x]
      BY <1>4, <1>6, <1>7
    <3> QED BY <1>3, <1>6, <3>1, <3>2 DEF Ordered
  <2> QED BY <1>3, <1>6, <2>1 DEF Sound, SoundBut
<1>9. OwedBut(u, {c})
  <2> SUFFICES ASSUME NEW x \in s.connected \ {c}, s.buf[x] # <<>>
               PROVE  x \in s.listening \/ o
    BY <1>6 DEF OwedBut
  <2>1. x \in Range(p)
    BY <1>3 DEF Sound, SoundBut
  <2>2. p # <<>>
    BY <1>3, <2>1, RangeIs
  <2> QED BY <1>5, <2>2 DEF Owed, OwedBut
<1> QED BY <1>4, <1>6, <1>8, <1>9

LEMMA BufferedIs ==
    ASSUME NEW s, Sound(s), NEW c \in Clients, c \notin s.gone,
           NEW n \in Nat, ~WritesThrough(s, c, n),
           NEW t, t = Buffered(Numbered(s, c, n), c, Units(s, c, n))
    PROVE  Sound(t) /\ Owed(t) /\ t.writable = s.writable
<1> DEFINE b == [s.buf EXCEPT ![c] = @ \o Units(s, c, n)]
           p == output_pending_mark(s, c)
           i == [s.written EXCEPT ![c] = @ + n]
<1>1. s \in States
  BY DEF Sound, SoundBut
<1>2. t = Changed(s, b, s.size, s.connected, s.ready, p, TRUE, s.writable,
                  s.listening, i, s.sent)
  BY <1>1 DEF Buffered, Numbered, Changed, States, output_pending_mark
<1>3. /\ p \in Seq(Clients) /\ Once(p) /\ c \in Range(p)
      /\ Range(s.pending) \subseteq Range(p)
  BY <1>1, MarkIs DEF Sound, SoundBut
<1>4. /\ s.buf[c] \in Seq(Nat) /\ s.written[c] \in Nat /\ s.sent[c] \in Nat
      /\ s.size[c] \in Nat
  BY <1>1, FieldTypes
<1>5. Units(s, c, n) \in Seq(Nat) /\ Len(Units(s, c, n)) = n
  BY <1>4 DEF Units
<1>6. s.buf[c] \o Units(s, c, n) \in Seq(Nat)
  BY <1>4, <1>5, ConcatProperties
<1>7. /\ b \in [Clients -> Seq(Nat)] /\ i \in [Clients -> Nat]
      /\ \A x \in Clients \ {c} : b[x] = s.buf[x] /\ i[x] = s.written[x]
      /\ b[c] = s.buf[c] \o Units(s, c, n) /\ i[c] = s.written[c] + n
  BY <1>1, <1>4, <1>6, FieldTypes
<1> HIDE DEF b, p, i
<1>8. /\ t \in States
      /\ t.buf = b /\ t.size = s.size /\ t.connected = s.connected
      /\ t.ready = s.ready /\ t.pending = p /\ t.newOutput = TRUE
      /\ t.writable = s.writable /\ t.listening = s.listening
      /\ t.written = i /\ t.sent = s.sent
      /\ t.gone = s.gone /\ t.stuck = s.stuck
  BY ONLY <1>1, <1>2, <1>3, <1>7, FieldTypes DEF Changed, States
<1>9. c \in s.connected => Ordered(t, c)
  <2> SUFFICES ASSUME c \in s.connected PROVE Ordered(t, c)
    OBVIOUS
  <2>1. /\ s.sent[c] <= s.written[c]
        /\ s.buf[c] = From(s.sent[c], s.written[c])
    BY DEF Sound, SoundBut, Ordered, From
  <2>2. Units(s, c, n) = After(s.written[c], n)
    BY DEF Units, After
  <2>3. /\ b[c] = From(s.sent[c], s.written[c] + n)
        /\ Len(b[c]) = Len(s.buf[c]) + n
    <3> DEFINE e == s.sent[c]
               w == s.written[c]
               new == Units(s, c, n)
    <3>1. w \in Nat /\ e \in Nat /\ e <= w /\ n \in Nat /\ new = After(w, n)
      BY <1>4, <2>1, <2>2
    <3>2. s.buf[c] = From(e, w) /\ b[c] = s.buf[c] \o new
      BY <1>7, <2>1
    <3> HIDE DEF e, w, new
    <3>3. /\ From(e, w) \o new = From(e, w + n)
          /\ Len(From(e, w) \o new) = Len(From(e, w)) + n
      BY ONLY <3>1, UnitsFollow
    <3> QED BY <3>2, <3>3 DEF e, w
  <2>4. Len(b[c]) <= s.size[c]
    BY <1>4, <2>3 DEF WritesThrough
  <2>5. s.sent[c] <= i[c]
    BY <1>4, <1>7, <2>1
  <2> QED BY <1>7, <1>8, <2>3, <2>4, <2>5 DEF Ordered, From
<1>10. ASSUME NEW x \in t.connected
       PROVE  Ordered(t, x) /\ (t.buf[x] # <<>> => x \in Range(t.pending))
  <2>1. CASE x = c
    BY <1>3, <1>8, <1>9, <2>1
  <2>2. CASE x # c
    <3>1. Ordered(s, x) /\ (s.buf[x] # <<>> => x \in Range(s.pending))
      BY <1>8 DEF Sound, SoundBut
    <3>2. i[x] = s.written[x] /\ b[x] = s.buf[x]
      BY <1>1, <1>7, <1>8, <2>2, FieldTypes
    <3> QED BY <1>3, <1>8, <3>1, <3>2 DEF Ordered
  <2> QED BY <2>1, <2>2
<1>11. Sound(t)
  BY <1>3, <1>8, <1>10 DEF Sound, SoundBut
<1>12. Owed(t)
  BY <1>8 DEF Owed, OwedBut
<1> QED BY <1>8, <1>11, <1>12

LEMMA WriteUnitsSound ==
    ASSUME Recorder = NoClient, NEW s, Sound(s), Owed(s),
           NEW c \in Clients, c \notin s.gone, NEW n \in Nat,
           NEW t \in WriteUnits(s, c, n)
    PROVE  Sound(t) /\ Owed(t) /\ t.writable \subseteq s.writable
<1>1. s \in States
  BY DEF Sound, SoundBut
<1>2. CASE t \in Unallocated(s, c)
  <2>1. t = AbortClient(s, c)
    BY <1>2 DEF Unallocated
  <2> QED BY <1>1, <2>1, AbortIs, SoundIs, FlushesSound
<1>3. CASE WritesThrough(s, c, n)
           /\ t \in FlushClient(Unlisted(Numbered(s, c, n), c), c, Units(s, c, n))
  <2> DEFINE u == Unlisted(Numbered(s, c, n), c)
             new == Units(s, c, n)
  <2>1. /\ SoundBut(u, {c}) /\ OwedBut(u, {c})
        /\ u.gone = s.gone /\ u.writable = s.writable
        /\ u.buf = s.buf /\ u.sent = s.sent /\ u.connected = s.connected
        /\ u.written[c] = s.written[c] + n
    BY UnlistedIs
  <2>2. t \in FlushClient(u, c, new)
    BY <1>3
  <2>3. s.written[c] \in Nat /\ s.sent[c] \in Nat
    BY <1>1, FieldTypes
  <2>4. new = After(s.written[c], n)
    BY DEF Units, After
  <2>5. new \in Seq(Nat)
    BY <2>3 DEF Units
  <2> HIDE DEF u, new
  <2>6. c \in u.connected =>
            u.sent[c] <= u.written[c] /\ u.buf[c] \o new = Rest(u, c)
    <3> SUFFICES ASSUME c \in s.connected
                 PROVE  u.sent[c] <= u.written[c] /\ u.buf[c] \o new = Rest(u, c)
      BY <2>1
    <3>1. /\ s.sent[c] <= s.written[c]
          /\ s.buf[c] = From(s.sent[c], s.written[c])
      BY DEF Sound, SoundBut, Ordered, From
    <3>2. s.buf[c] \o new = From(s.sent[c], s.written[c] + n)
      <4> DEFINE e == s.sent[c]
                 w == s.written[c]
      <4>1. w \in Nat /\ e \in Nat /\ e <= w /\ n \in Nat /\ new = After(w, n)
        BY <2>3, <2>4, <3>1
      <4> HIDE DEF e, w
      <4>2. From(e, w) \o new = From(e, w + n)
        BY ONLY <4>1, UnitsFollow
      <4> QED BY <3>1, <4>2 DEF e, w
    <3> QED BY <2>1, <2>3, <3>1, <3>2 DEF Rest
  <2>7. u \in States /\ u.listening \subseteq u.connected /\ Once(u.pending)
    BY <2>1 DEF SoundBut
  <2>8. Flushes(u, t, c)
    BY <2>2, <2>5, <2>6, <2>7, FlushClientIs
  <2> QED BY <2>1, <2>8, FlushesSound
<1>4. CASE ~WritesThrough(s, c, n) /\ t = Buffered(Numbered(s, c, n), c, Units(s, c, n))
  BY <1>4, BufferedIs
<1> QED BY <1>2, <1>3, <1>4 DEF WriteUnits

LEMMA ClosedIs ==
    ASSUME Recorder = NoClient, NEW s, NEW c \in Clients, SoundBut(s, {c}), OwedBut(s, {c}),
           NEW t, t = Closed(s, c)
    PROVE  Sound(t) /\ Owed(t) /\ t.writable = s.writable
<1> DEFINE b == [s.buf EXCEPT ![c] = <<>>]
           n == s.connected \ {c}
           r == s.ready \ {c}
           p == Without(s.pending, c)
           l == s.listening \ {c}
<1>1. s \in States
  BY DEF SoundBut
<1>2. c # Recorder
  BY ConstantsAssumption
<1>3. t = Changed(s, b, s.size, n, r, p, s.newOutput, s.writable, l, s.written, s.sent)
  BY <1>1, <1>2 DEF Closed, Changed, States
<1>4. /\ p \in Seq(Clients) /\ Once(p) /\ Range(p) = Range(s.pending) \ {c}
  BY <1>1, FieldTypes, WithoutIs DEF SoundBut
<1>5. /\ b \in [Clients -> Seq(Nat)] /\ n \in SUBSET Clients /\ r \in SUBSET Clients
      /\ l \in SUBSET Clients
      /\ \A x \in Clients \ {c} : b[x] = s.buf[x]
  BY <1>1, FieldTypes
<1>6. n = s.connected \ {c} /\ l = s.listening \ {c}
  OBVIOUS
<1> HIDE DEF b, n, r, p, l
<1>7. /\ t \in States
      /\ t.buf = b /\ t.size = s.size /\ t.connected = n /\ t.ready = r
      /\ t.pending = p /\ t.newOutput = s.newOutput /\ t.writable = s.writable
      /\ t.listening = l /\ t.written = s.written /\ t.sent = s.sent
      /\ t.gone = s.gone /\ t.stuck = s.stuck
  BY ONLY <1>1, <1>3, <1>4, <1>5, FieldTypes DEF Changed, States
<1>8. ASSUME NEW x \in t.connected
      PROVE  Ordered(t, x) /\ (t.buf[x] # <<>> => x \in Range(t.pending))
  <2>1. Ordered(s, x) /\ (s.buf[x] # <<>> => x \in Range(s.pending))
    BY <1>6, <1>7 DEF SoundBut
  <2>2. b[x] = s.buf[x] /\ x # c
    BY <1>5, <1>6, <1>7
  <2> QED BY <1>4, <1>7, <2>1, <2>2 DEF Ordered
<1>9. Sound(t)
  BY <1>4, <1>6, <1>7, <1>8 DEF Sound, SoundBut
<1>10. Owed(t)
  BY <1>5, <1>6, <1>7 DEF Owed, OwedBut
<1> QED BY <1>7, <1>9, <1>10

-----------------------------------------------------------------------------
(* The loop of FlushAllOutput                                              *)

LEMMA FirstIs ==
    ASSUME os.pending \in Seq(Clients)
    PROVE  /\ First \in Clients \cup {NoClient}
           /\ First # NoClient => First \in Range(os.pending)
           /\ \A x \in Range(os.pending) :
                 First # NoClient /\ Comes(os.pending, First, x)
<1> DEFINE l == os.pending
<1>1. CASE l = <<>>
  <2>1. First = NoClient
    BY <1>1 DEF First
  <2>2. Range(l) = {}
    BY <1>1 DEF Range
  <2> QED BY <2>1, <2>2
<1>2. CASE l # <<>>
  <2>1. Len(l) \in Nat /\ Len(l) >= 1
    BY <1>2
  <2>2. First = l[1] /\ l[1] \in Clients
    BY <1>2, <2>1 DEF First
  <2>3. First \in Range(l) /\ First # NoClient
    BY <2>1, <2>2, RangeIs, ConstantsAssumption
  <2>4. \A x \in Range(l) : Comes(l, First, x)
    <3> TAKE x \in Range(l)
    <3>1. PICK j \in 1 .. Len(l) : l[j] = x
      BY RangeIs
    <3>2. 1 \in 1 .. Len(l) /\ 1 <= j
      BY <2>1, <3>1
    <3> QED BY <2>2, <3>1, <3>2 DEF Comes
  <2> QED BY <2>2, <2>3, <2>4
<1> QED BY <1>1, <1>2

LEMMA FollowingIs ==
    ASSUME os.pending \in Seq(Clients), Once(os.pending),
           NEW a \in Range(os.pending),
           NEW list \in {os.pending, Without(os.pending, a)}
    PROVE  /\ Following(a) \in Clients \cup {NoClient}
           /\ Following(a) # NoClient => Following(a) \in Range(list)
           /\ \A x \in Clients \ {a} :
                 Comes(os.pending, a, x) =>
                     Following(a) # NoClient /\ Comes(list, Following(a), x)
<1> DEFINE l == os.pending
           i == Place(l, a)
<1>1. i \in 1 .. Len(l) /\ l[i] = a
  BY PlaceIs
<1>2. Following(a) = IF i = Len(l) THEN NoClient ELSE l[i + 1]
  BY DEF Following
<1>3. Without(l, a) = RemoveAt(l, i)
  BY DEF Without
<1>4. /\ RemoveAt(l, i) \in Seq(Clients) /\ Len(RemoveAt(l, i)) = Len(l) - 1
      /\ \A j \in 1 .. (Len(l) - 1) :
            RemoveAt(l, i)[j] = IF j < i THEN l[j] ELSE l[j + 1]
  BY <1>1, Removed
<1> DEFINE w == RemoveAt(l, i)
<1> HIDE DEF i, w
<1>5. list = l \/ list = w
  BY <1>3 DEF w
<1>6. CASE i = Len(l)
  <2>1. Following(a) = NoClient
    BY <1>2, <1>6
  <2>2. \A x \in Clients \ {a} : ~Comes(l, a, x)
    BY <1>1, <1>6 DEF Comes, Once
  <2> QED BY <2>1, <2>2
<1>7. CASE i # Len(l)
  <2> DEFINE f == l[i + 1]
  <2>1. i + 1 \in 1 .. Len(l) /\ i \in 1 .. (Len(l) - 1)
    BY <1>1, <1>7
  <2>2. f \in Clients
    BY <2>1
  <2>3. Following(a) = f /\ f # NoClient
    BY <1>2, <1>7, <2>2, ConstantsAssumption
  <2>4. w[i] = f
    BY <1>1, <1>4, <2>1 DEF w
  <2>5. f \in Range(list)
    <3>1. f \in Range(l)
      BY <2>1, RangeIs
    <3>2. f \in Range(w)
      BY <1>4, <2>1, <2>4, RangeIs DEF w
    <3> QED BY <1>5, <3>1, <3>2
  <2>6. ASSUME NEW x \in Clients \ {a}, Comes(l, a, x)
        PROVE  Comes(list, f, x)
    <3>1. PICK k \in 1 .. Len(l), j \in 1 .. Len(l) : k <= j /\ l[k] = a /\ l[j] = x
      BY <2>6 DEF Comes
    <3>2. k = i
      BY <1>1, <3>1 DEF Once
    <3>3. i + 1 <= j
      BY <1>1, <3>1, <3>2
    <3>4. Comes(l, f, x)
      BY <2>1, <3>1, <3>3 DEF Comes
    <3>5. j - 1 \in 1 .. (Len(l) - 1) /\ i <= j - 1
      BY <1>1, <3>1, <3>3
    <3>6. w[j - 1] = x
      BY <1>1, <1>4, <3>1, <3>5 DEF w
    <3>7. Comes(w, f, x)
      <4>1. Len(w) = Len(l) - 1
        BY <1>4 DEF w
      <4> QED BY <2>1, <2>4, <3>5, <3>6, <4>1 DEF Comes
    <3> QED BY <1>5, <3>4, <3>7
  <2> HIDE DEF f
  <2> QED BY <2>2, <2>3, <2>5, <2>6
<1> QED BY <1>6, <1>7

-----------------------------------------------------------------------------
(* The actions                                                             *)

LEMMA BecomeIs ==
    ASSUME TypeOK, Polled, NEW S, Become(S), Sound(os)',
           os'.writable \subseteq os.writable, UNCHANGED <<hungUp, pc>>
    PROVE  /\ os' \in States /\ os'.listening \subseteq os'.connected
           /\ edge' \subseteq os'.connected /\ reported' \subseteq os'.connected
           /\ Polled'
<1>1. os' \in States /\ os'.listening \subseteq os'.connected
  BY DEF Sound, SoundBut
<1>2. edge' = EdgesAfter(os, os') /\ reported' = reported \cap os'.connected
  BY DEF Become
<1>3. edge' \subseteq os'.connected /\ reported' \subseteq os'.connected
  BY <1>2 DEF EdgesAfter
<1>4. os'.listening \cap os'.writable \subseteq edge' \cup reported'
  BY <1>1, <1>2 DEF Polled, EdgesAfter
<1> QED BY <1>1, <1>2, <1>3, <1>4 DEF Polled

\* The server is in its work, and stays there.
LEMMA WorkKeeps ==
    ASSUME IInv, NEW S, Become(S), pc \in {"Work", "Callbacks"},
           UNCHANGED <<hungUp, pc, after, at>>,
           Sound(os)', Owed(os)', os'.writable \subseteq os.writable
    PROVE  IInv'
<1>1. /\ os' \in States /\ os'.listening \subseteq os'.connected
      /\ edge' \subseteq os'.connected /\ reported' \subseteq os'.connected
      /\ Polled'
  BY BecomeIs DEF IInv
<1>2. TypeOK'
  BY <1>1 DEF IInv, TypeOK
<1>3. NoneOwed'
  BY DEF NoneOwed
<1> QED BY <1>1, <1>2, <1>3 DEF IInv

LEMMA InitInv ==
    ASSUME Init
    PROVE  IInv
<1>1. os \in States
  BY ConstantsAssumption DEF Init, States
<1>2. /\ os.buf = [c \in Clients |-> <<>>] /\ os.size = [c \in Clients |-> BufSize]
      /\ os.connected = Clients /\ os.gone = {} /\ os.pending = <<>>
      /\ os.listening = {}
      /\ os.written = [c \in Clients |-> 0] /\ os.sent = [c \in Clients |-> 0]
  BY DEF Init
<1>3. TypeOK
  BY <1>1, <1>2 DEF Init, TypeOK
<1>4. ASSUME NEW x \in Clients
      PROVE  Ordered(os, x) /\ os.buf[x] = <<>>
  BY <1>2, ConstantsAssumption DEF Ordered
<1>5. Sound(os)
  BY <1>1, <1>2, <1>4 DEF Sound, SoundBut, Once
<1>6. NoneOwed
  BY <1>2, <1>4 DEF Init, NoneOwed, Owed, OwedBut
<1>7. Polled
  BY <1>2 DEF Init, Polled
<1> QED BY <1>3, <1>5, <1>6, <1>7 DEF IInv

LEMMA CloseDownSound ==
    ASSUME Recorder = NoClient, IInv, pc \in {"Work", "Callbacks"},
           NEW c \in Clients, CloseDown(c)
    PROVE  Sound(os)' /\ Owed(os)' /\ os'.writable \subseteq os.writable
<1> DEFINE s == [os EXCEPT !.gone = @ \cup {c}]
<1>1. os \in States /\ Sound(os) /\ Owed(os)
  BY DEF IInv, TypeOK, NoneOwed
<1>2. /\ s \in States /\ s.gone = os.gone \cup {c}
      /\ s.buf = os.buf /\ s.size = os.size /\ s.connected = os.connected
      /\ s.ready = os.ready /\ s.pending = os.pending /\ s.newOutput = os.newOutput
      /\ s.writable = os.writable /\ s.listening = os.listening
      /\ s.written = os.written /\ s.sent = os.sent
  BY <1>1 DEF States
<1>3. /\ os' \in {Closed(t, c) : t \in UNION {FlushClient(u, c, <<>>) : u \in FlushCallback(s)}}
  BY DEF CloseDown, Become
<1> HIDE DEF s
<1>4. SoundBut(s, {c}) /\ OwedBut(s, {c})
  BY <1>1, <1>2 DEF Sound, SoundBut, Owed, OwedBut, Ordered
<1>5. PICK t \in FlushClient(s, c, <<>>) : os' = Closed(t, c)
  BY <1>3, FlushCallbackIs
<1>6. c \in s.connected => s.sent[c] <= s.written[c] /\ s.buf[c] \o <<>> = Rest(s, c)
  <2> SUFFICES ASSUME c \in s.connected
               PROVE  s.sent[c] <= s.written[c] /\ s.buf[c] \o <<>> = Rest(s, c)
    OBVIOUS
  <2>1. Ordered(s, c)
    BY <1>1, <1>2 DEF Sound, SoundBut, Ordered
  <2>2. s.buf[c] \in Seq(Nat)
    BY <1>2, FieldTypes
  <2>3. s.buf[c] \o <<>> = s.buf[c]
    BY <2>2, ConcatEmptySeq
  <2> QED BY <2>1, <2>3 DEF Ordered, Rest, From
<1>7. /\ s.listening \subseteq s.connected /\ Once(s.pending) /\ <<>> \in Seq(Nat)
  BY <1>4 DEF SoundBut
<1>8. Flushes(s, t, c)
  BY <1>2, <1>6, <1>7, FlushClientIs
<1>9. SoundBut(t, {c}) /\ OwedBut(t, {c}) /\ t.writable \subseteq s.writable
  BY <1>4, <1>8, FlushesSound DEF Owed, OwedBut
<1> QED BY <1>2, <1>5, <1>9, ClosedIs

LEMMA WriteToClientInv ==
    ASSUME Recorder = NoClient, IInv, NEW c \in Clients, NEW n \in 1 .. (BufSize + 1),
           WriteToClient(c, n)
    PROVE  IInv'
<1>1. pc \in {"Work", "Callbacks"} /\ c \notin os.gone
  BY DEF WriteToClient, MayWrite
<1>2. Sound(os) /\ Owed(os) /\ n \in Nat
  BY <1>1, ConstantsAssumption DEF IInv, NoneOwed
<1>3. Recordings(os, c) = {os}
  BY DEF Recordings
<1>4. Become(WriteUnits(os, c, n)) /\ UNCHANGED <<hungUp, pc, after, at>>
  BY <1>3 DEF WriteToClient
<1>5. os' \in WriteUnits(os, c, n)
  BY <1>4 DEF Become
<1>6. Sound(os)' /\ Owed(os)' /\ os'.writable \subseteq os.writable
  BY <1>1, <1>2, <1>5, WriteUnitsSound
<1> QED BY <1>1, <1>4, <1>6, WorkKeeps

LEMMA CloseDownInv ==
    ASSUME Recorder = NoClient, IInv, NEW c \in Clients,
           CloseDownClient(c) \/ ClientReadyError(c)
    PROVE  IInv'
<1>1. /\ pc \in {"Work", "Callbacks"} /\ CloseDown(c)
      /\ UNCHANGED <<hungUp, pc, after, at>>
  BY DEF CloseDownClient, ClientReadyError
<1>2. Sound(os)' /\ Owed(os)' /\ os'.writable \subseteq os.writable
  BY <1>1, CloseDownSound
<1> QED BY <1>1, <1>2, WorkKeeps DEF CloseDown

LEMMA FlushAllOutputInv ==
    ASSUME IInv, pc = "Work", NEW p \in {"Work", "Wait"}, FlushAllOutput(p)
    PROVE  IInv'
<1>1. /\ os \in States /\ Sound(os) /\ Owed(os) /\ os.pending \in Seq(Clients)
  BY FieldTypes DEF IInv, TypeOK, NoneOwed
<1>2. CASE os.newOutput
  <2>1. at' = First /\ os' = [os EXCEPT !.newOutput = FALSE]
    BY <1>2 DEF FlushAllOutput
  <2>2. /\ os' \in States /\ os'.gone = os.gone
        /\ os'.buf = os.buf /\ os'.size = os.size /\ os'.connected = os.connected
        /\ os'.pending = os.pending
        /\ os'.writable = os.writable /\ os'.listening = os.listening
        /\ os'.written = os.written /\ os'.sent = os.sent
    BY <1>1, <2>1 DEF States
  <2>3. TypeOK'
    BY <1>1, <2>1, <2>2, FirstIs DEF IInv, TypeOK, FlushAllOutput
  <2>4. Sound(os)'
    BY <1>1, <2>2 DEF Sound, SoundBut, Ordered
  <2>5. Flushable'
    BY <1>1, <2>1, <2>2, FirstIs DEF Flushable, Sound, SoundBut
  <2>6. NoneOwed'
    BY <2>5 DEF NoneOwed, FlushAllOutput
  <2>7. Polled'
    BY <2>2 DEF IInv, Polled, FlushAllOutput
  <2> QED BY <2>3, <2>4, <2>6, <2>7 DEF IInv
<1>3. CASE ~os.newOutput
  <2>1. at' = NoClient /\ os' = os
    BY <1>3 DEF FlushAllOutput
  <2>2. TypeOK'
    BY <2>1 DEF IInv, TypeOK, FlushAllOutput
  <2>3. Flushable'
    BY <1>1, <1>3, <2>1 DEF Flushable, Owed, OwedBut, Settled
  <2>4. NoneOwed'
    BY <2>3 DEF NoneOwed, FlushAllOutput
  <2>5. Polled'
    BY <2>1 DEF IInv, Polled, FlushAllOutput
  <2> QED BY <1>1, <2>1, <2>2, <2>4, <2>5 DEF IInv
<1> QED BY <1>2, <1>3

\* The element FlushAllOutput is at is settled, and those that follow are to come.
LEMMA FlushNextInv ==
    ASSUME Recorder = NoClient, IInv, FlushNext
    PROVE  IInv'
<1> DEFINE Attended(t, list) ==
               /\ t.pending = list /\ list \in {os.pending, Without(os.pending, at)}
               /\ t.connected \subseteq os.connected
               /\ os.newOutput => t.newOutput
               /\ \A x \in t.connected \ {at} : Same(os, t, x)
               /\ at \in t.connected /\ t.buf[at] # <<>> => Settled(t, at)
<1>1. /\ os \in States /\ Sound(os) /\ os.pending \in Seq(Clients) /\ Once(os.pending)
      /\ os.connected \subseteq Clients
  BY FieldTypes DEF IInv, TypeOK, Sound, SoundBut
<1>2. /\ pc = "Flush" /\ at # NoClient /\ at' = Following(at)
      /\ UNCHANGED <<hungUp, pc, after>>
  BY DEF FlushNext
<1>3. Flushable /\ at \in Range(os.pending)
  BY <1>2 DEF IInv, NoneOwed, Flushable
<1>4. at \in Clients
  BY <1>1, <1>3, RangeIs
<1>5. PICK S : Become(S) /\ S = (IF at \in os.gone THEN {os}
              ELSE IF at \in os.ready THEN {[os EXCEPT !.newOutput = TRUE]}
              ELSE FlushClient(os, at, <<>>))
  BY DEF FlushNext
<1>6. os' \in S
  BY <1>5 DEF Become
<1>7. /\ Sound(os)' /\ os'.writable \subseteq os.writable
      /\ \E list : Attended(os', list)
  <2>1. CASE at \in os.gone
    <3>1. os' = os
      BY <1>5, <1>6, <2>1
    <3>2. at \notin os.connected
      BY <1>1, <2>1 DEF Sound, SoundBut
    <3>3. Attended(os', os.pending)
      BY <3>1, <3>2 DEF Same
    <3> QED BY <1>1, <3>1, <3>3
  <2>2. CASE at \notin os.gone /\ at \in os.ready
    <3>1. os' = [os EXCEPT !.newOutput = TRUE]
      BY <1>5, <1>6, <2>2
    <3>2. /\ os' \in States /\ os'.gone = os.gone /\ os'.newOutput
          /\ os'.buf = os.buf /\ os'.size = os.size /\ os'.connected = os.connected
          /\ os'.ready = os.ready /\ os'.pending = os.pending
          /\ os'.writable = os.writable /\ os'.listening = os.listening
          /\ os'.written = os.written /\ os'.sent = os.sent
      BY <1>1, <3>1 DEF States
    <3>3. Sound(os)'
      BY <1>1, <3>2 DEF Sound, SoundBut, Ordered
    <3>4. Attended(os', os.pending)
      BY <2>2, <3>2 DEF Same, Settled
    <3> QED BY <3>2, <3>3, <3>4
  <2>3. CASE at \notin os.gone /\ at \notin os.ready
    <3>1. os' \in FlushClient(os, at, <<>>)
      BY <1>5, <1>6, <2>3
    <3>2. at \in os.connected =>
              os.sent[at] <= os.written[at] /\ os.buf[at] \o <<>> = Rest(os, at)
      <4> SUFFICES ASSUME at \in os.connected
                   PROVE  os.sent[at] <= os.written[at] /\ os.buf[at] \o <<>> = Rest(os, at)
        OBVIOUS
      <4>1. Ordered(os, at)
        BY <1>1 DEF Sound, SoundBut
      <4>2. os.buf[at] \in Seq(Nat)
        BY <1>1, <1>4, FieldTypes
      <4>3. os.buf[at] \o <<>> = os.buf[at]
        BY <4>2, ConcatEmptySeq
      <4> QED BY <4>1, <4>3 DEF Ordered, Rest, From
    <3>3. os.listening \subseteq os.connected /\ <<>> \in Seq(Nat)
      BY <1>1 DEF Sound, SoundBut
    <3>4. Flushes(os, os', at)
      BY <1>1, <1>4, <3>1, <3>2, <3>3, FlushClientIs
    <3>5. SoundBut(os, {at})
      BY <1>1, <1>4, <2>3, SoundIs
    <3>6. Sound(os') /\ os'.writable \subseteq os.writable
      BY <1>4, <2>3, <3>4, <3>5, FlushesSound
    <3>7. output_pending_mark(os, at) = os.pending
      BY <1>3 DEF output_pending_mark
    <3>8. Attended(os', os'.pending)
      <4>1. os'.pending \in {os.pending, Without(os.pending, at)}
        BY <3>4, <3>7 DEF Flushes, Here
      <4>2. /\ os'.connected \subseteq os.connected
            /\ os'.newOutput = os.newOutput
            /\ \A x \in Clients \ {at} : Same(os, os', x)
        BY <3>4 DEF Flushes, Elsewhere
      <4>3. at \in os'.connected /\ os'.buf[at] # <<>> => Settled(os', at)
        BY <3>4 DEF Flushes, Here, Settled
      <4> QED BY <1>1, <4>1, <4>2, <4>3
    <3> QED BY <3>6, <3>8
  <2> QED BY <2>1, <2>2, <2>3
<1>8. PICK list : Attended(os', list)
  BY <1>7
<1>9. /\ Following(at) \in Clients \cup {NoClient}
      /\ Following(at) # NoClient => Following(at) \in Range(list)
      /\ \A x \in Clients \ {at} :
            Comes(os.pending, at, x) =>
                Following(at) # NoClient /\ Comes(list, Following(at), x)
  BY <1>1, <1>3, <1>8, FollowingIs
<1>10. Flushable'
  <2>1. ASSUME NEW x \in os'.connected, os'.buf[x] # <<>>
        PROVE  Settled(os', x) \/ (at' # NoClient /\ Comes(os'.pending, at', x))
    <3>1. CASE x = at
      BY <1>8, <2>1, <3>1
    <3>2. CASE x # at
      <4>1. x \in os.connected /\ Same(os, os', x) /\ x \in Clients
        BY <1>1, <1>8, <3>2
      <4>2. Settled(os, x) \/ Comes(os.pending, at, x)
        BY <1>3, <2>1, <4>1 DEF Same, Flushable
      <4>3. Settled(os, x) => Settled(os', x)
        BY <1>8, <4>1 DEF Same, Settled
      <4> QED BY <1>2, <1>8, <1>9, <3>2, <4>1, <4>2, <4>3
    <3> QED BY <3>1, <3>2
  <2>2. at' # NoClient => at' \in Range(os'.pending)
    BY <1>2, <1>8, <1>9
  <2> QED BY <2>1, <2>2 DEF Flushable
<1>11. /\ os' \in States /\ os'.listening \subseteq os'.connected
       /\ edge' \subseteq os'.connected /\ reported' \subseteq os'.connected
       /\ Polled'
  BY <1>2, <1>5, <1>7, BecomeIs DEF IInv
<1>12. TypeOK'
  BY <1>2, <1>9, <1>11 DEF IInv, TypeOK
<1>13. NoneOwed'
  BY <1>2, <1>10 DEF NoneOwed
<1> QED BY <1>7, <1>11, <1>12, <1>13 DEF IInv

LEMMA FlushDoneInv ==
    ASSUME IInv, FlushDone
    PROVE  IInv'
<1>1. TypeOK' /\ Sound(os)' /\ Polled'
  BY DEF FlushDone, IInv, TypeOK, Polled
<1>2. NoneOwed'
  <2>1. \A x \in os.connected : os.buf[x] # <<>> => Settled(os, x)
    BY DEF FlushDone, IInv, NoneOwed, Flushable
  <2>2. Owed(os)
    BY <2>1 DEF Owed, OwedBut, Settled
  <2>3. pc' \in {"Work", "Wait"} /\ UNCHANGED os
    BY DEF FlushDone, IInv, TypeOK
  <2> QED BY <2>1, <2>2, <2>3 DEF NoneOwed
<1> QED BY <1>1, <1>2 DEF IInv

LEMMA LoopingInv ==
    ASSUME IInv, Looping
    PROVE  IInv'
<1>1. CASE FlushInWork
  BY <1>1, FlushAllOutputInv DEF FlushInWork
<1>2. CASE WaitForSomething
  BY <1>2, FlushAllOutputInv DEF WaitForSomething
<1>3. CASE Poll
  <2>1. /\ pc = "Wait" /\ pc' = "Callbacks"
        /\ reported' = edge \cap (os.writable \cup hungUp) /\ edge' = {}
        /\ UNCHANGED <<os, hungUp, after, at>>
    BY <1>3 DEF Poll
  <2>2. TypeOK' /\ Sound(os)'
    BY <2>1 DEF IInv, TypeOK
  <2>3. Polled'
    BY <2>1 DEF IInv, Polled
  <2>4. NoneOwed'
    BY <2>1 DEF IInv, NoneOwed, Owed, OwedBut, Settled
  <2> QED BY <2>2, <2>3, <2>4 DEF IInv
<1>4. CASE CallbacksDone
  BY <1>4 DEF CallbacksDone, IInv, TypeOK, NoneOwed, Polled
<1> QED BY <1>1, <1>2, <1>3, <1>4 DEF Looping

\* Sound does not tell apart states that differ in these fields.
LEMMA SoundUnchanged ==
    ASSUME Sound(os), os' \in States,
           os'.gone = os.gone, os'.buf = os.buf, os'.size = os.size,
           os'.connected = os.connected, os'.pending = os.pending,
           os'.listening \subseteq os.listening,
           os'.written = os.written, os'.sent = os.sent
    PROVE  Sound(os)'
BY DEF Sound, SoundBut, Ordered

LEMMA ReadyInv ==
    ASSUME IInv, NEW c \in Clients, Served(c) \/ ClientReadyRead(c)
    PROVE  IInv'
<1>1. PICK r \in SUBSET Clients : os' = [os EXCEPT !.ready = r]
  <2>1. os \in States /\ os.ready \subseteq Clients
    BY FieldTypes DEF IInv, TypeOK
  <2>2. CASE Served(c)
    <3>1. os' = [os EXCEPT !.ready = os.ready \ {c}]
      BY <2>1, <2>2 DEF Served, States
    <3> QED BY <2>1, <3>1
  <2>3. CASE ClientReadyRead(c)
    <3>1. os' = [os EXCEPT !.ready = os.ready \cup {c}]
      BY <2>1, <2>3 DEF ClientReadyRead, States
    <3> QED BY <2>1, <3>1
  <2> QED BY <2>2, <2>3
<1>2. /\ os' \in States /\ os'.gone = os.gone
      /\ os'.buf = os.buf /\ os'.size = os.size /\ os'.connected = os.connected
      /\ os'.pending = os.pending /\ os'.newOutput = os.newOutput
      /\ os'.writable = os.writable /\ os'.listening = os.listening
      /\ os'.written = os.written /\ os'.sent = os.sent
  BY <1>1 DEF IInv, TypeOK, States
<1>3. pc \in {"Work", "Callbacks"} /\ UNCHANGED <<hungUp, edge, reported, pc, after, at>>
  BY DEF Served, ClientReadyRead
<1>4. TypeOK'
  BY <1>2, <1>3 DEF IInv, TypeOK
<1>5. Sound(os)'
  BY <1>2, SoundUnchanged DEF IInv
<1>6. NoneOwed' /\ Polled'
  BY <1>2, <1>3 DEF IInv, NoneOwed, Owed, OwedBut, Polled
<1> QED BY <1>4, <1>5, <1>6 DEF IInv

LEMMA ClientReadyWriteInv ==
    ASSUME IInv, NEW c \in Clients, ClientReadyWrite(c)
    PROVE  IInv'
<1>1. /\ os' = [os EXCEPT !.listening = @ \ {c}, !.newOutput = TRUE]
      /\ edge' = edge \ {c} /\ reported' = reported \ {c}
      /\ pc = "Callbacks" /\ UNCHANGED <<hungUp, pc, after, at>>
  BY DEF ClientReadyWrite
<1>2. /\ os' \in States /\ os'.gone = os.gone
      /\ os'.buf = os.buf /\ os'.size = os.size /\ os'.connected = os.connected
      /\ os'.pending = os.pending /\ os'.newOutput
      /\ os'.writable = os.writable /\ os'.listening = os.listening \ {c}
      /\ os'.written = os.written /\ os'.sent = os.sent
  BY <1>1 DEF IInv, TypeOK, States
<1>3. TypeOK'
  BY <1>1, <1>2 DEF IInv, TypeOK
<1>4. Sound(os)'
  BY <1>2, SoundUnchanged DEF IInv
<1>5. NoneOwed' /\ Polled'
  BY <1>1, <1>2 DEF IInv, NoneOwed, Owed, OwedBut, Polled
<1> QED BY <1>3, <1>4, <1>5 DEF IInv

LEMMA DrainInv ==
    ASSUME IInv, NEW c \in Clients, Drain(c)
    PROVE  IInv'
<1>1. /\ c \in os.connected /\ os' = [os EXCEPT !.writable = @ \cup {c}]
      /\ edge' = IF c \in os.listening THEN edge \cup {c} ELSE edge
      /\ UNCHANGED <<hungUp, reported, pc, after, at>>
  BY DEF Drain
<1>2. /\ os' \in States /\ os'.gone = os.gone
      /\ os'.buf = os.buf /\ os'.size = os.size /\ os'.connected = os.connected
      /\ os'.ready = os.ready
      /\ os'.pending = os.pending /\ os'.newOutput = os.newOutput
      /\ os'.writable = os.writable \cup {c} /\ os'.listening = os.listening
      /\ os'.written = os.written /\ os'.sent = os.sent
  BY <1>1 DEF IInv, TypeOK, States
<1>3. TypeOK'
  BY <1>1, <1>2 DEF IInv, TypeOK
<1>4. Sound(os)'
  BY <1>2, SoundUnchanged DEF IInv
<1>5. Polled'
  BY <1>1, <1>2 DEF IInv, Polled
<1>6. NoneOwed'
  BY <1>1, <1>2 DEF IInv, NoneOwed, Owed, OwedBut, Flushable, Settled
<1> QED BY <1>3, <1>4, <1>5, <1>6 DEF IInv

LEMMA HangUpInv ==
    ASSUME IInv, NEW c \in Clients, HangUp(c)
    PROVE  IInv'
BY DEF HangUp, IInv, TypeOK, NoneOwed, Polled, Flushable

LEMMA NextInv ==
    ASSUME Recorder = NoClient, IInv, [Next]_vars
    PROVE  IInv'
<1>1. CASE UNCHANGED vars
  BY <1>1 DEF vars, IInv, TypeOK, NoneOwed, Polled, Flushable
<1>2. CASE \E c \in Clients, n \in 1 .. (BufSize + 1) : WriteToClient(c, n)
  BY <1>2, WriteToClientInv
<1>3. CASE \E c \in Clients : CloseDownClient(c) \/ ClientReadyError(c)
  BY <1>3, CloseDownInv
<1>4. CASE \E c \in Clients : Served(c) \/ ClientReadyRead(c)
  BY <1>4, ReadyInv
<1>5. CASE \E c \in Clients : ClientReadyWrite(c)
  BY <1>5, ClientReadyWriteInv
<1>6. CASE \E c \in Clients : Drain(c) \/ HangUp(c)
  BY <1>6, DrainInv, HangUpInv
<1>7. CASE Flushing
  BY <1>7, FlushNextInv, FlushDoneInv DEF Flushing
<1>8. CASE Looping
  BY <1>8, LoopingInv
<1> QED BY <1>1, <1>2, <1>3, <1>4, <1>5, <1>6, <1>7, <1>8 DEF Next

LEMMA AlwaysIInv ==
    ASSUME Recorder = NoClient
    PROVE  Spec => []IInv
<1>1. Init => IInv
  BY InitInv
<1>2. IInv /\ [Next]_vars => IInv'
  BY NextInv
<1> QED BY <1>1, <1>2, PTL DEF Spec

-----------------------------------------------------------------------------
(* The theorems                                                            *)

\* Only who is connected is polled, and epoll has nothing to report of others.
THEOREM TypesHold ==
    ASSUME Recorder = NoClient
    PROVE  Spec => []TypeOK
<1>1. IInv => TypeOK
  BY DEF IInv
<1> QED BY <1>1, AlwaysIInv, PTL

\* Whatever the sizes of the buffers and of what is written, and wherever the
\* sockets stop, the buffer of a client is what it was written and has not been
\* sent: nothing is lost, doubled or overtaken (WriteToClient, FlushClient).
THEOREM OutputIsKept ==
    ASSUME Recorder = NoClient
    PROVE  Spec => []NothingLost
<1>1. IInv => NothingLost
  BY DEF IInv, Sound, SoundBut, Ordered, NothingLost
<1> QED BY <1>1, AlwaysIInv, PTL

\* The server goes to sleep with output only if it waits for the socket or for
\* requests that are to be served first (FlushAllOutput, ClientReady).
THEOREM OutputIsPolled ==
    ASSUME Recorder = NoClient
    PROVE  Spec => []NoOutputForgotten
<1>1. IInv => NoOutputForgotten
  BY DEF IInv, Sound, SoundBut, NoneOwed, Settled, Polled, NoOutputForgotten
<1> QED BY <1>1, AlwaysIInv, PTL

=============================================================================
