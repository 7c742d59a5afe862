--------------------------- MODULE SchedulerProofs ---------------------------
(***************************************************************************)
(* Proofs about Scheduler for any clients, priorities and slices.          *)
(*                                                                         *)
(* First that the loop of SmartScheduleClient finds a client, which nobody *)
(* on the list is ahead of; then the types; then, where SYNC has set no    *)
(* priorities and all indexes are different in eight bits, that equals are *)
(* served in turn; last that the client that had the last turn is not      *)
(* praised.                                                                *)
(***************************************************************************)
EXTENDS Scheduler, SequenceTheorems, WellFoundedInduction, TLAPS

-----------------------------------------------------------------------------
(* The list: what is on it after an element has been removed or appended   *)

LEMMA RangeIs ==
    ASSUME NEW S, NEW list \in Seq(S)
    PROVE  /\ DOMAIN list = 1 .. Len(list)
           /\ Range(list) = {list[i] : i \in 1 .. Len(list)}
           /\ Range(list) \subseteq S
BY DEF Range

LEMMA PlaceIs ==
    ASSUME NEW S, NEW list \in Seq(S), NEW c \in Range(list)
    PROVE  /\ Place(list, c) \in 1 .. Len(list)
           /\ list[Place(list, c)] = c
<1>1. \E i \in DOMAIN list : list[i] = c
  BY RangeIs
<1>2. Place(list, c) \in DOMAIN list /\ list[Place(list, c)] = c
  BY <1>1 DEF Place
<1> QED BY <1>2, RangeIs

LEMMA Removed ==
    ASSUME NEW S, NEW list \in Seq(S), NEW i \in 1 .. Len(list)
    PROVE  /\ RemoveAt(list, i) \in Seq(S)
           /\ Len(RemoveAt(list, i)) = Len(list) - 1
           /\ \A j \in 1 .. (Len(list) - 1) :
                 RemoveAt(list, i)[j] = IF j < i THEN list[j] ELSE list[j + 1]
<1> DEFINE a == SubSeq(list, 1, i - 1)
           b == SubSeq(list, i + 1, Len(list))
<1>1. /\ a \in Seq(S) /\ Len(a) = i - 1
      /\ \A j \in 1 .. (i - 1) : a[j] = list[j]
  BY SubSeqProperties
<1>2. /\ b \in Seq(S) /\ Len(b) = Len(list) - i
      /\ \A j \in 1 .. (Len(list) - i) : b[j] = list[i + j]
  BY SubSeqProperties
<1>3. RemoveAt(list, i) = a \o b
  BY DEF RemoveAt
<1> HIDE DEF a, b
<1>4. /\ a \o b \in Seq(S) /\ Len(a \o b) = Len(a) + Len(b)
      /\ \A j \in 1 .. Len(a) + Len(b) :
            (a \o b)[j] = IF j <= Len(a) THEN a[j] ELSE b[j - Len(a)]
  <2>1. a \in Seq(S) /\ b \in Seq(S)
    BY <1>1, <1>2
  <2> QED BY ONLY <2>1, ConcatProperties
<1> DEFINE w == a \o b
<1>5. /\ Len(w) = Len(list) - 1
      /\ \A j \in 1 .. (Len(list) - 1) : w[j] = IF j <= i - 1 THEN a[j] ELSE b[j - (i - 1)]
  BY <1>1, <1>2, <1>4
<1> HIDE DEF w
<1>6. ASSUME NEW j \in 1 .. (Len(list) - 1)
      PROVE  w[j] = IF j < i THEN list[j] ELSE list[j + 1]
  <2>1. CASE j < i
    BY <1>1, <1>5, <2>1
  <2>2. CASE j >= i
    <3>1. j - (i - 1) \in 1 .. (Len(list) - i)
      BY <2>2
    <3>2. w[j] = b[j - (i - 1)]
      BY <1>5, <2>2
    <3>3. b[j - (i - 1)] = list[i + (j - (i - 1))]
      BY <1>2, <3>1
    <3> QED BY <2>2, <3>2, <3>3
  <2> QED BY <2>1, <2>2
<1> QED BY <1>3, <1>4, <1>5, <1>6 DEF w

LEMMA WithoutIs ==
    ASSUME NEW S, NEW list \in Seq(S), Once(list), NEW c
    PROVE  /\ Without(list, c) \in Seq(S)
           /\ Once(Without(list, c))
           /\ Range(Without(list, c)) = Range(list) \ {c}
<1>1. CASE c \notin Range(list)
  BY <1>1 DEF Without
<1>2. CASE c \in Range(list)
  <2> DEFINE i == Place(list, c)
             w == RemoveAt(list, i)
  <2>1. i \in 1 .. Len(list) /\ list[i] = c
    BY <1>2, PlaceIs
  <2>2. Without(list, c) = w
    BY <1>2 DEF Without
  <2>3. /\ w \in Seq(S) /\ Len(w) = Len(list) - 1
        /\ \A j \in 1 .. (Len(list) - 1) :
              w[j] = IF j < i THEN list[j] ELSE list[j + 1]
    BY <2>1, Removed
  <2> HIDE DEF i, w
  <2>4. Once(w)
    <3> SUFFICES ASSUME NEW j \in 1 .. Len(w), NEW k \in 1 .. Len(w), w[j] = w[k]
                 PROVE  j = k
      BY DEF Once
    <3> DEFINE old(n) == IF n < i THEN n ELSE n + 1
    <3>1. old(j) \in 1 .. Len(list) /\ old(k) \in 1 .. Len(list)
      BY <2>1, <2>3
    <3>2. list[old(j)] = list[old(k)]
      BY <2>3
    <3>3. old(j) = old(k)
      BY <3>1, <3>2 DEF Once
    <3> QED BY <2>1, <3>3
  <2>5. \A x \in Range(w) : x \in Range(list) \ {c}
    BY <2>1, <2>3, RangeIs DEF Once
  <2>6. \A x \in Range(list) \ {c} : x \in Range(w)
    <3> TAKE x \in Range(list) \ {c}
    <3>1. PICK j \in 1 .. Len(list) : list[j] = x
      BY RangeIs
    <3>2. CASE j < i
      BY <2>1, <2>3, <3>1, <3>2, RangeIs
    <3>3. CASE j > i
      <4>1. j - 1 \in 1 .. (Len(list) - 1) /\ w[j - 1] = x
        BY <2>1, <2>3, <3>1, <3>3
      <4> QED BY <4>1, <2>3, RangeIs
    <3> QED BY <2>1, <3>1, <3>2, <3>3
  <2> QED BY <2>2, <2>3, <2>4, <2>5, <2>6
<1> QED BY <1>1, <1>2

LEMMA AppendIs ==
    ASSUME NEW S, NEW list \in Seq(S), NEW c \in S
    PROVE  /\ Append(list, c) \in Seq(S)
           /\ Range(Append(list, c)) = Range(list) \cup {c}
           /\ Once(list) /\ c \notin Range(list) => Once(Append(list, c))
<1> DEFINE w == Append(list, c)
<1>1. /\ w \in Seq(S) /\ Len(w) = Len(list) + 1 /\ w[Len(list) + 1] = c
      /\ \A i \in 1 .. Len(list) : w[i] = list[i]
  BY AppendProperties
<1> HIDE DEF w
<1>2. Range(w) = Range(list) \cup {c}
  BY <1>1, RangeIs
<1>3. ASSUME Once(list), c \notin Range(list)
      PROVE  Once(w)
  <2>1. \A i \in 1 .. Len(list) : list[i] # c
    BY <1>3, RangeIs
  <2> QED BY <1>1, <1>3, <2>1 DEF Once
<1> QED BY <1>1, <1>2, <1>3 DEF w

-----------------------------------------------------------------------------
(* The choice                                                              *)

LessThan == {r \in Nat \X Nat : r[1] < r[2]}

LEMMA LessThanIsWellFounded == IsWellFoundedOn(LessThan, Nat)
<1>1. LessThan = OpToRel(<, Nat)
  BY DEF LessThan, OpToRel
<1> QED
  BY <1>1, NatLessThanWellFounded

LEMMA LeastExists ==
    ASSUME NEW T \in SUBSET Nat, T # {}
    PROVE  \E m \in T : \A n \in T : m <= n
<1>1. PICK m \in T : \A n \in T : ~(<<n, m>> \in LessThan)
  BY LessThanIsWellFounded, WFMin
<1>2. ASSUME NEW n \in T
      PROVE  m <= n
  <2>1. m \in Nat /\ n \in Nat
    OBVIOUS
  <2>2. <<n, m>> \in Nat \X Nat /\ <<n, m>>[1] = n /\ <<n, m>>[2] = m
    BY <2>1
  <2>3. n < m => <<n, m>> \in LessThan
    BY <2>2 DEF LessThan
  <2> QED BY <1>1, <2>1, <2>3
<1> QED BY <1>2

LEMMA GreatestExists ==
    ASSUME NEW T \in SUBSET Int, T # {}, NEW b \in Int, \A n \in T : n <= b
    PROVE  \E m \in T : \A n \in T : n <= m
<1> DEFINE U == {b - n : n \in T}
<1>1. U \in SUBSET Nat /\ U # {}
  <2>1. \A n \in T : b - n \in Nat
    <3> TAKE n \in T
    <3>1. n \in Int /\ n <= b
      OBVIOUS
    <3> QED BY <3>1
  <2> QED BY <2>1
<1>2. PICK u \in U : \A v \in U : u <= v
  BY <1>1, LeastExists
<1>3. PICK m \in T : u = b - m
  BY <1>2
<1>4. \A n \in T : n <= m
  <2> TAKE n \in T
  <2>1. u <= b - n
    BY <1>2
  <2> QED BY <1>3, <2>1
<1> QED BY <1>4

\* The places of a list where a quantity that is bounded is greatest.
LEMMA GreatestPlaces ==
    ASSUME NEW I, I # {}, NEW f, \A i \in I : f[i] \in Int,
           NEW b \in Int, \A i \in I : f[i] <= b
    PROVE  \E k \in I : \A i \in I : f[i] <= f[k]
<1> DEFINE T == {f[i] : i \in I}
<1>1. T \in SUBSET Int /\ T # {} /\ \A n \in T : n <= b
  OBVIOUS
<1>2. PICK m \in T : \A n \in T : n <= m
  BY <1>1, GreatestExists
<1>3. PICK k \in I : m = f[k]
  BY <1>2
<1> QED BY <1>2, <1>3

LEMMA MaxIntType == MaxInt \in Int
BY SMT DEF MaxInt

LEMMA ConstantsAre ==
    ASSUME ConstantsAssumption
    PROVE  /\ Modulus \in Nat \ {0} /\ MaxPriority \in Nat
           /\ NoClient \notin Clients
           /\ \A c \in Clients \cup {NoClient} : c \in Int
           /\ \A l \in Levels : l \in Int /\ l <= MaxPriority
           /\ \A l \in Priorities : l \in Int /\ l <= MaxInt
<1>1. MaxPriority \in Nat /\ Priorities \subseteq -MaxInt .. MaxInt
  BY DEF ConstantsAssumption
<1>2. \A l \in Priorities : l \in Int /\ l <= MaxInt
  BY <1>1, MaxIntType
<1>3. \A l \in Levels : l \in Int /\ l <= MaxPriority
  BY <1>1 DEF Levels, MinPriority
<1>4. /\ Clients \subseteq Nat \ {0} /\ Modulus \in Nat \ {0}
  BY DEF ConstantsAssumption
<1> QED BY <1>1, <1>2, <1>3, <1>4 DEF NoClient

LEMMA ReadyIs ==
    ASSUME TypeOK
    PROVE  /\ DOMAIN ready = 1 .. Len(ready)
           /\ Len(ready) \in Nat
           /\ \A i \in DOMAIN ready : ready[i] \in Clients
           /\ Range(ready) = {ready[i] : i \in DOMAIN ready}
           /\ Range(ready) \subseteq Clients
           /\ ready # <<>> => DOMAIN ready # {}
<1>1. ready \in Seq(Clients)
  BY DEF TypeOK
<1> QED BY <1>1, RangeIs, EmptySeq

LEMMA RobinType ==
    ASSUME ConstantsAssumption, TypeOK, NEW c \in Clients, NEW l \in Levels
    PROVE  Robin(l, c) \in 0 .. (Modulus - 1)
<1>1. c \in Int /\ SmartLastIndex[l] \in Int /\ Modulus \in Nat \ {0}
  <2>1. SmartLastIndex[l] \in Clients \cup {NoClient}
    BY DEF TypeOK
  <2> QED BY <2>1, ConstantsAre
<1> QED BY <1>1 DEF Robin

\* SmartScheduleClient chooses a client of the list that nobody is ahead of.
LEMMA BestIs ==
    ASSUME ConstantsAssumption, TypeOK, ready # <<>>, NEW p \in [Clients -> Levels]
    PROVE  /\ Best(p) \in Range(ready)
           /\ \A c \in Range(ready) : ~Ahead(p, c, Best(p))
<1> DEFINE I == DOMAIN ready
           f1 == [i \in I |-> priority[ready[i]]]
           f2 == [i \in I |-> p[ready[i]]]
           f3 == [i \in I |-> Robin(p[ready[i]], ready[i])]
<1>0. /\ I # {} /\ I = 1 .. Len(ready) /\ I \subseteq Nat
      /\ \A i \in I : ready[i] \in Clients
  BY ReadyIs
<1>1. \A i \in I : f1[i] \in Int /\ f1[i] <= MaxInt
  <2> TAKE i \in I
  <2>1. ready[i] \in Clients /\ priority[ready[i]] \in Priorities
    BY <1>0 DEF TypeOK
  <2> QED BY <2>1, ConstantsAre
<1>2. \A i \in I : f2[i] \in Int /\ f2[i] <= MaxPriority
  <2> TAKE i \in I
  <2>1. ready[i] \in Clients /\ p[ready[i]] \in Levels
    BY <1>0
  <2> QED BY <2>1, ConstantsAre
<1>3. \A i \in I : f3[i] \in Int /\ f3[i] <= Modulus
  <2> TAKE i \in I
  <2>1. ready[i] \in Clients /\ p[ready[i]] \in Levels
    BY <1>0
  <2>2. Robin(p[ready[i]], ready[i]) \in 0 .. (Modulus - 1)
    BY <2>1, RobinType
  <2> QED BY <2>2, ConstantsAre
<1>4. MaxInt \in Int /\ MaxPriority \in Int /\ Modulus \in Int
  BY MaxIntType, ConstantsAre
<1>5. /\ \A i \in I : /\ f1[i] = priority[ready[i]] /\ f2[i] = p[ready[i]]
                      /\ f3[i] = Robin(p[ready[i]], ready[i])
  OBVIOUS
<1> HIDE DEF I, f1, f2, f3
<1>6. PICK k1 \in I : \A i \in I : f1[i] <= f1[k1]
  BY <1>0, <1>1, <1>4, GreatestPlaces
<1> DEFINE I1 == {i \in I : f1[i] = f1[k1]}
<1>7. PICK k2 \in I1 : \A i \in I1 : f2[i] <= f2[k2]
  <2> HIDE DEF I1
  <2>1. I1 # {} /\ I1 \subseteq I
    BY DEF I1
  <2> QED BY <1>2, <1>4, <2>1, GreatestPlaces
<1> DEFINE I2 == {i \in I1 : f2[i] = f2[k2]}
<1>8. PICK k3 \in I2 : \A i \in I2 : f3[i] <= f3[k3]
  <2> HIDE DEF I2
  <2>1. I2 # {} /\ I2 \subseteq I
    BY <1>7 DEF I2
  <2> QED BY <1>3, <1>4, <2>1, GreatestPlaces
<1> DEFINE I3 == {i \in I2 : f3[i] = f3[k3]}
<1>9. PICK k \in I3 : \A i \in I3 : k <= i
  <2> HIDE DEF I3
  <2>1. I3 # {} /\ I3 \in SUBSET Nat
    BY <1>0, <1>8 DEF I3
  <2> QED BY <2>1, LeastExists
<1> DEFINE Behind(i, j) ==
      \/ f1[i] > f1[j]
      \/ f1[i] = f1[j] /\ f2[i] > f2[j]
      \/ f1[i] = f1[j] /\ f2[i] = f2[j] /\ f3[i] > f3[j]
<1>10. \A i, j \in I : Ahead(p, ready[i], ready[j]) <=> Behind(i, j)
  BY <1>5 DEF Ahead
<1>11. k \in I /\ \A j \in I : ~Behind(j, k)
  BY <1>1, <1>2, <1>3, <1>6, <1>7, <1>8, <1>9
<1>12. \A j \in 1 .. (k - 1) : j \in I /\ Behind(k, j)
  <2> TAKE j \in 1 .. (k - 1)
  <2>1. j \in I /\ j \notin I3
    BY <1>0, <1>9
  <2> QED BY <1>1, <1>2, <1>3, <1>6, <1>7, <1>8, <1>9, <2>1
<1>13. \E i \in DOMAIN ready :
          /\ \A j \in DOMAIN ready : ~Ahead(p, ready[j], ready[i])
          /\ \A j \in 1 .. (i - 1) : Ahead(p, ready[i], ready[j])
  BY <1>10, <1>11, <1>12 DEF I
<1> DEFINE b == CHOOSE i \in DOMAIN ready :
                  /\ \A j \in DOMAIN ready : ~Ahead(p, ready[j], ready[i])
                  /\ \A j \in 1 .. (i - 1) : Ahead(p, ready[i], ready[j])
<1>14. b \in DOMAIN ready /\ \A j \in DOMAIN ready : ~Ahead(p, ready[j], ready[b])
  BY <1>13
<1>15. Best(p) = ready[b]
  BY DEF Best
<1> HIDE DEF b
<1> QED BY <1>14, <1>15, ReadyIs

-----------------------------------------------------------------------------
(* Types                                                                   *)

LEMMA PraisedType ==
    ASSUME ConstantsAssumption, TypeOK
    PROVE  /\ Praised \in [Clients -> Levels]
           /\ \A c \in Clients : Praised[c] >= smart_priority[c]
<1>1. SUFFICES ASSUME NEW c \in Clients
               PROVE  Praised[c] \in Levels /\ Praised[c] >= smart_priority[c]
  BY DEF Praised
<1>2. smart_priority[c] \in Levels /\ MaxPriority \in Nat
  BY ConstantsAre DEF TypeOK
<1>3. Praised[c] \in {smart_priority[c], smart_priority[c] + 1}
      /\ (smart_priority[c] >= 0 => Praised[c] = smart_priority[c])
  BY <1>2 DEF Praised, Levels, MinPriority
<1> QED BY <1>2, <1>3 DEF Levels, MinPriority

LEMMA TimesAre ==
    ASSUME ConstantsAssumption
    PROVE  /\ MaxIdle \in Nat /\ Noted(MaxIdle) \in 0 .. MaxIdle
           /\ MaxSlice \in Nat \ {0}
           /\ LongRun \in Nat /\ Noted(LongRun + 1) \in 0 .. (LongRun + 1)
           /\ \A n \in Nat : \A m \in 0 .. n : Later(m, n) \in 0 .. n
BY DEF ConstantsAssumption, MaxIdle, Noted, Later

LEMMA InitTypes == ASSUME ConstantsAssumption, Init PROVE TypeOK
<1>1. ready \in Seq(Clients) /\ Once(ready)
  BY DEF Init, Once
<1>2. 0 \in Levels /\ 0 \in Priorities
  BY ConstantsAre DEF Levels, MinPriority, ConstantsAssumption
<1>3. MaxIdle \in Nat /\ MaxSlice \in Nat \ {0} /\ LongRun \in Nat /\ MaxLimited \in Nat
  BY TimesAre DEF ConstantsAssumption
<1>4. /\ priority \in [Clients -> Priorities] /\ smart_priority \in [Clients -> Levels]
      /\ idle \in [Clients -> 0 .. MaxIdle] /\ overtook \in [Clients -> SUBSET Clients]
      /\ SmartLastIndex \in [Levels -> Clients \cup {NoClient}]
  BY <1>2, <1>3 DEF Init, NoClient
<1>5. /\ run \in 0 .. (LongRun + 1) /\ ticks \in 0 .. MaxIdle
      /\ SmartScheduleSlice \in 1 .. MaxSlice /\ SmartScheduleLatencyLimited \in 0 .. MaxLimited
  <2>1. /\ run = 0 /\ ticks = 0
        /\ SmartScheduleSlice = 1 /\ SmartScheduleLatencyLimited = 0
    BY DEF Init
  <2> QED BY <1>3, <2>1
<1>6. /\ client \in Clients \cup {NoClient} /\ lastRun \in Clients \cup {NoClient}
      /\ SmartLastClient \in Clients \cup {NoClient}
  BY DEF Init
<1>7. wide \in BOOLEAN
  BY DEF Init
<1> QED BY <1>1, <1>4, <1>5, <1>6, <1>7 DEF TypeOK

LEMMA OvertookType ==
    ASSUME TypeOK, NEW c \in Clients, NEW p \in [Clients -> Levels]
    PROVE  /\ Forget(c) \in [Clients -> SUBSET Clients]
           /\ NotWaiting(c) \in [Clients -> SUBSET Clients]
           /\ Overtaking(p, c) \in [Clients -> SUBSET Clients]
<1>1. overtook \in [Clients -> SUBSET Clients]
  BY DEF TypeOK
<1>2. Forget(c) \in [Clients -> SUBSET Clients]
  BY <1>1 DEF Forget
<1>3. NotWaiting(c) \in [Clients -> SUBSET Clients]
  BY <1>1 DEF NotWaiting
<1>4. Overtaking(p, c) \in [Clients -> SUBSET Clients]
  BY <1>1 DEF Overtaking
<1> QED BY <1>2, <1>3, <1>4

LEMMA EndOfTurnTypes ==
    ASSUME ConstantsAssumption, TypeOK, client \in Clients, EndOfTurn
    PROVE  /\ client' = NoClient /\ ticks' \in 0 .. MaxIdle
           /\ lastRun' \in Clients /\ idle' \in [Clients -> 0 .. MaxIdle]
<1>1. idle \in [Clients -> 0 .. MaxIdle]
  BY DEF TypeOK
<1> QED BY <1>1, TimesAre DEF EndOfTurn

LEMMA CloseTypes ==
    ASSUME ConstantsAssumption, TypeOK, NEW c \in Clients, Close(c),
           client' \in Clients \cup {NoClient}, ticks' \in 0 .. MaxIdle
    PROVE  TypeOK'
<1>1. ready' \in Seq(Clients) /\ Once(ready')
  BY WithoutIs DEF TypeOK, Close
<1>2. priority' \in [Clients -> Priorities] /\ smart_priority' \in [Clients -> Levels]
  BY ConstantsAre DEF TypeOK, Close, ConstantsAssumption, Levels, MinPriority
<1>3. idle' \in [Clients -> 0 .. MaxIdle]
  BY TimesAre DEF TypeOK, Close
<1>4. overtook' \in [Clients -> SUBSET Clients]
  <2>1. smart_priority \in [Clients -> Levels]
    BY DEF TypeOK
  <2> QED BY <2>1, OvertookType DEF Close
<1>5. SmartLastClient' \in Clients \cup {NoClient} /\ lastRun' \in Clients \cup {NoClient}
  BY DEF Close, TypeOK
<1> QED BY <1>1, <1>2, <1>3, <1>4, <1>5 DEF TypeOK, Close, sliceVars

LEMMA ScheduleTypes == ASSUME ConstantsAssumption, TypeOK, SmartScheduleClient PROVE TypeOK'
<1> DEFINE p == Praised
           b == Best(p)
<1>1. p \in [Clients -> Levels]
  BY PraisedType
<1>2. ready # <<>> /\ Schedule(p, b)
  BY DEF SmartScheduleClient
<1> HIDE DEF p
<1>3. b \in Range(ready)
  BY <1>1, <1>2, BestIs
<1> HIDE DEF b
<1>4. b \in Clients /\ p[b] \in Levels
  BY <1>1, <1>3, ReadyIs
<1>5. overtook' \in [Clients -> SUBSET Clients]
  BY <1>1, <1>2, <1>4, OvertookType DEF Schedule
<1>6. run' \in 0 .. (LongRun + 1)
  BY <1>2, TimesAre DEF TypeOK, Schedule
<1>7. SmartScheduleSlice' \in 1 .. MaxSlice
  <2>1. SmartScheduleSlice \in 1 .. MaxSlice
    BY DEF TypeOK
  <2>2. \/ SmartScheduleSlice' = 1
        \/ SmartScheduleSlice' = SmartScheduleSlice
        \/ SmartScheduleSlice < MaxSlice /\ SmartScheduleSlice' = SmartScheduleSlice + 1
    BY <1>2 DEF Schedule
  <2> QED BY <2>1, <2>2, TimesAre
<1>8. SmartLastIndex' \in [Levels -> Clients \cup {NoClient}]
  BY <1>2, <1>4 DEF Schedule, TypeOK
<1>9. ticks' \in 0 .. MaxIdle
  BY <1>2, TimesAre DEF Schedule
<1> QED BY <1>1, <1>2, <1>4, <1>5, <1>6, <1>7, <1>8, <1>9
        DEF TypeOK, Schedule, SmartScheduleClient

LEMMA TurnTypes ==
    ASSUME ConstantsAssumption, TypeOK,
           \/ SliceExpired \/ TurnEnds
           \/ \E c \in Clients, q \in Priorities : SetPriority(c, q)
    PROVE  TypeOK'
<1>1. client \in Clients /\ EndOfTurn
  BY DEF SliceExpired, TurnEnds, SetPriority, TypeOK
<1>2. /\ client' = NoClient /\ ticks' \in 0 .. MaxIdle
      /\ lastRun' \in Clients /\ idle' \in [Clients -> 0 .. MaxIdle]
  BY <1>1, EndOfTurnTypes
<1>3. smart_priority \in [Clients -> Levels]
  BY DEF TypeOK
<1>4. \A c \in Clients : /\ Forget(c) \in [Clients -> SUBSET Clients]
                          /\ NotWaiting(c) \in [Clients -> SUBSET Clients]
  BY <1>3, OvertookType
<1>5. CASE SliceExpired
  <2>1. overtook' \in [Clients -> SUBSET Clients]
    BY <1>1, <1>4, <1>5 DEF SliceExpired, TypeOK
  <2>2. smart_priority' \in [Clients -> Levels]
    <3>1. smart_priority[client] \in Levels /\ MaxPriority \in Nat
      BY <1>1, <1>3, ConstantsAre
    <3>2. CASE smart_priority[client] > MinPriority
      <4>1. smart_priority[client] - 1 \in Levels
        BY <3>1, <3>2 DEF Levels, MinPriority
      <4> QED BY <1>1, <1>3, <1>5, <3>2, <4>1 DEF SliceExpired
    <3>3. CASE ~(smart_priority[client] > MinPriority)
      BY <1>3, <1>5, <3>3 DEF SliceExpired
    <3> QED BY <3>2, <3>3
  <2> QED BY <1>2, <1>5, <2>1, <2>2 DEF TypeOK, SliceExpired, sliceVars
<1>6. CASE TurnEnds
  <2>1. /\ ready' \in Seq(Clients) /\ Once(ready')
        /\ overtook' \in [Clients -> SUBSET Clients]
    BY <1>1, <1>4, <1>6, WithoutIs DEF TurnEnds, TypeOK
  <2> QED BY <1>2, <1>6, <2>1 DEF TypeOK, TurnEnds, sliceVars, clientVars
<1>7. ASSUME NEW c \in Clients, NEW q \in Priorities, SetPriority(c, q)
      PROVE  TypeOK'
  <2>1. priority' \in [Clients -> Priorities] /\ overtook' \in [Clients -> SUBSET Clients]
    BY <1>4, <1>7 DEF SetPriority, TypeOK
  <2> QED BY <1>2, <1>7, <2>1 DEF TypeOK, SetPriority, sliceVars
<1> QED BY <1>5, <1>6, <1>7

LEMMA OtherTypes ==
    ASSUME ConstantsAssumption, TypeOK,
           \/ \E c \in Clients : \/ CloseDownClient(c) \/ KillClient(c)
                               \/ MarkReady(c) \/ MarkNotReady(c) \/ InputEvent(c)
           \/ EnableLimitedSchedulingLatency \/ DisableLimitedSchedulingLatency
           \/ Tick \/ Outgrow
    PROVE  TypeOK'
<1> USE DEF clientVars, timeVars, sliceVars, lastVars
<1>0. smart_priority \in [Clients -> Levels] /\ ready \in Seq(Clients) /\ Once(ready)
  BY DEF TypeOK
<1>1. \A c \in Clients : /\ Forget(c) \in [Clients -> SUBSET Clients]
                          /\ NotWaiting(c) \in [Clients -> SUBSET Clients]
  BY <1>0, OvertookType
<1>2. ASSUME NEW c \in Clients, CloseDownClient(c) \/ KillClient(c)
      PROVE  TypeOK'
  <2>1. Close(c) /\ client' \in Clients \cup {NoClient} /\ ticks' \in 0 .. MaxIdle
    <3>1. /\ Close(c)
          /\ client' \in {client, NoClient} /\ ticks' \in {ticks, 0}
      BY <1>2 DEF CloseDownClient, KillClient
    <3>2. client \in Clients \cup {NoClient} /\ ticks \in 0 .. MaxIdle /\ MaxIdle \in Nat
      BY TimesAre DEF TypeOK
    <3> QED BY <3>1, <3>2
  <2> QED BY <2>1, CloseTypes
<1>3. ASSUME NEW c \in Clients, MarkReady(c)
      PROVE  TypeOK'
  <2>1. ready' \in Seq(Clients) /\ Once(ready')
    BY <1>0, <1>3, AppendIs DEF MarkReady
  <2> QED BY <1>3, <2>1 DEF TypeOK, MarkReady
<1>4. ASSUME NEW c \in Clients, MarkNotReady(c)
      PROVE  TypeOK'
  <2>1. ready' \in Seq(Clients) /\ Once(ready')
    BY <1>0, <1>4, WithoutIs DEF MarkNotReady
  <2> QED BY <1>1, <1>4, <2>1 DEF TypeOK, MarkNotReady
<1>5. ASSUME NEW c \in Clients, InputEvent(c)
      PROVE  TypeOK'
  <2>1. smart_priority[c] \in Levels /\ smart_priority[c] < MaxPriority /\ MaxPriority \in Nat
    BY <1>0, <1>5, ConstantsAre DEF InputEvent
  <2>2. smart_priority[c] + 1 \in Levels
    BY <2>1 DEF Levels, MinPriority
  <2>3. smart_priority' \in [Clients -> Levels]
    BY <1>0, <1>5, <2>2 DEF InputEvent
  <2> QED BY <1>1, <1>5, <2>3 DEF TypeOK, InputEvent
<1>6. CASE EnableLimitedSchedulingLatency
  <2>1. MaxLimited \in Nat /\ MaxSlice \in Nat \ {0}
    BY DEF ConstantsAssumption
  <2> QED BY <1>6, <2>1 DEF TypeOK, EnableLimitedSchedulingLatency
<1>7. CASE DisableLimitedSchedulingLatency
  <2>1. MaxLimited \in Nat /\ MaxSlice \in Nat \ {0}
    BY DEF ConstantsAssumption
  <2> QED BY <1>7, <2>1 DEF TypeOK, DisableLimitedSchedulingLatency
<1>8. CASE Tick
  <2>1. LongRun + 1 \in Nat /\ MaxIdle \in Nat
    BY TimesAre
  <2>2. run' \in 0 .. (LongRun + 1) /\ ticks' \in 0 .. MaxIdle
    BY <1>8, <2>1, TimesAre DEF Tick, TypeOK
  <2>3. idle' \in [Clients -> 0 .. MaxIdle]
    BY <1>8, <2>1, TimesAre DEF Tick, TypeOK
  <2> QED BY <1>8, <2>2, <2>3 DEF TypeOK, Tick
<1>9. CASE Outgrow
  BY <1>9 DEF TypeOK, Outgrow
<1> QED BY <1>2, <1>3, <1>4, <1>5, <1>6, <1>7, <1>8, <1>9

LEMMA NextTypes == ASSUME ConstantsAssumption, TypeOK, [Next]_vars PROVE TypeOK'
<1>1. CASE UNCHANGED vars
  BY <1>1 DEF TypeOK, vars, clientVars, timeVars, sliceVars, lastVars
<1>2. CASE Next
  BY <1>2, ScheduleTypes, TurnTypes, OtherTypes DEF Next, Serve
<1> QED BY <1>1, <1>2

\* Every field keeps its type: smart_priority stays between its bounds, so that
\* SmartLastIndex has an element for it, and nobody is on the list of ready
\* clients twice (SmartScheduleClient, mark_client_ready).
THEOREM TypesHold == Spec => []TypeOK
<1>1. Init => TypeOK
  BY ConstantsAssumption, InitTypes
<1>2. TypeOK /\ [Next]_vars => TypeOK'
  BY ConstantsAssumption, NextTypes
<1> QED BY <1>1, <1>2, PTL DEF Spec

-----------------------------------------------------------------------------
(* In turn                                                                 *)

\* SYNC has set no priorities, and the indexes are different in eight bits.
Plain == Priorities = {0} /\ \A c \in Clients : c < Modulus

LEMMA DifferenceIs ==
    ASSUME NEW M \in Nat \ {0}, NEW a \in 0 .. (M - 1), NEW b \in 0 .. (M - 1)
    PROVE  (a - b) % M = IF a >= b THEN a - b ELSE a - b + M
<1>1. CASE a >= b
  BY <1>1
<1>2. CASE a < b
  BY <1>2
<1> QED BY <1>1, <1>2

\* Counted from last, d comes before c and c not after b; counted from b, d still
\* comes before c, and so does b itself.
LEMMA TurningKeepsOrder ==
    ASSUME NEW M \in Nat \ {0}, NEW last \in 0 .. (M - 1),
           NEW b \in 0 .. (M - 1), NEW c \in 0 .. (M - 1), NEW d \in 0 .. (M - 1),
           c # b, (c - last) % M <= (b - last) % M,
           d = b \/ (d - last) % M < (c - last) % M
    PROVE  (d - b) % M < (c - b) % M
<1>1. /\ (b - last) % M = IF b >= last THEN b - last ELSE b - last + M
      /\ (c - last) % M = IF c >= last THEN c - last ELSE c - last + M
      /\ (d - last) % M = IF d >= last THEN d - last ELSE d - last + M
      /\ (c - b) % M = IF c >= b THEN c - b ELSE c - b + M
      /\ (d - b) % M = IF d >= b THEN d - b ELSE d - b + M
  BY DifferenceIs
<1> DEFINE rb == (b - last) % M
           rc == (c - last) % M
           rd == (d - last) % M
           nc == (c - b) % M
           nd == (d - b) % M
<1> SUFFICES nd < nc
  OBVIOUS
<1>2. /\ rb = IF b >= last THEN b - last ELSE b - last + M
      /\ rc = IF c >= last THEN c - last ELSE c - last + M
      /\ rd = IF d >= last THEN d - last ELSE d - last + M
      /\ nc = IF c >= b THEN c - b ELSE c - b + M
      /\ nd = IF d >= b THEN d - b ELSE d - b + M
      /\ rc <= rb /\ (d = b \/ rd < rc)
  BY <1>1
<1> HIDE DEF rb, rc, rd, nc, nd
<1> QED BY <1>2

\* Who has had a turn while c waits would have to wait longer than c.
Waits ==
    \A c \in Clients : \A d \in overtook[c] :
        /\ c \in Range(ready) /\ smart_priority[d] = smart_priority[c]
        /\ Robin(smart_priority[c], d) < Robin(smart_priority[c], c)

LEMMA PlainIs ==
    ASSUME ConstantsAssumption, Plain, TypeOK
    PROVE  /\ Modulus \in Nat \ {0}
           /\ \A c \in Clients : c \in 0 .. (Modulus - 1) /\ priority[c] = 0
           /\ \A l \in Levels : SmartLastIndex[l] \in 0 .. (Modulus - 1)
<1>1. Clients \subseteq Nat \ {0} /\ Modulus \in Nat \ {0}
  BY DEF ConstantsAssumption
<1>2. SmartLastIndex \in [Levels -> Clients \cup {0}] /\ priority \in [Clients -> {0}]
  BY DEF TypeOK, Plain, NoClient
<1>3. \A c \in Clients \cup {0} : c \in 0 .. (Modulus - 1)
  BY <1>1 DEF Plain
<1> QED BY <1>1, <1>2, <1>3

LEMMA ScheduleWaits ==
    ASSUME ConstantsAssumption, Plain, TypeOK, Waits, SmartScheduleClient
    PROVE  /\ Waits'
           /\ \A c \in Range(ready) \ {client'} :
                 SamePriorities(smart_priority, client', c)
                     /\ SamePriorities(smart_priority', client', c)
                     /\ smart_priority'[c] = smart_priority[c]
                 => client' \notin overtook[c]
<1> DEFINE p == Praised
           b == Best(p)
<1>1. p \in [Clients -> Levels]
  BY PraisedType
<1>2. ready # <<>> /\ Schedule(p, b) /\ ready' = ready
  BY DEF SmartScheduleClient
<1> HIDE DEF p
<1>3. b \in Range(ready) /\ \A c \in Range(ready) : ~Ahead(p, c, b)
  BY <1>1, <1>2, BestIs
<1> HIDE DEF b
<1>4. Range(ready) \subseteq Clients /\ overtook \in [Clients -> SUBSET Clients]
  BY ReadyIs DEF TypeOK
<1>5. /\ client' = b /\ smart_priority' = p
      /\ SmartLastIndex' = [SmartLastIndex EXCEPT ![p[b]] = b]
      /\ overtook' = Overtaking(p, b)
  BY <1>2 DEF Schedule
<1>6. \A c \in Range(ready) : p[c] = p[b] => Robin(p[c], c) <= Robin(p[c], b)
  <2> TAKE c \in Range(ready)
  <2>1. priority[c] = priority[b]
    BY <1>3, <1>4, PlainIs
  <2>2. p[c] = p[b] => ~(Robin(p[c], c) > Robin(p[b], b))
    BY <1>3, <2>1 DEF Ahead
  <2>3. Robin(p[c], c) \in Int /\ Robin(p[c], b) \in Int
    <3>1. p[c] \in Levels /\ c \in Clients /\ b \in Clients
      BY <1>1, <1>3, <1>4
    <3>2. Robin(p[c], c) \in 0 .. (Modulus - 1) /\ Robin(p[c], b) \in 0 .. (Modulus - 1)
      BY <3>1, RobinType
    <3> QED BY <3>2, PlainIs
  <2> QED BY <2>2, <2>3
<1>7. ASSUME NEW c \in Clients, NEW d \in overtook'[c]
      PROVE  /\ c \in Range(ready') /\ smart_priority'[d] = smart_priority'[c]
             /\ Robin(smart_priority[c], d)' < Robin(smart_priority[c], c)'
  <2> DEFINE l == p[c]
             last == SmartLastIndex[l]
             next == SmartLastIndex'[l]
  <2>1. /\ c # b /\ c \in Range(ready) /\ p[c] = smart_priority[c]
        /\ \/ d \in overtook[c] /\ p[d] = smart_priority[d]
           \/ d = b /\ p[b] = p[c]
    BY <1>5, <1>7 DEF Overtaking, SamePriorities
  <2>2. d \in Clients /\ b \in Clients /\ l \in Levels
    BY <1>1, <1>3, <1>4, <2>1
  <2>3. p[d] = p[c]
    BY <2>1 DEF Waits
  <2>4. d = b \/ (d - last) % Modulus < (c - last) % Modulus
    BY <2>1 DEF Waits, Robin
  <2>5. next = IF p[b] = l THEN b ELSE last
    BY <1>5, <2>2 DEF TypeOK
  <2>6. /\ Modulus \in Nat \ {0} /\ last \in 0 .. (Modulus - 1)
        /\ b \in 0 .. (Modulus - 1) /\ c \in 0 .. (Modulus - 1) /\ d \in 0 .. (Modulus - 1)
    BY <2>2, PlainIs
  <2>7. p[b] = l => (c - last) % Modulus <= (b - last) % Modulus
    BY <1>6, <2>1 DEF Robin
  <2> HIDE DEF l, last, next
  <2>8. (d - next) % Modulus < (c - next) % Modulus
    <3>1. CASE p[b] = l
      <4>1. (d - b) % Modulus < (c - b) % Modulus
        BY <2>1, <2>4, <2>6, <2>7, <3>1, TurningKeepsOrder
      <4> QED BY <2>5, <3>1, <4>1
    <3>2. CASE p[b] # l
      <4>1. d # b
        BY <2>3, <3>2 DEF l
      <4> QED BY <2>4, <2>5, <3>2, <4>1
    <3> QED BY <3>1, <3>2
  <2>9. /\ Robin(smart_priority[c], d)' = (d - next) % Modulus
        /\ Robin(smart_priority[c], c)' = (c - next) % Modulus
    BY <1>5 DEF Robin, next, l
  <2> QED BY <1>2, <1>5, <2>1, <2>3, <2>8, <2>9
<1>8. ASSUME NEW c \in Range(ready) \ {b},
             smart_priority[c] = smart_priority[b], p[c] = p[b],
             p[c] = smart_priority[c], b \in overtook[c]
      PROVE  FALSE
  <2>1. Robin(p[c], b) < Robin(p[c], c)
    BY <1>4, <1>8 DEF Waits
  <2>2. Robin(p[c], c) <= Robin(p[c], b)
    BY <1>6, <1>8
  <2>3. p[c] \in Levels /\ c \in Clients /\ b \in Clients
    BY <1>1, <1>3, <1>4, <1>8
  <2>4. Robin(p[c], c) \in 0 .. (Modulus - 1) /\ Robin(p[c], b) \in 0 .. (Modulus - 1)
    BY <2>3, RobinType
  <2> QED BY <2>1, <2>2, <2>4, PlainIs
<1>9. Waits'
  BY <1>7 DEF Waits
<1> QED BY <1>5, <1>8, <1>9 DEF SamePriorities

\* Where nobody is marked as served, a client that is forgotten or does not wait is
\* taken out of the comparison, and the others are as they were.
LEMMA OthersWait ==
    ASSUME TypeOK, Waits, NEW c \in Clients, SmartLastIndex' = SmartLastIndex,
           \A d \in Clients \ {c} : smart_priority'[d] = smart_priority[d],
           \A d \in Range(ready) \ {c} : d \in Range(ready'),
           \/ overtook' = Forget(c)
           \/ overtook' = NotWaiting(c) /\ smart_priority'[c] = smart_priority[c]
           \/ /\ overtook' = overtook /\ smart_priority'[c] = smart_priority[c]
              /\ Range(ready) \subseteq Range(ready')
    PROVE  Waits'
<1>1. overtook \in [Clients -> SUBSET Clients]
  BY DEF TypeOK
<1>2. ASSUME NEW x \in Clients, NEW d \in overtook'[x]
      PROVE  /\ x \in Range(ready') /\ smart_priority'[d] = smart_priority'[x]
             /\ Robin(smart_priority[x], d)' < Robin(smart_priority[x], x)'
  <2>1. /\ d \in overtook[x]
        /\ \/ x # c /\ d # c
           \/ x # c /\ smart_priority'[c] = smart_priority[c]
           \/ smart_priority'[c] = smart_priority[c] /\ Range(ready) \subseteq Range(ready')
    BY <1>1, <1>2 DEF Forget, NotWaiting
  <2>2. /\ x \in Range(ready) /\ smart_priority[d] = smart_priority[x]
        /\ Robin(smart_priority[x], d) < Robin(smart_priority[x], x)
    BY <2>1 DEF Waits
  <2>3. d \in Clients
    BY <1>1, <2>1
  <2>4. smart_priority'[x] = smart_priority[x] /\ smart_priority'[d] = smart_priority[d]
    BY <2>1, <2>3
  <2>5. x \in Range(ready')
    BY <2>1, <2>2
  <2>6. /\ Robin(smart_priority[x], d)' = Robin(smart_priority[x], d)
        /\ Robin(smart_priority[x], x)' = Robin(smart_priority[x], x)
    BY <2>4 DEF Robin
  <2> QED BY <2>2, <2>4, <2>5, <2>6
<1> QED BY <1>2 DEF Waits

LEMMA NextWaits ==
    ASSUME ConstantsAssumption, Plain, TypeOK, Waits, [Next]_vars
    PROVE  Waits'
<1> USE DEF clientVars, timeVars, sliceVars, lastVars
<1>0. smart_priority \in [Clients -> Levels] /\ ready \in Seq(Clients) /\ Once(ready)
  BY DEF TypeOK
<1>1. \A c \in Clients :
        /\ Range(Without(ready, c)) = Range(ready) \ {c}
        /\ Range(Append(ready, c)) = Range(ready) \cup {c}
  BY <1>0, WithoutIs, AppendIs
<1>2. CASE SmartScheduleClient
  BY <1>2, ScheduleWaits
<1>3. CASE SliceExpired
  <2>1. client \in Clients
    BY <1>3 DEF SliceExpired, TypeOK
  <2> QED BY <1>0, <1>3, <2>1, OthersWait DEF SliceExpired
<1>4. CASE TurnEnds
  <2>1. client \in Clients
    BY <1>4 DEF TurnEnds, TypeOK
  <2>2. /\ SmartLastIndex' = SmartLastIndex /\ smart_priority' = smart_priority
        /\ \/ ready' = Without(ready, client) /\ overtook' = NotWaiting(client)
           \/ ready' = ready /\ overtook' = overtook
    BY <1>4 DEF TurnEnds
  <2>3. Range(ready) \ {client} \subseteq Range(ready')
    BY <1>1, <2>1, <2>2
  <2> QED BY <2>1, <2>2, <2>3, OthersWait
<1>5. ASSUME NEW c \in Clients, NEW q \in Priorities, SetPriority(c, q)
      PROVE  Waits'
  BY <1>5, PlainIs DEF SetPriority, Plain
<1>6. ASSUME NEW c \in Clients, CloseDownClient(c) \/ KillClient(c)
      PROVE  Waits'
  <2>1. Close(c)
    BY <1>6 DEF CloseDownClient, KillClient
  <2>2. /\ SmartLastIndex' = SmartLastIndex /\ overtook' = Forget(c)
        /\ smart_priority' = [smart_priority EXCEPT ![c] = 0]
        /\ ready' = Without(ready, c)
    BY <2>1 DEF Close
  <2>3. Range(ready') = Range(ready) \ {c}
    BY <1>1, <2>2
  <2> QED BY <1>0, <2>2, <2>3, OthersWait
<1>7. ASSUME NEW c \in Clients, MarkReady(c)
      PROVE  Waits'
  BY <1>0, <1>1, <1>7, OthersWait DEF MarkReady
<1>8. ASSUME NEW c \in Clients, MarkNotReady(c)
      PROVE  Waits'
  <2>1. /\ SmartLastIndex' = SmartLastIndex /\ overtook' = NotWaiting(c)
        /\ smart_priority' = smart_priority /\ ready' = Without(ready, c)
    BY <1>8 DEF MarkNotReady
  <2>2. Range(ready') = Range(ready) \ {c}
    BY <1>1, <2>1
  <2> QED BY <2>1, <2>2, OthersWait
<1>9. ASSUME NEW c \in Clients, InputEvent(c)
      PROVE  Waits'
  BY <1>0, <1>9, OthersWait DEF InputEvent
<1>10. CASE \/ EnableLimitedSchedulingLatency \/ DisableLimitedSchedulingLatency
            \/ Tick \/ Outgrow \/ UNCHANGED vars
  <2>1. /\ ready' = ready /\ smart_priority' = smart_priority
        /\ SmartLastIndex' = SmartLastIndex /\ overtook' = overtook
    BY <1>10 DEF EnableLimitedSchedulingLatency, DisableLimitedSchedulingLatency, Tick,
                 Outgrow, vars
  <2> QED BY <2>1 DEF Waits, Robin
<1> QED BY <1>2, <1>3, <1>4, <1>5, <1>6, <1>7, <1>8, <1>9, <1>10 DEF Next, Serve

\* A turn begins with SmartScheduleClient only.
LEMMA TurnBegins ==
    ASSUME ConstantsAssumption, TypeOK, [Next]_vars, client' \notin {client, NoClient}
    PROVE  SmartScheduleClient
BY DEF Next, Serve, SliceExpired, TurnEnds, EndOfTurn, SetPriority, CloseDownClient, KillClient,
       MarkReady, MarkNotReady, InputEvent, EnableLimitedSchedulingLatency,
       DisableLimitedSchedulingLatency, Tick, Outgrow, vars, clientVars, timeVars, sliceVars,
       lastVars

\* Where SYNC has set no priorities and all indexes are different in eight bits,
\* clients that are equals are served in round robin fashion (SmartScheduleClient).
THEOREM ServedInTurn == ASSUME Plain PROVE Spec => InTurn
<1>1. Init => TypeOK /\ Waits
  <2>1. ASSUME Init PROVE Waits
    BY <2>1 DEF Init, Waits
  <2> QED BY <2>1, ConstantsAssumption, InitTypes
<1>2. TypeOK /\ Waits /\ [Next]_vars => (TypeOK /\ Waits)'
  BY ConstantsAssumption, NextTypes, NextWaits
<1>3. TypeOK /\ Waits /\ [Next]_vars
      => [client' \notin {client, NoClient} =>
             \A c \in Range(ready) \ {client'} :
                 SamePriorities(smart_priority, client', c)
                     /\ SamePriorities(smart_priority', client', c)
                     /\ smart_priority'[c] = smart_priority[c]
                 => client' \notin overtook[c]]_vars
  BY ConstantsAssumption, TurnBegins, ScheduleWaits
<1> QED BY <1>1, <1>2, <1>3, PTL DEF Spec, InTurn

-----------------------------------------------------------------------------
(* Praise                                                                  *)

\* No less time has passed since the last turn than its client has been idle.
Rested ==
    client = NoClient /\ lastRun # NoClient /\ SmartLastClient = lastRun /\ ~wide
        => idle[lastRun] <= ticks

LEMMA TurnRests ==
    ASSUME TypeOK, client # NoClient, EndOfTurn, wide' = wide, SmartLastClient' = SmartLastClient
    PROVE  Rested'
<1>1. client \in Clients /\ idle \in [Clients -> 0 .. MaxIdle]
  BY DEF TypeOK
<1> QED BY <1>1 DEF Rested, EndOfTurn, Noted

LEMMA NextRests ==
    ASSUME ConstantsAssumption, TypeOK, Rested, [Next]_vars
    PROVE  Rested'
<1> USE DEF clientVars, timeVars, sliceVars, lastVars
<1>1. CASE SmartScheduleClient
  <2>1. Praised \in [Clients -> Levels] /\ ready # <<>>
    BY <1>1, PraisedType DEF SmartScheduleClient
  <2>2. Best(Praised) \in Clients
    BY <2>1, BestIs, ReadyIs
  <2>3. client' # NoClient
    BY <1>1, <2>2, ConstantsAre DEF SmartScheduleClient, Schedule
  <2> QED BY <2>3 DEF Rested
<1>2. CASE SliceExpired \/ TurnEnds \/ \E c \in Clients, q \in Priorities : SetPriority(c, q)
  <2>1. client # NoClient /\ EndOfTurn /\ wide' = wide /\ SmartLastClient' = SmartLastClient
    BY <1>2 DEF SliceExpired, TurnEnds, SetPriority
  <2> QED BY <2>1, TurnRests
<1>3. ASSUME NEW c \in Clients, CloseDownClient(c) \/ KillClient(c)
      PROVE  Rested'
  <2>1. SmartLastClient' = NoClient
    BY <1>3 DEF CloseDownClient, KillClient, Close
  <2> QED BY <2>1 DEF Rested
<1>4. CASE Tick
  <2>1. /\ client' = client /\ SmartLastClient' = SmartLastClient /\ wide' = wide
        /\ lastRun' = lastRun
        /\ idle' = [c \in Clients |-> Later(idle[c], MaxIdle)] /\ ticks' = Later(ticks, MaxIdle)
    BY <1>4 DEF Tick
  <2>2. /\ idle \in [Clients -> 0 .. MaxIdle] /\ ticks \in 0 .. MaxIdle /\ MaxIdle \in Nat
        /\ lastRun # NoClient => lastRun \in Clients
    BY TimesAre DEF TypeOK
  <2>3. ASSUME lastRun # NoClient, idle[lastRun] <= ticks
        PROVE  idle'[lastRun] <= ticks'
    <3>1. idle[lastRun] \in 0 .. MaxIdle /\ idle'[lastRun] = Later(idle[lastRun], MaxIdle)
      BY <2>1, <2>2, <2>3
    <3> QED BY <2>1, <2>2, <2>3, <3>1 DEF Later
  <2> QED BY <2>1, <2>3 DEF Rested
<1>5. CASE \/ \E c \in Clients : MarkReady(c) \/ MarkNotReady(c) \/ InputEvent(c)
           \/ EnableLimitedSchedulingLatency \/ DisableLimitedSchedulingLatency
           \/ UNCHANGED vars
  <2>1. UNCHANGED <<wide, client, SmartLastClient, lastRun, idle, ticks>>
    BY <1>5 DEF MarkReady, MarkNotReady, InputEvent, EnableLimitedSchedulingLatency,
                DisableLimitedSchedulingLatency, vars
  <2> QED BY <2>1 DEF Rested
<1>6. CASE Outgrow
  BY <1>6 DEF Outgrow, Rested
<1> QED BY <1>1, <1>2, <1>3, <1>4, <1>5, <1>6 DEF Next, Serve

LEMMA LastIsNotPraised ==
    ASSUME ConstantsAssumption, TypeOK, Rested, SmartScheduleClient, ~wide,
           lastRun # NoClient, SmartLastClient = lastRun, ticks < 2 * SmartScheduleSlice
    PROVE  smart_priority'[lastRun] <= smart_priority[lastRun]
<1>1. lastRun \in Clients /\ client = NoClient /\ smart_priority' = Praised
  BY DEF TypeOK, SmartScheduleClient, Schedule
<1>2. /\ idle[lastRun] <= ticks /\ idle[lastRun] \in Int /\ ticks \in Int
      /\ SmartScheduleSlice \in Int /\ smart_priority[lastRun] \in Int
  <2>1. /\ idle[lastRun] \in 0 .. MaxIdle /\ ticks \in 0 .. MaxIdle /\ MaxIdle \in Nat
        /\ SmartScheduleSlice \in 1 .. MaxSlice /\ MaxSlice \in Nat
        /\ smart_priority[lastRun] \in Levels
    BY <1>1, TimesAre DEF TypeOK
  <2> QED BY <1>1, <2>1, ConstantsAre DEF Rested
<1>3. ~(idle[lastRun] >= 2 * SmartScheduleSlice)
  BY <1>2
<1>4. Praised[lastRun] = smart_priority[lastRun]
  BY <1>1, <1>3 DEF Praised
<1> QED BY <1>1, <1>2, <1>4

\* Who has just had a turn is not praised, as long as nobody was closed since the
\* turn began and the time fits an int (SmartScheduleClient, smart_stop_tick).
THEOREM PraiseIsEarned == Spec => PraisedWhenIdle
<1>1. Init => TypeOK /\ Rested
  <2>1. ASSUME Init PROVE Rested
    BY <2>1 DEF Init, Rested
  <2> QED BY <2>1, ConstantsAssumption, InitTypes
<1>2. TypeOK /\ Rested /\ [Next]_vars => (TypeOK /\ Rested)'
  BY ConstantsAssumption, NextTypes, NextRests
<1>3. TypeOK /\ Rested /\ [Next]_vars
      => [/\ client' \notin {client, NoClient} /\ ~wide
          /\ lastRun # NoClient /\ SmartLastClient = lastRun
          /\ ticks < 2 * SmartScheduleSlice
          => smart_priority'[lastRun] <= smart_priority[lastRun]]_vars
  BY ConstantsAssumption, TurnBegins, LastIsNotPraised
<1> QED BY <1>1, <1>2, <1>3, PTL DEF Spec, PraisedWhenIdle

=============================================================================
