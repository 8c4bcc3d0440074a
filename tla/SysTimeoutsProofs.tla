------------------------- MODULE SysTimeoutsProofs --------------------------
(***************************************************************************)
(* The timeouts of lwIP, for every set of timers and intervals and every   *)
(* width of the times and of clock_t: until clock() overflows, the list is *)
(* in order and no handler is called early; every timer is there once, be- *)
(* fore that and after.                                                    *)
(***************************************************************************)
EXTENDS SysTimeouts, SequenceTheorems, FiniteSetTheorems, TLAPS

(***************************************************************************)
(* What the times in the list are.  The time of a timeout is the clock     *)
(* plus what is left, modulo Mod; a timeout is never more than MaxLag      *)
(* overdue.                                                                *)
(***************************************************************************)
Times ==
  \A k \in DOMAIN next_timeout :
    /\ next_timeout[k].time = (clock + next_timeout[k].left) % Mod
    /\ next_timeout[k].left \in -MaxLag .. Interval[next_timeout[k].id]

(***************************************************************************)
(* In sys_check_timeouts, now is the clock of age ticks ago.  What a       *)
(* timeout had left then is left + age, and is within the reach of         *)
(* TIME_LESS_THAN.                                                         *)
(***************************************************************************)
InReach(age) ==
  \A k \in DOMAIN next_timeout :
    next_timeout[k].left + age \in -MaxLag .. Interval[next_timeout[k].id] + MaxLag

Aged(age) == /\ now = (clock - age) % Mod
             /\ pc = "call" => age <= lag
             /\ InReach(age)

Ages == pc \in {"check", "call"} => \E age \in Nat : Aged(age)

Handling ==
  pc = "call" => /\ current \in Timer
                 /\ due = (clock - lag) % Mod
                 /\ lag \in 0 .. MaxLag

ListInv == /\ TypeOK
           /\ Times
           /\ Ages
           /\ Handling
           /\ InOrder

CountInv == /\ EachTimerOnce
            /\ pc = "call" <=> current # "none"
-----------------------------------------------------------------------------
(***************************************************************************)
(* Times that wrap.                                                        *)
(***************************************************************************)
\* What the assumptions on the constants say.
LEMMA Bounds ==
  /\ Mod \in Nat \ {0} /\ MaxLag \in Nat /\ PoolSize \in Nat
  /\ \A i \in Timer : Interval[i] \in Nat \ {0} /\ 2 * (MaxLag + Interval[i]) < Mod
  /\ "tcp" \in Timer /\ Cyclic \subseteq Timer
  /\ "none" \notin Timer /\ "tcp" \notin Cyclic
<1>1. /\ "tcp" \in Timer /\ Cyclic \subseteq Timer
      /\ "none" \notin Timer /\ "tcp" \notin Cyclic
  BY TimeoutsAssumption DEF Timer
<1>2. \A i \in Timer : Interval[i] \in Nat \ {0} /\ 2 * (MaxLag + Interval[i]) < Mod
  BY TimeoutsAssumption
<1>3. Mod # 0
  BY <1>1, <1>2, TimeoutsAssumption
<1> QED
  BY <1>1, <1>2, <1>3, TimeoutsAssumption

\* A number is a multiple of n and its remainder.
LEMMA Remainder ==
  ASSUME NEW n \in Nat \ {0}, NEW x \in Int
  PROVE  \E q \in Int, r \in 0 .. n - 1 : x = n * q + r /\ x % n = r
<1>1. x \div n \in Int /\ x % n \in 0 .. n - 1
  OBVIOUS
<1>2. PICK q \in Int, r \in 0 .. n - 1 : q = x \div n /\ r = x % n
  BY <1>1
<1>3. x = n * q + r
  BY <1>2
<1> QED
  BY <1>2, <1>3

\* There is only one number below n that differs from x by a multiple of n.
LEMMA OneRemainder ==
  ASSUME NEW n \in Nat \ {0}, NEW q \in Int, NEW r \in 0 .. n - 1
  PROVE  (n * q + r) % n = r
  OBVIOUS

LEMMA SameRemainder ==
  ASSUME NEW n \in Nat \ {0}, NEW x \in Int, NEW q \in Int
  PROVE  (x + n * q) % n = x % n
<1>1. PICK s \in Int, r \in 0 .. n - 1 : x = n * s + r /\ x % n = r
  BY Remainder
<1>2. x + n * q = n * (s + q) + r
  <2>1. n * (s + q) = n * s + n * q /\ n * s \in Int /\ n * q \in Int
    OBVIOUS
  <2> DEFINE a == n * s
             b == n * q
             c == n * (s + q)
  <2>2. c = a + b /\ a \in Int /\ b \in Int /\ x = a + r /\ r \in Int
    BY <1>1, <2>1
  <2> HIDE DEF a, b, c
  <2>3. x + b = c + r
    BY <2>2
  <2> QED
    BY <2>3 DEF b, c
<1>3. (n * (s + q) + r) % n = r
  BY s + q \in Int, OneRemainder
<1> QED
  BY <1>1, <1>2, <1>3

LEMMA AddedRemainder ==
  ASSUME NEW n \in Nat \ {0}, NEW x \in Int, NEW y \in Int
  PROVE  ((x % n) + y) % n = (x + y) % n
<1>1. PICK q \in Int, r \in 0 .. n - 1 : x = n * q + r /\ x % n = r
  BY Remainder
<1>2. r + y \in Int /\ x + y = (r + y) + n * q
  <2> DEFINE a == n * q
  <2>1. a \in Int /\ x = a + r
    BY <1>1
  <2> HIDE DEF a
  <2>2. r + y \in Int /\ x + y = (r + y) + a
    BY <2>1
  <2> QED
    BY <2>2 DEF a
<1>3. ((r + y) + n * q) % n = (r + y) % n
  BY <1>2, SameRemainder
<1> QED
  BY <1>1, <1>2, <1>3

LEMMA Difference ==
  ASSUME NEW n \in Nat \ {0}, NEW x \in Int, NEW y \in Int
  PROVE  ((x % n) - (y % n)) % n = (x - y) % n
<1>1. PICK p \in Int, u \in 0 .. n - 1 : x = n * p + u /\ x % n = u
  BY Remainder
<1>2. PICK q \in Int, v \in 0 .. n - 1 : y = n * q + v /\ y % n = v
  BY Remainder
<1>3. u - v \in Int /\ x - y = (u - v) + n * (p - q)
  <2>1. n * (p - q) = n * p - n * q /\ n * p \in Int /\ n * q \in Int
    OBVIOUS
  <2> DEFINE a == n * p
             b == n * q
             c == n * (p - q)
  <2>2. c = a - b /\ a \in Int /\ b \in Int /\ x = a + u /\ y = b + v
    BY <1>1, <1>2, <2>1
  <2> HIDE DEF a, b, c
  <2>3. u - v \in Int /\ x - y = (u - v) + c
    BY <2>2
  <2> QED
    BY <2>3 DEF c
<1>4. ((u - v) + n * (p - q)) % n = (u - v) % n
  BY <1>3, p - q \in Int, SameRemainder
<1>5. (x % n) - (y % n) = u - v
  BY <1>1, <1>2, Zenon
<1>6. (x - y) % n = (u - v) % n
  BY <1>3, <1>4, Zenon
<1> QED
  BY <1>5, <1>6, Zenon

(***************************************************************************)
(* TIME_LESS_THAN compares what is left, as long as the two differ by less *)
(* than half of the clock's range.                                         *)
(***************************************************************************)
LEMMA HalfRange ==
  ASSUME NEW n \in Nat \ {0}, NEW d \in Int, 2 * d < n, 2 * (-d) < n
  PROVE  d % n > (n - 1) \div 2 <=> d < 0
<1> DEFINE h == (n - 1) \div 2
<1>1. h \in Int /\ 2 * h <= n - 1 /\ n - 1 <= 2 * h + 1
  OBVIOUS
<1>2. CASE d >= 0
  <2>1. d % n = d
    <3>1. d \in 0 .. n - 1
      BY <1>2
    <3>2. n * 0 + d = d
      OBVIOUS
    <3>3. (n * 0 + d) % n = d
      BY <3>1, OneRemainder
    <3> QED
      BY <3>2, <3>3
  <2> HIDE DEF h
  <2> QED
    BY <1>1, <1>2, <2>1 DEF h
<1>3. CASE d < 0
  <2>1. d % n = d + n
    <3>1. d + n \in 0 .. n - 1
      BY <1>3
    <3>2. n * (-1) + (d + n) = d
      OBVIOUS
    <3>3. (n * (-1) + (d + n)) % n = d + n
      BY <3>1, OneRemainder
    <3> QED
      BY <3>2, <3>3
  <2> HIDE DEF h
  <2>2. d + n > h
    BY <1>1, <1>3
  <2> QED
    BY <1>3, <2>1, <2>2 DEF h
<1> QED
  BY <1>2, <1>3

LEMMA TimeLess ==
  ASSUME NEW c \in Int, NEW a \in Int, NEW b \in Int,
         2 * (a - b) < Mod, 2 * (b - a) < Mod
  PROVE  TIME_LESS_THAN((c + a) % Mod, (c + b) % Mod) <=> a < b
<1>1. Mod \in Nat \ {0}
  BY Bounds
<1> DEFINE x == c + a
           y == c + b
<1>2. x \in Int /\ y \in Int /\ x - y = a - b
  OBVIOUS
<1> HIDE DEF x, y
<1>3. ((x % Mod) - (y % Mod)) % Mod = (a - b) % Mod
  <2>1. ((x % Mod) - (y % Mod)) % Mod = (x - y) % Mod
    BY <1>1, <1>2, Difference, Zenon
  <2> QED
    BY <1>2, <2>1, Zenon
<1>4. (a - b) % Mod > (Mod - 1) \div 2 <=> a - b < 0
  <2>1. a - b \in Int /\ -(a - b) = b - a
    OBVIOUS
  <2> QED
    BY <1>1, <2>1, HalfRange
<1>5. a - b < 0 <=> a < b
  OBVIOUS
<1>6. TIME_LESS_THAN(x % Mod, y % Mod) <=> a < b
  <2> DEFINE m == ((x % Mod) - (y % Mod)) % Mod
  <2>1. TIME_LESS_THAN(x % Mod, y % Mod) <=> m > (Mod - 1) \div 2
    BY Zenon DEF TIME_LESS_THAN
  <2>2. m = (a - b) % Mod
    BY <1>3
  <2> HIDE DEF m
  <2> QED
    BY <1>4, <1>5, <2>1, <2>2
<1> QED
  BY <1>6, Zenon DEF x, y
-----------------------------------------------------------------------------
(***************************************************************************)
(* What sys_timeout_abs makes of the list: t is put at p, in front of the  *)
(* timeouts that are later and behind the others.                          *)
(***************************************************************************)
PutAt(new, list, t, p) ==
  /\ p \in 1 .. Len(list) + 1
  /\ new \in Seq(Timeout) /\ Len(new) = Len(list) + 1
  /\ \A k \in 1 .. Len(list) + 1 :
       new[k] = IF k < p THEN list[k] ELSE IF k = p THEN t ELSE list[k - 1]

LEMMA LeastMember ==
  ASSUME NEW S \in SUBSET Nat, S # {}
  PROVE  Min(S) \in S /\ \A k \in S : Min(S) <= k
<1> DEFINE R == {ss \in Nat \X Nat : ss[1] < ss[2]}
<1>1. IsWellFoundedOn(R, Nat)
  BY NatLessThanWellFounded DEF OpToRel
<1>2. \A x, y \in Nat : <<y, x>> \in R <=> y < x
  OBVIOUS
<1> HIDE DEF R
<1>3. PICK x \in S : \A y \in S : ~(<<y, x>> \in R)
  BY <1>1, WFMin
<1>4. ASSUME NEW y \in S PROVE x <= y
  <2>1. x \in Nat /\ y \in Nat
    OBVIOUS
  <2>2. ~(y < x)
    BY <1>2, <1>3, <2>1
  <2> QED
    BY <2>1, <2>2
<1> QED
  BY <1>4 DEF Min

LEMMA PutInside ==
  ASSUME NEW list \in Seq(Timeout), NEW t \in Timeout, NEW p \in 1 .. Len(list)
  PROVE  PutAt(InsertAt(list, p, t), list, t, p)
<1> DEFINE a == SubSeq(list, 1, p - 1)
           b == a \o <<t>>
           c == SubSeq(list, p, Len(list))
           n == Len(list)
<1>1. n \in Nat /\ p \in Int /\ p - 1 \in Int /\ p >= 1 /\ p <= n
  OBVIOUS
<1>2. a \in Seq(Timeout) /\ Len(a) = p - 1 /\ \A i \in 1 .. p - 1 : a[i] = list[i]
  <2>1. \A i \in 1 .. p - 1 : list[i] \in Timeout
    OBVIOUS
  <2>2. a \in Seq(Timeout) /\ Len(a) = (IF 1 <= p - 1 THEN p - 1 - 1 + 1 ELSE 0)
        /\ \A i \in 1 .. p - 1 - 1 + 1 : a[i] = list[1 + i - 1]
    BY <1>1, <2>1, SubSeqProperties
  <2> HIDE DEF a
  <2> QED
    BY <1>1, <2>2
<1>3. c \in Seq(Timeout) /\ Len(c) = n - p + 1
      /\ \A i \in 1 .. n - p + 1 : c[i] = list[p + i - 1]
  <2>1. \A i \in p .. n : list[i] \in Timeout
    OBVIOUS
  <2>2. c \in Seq(Timeout) /\ Len(c) = (IF p <= n THEN n - p + 1 ELSE 0)
        /\ \A i \in 1 .. n - p + 1 : c[i] = list[p + i - 1]
    BY <1>1, <2>1, SubSeqProperties
  <2> HIDE DEF c
  <2> QED
    BY <1>1, <2>2
<1> HIDE DEF a, c, n
<1>4. b \in Seq(Timeout) /\ Len(b) = p
      /\ \A i \in 1 .. p : b[i] = IF i <= p - 1 THEN list[i] ELSE t
  <2>1. <<t>> \in Seq(Timeout) /\ Len(<<t>>) = 1 /\ <<t>>[1] = t
    OBVIOUS
  <2>2. b \in Seq(Timeout) /\ Len(b) = Len(a) + Len(<<t>>)
        /\ \A i \in 1 .. Len(a) + Len(<<t>>) :
             b[i] = IF i <= Len(a) THEN a[i] ELSE <<t>>[i - Len(a)]
    BY <1>2, <2>1, ConcatProperties
  <2> HIDE DEF b
  <2> QED
    BY <1>1, <1>2, <2>1, <2>2
<1> HIDE DEF b
<1>5. b \o c \in Seq(Timeout) /\ Len(b \o c) = n + 1
      /\ \A i \in 1 .. n + 1 : (b \o c)[i] = IF i <= p THEN b[i] ELSE c[i - p]
  <2>1. b \o c \in Seq(Timeout) /\ Len(b \o c) = Len(b) + Len(c)
        /\ \A i \in 1 .. Len(b) + Len(c) :
             (b \o c)[i] = IF i <= Len(b) THEN b[i] ELSE c[i - Len(b)]
    BY <1>3, <1>4, ConcatProperties
  <2>2. Len(b) + Len(c) = n + 1
    BY <1>1, <1>3, <1>4
  <2> QED
    BY <1>4, <2>1, <2>2
<1> DEFINE new == b \o c
<1>6. InsertAt(list, p, t) = new
  BY DEF InsertAt, a, b, c, n
<1>7. \A i \in 1 .. n + 1 :
        new[i] = IF i < p THEN list[i] ELSE IF i = p THEN t ELSE list[i - 1]
  <2> TAKE i \in 1 .. n + 1
  <2> HIDE DEF new
  <2>1. new[i] = IF i <= p THEN b[i] ELSE c[i - p]
    BY <1>5 DEF new
  <2>2. CASE i <= p
    BY <1>1, <1>4, <2>1, <2>2
  <2>3. CASE i > p
    <3>1. i - p \in 1 .. n - p + 1 /\ p + (i - p) - 1 = i - 1
      BY <1>1, <2>3
    <3>2. c[i - p] = list[i - 1]
      BY <1>3, <3>1
    <3> QED
      BY <1>1, <2>1, <2>3, <3>2
  <2> QED
    BY <1>1, <2>2, <2>3
<1> QED
  BY <1>1, <1>5, <1>6, <1>7 DEF PutAt, n

LEMMA PutAtEnd ==
  ASSUME NEW list \in Seq(Timeout), NEW t \in Timeout
  PROVE  PutAt(Append(list, t), list, t, Len(list) + 1)
<1>1. Append(list, t) \in Seq(Timeout) /\ Len(Append(list, t)) = Len(list) + 1
  BY AppendProperties
<1>2. \A k \in 1 .. Len(list) + 1 :
        Append(list, t)[k] = IF k = Len(list) + 1 THEN t ELSE list[k]
  OBVIOUS
<1> QED
  BY <1>1, <1>2 DEF PutAt

LEMMA Inserted ==
  ASSUME NEW list \in Seq(Timeout), NEW t \in Timeout
  PROVE  \E p \in 1 .. Len(list) + 1 :
           /\ PutAt(Insert(list, t), list, t, p)
           /\ \A k \in 1 .. p - 1 : ~TIME_LESS_THAN(t.time, list[k].time)
           /\ p <= Len(list) => TIME_LESS_THAN(t.time, list[p].time)
<1> DEFINE later == {k \in DOMAIN list : TIME_LESS_THAN(t.time, list[k].time)}
<1>1. DOMAIN list = 1 .. Len(list) /\ Len(list) \in Nat
  OBVIOUS
<1>2. CASE later = {}
  <2>1. Insert(list, t) = Append(list, t)
    BY <1>2 DEF Insert
  <2>2. \A k \in 1 .. Len(list) : ~TIME_LESS_THAN(t.time, list[k].time)
    BY <1>1, <1>2
  <2>3. PutAt(Insert(list, t), list, t, Len(list) + 1)
    BY <2>1, PutAtEnd
  <2>4. Len(list) + 1 \in 1 .. Len(list) + 1 /\ (Len(list) + 1) - 1 = Len(list)
        /\ ~(Len(list) + 1 <= Len(list))
    BY <1>1
  <2> QED
    BY <2>2, <2>3, <2>4
<1>3. CASE later # {}
  <2> DEFINE p == Min(later)
  <2>1. Insert(list, t) = InsertAt(list, p, t)
    BY <1>3 DEF Insert
  <2>2. later \in SUBSET Nat
    BY <1>1
  <2>3. p \in later /\ \A k \in later : p <= k
    <3> HIDE DEF later
    <3> QED
      BY <1>3, <2>2, LeastMember
  <2> HIDE DEF p
  <2>4. p \in 1 .. Len(list) /\ TIME_LESS_THAN(t.time, list[p].time)
    BY <1>1, <2>3
  <2>5. ASSUME NEW k \in 1 .. p - 1 PROVE ~TIME_LESS_THAN(t.time, list[k].time)
    BY <1>1, <2>3, <2>4
  <2>6. PutAt(Insert(list, t), list, t, p)
    BY <2>1, <2>4, PutInside
  <2> QED
    BY <1>1, <2>4, <2>5, <2>6
<1> QED
  BY <1>2, <1>3
-----------------------------------------------------------------------------
(***************************************************************************)
(* Every variable has its type, whatever the clock does.                   *)
(***************************************************************************)
\* What an action that schedules a timer, or leaves the list alone, makes of it.
IsList(list) == list \in Seq(Timeout) /\ Len(list) <= PoolSize

LEMMA IsTime ==
  ASSUME NEW x \in Int
  PROVE  x % Mod \in 0 .. Mod - 1
<1>1. Mod \in Nat \ {0}
  BY Bounds
<1>2. PICK r \in 0 .. Mod - 1 : x % Mod = r
  BY <1>1, Remainder
<1> QED
  BY <1>2

LEMMA StaysList ==
  ASSUME IsList(next_timeout), NEW id \in Timer, NEW left \in Int,
         NEW time \in 0 .. Mod - 1, sys_timeout_abs(id, time, left)
  PROVE  IsList(next_timeout')
<1> DEFINE t == [id |-> id, time |-> time, left |-> left]
<1>1. t \in Timeout
  BY DEF Timeout
<1>2. next_timeout \in Seq(Timeout) /\ Len(next_timeout) \in Nat /\ PoolSize \in Nat
  BY Bounds DEF IsList
<1>3. CASE Len(next_timeout) < PoolSize
  <2>1. next_timeout' = Insert(next_timeout, t)
    BY <1>3 DEF sys_timeout_abs
  <2> HIDE DEF t
  <2>2. PICK p \in 1 .. Len(next_timeout) + 1 : PutAt(next_timeout', next_timeout, t, p)
    BY <1>1, <1>2, <2>1, Inserted
  <2>3. next_timeout' \in Seq(Timeout) /\ Len(next_timeout') = Len(next_timeout) + 1
    BY <2>2 DEF PutAt
  <2> QED
    BY <1>2, <1>3, <2>3 DEF IsList
<1>4. CASE ~(Len(next_timeout) < PoolSize)
  BY <1>4 DEF sys_timeout_abs
<1> QED
  BY <1>3, <1>4

LEMMA StaysListFromNow ==
  ASSUME TypeOK, NEW id \in Timer, sys_timeout(id)
  PROVE  IsList(next_timeout')
<1>1. clock + Interval[id] \in Int /\ Interval[id] \in Int /\ IsList(next_timeout)
  BY Bounds DEF TypeOK, IsList
<1>2. PICK r \in 0 .. Mod - 1 : (clock + Interval[id]) % Mod = r
  BY <1>1, IsTime
<1>3. sys_timeout_abs(id, r, Interval[id])
  BY <1>2 DEF sys_timeout
<1> QED
  BY <1>1, <1>2, <1>3, StaysList

\* A tick changes no more than what is left.
LEMMA ListAges ==
  ASSUME next_timeout \in Seq(Timeout), Tick
  PROVE  /\ next_timeout' \in Seq(Timeout) /\ Len(next_timeout') = Len(next_timeout)
         /\ DOMAIN next_timeout' = DOMAIN next_timeout
         /\ \A k \in DOMAIN next_timeout :
              /\ next_timeout'[k].id = next_timeout[k].id
              /\ next_timeout'[k].time = next_timeout[k].time
              /\ next_timeout'[k].left = IF next_timeout[k].left > -MaxLag
                                         THEN next_timeout[k].left - 1
                                         ELSE next_timeout[k].left
<1> DEFINE n == Len(next_timeout)
           Older(k) == [next_timeout[k] EXCEPT !.left = IF @ > -MaxLag THEN @ - 1 ELSE @]
<1>1. n \in Nat /\ DOMAIN next_timeout = 1 .. n /\ MaxLag \in Nat
  BY Bounds
<1>2. next_timeout' = [k \in 1 .. n |-> Older(k)]
  BY <1>1, Zenon DEF Tick
<1>3. ASSUME NEW k \in 1 .. n
      PROVE  /\ Older(k) \in Timeout
             /\ Older(k).id = next_timeout[k].id /\ Older(k).time = next_timeout[k].time
             /\ Older(k).left = IF next_timeout[k].left > -MaxLag
                                THEN next_timeout[k].left - 1 ELSE next_timeout[k].left
  <2>1. next_timeout[k] \in Timeout
    BY <1>1
  <2> QED
    BY <1>1, <2>1 DEF Timeout
<1> HIDE DEF n, Older
<1>4. next_timeout' \in [1 .. n -> Timeout]
  BY <1>2, <1>3
<1>5. next_timeout' \in Seq(Timeout) /\ Len(next_timeout') = n
      /\ DOMAIN next_timeout' = 1 .. n
  BY <1>1, <1>4
<1>6. \A k \in 1 .. n : next_timeout'[k] = Older(k)
  BY <1>2
<1> QED
  BY <1>1, <1>3, <1>5, <1>6 DEF n

LEMMA TypeStep ==
  ASSUME TypeOK, [Next]_vars
  PROVE  TypeOK'
<1>1. /\ Mod \in Nat \ {0} /\ 0 \in 0 .. Mod - 1 /\ IsList(next_timeout)
      /\ clock \in Int /\ due \in Int /\ lag \in Int
  BY Bounds DEF TypeOK, IsList
<1>2. CASE Tick
  <2>1. clock' \in 0 .. Mod - 1
    <3>1. -ClockMax \in Int /\ clock + 1 \in Int
      BY <1>1, TimeoutsAssumption
    <3>2. (-ClockMax) % Mod \in 0 .. Mod - 1 /\ (clock + 1) % Mod \in 0 .. Mod - 1
      BY <3>1, IsTime
    <3> QED
      BY <1>2, <3>2, Zenon DEF Tick, sys_now
  <2>2. IsList(next_timeout')
    BY <1>1, <1>2, ListAges DEF IsList
  <2>3. lag' \in Int
    BY <1>1, <1>2 DEF Tick
  <2>4. overflowed' \in BOOLEAN
    BY <1>2 DEF Tick, TypeOK
  <2>5. UNCHANGED <<pc, now, due, current, tcpip_tcp_timer_active, pcbs>>
    BY <1>2 DEF Tick
  <2> QED
    BY <2>1, <2>2, <2>3, <2>4, <2>5 DEF TypeOK, IsList
<1>3. CASE InitTimer \/ TcpReg
  <2>1. IsList(next_timeout')
    <3>1. (\E i \in Timer : sys_timeout(i)) \/ UNCHANGED next_timeout
      BY <1>3, Bounds DEF InitTimer, TcpReg, tcp_timer_needed
    <3> QED
      BY <1>1, <3>1, StaysListFromNow
  <2>2. tcpip_tcp_timer_active' \in BOOLEAN /\ pcbs' \in BOOLEAN
    BY <1>3 DEF TypeOK, InitTimer, TcpReg, tcp_timer_needed
  <2>3. UNCHANGED <<pc, clock, overflowed, now, due, lag, current>>
    BY <1>3 DEF InitTimer, TcpReg
  <2> QED
    BY <2>1, <2>2, <2>3 DEF TypeOK, IsList
<1>4. CASE CallHandler
  <2> DEFINE h == Head(next_timeout)
  <2>1. next_timeout \in Seq(Timeout) /\ next_timeout # << >> /\ h \in Timeout
    BY <1>1, <1>4 DEF IsList, CallHandler, Expired
  <2>2. h.id \in Timer /\ h.time \in 0 .. Mod - 1 /\ -h.left \in Int
    BY <2>1 DEF Timeout
  <2>3. IsList(next_timeout')
    BY <1>1, <1>4, <2>1, Bounds DEF IsList, CallHandler
  <2> HIDE DEF h
  <2>4. /\ pc' = "call" /\ current' = h.id /\ due' = h.time /\ lag' = -h.left
        /\ UNCHANGED <<clock, overflowed, now, tcpip_tcp_timer_active, pcbs>>
    BY <1>4 DEF CallHandler, h
  <2> QED
    BY <2>2, <2>3, <2>4 DEF TypeOK, IsList
<1>5. CASE lwip_cyclic_timer
  <2>1. current \in Timer /\ Interval[current] \in Int /\ due + Interval[current] \in Int
        /\ Interval[current] - lag \in Int
    BY <1>1, <1>5, Bounds DEF lwip_cyclic_timer
  <2>2. PICK r \in 0 .. Mod - 1 : (due + Interval[current]) % Mod = r
    BY <2>1, IsTime
  <2>3. sys_timeout(current) \/ sys_timeout_abs(current, r, Interval[current] - lag)
    BY <1>5, <2>2 DEF lwip_cyclic_timer
  <2>4. IsList(next_timeout')
    BY <1>1, <2>1, <2>3, StaysList, StaysListFromNow
  <2>5. /\ pc' = "check" /\ current' = "none" /\ due' = 0 /\ lag' = 0
        /\ UNCHANGED <<clock, overflowed, now, tcpip_tcp_timer_active, pcbs>>
    BY <1>5 DEF lwip_cyclic_timer
  <2> QED
    BY <1>1, <2>4, <2>5 DEF TypeOK, IsList
<1>6. CASE tcpip_tcp_timer
  <2>1. IsList(next_timeout')
    <3>1. sys_timeout("tcp") \/ UNCHANGED next_timeout
      BY <1>6 DEF tcpip_tcp_timer
    <3> QED
      BY <1>1, <3>1, Bounds, StaysListFromNow
  <2>2. tcpip_tcp_timer_active' \in BOOLEAN /\ pcbs' \in BOOLEAN
    BY <1>6 DEF TypeOK, tcpip_tcp_timer
  <2>3. /\ pc' = "check" /\ current' = "none" /\ due' = 0 /\ lag' = 0
        /\ UNCHANGED <<clock, overflowed, now>>
    BY <1>6 DEF tcpip_tcp_timer
  <2> QED
    BY <1>1, <2>1, <2>2, <2>3 DEF TypeOK, IsList
<1>7. CASE InitReturns \/ sys_check_timeouts \/ CheckReturns \/ TcpRmv
  BY <1>1, <1>7 DEF TypeOK, InitReturns, sys_check_timeouts, CheckReturns, TcpRmv
<1>8. CASE UNCHANGED vars
  BY <1>8 DEF TypeOK, vars
<1> QED
  BY <1>2, <1>3, <1>4, <1>5, <1>6, <1>7, <1>8 DEF Next, MainStep

LEMMA Types == Spec => []TypeOK
<1>1. Init => TypeOK
  <2> SUFFICES ASSUME Init PROVE TypeOK
    OBVIOUS
  <2>1. << >> \in Seq(Timeout) /\ Len(<< >>) = 0 /\ 0 \in 0 .. Mod - 1 /\ 0 <= PoolSize
    BY Bounds
  <2>2. {clock, now, due} \subseteq 0 .. Mod - 1 /\ lag \in Int
    BY <2>1 DEF Init, Reading
  <2>3. tcpip_tcp_timer_active \in BOOLEAN /\ pcbs \in BOOLEAN /\ overflowed \in BOOLEAN
    BY DEF Init
  <2>4. pc = "init" /\ current = "none" /\ next_timeout = << >>
    BY DEF Init
  <2> QED
    BY <2>1, <2>2, <2>3, <2>4 DEF TypeOK
<1> QED
  BY <1>1, TypeStep, PTL DEF Spec
-----------------------------------------------------------------------------
(***************************************************************************)
(* Scheduling a timer keeps the list in order and its times right.         *)
(***************************************************************************)
\* What sys_timeout_abs does to the list, told by its members.
Scheduled(t) ==
  /\ next_timeout' \in Seq(Timeout) /\ Len(next_timeout') <= PoolSize
  /\ InOrder'
  /\ \A k \in DOMAIN next_timeout' :
       \/ next_timeout'[k] = t
       \/ \E j \in DOMAIN next_timeout : next_timeout'[k] = next_timeout[j]

LEMMA Scheduling ==
  ASSUME TypeOK, Times, InOrder,
         NEW id \in Timer, NEW left \in -MaxLag .. Interval[id], NEW time \in Int,
         time = (clock + left) % Mod, sys_timeout_abs(id, time, left)
  PROVE  Scheduled([id |-> id, time |-> time, left |-> left])
<1> DEFINE t == [id |-> id, time |-> time, left |-> left]
           n == Len(next_timeout)
<1>1. /\ next_timeout \in Seq(Timeout) /\ n \in Nat /\ n <= PoolSize /\ clock \in Int
      /\ DOMAIN next_timeout = 1 .. n
  BY Bounds DEF TypeOK
<1>2. t \in Timeout /\ t.left = left /\ t.time = time
  <2>1. time \in 0 .. Mod - 1
    <3>1. clock + left \in Int /\ Mod \in Nat \ {0}
      BY <1>1, Bounds
    <3>2. PICK r \in 0 .. Mod - 1 : (clock + left) % Mod = r
      BY <3>1, Remainder
    <3> QED
      BY <3>2
  <2>2. left \in Int
    BY Bounds
  <2> QED
    BY <2>1, <2>2 DEF Timeout
<1> HIDE DEF t, n
<1>3. CASE ~(n < PoolSize)
  BY <1>1, <1>3 DEF sys_timeout_abs, Scheduled, InOrder, n
<1>4. CASE n < PoolSize
  <2>1. next_timeout' = Insert(next_timeout, t)
    BY <1>4 DEF sys_timeout_abs, n, t
  <2>2. PICK p \in 1 .. n + 1 :
          /\ PutAt(next_timeout', next_timeout, t, p)
          /\ \A k \in 1 .. p - 1 : ~TIME_LESS_THAN(t.time, next_timeout[k].time)
          /\ p <= n => TIME_LESS_THAN(t.time, next_timeout[p].time)
    BY <1>1, <1>2, <2>1, Inserted DEF n
  <2>3. /\ next_timeout' \in Seq(Timeout) /\ Len(next_timeout') = n + 1
        /\ \A k \in 1 .. n + 1 :
             next_timeout'[k] = IF k < p THEN next_timeout[k]
                                ELSE IF k = p THEN t ELSE next_timeout[k - 1]
    BY <2>2 DEF PutAt, n
  <2>4. ASSUME NEW k \in 1 .. n
        PROVE  /\ next_timeout[k].left \in Int
               /\ TIME_LESS_THAN(t.time, next_timeout[k].time)
                    <=> left < next_timeout[k].left
    <3> DEFINE b == next_timeout[k].left
    <3>1. /\ next_timeout[k].id \in Timer
          /\ b \in -MaxLag .. Interval[next_timeout[k].id]
          /\ next_timeout[k].time = (clock + b) % Mod
      <4>1. next_timeout[k] \in Timeout /\ k \in DOMAIN next_timeout
        BY <1>1 DEF n
      <4> QED
        BY <4>1 DEF Times, Timeout
    <3>2. b \in Int /\ 2 * (left - b) < Mod /\ 2 * (b - left) < Mod
      BY <3>1, Bounds
    <3> HIDE DEF b
    <3>3. left \in Int /\ clock \in Int
      BY <1>1, Bounds
    <3>4. TIME_LESS_THAN((clock + left) % Mod, (clock + b) % Mod) <=> left < b
      BY <3>2, <3>3, TimeLess
    <3>5. TIME_LESS_THAN(t.time, next_timeout[k].time) <=> left < b
      BY <1>2, <3>1, <3>4, Zenon
    <3> QED
      BY <3>2, <3>5 DEF b
  <2>5. InOrder'
    <3> SUFFICES ASSUME NEW k \in 1 .. n
                 PROVE  next_timeout'[k].left <= next_timeout'[k + 1].left
      BY <1>1, <2>3 DEF InOrder
    <3>1. left \in Int /\ k + 1 \in 1 .. n + 1 /\ k \in 1 .. n + 1 /\ (k + 1) - 1 = k
      BY <1>1, Bounds
    <3>2. CASE k + 1 < p
      <4>1. k \in 1 .. n - 1 /\ k < p
        BY <1>1, <3>2
      <4>2. /\ next_timeout'[k] = next_timeout[k]
            /\ next_timeout'[k + 1] = next_timeout[k + 1]
        BY <2>3, <3>1, <3>2, <4>1
      <4> QED
        BY <4>1, <4>2 DEF InOrder, n
    <3>3. CASE k + 1 = p
      <4>1. k < p /\ k \in 1 .. p - 1
        BY <3>3
      <4>2. next_timeout'[k] = next_timeout[k] /\ next_timeout'[k + 1] = t
        BY <2>3, <3>1, <3>3, <4>1
      <4>3. ~(left < next_timeout[k].left) /\ next_timeout[k].left \in Int
        BY <2>2, <2>4, <4>1
      <4> QED
        BY <1>2, <3>1, <4>2, <4>3
    <3>4. CASE k = p
      <4>1. ~(k + 1 < p) /\ k + 1 # p /\ ~(k < p) /\ p <= n
        BY <3>4
      <4>2. next_timeout'[k] = t /\ next_timeout'[k + 1] = next_timeout[k]
        BY <2>3, <3>1, <3>4, <4>1
      <4>3. left < next_timeout[k].left /\ next_timeout[k].left \in Int
        BY <2>2, <2>4, <3>4, <4>1
      <4> QED
        BY <1>2, <3>1, <4>2, <4>3
    <3>5. CASE k > p
      <4>1. ~(k + 1 < p) /\ k + 1 # p /\ ~(k < p) /\ k # p /\ k - 1 \in 1 .. n - 1
            /\ (k - 1) + 1 = k
        BY <1>1, <3>5
      <4>2. /\ next_timeout'[k] = next_timeout[k - 1]
            /\ next_timeout'[k + 1] = next_timeout[k]
        BY <2>3, <3>1, <4>1
      <4>3. next_timeout[k - 1].left <= next_timeout[(k - 1) + 1].left
        BY <4>1 DEF InOrder, n
      <4> QED
        BY <4>1, <4>2, <4>3
    <3> QED
      BY <3>2, <3>3, <3>4, <3>5
  <2>6. ASSUME NEW k \in DOMAIN next_timeout'
        PROVE  next_timeout'[k] = t
               \/ \E j \in DOMAIN next_timeout : next_timeout'[k] = next_timeout[j]
    <3>1. k \in 1 .. n + 1
      BY <2>3
    <3>2. k > p => k - 1 \in 1 .. n
      BY <1>1, <3>1
    <3>3. k < p => k \in 1 .. n
      BY <1>1, <3>1
    <3> QED
      BY <1>1, <2>3, <3>1, <3>2, <3>3
  <2>7. Len(next_timeout') <= PoolSize
    BY <1>1, <1>4, <2>3, Bounds
  <2>8. Scheduled(t)
    BY <2>3, <2>5, <2>6, <2>7 DEF Scheduled
  <2> QED
    BY <2>8 DEF t
<1>5. Scheduled(t)
  BY <1>1, <1>3, <1>4, Bounds DEF t
<1> QED
  BY <1>5 DEF t

LEMMA StaysRight ==
  ASSUME TypeOK, Times, InOrder, clock' = clock,
         NEW id \in Timer, NEW left \in 0 .. Interval[id], NEW time \in Int,
         time = (clock + left) % Mod, sys_timeout_abs(id, time, left)
  PROVE  /\ next_timeout' \in Seq(Timeout) /\ Len(next_timeout') <= PoolSize
         /\ Times' /\ InOrder'
         /\ \A age \in 0 .. MaxLag : InReach(age) => InReach(age)'
<1> DEFINE t == [id |-> id, time |-> time, left |-> left]
<1>1. left \in -MaxLag .. Interval[id] /\ left \in Int
  BY Bounds
<1>2. Scheduled(t)
  BY <1>1, Scheduling
<1>3. t.id = id /\ t.time = time /\ t.left = left
  OBVIOUS
<1> HIDE DEF t
<1>4. Times'
  <2> SUFFICES ASSUME NEW k \in DOMAIN next_timeout'
               PROVE  /\ next_timeout'[k].time = (clock + next_timeout'[k].left) % Mod
                      /\ next_timeout'[k].left \in -MaxLag .. Interval[next_timeout'[k].id]
    BY DEF Times
  <2>1. CASE next_timeout'[k] = t
    BY <1>1, <1>3, <2>1
  <2>2. CASE \E j \in DOMAIN next_timeout : next_timeout'[k] = next_timeout[j]
    BY <2>2 DEF Times
  <2> QED
    BY <1>2, <2>1, <2>2 DEF Scheduled
<1>5. ASSUME NEW age \in 0 .. MaxLag, InReach(age) PROVE InReach(age)'
  <2> SUFFICES ASSUME NEW k \in DOMAIN next_timeout'
               PROVE  next_timeout'[k].left + age
                        \in -MaxLag .. Interval[next_timeout'[k].id] + MaxLag
    BY DEF InReach
  <2>1. CASE next_timeout'[k] = t
    BY <1>1, <1>3, <2>1, Bounds
  <2>2. CASE \E j \in DOMAIN next_timeout : next_timeout'[k] = next_timeout[j]
    BY <1>5, <2>2 DEF InReach
  <2> QED
    BY <1>2, <2>1, <2>2 DEF Scheduled
<1> QED
  BY <1>2, <1>4, <1>5 DEF Scheduled

\* sys_timeout: the interval from now on.
LEMMA StaysRightFromNow ==
  ASSUME TypeOK, Times, InOrder, clock' = clock, NEW id \in Timer, sys_timeout(id)
  PROVE  /\ next_timeout' \in Seq(Timeout) /\ Len(next_timeout') <= PoolSize
         /\ Times' /\ InOrder'
         /\ \A age \in 0 .. MaxLag : InReach(age) => InReach(age)'
<1>1. Interval[id] \in 0 .. Interval[id] /\ clock \in Int
  BY Bounds DEF TypeOK
<1> DEFINE time == (clock + Interval[id]) % Mod
<1>2. time \in Int
  <2>1. clock + Interval[id] \in Int /\ Mod \in Nat \ {0}
    BY <1>1, Bounds
  <2>2. PICK r \in 0 .. Mod - 1 : (clock + Interval[id]) % Mod = r
    BY <2>1, Remainder
  <2> QED
    BY <2>2
<1>3. sys_timeout_abs(id, time, Interval[id])
  BY DEF sys_timeout
<1>4. time = (clock + Interval[id]) % Mod
  OBVIOUS
<1> HIDE DEF time
<1> QED
  BY <1>1, <1>2, <1>3, <1>4, StaysRight
-----------------------------------------------------------------------------
(***************************************************************************)
(* The list is in order and its times are right, whatever happens.         *)
(***************************************************************************)
LEMMA TicksPass ==
  ASSUME ListInv, TypeOK', Tick, ~overflowed'
  PROVE  ListInv'
<1> USE DEF ListInv
<1>1. Mod \in Nat \ {0} /\ clock \in 0 .. Mod - 1 /\ clock' = (clock + 1) % Mod
      /\ clock \in Int /\ clock + 1 \in Int
  <2>1. clock # ClockMax
    BY Zenon DEF Tick
  <2>2. clock' = (clock + 1) % Mod
    BY <2>1, Zenon DEF Tick, sys_now
  <2> QED
    BY <2>2, Bounds DEF TypeOK
<1>2. /\ clock' \in 0 .. Mod - 1
      /\ \A y \in Int : (clock' + y) % Mod = ((clock + 1) + y) % Mod
  <2>1. \A y \in Int : (((clock + 1) % Mod) + y) % Mod = ((clock + 1) + y) % Mod
    BY <1>1, AddedRemainder
  <2> QED
    BY <1>1, <2>1 DEF TypeOK
<1>3. /\ next_timeout \in Seq(Timeout) /\ DOMAIN next_timeout' = DOMAIN next_timeout
      /\ Len(next_timeout') = Len(next_timeout)
      /\ \A k \in DOMAIN next_timeout :
           /\ next_timeout[k].left \in Int /\ next_timeout[k].left > -MaxLag
           /\ next_timeout[k].id \in Timer
           /\ next_timeout'[k].left = next_timeout[k].left - 1
           /\ next_timeout'[k].id = next_timeout[k].id
           /\ next_timeout'[k].time = next_timeout[k].time
  <2>1. next_timeout \in Seq(Timeout)
    BY DEF TypeOK
  <2>2. ASSUME NEW k \in DOMAIN next_timeout
        PROVE  /\ next_timeout[k].left \in Int /\ next_timeout[k].left > -MaxLag
               /\ next_timeout[k].id \in Timer
    <3> DEFINE left == next_timeout[k].left
    <3>1. /\ next_timeout[k] \in Timeout /\ next_timeout[k].time = (clock + left) % Mod
          /\ left \in -MaxLag .. Interval[next_timeout[k].id]
      BY <2>1 DEF Times
    <3>2. /\ next_timeout[k].id \in Timer /\ left \in Int /\ MaxLag \in Nat
          /\ left <= 0 \/ left > -MaxLag
          /\ left <= 0 => 2 * (0 - left) < Mod /\ 2 * (left - 0) < Mod
      BY <1>1, <3>1, Bounds DEF Timeout
    <3> HIDE DEF left
    <3>3. left <= 0 => ~TIME_LESS_THAN(clock, next_timeout[k].time)
      <4> SUFFICES ASSUME left <= 0 PROVE ~TIME_LESS_THAN(clock, (clock + left) % Mod)
        BY <3>1
      <4>1. PICK z \in Int : z = 0
        OBVIOUS
      <4>2. TIME_LESS_THAN((clock + z) % Mod, (clock + left) % Mod) <=> z < left
        BY <1>1, <3>2, <4>1, TimeLess
      <4>3. (clock + z) % Mod = clock
        <5>1. (Mod * 0 + clock) % Mod = clock /\ Mod * 0 + clock = clock + z
          BY <1>1, <4>1, OneRemainder
        <5> QED
          BY <5>1
      <4>4. ~(z < left)
        BY <3>2, <4>1
      <4> QED
        BY <4>2, <4>3, <4>4
    <3>4. left <= 0 => left > -MaxLag
      BY <3>3 DEF Tick, Overdue, left
    <3> QED
      BY <3>2, <3>4 DEF left
  <2> QED
    BY <2>1, <2>2, ListAges
<1>4. Times'
  <2> SUFFICES ASSUME NEW k \in DOMAIN next_timeout
               PROVE  /\ next_timeout'[k].time = (clock' + next_timeout'[k].left) % Mod
                      /\ next_timeout'[k].left \in -MaxLag .. Interval[next_timeout'[k].id]
    BY <1>3 DEF Times
  <2> DEFINE left == next_timeout[k].left
  <2>1. left \in Int /\ left > -MaxLag /\ next_timeout'[k].left = left - 1
        /\ left - 1 \in Int /\ (clock + 1) + (left - 1) = clock + left
    BY <1>1, <1>3
  <2>2. /\ next_timeout[k].time = (clock + left) % Mod
        /\ left \in -MaxLag .. Interval[next_timeout[k].id]
    BY DEF Times
  <2> HIDE DEF left
  <2>3. (clock' + (left - 1)) % Mod = (clock + left) % Mod
    BY <1>2, <2>1
  <2>4. next_timeout'[k].time = (clock' + next_timeout'[k].left) % Mod
    BY <1>3, <2>1, <2>2, <2>3
  <2>5. next_timeout'[k].left \in -MaxLag .. Interval[next_timeout'[k].id]
    BY <1>3, <2>1, <2>2, Bounds
  <2> QED
    BY <2>4, <2>5
<1>5. Ages'
  <2> SUFFICES ASSUME pc \in {"check", "call"} PROVE \E age \in Nat : Aged(age)'
    BY DEF Ages, Tick
  <2>1. PICK age \in Nat : Aged(age)
    BY DEF Ages
  <2>2. now' = (clock' - (age + 1)) % Mod
    <3> DEFINE y == -(age + 1)
    <3>1. y \in Int /\ (clock + 1) + y = clock - age /\ clock' + y = clock' - (age + 1)
      BY <1>1, <1>2
    <3> HIDE DEF y
    <3>2. (clock' + y) % Mod = (clock - age) % Mod
      BY <1>2, <3>1
    <3> QED
      BY <2>1, <3>1, <3>2 DEF Aged, Tick
  <2>3. pc' = "call" => age + 1 <= lag'
    BY <2>1 DEF Aged, Tick, TypeOK
  <2>4. InReach(age + 1)'
    <3> SUFFICES ASSUME NEW k \in DOMAIN next_timeout
                 PROVE  next_timeout'[k].left + (age + 1)
                          \in -MaxLag .. Interval[next_timeout'[k].id] + MaxLag
      BY <1>3 DEF InReach
    <3>1. next_timeout'[k].left + (age + 1) = next_timeout[k].left + age
      BY <1>3
    <3> QED
      BY <1>3, <2>1, <3>1 DEF Aged, InReach
  <2> QED
    BY <2>2, <2>3, <2>4 DEF Aged
<1>6. Handling'
  <2> SUFFICES ASSUME pc = "call"
               PROVE  /\ current \in Timer /\ due = (clock' - lag') % Mod
                      /\ lag' \in 0 .. MaxLag
    BY DEF Handling, Tick
  <2>1. /\ current \in Timer /\ due = (clock - lag) % Mod
        /\ lag \in 0 .. MaxLag /\ lag' = lag + 1 /\ lag < MaxLag
    BY DEF Handling, Tick
  <2> DEFINE y == -(lag + 1)
  <2>2. y \in Int /\ (clock + 1) + y = clock - lag /\ clock' + y = clock' - lag'
    BY <1>1, <1>2, <2>1, Bounds
  <2> HIDE DEF y
  <2>3. (clock' + y) % Mod = (clock - lag) % Mod
    BY <1>2, <2>2
  <2>4. due = (clock' - lag') % Mod
    BY <2>1, <2>2, <2>3
  <2> QED
    BY <2>1, <2>4, Bounds
<1>7. InOrder'
  <2> SUFFICES ASSUME NEW k \in 1 .. Len(next_timeout) - 1
               PROVE  next_timeout'[k].left <= next_timeout'[k + 1].left
    BY <1>3 DEF InOrder
  <2>1. k \in DOMAIN next_timeout /\ k + 1 \in DOMAIN next_timeout
    BY <1>3
  <2>2. next_timeout[k].left <= next_timeout[k + 1].left
    BY DEF InOrder
  <2> QED
    BY <1>3, <2>1, <2>2
<1> QED
  BY <1>4, <1>5, <1>6, <1>7

LEMMA CheckStarts ==
  ASSUME ListInv, TypeOK', sys_check_timeouts
  PROVE  ListInv'
<1> USE DEF ListInv
<1>1. Times' /\ Handling' /\ InOrder'
  BY DEF sys_check_timeouts, Times, Handling, InOrder
<1>2. Aged(0)'
  <2>1. clock \in 0 .. Mod - 1 /\ Mod \in Nat \ {0} /\ clock \in Int
    BY Bounds DEF TypeOK
  <2>2. now' = (clock' - 0) % Mod
    <3>1. (Mod * 0 + clock) % Mod = clock
      BY <2>1, OneRemainder
    <3>2. Mod * 0 + clock = clock - 0
      BY <2>1
    <3> QED
      BY <3>1, <3>2 DEF sys_check_timeouts
  <2>3. InReach(0)'
    <3> SUFFICES ASSUME NEW k \in DOMAIN next_timeout
                 PROVE  next_timeout[k].left + 0
                          \in -MaxLag .. Interval[next_timeout[k].id] + MaxLag
      BY DEF InReach, sys_check_timeouts
    <3>1. next_timeout[k].id \in Timer
      <4>1. next_timeout[k] \in Timeout
        BY DEF TypeOK
      <4> QED
        BY <4>1 DEF Timeout
    <3>2. next_timeout[k].left \in -MaxLag .. Interval[next_timeout[k].id]
      BY DEF Times
    <3> QED
      BY <3>1, <3>2, Bounds
  <2> QED
    BY <2>2, <2>3 DEF Aged, sys_check_timeouts
<1>3. Ages'
  BY <1>2 DEF Ages
<1> QED
  BY <1>1, <1>3

\* A timeout that sys_check_timeouts finds expired was due when it was entered.
LEMMA HandlerCalled ==
  ASSUME ListInv, TypeOK', CallHandler
  PROVE  ListInv'
<1> USE DEF ListInv
<1> DEFINE h == Head(next_timeout)
<1>1. /\ next_timeout \in Seq(Timeout) /\ next_timeout # << >> /\ h = next_timeout[1]
      /\ 1 \in DOMAIN next_timeout /\ h \in Timeout /\ pc = "check"
      /\ ~TIME_LESS_THAN(now, h.time)
  BY DEF TypeOK, CallHandler, Expired
<1>2. /\ next_timeout' \in Seq(Timeout) /\ Len(next_timeout') = Len(next_timeout) - 1
      /\ \A k \in DOMAIN next_timeout' : /\ k + 1 \in DOMAIN next_timeout
                                       /\ next_timeout'[k] = next_timeout[k + 1]
  BY <1>1 DEF CallHandler
<1>3. PICK age \in Nat : Aged(age)
  BY <1>1 DEF Ages
<1> DEFINE left == h.left
<1>4. /\ h.id \in Timer /\ left \in -MaxLag .. Interval[h.id]
      /\ h.time = (clock + left) % Mod
      /\ left + age \in -MaxLag .. Interval[h.id] + MaxLag
  <2>1. h.id \in Timer
    BY <1>1 DEF Timeout
  <2> QED
    BY <1>1, <1>3, <2>1 DEF Times, Aged, InReach
<1>5. now = (clock - age) % Mod /\ clock \in Int /\ clock \in 0 .. Mod - 1
  BY <1>3, Bounds DEF Aged, TypeOK
<1> HIDE DEF h, left
<1>6. left <= -age
  <2> DEFINE a == -age
  <2>1. a \in Int /\ left \in Int /\ clock + a = clock - age
        /\ 2 * (a - left) < Mod /\ 2 * (left - a) < Mod
    BY <1>4, <1>5, Bounds
  <2> HIDE DEF a
  <2>2. TIME_LESS_THAN((clock + a) % Mod, (clock + left) % Mod) <=> a < left
    BY <1>5, <2>1, TimeLess
  <2>3. ~(a < left)
    BY <1>1, <1>4, <1>5, <2>1, <2>2
  <2> QED
    BY <2>1, <2>3 DEF a
<1>7. /\ pc' = "call" /\ current' = h.id /\ due' = h.time /\ lag' = -left
      /\ clock' = clock /\ now' = now
  BY DEF CallHandler, h, left
<1>8. lag' \in 0 .. MaxLag /\ age <= lag' /\ clock' - lag' = clock + left
  BY <1>4, <1>5, <1>6, <1>7, Bounds
<1>9. Handling'
  BY <1>4, <1>7, <1>8 DEF Handling
<1>10. Times' /\ InReach(age)'
  BY <1>2, <1>3, <1>7 DEF Times, InReach, Aged
<1>11. Ages'
  BY <1>3, <1>7, <1>8, <1>10 DEF Ages, Aged
<1>12. InOrder'
  <2> SUFFICES ASSUME NEW k \in 1 .. Len(next_timeout') - 1
               PROVE  next_timeout'[k].left <= next_timeout'[k + 1].left
    BY DEF InOrder
  <2>1. k \in DOMAIN next_timeout' /\ k + 1 \in DOMAIN next_timeout'
        /\ k + 1 \in 1 .. Len(next_timeout) - 1
    BY <1>1, <1>2
  <2>2. next_timeout[k + 1].left <= next_timeout[(k + 1) + 1].left
    BY <2>1 DEF InOrder
  <2> QED
    BY <1>2, <2>1, <2>2
<1> QED
  BY <1>9, <1>10, <1>11, <1>12

\* The timer is late by at most MaxLag, so its next time is right or it starts
\* anew.
LEMMA CyclicAgain ==
  ASSUME ListInv, TypeOK', lwip_cyclic_timer
  PROVE  ListInv'
<1> USE DEF ListInv
<1>1. /\ pc = "call" /\ current \in Timer
      /\ due = (clock - lag) % Mod /\ lag \in 0 .. MaxLag
      /\ clock' = clock /\ clock \in Int /\ Mod \in Nat \ {0} /\ clock \in 0 .. Mod - 1
  BY Bounds DEF lwip_cyclic_timer, Handling, TypeOK
<1> DEFINE id == current
           I == Interval[id]
           next == (due + I) % Mod
           left == I - lag
<1>2. I \in Nat \ {0} /\ 2 * (MaxLag + I) < Mod /\ MaxLag \in Nat
  BY <1>1, Bounds
<1>3. left \in Int /\ lag \in Int /\ left <= I /\ 2 * left < Mod /\ 2 * (-left) < Mod
  BY <1>1, <1>2
<1>4. next = (clock + left) % Mod
  <2> DEFINE x == clock - lag
  <2>1. x \in Int /\ I \in Int /\ x + I = clock + left
    <3> HIDE DEF I
    <3> QED
      BY <1>1, <1>2, <1>3
  <2>2. ((x % Mod) + I) % Mod = (x + I) % Mod
    <3> HIDE DEF x, I
    <3> QED
      BY <1>1, <2>1, AddedRemainder
  <2> QED
    BY <1>1, <2>1, <2>2
<1>5. TIME_LESS_THAN(next, clock) <=> left < 0
  <2> HIDE DEF left
  <2>1. TIME_LESS_THAN((clock + left) % Mod, (clock + 0) % Mod) <=> left < 0
    <3>1. PICK z \in Int : z = 0
      OBVIOUS
    <3>2. 2 * (left - z) < Mod /\ 2 * (z - left) < Mod
      BY <1>1, <1>3, <3>1
    <3>3. TIME_LESS_THAN((clock + left) % Mod, (clock + z) % Mod) <=> left < z
      BY <1>1, <1>3, <3>2, TimeLess
    <3> QED
      BY <3>1, <3>3
  <2>2. (clock + 0) % Mod = clock
    <3>1. (Mod * 0 + clock) % Mod = clock /\ Mod * 0 + clock = clock + 0
      BY <1>1, OneRemainder
    <3> QED
      BY <3>1
  <2> QED
    BY <1>4, <2>1, <2>2
<1> HIDE DEF left, next
<1>6. \/ sys_timeout(id)
      \/ left >= 0 /\ sys_timeout_abs(id, next, left)
  <2>1. IF TIME_LESS_THAN(next, clock) THEN sys_timeout(id)
                                       ELSE sys_timeout_abs(id, next, left)
    BY DEF lwip_cyclic_timer, next, left
  <2> QED
    BY <1>3, <1>5, <2>1
<1>7. /\ next_timeout' \in Seq(Timeout) /\ Len(next_timeout') <= PoolSize
      /\ Times' /\ InOrder'
      /\ \A age \in 0 .. MaxLag : InReach(age) => InReach(age)'
  <2>1. CASE sys_timeout(id)
    BY <1>1, <2>1, StaysRightFromNow
  <2>2. CASE left >= 0 /\ sys_timeout_abs(id, next, left)
    <3>1. left \in 0 .. Interval[id]
      BY <1>2, <1>3, <2>2
    <3>2. next \in Int
      <4>1. clock + left \in Int
        BY <1>1, <1>3
      <4>2. PICK r \in 0 .. Mod - 1 : (clock + left) % Mod = r
        BY <1>1, <4>1, Remainder
      <4> QED
        BY <1>4, <4>2
    <3> QED
      BY <1>1, <1>4, <2>2, <3>1, <3>2, StaysRight
  <2> QED
    BY <1>6, <2>1, <2>2
<1>8. PICK age \in Nat : Aged(age)
  BY <1>1 DEF Ages
<1>9. age \in 0 .. MaxLag
  BY <1>1, <1>2, <1>8 DEF Aged
<1>10. Ages'
  <2>1. Aged(age)'
    BY <1>1, <1>7, <1>8, <1>9 DEF Aged, lwip_cyclic_timer
  <2> QED
    BY <2>1 DEF Ages
<1>11. Handling'
  BY DEF Handling, lwip_cyclic_timer
<1> QED
  BY <1>7, <1>10, <1>11

LEMMA TcpAgain ==
  ASSUME ListInv, TypeOK', tcpip_tcp_timer
  PROVE  ListInv'
<1> USE DEF ListInv
<1>1. /\ pc = "call" /\ "tcp" \in Timer /\ lag \in 0 .. MaxLag /\ MaxLag \in Nat
      /\ clock' = clock /\ now' = now /\ pc' = "check" /\ Mod \in Nat \ {0}
  BY Bounds DEF tcpip_tcp_timer, Handling
<1>2. /\ next_timeout' \in Seq(Timeout) /\ Len(next_timeout') <= PoolSize
      /\ Times' /\ InOrder'
      /\ \A age \in 0 .. MaxLag : InReach(age) => InReach(age)'
  <2>1. CASE sys_timeout("tcp")
    BY <1>1, <2>1, StaysRightFromNow
  <2>2. CASE UNCHANGED next_timeout
    BY <1>1, <2>2 DEF TypeOK, Times, InOrder, InReach
  <2> QED
    BY <2>1, <2>2 DEF tcpip_tcp_timer
<1>3. PICK age \in Nat : Aged(age)
  BY <1>1 DEF Ages
<1>4. age \in 0 .. MaxLag
  BY <1>1, <1>3 DEF Aged
<1>5. Ages'
  <2>1. Aged(age)'
    BY <1>1, <1>2, <1>3, <1>4 DEF Aged
  <2> QED
    BY <2>1 DEF Ages
<1>6. Handling'
  BY DEF Handling, tcpip_tcp_timer
<1> QED
  BY <1>2, <1>5, <1>6

\* sys_timeouts_init and TCP_REG, outside of sys_check_timeouts.
LEMMA ScheduledOutside ==
  ASSUME ListInv, TypeOK', InitTimer \/ TcpReg
  PROVE  ListInv'
<1> USE DEF ListInv
<1>1. clock' = clock /\ now' = now /\ pc' = pc /\ due' = due /\ lag' = lag
      /\ current' = current /\ pc \in {"init", "idle"}
  BY DEF InitTimer, TcpReg
<1>2. /\ next_timeout' \in Seq(Timeout) /\ Len(next_timeout') <= PoolSize
      /\ Times' /\ InOrder'
  <2>1. CASE \E i \in Timer : sys_timeout(i)
    BY <1>1, <2>1, StaysRightFromNow
  <2>2. CASE UNCHANGED next_timeout
    BY <1>1, <2>2 DEF TypeOK, Times, InOrder
  <2> QED
    BY <2>1, <2>2, Bounds DEF InitTimer, TcpReg, tcp_timer_needed
<1> QED
  BY <1>1, <1>2 DEF Ages, Handling

\* The overflow is not forgotten.
LEMMA OverflowStays ==
  ASSUME [Next]_vars, ~overflowed'
  PROVE  ~overflowed
  BY DEF Next, MainStep, Tick, InitTimer, InitReturns, sys_check_timeouts, CallHandler,
         CheckReturns, lwip_cyclic_timer, tcpip_tcp_timer, TcpReg, TcpRmv, vars

ListInvUntilOverflow == ~overflowed => ListInv

LEMMA ListInvariant == Spec => []ListInvUntilOverflow
<1>1. Init /\ TypeOK => ListInvUntilOverflow
  BY DEF Init, ListInvUntilOverflow, ListInv, Times, Ages, Handling, InOrder
<1>2. TypeOK /\ TypeOK' /\ ListInvUntilOverflow /\ [Next]_vars => ListInvUntilOverflow'
  <2> SUFFICES ASSUME TypeOK', ListInv, [Next]_vars, ~overflowed' PROVE ListInv'
    BY OverflowStays DEF ListInvUntilOverflow
  <2>1. CASE Tick
    BY <2>1, TicksPass
  <2>2. CASE InitTimer \/ TcpReg
    BY <2>2, ScheduledOutside
  <2>3. CASE InitReturns
    BY <2>3 DEF InitReturns, ListInv, Times, Ages, Handling, InOrder
  <2>4. CASE sys_check_timeouts
    BY <2>4, CheckStarts
  <2>5. CASE CallHandler
    BY <2>5, HandlerCalled
  <2>6. CASE CheckReturns
    BY <2>6 DEF CheckReturns, ListInv, Times, Ages, Handling, InOrder
  <2>7. CASE lwip_cyclic_timer
    BY <2>7, CyclicAgain
  <2>8. CASE tcpip_tcp_timer
    BY <2>8, TcpAgain
  <2>9. CASE TcpRmv
    BY <2>9 DEF TcpRmv, ListInv, Times, Ages, Aged, InReach, Handling, InOrder
  <2>10. CASE UNCHANGED vars
    BY <2>10 DEF vars, ListInv, Times, Ages, Aged, InReach, Handling, InOrder
  <2> QED
    BY <2>1, <2>2, <2>3, <2>4, <2>5, <2>6, <2>7, <2>8, <2>9, <2>10 DEF Next, MainStep
<1> QED
  BY <1>1, <1>2, Types, PTL DEF Spec

(***************************************************************************)
(* Until clock() overflows, sys_check_timeouts calls no handler before its *)
(* time, wherever the u32_t of sys_now wraps and however late the call is  *)
(* (up to MaxLag).  With a clock_t of 64 bits it does not overflow.        *)
(***************************************************************************)
THEOREM TimeoutsNeverEarly == Spec => []NeverEarly
<1>1. ListInvUntilOverflow => NeverEarly
  BY Bounds DEF ListInvUntilOverflow, ListInv, Handling, NeverEarly
<1> QED
  BY <1>1, ListInvariant, PTL

(***************************************************************************)
(* Until clock() overflows, sys_timeout_abs keeps the list in the order of *)
(* the true times.                                                         *)
(***************************************************************************)
THEOREM ListStaysSorted == Spec => []Sorted
<1>1. ListInvUntilOverflow => Sorted
  BY DEF ListInvUntilOverflow, ListInv, Sorted
<1> QED
  BY <1>1, ListInvariant, PTL

-----------------------------------------------------------------------------
(***************************************************************************)
(* Each timer is there once, so that the pool always has room for one that *)
(* is not there.                                                           *)
(***************************************************************************)
Ids(list) == {list[k].id : k \in DOMAIN list}
Once(list) == \A a, b \in DOMAIN list : list[a].id = list[b].id => a = b

LEMMA ListIds ==
  /\ Pending = Ids(next_timeout) /\ Pending' = Ids(next_timeout')
  /\ EachTimerOnce => Once(next_timeout)
  /\ Once(next_timeout')
       => IsInjective([k \in DOMAIN next_timeout' |-> next_timeout'[k].id])
<1>1. Pending = Ids(next_timeout) /\ Pending' = Ids(next_timeout')
  BY DEF Pending, ToSet, Ids
<1>2. EachTimerOnce => Once(next_timeout)
  BY DEF EachTimerOnce, IsInjective, Once
<1>3. Once(next_timeout')
        => IsInjective([k \in DOMAIN next_timeout' |-> next_timeout'[k].id])
  BY DEF IsInjective, Once
<1> QED
  BY <1>1, <1>2, <1>3

LEMMA RoomLeft ==
  ASSUME NEW list \in Seq(Timeout), Once(list), NEW id \in Timer, id \notin Ids(list)
  PROVE  Len(list) < PoolSize
<1> DEFINE n == Len(list)
           T == Timer \ {id}
           f == [k \in 1 .. n |-> list[k].id]
<1>1. n \in Nat /\ DOMAIN list = 1 .. n /\ PoolSize \in Nat
  BY Bounds
<1>2. IsFiniteSet(Timer) /\ Cardinality(Timer) <= PoolSize /\ Cardinality(Timer) \in Nat
  <2>1. IsFiniteSet(Timer)
    BY TimeoutsAssumption, FS_AddElement DEF Timer
  <2> QED
    BY <2>1, TimeoutsAssumption, FS_CardinalityType
<1>3. IsFiniteSet(T) /\ Cardinality(T) = Cardinality(Timer) - 1
  BY <1>2, FS_RemoveElement
<1>4. IsFiniteSet(1 .. n) /\ Cardinality(1 .. n) = n
  BY <1>1, FS_Interval
<1>5. f \in [1 .. n -> T]
  <2>1. ASSUME NEW k \in 1 .. n PROVE list[k].id \in T
    <3>1. list[k] \in Timeout /\ k \in DOMAIN list
      BY <1>1
    <3> QED
      BY <3>1 DEF Timeout, Ids
  <2> QED
    BY <2>1
<1>6. \A x, y \in 1 .. n : f[x] = f[y] => x = y
  BY <1>1 DEF Once
<1> HIDE DEF T, f, n
<1>7. ~(Cardinality(T) < Cardinality(1 .. n))
  <2> DEFINE S == 1 .. n
  <2>1. IsFiniteSet(S) /\ f \in [S -> T] /\ \A x, y \in S : f[x] = f[y] => x = y
    BY <1>4, <1>5, <1>6
  <2> HIDE DEF S
  <2>2. Cardinality(T) < Cardinality(S) => \E x, y \in S : x # y /\ f[x] = f[y]
    BY <1>3, <2>1, FS_PigeonHole
  <2>3. ~(Cardinality(T) < Cardinality(S))
    BY <2>1, <2>2
  <2> QED
    BY <2>3 DEF S
<1>8. n < PoolSize
  BY <1>1, <1>2, <1>3, <1>4, <1>7
<1> QED
  BY <1>8 DEF n

LEMMA PutOnce ==
  ASSUME NEW list \in Seq(Timeout), NEW t \in Timeout, NEW new, NEW p,
         PutAt(new, list, t, p), Once(list), t.id \notin Ids(list)
  PROVE  Once(new) /\ Ids(new) = Ids(list) \cup {t.id}
<1> DEFINE n == Len(list)
<1>1. /\ n \in Nat /\ DOMAIN list = 1 .. n /\ DOMAIN new = 1 .. n + 1 /\ p \in 1 .. n + 1
      /\ \A k \in 1 .. n + 1 :
           new[k] = IF k < p THEN list[k] ELSE IF k = p THEN t ELSE list[k - 1]
  BY DEF PutAt
<1> DEFINE old(k) == IF k < p THEN k ELSE k - 1
<1>2. ASSUME NEW k \in 1 .. n + 1, k # p
      PROVE  old(k) \in 1 .. n /\ new[k] = list[old(k)]
  BY <1>1, <1>2
<1>3. ASSUME NEW j \in 1 .. n PROVE \E k \in 1 .. n + 1 : k # p /\ old(k) = j
  <2>1. CASE j < p
    BY <1>1, <2>1
  <2>2. CASE ~(j < p)
    <3>1. j + 1 \in 1 .. n + 1 /\ j + 1 # p /\ ~(j + 1 < p) /\ (j + 1) - 1 = j
      BY <1>1, <2>2
    <3> QED
      BY <3>1
  <2> QED
    BY <2>1, <2>2
<1>4. ASSUME NEW a \in 1 .. n + 1, NEW b \in 1 .. n + 1, a # p, b # p, old(a) = old(b)
      PROVE  a = b
  BY <1>1, <1>4
<1>5. new[p] = t
  BY <1>1
<1> HIDE DEF old, n
<1>6. Ids(new) = Ids(list) \cup {t.id}
  <2>1. ASSUME NEW k \in 1 .. n + 1 PROVE new[k].id \in Ids(list) \cup {t.id}
    BY <1>1, <1>2, <1>5 DEF Ids
  <2>2. ASSUME NEW j \in 1 .. n PROVE list[j].id \in Ids(new)
    <3>1. PICK k \in 1 .. n + 1 : k # p /\ old(k) = j
      BY <1>3
    <3>2. new[k] = list[j]
      BY <1>2, <3>1
    <3> QED
      BY <1>1, <3>2 DEF Ids
  <2>3. t.id \in Ids(new)
    BY <1>1, <1>5 DEF Ids
  <2> QED
    BY <1>1, <2>1, <2>2, <2>3 DEF Ids
<1>7. ASSUME NEW a \in 1 .. n + 1, NEW b \in 1 .. n + 1, new[a].id = new[b].id
      PROVE  a = b
  <2>1. \A k \in 1 .. n + 1 : k # p => new[k].id # t.id
    BY <1>1, <1>2 DEF Ids
  <2>2. CASE a = p \/ b = p
    BY <1>5, <1>7, <2>1, <2>2
  <2>3. CASE a # p /\ b # p
    <3>1. list[old(a)].id = list[old(b)].id /\ old(a) \in 1 .. n /\ old(b) \in 1 .. n
      BY <1>2, <1>7, <2>3
    <3>2. old(a) = old(b)
      BY <1>1, <3>1 DEF Once
    <3> QED
      BY <1>4, <2>3, <3>2
  <2> QED
    BY <2>2, <2>3
<1> QED
  BY <1>1, <1>6, <1>7 DEF Once

\* sys_timeout_abs finds room and adds the timer.
LEMMA ScheduledOnce ==
  ASSUME TypeOK, Once(next_timeout), NEW id \in Timer, id \notin Ids(next_timeout),
         NEW time \in 0 .. Mod - 1, NEW left \in Int,
         sys_timeout_abs(id, time, left)
  PROVE  Once(next_timeout') /\ Ids(next_timeout') = Ids(next_timeout) \cup {id}
<1> DEFINE t == [id |-> id, time |-> time, left |-> left]
<1>1. t \in Timeout /\ t.id = id
  BY DEF Timeout
<1>2. next_timeout \in Seq(Timeout)
  BY DEF TypeOK
<1>3. Len(next_timeout) < PoolSize
  BY <1>2, RoomLeft
<1>4. next_timeout' = Insert(next_timeout, t)
  BY <1>3 DEF sys_timeout_abs
<1> HIDE DEF t
<1>5. PICK p \in 1 .. Len(next_timeout) + 1 : PutAt(next_timeout', next_timeout, t, p)
  BY <1>1, <1>2, <1>4, Inserted
<1> QED
  BY <1>1, <1>2, <1>5, PutOnce

LEMMA ScheduledOnceFromNow ==
  ASSUME TypeOK, Once(next_timeout), NEW id \in Timer, id \notin Ids(next_timeout),
         sys_timeout(id)
  PROVE  Once(next_timeout') /\ Ids(next_timeout') = Ids(next_timeout) \cup {id}
<1>1. clock + Interval[id] \in Int /\ Mod \in Nat \ {0} /\ Interval[id] \in Int
  BY Bounds DEF TypeOK
<1>2. PICK r \in 0 .. Mod - 1 : (clock + Interval[id]) % Mod = r
  BY <1>1, Remainder
<1>3. sys_timeout_abs(id, r, Interval[id])
  BY <1>2 DEF sys_timeout
<1> QED
  BY <1>1, <1>2, <1>3, ScheduledOnce

LEMMA CountInvariant == Spec => []CountInv
<1>1. Init => CountInv
  <2> SUFFICES ASSUME Init PROVE CountInv
    OBVIOUS
  <2>1. next_timeout = << >> /\ pc = "init" /\ current = "none" /\ ~pcbs
        /\ ~tcpip_tcp_timer_active /\ DOMAIN << >> = {}
    BY DEF Init
  <2>2. Pending = {}
    BY <2>1, ListIds DEF Ids
  <2>3. IsInjective([k \in DOMAIN next_timeout |-> next_timeout[k].id])
    BY <2>1 DEF IsInjective
  <2> QED
    BY <2>1, <2>2, <2>3 DEF CountInv, EachTimerOnce
<1>2. TypeOK /\ CountInv /\ [Next]_vars => CountInv'
  <2> SUFFICES ASSUME TypeOK, CountInv, [Next]_vars PROVE CountInv'
    OBVIOUS
  <2> DEFINE ids == Ids(next_timeout)
             ids1 == Ids(next_timeout')
             Order == Once(next_timeout')
  <2>1. /\ TypeOK /\ Once(next_timeout) /\ current \notin ids
        /\ pc # "init" => Cyclic \subseteq ids \cup {current}
        /\ tcpip_tcp_timer_active <=> "tcp" \in ids \cup {current}
        /\ pcbs => tcpip_tcp_timer_active
        /\ pc = "call" <=> current # "none"
    BY ListIds DEF CountInv, EachTimerOnce
  <2>2. SUFFICES /\ Order /\ current' \notin ids1
                 /\ pc' # "init" => Cyclic \subseteq ids1 \cup {current'}
                 /\ tcpip_tcp_timer_active' <=> "tcp" \in ids1 \cup {current'}
                 /\ pcbs' => tcpip_tcp_timer_active'
                 /\ pc' = "call" <=> current' # "none"
    BY ListIds DEF CountInv, EachTimerOnce
  <2>3. "none" \notin ids /\ "none" \notin Timer
    <3>1. ids \subseteq Timer
      <4> SUFFICES ASSUME NEW k \in DOMAIN next_timeout PROVE next_timeout[k].id \in Timer
        BY DEF Ids
      <4>1. next_timeout[k] \in Timeout
        BY <2>1 DEF TypeOK
      <4> QED
        BY <4>1 DEF Timeout
    <3> QED
      BY <3>1, Bounds
  <2>4. next_timeout' = next_timeout => Order /\ ids1 = ids
    BY <2>1
  <2>5. \A i \in Timer : i \notin ids /\ sys_timeout(i) => Order /\ ids1 = ids \cup {i}
    BY <2>1, ScheduledOnceFromNow
  <2> HIDE DEF ids, ids1, Order
  <2>6. CASE Tick
    <3>1. Order /\ ids1 = ids
      <4>1. /\ DOMAIN next_timeout' = DOMAIN next_timeout
            /\ \A k \in DOMAIN next_timeout : next_timeout'[k].id = next_timeout[k].id
        BY <2>1, <2>6, ListAges DEF TypeOK
      <4> QED
        BY <2>1, <4>1 DEF ids, ids1, Order, Ids, Once
    <3> QED
      BY <2>1, <2>6, <3>1 DEF Tick
  <2>7. CASE InitTimer
    <3>1. PICK i \in Cyclic : i \notin ids /\ sys_timeout(i)
      BY <2>7, ListIds DEF InitTimer, ids
    <3>2. i \in Timer /\ i # "tcp" /\ i # "none"
      BY Bounds
    <3>3. Order /\ ids1 = ids \cup {i}
      BY <2>5, <3>1, <3>2
    <3> QED
      BY <2>1, <2>7, <3>2, <3>3 DEF InitTimer
  <2>8. CASE InitReturns
    <3>1. Cyclic \subseteq ids
      BY <2>8, ListIds DEF InitReturns, ids
    <3> QED
      BY <2>1, <2>4, <2>8, <3>1 DEF InitReturns
  <2>9. CASE sys_check_timeouts
    BY <2>1, <2>4, <2>9 DEF sys_check_timeouts
  <2>10. CASE CallHandler
    <3> DEFINE h == next_timeout[1].id
    <3>1. /\ next_timeout \in Seq(Timeout) /\ next_timeout # << >>
          /\ Head(next_timeout) = next_timeout[1] /\ 1 \in DOMAIN next_timeout
      BY <2>1, <2>10 DEF TypeOK, CallHandler, Expired
    <3>2. /\ current' = h /\ pc = "check" /\ pc' = "call"
          /\ next_timeout' = Tail(next_timeout)
          /\ tcpip_tcp_timer_active' = tcpip_tcp_timer_active /\ pcbs' = pcbs
      BY <2>10, <3>1 DEF CallHandler
    <3> DEFINE n == Len(next_timeout)
    <3>3. /\ n \in Nat /\ n >= 1 /\ DOMAIN next_timeout = 1 .. n
          /\ DOMAIN next_timeout' = 1 .. n - 1
          /\ \A k \in 1 .. n - 1 : next_timeout'[k] = next_timeout[k + 1]
      BY <3>1, <3>2
    <3> HIDE DEF n
    <3>4. \A a, b \in 1 .. n : next_timeout[a].id = next_timeout[b].id => a = b
      BY <2>1, <3>3 DEF Once
    <3>5. Order
      <4> SUFFICES ASSUME NEW a \in 1 .. n - 1, NEW b \in 1 .. n - 1,
                          next_timeout'[a].id = next_timeout'[b].id
                   PROVE  a = b
        BY <3>3 DEF Order, Once
      <4>1. a + 1 \in 1 .. n /\ b + 1 \in 1 .. n
        BY <3>3
      <4>2. next_timeout[a + 1].id = next_timeout[b + 1].id
        BY <3>3
      <4>3. a + 1 = b + 1
        BY <3>4, <4>1, <4>2
      <4> QED
        BY <4>3
    <3>6. h \in ids /\ h \notin ids1
      <4>1. ASSUME NEW k \in 1 .. n - 1, next_timeout'[k].id = h PROVE FALSE
        <5>1. k + 1 \in 1 .. n /\ 1 \in 1 .. n /\ k + 1 # 1
          BY <3>3
        <5>2. next_timeout[k + 1].id = next_timeout[1].id
          BY <3>3, <4>1
        <5> QED
          BY <3>4, <5>1, <5>2
      <4> QED
        BY <3>1, <3>3, <4>1 DEF ids, ids1, Ids
    <3>7. ids = ids1 \cup {h}
      <4>1. ASSUME NEW k \in 1 .. n PROVE next_timeout[k].id \in ids1 \cup {h}
        <5>1. CASE k = 1
          BY <5>1
        <5>2. CASE k # 1
          <6>1. k - 1 \in 1 .. n - 1 /\ (k - 1) + 1 = k
            BY <3>3, <5>2
          <6>2. next_timeout'[k - 1] = next_timeout[k]
            BY <3>3, <6>1
          <6> QED
            BY <3>3, <6>1, <6>2 DEF ids1, Ids
        <5> QED
          BY <5>1, <5>2
      <4>2. ASSUME NEW k \in 1 .. n - 1 PROVE next_timeout'[k].id \in ids
        <5>1. k + 1 \in 1 .. n
          BY <3>3
        <5> QED
          BY <3>3, <5>1 DEF ids, Ids
      <4> QED
        BY <3>3, <3>6, <4>1, <4>2 DEF ids, ids1, Ids
    <3> HIDE DEF h
    <3>8. h # "none" /\ "none" \notin Cyclic /\ "tcp" # "none"
      BY <2>3, <3>6, Bounds
    <3>9. current = "none"
      BY <2>1, <3>2
    <3> QED
      BY <2>1, <3>2, <3>5, <3>6, <3>7, <3>8, <3>9
  <2>11. CASE CheckReturns
    BY <2>1, <2>4, <2>11 DEF CheckReturns
  <2>12. CASE lwip_cyclic_timer
    <3>1. /\ current \in Cyclic /\ current \in Timer /\ current # "tcp" /\ "tcp" # "none"
          /\ lag \in Int /\ pc = "call" /\ Interval[current] \in Nat
          /\ due \in Int /\ Mod \in Nat \ {0}
      BY <2>12, Bounds DEF lwip_cyclic_timer, TypeOK
    <3>2. PICK r \in 0 .. Mod - 1 : (due + Interval[current]) % Mod = r
      <4>1. due + Interval[current] \in Int
        BY <3>1
      <4> QED
        BY <3>1, <4>1, Remainder
    <3>3. sys_timeout(current) \/ sys_timeout_abs(current, r, Interval[current] - lag)
      BY <2>12, <3>2 DEF lwip_cyclic_timer
    <3>4. Order /\ ids1 = ids \cup {current}
      <4>1. CASE sys_timeout(current)
        BY <2>1, <2>5, <3>1, <4>1
      <4>2. CASE sys_timeout_abs(current, r, Interval[current] - lag)
        <5>1. Interval[current] - lag \in Int
          BY <3>1
        <5> QED
          BY <2>1, <3>1, <4>2, <5>1, ScheduledOnce DEF ids, ids1, Order
      <4> QED
        BY <3>3, <4>1, <4>2
    <3>5. pc' = "check" /\ current' = "none" /\ pcbs' = pcbs
          /\ tcpip_tcp_timer_active' = tcpip_tcp_timer_active
      BY <2>12 DEF lwip_cyclic_timer
    <3>6. "none" \notin ids1
      BY <2>3, <3>1, <3>4
    <3> QED
      BY <2>1, <3>1, <3>4, <3>5, <3>6
  <2>13. CASE tcpip_tcp_timer
    <3>1. /\ current = "tcp" /\ pc = "call" /\ pc' = "check" /\ current' = "none"
          /\ "tcp" \in Timer /\ "tcp" \notin Cyclic /\ "tcp" # "none"
      BY <2>13, Bounds DEF tcpip_tcp_timer
    <3>2. CASE pcbs'
      <4>1. sys_timeout("tcp") /\ tcpip_tcp_timer_active' = tcpip_tcp_timer_active
        BY <2>13, <3>2 DEF tcpip_tcp_timer
      <4>2. Order /\ ids1 = ids \cup {"tcp"}
        BY <2>1, <2>5, <3>1, <4>1
      <4> QED
        BY <2>1, <2>3, <3>1, <4>1, <4>2
    <3>3. CASE ~pcbs'
      <4>1. next_timeout' = next_timeout /\ ~tcpip_tcp_timer_active'
        BY <2>13, <3>3 DEF tcpip_tcp_timer
      <4> QED
        BY <2>1, <2>3, <2>4, <3>1, <3>3, <4>1
    <3> QED
      BY <3>2, <3>3
  <2>14. CASE TcpReg
    <3>1. pc' = pc /\ current' = current /\ pc = "idle" /\ current = "none"
          /\ "tcp" \in Timer /\ "tcp" # "none"
      BY <2>1, <2>14, Bounds DEF TcpReg
    <3>2. CASE tcpip_tcp_timer_active
      <4>1. next_timeout' = next_timeout /\ tcpip_tcp_timer_active'
        BY <2>14, <3>2 DEF TcpReg, tcp_timer_needed
      <4> QED
        BY <2>1, <2>4, <3>1, <3>2, <4>1
    <3>3. CASE ~tcpip_tcp_timer_active
      <4>1. sys_timeout("tcp") /\ tcpip_tcp_timer_active'
        BY <2>14, <3>3 DEF TcpReg, tcp_timer_needed
      <4>2. Order /\ ids1 = ids \cup {"tcp"}
        BY <2>1, <2>5, <3>1, <3>3, <4>1
      <4> QED
        BY <2>1, <2>3, <3>1, <4>1, <4>2
    <3> QED
      BY <3>2, <3>3
  <2>15. CASE TcpRmv
    BY <2>1, <2>4, <2>15 DEF TcpRmv
  <2>16. CASE UNCHANGED vars
    BY <2>1, <2>4, <2>16 DEF vars
  <2> QED
    BY <2>6, <2>7, <2>8, <2>9, <2>10, <2>11, <2>12, <2>13, <2>14, <2>15, <2>16
       DEF Next, MainStep
<1> QED
  BY <1>1, <1>2, Types, PTL DEF Spec

(***************************************************************************)
(* sys_timeouts_init, the handlers and TCP_REG never lose a timer and      *)
(* never schedule one twice: the pool has room whenever sys_timeout_abs    *)
(* asks for it.                                                            *)
(***************************************************************************)
THEOREM TimersOnceEach == Spec => []EachTimerOnce
<1>1. CountInv => EachTimerOnce
  BY DEF CountInv
<1> QED
  BY <1>1, CountInvariant, PTL
=============================================================================
