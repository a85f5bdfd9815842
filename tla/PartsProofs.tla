----------------------------- MODULE PartsProofs -----------------------------
(***************************************************************************)
(* The FCFS build, the console and the game server, for every value of the *)
(* constants.                                                              *)
(***************************************************************************)
EXTENDS Parts, SequenceTheorems, WellFoundedInduction, TLAPS

-----------------------------------------------------------------------------
(***************************************************************************)
(* The rings of the console and the UART: n entries, two indices that      *)
(* count modulo u, a multiple of n, and wrap around.  lo is the index of   *)
(* the oldest entry, hi the one behind the newest.                         *)
(***************************************************************************)
\* Division, by name: the lemmas are then found by the names.
Rem(x, d)     == x % d
Divides(n, u) == u % n = 0
Splits(x, d, q, rest) == x = d * q + rest

\* The entries in use; the index after x; the place in the ring of entry k (0 is the oldest).
InUse(lo, hi, u) == (hi - lo) % u
After(x, u)      == (x + 1) % u
Place(lo, k, n)  == (lo + k) % n

\* A remainder is what the definition of % says, and nothing else.
LEMMA Remainder ==
  ASSUME NEW d \in Nat \ {0}, NEW x \in Int, NEW q \in Int, NEW rest \in 0 .. d - 1,
         Splits(x, d, q, rest)
  PROVE  Rem(x, d) = rest
<1> DEFINE q2 == x \div d
<1> DEFINE rest2 == x % d
<1>1. q2 \in Int /\ rest2 \in 0 .. d - 1 /\ x = d * q2 + rest2
  OBVIOUS
<1> HIDE DEF q2, rest2
<1>2. d * (q - q2) = rest2 - rest
  BY <1>1 DEF Splits
<1>3. q - q2 <= 0
  <2>1. SUFFICES ASSUME q - q2 >= 1 PROVE FALSE
    BY <1>1
  <2>2. d * (q - q2) >= d
    BY <1>1, <2>1
  <2>3. QED BY <1>1, <1>2, <2>2
<1>4. q - q2 >= 0
  <2>1. SUFFICES ASSUME q2 - q >= 1 PROVE FALSE
    BY <1>1
  <2>2. d * (q2 - q) >= d
    BY <1>1, <2>1
  <2>3. d * (q2 - q) = rest - rest2
    BY <1>1 DEF Splits
  <2>4. QED BY <1>1, <2>2, <2>3
<1>5. q = q2
  BY <1>1, <1>3, <1>4
<1>6. rest = rest2
  BY <1>1, <1>5 DEF Splits
<1>7. QED BY <1>6 DEF rest2, Rem

LEMMA Below ==
  ASSUME NEW d \in Nat \ {0}, NEW x \in Int, 0 <= x, x < d
  PROVE  Rem(x, d) = x
<1> DEFINE q == 0
<1>1. Splits(x, d, q, x) /\ x \in 0 .. d - 1 /\ q \in Int
  BY DEF Splits
<1> HIDE DEF q
<1>2. QED BY <1>1, Remainder

LEMMA Above ==
  ASSUME NEW d \in Nat \ {0}, NEW x \in Int, d <= x, x - d < d
  PROVE  Rem(x, d) = x - d
<1> DEFINE q == 1
<1>1. Splits(x, d, q, x - d) /\ x - d \in 0 .. d - 1 /\ q \in Int
  BY DEF Splits
<1> HIDE DEF q
<1>2. QED BY <1>1, Remainder

LEMMA Negative ==
  ASSUME NEW d \in Nat \ {0}, NEW x \in Int, 0 - d <= x, x < 0
  PROVE  Rem(x, d) = x + d
<1>1. Splits(x, d, 0 - 1, x + d) /\ x + d \in 0 .. d - 1 /\ 0 - 1 \in Int
  BY DEF Splits
<1>2. QED BY <1>1, Remainder

-----------------------------------------------------------------------------
\* An index that is incremented.
LEMMA Incremented ==
  ASSUME NEW u \in Nat \ {0}, NEW x \in 0 .. u - 1
  PROVE  /\ After(x, u) = IF x + 1 < u THEN x + 1 ELSE 0
         /\ After(x, u) \in 0 .. u - 1
<1> DEFINE y == x + 1
<1>1. y \in Int /\ 0 <= y /\ y <= u /\ y - u < u
  OBVIOUS
<1> HIDE DEF y
<1>2. ASSUME y < u PROVE (x + 1) % u = x + 1
  <2>1. Rem(y, u) = y
    BY <1>1, <1>2, Below
  <2>2. QED BY <1>2, <2>1 DEF y, Rem
<1>3. ASSUME y = u PROVE (x + 1) % u = 0
  <2>1. Rem(y, u) = y - u
    BY <1>1, <1>3, Above
  <2>2. QED BY <1>1, <1>3, <2>1 DEF y, Rem
<1>4. (x + 1) % u = IF x + 1 < u THEN x + 1 ELSE 0
  BY <1>1, <1>2, <1>3 DEF y
<1>5. QED BY <1>4 DEF After

\* How far hi is ahead of lo.
LEMMA Distance ==
  ASSUME NEW u \in Nat \ {0}, NEW lo \in 0 .. u - 1, NEW hi \in 0 .. u - 1
  PROVE  /\ InUse(lo, hi, u) = IF lo <= hi THEN hi - lo ELSE hi - lo + u
         /\ InUse(lo, hi, u) \in 0 .. u - 1
         /\ hi = lo <=> InUse(lo, hi, u) = 0
<1> DEFINE x == hi - lo
<1>1. x \in Int /\ 0 - u <= x /\ x < u /\ (0 <= x <=> lo <= hi)
  OBVIOUS
<1> HIDE DEF x
<1>2. Rem(x, u) = IF 0 <= x THEN x ELSE x + u
  <2>1. CASE 0 <= x
    BY <1>1, <2>1, Below
  <2>2. CASE x < 0
    BY <1>1, <2>2, Negative
  <2>3. QED BY <1>1, <2>1, <2>2
<1>3. (hi - lo) % u = IF lo <= hi THEN hi - lo ELSE hi - lo + u
  BY <1>1, <1>2 DEF x, Rem
<1>4. QED BY <1>3 DEF InUse

\* One entry more, unless the ring's indices cannot tell a full one from an empty one.
LEMMA OneMore ==
  ASSUME NEW u \in Nat \ {0}, NEW lo \in 0 .. u - 1, NEW hi \in 0 .. u - 1,
         InUse(lo, hi, u) + 1 < u
  PROVE  InUse(lo, After(hi, u), u) = InUse(lo, hi, u) + 1
<1>1. /\ After(hi, u) = IF hi + 1 < u THEN hi + 1 ELSE 0
      /\ After(hi, u) \in 0 .. u - 1
  BY Incremented
<1>2. InUse(lo, hi, u) = IF lo <= hi THEN hi - lo ELSE hi - lo + u
  BY Distance
<1>3. InUse(lo, After(hi, u), u) = IF lo <= After(hi, u) THEN After(hi, u) - lo
                                   ELSE After(hi, u) - lo + u
  BY <1>1, Distance
<1>4. CASE hi + 1 < u
  BY <1>1, <1>2, <1>3, <1>4
<1>5. CASE hi + 1 = u
  BY <1>1, <1>2, <1>3, <1>5
<1>6. QED BY <1>4, <1>5

\* One entry less.
LEMMA OneLess ==
  ASSUME NEW u \in Nat \ {0}, NEW lo \in 0 .. u - 1, NEW hi \in 0 .. u - 1, lo # hi
  PROVE  InUse(After(lo, u), hi, u) = InUse(lo, hi, u) - 1
<1>1. /\ After(lo, u) = IF lo + 1 < u THEN lo + 1 ELSE 0
      /\ After(lo, u) \in 0 .. u - 1
  BY Incremented
<1>2. InUse(lo, hi, u) = IF lo <= hi THEN hi - lo ELSE hi - lo + u
  BY Distance
<1>3. InUse(After(lo, u), hi, u) = IF After(lo, u) <= hi THEN hi - After(lo, u)
                                   ELSE hi - After(lo, u) + u
  BY <1>1, Distance
<1>4. CASE lo + 1 < u
  BY <1>1, <1>2, <1>3, <1>4
<1>5. CASE lo + 1 = u
  BY <1>1, <1>2, <1>3, <1>5
<1>6. QED BY <1>4, <1>5

-----------------------------------------------------------------------------
\* n divides u: an index that wraps around goes on at the next entry.
LEMMA Around ==
  ASSUME NEW n \in Nat \ {0}, NEW u \in Nat, Divides(n, u), NEW x \in Nat
  PROVE  Rem(x + u, n) = Rem(x, n)
<1> DEFINE m == u \div n
<1> DEFINE q == x \div n
<1> DEFINE rest == x % n
<1>1. m \in Int /\ u = n * m
  BY DEF Divides
<1>2. q \in Int /\ rest \in 0 .. n - 1 /\ x = n * q + rest
  OBVIOUS
<1> HIDE DEF m, q, rest
<1> DEFINE y == x + u
<1> DEFINE p == q + m
<1>3. y \in Int /\ p \in Int /\ Splits(y, n, p, rest)
  BY <1>1, <1>2 DEF Splits
<1> HIDE DEF y, p
<1>4. Rem(y, n) = rest
  BY <1>2, <1>3, Remainder
<1>5. QED BY <1>4 DEF rest, y, Rem

\* Entries less than n apart are different.
LEMMA Apart ==
  ASSUME NEW n \in Nat \ {0}, NEW x \in Nat, NEW k \in 1 .. n - 1
  PROVE  Rem(x + k, n) # Rem(x, n)
<1> DEFINE q == x \div n
<1> DEFINE rest == x % n
<1>1. q \in Int /\ rest \in 0 .. n - 1 /\ x = n * q + rest
  OBVIOUS
<1> HIDE DEF q, rest
<1> DEFINE y == x + k
<1> DEFINE rest2 == IF rest + k < n THEN rest + k ELSE rest + k - n
<1> DEFINE q2 == IF rest + k < n THEN q ELSE q + 1
<1>2. y \in Int /\ rest2 \in 0 .. n - 1 /\ q2 \in Int
  BY <1>1
<1>3. y = n * q2 + rest2
  <2>1. CASE rest + k < n
    BY <1>1, <2>1
  <2>2. CASE ~ (rest + k < n)
    <3>1. n * (q + 1) = n * q + n
      BY <1>1
    <3>2. QED BY <1>1, <2>2, <3>1
  <2>3. QED BY <2>1, <2>2
<1>4. rest2 # rest
  BY <1>1
<1> HIDE DEF y, rest2, q2
<1>5. Rem(y, n) = rest2
  <2>1. Splits(y, n, q2, rest2)
    BY <1>3 DEF Splits
  <2>2. QED BY <1>2, <2>1, Remainder
<1>6. QED BY <1>4, <1>5 DEF y, rest, Rem

\* The index hi stands for the entry behind the newest.
LEMMA Behind ==
  ASSUME NEW n \in Nat \ {0}, NEW u \in Nat \ {0}, Divides(n, u),
         NEW lo \in 0 .. u - 1, NEW hi \in 0 .. u - 1
  PROVE  hi % n = Place(lo, InUse(lo, hi, u), n)
<1> DEFINE d == InUse(lo, hi, u)
<1>1. d = IF lo <= hi THEN hi - lo ELSE hi - lo + u
  BY Distance
<1> HIDE DEF d
<1>2. CASE lo <= hi
  <2>1. lo + d = hi
    BY <1>1, <1>2
  <2>2. QED BY <2>1 DEF d, Place
<1>3. CASE ~ (lo <= hi)
  <2>1. lo + d = hi + u
    BY <1>1, <1>3
  <2>2. hi \in Nat /\ u \in Nat
    OBVIOUS
  <2>3. Rem(hi + u, n) = Rem(hi, n)
    BY <2>2, Around
  <2>4. QED BY <2>1, <2>3 DEF d, Place, Rem
<1>4. QED BY <1>2, <1>3

\* Seen from the second oldest entry, the entries keep their places.
LEMMA Onwards ==
  ASSUME NEW n \in Nat \ {0}, NEW u \in Nat \ {0}, Divides(n, u),
         NEW lo \in 0 .. u - 1, NEW k \in Nat
  PROVE  Place(After(lo, u), k, n) = Place(lo, k + 1, n)
<1>1. After(lo, u) = IF lo + 1 < u THEN lo + 1 ELSE 0
  BY Incremented
<1>2. CASE lo + 1 < u
  <2>1. After(lo, u) + k = lo + (k + 1)
    BY <1>1, <1>2
  <2>2. QED BY <2>1 DEF Place
<1>3. CASE lo + 1 = u
  <2>1. After(lo, u) + k = k /\ lo + (k + 1) = k + u
    BY <1>1, <1>3
  <2>2. Rem(k + u, n) = Rem(k, n)
    BY Around
  <2>3. QED BY <2>1, <2>2 DEF Place, Rem
<1>4. QED BY <1>2, <1>3

\* No two of the n entries from lo on are in the same place.
LEMMA Distinct ==
  ASSUME NEW n \in Nat \ {0}, NEW lo \in Nat, NEW i \in 0 .. n - 1, NEW j \in 0 .. n - 1,
         i # j
  PROVE  Place(lo, i, n) # Place(lo, j, n)
<1>1. ASSUME NEW a \in 0 .. n - 1, NEW b \in 0 .. n - 1, a < b
      PROVE  (lo + b) % n # (lo + a) % n
  <2> DEFINE x == lo + a
  <2> DEFINE k == b - a
  <2>1. x \in Nat /\ k \in 1 .. n - 1 /\ x + k = lo + b
    BY <1>1
  <2> HIDE DEF x, k
  <2>2. Rem(x + k, n) # Rem(x, n)
    BY <2>1, Apart
  <2>3. QED BY <2>1, <2>2 DEF x, Rem
<1>2. CASE i < j
  BY <1>1, <1>2 DEF Place
<1>3. CASE j < i
  BY <1>1, <1>3 DEF Place
<1>4. QED BY <1>2, <1>3

LEMMA PlaceType ==
  ASSUME NEW n \in Nat \ {0}, NEW lo \in Nat, NEW k \in Nat
  PROVE  Place(lo, k, n) \in 0 .. n - 1
  BY DEF Place

-----------------------------------------------------------------------------
Less == {pair \in Nat \X Nat : pair[1] < pair[2]}

\* A set of numbers that is not empty has a least one.
LEMMA HasLeast ==
  ASSUME NEW S, S \subseteq Nat, S # {}
  PROVE  \E i \in S : \A j \in S : i <= j
  <1>1. IsWellFoundedOn(Less, Nat)
    BY NatLessThanWellFounded DEF OpToRel, Less
  <1>2. \A j, k \in Nat : j < k => <<j, k>> \in Less
    BY DEF Less
  <1>3. PICK i \in S : \A j \in S : ~ (<<j, i>> \in Less)
    BY <1>1, WFMin
  <1>4. ASSUME NEW j \in S PROVE i <= j
    <2>1. i \in Nat /\ j \in Nat /\ ~ (j < i)
      BY <1>2, <1>3
    <2>2. QED
      BY <2>1
  <1>5. QED
    BY <1>4

-----------------------------------------------------------------------------
(* The FCFS build.                                                         *)

Time == 0 .. UINT - 1

Row == [state : {"UNUSED", "USED", "SLEEPING", "RUNNABLE", "RUNNING", "ZOMBIE"},
        ctime : Time, etime : Time, rtime : Time, killed : BOOLEAN,
        pc : {"user", "call", "woken"},
        op : {"none", "sleep", "exit", "fork", "forked", "waitx", "kill"},
        n : Int, ticks0 : Time, slept : 0 .. UINT]

FcfsType ==
  /\ ticks \in Time
  /\ table \in [F!Slots -> Row]
  /\ cur \in F!Slots \cup {F!NoProc}
  /\ scan \in [i : 0 .. NPROC, next : F!Slots \cup {F!NoProc}, first : SUBSET F!Slots]
  /\ age \in [F!Slots -> 0 .. UINT]

\* One process has the CPU, and no process gets it while scheduler() looks around.
CurInv ==
  /\ \A p \in F!Slots : table[p].state = "RUNNING" <=> cur = p
  /\ cur # F!NoProc => scan = F!Begin

\* What scheduler() knows of the slots that it has passed.
ScanInv ==
  /\ scan.i > 0 => scan.first \subseteq F!RunnableSet
  /\ scan.next # F!NoProc => scan.next \in F!RunnableSet
  /\ \A q \in scan.first : q < scan.i =>
        scan.next # F!NoProc /\ table[scan.next].ctime <= table[q].ctime

\* The parent alone forks and kills, and what it forks is not in use yet.
ForkInv ==
  /\ table[F!Parent].state # "UNUSED"
  /\ \A p \in F!Slots \ {F!Parent} : table[p].op \notin {"fork", "forked", "kill"}
  /\ table[F!Parent].op = "forked" =>
        /\ table[F!Parent].n \in F!Slots \ {F!Parent}
        /\ table[table[F!Parent].n].state = "USED"
  /\ table[F!Parent].op = "kill" => table[F!Parent].n \in F!Slots \ {F!Parent}

\* A process that sys_sleep() has put to sleep at least once.
InNap(row) == row.op = "sleep" /\ row.pc = "woken"

\* As long as it has been there for less than UINT ticks, the clock tells how long.
Rests(row, t) ==
  /\ ~ InNap(row) => row.slept = 0
  /\ InNap(row) /\ row.slept < UINT => F!Sub(t, row.ticks0) = row.slept
  /\ row.state = "SLEEPING" /\ row.op = "sleep" => InNap(row)
  /\ row.state \in {"UNUSED", "ZOMBIE"} => row.op # "sleep"

\* What TimesInv says of a process, of age a at time t.
Agrees(row, a, t) ==
  /\ Rests(row, t)
  /\ row.state = "SLEEPING" /\ row.op = "sleep" => F!Sub(t, row.ticks0) < row.n /\ ~ row.killed
  /\ row.state \notin {"UNUSED", "ZOMBIE"} /\ a < UINT
       => row.rtime <= a /\ F!Sub(t, row.ctime) = a
  /\ row.state = "ZOMBIE" /\ a < UINT
       => row.rtime + F!Sub(F!Sub(row.etime, row.ctime), row.rtime) = a
TimesInv == \A p \in F!Slots \ {F!Parent} : Agrees(table[p], age[p], ticks)

FcfsInv == FcfsType /\ CurInv /\ ScanInv /\ ForkInv /\ TimesInv

-----------------------------------------------------------------------------
(* Its times: numbers modulo UINT.                                         *)

LEMMA TimeFacts ==
  /\ UINT \in Nat \ {0} /\ 0 \in Time /\ Time \subseteq Int
  /\ \A t \in Time : F!Sub(t, t) = 0
  /\ \A t, c \in Time : F!Sub(t, c) \in Time
  /\ \A t \in Time : F!Add(t, 1) \in Time /\ F!Add(t, 1) <= t + 1
  /\ \A t, c \in Time : c <= t => F!Sub(t, c) = t - c
  /\ \A t, c \in Time : F!Sub(t, c) + 1 < UINT => F!Sub(F!Add(t, 1), c) = F!Sub(t, c) + 1
  <1>1. UINT \in Nat \ {0} /\ Time = 0 .. UINT - 1 /\ 0 \in Time /\ Time \subseteq Int
    BY FcfsAssumption DEF Time
  <1>2. \A t, c \in Time : F!Sub(t, c) = InUse(c, t, UINT)
    BY DEF F!Sub, InUse
  <1>3. \A t \in Time : F!Add(t, 1) = After(t, UINT)
    BY DEF F!Add, After
  <1>4. \A t, c \in Time : /\ InUse(c, t, UINT) = IF c <= t THEN t - c ELSE t - c + UINT
                           /\ InUse(c, t, UINT) \in Time
    BY <1>1, Distance
  <1>5. \A t \in Time : /\ After(t, UINT) = IF t + 1 < UINT THEN t + 1 ELSE 0
                        /\ After(t, UINT) \in Time
    BY <1>1, Incremented
  <1>6. \A t, c \in Time : InUse(c, t, UINT) + 1 < UINT
                              => InUse(c, After(t, UINT), UINT) = InUse(c, t, UINT) + 1
    BY <1>1, OneMore
  <1>7. \A t \in Time : F!Sub(t, t) = 0
    BY <1>1, <1>2, <1>4
  <1>8. ASSUME NEW t \in Time PROVE F!Add(t, 1) \in Time /\ F!Add(t, 1) <= t + 1
    <2>1. After(t, UINT) <= t + 1
      BY <1>1, <1>5
    <2>2. QED
      BY <1>3, <1>5, <2>1
  <1>9. \A t, c \in Time : c <= t => F!Sub(t, c) = t - c
    BY <1>2, <1>4
  <1>10. \A t, c \in Time : F!Sub(t, c) + 1 < UINT => F!Sub(F!Add(t, 1), c) = F!Sub(t, c) + 1
    BY <1>2, <1>3, <1>5, <1>6
  <1>11. \A t, c \in Time : F!Sub(t, c) \in Time
    BY <1>2, <1>4
  <1>12. QED
    BY <1>1, <1>7, <1>8, <1>9, <1>10, <1>11

\* The slots, and the null pointer that is none of them.
LEMMA SlotFacts ==
  /\ NPROC \in Nat /\ F!Slots = 0 .. NPROC - 1 /\ F!Parent = 0 /\ F!NoProc = NPROC
  /\ F!Parent \in F!Slots /\ F!NoProc \notin F!Slots /\ F!Slots \subseteq Nat
  BY FcfsAssumption DEF F!Slots, F!Parent, F!NoProc

\* What becomes of a row when its process returns, ends or goes to sleep.
LEMMA RowFacts ==
  /\ F!Unused \in Row /\ F!Unused.state = "UNUSED" /\ F!Unused.op = "none" /\ F!Unused.slept = 0
  /\ \A x \in Row :
        /\ F!Returns(x) \in Row /\ F!Exiting(x) \in Row /\ F!Asleep(x) \in Row
        /\ F!Returns(x).op \in {"none", "exit"} /\ F!Exiting(x).op = "exit" /\ F!Asleep(x).op = x.op
        /\ F!Returns(x).state = x.state /\ F!Exiting(x).state = x.state /\ F!Asleep(x).state = "SLEEPING"
        /\ F!Asleep(x).n = x.n /\ F!Asleep(x).ticks0 = x.ticks0 /\ F!Asleep(x).killed = x.killed
        /\ F!Returns(x).slept = 0 /\ F!Exiting(x).slept = 0
        /\ F!Asleep(x).slept = x.slept /\ F!Asleep(x).pc = "woken"
        /\ \A y \in {F!Returns(x), F!Exiting(x), F!Asleep(x)} :
              y.ctime = x.ctime /\ y.etime = x.etime /\ y.rtime = x.rtime
  <1>0. 0 \in 0 .. UINT
    BY TimeFacts
  <1>1. F!Unused \in Row /\ F!Unused.state = "UNUSED" /\ F!Unused.op = "none" /\ F!Unused.slept = 0
    BY <1>0, TimeFacts DEF F!Unused, Row
  <1>2. ASSUME NEW x \in Row
        PROVE  /\ F!Exiting(x) \in Row /\ F!Exiting(x).op = "exit" /\ F!Exiting(x).state = x.state
               /\ F!Exiting(x).ctime = x.ctime /\ F!Exiting(x).etime = x.etime
               /\ F!Exiting(x).rtime = x.rtime /\ F!Exiting(x).slept = 0
    BY <1>0, TimeFacts DEF F!Exiting, F!Done, Row
  <1>3. ASSUME NEW x \in Row
        PROVE  /\ F!Returns(x) \in Row /\ F!Returns(x).op \in {"none", "exit"}
               /\ F!Returns(x).state = x.state
               /\ F!Returns(x).ctime = x.ctime /\ F!Returns(x).etime = x.etime
               /\ F!Returns(x).rtime = x.rtime /\ F!Returns(x).slept = 0
    <2>1. CASE x.killed
      BY <1>2, <2>1 DEF F!Returns
    <2>2. CASE ~ x.killed
      BY <1>0, <2>2, TimeFacts DEF F!Returns, F!Done, Row
    <2>3. QED
      BY <2>1, <2>2
  <1>4. ASSUME NEW x \in Row
        PROVE  /\ F!Asleep(x) \in Row /\ F!Asleep(x).op = x.op /\ F!Asleep(x).state = "SLEEPING"
               /\ F!Asleep(x).n = x.n /\ F!Asleep(x).ticks0 = x.ticks0 /\ F!Asleep(x).killed = x.killed
               /\ F!Asleep(x).ctime = x.ctime /\ F!Asleep(x).etime = x.etime
               /\ F!Asleep(x).rtime = x.rtime /\ F!Asleep(x).slept = x.slept
               /\ F!Asleep(x).pc = "woken"
    BY DEF F!Asleep, Row
  <1>5. QED
    BY <1>1, <1>2, <1>3, <1>4

-----------------------------------------------------------------------------
(* The steps of the process that has the CPU.                              *)

\* While a process runs, scheduler() has not begun to look around.
LEMMA RunningStep ==
  ASSUME FcfsInv, NEW p \in F!Slots, cur = p,
         table' \in [F!Slots -> Row], age' \in [F!Slots -> 0 .. UINT], UNCHANGED <<ticks, scan>>,
         cur' \in {p, F!NoProc},
         \A q \in F!Slots : table'[q].state = "RUNNING" <=> cur' = q,
         ForkInv', TimesInv'
  PROVE  FcfsInv'
  <1>1. scan' = F!Begin
    BY SlotFacts DEF FcfsInv, CurInv
  <1>2. FcfsType' /\ CurInv'
    BY <1>1, SlotFacts DEF FcfsInv, FcfsType, CurInv
  <1>3. ScanInv'
    BY <1>1 DEF F!Begin, ScanInv
  <1>4. QED
    BY <1>2, <1>3 DEF FcfsInv

\* Its row becomes x.
LEMMA OneRow ==
  ASSUME FcfsInv, NEW p \in F!Slots, cur = p, NEW x \in Row,
         table' = [table EXCEPT ![p] = x], UNCHANGED <<ticks, scan, age>>,
         x.ctime = table[p].ctime, x.rtime = table[p].rtime,
         p # F!Parent => Rests(x, ticks),
         \/ x.state = "RUNNING" /\ cur' = p
         \/ /\ x.state = "SLEEPING" /\ cur' = F!NoProc
            /\ p # F!Parent /\ x.op = "sleep" => F!Sub(ticks, x.ticks0) < x.n /\ ~ x.killed,
         p # F!Parent => x.op \notin {"fork", "forked", "kill"},
         p = F!Parent => x.op # "forked" /\ (x.op = "kill" => x.n \in F!Slots \ {F!Parent})
  PROVE  FcfsInv'
  <1>1. table \in [F!Slots -> Row] /\ table[p] \in Row /\ table[p].state = "RUNNING" /\ p # F!NoProc
    BY SlotFacts DEF FcfsInv, FcfsType, CurInv
  <1>2. \A q \in F!Slots : table'[q] = IF q = p THEN x ELSE table[q]
    BY <1>1
  <1>3. table' \in [F!Slots -> Row] /\ age' \in [F!Slots -> 0 .. UINT]
    BY <1>1 DEF FcfsInv, FcfsType
  <1>4. \A q \in F!Slots : table'[q].state = "RUNNING" <=> cur' = q
    BY <1>2, SlotFacts DEF FcfsInv, CurInv
  <1>5. ForkInv'
    BY <1>1, <1>2, SlotFacts DEF FcfsInv, ForkInv
  <1>6. ASSUME NEW q \in F!Slots \ {F!Parent}
        PROVE  Agrees(table[q], age[q], ticks)'
    <2>1. Agrees(table[q], age[q], ticks)
      BY DEF FcfsInv, TimesInv
    <2>2. CASE q = p
      <3>1. table'[q] = x /\ Rests(x, ticks) /\ ticks' = ticks /\ age' = age
        BY <1>2, <2>2
      <3> HIDE DEF Rests
      <3>2. QED
        BY <1>1, <2>1, <2>2, <3>1 DEF Agrees
    <2>3. CASE q # p
      BY <1>2, <2>1, <2>3
    <2>4. QED
      BY <2>2, <2>3
  <1>7. TimesInv'
    BY <1>6 DEF TimesInv
  <1>8. QED
    BY <1>3, <1>4, <1>5, <1>7, RunningStep

\* Its row becomes x and that of q becomes y.
LEMMA TwoRows ==
  ASSUME FcfsInv, NEW p \in F!Slots, cur = p, NEW x \in Row, NEW q \in F!Slots \ {p}, NEW y \in Row,
         table' = [table EXCEPT ![p] = x, ![q] = y], UNCHANGED <<ticks, scan>>,
         age' \in [F!Slots -> 0 .. UINT], \A s \in F!Slots \ {q} : age'[s] = age[s],
         \/ x.state = "RUNNING" /\ cur' = p
         \/ x.state # "RUNNING" /\ cur' = F!NoProc,
         y.state # "RUNNING",
         p # F!Parent => Agrees(x, age[p], ticks),
         q # F!Parent => Agrees(y, age'[q], ticks),
         ForkInv'
  PROVE  FcfsInv'
  <1>1. table \in [F!Slots -> Row] /\ p # F!NoProc
    BY SlotFacts DEF FcfsInv, FcfsType
  <1>2. \A s \in F!Slots : table'[s] = IF s = p THEN x ELSE IF s = q THEN y ELSE table[s]
    BY <1>1
  <1>3. table' \in [F!Slots -> Row]
    BY <1>1
  <1>4. \A s \in F!Slots : table'[s].state = "RUNNING" <=> cur' = s
    <2>1. \A s \in F!Slots : table[s].state = "RUNNING" <=> s = p
      BY DEF FcfsInv, CurInv
    <2>2. \A s \in F!Slots : table'[s].state = "RUNNING" <=> s = p /\ x.state = "RUNNING"
      <3>1. ASSUME NEW s \in F!Slots
            PROVE  table'[s].state = "RUNNING" <=> s = p /\ x.state = "RUNNING"
        <4>1. CASE s = p
          BY <1>2, <4>1
        <4>2. CASE s # p
          <5>1. table'[s] = y \/ table'[s] = table[s]
            BY <1>2, <4>2
          <5>2. table[s].state # "RUNNING" /\ y.state # "RUNNING"
            BY <2>1, <4>2
          <5>3. QED
            BY <4>2, <5>1, <5>2
        <4>3. QED
          BY <4>1, <4>2
      <3>2. QED
        BY <3>1
    <2>3. QED
      BY <2>2, SlotFacts
  <1>5. ASSUME NEW s \in F!Slots \ {F!Parent}
        PROVE  Agrees(table[s], age[s], ticks)'
    <2>1. Agrees(table[s], age[s], ticks)
      BY DEF FcfsInv, TimesInv
    <2>2. CASE s = p
      BY <1>2, <2>2
    <2>3. CASE s = q
      BY <1>2, <2>3
    <2>4. CASE s # p /\ s # q
      BY <1>2, <2>1, <2>4
    <2>5. QED
      BY <2>2, <2>3, <2>4
  <1>6. TimesInv'
    BY <1>5 DEF TimesInv
  <1>7. QED
    BY <1>3, <1>4, <1>6, RunningStep

\* It returns to the user program, or to exit() if it was killed.
LEMMA ReturnStep ==
  ASSUME FcfsInv, NEW p \in F!Slots, cur = p, UNCHANGED <<ticks, cur, scan, age>>,
         NEW x \in {F!Returns(table[p]), F!Exiting(table[p])}, table' = [table EXCEPT ![p] = x]
  PROVE  FcfsInv'
  <1>1. table[p] \in Row /\ table[p].state = "RUNNING"
    BY DEF FcfsInv, FcfsType, CurInv
  <1>2. /\ x \in Row /\ x.state = "RUNNING" /\ x.op \in {"none", "exit"}
        /\ x.ctime = table[p].ctime /\ x.rtime = table[p].rtime /\ x.slept = 0
    BY <1>1, RowFacts
  <1>3. Rests(x, ticks)
    BY <1>2 DEF Rests, InNap
  <1>4. QED
    BY <1>2, <1>3, OneRow

LEMMA SyscallStep ==
  ASSUME FcfsInv, NEW p \in F!Slots, F!Syscall(p)
  PROVE  FcfsInv'
  <1>1. cur = p /\ table[p].pc = "user" /\ UNCHANGED <<ticks, cur, scan, age>>
    BY DEF F!Syscall
  <1>2. table \in [F!Slots -> Row] /\ table[p] \in Row /\ table[p].state = "RUNNING"
    BY <1>1 DEF FcfsInv, FcfsType, CurInv
  <1>3. CASE table[p].killed
    <2>1. table' = [table EXCEPT ![p] = F!Exiting(table[p])]
      BY <1>2, <1>3 DEF F!Syscall
    <2>2. QED
      BY <1>1, <2>1, ReturnStep
  <1>4. CASE ~ table[p].killed
    <2>1. ASSUME NEW op \in {"sleep", "exit", "fork", "waitx", "kill"}, NEW n \in Int, F!Call(p, op, n),
                 p # F!Parent => op \notin {"fork", "kill"},
                 op = "kill" => n \in F!Slots \ {F!Parent}
          PROVE  FcfsInv'
      <3> DEFINE x == [table[p] EXCEPT !.pc = "call", !.op = op, !.n = n]
      <3>1. table' = [table EXCEPT ![p] = x]
        BY <1>2, <2>1 DEF F!Call
      <3>2. /\ x \in Row /\ x.state = "RUNNING" /\ x.op = op /\ x.n = n
            /\ x.ctime = table[p].ctime /\ x.rtime = table[p].rtime
            /\ x.pc = "call" /\ x.slept = table[p].slept
        BY <1>2 DEF Row
      <3> HIDE DEF x
      <3>3. p # F!Parent => Rests(x, ticks)
        BY <1>1, <3>2 DEF FcfsInv, TimesInv, Agrees, Rests, InNap
      <3>4. QED
        BY <1>1, <2>1, <3>1, <3>2, <3>3, OneRow
    <2>2. \/ p # F!Parent /\ \E n \in Naps : F!Call(p, "sleep", n)
          \/ p # F!Parent /\ F!Call(p, "exit", 0)
          \/ p = F!Parent /\ \E op \in {"fork", "waitx"} : F!Call(p, op, 0)
          \/ p = F!Parent /\ \E q \in F!Slots \ {F!Parent} : F!Call(p, "kill", q)
      BY <1>4 DEF F!Syscall
    <2>3. Naps \subseteq Int /\ F!Slots \subseteq Int
      BY FcfsAssumption, SlotFacts
    <2>4. QED
      BY <2>1, <2>2, <2>3
  <1>5. QED
    BY <1>3, <1>4

LEMMA SleepStep ==
  ASSUME FcfsInv, NEW p \in F!Slots, F!Sleep(p)
  PROVE  FcfsInv'
  <1> DEFINE t0 == IF table[p].pc = "call" THEN ticks ELSE table[p].ticks0
             sleeps == F!TooEarly(t0, table[p].n) /\ ~ table[p].killed
             x == [table[p] EXCEPT !.ticks0 = t0]
  <1>1. /\ cur = p /\ table[p].op = "sleep" /\ UNCHANGED <<ticks, scan, age>>
        /\ table' = [table EXCEPT ![p] = IF sleeps THEN F!Asleep(x) ELSE F!Returns(table[p])]
        /\ cur' = IF sleeps THEN F!NoProc ELSE cur
    BY DEF F!Sleep, F!Called, FcfsInv, FcfsType
  <1>2. table[p] \in Row /\ table[p].state = "RUNNING" /\ ticks \in Time
    BY <1>1 DEF FcfsInv, FcfsType, CurInv
  <1>3. /\ x \in Row /\ x.op = "sleep" /\ x.ticks0 = t0 /\ x.n = table[p].n
        /\ x.killed = table[p].killed /\ x.ctime = table[p].ctime /\ x.rtime = table[p].rtime
        /\ x.slept = table[p].slept
    BY <1>1, <1>2 DEF Row
  <1>4. CASE sleeps
    <2>1. F!Sub(ticks, t0) < x.n /\ ~ x.killed
      BY <1>3, <1>4 DEF F!TooEarly
    <2> DEFINE y == F!Asleep(x)
    <2>0. p # F!Parent =>
            /\ table[p].pc = "call" => table[p].slept = 0 /\ t0 = ticks
            /\ table[p].pc # "call" =>
                 table[p].pc = "woken" /\ t0 = table[p].ticks0 /\ Rests(table[p], ticks)
            /\ F!Sub(ticks, ticks) = 0
      BY <1>1, <1>2, TimeFacts DEF F!Sleep, F!Called, FcfsInv, TimesInv, Agrees, Rests, InNap
    <2> HIDE DEF x, sleeps, t0
    <2>2. /\ y \in Row /\ y.state = "SLEEPING" /\ y.op = "sleep" /\ y.n = x.n /\ y.killed = x.killed
          /\ y.ticks0 = t0 /\ y.ctime = table[p].ctime /\ y.rtime = table[p].rtime
          /\ y.slept = table[p].slept /\ y.pc = "woken"
      BY <1>3, RowFacts
    <2>3. table' = [table EXCEPT ![p] = y] /\ cur' = F!NoProc
      BY <1>1, <1>4
    <2> HIDE DEF y
    <2>4. p # F!Parent => Rests(y, ticks)
      BY <1>1, <2>0, <2>2 DEF Rests, InNap
    <2>5. QED
      BY <1>1, <2>1, <2>2, <2>3, <2>4, OneRow
  <1>5. CASE ~ sleeps
    <2> HIDE DEF x, sleeps, t0
    <2>1. QED
      BY <1>1, <1>5, ReturnStep
  <1>6. QED
    BY <1>4, <1>5

LEMMA ForkStep ==
  ASSUME FcfsInv, NEW p \in F!Slots, F!Fork(p)
  PROVE  FcfsInv'
  <1> DEFINE free == {s \in F!Slots : table[s].state = "UNUSED"}
             q == F!Least(free)
  <1>1. cur = p /\ table[p].op = "fork" /\ UNCHANGED <<ticks, cur, scan>>
    BY DEF F!Fork, F!At
  <1>2. table \in [F!Slots -> Row] /\ table[p] \in Row /\ table[p].state = "RUNNING" /\ ticks \in Time
    BY <1>1 DEF FcfsInv, FcfsType, CurInv
  <1>3. p = F!Parent
    BY <1>1 DEF FcfsInv, ForkInv
  <1>4. CASE free = {}
    <2>1. table' = [table EXCEPT ![p] = F!Returns(table[p])] /\ UNCHANGED age
      BY <1>2, <1>4 DEF F!Fork
    <2>2. QED
      BY <1>1, <2>1, ReturnStep
  <1>5. CASE free # {}
    <2>1. \E s \in free : \A j \in free : s <= j
      BY <1>5, SlotFacts, HasLeast
    <2>2. q \in free
      BY <2>1 DEF F!Least
    <2>3. /\ table' = [table EXCEPT ![q] = F!Born(q), ![p].op = "forked", ![p].n = q]
          /\ age' = [age EXCEPT ![q] = 0]
      BY <1>5 DEF F!Fork
    <2> DEFINE x == [table[p] EXCEPT !.op = "forked", !.n = q]
               y == F!Born(q)
    <2> HIDE DEF q
    <2>4. q \in F!Slots \ {p} /\ q \in Int
      BY <1>2, <2>2, SlotFacts
    <2>5. table' = [table EXCEPT ![p] = x, ![q] = y]
      BY <1>2, <2>3, <2>4
    <2>6. x \in Row /\ x.state = "RUNNING" /\ x.op = "forked" /\ x.n = q
      BY <1>2, <2>4 DEF Row
    <2>7. y \in Row /\ y.state = "USED" /\ y.ctime = ticks /\ y.rtime = 0 /\ y.op = "none"
          /\ y.slept = 0
      BY <1>2, RowFacts DEF F!Born, F!Unused, Row
    <2>8. /\ age' \in [F!Slots -> 0 .. UINT] /\ age'[q] = 0
          /\ \A s \in F!Slots \ {q} : age'[s] = age[s]
      <3>1. age \in [F!Slots -> 0 .. UINT] /\ 0 \in 0 .. UINT
        BY TimeFacts DEF FcfsInv, FcfsType
      <3>2. QED
        BY <2>3, <2>4, <3>1
    <2> HIDE DEF x, y
    <2>9. ForkInv'
      BY <1>2, <1>3, <2>4, <2>5, <2>6, <2>7, SlotFacts DEF FcfsInv, ForkInv
    <2>10. Agrees(y, age'[q], ticks)
      BY <1>2, <2>7, <2>8, TimeFacts DEF Agrees, Rests, InNap
    <2>11. QED
      BY <1>1, <1>3, <2>4, <2>5, <2>6, <2>7, <2>8, <2>9, <2>10, TwoRows
  <1>6. QED
    BY <1>4, <1>5

LEMMA ForkedStep ==
  ASSUME FcfsInv, NEW p \in F!Slots, F!Forked(p)
  PROVE  FcfsInv'
  <1> DEFINE q == table[p].n
             x == F!Returns(table[p])
             y == [table[q] EXCEPT !.state = "RUNNABLE"]
  <1>1. cur = p /\ table[p].op = "forked" /\ UNCHANGED <<ticks, cur, scan, age>>
    BY DEF F!Forked, F!At
  <1>2. table \in [F!Slots -> Row] /\ table[p] \in Row /\ table[p].state = "RUNNING"
    BY <1>1 DEF FcfsInv, FcfsType, CurInv
  <1>3. p = F!Parent /\ q \in F!Slots \ {p} /\ table[q].state = "USED" /\ table[q] \in Row
    BY <1>1, <1>2 DEF FcfsInv, ForkInv
  <1>4. table' = [table EXCEPT ![p] = x, ![q] = y]
    BY <1>2, <1>3 DEF F!Forked
  <1>5. y \in Row /\ y.state = "RUNNABLE" /\ y.ctime = table[q].ctime /\ y.rtime = table[q].rtime
    BY <1>3 DEF Row
  <1>6. x \in Row /\ x.state = "RUNNING" /\ x.op \in {"none", "exit"}
    BY <1>2, RowFacts
  <1>7. ForkInv'
    <2>1. y.op = table[q].op
      BY <1>3 DEF Row
    <2> HIDE DEF x, y, q
    <2>2. QED
      BY <1>2, <1>3, <1>4, <1>5, <1>6, <2>1 DEF FcfsInv, ForkInv
  <1>8. Agrees(y, age[q], ticks)
    <2>1. y.op = table[q].op /\ y.pc = table[q].pc /\ y.slept = table[q].slept /\ y.ticks0 = table[q].ticks0
      BY <1>3 DEF Row
    <2>2. Agrees(table[q], age[q], ticks)
      BY <1>3 DEF FcfsInv, TimesInv
    <2> HIDE DEF x, y, q
    <2>3. QED
      BY <1>3, <1>5, <2>1, <2>2 DEF Agrees, Rests, InNap
  <1>9. age \in [F!Slots -> 0 .. UINT]
    BY DEF FcfsInv, FcfsType
  <1> HIDE DEF x, y, q
  <1>10. QED
    BY <1>1, <1>3, <1>4, <1>5, <1>6, <1>7, <1>8, <1>9, TwoRows

LEMMA KillStep ==
  ASSUME FcfsInv, NEW p \in F!Slots, F!Kill(p)
  PROVE  FcfsInv'
  <1> DEFINE q == table[p].n
             x == F!Returns(table[p])
             y == [table[q] EXCEPT !.killed = @ \/ table[q].state # "UNUSED",
                                   !.state = IF @ = "SLEEPING" THEN "RUNNABLE" ELSE @]
  <1>1. cur = p /\ table[p].op = "kill" /\ UNCHANGED <<ticks, cur, scan, age>>
    BY DEF F!Kill, F!At
  <1>2. table \in [F!Slots -> Row] /\ table[p] \in Row /\ table[p].state = "RUNNING"
    BY <1>1 DEF FcfsInv, FcfsType, CurInv
  <1>3. p = F!Parent /\ q \in F!Slots \ {p} /\ table[q] \in Row
    BY <1>1, <1>2 DEF FcfsInv, ForkInv
  <1>4. table' = [table EXCEPT ![p] = x, ![q] = y]
    BY <1>2, <1>3 DEF F!Kill
  <1>5. y \in Row
    BY <1>3 DEF Row
  <1>6. /\ y.state = IF table[q].state = "SLEEPING" THEN "RUNNABLE" ELSE table[q].state
        /\ y.ctime = table[q].ctime /\ y.rtime = table[q].rtime /\ y.etime = table[q].etime
        /\ y.op = table[q].op /\ y.pc = table[q].pc /\ y.slept = table[q].slept
        /\ y.ticks0 = table[q].ticks0
    BY <1>3 DEF Row
  <1>7. x \in Row /\ x.state = "RUNNING" /\ x.op \in {"none", "exit"}
    BY <1>2, RowFacts
  <1>8. table[q].state # "RUNNING"
    BY <1>1, <1>3 DEF FcfsInv, CurInv
  <1>9. age \in [F!Slots -> 0 .. UINT]
    BY DEF FcfsInv, FcfsType
  <1>10. Agrees(table[q], age[q], ticks)
    BY <1>3 DEF FcfsInv, TimesInv
  <1> HIDE DEF x, y, q
  <1>11. ForkInv'
    BY <1>2, <1>3, <1>4, <1>6, <1>7 DEF FcfsInv, ForkInv
  <1>12. Agrees(y, age[q], ticks)
    BY <1>6, <1>10 DEF Agrees, Rests, InNap
  <1>13. QED
    BY <1>1, <1>3, <1>4, <1>5, <1>6, <1>7, <1>8, <1>9, <1>11, <1>12, TwoRows

LEMMA ExitStep ==
  ASSUME FcfsInv, NEW p \in F!Slots, F!Exit(p)
  PROVE  FcfsInv'
  <1> DEFINE x == [table[p] EXCEPT !.state = "ZOMBIE", !.etime = ticks]
             q == F!Parent
             y == [table[q] EXCEPT !.state = IF @ = "SLEEPING" THEN "RUNNABLE" ELSE @]
  <1>1. /\ cur = p /\ table[p].op = "exit" /\ cur' = F!NoProc /\ UNCHANGED <<ticks, scan, age>>
        /\ table' = [table EXCEPT ![p].state = "ZOMBIE", ![p].etime = ticks,
                                  ![q].state = IF @ = "SLEEPING" THEN "RUNNABLE" ELSE @]
    BY DEF F!Exit, F!At
  <1>2. /\ table \in [F!Slots -> Row] /\ table[p] \in Row /\ table[p].state = "RUNNING"
        /\ q \in F!Slots /\ table[q] \in Row /\ ticks \in Time /\ age \in [F!Slots -> 0 .. UINT]
    BY <1>1, SlotFacts DEF FcfsInv, FcfsType, CurInv
  <1>3. /\ x \in Row /\ x.state = "ZOMBIE" /\ x.etime = ticks /\ x.op = "exit"
        /\ x.ctime = table[p].ctime /\ x.rtime = table[p].rtime /\ x.slept = table[p].slept
    BY <1>1, <1>2 DEF Row
  <1>4. CASE p = q
    <2> DEFINE z == [x EXCEPT !.state = IF @ = "SLEEPING" THEN "RUNNABLE" ELSE @]
    <2>0. z \in Row /\ z.state = "ZOMBIE" /\ z.op = "exit"
      <3> HIDE DEF x
      <3>1. QED
        BY <1>3 DEF Row
    <2>1. table' = [table EXCEPT ![p] = z]
      <3>1. table' = [table EXCEPT ![p].state = "ZOMBIE", ![p].etime = ticks,
                                   ![p].state = IF @ = "SLEEPING" THEN "RUNNABLE" ELSE @]
        BY <1>1, <1>4
      <3>2. QED
        BY <1>2, <3>1 DEF Row
    <2> HIDE DEF z, x, q
    <2>2. \A s \in F!Slots : table'[s] = IF s = p THEN z ELSE table[s]
      BY <1>2, <2>1
    <2>3. table' \in [F!Slots -> Row]
      BY <1>2, <2>0, <2>1
    <2>4. \A s \in F!Slots : table'[s].state = "RUNNING" <=> cur' = s
      BY <1>1, <2>0, <2>2, SlotFacts DEF FcfsInv, CurInv
    <2>5. ForkInv'
      BY <1>2, <2>0, <1>4, <2>2 DEF FcfsInv, ForkInv, q
    <2>6. TimesInv'
      <3>1. ASSUME NEW s \in F!Slots \ {F!Parent} PROVE Agrees(table[s], age[s], ticks)'
        <4>1. table'[s] = table[s] /\ age'[s] = age[s] /\ ticks' = ticks
          BY <1>1, <1>4, <2>2 DEF q
        <4>2. QED
          BY <4>1 DEF FcfsInv, TimesInv
      <3>2. QED
        BY <3>1 DEF TimesInv
    <2>7. QED
      BY <1>1, <1>2, <2>3, <2>4, <2>5, <2>6, RunningStep
  <1>5. CASE p # q
    <2>1. table' = [table EXCEPT ![p] = x, ![q] = y]
      BY <1>1, <1>2, <1>5
    <2>2. /\ y \in Row /\ y.op = table[q].op /\ y.n = table[q].n
          /\ y.state = IF table[q].state = "SLEEPING" THEN "RUNNABLE" ELSE table[q].state
      BY <1>2 DEF Row
    <2>3. table[q].state # "RUNNING"
      BY <1>1, <1>2, <1>5 DEF FcfsInv, CurInv
    <2>4. Agrees(table[p], age[p], ticks)
      BY <1>5 DEF FcfsInv, TimesInv
    <2>5. Agrees(x, age[p], ticks)
      <3>0. Rests(x, ticks)
        BY <1>1, <1>3, <2>4 DEF Agrees, Rests, InNap
      <3>1. SUFFICES ASSUME age[p] < UINT
                     PROVE  x.rtime + F!Sub(F!Sub(x.etime, x.ctime), x.rtime) = age[p]
        BY <1>3, <3>0 DEF Agrees
      <3>2. table[p].rtime <= age[p] /\ F!Sub(ticks, table[p].ctime) = age[p]
        BY <1>2, <2>4, <3>1 DEF Agrees
      <3>3. table[p].rtime \in Time /\ age[p] \in Time
        <4>1. table[p].rtime \in Time /\ age[p] \in 0 .. UINT
          BY <1>2 DEF Row
        <4>2. QED
          BY <3>1, <4>1, FcfsAssumption DEF Time
      <3>4. F!Sub(age[p], table[p].rtime) = age[p] - table[p].rtime
        BY <3>2, <3>3, TimeFacts
      <3>5. F!Sub(F!Sub(x.etime, x.ctime), x.rtime) = age[p] - table[p].rtime
        BY <1>3, <3>2, <3>4
      <3> HIDE DEF x, y
      <3>6. x.rtime = table[p].rtime /\ x.rtime \in Int /\ age[p] \in Int
        BY <1>3, <3>3, TimeFacts
      <3>7. QED
        BY <3>5, <3>6
    <2> HIDE DEF x, y
    <2>6. \A s \in F!Slots : table'[s] = IF s = p THEN x ELSE IF s = q THEN y ELSE table[s]
      BY <1>2, <2>1
    <2>7. ForkInv'
      <3>1. table'[q].op = table[q].op /\ table'[q].n = table[q].n /\ table'[q].state # "UNUSED"
        BY <1>2, <1>5, <2>2, <2>6 DEF FcfsInv, ForkInv
      <3>2. \A s \in F!Slots \ {q} : table'[s].op \notin {"fork", "forked", "kill"}
        BY <1>3, <2>6 DEF FcfsInv, ForkInv
      <3>3. \A s \in F!Slots \ {q} : table[s].state = "USED" => table'[s].state = "USED"
        BY <1>2, <2>6
      <3>4. QED
        BY <3>1, <3>2, <3>3 DEF FcfsInv, ForkInv
    <2>8. y.state # "RUNNING" /\ q \in F!Slots \ {p}
      BY <1>2, <1>5, <2>2, <2>3
    <2>9. x.state # "RUNNING" /\ x \in Row /\ y \in Row
      BY <1>3, <2>2
    <2>10. age' \in [F!Slots -> 0 .. UINT] /\ \A s \in F!Slots \ {q} : age'[s] = age[s]
      BY <1>1, <1>2
    <2>11. /\ p # F!Parent => Agrees(x, age[p], ticks)
           /\ q # F!Parent => Agrees(y, age'[q], ticks)
      BY <2>5
    <2>12. y.state # "RUNNING" /\ cur = p /\ cur' = F!NoProc /\ UNCHANGED <<ticks, scan>>
      BY <1>1, <2>8
    <2> HIDE DEF q
    <2>13. QED
      BY <2>1, <2>7, <2>8, <2>9, <2>10, <2>11, <2>12, TwoRows
  <1>6. QED
    BY <1>4, <1>5

LEMMA WaitxStep ==
  ASSUME FcfsInv, NEW p \in F!Slots, F!Waitx(p)
  PROVE  FcfsInv'
  <1> DEFINE kids == {s \in F!Slots \ {F!Parent} : table[s].state \notin {"UNUSED", "USED"}}
             zombies == {s \in kids : table[s].state = "ZOMBIE"}
             q == F!Least(zombies)
             x == F!Returns(table[p])
  <1>1. cur = p /\ table[p].op = "waitx" /\ UNCHANGED <<ticks, scan>>
    BY DEF F!Waitx, F!Called
  <1>2. /\ table \in [F!Slots -> Row] /\ table[p] \in Row /\ table[p].state = "RUNNING"
        /\ age \in [F!Slots -> 0 .. UINT]
    BY <1>1 DEF FcfsInv, FcfsType, CurInv
  <1>3. /\ x \in Row /\ x.state = "RUNNING" /\ x.op \in {"none", "exit"}
        /\ x.ctime = table[p].ctime /\ x.rtime = table[p].rtime /\ x.slept = 0
    BY <1>2, RowFacts
  <1>4. \/ /\ zombies # {} /\ cur' = cur /\ age' = [age EXCEPT ![q] = 0]
           /\ table' = [table EXCEPT ![p] = x, ![q] = F!Unused]
        \/ table' = [table EXCEPT ![p] = x] /\ UNCHANGED <<age, cur>>
        \/ table' = [table EXCEPT ![p] = F!Asleep(table[p])] /\ cur' = F!NoProc /\ UNCHANGED age
    BY <1>2 DEF F!Waitx
  <1>5. CASE /\ zombies # {} /\ cur' = cur /\ age' = [age EXCEPT ![q] = 0]
             /\ table' = [table EXCEPT ![p] = x, ![q] = F!Unused]
    <2>1. \E s \in zombies : \A j \in zombies : s <= j
      BY <1>5, SlotFacts, HasLeast
    <2>2. q \in zombies
      BY <2>1 DEF F!Least
    <2>3. q \in F!Slots \ {p, F!Parent} /\ table[q].state = "ZOMBIE"
      BY <1>2, <2>2
    <2> HIDE DEF q, x
    <2>4. \A s \in F!Slots : table'[s] = IF s = p THEN x ELSE IF s = q THEN F!Unused ELSE table[s]
      BY <1>2, <1>5, <2>3
    <2>5. /\ age' \in [F!Slots -> 0 .. UINT] /\ \A s \in F!Slots \ {q} : age'[s] = age[s]
      <3>1. 0 \in 0 .. UINT
        BY TimeFacts
      <3>2. QED
        BY <1>2, <1>5, <2>3, <3>1
    <2>6. ForkInv'
      <3>1. \A s \in F!Slots \ {F!Parent} : table'[s].op \notin {"fork", "forked", "kill"}
        BY <1>3, <2>4, RowFacts DEF FcfsInv, ForkInv
      <3>2. table'[F!Parent] \in {x, table[F!Parent]} /\ table'[F!Parent].state # "UNUSED"
        BY <1>3, <2>3, <2>4, SlotFacts DEF FcfsInv, ForkInv
      <3>3. \A s \in F!Slots : table[s].state = "USED" => table'[s].state = "USED"
        BY <1>2, <2>3, <2>4
      <3>4. QED
        BY <1>3, <3>1, <3>2, <3>3 DEF FcfsInv, ForkInv
    <2>7. Agrees(F!Unused, age'[q], ticks)
      BY RowFacts DEF Agrees, Rests, InNap
    <2>8. p # F!Parent => Agrees(x, age[p], ticks)
      BY <1>2, <1>3 DEF FcfsInv, TimesInv, Agrees, Rests, InNap
    <2>9. F!Unused \in Row /\ F!Unused.state # "RUNNING"
      BY RowFacts
    <2>10. QED
      BY <1>1, <1>3, <1>5, <2>3, <2>5, <2>6, <2>7, <2>8, <2>9, TwoRows
  <1>6. CASE table' = [table EXCEPT ![p] = x] /\ UNCHANGED <<age, cur>>
    BY <1>1, <1>6, ReturnStep
  <1>7. CASE table' = [table EXCEPT ![p] = F!Asleep(table[p])] /\ cur' = F!NoProc /\ UNCHANGED age
    <2> DEFINE y == F!Asleep(table[p])
    <2>1. /\ y \in Row /\ y.state = "SLEEPING" /\ y.op = "waitx"
          /\ y.ctime = table[p].ctime /\ y.rtime = table[p].rtime /\ y.slept = table[p].slept
      BY <1>1, <1>2, RowFacts
    <2> HIDE DEF y
    <2>2. p # F!Parent => Rests(y, ticks)
      BY <1>1, <2>1 DEF FcfsInv, TimesInv, Agrees, Rests, InNap
    <2>3. QED
      BY <1>1, <1>7, <2>1, <2>2, OneRow DEF y
  <1>8. QED
    BY <1>4, <1>5, <1>6, <1>7

-----------------------------------------------------------------------------
(* scheduler() and the clock.                                              *)

LEMMA ScanSlotStep ==
  ASSUME FcfsInv, F!ScanSlot
  PROVE  FcfsInv'
  <1> DEFINE i == scan.i
             takes == i \in F!RunnableSet /\ F!Prefer(i, scan.next)
             next == IF takes THEN i ELSE scan.next
             first == IF i = 0 THEN F!RunnableSet ELSE scan.first
  <1>1. /\ cur = F!NoProc /\ i < NPROC /\ scan' = [i |-> i + 1, next |-> next, first |-> first]
        /\ UNCHANGED <<ticks, table, cur, age>>
    BY DEF F!ScanSlot
  <1>2. /\ table \in [F!Slots -> Row] /\ i \in 0 .. NPROC /\ i \in F!Slots
        /\ scan.next \in F!Slots \cup {F!NoProc} /\ scan.first \subseteq F!Slots
    BY <1>1, SlotFacts DEF FcfsInv, FcfsType
  <1>3. next \in F!Slots \cup {F!NoProc} /\ first \subseteq F!Slots /\ first \subseteq F!RunnableSet
    BY <1>2, SlotFacts DEF FcfsInv, ScanInv, F!RunnableSet
  <1>4. next # F!NoProc => next \in F!RunnableSet
    BY DEF FcfsInv, ScanInv
  <1>5. F!RunnableSet' = F!RunnableSet
    BY <1>1 DEF F!RunnableSet
  <1>6. ASSUME NEW q \in first, q < i + 1
        PROVE  next # F!NoProc /\ table[next].ctime <= table[q].ctime
    <2>1. \A s \in F!Slots : table[s].ctime \in Int
      BY <1>2, TimeFacts DEF Row
    <2>2. q \in F!Slots /\ q \in Int /\ i \in Int /\ q \in F!RunnableSet
      BY <1>2, <1>3, <1>6, SlotFacts
    <2>3. CASE q = i
      BY <1>2, <2>1, <2>2, <2>3, SlotFacts DEF F!Prefer
    <2>4. CASE q # i
      <3>1. q < i /\ i # 0 /\ q \in scan.first
        BY <1>2, <1>6, <2>2, <2>4, SlotFacts
      <3>2. scan.next # F!NoProc /\ table[scan.next].ctime <= table[q].ctime
        BY <3>1 DEF FcfsInv, ScanInv
      <3>3. CASE takes
        <4>1. table[scan.next].ctime > table[i].ctime
          BY <3>2, <3>3 DEF F!Prefer
        <4>2. i # F!NoProc /\ scan.next \in F!Slots
          BY <1>2, <3>2, SlotFacts
        <4> DEFINE x == table[scan.next].ctime
                   y == table[i].ctime
                   z == table[q].ctime
        <4>3. y <= z
          <5>1. x \in Int /\ y \in Int /\ z \in Int /\ x > y /\ x <= z
            BY <1>2, <2>1, <2>2, <3>2, <4>1, <4>2
          <5> HIDE DEF x, y, z
          <5>2. QED
            BY <5>1
        <4>4. QED
          BY <3>3, <4>2, <4>3
      <3>4. CASE ~ takes
        BY <3>2, <3>4
      <3>5. QED
        BY <3>3, <3>4
    <2>5. QED
      BY <2>3, <2>4
  <1> HIDE DEF next, first
  <1>7. scan'.i = i + 1 /\ scan'.next = next /\ scan'.first = first
    BY <1>1
  <1>8. ScanInv'
    BY <1>1, <1>3, <1>4, <1>5, <1>6, <1>7 DEF ScanInv
  <1>9. FcfsType'
    <2>1. i + 1 \in 0 .. NPROC
      BY <1>1, <1>2, SlotFacts
    <2>2. scan' \in [i : 0 .. NPROC, next : F!Slots \cup {F!NoProc}, first : SUBSET F!Slots]
      BY <1>1, <1>3, <2>1
    <2>3. QED
      BY <1>1, <2>2 DEF FcfsInv, FcfsType
  <1>10. CurInv' /\ ForkInv'
    BY <1>1 DEF FcfsInv, CurInv, ForkInv
  <1>11. TimesInv'
    BY <1>1 DEF FcfsInv, TimesInv, Agrees, F!Sub
  <1>12. QED
    BY <1>8, <1>9, <1>10, <1>11 DEF FcfsInv

LEMMA DispatchStep ==
  ASSUME FcfsInv, F!Dispatch
  PROVE  FcfsInv'
  <1> DEFINE p == scan.next
  <1>1. /\ cur = F!NoProc /\ scan' = F!Begin /\ UNCHANGED <<ticks, age>>
        /\ IF p = F!NoProc THEN UNCHANGED <<table, cur>>
           ELSE cur' = p /\ table' = [table EXCEPT ![p].state = "RUNNING"]
    BY DEF F!Dispatch
  <1>2. scan' \in [i : 0 .. NPROC, next : F!Slots \cup {F!NoProc}, first : SUBSET F!Slots]
    BY <1>1, SlotFacts DEF F!Begin
  <1>3. ScanInv'
    BY <1>1 DEF F!Begin, ScanInv
  <1>4. CASE p = F!NoProc
    <2>1. UNCHANGED <<table, cur>>
      BY <1>1, <1>4
    <2>2. FcfsType' /\ CurInv' /\ ForkInv'
      BY <1>1, <1>2, <2>1 DEF FcfsInv, FcfsType, CurInv, ForkInv
    <2>3. TimesInv'
      BY <1>1, <2>1 DEF FcfsInv, TimesInv, Agrees, F!Sub
    <2>4. QED
      BY <1>3, <2>2, <2>3 DEF FcfsInv
  <1>5. CASE p # F!NoProc
    <2> DEFINE x == [table[p] EXCEPT !.state = "RUNNING"]
    <2>1. /\ p \in F!Slots /\ table[p].state = "RUNNABLE" /\ table[p] \in Row
          /\ table \in [F!Slots -> Row]
      BY <1>5 DEF FcfsInv, FcfsType, ScanInv, F!RunnableSet
    <2>2. table' = [table EXCEPT ![p] = x]
      BY <1>1, <1>5, <2>1
    <2>3. /\ x \in Row /\ x.state = "RUNNING" /\ x.op = table[p].op /\ x.n = table[p].n
          /\ x.ctime = table[p].ctime /\ x.rtime = table[p].rtime
          /\ x.pc = table[p].pc /\ x.slept = table[p].slept /\ x.ticks0 = table[p].ticks0
      BY <2>1 DEF Row
    <2> HIDE DEF x
    <2>4. \A s \in F!Slots : table'[s] = IF s = p THEN x ELSE table[s]
      BY <2>1, <2>2
    <2>5. FcfsType'
      <3>1. table' \in [F!Slots -> Row]
        BY <2>1, <2>2, <2>3
      <3>2. QED
        BY <1>1, <1>2, <1>5, <2>1, <3>1 DEF FcfsInv, FcfsType
    <2>6. CurInv'
      <3>1. \A s \in F!Slots : table[s].state # "RUNNING"
        BY <1>1, SlotFacts DEF FcfsInv, CurInv
      <3>2. QED
        BY <1>1, <1>5, <2>3, <2>4, <3>1 DEF CurInv
    <2>7. ForkInv'
      BY <2>1, <2>3, <2>4, SlotFacts DEF FcfsInv, ForkInv
    <2>8. ASSUME NEW s \in F!Slots \ {F!Parent}
          PROVE  Agrees(table[s], age[s], ticks)'
      <3>1. Agrees(table[s], age[s], ticks)
        BY DEF FcfsInv, TimesInv
      <3>2. CASE s = p
        <4>1. /\ table'[s] = x /\ age'[s] = age[s] /\ ticks' = ticks
              /\ table[s].state = "RUNNABLE" /\ x.state = "RUNNING"
          BY <1>1, <2>1, <2>3, <2>4, <3>2
        <4>2. /\ x.op = table[s].op /\ x.pc = table[s].pc /\ x.slept = table[s].slept /\ x.n = table[s].n
              /\ x.ticks0 = table[s].ticks0 /\ x.ctime = table[s].ctime /\ x.rtime = table[s].rtime
          BY <2>3, <3>2
        <4>3. QED
          BY <3>1, <4>1, <4>2 DEF Agrees, Rests, InNap
      <3>3. CASE s # p
        BY <1>1, <2>4, <3>1, <3>3 DEF Agrees, F!Sub
      <3>4. QED
        BY <3>2, <3>3
    <2>9. TimesInv'
      BY <2>8 DEF TimesInv
    <2>10. QED
      BY <1>3, <2>5, <2>6, <2>7, <2>9 DEF FcfsInv
  <1>6. QED
    BY <1>4, <1>5

\* What the clock interrupt does to a row.
LEMMA TickRow ==
  ASSUME FcfsInv, NEW s \in F!Slots, NEW y, y = F!Interrupted(s, cur)
  PROVE  /\ y \in Row /\ y.ctime = table[s].ctime /\ y.etime = table[s].etime /\ y.n = table[s].n
         /\ y.rtime = IF table[s].state = "RUNNING" /\ s # F!Parent
                      THEN F!Add(table[s].rtime, 1) ELSE table[s].rtime
         /\ y.state = IF F!OnTicks(s) \/ (s = cur /\ table[s].pc # "user")
                      THEN "RUNNABLE" ELSE table[s].state
         /\ y.op \in {table[s].op, "exit"}
         /\ s # cur \/ table[s].pc # "user" => y.op = table[s].op /\ y.pc = table[s].pc
         /\ y.slept = IF InNap(table[s]) /\ table[s].slept < UINT THEN table[s].slept + 1 ELSE table[s].slept
         /\ y.ticks0 = table[s].ticks0 /\ (InNap(y) <=> InNap(table[s]))
  <1> DEFINE a == F!Ticked(s)
  <1>1. table[s] \in Row
    BY DEF FcfsInv, FcfsType
  <1>2. (IF table[s].state = "RUNNING" /\ s # F!Parent
         THEN F!Add(table[s].rtime, 1) ELSE table[s].rtime) \in Time
    BY <1>1, TimeFacts DEF Row
  <1> DEFINE nap == IF InNap(table[s]) /\ table[s].slept < UINT THEN table[s].slept + 1 ELSE table[s].slept
  <1>22. nap \in 0 .. UINT
    <2>1. table[s].slept \in 0 .. UINT
      BY <1>1 DEF Row
    <2>2. QED
      BY <2>1, FcfsAssumption
  <1>3. /\ a \in Row /\ a.ctime = table[s].ctime /\ a.etime = table[s].etime /\ a.n = table[s].n
        /\ a.rtime = IF table[s].state = "RUNNING" /\ s # F!Parent
                     THEN F!Add(table[s].rtime, 1) ELSE table[s].rtime
        /\ a.state = IF F!OnTicks(s) THEN "RUNNABLE" ELSE table[s].state
        /\ a.op = table[s].op /\ a.pc = table[s].pc /\ a.ticks0 = table[s].ticks0
        /\ a.slept = nap
    BY <1>1, <1>2, <1>22 DEF F!Ticked, F!Napping, InNap, Row
  <1> HIDE DEF a, nap
  <1>4. \/ s # cur /\ y = a
        \/ /\ s = cur /\ table[s].pc = "user"
           /\ y \in {a, [a EXCEPT !.pc = "call", !.op = "exit"]}
        \/ s = cur /\ table[s].pc # "user" /\ y = [a EXCEPT !.state = "RUNNABLE"]
    BY DEF F!Interrupted, a
  <1>5. CASE s # cur /\ y = a
    BY <1>3, <1>5 DEF InNap, nap
  <1>6. CASE s = cur /\ table[s].pc = "user" /\ y = a
    BY <1>3, <1>6 DEF InNap, nap
  <1>7. CASE s = cur /\ table[s].pc = "user" /\ y = [a EXCEPT !.pc = "call", !.op = "exit"]
    BY <1>3, <1>7 DEF Row, InNap, nap
  <1>8. CASE s = cur /\ table[s].pc # "user" /\ y = [a EXCEPT !.state = "RUNNABLE"]
    BY <1>3, <1>8 DEF Row, InNap, nap
  <1>9. QED
    BY <1>4, <1>5, <1>6, <1>7, <1>8

LEMMA TickStep ==
  ASSUME FcfsInv, F!Tick
  PROVE  FcfsInv'
  <1>1. /\ ticks' = F!Add(ticks, 1) /\ table' = [s \in F!Slots |-> F!Interrupted(s, cur)]
        /\ cur' = IF cur # F!NoProc /\ table[cur].pc # "user" THEN F!NoProc ELSE cur
        /\ age' = [s \in F!Slots |->
                     IF s = F!Parent \/ table[s].state \in {"UNUSED", "ZOMBIE"} \/ age[s] = UINT
                     THEN age[s] ELSE age[s] + 1]
        /\ UNCHANGED scan
    BY DEF F!Tick
  <1>2. /\ table \in [F!Slots -> Row] /\ age \in [F!Slots -> 0 .. UINT] /\ ticks \in Time
        /\ \A s \in F!Slots : table[s].state = "RUNNING" <=> cur = s
    BY DEF FcfsInv, FcfsType, CurInv
  <1>3. \A s \in F!Slots : table'[s] = F!Interrupted(s, cur)
    BY <1>1
  <1>4. \A s \in F!Slots :
          /\ table'[s] \in Row /\ table'[s].ctime = table[s].ctime /\ table'[s].etime = table[s].etime
          /\ table'[s].n = table[s].n
          /\ table'[s].rtime = IF table[s].state = "RUNNING" /\ s # F!Parent
                               THEN F!Add(table[s].rtime, 1) ELSE table[s].rtime
          /\ table'[s].state = IF F!OnTicks(s) \/ (s = cur /\ table[s].pc # "user")
                               THEN "RUNNABLE" ELSE table[s].state
          /\ table'[s].op \in {table[s].op, "exit"}
          /\ s # cur \/ table[s].pc # "user" =>
                table'[s].op = table[s].op /\ table'[s].pc = table[s].pc
          /\ table'[s].slept = IF InNap(table[s]) /\ table[s].slept < UINT
                               THEN table[s].slept + 1 ELSE table[s].slept
          /\ table'[s].ticks0 = table[s].ticks0 /\ (InNap(table'[s]) <=> InNap(table[s]))
    BY <1>3, TickRow
  <1>5. \A s \in F!Slots : F!OnTicks(s) => table[s].state = "SLEEPING" /\ table[s].op = "sleep"
    BY DEF F!OnTicks
  <1>6. FcfsType'
    <2>1. ticks' \in Time
      BY <1>1, <1>2, TimeFacts
    <2>2. table' \in [F!Slots -> Row]
      BY <1>1, <1>4
    <2>3. cur' \in F!Slots \cup {F!NoProc}
      BY <1>1 DEF FcfsInv, FcfsType
    <2>4. age' \in [F!Slots -> 0 .. UINT]
      BY <1>1, <1>2, FcfsAssumption
    <2>5. QED
      BY <1>1, <2>1, <2>2, <2>3, <2>4 DEF FcfsInv, FcfsType
  <1>7. CurInv'
    <2>1. ASSUME NEW s \in F!Slots PROVE table'[s].state = "RUNNING" <=> cur' = s
      <3>1. F!OnTicks(s) => table[s].state # "RUNNING"
        BY <1>5
      <3>2. table'[s].state = "RUNNING" <=> table[s].state = "RUNNING" /\ ~ (s = cur /\ table[s].pc # "user")
        BY <1>4, <3>1
      <3>3. table'[s].state = "RUNNING" <=> cur = s /\ table[s].pc = "user"
        BY <1>2, <3>2
      <3>4. s # F!NoProc
        BY SlotFacts
      <3>5. QED
        BY <1>1, <3>3, <3>4
    <2>2. cur' # F!NoProc => scan' = F!Begin
      BY <1>1, SlotFacts DEF FcfsInv, CurInv
    <2>3. QED
      BY <2>1, <2>2 DEF CurInv
  <1>8. ScanInv'
    <2>1. \A s \in F!RunnableSet : s \in F!RunnableSet'
      <3>1. ASSUME NEW s \in F!Slots, table[s].state = "RUNNABLE" PROVE table'[s].state = "RUNNABLE"
        BY <1>4, <3>1
      <3>2. QED
        BY <3>1 DEF F!RunnableSet
    <2>2. \A s \in F!Slots : table'[s].ctime = table[s].ctime
      BY <1>4
    <2>3. /\ scan.next # F!NoProc => scan.next \in F!Slots
          /\ scan.first \subseteq F!Slots
      BY DEF FcfsInv, FcfsType
    <2>4. scan'.i > 0 => scan'.first \subseteq F!RunnableSet'
      BY <1>1, <2>1 DEF FcfsInv, ScanInv
    <2>5. scan'.next # F!NoProc => scan'.next \in F!RunnableSet'
      BY <1>1, <2>1 DEF FcfsInv, ScanInv
    <2>6. \A q \in scan'.first : q < scan'.i =>
             scan'.next # F!NoProc /\ table'[scan'.next].ctime <= table'[q].ctime
      BY <1>1, <2>2, <2>3 DEF FcfsInv, ScanInv
    <2>7. QED
      BY <2>4, <2>5, <2>6 DEF ScanInv
  <1>9. ForkInv'
    <2>1. F!Parent \in F!Slots /\ table'[F!Parent].state # "UNUSED"
      BY <1>4, SlotFacts DEF FcfsInv, ForkInv
    <2>2. \A s \in F!Slots \ {F!Parent} : table'[s].op \notin {"fork", "forked", "kill"}
      BY <1>4 DEF FcfsInv, ForkInv
    <2>3. table'[F!Parent].op \in {table[F!Parent].op, "exit"} /\ table'[F!Parent].n = table[F!Parent].n
      BY <1>4, <2>1
    <2>4. ASSUME table'[F!Parent].op = "forked"
          PROVE  /\ table[F!Parent].n \in F!Slots \ {F!Parent}
                 /\ table'[table[F!Parent].n].state = "USED"
      <3>1. /\ table[F!Parent].n \in F!Slots \ {F!Parent}
            /\ table[table[F!Parent].n].state = "USED"
        BY <2>3, <2>4 DEF FcfsInv, ForkInv
      <3> DEFINE n == table[F!Parent].n
      <3>2. n \in F!Slots /\ table[n].state = "USED" /\ n # cur
        BY <1>2, <3>1
      <3> HIDE DEF n
      <3>3. table'[n].state = "USED"
        BY <1>4, <1>5, <3>2
      <3>4. QED
        BY <3>1, <3>3 DEF n
    <2>5. table'[F!Parent].op = "kill" => table[F!Parent].n \in F!Slots \ {F!Parent}
      BY <2>3 DEF FcfsInv, ForkInv
    <2>6. QED
      BY <2>1, <2>2, <2>3, <2>4, <2>5 DEF ForkInv
  <1>10. ASSUME NEW s \in F!Slots \ {F!Parent}
         PROVE  Agrees(table[s], age[s], ticks)'
    <2>1. Agrees(table[s], age[s], ticks)
      BY DEF FcfsInv, TimesInv
    <2>2. ~ (table'[s].state = "SLEEPING" /\ table'[s].op = "sleep")
      <3>1. table'[s].state = "SLEEPING" => table[s].state = "SLEEPING" /\ ~ F!OnTicks(s) /\ s # cur
        BY <1>2, <1>4
      <3>2. QED
        BY <1>4, <3>1 DEF F!OnTicks
    <2>3. ASSUME table'[s].state = "ZOMBIE", age'[s] < UINT
          PROVE  table'[s].rtime + F!Sub(F!Sub(table'[s].etime, table'[s].ctime), table'[s].rtime) = age'[s]
      <3>1. table[s].state = "ZOMBIE"
        BY <1>4, <2>3
      <3>2. age'[s] = age[s] /\ table'[s].rtime = table[s].rtime
        BY <1>1, <1>4, <3>1
      <3>3. QED
        BY <1>4, <2>1, <2>3, <3>1, <3>2 DEF Agrees
    <2>4. ASSUME table'[s].state \notin {"UNUSED", "ZOMBIE"}, age'[s] < UINT
          PROVE  table'[s].rtime <= age'[s] /\ F!Sub(ticks', table'[s].ctime) = age'[s]
      <3>1. table[s].state \notin {"UNUSED", "ZOMBIE"}
        BY <1>2, <1>4, <1>5, <2>4
      <3>2. age'[s] = age[s] + 1 /\ age[s] \in 0 .. UINT /\ age[s] + 1 < UINT
        BY <1>1, <1>2, <2>4, <3>1
      <3>3. table[s].rtime <= age[s] /\ F!Sub(ticks, table[s].ctime) = age[s]
        BY <2>1, <3>1, <3>2, FcfsAssumption DEF Agrees
      <3>4. table[s].rtime \in Time /\ table[s].ctime \in Time
        BY <1>2 DEF Row
      <3>5. F!Sub(ticks', table'[s].ctime) = age'[s]
        <4>1. F!Sub(ticks, table[s].ctime) + 1 < UINT
          BY <3>2, <3>3
        <4>2. F!Sub(F!Add(ticks, 1), table[s].ctime) = F!Sub(ticks, table[s].ctime) + 1
          BY <1>2, <3>4, <4>1, TimeFacts
        <4>3. table'[s].ctime = table[s].ctime
          BY <1>4
        <4>4. QED
          BY <1>1, <3>2, <3>3, <4>2, <4>3
      <3>6. table'[s].rtime \in Int /\ table'[s].rtime <= table[s].rtime + 1
        <4>1. table[s].rtime \in Int /\ F!Add(table[s].rtime, 1) \in Int
              /\ F!Add(table[s].rtime, 1) <= table[s].rtime + 1
          BY <3>4, TimeFacts
        <4>2. table'[s].rtime \in {table[s].rtime, F!Add(table[s].rtime, 1)}
          BY <1>4
        <4>3. QED
          BY <4>1, <4>2
      <3>7. table'[s].rtime <= age'[s]
        <4>1. table[s].rtime \in Int /\ age[s] \in Int
          BY <3>2, <3>4, FcfsAssumption DEF Time
        <4>2. QED
          BY <3>2, <3>3, <3>6, <4>1
      <3>8. QED
        BY <3>5, <3>7
    <2>5. ASSUME InNap(table'[s]), table'[s].slept < UINT
          PROVE  F!Sub(ticks', table'[s].ticks0) = table'[s].slept
      <3>1. /\ InNap(table[s]) /\ table[s].slept < UINT /\ table'[s].slept = table[s].slept + 1
            /\ table[s].slept \in 0 .. UINT /\ table[s].ticks0 \in Time
        <4>1. table[s].slept \in 0 .. UINT /\ table[s].ticks0 \in Time
          BY <1>2 DEF Row
        <4>2. QED
          BY <1>4, <2>5, <4>1, FcfsAssumption
      <3>2. F!Sub(ticks, table[s].ticks0) = table[s].slept
        BY <2>1, <3>1 DEF Agrees, Rests
      <3>3. F!Sub(F!Add(ticks, 1), table[s].ticks0) = F!Sub(ticks, table[s].ticks0) + 1
        <4>1. ticks \in Time /\ table[s].slept \in Int /\ table[s].slept + 1 < UINT
          BY <1>2, <2>5, <3>1
        <4>2. F!Sub(ticks, table[s].ticks0) + 1 < UINT
          BY <3>2, <4>1
        <4>3. QED
          BY <3>1, <4>1, <4>2, TimeFacts
      <3>4. QED
        BY <1>1, <1>4, <3>1, <3>2, <3>3
    <2>6. Rests(table'[s], ticks')
      <3>1. ~ InNap(table'[s]) => table'[s].slept = 0
        BY <1>4, <2>1 DEF Agrees, Rests
      <3>2. table'[s].state \in {"UNUSED", "ZOMBIE"} => table'[s].op # "sleep"
        <4>1. table'[s].state \in {"UNUSED", "ZOMBIE"} => table[s].state = table'[s].state
          BY <1>4
        <4>2. QED
          BY <1>4, <2>1, <4>1 DEF Agrees, Rests
      <3>3. QED
        BY <2>2, <2>5, <3>1, <3>2 DEF Rests
    <2>7. QED
      BY <2>2, <2>3, <2>4, <2>6 DEF Agrees
  <1>11. TimesInv'
    BY <1>10 DEF TimesInv
  <1>12. QED
    BY <1>6, <1>7, <1>8, <1>9, <1>11 DEF FcfsInv

-----------------------------------------------------------------------------
LEMMA FcfsInvariant == F!Spec => []FcfsInv
  <1>1. F!Init => FcfsInv
    <2> SUFFICES ASSUME F!Init PROVE FcfsInv
      OBVIOUS
    <2> DEFINE x == [F!Unused EXCEPT !.state = "RUNNABLE"]
    <2>1. x \in Row /\ x.state = "RUNNABLE" /\ x.op = "none"
      BY RowFacts DEF Row
    <2> HIDE DEF x
    <2>2. /\ ticks = 0 /\ cur = F!NoProc /\ scan = F!Begin /\ age = [p \in F!Slots |-> 0]
          /\ table = [p \in F!Slots |-> IF p = F!Parent THEN x ELSE F!Unused]
      BY DEF F!Init, x
    <2>3. FcfsType
      <3>1. 0 \in 0 .. UINT
        BY TimeFacts
      <3>2. F!Begin \in [i : 0 .. NPROC, next : F!Slots \cup {F!NoProc}, first : SUBSET F!Slots]
        BY SlotFacts DEF F!Begin
      <3>3. QED
        BY <2>1, <2>2, <3>1, <3>2, RowFacts, TimeFacts DEF FcfsType
    <2>4. CurInv /\ ForkInv
      BY <2>1, <2>2, RowFacts, SlotFacts DEF CurInv, ForkInv
    <2>5. ScanInv
      BY <2>2 DEF ScanInv, F!Begin
    <2>6. TimesInv
      BY <2>2, RowFacts DEF TimesInv, Agrees, Rests, InNap
    <2>7. QED
      BY <2>3, <2>4, <2>5, <2>6 DEF FcfsInv
  <1>2. FcfsInv /\ [F!Next]_(F!vars) => FcfsInv'
    <2> SUFFICES ASSUME FcfsInv, [F!Next]_(F!vars) PROVE FcfsInv'
      OBVIOUS
    <2>1. CASE F!Next
      BY <2>1, ScanSlotStep, DispatchStep, TickStep, SyscallStep, SleepStep, ForkStep, ForkedStep,
         KillStep, ExitStep, WaitxStep DEF F!Next
    <2>2. CASE UNCHANGED F!vars
      <3>1. UNCHANGED <<ticks, table, cur, scan, age>>
        BY <2>2 DEF F!vars
      <3>2. FcfsType' /\ CurInv' /\ ForkInv'
        BY <3>1 DEF FcfsInv, FcfsType, CurInv, ForkInv
      <3>3. ScanInv' /\ TimesInv'
        BY <3>1 DEF FcfsInv, ScanInv, TimesInv, Agrees, Rests, InNap, F!Sub, F!RunnableSet
      <3>4. QED
        BY <3>2, <3>3 DEF FcfsInv
    <2>3. QED
      BY <2>1, <2>2
  <1>3. QED
    BY <1>1, <1>2, PTL DEF F!Spec

\* scheduler() of the FCFS build takes the process that was created first.
THEOREM FcfsTakesOldest == F!Spec => []OldestFirst
  <1>1. FcfsInv => OldestFirst
    <2> SUFFICES ASSUME FcfsInv, scan.i = NPROC, scan.first # {}
                 PROVE  /\ scan.next \in F!RunnableSet
                        /\ \A q \in scan.first : table[scan.next].ctime <= table[q].ctime
      BY DEF OldestFirst, F!OldestFirst
    <2>1. \A q \in scan.first : q < scan.i
      BY SlotFacts DEF FcfsInv, FcfsType
    <2>2. QED
      BY <2>1 DEF FcfsInv, ScanInv
  <1>2. QED
    BY <1>1, FcfsInvariant, PTL

\* A process of which sys_sleep() lets go has slept long enough, or was killed.
LEMMA NapStep ==
  ASSUME FcfsInv, F!Next
  PROVE  F!NapEnds
  <1>0. SUFFICES ASSUME NEW p \in F!Slots \ {F!Parent}, InNap(table[p]), table'[p].op # "sleep"
                 PROVE  table[p].slept >= table[p].n \/ table[p].killed
    BY DEF F!NapEnds, F!Napping, InNap
  <1>1. /\ table \in [F!Slots -> Row] /\ table[p] \in Row /\ Rests(table[p], ticks)
        /\ ticks \in Time
    BY DEF FcfsInv, FcfsType, TimesInv, Agrees
  <1>2. table[p].op = "sleep" /\ table[p].pc = "woken" /\ table[p].state \notin {"UNUSED", "ZOMBIE"}
    BY <1>0, <1>1 DEF InNap, Rests
  <1>3. CASE F!ScanSlot \/ F!Dispatch
    <2>1. table'[p].op = table[p].op
      BY <1>1, <1>3 DEF F!ScanSlot, F!Dispatch, Row
    <2>2. QED
      BY <1>0, <1>2, <2>1
  <1>4. CASE F!Tick
    <2>1. table'[p] = F!Interrupted(p, cur)
      BY <1>4 DEF F!Tick
    <2>2. QED
      BY <1>0, <1>2, <2>1, TickRow
  <1>5. CASE F!Sleep(p)
    <2>1. table'[p] = IF F!TooEarly(table[p].ticks0, table[p].n) /\ ~ table[p].killed
                      THEN F!Asleep([table[p] EXCEPT !.ticks0 = table[p].ticks0])
                      ELSE F!Returns(table[p])
      BY <1>1, <1>2, <1>5 DEF F!Sleep
    <2>2. F!Asleep([table[p] EXCEPT !.ticks0 = table[p].ticks0]).op = "sleep"
      BY <1>1, <1>2 DEF F!Asleep, Row
    <2>3. ~ F!TooEarly(table[p].ticks0, table[p].n) \/ table[p].killed
      BY <1>0, <2>1, <2>2
    <2>4. /\ F!Sub(ticks, table[p].ticks0) \in Time /\ table[p].slept \in 0 .. UINT
          /\ table[p].n \in Int
      BY <1>1, TimeFacts DEF Row
    <2>5. table[p].slept >= F!Sub(ticks, table[p].ticks0)
      BY <1>0, <1>1, <2>4, FcfsAssumption DEF Rests, Time
    <2>6. QED
      BY <2>3, <2>4, <2>5, FcfsAssumption DEF F!TooEarly, Time
  <1>6. ASSUME NEW q \in F!Slots,
               \/ F!Syscall(q) \/ (q # p /\ F!Sleep(q)) \/ F!Fork(q) \/ F!Forked(q)
               \/ F!Kill(q) \/ F!Exit(q) \/ F!Waitx(q)
        PROVE  table'[p].op = "sleep"
    <2>1. q # p
      BY <1>2, <1>6 DEF F!Syscall, F!Fork, F!Forked, F!Kill, F!Exit, F!Waitx, F!At, F!Called
    <2>2. CASE F!Syscall(q) \/ F!Sleep(q)
      BY <1>1, <1>2, <2>1, <2>2 DEF F!Syscall, F!Call, F!Sleep
    <2>3. CASE F!Fork(q)
      <3> DEFINE free == {s \in F!Slots : table[s].state = "UNUSED"}
                 n == F!Least(free)
      <3>1. CASE free = {}
        BY <1>1, <1>2, <2>1, <2>3, <3>1 DEF F!Fork
      <3>2. CASE free # {}
        <4>1. \E s \in free : \A j \in free : s <= j
          BY <3>2, SlotFacts, HasLeast
        <4>2. n \in free
          BY <4>1 DEF F!Least
        <4>3. table' = [table EXCEPT ![n] = F!Born(n), ![q].op = "forked", ![q].n = n]
          BY <2>3, <3>2 DEF F!Fork
        <4>4. n # p
          BY <1>2, <4>2
        <4> HIDE DEF n, free
        <4>5. QED
          BY <1>1, <1>2, <2>1, <4>3, <4>4
      <3>3. QED
        BY <3>1, <3>2
    <2>4. CASE F!Forked(q) \/ F!Kill(q) \/ F!Exit(q)
      BY <1>1, <1>2, <2>1, <2>4 DEF F!Forked, F!Kill, F!Exit, Row
    <2>5. CASE F!Waitx(q)
      <3> DEFINE kids == {s \in F!Slots \ {F!Parent} : table[s].state \notin {"UNUSED", "USED"}}
                 zombies == {s \in kids : table[s].state = "ZOMBIE"}
                 n == F!Least(zombies)
      <3>1. \/ zombies # {} /\ table' = [table EXCEPT ![q] = F!Returns(table[q]), ![n] = F!Unused]
            \/ table' = [table EXCEPT ![q] = F!Returns(table[q])]
            \/ table' = [table EXCEPT ![q] = F!Asleep(table[q])]
        BY <1>1, <2>5 DEF F!Waitx
      <3>2. CASE zombies # {} /\ table' = [table EXCEPT ![q] = F!Returns(table[q]), ![n] = F!Unused]
        <4>1. \E s \in zombies : \A j \in zombies : s <= j
          BY <3>2, SlotFacts, HasLeast
        <4>2. n \in zombies
          BY <4>1 DEF F!Least
        <4>3. n # p
          BY <1>2, <4>2
        <4> HIDE DEF n
        <4>4. QED
          BY <1>1, <1>2, <2>1, <3>2, <4>3
      <3>3. QED
        BY <1>1, <1>2, <2>1, <3>1, <3>2
    <2>6. QED
      BY <1>6, <2>2, <2>3, <2>4, <2>5
  <1>7. QED
    BY <1>0, <1>3, <1>4, <1>5, <1>6 DEF F!Next

\* sys_sleep() ends neither early nor, of a process that gets the CPU within UINT ticks,
\* late; and the times that waitx() reports add up.
THEOREM FcfsTimesAgree == F!Spec => TimesAgree
  <1>1. FcfsInv => F!TimesInv
    <2> SUFFICES ASSUME FcfsInv, NEW p \in F!Slots \ {F!Parent}
                 PROVE  /\ F!OnTicks(p) =>
                             ~ table[p].killed /\ (table[p].slept < UINT => table[p].slept < table[p].n)
                        /\ table[p].state \notin {"UNUSED", "ZOMBIE"} /\ age[p] < UINT
                             => table[p].rtime <= age[p] /\ F!Sub(ticks, table[p].ctime) = age[p]
                        /\ table[p].state = "ZOMBIE" /\ age[p] < UINT
                             => F!TimesOf(p).rtime + F!TimesOf(p).wtime = age[p]
      BY DEF F!TimesInv
    <2>1. Agrees(table[p], age[p], ticks)
      BY DEF FcfsInv, TimesInv
    <2>2. QED
      BY <2>1 DEF Agrees, Rests, F!OnTicks, F!TimesOf
  <1>2. FcfsInv /\ [F!Next]_(F!vars) => [F!NapEnds]_(F!vars)
    BY NapStep
  <1>3. QED
    BY <1>1, <1>2, FcfsInvariant, PTL DEF F!Spec, TimesAgree, F!TimesAgree

-----------------------------------------------------------------------------
(* The game server and its clients stay in step, for any number of games.  *)
(*                                                                         *)
(* The argument.  A client sends the items 1, 2, 3 ... of one list: the    *)
(* odd ones are its choices, item 2g - 1 for game g, the even ones its     *)
(* answers.  The server's place in its loop says how many of them it has   *)
(* taken, the client's place how many there are; what is in the stream is  *)
(* what lies in between.  A client that has gone sends no more, and from   *)
(* its empty stream the server takes nothing: there only what the stream   *)
(* begins with is claimed, if it is not empty.  The server holds the choice*)
(* for this game once it has passed the recv(), or an older one if it found*)
(* that the client has gone.                                               *)

Items == {R!Choice(g) : g \in Nat} \cup {R!Again(a) : a \in R!Answer}

\* Of what the server sends nothing is claimed: it is not looked at.
RpsType ==
  /\ client \in [R!Client -> [pc : {"choose", "result", "again", "gone"}, game : Nat \ {0}]]
  /\ up \in [R!Client -> Seq(Items)]
  /\ server \in {"choice1", "choice2", "send", "prompt", "again1", "again2", "closed", "dead"}
  /\ game \in Nat \ {0} /\ again \in R!Answer /\ choice \in [R!Client -> Nat]

\* x can be item k of what a client sends.
IsItem(x, k) == /\ \A g \in Nat : k = 2 * g - 1 => x = R!Choice(g)
                /\ (\E g \in Nat : k = 2 * g) => x.kind = "again" /\ x.answer \in R!Answer

\* A stream whose first item is item n + 1.
From(s, n) == \A i \in 1 .. Len(s) : IsItem(s[i], n + i)

\* How many items client c has sent, and how many of them the server has taken.
Sent(c) == IF client[c].pc = "choose" THEN 2 * client[c].game - 2 ELSE 2 * client[c].game - 1
Taken(c) == IF server = "choice1" \/ (c = 2 /\ server = "choice2") THEN 2 * game - 2
            ELSE IF c = 1 /\ server = "again2" THEN 2 * game
            ELSE 2 * game - 1

InStep(c) == /\ From(up[c], Taken(c))
             /\ client[c].pc # "gone" => Len(up[c]) = Sent(c) - Taken(c)

\* Whether the server has done the recv() of this game's choice of client c.
Chosen(c) == ~ (server = "choice1" \/ (c = 2 /\ server = "choice2"))

Judged(c) == IF Chosen(c) THEN choice[c] = game \/ (choice[c] < game /\ client[c].pc = "gone")
             ELSE choice[c] < game

RpsInv == RpsType /\ (~ R!Over => \A c \in R!Client : InStep(c) /\ Judged(c))

-----------------------------------------------------------------------------
\* An item behind the last one.
LEMMA Pushed ==
  ASSUME NEW s \in Seq(Items), NEW n \in Nat, NEW x \in Items,
         From(s, n), IsItem(x, n + Len(s) + 1)
  PROVE  /\ Append(s, x) \in Seq(Items) /\ Len(Append(s, x)) = Len(s) + 1
         /\ From(Append(s, x), n)
<1>1. Append(s, x) \in Seq(Items) /\ Len(Append(s, x)) = Len(s) + 1
  OBVIOUS
<1>2. ASSUME NEW i \in 1 .. Len(s) + 1 PROVE IsItem(Append(s, x)[i], n + i)
  <2>1. CASE i \in 1 .. Len(s)
    <3>1. Append(s, x)[i] = s[i]
      BY <2>1
    <3>2. QED BY <2>1, <3>1 DEF From
  <2>2. CASE i = Len(s) + 1
    <3>1. Append(s, x)[i] = x /\ n + i = n + Len(s) + 1
      BY <2>2
    <3>2. QED BY <3>1
  <2>3. QED BY <2>1, <2>2
<1>3. QED BY <1>1, <1>2 DEF From

\* The first item is taken.
LEMMA Popped ==
  ASSUME NEW s \in Seq(Items), NEW n \in Nat, s # <<>>, From(s, n)
  PROVE  /\ Tail(s) \in Seq(Items) /\ Len(Tail(s)) = Len(s) - 1 /\ Len(s) > 0
         /\ IsItem(Head(s), n + 1) /\ From(Tail(s), n + 1)
<1>1. Tail(s) \in Seq(Items) /\ Len(Tail(s)) = Len(s) - 1 /\ Len(s) > 0 /\ Head(s) = s[1]
  OBVIOUS
<1>2. ASSUME NEW i \in 1 .. Len(Tail(s)) PROVE IsItem(Tail(s)[i], (n + 1) + i)
  <2>1. Tail(s)[i] = s[i + 1] /\ (n + 1) + i = n + (i + 1) /\ i + 1 \in 1 .. Len(s)
    BY <1>1
  <2>2. QED BY <2>1 DEF From
<1>3. QED BY <1>1, <1>2 DEF From

-----------------------------------------------------------------------------
LEMMA TakenType ==
  ASSUME RpsType, NEW c \in R!Client
  PROVE  Taken(c) \in Nat /\ Sent(c) \in Nat
BY SMT DEF RpsType, Taken, Sent, R!Client

\* A step that is none of client c's, and of its stream.
LEMMA Kept ==
  ASSUME NEW c \in R!Client, InStep(c), client'[c] = client[c], up'[c] = up[c],
         Taken(c)' = Taken(c)
  PROVE  InStep(c)'
<1>1. Sent(c)' = Sent(c)
  BY DEF Sent
<1>2. QED BY <1>1 DEF InStep

\* A step that leaves the choice of client c alone.
LEMMA StillJudged ==
  ASSUME NEW c \in R!Client, Judged(c), choice'[c] = choice[c], game' = game,
         Chosen(c)' = Chosen(c), client[c].pc = "gone" => client'[c].pc = "gone"
  PROVE  Judged(c)'
BY DEF Judged

\* Client c sends its next item.
LEMMA SentNext ==
  ASSUME RpsType, NEW c \in R!Client, InStep(c), client[c].pc # "gone",
         NEW x \in Items, IsItem(x, Sent(c) + 1), up'[c] = Append(up[c], x),
         Sent(c)' = Sent(c) + 1, Taken(c)' = Taken(c)
  PROVE  InStep(c)'
<1>1. Taken(c) \in Nat /\ Sent(c) \in Nat /\ up[c] \in Seq(Items)
  BY TakenType DEF RpsType
<1>2. Len(up[c]) = Sent(c) - Taken(c) /\ From(up[c], Taken(c))
  BY DEF InStep
<1>3. Taken(c) + Len(up[c]) + 1 = Sent(c) + 1
  BY <1>1, <1>2
<1>4. Len(up'[c]) = Len(up[c]) + 1 /\ From(up'[c], Taken(c))
  BY <1>1, <1>2, <1>3, Pushed
<1>5. Len(up'[c]) = Sent(c)' - Taken(c)'
  BY <1>1, <1>2, <1>4
<1>6. QED BY <1>4, <1>5 DEF InStep

\* What the server finds first is the item that it has not taken.
LEMMA First ==
  ASSUME RpsType, NEW c \in R!Client, InStep(c), up[c] # <<>>
  PROVE  IsItem(Head(up[c]), Taken(c) + 1)
<1>1. Taken(c) \in Nat /\ up[c] \in Seq(Items) /\ From(up[c], Taken(c))
  BY TakenType DEF RpsType, InStep
<1>2. QED BY <1>1, Popped

\* The server takes it, or client c has gone and there is nothing to take.
LEMMA TakenNext ==
  ASSUME RpsType, NEW c \in R!Client, InStep(c), client'[c] = client[c],
         Taken(c)' = Taken(c) + 1,
         \/ up[c] # <<>> /\ up'[c] = Tail(up[c])
         \/ R!Silent(c) /\ up'[c] = up[c]
  PROVE  InStep(c)'
<1>1. Taken(c) \in Nat /\ Sent(c) \in Nat /\ up[c] \in Seq(Items)
  BY TakenType DEF RpsType
<1>2. CASE up[c] # <<>> /\ up'[c] = Tail(up[c])
  <2>1. From(up[c], Taken(c)) /\ (client[c].pc # "gone" => Len(up[c]) = Sent(c) - Taken(c))
    BY DEF InStep
  <2>2. Len(up'[c]) = Len(up[c]) - 1 /\ From(up'[c], Taken(c) + 1)
    BY <1>1, <1>2, <2>1, Popped
  <2>3. Sent(c)' = Sent(c)
    BY DEF Sent
  <2>4. client'[c].pc # "gone" => Len(up'[c]) = Sent(c)' - Taken(c)'
    BY <1>1, <2>1, <2>2, <2>3
  <2>5. QED BY <2>2, <2>4 DEF InStep
<1>3. CASE R!Silent(c) /\ up'[c] = up[c]
  BY <1>3 DEF R!Silent, InStep, From
<1>4. QED BY <1>2, <1>3

\* Nothing was sent and nothing taken.
LEMMA Fresh ==
  ASSUME NEW c \in R!Client, client = [d \in R!Client |-> [pc |-> "choose", game |-> 1]],
         up = [d \in R!Client |-> <<>>], server = "choice1", game = 1, again = "n",
         choice = [d \in R!Client |-> 0]
  PROVE  RpsType /\ InStep(c) /\ Judged(c)
<1>1. RpsType /\ Judged(c)
  BY DEF RpsType, Judged, Chosen, R!Answer
<1>2. Sent(c) = 0 /\ Taken(c) = 0
  BY SMT DEF Sent, Taken
<1>3. Len(up[c]) = 0 /\ From(up[c], 0)
  BY DEF From
<1>4. QED BY <1>1, <1>2, <1>3 DEF InStep

-----------------------------------------------------------------------------
LEMMA RpsInit == R!Init => RpsInv
<1>1. ASSUME R!Init, NEW c \in R!Client PROVE RpsType /\ InStep(c) /\ Judged(c)
  BY <1>1, Fresh DEF R!Init
<1>2. ASSUME R!Init PROVE RpsType
  BY <1>1, <1>2 DEF R!Client
<1>3. QED BY <1>1, <1>2 DEF RpsInv

\* The clients' steps: client c sends, the other one and the server do not move.
LEMMA ClientStep ==
  ASSUME RpsInv, NEW c \in R!Client, R!Choose(c) \/ R!Result(c) \/ R!PlayAgain(c) \/ R!Killed(c)
  PROVE  RpsInv'
<1>1. /\ server' = server /\ game' = game /\ again' = again /\ choice' = choice /\ RpsType
      /\ R!Over' <=> R!Over
  BY DEF RpsInv, R!Choose, R!Result, R!PlayAgain, R!Killed, R!Over
<1>2. \A d \in R!Client : Taken(d)' = Taken(d)
  BY <1>1 DEF Taken
<1>3. \A d \in R!Client \ {c} : client'[d] = client[d] /\ up'[d] = up[d]
  BY <1>1 DEF RpsType, R!Choose, R!Result, R!PlayAgain, R!Killed, R!Goes, R!Sends
<1>4. client[c].game \in Nat \ {0} /\ client[c] \in [pc : {"choose", "result", "again", "gone"}, game : Nat \ {0}]
      /\ up[c] \in Seq(Items)
  BY <1>1 DEF RpsType
<1>5. ~ R!Over => \A d \in R!Client : Judged(d)' /\ (d # c => InStep(d)')
  <2>1. ASSUME ~ R!Over, NEW d \in R!Client, d # c PROVE InStep(d)'
    BY <1>2, <1>3, <2>1, Kept DEF RpsInv
  <2>2. ASSUME ~ R!Over, NEW d \in R!Client PROVE Judged(d)'
    <3>1. Chosen(d)' = Chosen(d)
      BY <1>1 DEF Chosen
    <3>2. client[d].pc = "gone" => client'[d].pc = "gone"
      BY <1>1, <1>3 DEF RpsType, R!Choose, R!Result, R!PlayAgain, R!Killed, R!Goes
    <3>3. QED BY <1>1, <2>2, <3>1, <3>2, StillJudged DEF RpsInv
  <2>3. QED BY <2>1, <2>2
<1>6. CASE R!Choose(c)
  <2> DEFINE x == R!Choice(client[c].game)
  <2>1. x \in Items
    BY <1>4 DEF Items
  <2>2. client' = [client EXCEPT ![c] = [pc |-> "result", game |-> client[c].game]]
        /\ up' = [up EXCEPT ![c] = Append(@, x)] /\ client[c].pc = "choose"
    BY <1>6 DEF R!Choose, R!Goes, R!Sends
  <2>3. RpsType'
    BY <1>1, <1>4, <2>1, <2>2 DEF RpsType
  <2>4. client'[c] = [pc |-> "result", game |-> client[c].game] /\ up'[c] = Append(up[c], x)
    BY <1>1, <2>2 DEF RpsType
  <2>5. Sent(c) = 2 * client[c].game - 2 /\ Sent(c)' = Sent(c) + 1
    BY <1>4, <2>2, <2>4 DEF Sent
  <2>6. IsItem(x, Sent(c) + 1)
    BY <1>4, <2>5 DEF IsItem
  <2>7. ~ R!Over => InStep(c)'
    <3> HIDE DEF x
    <3>1. QED BY <1>1, <1>2, <2>1, <2>2, <2>4, <2>5, <2>6, SentNext DEF RpsInv
  <2>8. QED BY <1>1, <1>5, <2>3, <2>7 DEF RpsInv
<1>7. CASE R!Result(c)
  <2>1. client' = [client EXCEPT ![c] = [pc |-> "again", game |-> client[c].game]]
        /\ up' = up /\ client[c].pc = "result"
    BY <1>7 DEF R!Result, R!Goes
  <2>2. RpsType'
    BY <1>1, <1>4, <2>1 DEF RpsType
  <2>3. client'[c] = [pc |-> "again", game |-> client[c].game]
    BY <1>1, <2>1 DEF RpsType
  <2>4. Sent(c)' = Sent(c)
    BY <2>1, <2>3 DEF Sent
  <2>5. InStep(c) => InStep(c)'
    BY <1>2, <2>1, <2>3, <2>4 DEF InStep
  <2>6. ~ R!Over => InStep(c)
    BY DEF RpsInv
  <2>7. QED BY <1>1, <1>5, <2>2, <2>5, <2>6 DEF RpsInv
<1>8. CASE R!PlayAgain(c)
  <2>1. PICK a \in R!Answer :
          /\ up' = [up EXCEPT ![c] = Append(@, R!Again(a))] /\ client[c].pc = "again"
          /\ \/ client' = [client EXCEPT ![c] = [pc |-> "gone", game |-> client[c].game]]
             \/ client' = [client EXCEPT ![c] = [pc |-> "choose", game |-> client[c].game + 1]]
    BY <1>8 DEF R!PlayAgain, R!Goes, R!Sends
  <2>2. R!Again(a) \in Items /\ client[c].game + 1 \in Nat \ {0}
    <3>1. R!Again(a) \in Items
      BY DEF Items
    <3>2. client[c].game + 1 \in Nat \ {0}
      BY <1>1, <1>4
    <3>3. QED BY <3>1, <3>2
  <2>3. RpsType'
    <3>1. up' \in [R!Client -> Seq(Items)]
      <4>1. Append(up[c], R!Again(a)) \in Seq(Items)
        BY <1>1, <2>2 DEF RpsType
      <4>2. QED BY <1>1, <2>1, <4>1 DEF RpsType
    <3>2. client' \in [R!Client -> [pc : {"choose", "result", "again", "gone"}, game : Nat \ {0}]]
      <4> DEFINE x == [pc |-> "gone", game |-> client[c].game]
                 y == [pc |-> "choose", game |-> client[c].game + 1]
      <4>1. /\ x \in [pc : {"choose", "result", "again", "gone"}, game : Nat \ {0}]
            /\ y \in [pc : {"choose", "result", "again", "gone"}, game : Nat \ {0}]
        BY <1>1, <2>2 DEF RpsType
      <4>2. client' = [client EXCEPT ![c] = x] \/ client' = [client EXCEPT ![c] = y]
        BY <2>1
      <4> HIDE DEF x, y
      <4>3. QED BY <1>1, <4>1, <4>2 DEF RpsType
    <3>3. QED BY <1>1, <1>4, <3>1, <3>2 DEF RpsType
  <2>4. /\ up'[c] = Append(up[c], R!Again(a))
        /\ \/ client'[c] = [pc |-> "gone", game |-> client[c].game]
           \/ client'[c] = [pc |-> "choose", game |-> client[c].game + 1]
    BY <1>1, <2>1 DEF RpsType
  <2>5. Sent(c) = 2 * client[c].game - 1 /\ Taken(c) \in Nat /\ Sent(c) \in Nat
    BY <1>1, <2>1, TakenType DEF Sent
  <2>6. IsItem(R!Again(a), Sent(c) + 1)
    <3>1. \A n \in Nat : Sent(c) + 1 # 2 * n - 1
      BY <1>4, <2>5
    <3>2. R!Again(a).kind = "again" /\ R!Again(a).answer \in R!Answer
      BY DEF R!Again
    <3>3. QED BY <3>1, <3>2 DEF IsItem
  <2>7. ASSUME ~ R!Over PROVE InStep(c)'
    <3>1. Len(up[c]) = Sent(c) - Taken(c) /\ From(up[c], Taken(c))
      BY <2>1, <2>7 DEF RpsInv, InStep
    <3>2. Taken(c) + Len(up[c]) + 1 = Sent(c) + 1
      BY <1>4, <2>5, <3>1
    <3>3. Len(up'[c]) = Len(up[c]) + 1 /\ From(up'[c], Taken(c))
      BY <1>4, <2>2, <2>4, <2>5, <2>6, <3>1, <3>2, Pushed
    <3>4. client'[c].pc # "gone" => Sent(c)' = Sent(c) + 1
      <4>1. CASE client'[c] = [pc |-> "gone", game |-> client[c].game]
        BY <4>1
      <4>2. CASE client'[c] = [pc |-> "choose", game |-> client[c].game + 1]
        <5>1. client'[c].pc = "choose" /\ client'[c].game = client[c].game + 1
          BY <4>2
        <5>2. QED BY <1>4, <2>5, <5>1 DEF Sent
      <4>3. QED BY <2>4, <4>1, <4>2
    <3>5. client'[c].pc # "gone" => Len(up'[c]) = Sent(c)' - Taken(c)'
      BY <1>2, <1>4, <2>5, <3>1, <3>3, <3>4
    <3>6. QED BY <1>2, <3>3, <3>5 DEF InStep
  <2>8. QED BY <1>1, <1>5, <2>3, <2>7 DEF RpsInv
<1>9. CASE R!Killed(c)
  <2>1. client' = [client EXCEPT ![c] = [pc |-> "gone", game |-> client[c].game]] /\ up' = up
    BY <1>9 DEF R!Killed, R!Goes
  <2>2. RpsType'
    BY <1>1, <1>4, <2>1 DEF RpsType
  <2>3. client'[c].pc = "gone"
    BY <1>1, <2>1 DEF RpsType
  <2>4. ~ R!Over => InStep(c)'
    BY <1>2, <2>1, <2>3 DEF RpsInv, InStep
  <2>5. QED BY <1>1, <1>5, <2>2, <2>4 DEF RpsInv
<1>10. QED BY <1>6, <1>7, <1>8, <1>9

\* The server's steps: what it takes, of whom, and where that leaves it.
LEMMA ServerStep ==
  ASSUME RpsInv,
         R!RecvChoice1 \/ R!RecvChoice2 \/ R!SendResult \/ R!SendAgain \/ R!RecvAgain1 \/ R!RecvAgain2
  PROVE  RpsInv'
<1>1. RpsType /\ ~ R!Over /\ client' = client /\ 1 \in R!Client /\ 2 \in R!Client
  BY DEF RpsInv, R!Over, R!RecvChoice1, R!RecvChoice2, R!RecvChoice, R!SendResult, R!SendAgain,
         R!RecvAgain1, R!RecvAgain2, R!Client
<1>2. InStep(1) /\ InStep(2) /\ Judged(1) /\ Judged(2) /\ up[1] \in Seq(Items) /\ up[2] \in Seq(Items)
      /\ game \in Nat \ {0}
  BY <1>1 DEF RpsInv, RpsType
<1>3. ASSUME NEW c \in R!Client, up[c] # <<>>
      PROVE  Tail(up[c]) \in Seq(Items) /\ [up EXCEPT ![c] = Tail(@)] \in [R!Client -> Seq(Items)]
  <2>1. Tail(up[c]) \in Seq(Items)
    BY <1>1, <1>3 DEF RpsType
  <2>2. QED BY <1>1, <2>1 DEF RpsType
<1>4. ASSUME RpsType', InStep(1)', InStep(2)', Judged(1)', Judged(2)' PROVE RpsInv'
  BY <1>4 DEF RpsInv, R!Client
<1>5. ASSUME NEW c \in R!Client, NEW pc, NEW next, R!RecvChoice(c, pc, next), ~ Chosen(c),
             up[c] # <<>> => Head(up[c]) = R!Choice(game)
      PROVE  /\ choice' \in [R!Client -> Nat]
             /\ \A d \in R!Client \ {c} : choice'[d] = choice[d]
             /\ (choice'[c] = game \/ (choice'[c] < game /\ client'[c].pc = "gone"))
             /\ server = pc /\ server' = next /\ game' = game /\ again' = again
             /\ up' \in [R!Client -> Seq(Items)]
             /\ \A d \in R!Client \ {c} : up'[d] = up[d]
             /\ \/ up[c] # <<>> /\ up'[c] = Tail(up[c])
                \/ R!Silent(c) /\ up'[c] = up[c]
  <2>1. choice \in [R!Client -> Nat] /\ game \in Nat /\ choice[c] < game
    BY <1>1, <1>2, <1>5 DEF RpsType, RpsInv, Judged
  <2>2. CASE up[c] # <<>> /\ R!Took(c) /\ choice' = [choice EXCEPT ![c] = Head(up[c]).game]
    <3>1. choice' = [choice EXCEPT ![c] = game]
      <4>1. Head(up[c]) = R!Choice(game)
        BY <1>5, <2>2
      <4>2. R!Choice(game).game = game
        BY DEF R!Choice
      <4>3. Head(up[c]).game = game
        BY <4>1, <4>2
      <4>4. QED BY <2>2, <4>3
    <3>2. QED BY <1>1, <1>3, <1>5, <2>1, <2>2, <3>1 DEF R!RecvChoice, R!Took, RpsType
  <2>3. CASE R!Silent(c) /\ UNCHANGED <<up, choice>>
    BY <1>1, <1>5, <2>1, <2>3 DEF R!RecvChoice, R!Silent, RpsType
  <2>4. QED BY <1>5, <2>2, <2>3 DEF R!RecvChoice
<1>55. ASSUME NEW c \in R!Client, up[c] # <<>>, ~ Chosen(c)
       PROVE  Head(up[c]) = R!Choice(game)
  <2>1. Taken(c) + 1 = 2 * game - 1
    BY <1>2, <1>55 DEF Taken, Chosen
  <2>2. IsItem(Head(up[c]), Taken(c) + 1)
    BY <1>1, <1>2, <1>55, First DEF R!Client
  <2>3. QED BY <1>2, <2>1, <2>2 DEF IsItem
<1>6. CASE R!RecvChoice1
  <2>1. R!RecvChoice(1, "choice1", "choice2") /\ ~ Chosen(1) /\ ~ Chosen(2)
    BY <1>6 DEF R!RecvChoice1, R!RecvChoice, Chosen
  <2>0. up[1] # <<>> => Head(up[1]) = R!Choice(game)
    BY <1>1, <1>55, <2>1
  <2>2. RpsType'
    BY <1>1, <1>5, <2>0, <2>1 DEF RpsType
  <2>3. Taken(1)' = Taken(1) + 1 /\ Taken(2)' = Taken(2)
    <3>1. server = "choice1" /\ server' = "choice2" /\ game' = game
      BY <1>1, <1>5, <2>0, <2>1
    <3>2. QED BY <1>2, <3>1 DEF Taken
  <2>4. InStep(1)'
    BY <1>1, <1>2, <1>5, <2>0, <2>1, <2>3, TakenNext
  <2>5. InStep(2)'
    BY <1>1, <1>2, <1>5, <2>0, <2>1, <2>3, Kept
  <2>6. Judged(1)' /\ Judged(2)'
    <3>1. server' = "choice2" /\ game' = game /\ choice'[2] = choice[2] /\ client' = client
          /\ (choice'[1] = game \/ (choice'[1] < game /\ client'[1].pc = "gone"))
      BY <1>1, <1>5, <2>0, <2>1
    <3>2. QED BY <1>2, <2>1, <3>1 DEF Judged, Chosen
  <2>7. QED BY <1>4, <2>2, <2>4, <2>5, <2>6
<1>7. CASE R!RecvChoice2
  <2>1. R!RecvChoice(2, "choice2", "send") /\ Chosen(1) /\ ~ Chosen(2)
    BY <1>7 DEF R!RecvChoice2, R!RecvChoice, Chosen
  <2>0. up[2] # <<>> => Head(up[2]) = R!Choice(game)
    BY <1>1, <1>55, <2>1
  <2>2. RpsType'
    BY <1>1, <1>5, <2>0, <2>1 DEF RpsType
  <2>3. Taken(2)' = Taken(2) + 1 /\ Taken(1)' = Taken(1)
    <3>1. server = "choice2" /\ server' = "send" /\ game' = game
      BY <1>1, <1>5, <2>0, <2>1
    <3>2. QED BY <1>2, <3>1 DEF Taken
  <2>4. InStep(2)'
    BY <1>1, <1>2, <1>5, <2>0, <2>1, <2>3, TakenNext
  <2>5. InStep(1)'
    BY <1>1, <1>2, <1>5, <2>0, <2>1, <2>3, Kept
  <2>6. Judged(1)' /\ Judged(2)'
    <3>1. server' = "send" /\ game' = game /\ choice'[1] = choice[1] /\ client' = client
          /\ (choice'[2] = game \/ (choice'[2] < game /\ client'[2].pc = "gone"))
      BY <1>1, <1>5, <2>0, <2>1
    <3>2. QED BY <1>2, <2>1, <3>1 DEF Judged, Chosen
  <2>7. QED BY <1>4, <2>2, <2>4, <2>5, <2>6
<1>8. CASE R!SendResult \/ R!SendAgain
  <2>1. /\ up' = up /\ game' = game /\ choice' = choice /\ again' \in R!Answer
        /\ \/ server \in {"send", "prompt"} /\ server' \in {"prompt", "again1"}
           \/ server' = "dead"
    BY <1>1, <1>8 DEF R!SendResult, R!SendAgain, R!Dies, R!Answer, RpsType
  <2>2. RpsType'
    BY <1>1, <2>1 DEF RpsType
  <2>3. CASE server' = "dead"
    BY <2>2, <2>3 DEF RpsInv, R!Over
  <2>4. CASE server \in {"send", "prompt"} /\ server' \in {"prompt", "again1"}
    <3>1. Taken(1)' = Taken(1) /\ Taken(2)' = Taken(2)
      BY <2>1, <2>4 DEF Taken
    <3>2. InStep(1)' /\ InStep(2)'
      BY <1>1, <1>2, <2>1, <3>1, Kept
    <3>3. Chosen(1) /\ Chosen(2) /\ Chosen(1)' /\ Chosen(2)'
      BY <2>4 DEF Chosen
    <3>4. Judged(1)' /\ Judged(2)'
      BY <1>1, <1>2, <2>1, <3>3, StillJudged
    <3>5. QED BY <1>4, <2>2, <3>2, <3>4
  <2>5. QED BY <2>1, <2>3, <2>4
<1>9. ASSUME NEW c \in R!Client, up[c] # <<>>, server \in {"again1", "again2"},
             c = 1 => server = "again1"
      PROVE  Head(up[c]).kind = "again" /\ Head(up[c]).answer \in R!Answer
  <2>1. Taken(c) + 1 = 2 * game
    BY <1>2, <1>9 DEF Taken
  <2>2. IsItem(Head(up[c]), Taken(c) + 1)
    BY <1>1, <1>2, <1>9, First DEF R!Client
  <2>3. QED BY <1>2, <2>1, <2>2 DEF IsItem
<1>10. CASE R!RecvAgain1
  <2>1. /\ server = "again1" /\ server' = "again2" /\ game' = game
        /\ \/ up[1] # <<>> /\ up' = [up EXCEPT ![1] = Tail(@)]
           \/ R!Silent(1) /\ up' = up
    BY <1>10, Zenon DEF R!RecvAgain1, R!Took
  <2>2. /\ up' \in [R!Client -> Seq(Items)] /\ up'[2] = up[2]
        /\ \/ up[1] # <<>> /\ up'[1] = Tail(up[1])
           \/ R!Silent(1) /\ up'[1] = up[1]
    <3>1. up \in [R!Client -> Seq(Items)]
      BY <1>1 DEF RpsType
    <3>2. CASE up[1] # <<>> /\ up' = [up EXCEPT ![1] = Tail(@)]
      <4>1. up' \in [R!Client -> Seq(Items)]
        BY <1>1, <1>3, <3>2
      <4>2. up'[1] = Tail(up[1]) /\ up'[2] = up[2]
        BY <1>1, <3>1, <3>2
      <4>3. QED BY <3>2, <4>1, <4>2
    <3>3. CASE R!Silent(1) /\ up' = up
      BY <3>1, <3>3
    <3>4. QED BY <2>1, <3>2, <3>3
  <2>20. again' \in R!Answer /\ choice' = choice
    <3>1. CASE up[1] # <<>> /\ again' = Head(up[1]).answer
      <4>1. Head(up[1]).answer \in R!Answer
        BY <1>1, <1>9, <2>1, <3>1
      <4>2. QED BY <1>10, <3>1, <4>1, Zenon DEF R!RecvAgain1
    <3>2. CASE again' = again
      BY <1>1, <1>10, <3>2, Zenon DEF RpsType, R!RecvAgain1
    <3>3. QED BY <1>10, <3>1, <3>2, Zenon DEF R!RecvAgain1
  <2>3. RpsType'
    BY <1>1, <2>1, <2>2, <2>20 DEF RpsType
  <2>4. Taken(1)' = Taken(1) + 1 /\ Taken(2)' = Taken(2)
    BY <1>2, <2>1 DEF Taken
  <2>5. InStep(1)' /\ InStep(2)'
    BY <1>1, <1>2, <2>2, <2>4, TakenNext, Kept
  <2>6. Judged(1)' /\ Judged(2)'
    <3>1. Chosen(1) /\ Chosen(2) /\ Chosen(1)' /\ Chosen(2)'
      BY <2>1 DEF Chosen
    <3>2. QED BY <1>1, <1>2, <2>1, <2>20, <3>1, StillJudged
  <2>7. QED BY <1>4, <2>3, <2>5, <2>6
<1>11. CASE R!RecvAgain2
  <2>1. /\ server = "again2" /\ choice' = choice
        /\ \/ up[2] # <<>> /\ up' = [up EXCEPT ![2] = Tail(@)] /\ again' = Head(up[2]).answer
           \/ R!Silent(2) /\ up' = up /\ again' = again
        /\ \/ server' = "choice1" /\ game' = game + 1
           \/ server' = "closed" /\ game' = game
    BY <1>11, Zenon DEF R!RecvAgain2, R!Took
  <2>2. /\ up' \in [R!Client -> Seq(Items)] /\ up'[1] = up[1] /\ again' \in R!Answer
        /\ \/ up[2] # <<>> /\ up'[2] = Tail(up[2])
           \/ R!Silent(2) /\ up'[2] = up[2]
    <3>1. CASE up[2] # <<>> /\ up' = [up EXCEPT ![2] = Tail(@)] /\ again' = Head(up[2]).answer
      <4>1. up' \in [R!Client -> Seq(Items)]
        BY <1>1, <1>3, <3>1
      <4>2. Head(up[2]).answer \in R!Answer
        BY <1>1, <1>9, <2>1, <3>1
      <4>3. up'[1] = up[1] /\ up'[2] = Tail(up[2])
        BY <1>1, <3>1 DEF RpsType
      <4>4. QED BY <3>1, <4>1, <4>2, <4>3
    <3>2. CASE R!Silent(2) /\ up' = up /\ again' = again
      BY <1>1, <3>2 DEF RpsType
    <3>3. QED BY <2>1, <3>1, <3>2
  <2>3. RpsType'
    <3>1. game' \in Nat \ {0} /\ server' \in {"choice1", "closed"}
      BY <1>2, <2>1
    <3>2. QED BY <1>1, <2>1, <2>2, <3>1 DEF RpsType
  <2>4. CASE server' = "choice1" /\ game' = game + 1
    <3>1. Taken(2)' = Taken(2) + 1 /\ Taken(1)' = Taken(1)
      BY <1>2, <2>1, <2>4 DEF Taken
    <3>2. InStep(1)' /\ InStep(2)'
      BY <1>1, <1>2, <2>2, <3>1, TakenNext, Kept
    <3>3. Judged(1)' /\ Judged(2)'
      <4>1. choice[1] \in Nat /\ choice[2] \in Nat
        BY <1>1 DEF RpsType
      <4>2. choice[1] < game + 1 /\ choice[2] < game + 1
        BY <1>2, <4>1 DEF Judged
      <4>3. QED BY <2>1, <2>4, <4>2 DEF Judged, Chosen
    <3>4. QED BY <1>4, <2>3, <3>2, <3>3
  <2>5. CASE server' = "closed"
    BY <2>3, <2>5 DEF RpsInv, R!Over
  <2>6. QED BY <2>1, <2>4, <2>5
<1>12. QED BY <1>6, <1>7, <1>8, <1>10, <1>11

LEMMA RpsStep == RpsInv /\ [R!Next]_(R!vars) => RpsInv'
<1> SUFFICES ASSUME RpsInv, [R!Next]_(R!vars) PROVE RpsInv'
  OBVIOUS
<1>1. CASE UNCHANGED R!vars
  BY <1>1 DEF R!vars, RpsInv, RpsType, R!Over, InStep, Sent, Taken, Judged, Chosen
<1>2. CASE R!NextPair
  <2>1. R!Init'
    BY <1>2 DEF R!NextPair, R!Init
  <2>2. QED BY <2>1, RpsInit, PTL
<1>3. QED BY <1>1, <1>2, ClientStep, ServerStep DEF R!Next

\* For any number of games, and whoever leaves when: what the server reads as a choice or
\* an answer is one, and it judges the choices made for this game, or the last one of a
\* player who has left.
THEOREM StreamsInStep == R!Spec => []GamesInStep
<1>1. RpsInv => R!GamesInStep
  <2> SUFFICES ASSUME RpsInv PROVE R!GamesInStep
    OBVIOUS
  <2>1. ASSUME NEW c \in R!Client, up[c] # <<>>, ~ R!Over
        PROVE  IsItem(Head(up[c]), Taken(c) + 1)
    BY <2>1, First DEF RpsInv
  <2>2. game \in Nat \ {0} /\ 1 \in R!Client /\ 2 \in R!Client
    BY DEF RpsInv, RpsType, R!Client
  <2>3. ASSUME NEW c \in R!Client, up[c] # <<>>,
               server = "choice1" \/ (c = 2 /\ server = "choice2")
        PROVE  Head(up[c]).kind = "choice"
    <3>1. Taken(c) + 1 = 2 * game - 1 /\ ~ R!Over
      BY <2>2, <2>3 DEF Taken, R!Over
    <3>2. Head(up[c]) = R!Choice(game)
      BY <2>1, <2>2, <2>3, <3>1 DEF IsItem
    <3>3. QED BY <3>2 DEF R!Choice
  <2>4. ASSUME NEW c \in R!Client, up[c] # <<>>,
               server = "again1" \/ (c = 2 /\ server = "again2")
        PROVE  Head(up[c]).kind = "again"
    <3>1. Taken(c) + 1 = 2 * game /\ ~ R!Over
      BY <2>2, <2>4 DEF Taken, R!Over
    <3>2. QED BY <2>1, <2>2, <2>4, <3>1 DEF IsItem
  <2>5. ASSUME server = "send", NEW c \in R!Client
        PROVE  choice[c] = game \/ (choice[c] < game /\ client[c].pc = "gone")
    BY <2>5 DEF RpsInv, R!Over, Judged, Chosen
  <2>6. QED BY <2>2, <2>3, <2>4, <2>5 DEF R!GamesInStep
<1>2. R!GamesInStep => GamesInStep
  BY DEF GamesInStep
<1>3. QED BY <1>1, <1>2, RpsInit, RpsStep, PTL DEF R!Spec

-----------------------------------------------------------------------------
(* The console.  Its indices are a ring of SIZE entries counted modulo     *)
(* WORD: from r to w what is committed, from w to e the line that is       *)
(* edited, in which nothing ends a line.                                   *)

Index == 0 .. WORD - 1

ConsoleType ==
  /\ r \in Index /\ w \in Index /\ e \in Index
  /\ buf \in [0 .. SIZE - 1 -> K!Char \cup {K!NoChar}]
  /\ reader \in [Reader -> [pc : {"user", "loop", "asleep"}, got : Nat, n : Nat, killed : BOOLEAN]]
  /\ writer \in [Writer -> [left : Nat, asleep : BOOLEAN]]

\* The two parts lie one behind the other, and fit.
RingInv == K!Sub(w, r) + K!Sub(e, w) = K!Sub(e, r) /\ K!Sub(e, r) <= SIZE
LineInv == \A k \in 0 .. K!Sub(e, w) - 1 : buf[Place(w, k, SIZE)] \notin K!Ends

StallInv ==
  /\ \A p \in Reader : reader[p].pc = "asleep" => r = w /\ ~ reader[p].killed
  /\ K!Sub(e, r) = SIZE => r # w
  /\ \A p \in Writer : writer[p].asleep => K!TxFull
  /\ txw # txr => busy \/ irq \/ intr # "off"

ConsoleInv == ConsoleType /\ RingInv /\ LineInv /\ StallInv

\* Its indices, as the lemmas on rings speak of them.
LEMMA ConsoleFacts ==
  /\ WORD \in Nat \ {0} /\ SIZE \in Nat \ {0} /\ SIZE < WORD /\ Divides(SIZE, WORD)
  /\ \A a, b : K!Sub(b, a) = InUse(a, b, WORD)
  /\ \A a : K!Add(a, 1) = After(a, WORD)
  BY ConsoleAssumption DEF Divides, K!Sub, InUse, K!Add, After

LEMMA IndexFacts ==
  ASSUME NEW a \in Index, NEW b \in Index
  PROVE  /\ K!Add(a, 1) \in Index
         /\ K!Sub(b, a) \in Nat /\ K!Sub(b, a) < WORD /\ (K!Sub(b, a) = 0 <=> a = b)
         /\ K!Sub(b, a) + 1 < WORD => K!Sub(K!Add(b, 1), a) = K!Sub(b, a) + 1
         /\ a # b => K!Sub(b, K!Add(a, 1)) = K!Sub(b, a) - 1
  <1>1. K!Add(a, 1) \in Index
    BY ConsoleFacts, Incremented DEF Index
  <1>2. K!Sub(b, a) \in 0 .. WORD - 1 /\ (K!Sub(b, a) = 0 <=> a = b)
    <2>1. WORD \in Nat \ {0} /\ a \in 0 .. WORD - 1 /\ b \in 0 .. WORD - 1
      BY ConsoleFacts DEF Index
    <2>2. InUse(a, b, WORD) \in 0 .. WORD - 1 /\ (b = a <=> InUse(a, b, WORD) = 0)
      BY <2>1, Distance
    <2>3. QED
      BY <2>2, ConsoleFacts
  <1>3. K!Sub(b, a) + 1 < WORD => K!Sub(K!Add(b, 1), a) = K!Sub(b, a) + 1
    BY ConsoleFacts, OneMore DEF Index
  <1>4. a # b => K!Sub(b, K!Add(a, 1)) = K!Sub(b, a) - 1
    BY ConsoleFacts, OneLess DEF Index
  <1>5. QED
    BY <1>1, <1>2, <1>3, <1>4, ConsoleFacts

\* n entries fewer: what is erased.
LEMMA Back ==
  ASSUME NEW a \in Index, NEW b \in Index, NEW n \in Nat, n <= K!Sub(b, a)
  PROVE  K!Sub(b, n) \in Index /\ K!Sub(K!Sub(b, n), a) = K!Sub(b, a) - n
  <1>1. WORD \in Nat \ {0} /\ a \in Int /\ b \in Int /\ n \in Int
        /\ 0 <= a /\ a < WORD /\ 0 <= b /\ b < WORD
    BY ConsoleFacts DEF Index
  <1>2. /\ K!Sub(b, a) = IF a <= b THEN b - a ELSE b - a + WORD
        /\ K!Sub(b, a) < WORD
    <2>1. K!Sub(b, a) = IF a <= b THEN b - a ELSE b - a + WORD
      BY ConsoleFacts, Distance DEF Index
    <2>2. QED
      BY <2>1, IndexFacts
  <1> DEFINE x == b - n
             y == K!Sub(b, n)
  <1>3. y = Rem(x, WORD) /\ x \in Int
    BY <1>1 DEF K!Sub, Rem
  <1>4. x < WORD /\ 0 - WORD <= x
    BY <1>1, <1>2
  <1>5. y = IF 0 <= x THEN x ELSE x + WORD
    <2> HIDE DEF x, y
    <2>1. CASE 0 <= x
      BY <1>1, <1>3, <1>4, <2>1, Below
    <2>2. CASE x < 0
      BY <1>1, <1>3, <1>4, <2>2, Negative
    <2>3. QED
      BY <1>3, <2>1, <2>2
  <1> HIDE DEF y
  <1>6. y \in Index
    BY <1>1, <1>4, <1>5 DEF Index
  <1>7. K!Sub(y, a) = IF a <= y THEN y - a ELSE y - a + WORD
    BY <1>6, ConsoleFacts, Distance DEF Index
  <1>8. K!Sub(y, a) = K!Sub(b, a) - n
    <2>1. y \in Int
      BY <1>6 DEF Index
    <2>2. QED
      BY <1>1, <1>2, <1>5, <1>7, <2>1
  <1>9. QED
    BY <1>6, <1>8 DEF y

\* The place of an entry, seen from another index.
LEMMA SamePlace ==
  ASSUME NEW a \in Index, NEW b \in Index, NEW k \in Nat
  PROVE  Place(b, k, SIZE) = Place(a, K!Sub(b, a) + k, SIZE)
  <1>1. WORD \in Nat \ {0} /\ a \in Nat /\ b \in Nat
    BY ConsoleFacts DEF Index
  <1>2. K!Sub(b, a) = IF a <= b THEN b - a ELSE b - a + WORD
    BY ConsoleFacts, Distance DEF Index
  <1>3. CASE a <= b
    <2>1. a + (K!Sub(b, a) + k) = b + k
      BY <1>1, <1>2, <1>3
    <2>2. QED
      BY <2>1 DEF Place
  <1>4. CASE ~ (a <= b)
    <2> DEFINE x == b + k
    <2>1. a + (K!Sub(b, a) + k) = x + WORD /\ x \in Nat
      BY <1>1, <1>2, <1>4
    <2>2. Rem(x + WORD, SIZE) = Rem(x, SIZE)
      <3> HIDE DEF x
      <3>1. QED
        BY <2>1, ConsoleFacts, Around
    <2>3. QED
      BY <2>1, <2>2 DEF Place, Rem
  <1>5. QED
    BY <1>3, <1>4

\* The index of an entry need not be reduced before its place is computed.
LEMMA PlaceOf ==
  ASSUME NEW a \in Index, NEW k \in Nat, k < WORD
  PROVE  K!Add(a, k) % SIZE = Place(a, k, SIZE)
  <1> DEFINE x == a + k
  <1>1. x \in Nat /\ WORD \in Nat \ {0} /\ SIZE \in Nat \ {0} /\ x - WORD < WORD
    BY ConsoleFacts DEF Index
  <1>2. K!Add(a, k) = Rem(x, WORD) /\ Place(a, k, SIZE) = Rem(x, SIZE)
    BY DEF K!Add, Rem, Place
  <1> HIDE DEF x
  <1>3. CASE x < WORD
    <2>1. K!Add(a, k) = x
      BY <1>1, <1>2, <1>3, Below
    <2>2. QED
      BY <1>2, <2>1 DEF Rem
  <1>4. CASE ~ (x < WORD)
    <2> DEFINE y == x - WORD
    <2>1. K!Add(a, k) = y /\ y \in Nat /\ x = y + WORD
      BY <1>1, <1>2, <1>4, Above
    <2> HIDE DEF y
    <2>2. Rem(y + WORD, SIZE) = Rem(y, SIZE)
      BY <2>1, ConsoleFacts, Around
    <2>3. QED
      BY <1>2, <2>1, <2>2 DEF Rem
  <1>5. QED
    BY <1>3, <1>4

-----------------------------------------------------------------------------
(* What is in the ring, as a sequence.                                     *)

Entries(f, a, b) == [i \in 1 .. K!Sub(b, a) |-> f[Place(a, i - 1, SIZE)]]
Byte == K!Char \cup {K!NoChar}

LEMMA SliceIs ==
  ASSUME NEW f, NEW a \in Index, NEW b \in Index
  PROVE  [i \in 1 .. K!Sub(b, a) |-> f[K!Add(a, i - 1) % SIZE]] = Entries(f, a, b)
  <1>1. ASSUME NEW i \in 1 .. K!Sub(b, a)
        PROVE  K!Add(a, i - 1) % SIZE = Place(a, i - 1, SIZE)
    <2>1. K!Sub(b, a) \in Nat /\ K!Sub(b, a) < WORD /\ WORD \in Nat
      BY IndexFacts, ConsoleFacts
    <2> DEFINE k == i - 1
    <2>2. k \in Nat /\ k < WORD
      BY <2>1
    <2> HIDE DEF k
    <2>3. K!Add(a, k) % SIZE = Place(a, k, SIZE)
      BY <2>2, PlaceOf
    <2>4. QED
      BY <2>3 DEF k
  <1>2. QED
    BY <1>1 DEF Entries

LEMMA EntriesType ==
  ASSUME NEW f \in [0 .. SIZE - 1 -> Byte], NEW a \in Index, NEW b \in Index
  PROVE  /\ Entries(f, a, b) \in Seq(Byte) /\ Len(Entries(f, a, b)) = K!Sub(b, a)
         /\ \A i \in 1 .. K!Sub(b, a) : Entries(f, a, b)[i] = f[Place(a, i - 1, SIZE)]
         /\ a = b => Entries(f, a, b) = <<>>
  <1>1. K!Sub(b, a) \in Nat
    BY IndexFacts
  <1>2. ASSUME NEW i \in 1 .. K!Sub(b, a) PROVE Place(a, i - 1, SIZE) \in 0 .. SIZE - 1
    <2> DEFINE k == i - 1
    <2>1. k \in Nat /\ a \in Nat
      BY <1>1 DEF Index
    <2> HIDE DEF k
    <2>2. Place(a, k, SIZE) \in 0 .. SIZE - 1
      BY <2>1, ConsoleFacts, PlaceType
    <2>3. QED
      BY <2>2 DEF k
  <1>3. Entries(f, a, b) \in [1 .. K!Sub(b, a) -> Byte]
    BY <1>2 DEF Entries
  <1>4. Entries(f, a, b) \in Seq(Byte) /\ Len(Entries(f, a, b)) = K!Sub(b, a)
    BY <1>1, <1>3
  <1>5. a = b => Entries(f, a, b) = <<>>
    <2>1. a = b => K!Sub(b, a) = 0
      BY IndexFacts
    <2>2. QED
      BY <1>4, <2>1
  <1>6. QED
    BY <1>4, <1>5 DEF Entries

\* The oldest is taken.
LEMMA EntriesTaken ==
  ASSUME NEW f \in [0 .. SIZE - 1 -> Byte], NEW a \in Index, NEW b \in Index, a # b
  PROVE  Entries(f, a, b) # <<>> /\ Entries(f, K!Add(a, 1), b) = Tail(Entries(f, a, b))
  <1> DEFINE d == K!Sub(b, a)
             t == K!Add(a, 1)
             s == Entries(f, a, b)
  <1>1. t \in Index /\ d \in Nat /\ d # 0 /\ K!Sub(b, t) = d - 1
    BY IndexFacts
  <1>2. /\ s \in Seq(Byte) /\ Len(s) = d
        /\ \A i \in 1 .. d : s[i] = f[Place(a, i - 1, SIZE)]
    BY EntriesType
  <1>3. /\ Entries(f, t, b) \in Seq(Byte) /\ Len(Entries(f, t, b)) = d - 1
        /\ \A i \in 1 .. d - 1 : Entries(f, t, b)[i] = f[Place(t, i - 1, SIZE)]
    <2> HIDE DEF d, t
    <2>1. /\ Entries(f, t, b) \in Seq(Byte) /\ Len(Entries(f, t, b)) = K!Sub(b, t)
          /\ \A i \in 1 .. K!Sub(b, t) : Entries(f, t, b)[i] = f[Place(t, i - 1, SIZE)]
      BY <1>1, EntriesType
    <2>2. QED
      BY <1>1, <2>1
  <1>4. ASSUME NEW i \in 1 .. d - 1 PROVE f[Place(t, i - 1, SIZE)] = s[i + 1]
    <2>1. Place(After(a, WORD), i - 1, SIZE) = Place(a, (i - 1) + 1, SIZE)
      BY <1>1, ConsoleFacts, Onwards DEF Index
    <2>2. i + 1 \in 1 .. d /\ (i + 1) - 1 = (i - 1) + 1
      BY <1>1
    <2>3. QED
      BY <1>2, <2>1, <2>2, ConsoleFacts
  <1> HIDE DEF d, t, s
  <1>5. s # <<>>
    BY <1>1, <1>2
  <1>6. /\ Tail(s) \in Seq(Byte) /\ Len(Tail(s)) = d - 1
        /\ \A i \in 1 .. d - 1 : Tail(s)[i] = s[i + 1]
    BY <1>2, <1>5, HeadTailProperties
  <1>7. \A i \in 1 .. d - 1 : Entries(f, t, b)[i] = Tail(s)[i]
    BY <1>3, <1>4, <1>6
  <1>8. Entries(f, t, b) = Tail(s)
    BY <1>3, <1>6, <1>7, SeqEqual
  <1>9. QED
    BY <1>5, <1>8 DEF s, t

\* Two parts of the ring, one behind the other.
LEMMA EntriesJoined ==
  ASSUME NEW f \in [0 .. SIZE - 1 -> Byte], NEW a \in Index, NEW b \in Index, NEW c \in Index,
         K!Sub(b, a) + K!Sub(c, b) = K!Sub(c, a)
  PROVE  Entries(f, a, c) = Entries(f, a, b) \o Entries(f, b, c)
  <1> DEFINE s == Entries(f, a, b)
             t == Entries(f, b, c)
             m == K!Sub(b, a)
             n == K!Sub(c, b)
  <1>1. /\ s \in Seq(Byte) /\ Len(s) = m /\ t \in Seq(Byte) /\ Len(t) = n
        /\ \A i \in 1 .. m : s[i] = f[Place(a, i - 1, SIZE)]
        /\ \A i \in 1 .. n : t[i] = f[Place(b, i - 1, SIZE)]
    <2>1. /\ s \in Seq(Byte) /\ Len(s) = m
          /\ \A i \in 1 .. m : s[i] = f[Place(a, i - 1, SIZE)]
      BY EntriesType
    <2>2. /\ t \in Seq(Byte) /\ Len(t) = n
          /\ \A i \in 1 .. n : t[i] = f[Place(b, i - 1, SIZE)]
      BY EntriesType
    <2>3. QED
      BY <2>1, <2>2
  <1>2. m \in Nat /\ n \in Nat
    BY IndexFacts
  <1>3. /\ Entries(f, a, c) \in Seq(Byte) /\ Len(Entries(f, a, c)) = m + n
        /\ \A i \in 1 .. m + n : Entries(f, a, c)[i] = f[Place(a, i - 1, SIZE)]
    <2>1. /\ Entries(f, a, c) \in Seq(Byte) /\ Len(Entries(f, a, c)) = K!Sub(c, a)
          /\ \A i \in 1 .. K!Sub(c, a) : Entries(f, a, c)[i] = f[Place(a, i - 1, SIZE)]
      BY EntriesType
    <2>2. K!Sub(c, a) = m + n
      OBVIOUS
    <2> HIDE DEF m, n
    <2>3. QED
      BY <2>1, <2>2
  <1>4. ASSUME NEW i \in 1 .. m + n
        PROVE  f[Place(a, i - 1, SIZE)] = IF i <= m THEN s[i] ELSE t[i - m]
    <2>1. CASE i <= m
      BY <1>1, <1>2, <2>1
    <2>2. CASE ~ (i <= m)
      <3> DEFINE k == i - m - 1
      <3>1. k \in Nat /\ i - m \in 1 .. n /\ (i - m) - 1 = k /\ m + k = i - 1
        BY <1>2, <2>2
      <3>2. Place(b, k, SIZE) = Place(a, m + k, SIZE)
        <4> HIDE DEF k
        <4>1. QED
          BY <3>1, SamePlace
      <3>3. t[i - m] = f[Place(b, k, SIZE)]
        BY <1>1, <3>1
      <3>4. QED
        BY <2>2, <3>1, <3>2, <3>3
    <2>3. QED
      BY <2>1, <2>2
  <1> HIDE DEF s, t, m, n
  <1>5. /\ s \o t \in Seq(Byte) /\ Len(s \o t) = m + n
        /\ \A i \in 1 .. m + n : (s \o t)[i] = IF i <= m THEN s[i] ELSE t[i - m]
    BY <1>1, ConcatProperties
  <1>6. \A i \in 1 .. m + n : Entries(f, a, c)[i] = (s \o t)[i]
    BY <1>3, <1>4, <1>5
  <1>7. Entries(f, a, c) = s \o t
    BY <1>3, <1>5, <1>6, SeqEqual
  <1>8. QED
    BY <1>7 DEF s, t

\* A character is stored at b, behind what there is from a on.
LEMMA EntriesKept ==
  ASSUME NEW f \in [0 .. SIZE - 1 -> Byte], NEW a \in Index, NEW b \in Index, NEW c \in Index,
         K!Sub(c, a) <= K!Sub(b, a), K!Sub(b, a) < SIZE, NEW x
  PROVE  /\ b % SIZE \in 0 .. SIZE - 1
         /\ Entries([f EXCEPT ![b % SIZE] = x], a, c) = Entries(f, a, c)
  <1>1. b % SIZE = Place(a, K!Sub(b, a), SIZE)
    BY ConsoleFacts, Behind DEF Index
  <1>2. K!Sub(b, a) \in Nat /\ K!Sub(c, a) \in Nat /\ SIZE \in Nat \ {0} /\ a \in Nat
    BY IndexFacts, ConsoleFacts DEF Index
  <1>3. b % SIZE \in 0 .. SIZE - 1
    BY <1>1, <1>2, PlaceType
  <1>4. ASSUME NEW i \in 1 .. K!Sub(c, a)
        PROVE  [f EXCEPT ![b % SIZE] = x][Place(a, i - 1, SIZE)] = f[Place(a, i - 1, SIZE)]
    <2> DEFINE k == i - 1
    <2>1. k \in 0 .. SIZE - 1 /\ K!Sub(b, a) \in 0 .. SIZE - 1 /\ k # K!Sub(b, a) /\ k \in Nat
      BY <1>2
    <2> HIDE DEF k
    <2>2. Place(a, k, SIZE) # b % SIZE /\ Place(a, k, SIZE) \in 0 .. SIZE - 1
      BY <1>1, <1>2, <2>1, Distinct, PlaceType
    <2>3. [f EXCEPT ![b % SIZE] = x][Place(a, k, SIZE)] = f[Place(a, k, SIZE)]
      BY <2>2
    <2>4. QED
      BY <2>3 DEF k
  <1>5. QED
    BY <1>3, <1>4 DEF Entries

LEMMA EntriesStored ==
  ASSUME NEW f \in [0 .. SIZE - 1 -> Byte], NEW a \in Index, NEW b \in Index,
         K!Sub(b, a) < SIZE, NEW x \in Byte
  PROVE  Entries([f EXCEPT ![b % SIZE] = x], a, K!Add(b, 1)) = Append(Entries(f, a, b), x)
  <1> DEFINE g == [f EXCEPT ![b % SIZE] = x]
             d == K!Sub(b, a)
             s == Entries(f, a, b)
  <1>1. d \in Nat /\ d + 1 < WORD /\ K!Sub(K!Add(b, 1), a) = d + 1
    <2>1. d \in Nat /\ SIZE \in Nat /\ WORD \in Nat /\ SIZE < WORD /\ d < SIZE
      BY IndexFacts, ConsoleFacts
    <2>2. d + 1 < WORD
      BY <2>1
    <2>3. QED
      BY <2>1, <2>2, IndexFacts
  <1>2. /\ b % SIZE \in 0 .. SIZE - 1 /\ Entries(g, a, b) = s
    <2>1. K!Sub(b, a) <= K!Sub(b, a)
      BY <1>1
    <2>2. \A y : /\ b % SIZE \in 0 .. SIZE - 1
                 /\ Entries([f EXCEPT ![b % SIZE] = y], a, b) = s
      <3> HIDE DEF g
      <3>1. QED
        BY <2>1, EntriesKept
    <2>3. QED
      BY <2>2
  <1>3. b % SIZE = Place(a, d, SIZE)
    BY ConsoleFacts, Behind DEF Index
  <1>4. /\ s \in Seq(Byte) /\ Len(s) = d
    BY EntriesType
  <1>5. g \in [0 .. SIZE - 1 -> Byte]
    BY <1>2
  <1>6. \A i \in 1 .. d : s[i] = g[Place(a, i - 1, SIZE)]
    <2> HIDE DEF g
    <2>1. \A i \in 1 .. K!Sub(b, a) : Entries(g, a, b)[i] = g[Place(a, i - 1, SIZE)]
      BY <1>5, EntriesType
    <2>2. QED
      BY <1>2, <2>1
  <1>7. g[Place(a, (d + 1) - 1, SIZE)] = x
    <2>1. (d + 1) - 1 = d
      BY <1>1
    <2>2. g[b % SIZE] = x
      BY <1>2
    <2>3. QED
      BY <1>3, <2>1, <2>2
  <1> DEFINE u == K!Add(b, 1)
  <1> HIDE DEF g
  <1>8. /\ Entries(g, a, u) \in Seq(Byte) /\ Len(Entries(g, a, u)) = d + 1
        /\ \A i \in 1 .. d + 1 : Entries(g, a, u)[i] = g[Place(a, i - 1, SIZE)]
    <2>1. u \in Index
      BY IndexFacts
    <2> HIDE DEF u
    <2>2. K!Sub(u, a) = d + 1
      BY <1>1 DEF u
    <2>3. /\ Entries(g, a, u) \in Seq(Byte) /\ Len(Entries(g, a, u)) = K!Sub(u, a)
          /\ \A i \in 1 .. K!Sub(u, a) : Entries(g, a, u)[i] = g[Place(a, i - 1, SIZE)]
      <3> HIDE DEF d
      <3>1. QED
        BY <1>5, <2>1, EntriesType
    <2>4. QED
      BY <2>2, <2>3
  <1> HIDE DEF s, d, u
  <1>9. /\ Append(s, x) \in Seq(Byte) /\ Len(Append(s, x)) = d + 1
        /\ \A i \in 1 .. d : Append(s, x)[i] = s[i]
        /\ Append(s, x)[d + 1] = x
    BY <1>1, <1>4
  <1>10. ASSUME NEW i \in 1 .. d + 1 PROVE Entries(g, a, u)[i] = Append(s, x)[i]
    <2>1. CASE i = d + 1
      BY <1>7, <1>8, <1>9, <2>1
    <2>2. CASE i # d + 1
      <3>1. i \in 1 .. d
        BY <1>1, <2>2
      <3>2. QED
        BY <1>6, <1>8, <1>9, <3>1
    <2>3. QED
      BY <2>1, <2>2
  <1>11. Entries(g, a, u) = Append(s, x)
    BY <1>8, <1>9, <1>10, SeqEqual
  <1>12. QED
    BY <1>11 DEF s, g, u

\* n characters are erased.
LEMMA EntriesErased ==
  ASSUME NEW f \in [0 .. SIZE - 1 -> Byte], NEW a \in Index, NEW b \in Index,
         NEW n \in Nat, n <= K!Sub(b, a)
  PROVE  Entries(f, a, K!Sub(b, n)) = SubSeq(Entries(f, a, b), 1, K!Sub(b, a) - n)
  <1> DEFINE d == K!Sub(b, a)
             s == Entries(f, a, b)
  <1> DEFINE u == K!Sub(b, n)
  <1>1. d \in Nat /\ u \in Index /\ K!Sub(u, a) = d - n
    <2>1. d \in Nat
      BY IndexFacts
    <2>2. QED
      BY <2>1, Back
  <1>2. /\ s \in Seq(Byte) /\ Len(s) = d
        /\ \A i \in 1 .. d : s[i] = f[Place(a, i - 1, SIZE)]
    BY EntriesType
  <1>3. /\ Entries(f, a, u) \in Seq(Byte) /\ Len(Entries(f, a, u)) = d - n
        /\ \A i \in 1 .. d - n : Entries(f, a, u)[i] = f[Place(a, i - 1, SIZE)]
    <2> HIDE DEF d, u
    <2>1. /\ Entries(f, a, u) \in Seq(Byte) /\ Len(Entries(f, a, u)) = K!Sub(u, a)
          /\ \A i \in 1 .. K!Sub(u, a) : Entries(f, a, u)[i] = f[Place(a, i - 1, SIZE)]
      BY <1>1, EntriesType
    <2>2. QED
      BY <1>1, <2>1
  <1>0. n <= d
    OBVIOUS
  <1> HIDE DEF d, s, u
  <1>4. /\ SubSeq(s, 1, d - n) \in Seq(Byte) /\ Len(SubSeq(s, 1, d - n)) = d - n
        /\ \A i \in 1 .. d - n : SubSeq(s, 1, d - n)[i] = s[i]
    <2> DEFINE m == d - n
    <2>1. m \in Nat /\ m <= d /\ \A i \in 1 .. m : s[i] \in Byte /\ 1 + i - 1 = i
      BY <1>1, <1>2, <1>0
    <2> HIDE DEF m
    <2>2. /\ SubSeq(s, 1, m) \in Seq(Byte) /\ Len(SubSeq(s, 1, m)) = IF 1 <= m THEN m - 1 + 1 ELSE 0
          /\ \A i \in 1 .. m - 1 + 1 : SubSeq(s, 1, m)[i] = s[1 + i - 1]
      BY <2>1, SubSeqProperties
    <2>3. (IF 1 <= m THEN m - 1 + 1 ELSE 0) = m /\ m - 1 + 1 = m
      BY <2>1
    <2>4. QED
      BY <2>1, <2>2, <2>3 DEF m
  <1>5. ASSUME NEW i \in 1 .. d - n PROVE Entries(f, a, u)[i] = SubSeq(s, 1, d - n)[i]
    <2>1. i \in 1 .. d
      BY <1>1
    <2>2. QED
      BY <1>2, <1>3, <1>4, <2>1
  <1>6. Entries(f, a, u) = SubSeq(s, 1, d - n)
    BY <1>3, <1>4, <1>5, SeqEqual
  <1>7. QED
    BY <1>6 DEF s, d, u

-----------------------------------------------------------------------------
(* The steps.                                                              *)

\* What a step does to the Tty.
Refines == [K!T!Next]_<<K!Slice(r, w), K!Slice(w, e)>>

LEMMA SliceNow ==
  ASSUME ConsoleType
  PROVE  K!Slice(r, w) = Entries(buf, r, w) /\ K!Slice(w, e) = Entries(buf, w, e)
  BY SliceIs DEF ConsoleType, K!Slice

LEMMA SliceNext ==
  ASSUME ConsoleType'
  PROVE  K!Slice(r, w)' = Entries(buf', r', w') /\ K!Slice(w, e)' = Entries(buf', w', e')
  <1>1. K!Slice(r, w)' = [i \in 1 .. K!Sub(w', r') |-> buf'[K!Add(r', i - 1) % SIZE]]
    BY DEF K!Slice, K!Sub, K!Add
  <1>2. K!Slice(w, e)' = [i \in 1 .. K!Sub(e', w') |-> buf'[K!Add(w', i - 1) % SIZE]]
    BY DEF K!Slice, K!Sub, K!Add
  <1>3. r' \in Index /\ w' \in Index /\ e' \in Index
    BY DEF ConsoleType
  <1>4. QED
    BY <1>1, <1>2, <1>3, SliceIs

\* Steps that leave the input alone.
LEMMA Steady ==
  ASSUME ConsoleInv, UNCHANGED <<r, w, e, buf>>,
         reader' \in [Reader -> [pc : {"user", "loop", "asleep"}, got : Nat, n : Nat, killed : BOOLEAN]],
         writer' \in [Writer -> [left : Nat, asleep : BOOLEAN]],
         \A p \in Reader : reader'[p].pc = "asleep" => r = w /\ ~ reader'[p].killed,
         (\A p \in Writer : writer[p].asleep => K!TxFull)',
         txw' # txr' => busy' \/ irq' \/ intr' # "off"
  PROVE  ConsoleInv' /\ Refines
  <1>0. K!Sub(w, r)' = K!Sub(w, r) /\ K!Sub(e, w)' = K!Sub(e, w) /\ K!Sub(e, r)' = K!Sub(e, r)
    BY DEF K!Sub
  <1>1. ConsoleType' /\ RingInv' /\ LineInv'
    <2>1. ConsoleType'
      BY DEF ConsoleInv, ConsoleType
    <2>2. RingInv'
      BY <1>0 DEF ConsoleInv, RingInv
    <2>3. LineInv'
      BY <1>0 DEF ConsoleInv, LineInv, Place
    <2>4. QED
      BY <2>1, <2>2, <2>3
  <1>2. StallInv'
    BY <1>0 DEF ConsoleInv, StallInv
  <1>3. Refines
    BY DEF Refines, K!Slice, K!Sub, K!Add
  <1>4. QED
    BY <1>1, <1>2, <1>3 DEF ConsoleInv

LEMMA ReaderStep ==
  ASSUME ConsoleInv, NEW p \in Reader, K!Read(p) \/ K!ReadKilled(p) \/ K!ReadSleep(p) \/ K!Kill(p)
  PROVE  ConsoleInv' /\ Refines
  <1> DEFINE Rec == [pc : {"user", "loop", "asleep"}, got : Nat, n : Nat, killed : BOOLEAN]
  <1>1. UNCHANGED <<r, w, e, buf, writer, intr, irq, busy, txw, txr>>
    BY DEF K!Read, K!ReadKilled, K!ReadSleep, K!Kill
  <1>2. reader \in [Reader -> Rec]
    BY DEF ConsoleInv, ConsoleType
  <1>3. K!Idle \in Rec /\ K!Idle.pc = "user"
    BY DEF K!Idle
  <1>4. \E x \in Rec : reader' = [reader EXCEPT ![p] = x] /\ (x.pc = "asleep" => r = w /\ ~ x.killed)
    <2>1. CASE K!Read(p)
      <3>1. PICK n \in Reads : reader' = [reader EXCEPT ![p] = [@ EXCEPT !.pc = "loop", !.n = n, !.got = 0]]
        BY <2>1 DEF K!Read
      <3> DEFINE x == [reader[p] EXCEPT !.pc = "loop", !.n = n, !.got = 0]
      <3>2. n \in Nat
        BY ConsoleAssumption
      <3>3. x \in Rec /\ x.pc = "loop"
        BY <1>2, <3>2
      <3>4. reader' = [reader EXCEPT ![p] = x]
        BY <1>2, <3>1
      <3>5. QED
        BY <3>3, <3>4
    <2>2. CASE K!ReadKilled(p)
      BY <1>3, <2>2 DEF K!ReadKilled, K!Leave
    <2>3. CASE K!ReadSleep(p)
      <3> DEFINE x == [reader[p] EXCEPT !.pc = "asleep"]
      <3>1. x \in Rec /\ x.killed = reader[p].killed
        BY <1>2
      <3>2. reader' = [reader EXCEPT ![p] = x] /\ r = w /\ ~ reader[p].killed
        BY <2>3 DEF K!ReadSleep, K!Leave
      <3>3. QED
        BY <3>1, <3>2
    <2>4. CASE K!Kill(p)
      <3> DEFINE x == [reader[p] EXCEPT !.killed = TRUE, !.pc = "loop"]
      <3>1. x \in Rec /\ x.pc = "loop"
        BY <1>2
      <3>2. reader' = [reader EXCEPT ![p] = x]
        BY <1>2, <2>4 DEF K!Kill
      <3>3. QED
        BY <3>1, <3>2
    <2>5. QED
      BY <2>1, <2>2, <2>3, <2>4
  <1>5. PICK x \in Rec : /\ reader' = [reader EXCEPT ![p] = x]
                         /\ x.pc = "asleep" => r = w /\ ~ x.killed
    BY <1>4
  <1>6. reader' \in [Reader -> Rec]
    BY <1>2, <1>5
  <1>7. \A q \in Reader : reader'[q].pc = "asleep" => r = w /\ ~ reader'[q].killed
    BY <1>2, <1>5 DEF ConsoleInv, StallInv
  <1>8. /\ (\A q \in Writer : writer[q].asleep => K!TxFull)'
        /\ txw' # txr' => busy' \/ irq' \/ intr' # "off"
    BY <1>1 DEF ConsoleInv, StallInv, K!TxFull, K!Add
  <1>9. writer' \in [Writer -> [left : Nat, asleep : BOOLEAN]]
    BY <1>1 DEF ConsoleInv, ConsoleType
  <1>10. QED
    BY <1>1, <1>6, <1>7, <1>8, <1>9, Steady

\* Steps of the handler and of the UART that move no character of either buffer.
LEMMA HandlerStep ==
  ASSUME ConsoleInv, K!Uartintr \/ K!Echo \/ K!EchoDone \/ K!Sent \/ K!Typed
  PROVE  ConsoleInv' /\ Refines
  <1>1. UNCHANGED <<r, w, e, buf, reader, writer, txw, txr>>
    BY DEF K!Uartintr, K!Echo, K!EchoDone, K!Sent, K!Typed
  <1>2. busy \/ irq \/ intr # "off" => busy' \/ irq' \/ intr' # "off"
    BY DEF K!Uartintr, K!Echo, K!EchoDone, K!Sent, K!Typed
  <1>3. /\ (\A q \in Writer : writer[q].asleep => K!TxFull)'
        /\ txw' # txr' => busy' \/ irq' \/ intr' # "off"
        /\ \A p \in Reader : reader'[p].pc = "asleep" => r = w /\ ~ reader'[p].killed
    BY <1>1, <1>2 DEF ConsoleInv, StallInv, K!TxFull, K!Add
  <1>4. /\ reader' \in [Reader -> [pc : {"user", "loop", "asleep"}, got : Nat, n : Nat, killed : BOOLEAN]]
        /\ writer' \in [Writer -> [left : Nat, asleep : BOOLEAN]]
    BY <1>1 DEF ConsoleInv, ConsoleType
  <1>5. QED
    BY <1>1, <1>3, <1>4, Steady

\* uartstart() wakes the writers whenever it makes room.
LEMMA UartstartStep ==
  ASSUME ConsoleInv, UNCHANGED <<r, w, e, buf, reader>>,
         NEW wr \in [Writer -> [left : Nat, asleep : BOOLEAN]],
         \A q \in Writer : wr[q].asleep => writer[q].asleep,
         txw' = txw \/ ~ K!TxFull, K!Uartstart(txw', wr)
  PROVE  ConsoleInv' /\ Refines
  <1>1. /\ txr' = IF K!Sends(txw') THEN K!Add(txr, 1) ELSE txr
        /\ busy' = (busy \/ K!Sends(txw'))
        /\ writer' = IF K!Sends(txw') THEN K!Woken(wr) ELSE wr
    BY DEF K!Uartstart
  <1>2. writer' \in [Writer -> [left : Nat, asleep : BOOLEAN]]
    <2>1. K!Woken(wr) \in [Writer -> [left : Nat, asleep : BOOLEAN]]
      BY DEF K!Woken
    <2>2. QED
      BY <1>1, <2>1
  <1>3. (\A q \in Writer : writer[q].asleep => K!TxFull)'
    <2>1. ASSUME NEW q \in Writer, writer'[q].asleep PROVE K!TxFull'
      <3>1. ~ K!Sends(txw') /\ wr[q].asleep /\ txr' = txr
        <4>1. ~ K!Woken(wr)[q].asleep
          BY DEF K!Woken
        <4>2. QED
          BY <1>1, <2>1, <4>1
      <3>2. K!TxFull
        BY <3>1 DEF ConsoleInv, StallInv
      <3>3. QED
        BY <3>1, <3>2 DEF K!TxFull, K!Add
    <2>2. QED
      BY <2>1
  <1>4. txw' # txr' => busy' \/ irq' \/ intr' # "off"
    BY <1>1 DEF K!Sends
  <1>5. /\ reader' \in [Reader -> [pc : {"user", "loop", "asleep"}, got : Nat, n : Nat, killed : BOOLEAN]]
        /\ \A p \in Reader : reader'[p].pc = "asleep" => r = w /\ ~ reader'[p].killed
    BY DEF ConsoleInv, ConsoleType, StallInv
  <1>6. QED
    BY <1>2, <1>3, <1>4, <1>5, Steady

LEMMA WriterStep ==
  ASSUME ConsoleInv, \/ \E p \in Writer : K!Write(p) \/ K!Uartputc(p) \/ K!UartputcSleep(p)
                     \/ K!UartintrSend
  PROVE  ConsoleInv' /\ Refines
  <1> DEFINE Rec == [left : Nat, asleep : BOOLEAN]
  <1>1. writer \in [Writer -> Rec]
    BY DEF ConsoleInv, ConsoleType
  <1>2. ASSUME NEW p \in Writer, NEW x \in Rec, writer' = [writer EXCEPT ![p] = x],
               x.asleep => writer[p].asleep \/ K!TxFull,
               UNCHANGED <<r, w, e, buf, reader, intr, irq, busy, txw, txr>>
        PROVE  ConsoleInv' /\ Refines
    <2>1. writer' \in [Writer -> Rec]
      BY <1>1, <1>2
    <2>2. \A q \in Writer : writer'[q].asleep => K!TxFull
      BY <1>1, <1>2 DEF ConsoleInv, StallInv
    <2>3. (\A q \in Writer : writer[q].asleep => K!TxFull)'
      BY <1>2, <2>2 DEF K!TxFull, K!Add
    <2>4. /\ reader' \in [Reader -> [pc : {"user", "loop", "asleep"}, got : Nat, n : Nat, killed : BOOLEAN]]
          /\ \A q \in Reader : reader'[q].pc = "asleep" => r = w /\ ~ reader'[q].killed
          /\ txw' # txr' => busy' \/ irq' \/ intr' # "off"
      BY <1>2 DEF ConsoleInv, ConsoleType, StallInv
    <2>5. QED
      BY <1>2, <2>1, <2>3, <2>4, Steady
  <1>3. ASSUME NEW p \in Writer, K!Write(p) PROVE ConsoleInv' /\ Refines
    <2>1. PICK n \in Writes : writer' = [writer EXCEPT ![p].left = n]
      BY <1>3 DEF K!Write
    <2> DEFINE x == [writer[p] EXCEPT !.left = n]
    <2>2. n \in Nat
      BY ConsoleAssumption
    <2>3. x \in Rec /\ x.asleep = writer[p].asleep
      BY <1>1, <2>2
    <2>4. writer' = [writer EXCEPT ![p] = x]
      BY <1>1, <2>1
    <2>5. UNCHANGED <<r, w, e, buf, reader, intr, irq, busy, txw, txr>>
      BY <1>3 DEF K!Write
    <2> HIDE DEF x
    <2>6. QED
      BY <1>2, <2>3, <2>4, <2>5
  <1>4. ASSUME NEW p \in Writer, K!UartputcSleep(p) PROVE ConsoleInv' /\ Refines
    <2> DEFINE x == [writer[p] EXCEPT !.asleep = TRUE]
    <2>1. x \in Rec
      BY <1>1
    <2>2. writer' = [writer EXCEPT ![p] = x] /\ K!TxFull
      BY <1>1, <1>4 DEF K!UartputcSleep
    <2>3. UNCHANGED <<r, w, e, buf, reader, intr, irq, busy, txw, txr>>
      BY <1>4 DEF K!UartputcSleep
    <2> HIDE DEF x
    <2>4. QED
      BY <1>2, <2>1, <2>2, <2>3
  <1>5. ASSUME NEW p \in Writer, K!Uartputc(p) PROVE ConsoleInv' /\ Refines
    <2> DEFINE wr == [writer EXCEPT ![p].left = @ - 1]
    <2>1. /\ writer[p].left > 0 /\ ~ K!TxFull /\ K!Uartstart(txw', wr)
          /\ UNCHANGED <<r, w, e, buf, reader>>
      BY <1>5 DEF K!Uartputc
    <2>2. [writer[p] EXCEPT !.left = @ - 1] \in Rec
      <3>1. writer[p] \in Rec /\ writer[p].left - 1 \in Nat
        BY <1>1, <2>1
      <3>2. QED
        BY <3>1
    <2>3. wr \in [Writer -> Rec] /\ \A q \in Writer : wr[q].asleep => writer[q].asleep
      BY <1>1, <2>2
    <2> HIDE DEF wr
    <2>4. QED
      BY <2>1, <2>3, UartstartStep
  <1>6. ASSUME K!UartintrSend PROVE ConsoleInv' /\ Refines
    <2>1. UNCHANGED <<r, w, e, buf, reader, txw>> /\ K!Uartstart(txw', writer)
      BY <1>6 DEF K!UartintrSend
    <2>2. QED
      BY <1>1, <2>1, UartstartStep
  <1>7. QED
    BY <1>3, <1>4, <1>5, <1>6

\* A step that takes the oldest committed entry.
LEMMA TakeStep ==
  ASSUME ConsoleInv, NEW p \in Reader, K!ReadEof(p) \/ K!ReadByte(p) \/ K!ReadFault(p)
  PROVE  ConsoleInv' /\ Refines
  <1> DEFINE Rec == [pc : {"user", "loop", "asleep"}, got : Nat, n : Nat, killed : BOOLEAN]
  <1>1. r # w /\ UNCHANGED <<w, e, buf, writer, intr, irq, busy, txw, txr>>
    BY DEF K!ReadEof, K!ReadByte, K!ReadFault
  <1>2. reader \in [Reader -> Rec]
    BY DEF ConsoleInv, ConsoleType
  <1>3. r' = r \/ r' = K!Add(r, 1)
    BY DEF K!ReadEof, K!ReadByte, K!ReadFault, K!EofIndex
  <1>4. \E x \in Rec : reader' = [reader EXCEPT ![p] = x] /\ x.pc # "asleep"
    <2>1. K!Idle \in Rec /\ K!Idle.pc = "user"
      BY DEF K!Idle
    <2>2. CASE reader' = [reader EXCEPT ![p] = K!Idle]
      BY <2>1, <2>2
    <2>3. CASE reader' = [reader EXCEPT ![p].got = @ + 1] /\ K!Locks(p)
      <3> DEFINE x == [reader[p] EXCEPT !.got = @ + 1]
      <3>1. x \in Rec /\ x.pc = "loop"
        <4>1. reader[p] \in Rec /\ reader[p].pc = "loop" /\ reader[p].got + 1 \in Nat
          BY <1>2, <2>3 DEF K!Locks
        <4>2. QED
          BY <4>1
      <3>2. reader' = [reader EXCEPT ![p] = x]
        BY <1>2, <2>3
      <3> HIDE DEF x
      <3>3. QED
        BY <3>1, <3>2
    <2>4. QED
      BY <2>2, <2>3 DEF K!ReadEof, K!ReadByte, K!ReadFault, K!Leave
  <1>5. PICK x \in Rec : reader' = [reader EXCEPT ![p] = x] /\ x.pc # "asleep"
    BY <1>4
  <1>6. reader' \in [Reader -> Rec]
    BY <1>2, <1>5
  <1>7. \A q \in Reader : reader'[q].pc # "asleep"
    <2>1. \A q \in Reader : reader[q].pc # "asleep"
      BY <1>1 DEF ConsoleInv, StallInv
    <2>2. QED
      BY <1>2, <1>5, <2>1
  <1>8. /\ (\A q \in Writer : writer[q].asleep => K!TxFull)'
        /\ txw' # txr' => busy' \/ irq' \/ intr' # "off"
        /\ writer' \in [Writer -> [left : Nat, asleep : BOOLEAN]]
    BY <1>1 DEF ConsoleInv, ConsoleType, StallInv, K!TxFull, K!Add
  <1>9. CASE r' = r
    BY <1>1, <1>6, <1>7, <1>8, <1>9, Steady
  <1>10. CASE r' = K!Add(r, 1)
    <2> DEFINE t == K!Add(r, 1)
    <2>1. /\ r \in Index /\ w \in Index /\ e \in Index
          /\ K!Sub(w, r) + K!Sub(e, w) = K!Sub(e, r) /\ K!Sub(e, r) <= SIZE
      BY DEF ConsoleInv, ConsoleType, RingInv
    <2>2. K!Sub(w, r) \in Nat /\ K!Sub(e, w) \in Nat /\ K!Sub(e, r) \in Nat /\ SIZE \in Nat
      BY <2>1, IndexFacts, ConsoleFacts
    <2>3. K!Sub(w, r) # 0 /\ K!Sub(w, t) = K!Sub(w, r) - 1 /\ t \in Index
      BY <1>1, <2>1, IndexFacts
    <2>4. r # e
      <3>1. K!Sub(e, r) # 0
        BY <2>1, <2>2, <2>3
      <3>2. QED
        BY <2>1, <3>1, IndexFacts
    <2>5. K!Sub(e, t) = K!Sub(e, r) - 1
      BY <2>1, <2>4, IndexFacts
    <2> HIDE DEF t
    <2>6. r' = t
      BY <1>10 DEF t
    <2>7. K!Sub(w, r)' = K!Sub(w, t) /\ K!Sub(e, w)' = K!Sub(e, w) /\ K!Sub(e, r)' = K!Sub(e, t)
      BY <1>1, <2>6 DEF K!Sub
    <2>8. ConsoleType'
      BY <1>1, <1>6, <1>8, <2>3, <2>6 DEF ConsoleInv, ConsoleType
    <2>9. RingInv'
      <3>1. K!Sub(w, t) + K!Sub(e, w) = K!Sub(e, t) /\ K!Sub(e, t) <= SIZE
        BY <2>1, <2>2, <2>3, <2>5
      <3>2. QED
        BY <2>7, <3>1 DEF RingInv
    <2>10. LineInv'
      BY <1>1, <2>7 DEF ConsoleInv, LineInv, Place
    <2>11. StallInv'
      <3>1. (K!Sub(e, r))' # SIZE
        BY <2>1, <2>2, <2>3, <2>5, <2>7
      <3>2. QED
        BY <1>7, <1>8, <3>1 DEF StallInv
    <2>12. Refines
      <3>1. K!Slice(r, w) = Entries(buf, r, w) /\ K!Slice(w, e) = Entries(buf, w, e)
        BY SliceNow DEF ConsoleInv
      <3>2. K!Slice(r, w)' = Entries(buf, t, w) /\ K!Slice(w, e)' = Entries(buf, w, e)
        BY <1>1, <2>6, <2>8, SliceNext
      <3>3. Entries(buf, r, w) # <<>> /\ Entries(buf, t, w) = Tail(Entries(buf, r, w))
        BY <1>1, <2>1, EntriesTaken DEF ConsoleInv, ConsoleType, Byte, t
      <3>4. K!T!Take
        BY <3>1, <3>2, <3>3 DEF K!T!Take
      <3>5. QED
        BY <3>4 DEF Refines, K!T!Next
    <2>13. QED
      BY <2>8, <2>9, <2>10, <2>11, <2>12 DEF ConsoleInv
  <1>11. QED
    BY <1>3, <1>9, <1>10

-----------------------------------------------------------------------------
(* consoleintr().                                                          *)

\* ^U finds no newline in the line, and takes all of it.
LEMMA WholeLine ==
  ASSUME ConsoleInv
  PROVE  K!KillLine = K!Sub(e, w)
  <1> DEFINE d == K!Sub(e, w)
  <1>1. w \in Index /\ e \in Index
    BY DEF ConsoleInv, ConsoleType
  <1>2. d \in Nat /\ d < WORD
    BY <1>1, IndexFacts
  <1>3. ASSUME NEW k \in 0 .. d - 1 PROVE ~ K!AtNewline(k)
    <2> DEFINE m == k + 1
               u == K!Sub(e, m)
    <2>1. m \in Nat /\ m <= d /\ d - m \in 0 .. d - 1 /\ k # d
      BY <1>2
    <2>2. u \in Index /\ K!Sub(u, w) = d - m
      <3> HIDE DEF m
      <3>1. QED
        BY <1>1, <2>1, Back
    <2> HIDE DEF m, u, d
    <2>3. u % SIZE = Place(w, d - m, SIZE)
      BY <1>1, <2>2, ConsoleFacts, Behind DEF Index
    <2>4. buf[u % SIZE] # "\n"
      BY <2>1, <2>3 DEF ConsoleInv, LineInv, K!Ends, d
    <2>5. QED
      BY <2>1, <2>4 DEF K!AtNewline, d, m, u
  <1>4. K!AtNewline(d)
    BY DEF K!AtNewline
  <1>5. d \in 0 .. d
    BY <1>2
  <1> DEFINE Stop(n) == K!AtNewline(n) /\ \A k \in 0 .. n - 1 : ~ K!AtNewline(k)
  <1>6. \A n \in 0 .. d : Stop(n) => n = d
    <2>1. \A n \in 0 .. d : n # d => n \in 0 .. d - 1
      BY <1>2
    <2>2. QED
      BY <1>3, <2>1
  <1>7. Stop(d)
    BY <1>3, <1>4
  <1>8. K!KillLine = CHOOSE n \in 0 .. d : Stop(n)
    BY DEF K!KillLine
  <1> HIDE DEF Stop, d
  <1>9. (CHOOSE n \in 0 .. d : Stop(n)) = d
    BY <1>5, <1>6, <1>7
  <1>10. QED
    BY <1>8, <1>9 DEF d

\* What is not input stays.
Aside == UNCHANGED <<r, writer, irq, busy, txw, txr>> /\ intr' = "echo"

\* n characters of the line are erased.
LEMMA ErasedStep ==
  ASSUME ConsoleInv, Aside, NEW n \in Nat, n <= K!Sub(e, w), K!Erased(n)
  PROVE  /\ ConsoleInv'
         /\ K!Slice(r, w)' = K!Slice(r, w)
         /\ K!Slice(w, e)' = SubSeq(K!Slice(w, e), 1, Len(K!Slice(w, e)) - n)
         /\ Len(K!Slice(w, e)) = K!Sub(e, w)
  <1> DEFINE d == K!Sub(e, w)
             u == K!Sub(e, n)
  <1>1. /\ r \in Index /\ w \in Index /\ e \in Index
        /\ buf \in [0 .. SIZE - 1 -> Byte]
        /\ K!Sub(w, r) + K!Sub(e, w) = K!Sub(e, r) /\ K!Sub(e, r) <= SIZE
    BY DEF ConsoleInv, ConsoleType, RingInv, Byte
  <1>2. K!Sub(w, r) \in Nat /\ d \in Nat /\ K!Sub(e, r) \in Nat /\ SIZE \in Nat
    BY <1>1, IndexFacts, ConsoleFacts
  <1>3. /\ UNCHANGED <<r, w, buf, reader, writer, irq, busy, txw, txr>> /\ intr' = "echo"
        /\ e' = u
    BY DEF Aside, K!Erased
  <1>4. u \in Index /\ K!Sub(u, w) = d - n
    BY <1>1, Back
  <1>5. K!Sub(u, r) = K!Sub(e, r) - n
    <2>1. n <= K!Sub(e, r)
      BY <1>1, <1>2
    <2>2. QED
      BY <1>1, <2>1, Back
  <1> HIDE DEF d, u
  <1>6. K!Sub(w, r)' = K!Sub(w, r) /\ K!Sub(e, w)' = K!Sub(u, w) /\ K!Sub(e, r)' = K!Sub(u, r)
    BY <1>3 DEF K!Sub
  <1>7. ConsoleType'
    BY <1>3, <1>4 DEF ConsoleInv, ConsoleType
  <1>8. RingInv'
    <2>1. K!Sub(w, r) + K!Sub(u, w) = K!Sub(u, r) /\ K!Sub(u, r) <= SIZE
      BY <1>1, <1>2, <1>4, <1>5 DEF d
    <2>2. QED
      BY <1>6, <2>1 DEF RingInv
  <1>9. LineInv'
    <2>1. \A k \in 0 .. K!Sub(u, w) - 1 : k \in 0 .. K!Sub(e, w) - 1
      BY <1>2, <1>4 DEF d
    <2>2. QED
      BY <1>3, <1>6, <2>1 DEF ConsoleInv, LineInv, Place
  <1>10. StallInv'
    <2>1. K!Sub(u, r) = SIZE => r # w
      <3>1. K!Sub(u, r) = SIZE => K!Sub(e, r) = SIZE
        BY <1>1, <1>2, <1>5
      <3>2. QED
        BY <3>1 DEF ConsoleInv, StallInv
    <2>2. (\A q \in Writer : writer[q].asleep => K!TxFull)'
      BY <1>3 DEF ConsoleInv, StallInv, K!TxFull, K!Add
    <2>3. \A p \in Reader : reader'[p].pc = "asleep" => r' = w' /\ ~ reader'[p].killed
      BY <1>3 DEF ConsoleInv, StallInv
    <2>4. QED
      BY <1>3, <1>6, <2>1, <2>2, <2>3 DEF StallInv
  <1>11. /\ K!Slice(r, w) = Entries(buf, r, w) /\ K!Slice(w, e) = Entries(buf, w, e)
         /\ K!Slice(r, w)' = Entries(buf, r, w) /\ K!Slice(w, e)' = Entries(buf, w, u)
    <2>1. K!Slice(r, w) = Entries(buf, r, w) /\ K!Slice(w, e) = Entries(buf, w, e)
      BY SliceNow DEF ConsoleInv
    <2>2. K!Slice(r, w)' = Entries(buf', r', w') /\ K!Slice(w, e)' = Entries(buf', w', e')
      BY <1>7, SliceNext
    <2>3. QED
      BY <1>3, <2>1, <2>2
  <1>12. /\ Len(Entries(buf, w, e)) = d
         /\ Entries(buf, w, u) = SubSeq(Entries(buf, w, e), 1, d - n)
    BY <1>1, EntriesType, EntriesErased DEF d, u
  <1>13. ConsoleInv'
    BY <1>7, <1>8, <1>9, <1>10 DEF ConsoleInv
  <1>14. QED
    BY <1>11, <1>12, <1>13 DEF d

\* A character is stored, and with it, at the end of a line or of the room, the line
\* is committed.
LEMMA StoreStep ==
  ASSUME ConsoleInv, Aside, NEW c \in K!Char, K!Room, K!Store(c)
  PROVE  ConsoleInv' /\ K!T!Type
  <1> DEFINE u == K!Add(e, 1)
             g == [buf EXCEPT ![e % SIZE] = c]
             com == Entries(buf, r, w)
             lin == Entries(buf, w, e)
             commits == c \in K!Ends \/ K!Sub(e, r) + 1 = SIZE
  <1>1. /\ r \in Index /\ w \in Index /\ e \in Index
        /\ buf \in [0 .. SIZE - 1 -> Byte] /\ c \in Byte
        /\ K!Sub(w, r) + K!Sub(e, w) = K!Sub(e, r) /\ K!Sub(e, r) < SIZE
    BY DEF ConsoleInv, ConsoleType, RingInv, Byte, K!Room
  <1>2. /\ K!Sub(w, r) \in Nat /\ K!Sub(e, w) \in Nat /\ K!Sub(e, r) \in Nat
        /\ SIZE \in Nat /\ WORD \in Nat /\ SIZE < WORD
    BY <1>1, IndexFacts, ConsoleFacts
  <1>3. K!Sub(e, r) + 1 < WORD /\ K!Sub(e, w) + 1 < WORD /\ K!Sub(e, w) <= K!Sub(e, r)
        /\ K!Sub(w, r) <= K!Sub(e, r) /\ K!Sub(e, w) < SIZE
    BY <1>1, <1>2
  <1>4. u \in Index /\ K!Sub(u, r) = K!Sub(e, r) + 1 /\ K!Sub(u, w) = K!Sub(e, w) + 1
    <2>1. r \in Index /\ w \in Index /\ e \in Index
      BY <1>1
    <2>2. u \in Index /\ K!Sub(u, r) = K!Sub(e, r) + 1
      BY <1>3, <2>1, IndexFacts
    <2>3. K!Sub(u, w) = K!Sub(e, w) + 1
      BY <1>3, <2>1, IndexFacts
    <2>4. QED
      BY <2>2, <2>3
  <1>5. /\ Entries(g, r, w) = com /\ Entries(g, w, e) = lin
        /\ Entries(g, w, u) = Append(lin, c)
        /\ e % SIZE \in 0 .. SIZE - 1
    <2>0. ASSUME NEW y \in Index, NEW z \in Index,
                 K!Sub(z, y) <= K!Sub(e, y), K!Sub(e, y) < SIZE
          PROVE  Entries(g, y, z) = Entries(buf, y, z) /\ e % SIZE \in 0 .. SIZE - 1
      <3>1. e \in Index /\ buf \in [0 .. SIZE - 1 -> Byte]
        BY <1>1
      <3>2. \A x : /\ e % SIZE \in 0 .. SIZE - 1
                   /\ Entries([buf EXCEPT ![e % SIZE] = x], y, z) = Entries(buf, y, z)
        <4> HIDE DEF g
        <4>1. QED
          BY <2>0, <3>1, EntriesKept
      <3>3. QED
        BY <3>2
    <2>1. Entries(g, r, w) = com /\ e % SIZE \in 0 .. SIZE - 1
      <3> HIDE DEF g
      <3>1. QED
        BY <1>1, <1>3, <2>0
    <2>2. Entries(g, w, e) = lin
      <3> HIDE DEF g
      <3>1. K!Sub(e, w) <= K!Sub(e, w)
        BY <1>2
      <3>2. QED
        BY <1>1, <1>3, <2>0, <3>1
    <2>3. Entries(g, w, u) = Append(lin, c)
      BY <1>1, <1>3, EntriesStored
    <2>4. QED
      BY <2>1, <2>2, <2>3
  <1>6. g \in [0 .. SIZE - 1 -> Byte]
    BY <1>1, <1>5
  <1>7. Entries(g, r, u) = com \o Append(lin, c)
    <2>1. K!Sub(w, r) + K!Sub(u, w) = K!Sub(u, r)
      BY <1>1, <1>2, <1>4
    <2> HIDE DEF u, g
    <2>2. Entries(g, r, u) = Entries(g, r, w) \o Entries(g, w, u)
      BY <1>1, <1>4, <1>6, <2>1, EntriesJoined
    <2>3. QED
      BY <1>5, <2>2
  <1>8. /\ com \in Seq(Byte) /\ lin \in Seq(Byte)
        /\ Len(com) = K!Sub(w, r) /\ Len(lin) = K!Sub(e, w)
    BY <1>1, EntriesType
  <1>9. /\ UNCHANGED <<r, writer, irq, busy, txw, txr>> /\ intr' = "echo"
        /\ e' = u /\ buf' = g
    BY DEF Aside, K!Store
  <1>10. /\ commits => w' = u /\ K!Wake
         /\ ~ commits => UNCHANGED <<w, reader>>
    <2>1. K!Sub(e', r) = SIZE <=> K!Sub(e, r) + 1 = SIZE
      BY <1>4, <1>9
    <2>2. IF c \in K!Ends \/ K!Sub(e', r) = SIZE THEN w' = e' /\ K!Wake ELSE UNCHANGED <<w, reader>>
      BY DEF K!Store
    <2>3. QED
      BY <1>9, <2>1, <2>2
  \* The line without its last character is as it was.
  <1>11. \A k \in 0 .. K!Sub(e, w) - 1 : g[Place(w, k, SIZE)] = buf[Place(w, k, SIZE)]
    <2>1. ASSUME NEW k \in 0 .. K!Sub(e, w) - 1 PROVE g[Place(w, k, SIZE)] = buf[Place(w, k, SIZE)]
      <3> DEFINE i == k + 1
      <3>1. i \in 1 .. K!Sub(e, w) /\ i - 1 = k
        BY <1>2
      <3>2. Entries(g, w, e)[i] = g[Place(w, i - 1, SIZE)]
        <4> HIDE DEF g
        <4>1. QED
          BY <1>1, <1>6, <3>1, EntriesType
      <3>3. Entries(buf, w, e)[i] = buf[Place(w, i - 1, SIZE)]
        BY <1>1, <3>1, EntriesType
      <3> HIDE DEF i, g
      <3>4. QED
        BY <1>5, <3>1, <3>2, <3>3
    <2>2. QED
      BY <2>1
  <1>12. g[Place(w, K!Sub(e, w), SIZE)] = c
    <2>1. e % SIZE = Place(w, K!Sub(e, w), SIZE)
      BY <1>1, ConsoleFacts, Behind DEF Index
    <2>2. g[e % SIZE] = c
      BY <1>1, <1>5
    <2>3. QED
      BY <2>1, <2>2
  <1> HIDE DEF u, g, com, lin
  <1>13. (\A q \in Writer : writer[q].asleep => K!TxFull)'
    BY <1>9 DEF ConsoleInv, StallInv, K!TxFull, K!Add
  <1>14. Len(com) + Len(lin) < SIZE /\ (Len(com) + Len(lin) + 1 = SIZE <=> K!Sub(e, r) + 1 = SIZE)
    BY <1>1, <1>2, <1>8
  <1>15. K!Slice(r, w) = com /\ K!Slice(w, e) = lin
    BY SliceNow DEF ConsoleInv, com, lin
  <1>16. CASE commits
    <2>1. w' = u /\ K!Wake
      BY <1>10, <1>16
    <2>2. K!Sub(u, u) = 0
      BY <1>4, IndexFacts
    <2>3. K!Sub(w, r)' = K!Sub(u, r) /\ K!Sub(e, w)' = 0 /\ K!Sub(e, r)' = K!Sub(u, r)
      BY <1>9, <2>1, <2>2 DEF K!Sub
    <2>4. /\ reader' \in [Reader -> [pc : {"user", "loop", "asleep"}, got : Nat, n : Nat, killed : BOOLEAN]]
          /\ \A q \in Reader : reader'[q].pc # "asleep"
      <3>1. reader \in [Reader -> [pc : {"user", "loop", "asleep"}, got : Nat, n : Nat, killed : BOOLEAN]]
        BY DEF ConsoleInv, ConsoleType
      <3>2. QED
        BY <2>1, <3>1 DEF K!Wake
    <2>5. ConsoleType'
      BY <1>4, <1>6, <1>9, <2>1, <2>4 DEF ConsoleInv, ConsoleType, Byte
    <2>6. RingInv'
      BY <1>1, <1>2, <1>4, <2>3 DEF RingInv
    <2>7. LineInv'
      BY <2>3 DEF LineInv
    <2>8. StallInv'
      <3>1. r # u
        <4>1. K!Sub(u, r) # 0
          BY <1>2, <1>4
        <4>2. QED
          BY <1>1, <1>4, <4>1, IndexFacts
      <3>2. QED
        BY <1>9, <1>13, <2>1, <2>4, <3>1 DEF StallInv
    <2>9. K!Slice(r, w)' = com \o Append(lin, c) /\ K!Slice(w, e)' = <<>>
      <3>1. K!Slice(r, w)' = Entries(g, r, u) /\ K!Slice(w, e)' = Entries(g, u, u)
        BY <1>9, <2>1, <2>5, SliceNext
      <3>2. Entries(g, u, u) = <<>>
        BY <1>4, <1>6, EntriesType
      <3>3. QED
        BY <1>7, <3>1, <3>2
    <2>10. K!T!Type
      BY <1>14, <1>15, <1>16, <2>9 DEF K!T!Type, K!T!Room, K!T!Full
    <2>11. QED
      BY <2>5, <2>6, <2>7, <2>8, <2>10 DEF ConsoleInv
  <1>17. CASE ~ commits
    <2>1. UNCHANGED <<w, reader>>
      BY <1>10, <1>17
    <2>2. K!Sub(w, r)' = K!Sub(w, r) /\ K!Sub(e, w)' = K!Sub(u, w) /\ K!Sub(e, r)' = K!Sub(u, r)
      BY <1>9, <2>1 DEF K!Sub
    <2>3. ConsoleType'
      BY <1>4, <1>6, <1>9, <2>1 DEF ConsoleInv, ConsoleType, Byte
    <2>4. RingInv'
      <3>1. K!Sub(w, r) + K!Sub(u, w) = K!Sub(u, r) /\ K!Sub(u, r) <= SIZE
        BY <1>1, <1>2, <1>4
      <3>2. QED
        BY <2>2, <3>1 DEF RingInv
    <2>5. LineInv'
      <3>1. ASSUME NEW k \in 0 .. K!Sub(u, w) - 1 PROVE g[Place(w, k, SIZE)] \notin K!Ends
        <4>1. CASE k = K!Sub(e, w)
          BY <1>12, <1>17, <4>1
        <4>2. CASE k # K!Sub(e, w)
          <5>1. k \in 0 .. K!Sub(e, w) - 1
            BY <1>2, <1>4, <4>2
          <5>2. QED
            BY <1>11, <5>1 DEF ConsoleInv, LineInv
        <4>3. QED
          BY <4>1, <4>2
      <3>2. QED
        BY <1>9, <2>1, <2>2, <3>1 DEF LineInv, Place
    <2>6. StallInv'
      <3>1. K!Sub(u, r) # SIZE
        BY <1>4, <1>17
      <3>2. \A q \in Reader : reader'[q].pc = "asleep" => r' = w' /\ ~ reader'[q].killed
        BY <1>9, <2>1 DEF ConsoleInv, StallInv
      <3>3. QED
        BY <1>9, <1>13, <2>2, <3>1, <3>2 DEF StallInv
    <2>7. K!Slice(r, w)' = com /\ K!Slice(w, e)' = Append(lin, c)
      <3>1. K!Slice(r, w)' = Entries(g, r, w) /\ K!Slice(w, e)' = Entries(g, w, u)
        BY <1>9, <2>1, <2>3, SliceNext
      <3>2. QED
        BY <1>5, <3>1
    <2>8. K!T!Type
      BY <1>14, <1>15, <1>17, <2>7 DEF K!T!Type, K!T!Room, K!T!Full
    <2>9. QED
      BY <2>3, <2>4, <2>5, <2>6, <2>8 DEF ConsoleInv
  <1>18. QED
    BY <1>16, <1>17

LEMMA ConsoleintrStep ==
  ASSUME ConsoleInv, K!Consoleintr
  PROVE  ConsoleInv' /\ Refines
  <1>1. Aside
    BY DEF K!Consoleintr, Aside
  <1>2. w \in Index /\ e \in Index
    BY DEF ConsoleInv, ConsoleType
  <1>3. K!Sub(e, w) \in Nat /\ (K!Sub(e, w) = 0 <=> w = e)
    BY <1>2, IndexFacts
  <1>4. \/ K!Erased(K!KillLine)
        \/ e # w /\ K!Erased(1)
        \/ \E c \in K!Char : K!Room /\ K!Store(c)
        \/ UNCHANGED <<e, w, buf, reader>>
    BY DEF K!Consoleintr
  <1>5. CASE K!Erased(K!KillLine)
    <2> DEFINE n == K!Sub(e, w)
    <2>1. K!Erased(n)
      BY <1>5, WholeLine
    <2>2. n \in Nat /\ n <= n /\ n - n = 0
      BY <1>3
    <2>3. /\ ConsoleInv' /\ K!Slice(r, w)' = K!Slice(r, w)
          /\ K!Slice(w, e)' = SubSeq(K!Slice(w, e), 1, Len(K!Slice(w, e)) - n)
          /\ Len(K!Slice(w, e)) = n
      BY <1>1, <2>1, <2>2, ErasedStep
    <2> HIDE DEF n
    <2>4. K!Slice(w, e)' = <<>>
      BY <2>2, <2>3
    <2>5. QED
      BY <2>3, <2>4 DEF Refines, K!T!Next, K!T!EraseLine
  <1>6. CASE e # w /\ K!Erased(1)
    <2>1. 1 \in Nat /\ 1 <= K!Sub(e, w) /\ K!Erased(1)
      BY <1>3, <1>6
    <2>2. /\ ConsoleInv' /\ K!Slice(r, w)' = K!Slice(r, w)
          /\ K!Slice(w, e)' = SubSeq(K!Slice(w, e), 1, Len(K!Slice(w, e)) - 1)
          /\ Len(K!Slice(w, e)) = K!Sub(e, w)
      BY <1>1, <2>1, ErasedStep
    <2>3. K!Slice(w, e) # <<>>
      BY <2>1, <2>2
    <2>4. QED
      BY <2>2, <2>3 DEF Refines, K!T!Next, K!T!Erase
  <1>7. CASE \E c \in K!Char : K!Room /\ K!Store(c)
    BY <1>1, <1>7, StoreStep DEF Refines, K!T!Next
  <1>8. CASE UNCHANGED <<e, w, buf, reader>>
    <2>1. UNCHANGED <<r, writer, irq, busy, txw, txr>> /\ intr' = "echo"
      BY <1>1 DEF Aside
    <2>2. /\ (\A q \in Writer : writer[q].asleep => K!TxFull)'
          /\ txw' # txr' => busy' \/ irq' \/ intr' # "off"
          /\ \A p \in Reader : reader'[p].pc = "asleep" => r = w /\ ~ reader'[p].killed
      BY <1>8, <2>1 DEF ConsoleInv, StallInv, K!TxFull, K!Add
    <2>3. /\ reader' \in [Reader -> [pc : {"user", "loop", "asleep"}, got : Nat, n : Nat, killed : BOOLEAN]]
          /\ writer' \in [Writer -> [left : Nat, asleep : BOOLEAN]]
      BY <1>8, <2>1 DEF ConsoleInv, ConsoleType
    <2>4. QED
      BY <1>8, <2>1, <2>2, <2>3, Steady
  <1>9. QED
    BY <1>4, <1>5, <1>6, <1>7, <1>8

-----------------------------------------------------------------------------
LEMMA ConsoleInit ==
  ASSUME K!Init
  PROVE  ConsoleInv /\ K!T!Init
  <1>1. r = 0 /\ w = 0 /\ e = 0 /\ buf = [i \in 0 .. SIZE - 1 |-> K!NoChar]
    BY DEF K!Init
  <1>2. 0 \in Index /\ SIZE \in Nat \ {0} /\ TXSIZE \in Nat \ {0} /\ WORD \in Nat /\ TXSIZE < WORD
    BY ConsoleAssumption DEF Index
  <1>3. K!Sub(w, r) = 0 /\ K!Sub(e, w) = 0 /\ K!Sub(e, r) = 0
    BY <1>1, <1>2, IndexFacts
  <1>4. ConsoleType
    BY <1>1, <1>2 DEF K!Init, ConsoleType, K!Idle
  <1>5. RingInv /\ LineInv
    BY <1>2, <1>3 DEF RingInv, LineInv
  <1>6. StallInv
    BY <1>1, <1>2, <1>3 DEF K!Init, StallInv, K!Idle
  <1>7. K!T!Init
    <2>1. K!Slice(r, w) = Entries(buf, r, w) /\ K!Slice(w, e) = Entries(buf, w, e)
      BY <1>4, SliceNow
    <2>2. Entries(buf, r, w) = <<>> /\ Entries(buf, w, e) = <<>>
      BY <1>1, <1>4, EntriesType DEF ConsoleType, Byte
    <2>3. QED
      BY <2>1, <2>2 DEF K!T!Init
  <1>8. QED
    BY <1>4, <1>5, <1>6, <1>7 DEF ConsoleInv

LEMMA ConsoleStep ==
  ASSUME ConsoleInv, [K!Next]_(K!vars)
  PROVE  ConsoleInv' /\ Refines
  <1>1. CASE K!Next
    <2>1. \/ \E p \in Reader : K!Read(p) \/ K!ReadKilled(p) \/ K!ReadSleep(p) \/ K!Kill(p)
          \/ \E p \in Reader : K!ReadEof(p) \/ K!ReadByte(p) \/ K!ReadFault(p)
          \/ \E p \in Writer : K!Write(p) \/ K!Uartputc(p) \/ K!UartputcSleep(p)
          \/ K!UartintrSend
          \/ K!Uartintr \/ K!Echo \/ K!EchoDone \/ K!Sent \/ K!Typed
          \/ K!Consoleintr
      BY <1>1 DEF K!Next
    <2>2. QED
      BY <2>1, ReaderStep, TakeStep, WriterStep, HandlerStep, ConsoleintrStep
  <1>2. CASE UNCHANGED K!vars
    <2>1. UNCHANGED <<r, w, e, buf, reader, writer, intr, irq, busy, txw, txr>>
      BY <1>2 DEF K!vars
    <2>2. /\ (\A q \in Writer : writer[q].asleep => K!TxFull)'
          /\ txw' # txr' => busy' \/ irq' \/ intr' # "off"
          /\ \A p \in Reader : reader'[p].pc = "asleep" => r = w /\ ~ reader'[p].killed
      BY <2>1 DEF ConsoleInv, StallInv, K!TxFull, K!Add
    <2>3. /\ reader' \in [Reader -> [pc : {"user", "loop", "asleep"}, got : Nat, n : Nat, killed : BOOLEAN]]
          /\ writer' \in [Writer -> [left : Nat, asleep : BOOLEAN]]
      BY <2>1 DEF ConsoleInv, ConsoleType
    <2>4. QED
      BY <2>1, <2>2, <2>3, Steady
  <1>3. QED
    BY <1>1, <1>2

LEMMA ConsoleInvariant == K!Spec => []ConsoleInv
  <1>1. K!Init => ConsoleInv
    BY ConsoleInit
  <1>2. ConsoleInv /\ [K!Next]_(K!vars) => ConsoleInv'
    BY ConsoleStep
  <1>3. QED
    BY <1>1, <1>2, PTL DEF K!Spec

\* Nobody sleeps on input that is committed, on room in the transmit buffer, or on a kill;
\* and no byte waits to be sent without an interrupt to come (consoleread(), uartputc(),
\* uartstart(), kill()).
THEOREM ConsoleNobodyStalls == K!Spec => []NobodyStalls
  <1>1. ConsoleInv => NobodyStalls
    BY DEF ConsoleInv, StallInv, NobodyStalls, K!NobodyStalls
  <1>2. QED
    BY <1>1, ConsoleInvariant, PTL

\* The indices of cons count modulo 2^32 and its buffer is a ring, yet what is read is what
\* was typed and committed, each character once and in order, edited until then
\* (consoleread(), consoleintr()).
THEOREM ConsoleImplementsTty == K!Spec => ConsoleIsTty
  <1>1. K!Init => K!T!Init
    BY ConsoleInit
  <1>2. ConsoleInv /\ [K!Next]_(K!vars) => [K!T!Next]_<<K!Slice(r, w), K!Slice(w, e)>>
    BY ConsoleStep DEF Refines
  <1>3. K!Spec => K!T!Init /\ [][K!T!Next]_<<K!Slice(r, w), K!Slice(w, e)>>
    BY <1>1, <1>2, ConsoleInvariant, PTL DEF K!Spec
  <1>4. QED
    BY <1>3 DEF ConsoleIsTty, K!ConsoleIsTty, K!T!Spec
=============================================================================
