----------------------------- MODULE PipeProofs -----------------------------
(***************************************************************************)
(* Type correctness of Pipe, on one CPU no lost wakeups, and that Pipe     *)
(* implements Channel, for every number of processes, every distribution   *)
(* of the ends and every pipe size (that divides the range of an unsigned  *)
(* counter).                                                               *)
(*                                                                         *)
(* The argument.  A sleeper whose condition no longer holds is only found  *)
(* while somebody is in the pipe who is going to wake it: for a reader, a  *)
(* writer that has passed its check of readopen and killed.  On one CPU    *)
(* that check cannot go stale under the lock; with more, kill() makes it   *)
(* stale, and the writer leaves by the one path that wakes nobody.         *)
(*                                                                         *)
(* The ring with its two wrapping counters is a bounded FIFO: nwrite never *)
(* runs further ahead of nread than PIPESIZE, also when one of them has    *)
(* wrapped around and the other has not; then the entries of the ring that *)
(* hold bytes are all different, and the entry that WriteByte overwrites   *)
(* holds none.                                                             *)
(***************************************************************************)
EXTENDS Pipe, TLAPS

-----------------------------------------------------------------------------
(***************************************************************************)
(* The ring: n entries whose two indices, the pipe's nread and nwrite,     *)
(* count modulo u, a multiple of n, and wrap around.  lo is the index of   *)
(* the oldest entry, hi the one behind the newest.                         *)
(***************************************************************************)
\* Division, by name: the lemmas are then found by the names.
Rem(x, d)     == x % d
Divides(n, u) == u % n = 0
Splits(x, d, q, rest) == x = d * q + rest

\* The entries in use; the index after x; the place in the ring of entry k (0 is the oldest).
InUse(lo, hi, u) == (hi - lo) % u
After(x, u)      == (x + 1) % u
Place(lo, k, n)  == (lo + k) % n

\* A remainder is what the definition of % says, and nothing else.
LEMMA Remainder ==
  ASSUME NEW d \in Nat \ {0}, NEW x \in Int, NEW q \in Int, NEW rest \in 0 .. d - 1,
         Splits(x, d, q, rest)
  PROVE  Rem(x, d) = rest
<1> DEFINE q2 == x \div d
<1> DEFINE rest2 == x % d
<1>1. q2 \in Int /\ rest2 \in 0 .. d - 1 /\ x = d * q2 + rest2
  OBVIOUS
<1> HIDE DEF q2, rest2
<1>2. d * (q - q2) = rest2 - rest
  BY <1>1 DEF Splits
<1>3. q - q2 <= 0
  <2>1. SUFFICES ASSUME q - q2 >= 1 PROVE FALSE
    BY <1>1
  <2>2. d * (q - q2) >= d
    BY <1>1, <2>1
  <2>3. QED BY <1>1, <1>2, <2>2
<1>4. q - q2 >= 0
  <2>1. SUFFICES ASSUME q2 - q >= 1 PROVE FALSE
    BY <1>1
  <2>2. d * (q2 - q) >= d
    BY <1>1, <2>1
  <2>3. d * (q2 - q) = rest - rest2
    BY <1>1 DEF Splits
  <2>4. QED BY <1>1, <2>2, <2>3
<1>5. q = q2
  BY <1>1, <1>3, <1>4
<1>6. rest = rest2
  BY <1>1, <1>5 DEF Splits
<1>7. QED BY <1>6 DEF rest2, Rem

LEMMA Below ==
  ASSUME NEW d \in Nat \ {0}, NEW x \in Int, 0 <= x, x < d
  PROVE  Rem(x, d) = x
<1> DEFINE q == 0
<1>1. Splits(x, d, q, x) /\ x \in 0 .. d - 1 /\ q \in Int
  BY DEF Splits
<1> HIDE DEF q
<1>2. QED BY <1>1, Remainder

LEMMA Above ==
  ASSUME NEW d \in Nat \ {0}, NEW x \in Int, d <= x, x - d < d
  PROVE  Rem(x, d) = x - d
<1> DEFINE q == 1
<1>1. Splits(x, d, q, x - d) /\ x - d \in 0 .. d - 1 /\ q \in Int
  BY DEF Splits
<1> HIDE DEF q
<1>2. QED BY <1>1, Remainder

LEMMA Negative ==
  ASSUME NEW d \in Nat \ {0}, NEW x \in Int, 0 - d <= x, x < 0
  PROVE  Rem(x, d) = x + d
<1>1. Splits(x, d, 0 - 1, x + d) /\ x + d \in 0 .. d - 1 /\ 0 - 1 \in Int
  BY DEF Splits
<1>2. QED BY <1>1, Remainder

-----------------------------------------------------------------------------
\* An index that is incremented.
LEMMA Incremented ==
  ASSUME NEW u \in Nat \ {0}, NEW x \in 0 .. u - 1
  PROVE  /\ After(x, u) = IF x + 1 < u THEN x + 1 ELSE 0
         /\ After(x, u) \in 0 .. u - 1
<1> DEFINE y == x + 1
<1>1. y \in Int /\ 0 <= y /\ y <= u /\ y - u < u
  OBVIOUS
<1> HIDE DEF y
<1>2. ASSUME y < u PROVE (x + 1) % u = x + 1
  <2>1. Rem(y, u) = y
    BY <1>1, <1>2, Below
  <2>2. QED BY <1>2, <2>1 DEF y, Rem
<1>3. ASSUME y = u PROVE (x + 1) % u = 0
  <2>1. Rem(y, u) = y - u
    BY <1>1, <1>3, Above
  <2>2. QED BY <1>1, <1>3, <2>1 DEF y, Rem
<1>4. (x + 1) % u = IF x + 1 < u THEN x + 1 ELSE 0
  BY <1>1, <1>2, <1>3 DEF y
<1>5. QED BY <1>4 DEF After

\* How far hi is ahead of lo.
LEMMA Distance ==
  ASSUME NEW u \in Nat \ {0}, NEW lo \in 0 .. u - 1, NEW hi \in 0 .. u - 1
  PROVE  /\ InUse(lo, hi, u) = IF lo <= hi THEN hi - lo ELSE hi - lo + u
         /\ InUse(lo, hi, u) \in 0 .. u - 1
         /\ hi = lo <=> InUse(lo, hi, u) = 0
<1> DEFINE x == hi - lo
<1>1. x \in Int /\ 0 - u <= x /\ x < u /\ (0 <= x <=> lo <= hi)
  OBVIOUS
<1> HIDE DEF x
<1>2. Rem(x, u) = IF 0 <= x THEN x ELSE x + u
  <2>1. CASE 0 <= x
    BY <1>1, <2>1, Below
  <2>2. CASE x < 0
    BY <1>1, <2>2, Negative
  <2>3. QED BY <1>1, <2>1, <2>2
<1>3. (hi - lo) % u = IF lo <= hi THEN hi - lo ELSE hi - lo + u
  BY <1>1, <1>2 DEF x, Rem
<1>4. QED BY <1>3 DEF InUse

\* One entry more, unless the ring's indices cannot tell a full one from an empty one.
LEMMA OneMore ==
  ASSUME NEW u \in Nat \ {0}, NEW lo \in 0 .. u - 1, NEW hi \in 0 .. u - 1,
         InUse(lo, hi, u) + 1 < u
  PROVE  InUse(lo, After(hi, u), u) = InUse(lo, hi, u) + 1
<1>1. /\ After(hi, u) = IF hi + 1 < u THEN hi + 1 ELSE 0
      /\ After(hi, u) \in 0 .. u - 1
  BY Incremented
<1>2. InUse(lo, hi, u) = IF lo <= hi THEN hi - lo ELSE hi - lo + u
  BY Distance
<1>3. InUse(lo, After(hi, u), u) = IF lo <= After(hi, u) THEN After(hi, u) - lo
                                   ELSE After(hi, u) - lo + u
  BY <1>1, Distance
<1>4. CASE hi + 1 < u
  BY <1>1, <1>2, <1>3, <1>4
<1>5. CASE hi + 1 = u
  BY <1>1, <1>2, <1>3, <1>5
<1>6. QED BY <1>4, <1>5

\* One entry less.
LEMMA OneLess ==
  ASSUME NEW u \in Nat \ {0}, NEW lo \in 0 .. u - 1, NEW hi \in 0 .. u - 1, lo # hi
  PROVE  InUse(After(lo, u), hi, u) = InUse(lo, hi, u) - 1
<1>1. /\ After(lo, u) = IF lo + 1 < u THEN lo + 1 ELSE 0
      /\ After(lo, u) \in 0 .. u - 1
  BY Incremented
<1>2. InUse(lo, hi, u) = IF lo <= hi THEN hi - lo ELSE hi - lo + u
  BY Distance
<1>3. InUse(After(lo, u), hi, u) = IF After(lo, u) <= hi THEN hi - After(lo, u)
                                   ELSE hi - After(lo, u) + u
  BY <1>1, Distance
<1>4. CASE lo + 1 < u
  BY <1>1, <1>2, <1>3, <1>4
<1>5. CASE lo + 1 = u
  BY <1>1, <1>2, <1>3, <1>5
<1>6. QED BY <1>4, <1>5

-----------------------------------------------------------------------------
\* n divides u: an index that wraps around goes on at the next entry.
LEMMA Around ==
  ASSUME NEW n \in Nat \ {0}, NEW u \in Nat, Divides(n, u), NEW x \in Nat
  PROVE  Rem(x + u, n) = Rem(x, n)
<1> DEFINE m == u \div n
<1> DEFINE q == x \div n
<1> DEFINE rest == x % n
<1>1. m \in Int /\ u = n * m
  BY DEF Divides
<1>2. q \in Int /\ rest \in 0 .. n - 1 /\ x = n * q + rest
  OBVIOUS
<1> HIDE DEF m, q, rest
<1> DEFINE y == x + u
<1> DEFINE p == q + m
<1>3. y \in Int /\ p \in Int /\ Splits(y, n, p, rest)
  BY <1>1, <1>2 DEF Splits
<1> HIDE DEF y, p
<1>4. Rem(y, n) = rest
  BY <1>2, <1>3, Remainder
<1>5. QED BY <1>4 DEF rest, y, Rem

\* Entries less than n apart are different.
LEMMA Apart ==
  ASSUME NEW n \in Nat \ {0}, NEW x \in Nat, NEW k \in 1 .. n - 1
  PROVE  Rem(x + k, n) # Rem(x, n)
<1> DEFINE q == x \div n
<1> DEFINE rest == x % n
<1>1. q \in Int /\ rest \in 0 .. n - 1 /\ x = n * q + rest
  OBVIOUS
<1> HIDE DEF q, rest
<1> DEFINE y == x + k
<1> DEFINE rest2 == IF rest + k < n THEN rest + k ELSE rest + k - n
<1> DEFINE q2 == IF rest + k < n THEN q ELSE q + 1
<1>2. y \in Int /\ rest2 \in 0 .. n - 1 /\ q2 \in Int
  BY <1>1
<1>3. y = n * q2 + rest2
  <2>1. CASE rest + k < n
    BY <1>1, <2>1
  <2>2. CASE ~ (rest + k < n)
    <3>1. n * (q + 1) = n * q + n
      BY <1>1
    <3>2. QED BY <1>1, <2>2, <3>1
  <2>3. QED BY <2>1, <2>2
<1>4. rest2 # rest
  BY <1>1
<1> HIDE DEF y, rest2, q2
<1>5. Rem(y, n) = rest2
  <2>1. Splits(y, n, q2, rest2)
    BY <1>3 DEF Splits
  <2>2. QED BY <1>2, <2>1, Remainder
<1>6. QED BY <1>4, <1>5 DEF y, rest, Rem

\* The index hi stands for the entry behind the newest.
LEMMA Behind ==
  ASSUME NEW n \in Nat \ {0}, NEW u \in Nat \ {0}, Divides(n, u),
         NEW lo \in 0 .. u - 1, NEW hi \in 0 .. u - 1
  PROVE  hi % n = Place(lo, InUse(lo, hi, u), n)
<1> DEFINE d == InUse(lo, hi, u)
<1>1. d = IF lo <= hi THEN hi - lo ELSE hi - lo + u
  BY Distance
<1> HIDE DEF d
<1>2. CASE lo <= hi
  <2>1. lo + d = hi
    BY <1>1, <1>2
  <2>2. QED BY <2>1 DEF d, Place
<1>3. CASE ~ (lo <= hi)
  <2>1. lo + d = hi + u
    BY <1>1, <1>3
  <2>2. hi \in Nat /\ u \in Nat
    OBVIOUS
  <2>3. Rem(hi + u, n) = Rem(hi, n)
    BY <2>2, Around
  <2>4. QED BY <2>1, <2>3 DEF d, Place, Rem
<1>4. QED BY <1>2, <1>3

\* Seen from the second oldest entry, the entries keep their places.
LEMMA Onwards ==
  ASSUME NEW n \in Nat \ {0}, NEW u \in Nat \ {0}, Divides(n, u),
         NEW lo \in 0 .. u - 1, NEW k \in Nat
  PROVE  Place(After(lo, u), k, n) = Place(lo, k + 1, n)
<1>1. After(lo, u) = IF lo + 1 < u THEN lo + 1 ELSE 0
  BY Incremented
<1>2. CASE lo + 1 < u
  <2>1. After(lo, u) + k = lo + (k + 1)
    BY <1>1, <1>2
  <2>2. QED BY <2>1 DEF Place
<1>3. CASE lo + 1 = u
  <2>1. After(lo, u) + k = k /\ lo + (k + 1) = k + u
    BY <1>1, <1>3
  <2>2. Rem(k + u, n) = Rem(k, n)
    BY Around
  <2>3. QED BY <2>1, <2>2 DEF Place, Rem
<1>4. QED BY <1>2, <1>3

\* No two of the n entries from lo on are in the same place.
LEMMA Distinct ==
  ASSUME NEW n \in Nat \ {0}, NEW lo \in Nat, NEW i \in 0 .. n - 1, NEW j \in 0 .. n - 1,
         i # j
  PROVE  Place(lo, i, n) # Place(lo, j, n)
<1>1. ASSUME NEW a \in 0 .. n - 1, NEW b \in 0 .. n - 1, a < b
      PROVE  (lo + b) % n # (lo + a) % n
  <2> DEFINE x == lo + a
  <2> DEFINE k == b - a
  <2>1. x \in Nat /\ k \in 1 .. n - 1 /\ x + k = lo + b
    BY <1>1
  <2> HIDE DEF x, k
  <2>2. Rem(x + k, n) # Rem(x, n)
    BY <2>1, Apart
  <2>3. QED BY <2>1, <2>2 DEF x, Rem
<1>2. CASE i < j
  BY <1>1, <1>2 DEF Place
<1>3. CASE j < i
  BY <1>1, <1>3 DEF Place
<1>4. QED BY <1>2, <1>3

LEMMA PlaceType ==
  ASSUME NEW n \in Nat \ {0}, NEW lo \in Nat, NEW k \in Nat
  PROVE  Place(lo, k, n) \in 0 .. n - 1
  BY DEF Place

-----------------------------------------------------------------------------

\* On one CPU: a reader asleep, or about to be, that has something to read: a writer
\* is at it.
ReadersWoken ==
  OneCPU /\ (\E p \in Proc : thr[p].pc \in {"read_sleep", "read_asleep"}) /\ ~ (Empty /\ writeopen)
    => \E h \in Proc : lock = h /\ At(h, "write") /\ readopen /\ h \notin killed

\* A writer asleep, or about to be, that could write: a reader is at it.
WritersWoken ==
  (\E p \in Proc : thr[p].pc \in {"write_sleep", "write_asleep"}) /\ ~ (Full /\ readopen)
    => \E h \in Proc : lock = h /\ thr[h].pc \in {"read_copy", "read_done"}

IInv == TypeOK /\ ReadersWoken /\ WritersWoken

-----------------------------------------------------------------------------
ThrType == [pc : Labels, n : Nat, i : Nat]

\* The counters wrap around within their range.
LEMMA Wraps ==
  ASSUME NEW x \in 0 .. UINT - 1
  PROVE  (x + 1) % UINT \in 0 .. UINT - 1 /\ x % PIPESIZE \in 0 .. PIPESIZE - 1
  BY PipeAssumption

\* What wakeup() does to the threads.
LEMMA AwokenType ==
  ASSUME NEW t \in [Proc -> ThrType], NEW l \in Asleep
  PROVE  /\ Awoken(t, l) \in [Proc -> ThrType]
         /\ \A p \in Proc : t[p].pc # l => Awoken(t, l)[p] = t[p]
         /\ \A p \in Proc : t[p].pc = l => Awoken(t, l)[p].pc = IF l = "read_asleep"
                                             THEN "read_enter" ELSE "write_enter"
  BY DEF Awoken, ThrType, Labels, Asleep

\* The parts of the type of the state that a step can change.
LEMMA TypeFrom ==
  ASSUME TypeOK, UNCHANGED <<data, nread, nwrite>>, readopen' \in BOOLEAN,
         writeopen' \in BOOLEAN, lock' \in Proc \cup {NoProc},
         fds' \in [Proc -> SUBSET {"read", "write"}], killed' \subseteq Proc,
         thr' \in [Proc -> ThrType],
         \A p \in Proc : lock' = p <=> thr'[p].pc \in Locked
  PROVE  TypeOK'
  BY DEF TypeOK, ThrType

\* A process that goes from l to m while all others stay where they are.
LEMMA Move ==
  ASSUME TypeOK, NEW p \in Proc, NEW r \in ThrType, thr' = [thr EXCEPT ![p] = r]
  PROVE  /\ thr' \in [Proc -> ThrType] /\ thr'[p] = r
         /\ \A q \in Proc : q # p => thr'[q] = thr[q]
  BY DEF TypeOK, ThrType

\* One byte more is counted.
LEMMA Counted ==
  ASSUME NEW r \in ThrType
  PROVE  [r EXCEPT !.i = @ + 1] \in ThrType
  <1>1. r.pc \in Labels /\ r.n \in Nat /\ r.i + 1 \in Nat
    BY DEF ThrType
  <1>2. [r EXCEPT !.i = @ + 1] = [pc |-> r.pc, n |-> r.n, i |-> r.i + 1]
    BY DEF ThrType
  <1>3. QED
    BY <1>1, <1>2 DEF ThrType

\* A call starts: nobody sleeps who did not, and who is in the pipe stays there.
LEMMA CallStep ==
  ASSUME IInv, NEW p \in Proc, Call(p)
  PROVE  IInv'
  <1>1. PICK l \in {"read_enter", "write_enter"}, n \in Sizes :
          thr' = [thr EXCEPT ![p] = [pc |-> l, n |-> n, i |-> 0]]
    BY DEF Call
  <1>2. thr[p].pc = "idle" /\ UNCHANGED <<pipe, lock, fds, killed>>
    BY DEF Call, At
  <1>3. [pc |-> l, n |-> n, i |-> 0] \in ThrType
    BY PipeAssumption DEF ThrType, Labels
  <1>4. /\ thr' \in [Proc -> ThrType] /\ thr'[p].pc = l
        /\ \A q \in Proc : q # p => thr'[q] = thr[q]
    BY <1>1, <1>3, Move DEF IInv
  <1>5. TypeOK'
    BY <1>2, <1>4, TypeFrom DEF IInv, TypeOK, pipe, Locked
  <1>6. ReadersWoken'
    BY <1>2, <1>4 DEF IInv, ReadersWoken, pipe, Empty, At
  <1>7. WritersWoken'
    BY <1>2, <1>4 DEF IInv, WritersWoken, pipe, Full
  <1>8. QED
    BY <1>5, <1>6, <1>7 DEF IInv

\* The lock is taken when it is free: then no sleeper waits for its holder.
LEMMA AcquireStep ==
  ASSUME IInv, NEW p \in Proc, Acquire(p)
  PROVE  IInv'
  <1>1. PICK l \in {"read", "write"} : thr' = [thr EXCEPT ![p].pc = l]
    BY DEF Acquire, Goto, Moved
  <1>2. /\ thr[p].pc \in {"read_enter", "write_enter"} /\ lock = NoProc /\ lock' = p
        /\ UNCHANGED <<pipe, fds, killed>>
    BY DEF Acquire, At
  <1>3. /\ thr' \in [Proc -> ThrType] /\ thr'[p].pc = l
        /\ \A q \in Proc : q # p => thr'[q] = thr[q]
    BY <1>1 DEF IInv, TypeOK, ThrType, Labels, Locked
  <1>4. NoProc \notin Proc
    BY PipeAssumption
  <1>5. TypeOK'
    BY <1>2, <1>3, <1>4, TypeFrom DEF IInv, TypeOK, pipe, Locked
  <1>6. ReadersWoken'
    BY <1>2, <1>3, <1>4 DEF IInv, ReadersWoken, pipe, Empty
  <1>7. WritersWoken'
    BY <1>2, <1>3, <1>4 DEF IInv, WritersWoken, pipe, Full
  <1>8. QED
    BY <1>5, <1>6, <1>7 DEF IInv

\* A reader or writer goes to sleep with what it found still true.
LEMMA SleepStep ==
  ASSUME IInv, NEW p \in Proc, Sleep(p)
  PROVE  IInv'
  <1>1. PICK l \in Asleep : thr' = [thr EXCEPT ![p].pc = l]
    BY DEF Sleep, Goto, Moved, Asleep
  <1>2. /\ thr[p].pc \in {"read_sleep", "write_sleep"} /\ lock' = NoProc
        /\ UNCHANGED <<pipe, fds, killed>>
        /\ thr[p].pc = "read_sleep" <=> l = "read_asleep"
    <2>1. thr'[p].pc = l
      BY <1>1 DEF IInv, TypeOK, ThrType
    <2>2. QED
      BY <2>1 DEF Sleep, At, Asleep, Goto, Moved, IInv, TypeOK, ThrType
  <1>3. /\ thr' \in [Proc -> ThrType] /\ thr'[p].pc = l
        /\ \A q \in Proc : q # p => thr'[q] = thr[q]
    BY <1>1 DEF IInv, TypeOK, ThrType, Labels
  <1>4. NoProc \notin Proc /\ lock = p
    BY <1>2, PipeAssumption DEF IInv, TypeOK, Locked
  <1>5. TypeOK'
    BY <1>2, <1>3, <1>4, TypeFrom DEF IInv, TypeOK, pipe, Locked, Asleep
  <1>6. ReadersWoken'
    BY <1>2, <1>3, <1>4 DEF IInv, ReadersWoken, pipe, Empty, At, Asleep
  <1>7. WritersWoken'
    BY <1>2, <1>3, <1>4 DEF IInv, WritersWoken, pipe, Full, Asleep
  <1>8. QED
    BY <1>5, <1>6, <1>7 DEF IInv

-----------------------------------------------------------------------------
\* Who is in the critical section is alone there.
LEMMA Holder ==
  ASSUME IInv, NEW p \in Proc, thr[p].pc \in Locked
  PROVE  /\ lock = p /\ lock # NoProc
         /\ \A q \in Proc : q # p => thr[q].pc \notin Locked
  BY PipeAssumption DEF IInv, TypeOK

\* The record of a process outside the pipe.
LEMMA IdleType == Idle \in ThrType
  BY DEF Idle, ThrType, Labels

\* A writer that gives up: no reader slept on bytes, since it wrote none.
LEMMA WriteFailStep ==
  ASSUME IInv, NEW p \in Proc, WriteFail(p)
  PROVE  IInv'
  <1>1. /\ thr[p].pc = "write" /\ (~ readopen \/ p \in killed) /\ lock' = NoProc
        /\ thr' = [thr EXCEPT ![p] = Idle] /\ UNCHANGED <<pipe, fds, killed>>
    BY DEF WriteFail, At
  <1>2. /\ thr' \in [Proc -> ThrType] /\ thr'[p] = Idle
        /\ \A q \in Proc : q # p => thr'[q] = thr[q]
    BY <1>1, IdleType, Move DEF IInv
  <1>3. lock = p /\ \A q \in Proc : q # p => thr[q].pc \notin Locked
    BY <1>1, Holder DEF Locked
  <1>4. TypeOK'
    BY <1>1, <1>2, <1>3, PipeAssumption, TypeFrom DEF IInv, TypeOK, pipe, Locked, Idle
  <1>5. ReadersWoken'
    BY <1>1, <1>2, <1>3 DEF IInv, ReadersWoken, pipe, Empty, Idle
  <1>6. WritersWoken'
    BY <1>1, <1>2, <1>3 DEF IInv, WritersWoken, pipe, Full, Idle
  <1>7. QED
    BY <1>4, <1>5, <1>6 DEF IInv

\* A writer that finds the pipe full wakes all readers before it sleeps.
LEMMA WriteFullStep ==
  ASSUME IInv, NEW p \in Proc, WriteFull(p)
  PROVE  IInv'
  <1> DEFINE t == [thr EXCEPT ![p].pc = "write_sleep"]
  <1>1. /\ thr[p].pc = "write" /\ readopen /\ Full
        /\ thr' = Awoken(t, "read_asleep") /\ UNCHANGED <<pipe, lock, fds, killed>>
    BY DEF WriteFull, At, Moved
  <1>2. /\ t \in [Proc -> ThrType] /\ t[p].pc = "write_sleep"
        /\ \A q \in Proc : q # p => t[q] = thr[q]
    BY DEF IInv, TypeOK, ThrType, Labels, Locked
  <1> HIDE DEF t
  <1>3. /\ thr' \in [Proc -> ThrType]
        /\ \A q \in Proc : t[q].pc # "read_asleep" => thr'[q] = t[q]
        /\ \A q \in Proc : t[q].pc = "read_asleep" => thr'[q].pc = "read_enter"
    BY <1>1, <1>2, AwokenType DEF Asleep
  <1>4. lock = p /\ \A q \in Proc : q # p => thr[q].pc \notin Locked
    BY <1>1, Holder DEF Locked
  <1>5. /\ thr'[p].pc = "write_sleep"
        /\ \A q \in Proc : q # p => \/ thr'[q] = thr[q] /\ thr[q].pc # "read_asleep"
                                    \/ thr'[q].pc = "read_enter"
    BY <1>2, <1>3
  <1>6. TypeOK'
    BY <1>1, <1>3, <1>4, <1>5, TypeFrom DEF IInv, TypeOK, pipe, Locked
  <1>7. ReadersWoken'
    BY <1>4, <1>5 DEF ReadersWoken, Locked
  <1>8. WritersWoken'
    BY <1>1 DEF WritersWoken, pipe, Full
  <1>9. QED
    BY <1>6, <1>7, <1>8 DEF IInv

\* A writer goes on with its lock: it is the one that will wake the readers.
LEMMA WriteByteStep ==
  ASSUME IInv, NEW p \in Proc, WriteByte(p)
  PROVE  IInv'
  <1>1. /\ thr[p].pc = "write" /\ readopen /\ p \notin killed /\ ~ Full
        /\ UNCHANGED <<nread, readopen, writeopen, lock, fds, killed>>
        /\ nwrite' = (nwrite + 1) % UINT
        /\ thr' = [thr EXCEPT ![p].i = @ + 1]
    BY DEF WriteByte, At
  <1>2. /\ thr' \in [Proc -> ThrType]
        /\ \A q \in Proc : thr'[q].pc = thr[q].pc
    <2>1. [thr[p] EXCEPT !.i = @ + 1] \in ThrType
      <3>1. thr[p] \in ThrType
        BY DEF IInv, TypeOK, ThrType
      <3>2. QED
        BY <3>1, Counted
    <2>2. thr' = [thr EXCEPT ![p] = [thr[p] EXCEPT !.i = @ + 1]]
      BY <1>1
    <2>3. thr' \in [Proc -> ThrType]
      BY <2>1, <2>2, Move DEF IInv
    <2>4. thr'[p].pc = thr[p].pc /\ \A q \in Proc : q # p => thr'[q] = thr[q]
      BY <2>1, <2>2, Move DEF IInv, TypeOK, ThrType
    <2>5. QED
      BY <2>3, <2>4
  <1>3. /\ nwrite' \in 0 .. UINT - 1 /\ nwrite % PIPESIZE \in 0 .. PIPESIZE - 1
    BY <1>1, Wraps DEF IInv, TypeOK
  <1>4. data' \in [0 .. PIPESIZE - 1 -> Byte]
    BY <1>3 DEF WriteByte, IInv, TypeOK
  <1>5. TypeOK'
    BY <1>1, <1>2, <1>3, <1>4 DEF IInv, TypeOK, ThrType
  <1>6. lock = p
    BY <1>1, Holder DEF Locked
  <1>7. ReadersWoken'
    BY <1>1, <1>2, <1>6 DEF ReadersWoken, At
  <1>8. WritersWoken'
    BY <1>1, <1>2, <1>6 DEF IInv, WritersWoken
  <1>9. QED
    BY <1>5, <1>7, <1>8 DEF IInv

\* A writer that is done wakes all readers.
LEMMA WriteDoneStep ==
  ASSUME IInv, NEW p \in Proc, WriteDone(p)
  PROVE  IInv'
  <1> DEFINE t == [thr EXCEPT ![p] = Idle]
  <1>1. /\ thr[p].pc = "write" /\ lock' = NoProc
        /\ thr' = Awoken(t, "read_asleep") /\ UNCHANGED <<pipe, fds, killed>>
    BY DEF WriteDone, At
  <1>2. /\ t \in [Proc -> ThrType] /\ t[p] = Idle
        /\ \A q \in Proc : q # p => t[q] = thr[q]
    BY IdleType DEF IInv, TypeOK, ThrType
  <1> HIDE DEF t
  <1>3. /\ thr' \in [Proc -> ThrType]
        /\ \A q \in Proc : t[q].pc # "read_asleep" => thr'[q] = t[q]
        /\ \A q \in Proc : t[q].pc = "read_asleep" => thr'[q].pc = "read_enter"
    BY <1>1, <1>2, AwokenType DEF Asleep
  <1>4. lock = p /\ \A q \in Proc : q # p => thr[q].pc \notin Locked
    BY <1>1, Holder DEF Locked
  <1>5. /\ thr'[p].pc = "idle"
        /\ \A q \in Proc : q # p => \/ thr'[q] = thr[q] /\ thr[q].pc # "read_asleep"
                                    \/ thr'[q].pc = "read_enter"
    BY <1>2, <1>3 DEF Idle
  <1>6. TypeOK'
    BY <1>1, <1>3, <1>4, <1>5, PipeAssumption, TypeFrom DEF IInv, TypeOK, pipe, Locked
  <1>7. ReadersWoken'
    BY <1>4, <1>5 DEF ReadersWoken, Locked
  <1>8. WritersWoken'
    BY <1>1, <1>4, <1>5 DEF IInv, WritersWoken, pipe, Full, Locked
  <1>9. QED
    BY <1>6, <1>7, <1>8 DEF IInv

-----------------------------------------------------------------------------
\* A reader that finds the pipe empty leaves or sleeps: the pipe is not full.
LEMMA ReadWaitStep ==
  ASSUME IInv, NEW p \in Proc, ReadWait(p)
  PROVE  IInv'
  <1>1. /\ thr[p].pc = "read" /\ Empty /\ writeopen /\ UNCHANGED <<pipe, fds, killed>>
        /\ \/ lock' = NoProc /\ thr' = [thr EXCEPT ![p] = Idle]
           \/ lock' = lock /\ thr' = [thr EXCEPT ![p].pc = "read_sleep"]
    BY DEF ReadWait, At, Goto, Moved
  <1>2. /\ thr' \in [Proc -> ThrType]
        /\ \/ lock' = NoProc /\ thr'[p].pc = "idle"
           \/ lock' = lock /\ thr'[p].pc = "read_sleep"
        /\ \A q \in Proc : q # p => thr'[q] = thr[q]
    <2>1. CASE lock' = NoProc /\ thr' = [thr EXCEPT ![p] = Idle]
      BY <2>1, IdleType, Move DEF IInv, Idle
    <2>2. CASE lock' = lock /\ thr' = [thr EXCEPT ![p].pc = "read_sleep"]
      BY <2>2 DEF IInv, TypeOK, ThrType, Labels, Locked
    <2>3. QED
      BY <1>1, <2>1, <2>2
  <1>3. lock = p /\ \A q \in Proc : q # p => thr[q].pc \notin Locked
    BY <1>1, Holder DEF Locked
  <1>4. TypeOK'
    BY <1>1, <1>2, <1>3, PipeAssumption, TypeFrom DEF IInv, TypeOK, pipe, Locked
  <1>5. ReadersWoken'
    BY <1>1 DEF ReadersWoken, pipe, Empty
  <1>6. WritersWoken'
    BY <1>1, <1>2, <1>3 DEF IInv, WritersWoken, pipe, Full
  <1>7. QED
    BY <1>4, <1>5, <1>6 DEF IInv

\* A reader that found something to read, or no writer, starts to copy.
LEMMA ReadStartStep ==
  ASSUME IInv, NEW p \in Proc, ReadStart(p)
  PROVE  IInv'
  <1>1. /\ thr[p].pc = "read" /\ UNCHANGED <<pipe, lock, fds, killed>>
        /\ thr' = [thr EXCEPT ![p].pc = "read_copy"]
    BY DEF ReadStart, At, Goto, Moved
  <1>2. /\ thr' \in [Proc -> ThrType] /\ thr'[p].pc = "read_copy"
        /\ \A q \in Proc : q # p => thr'[q] = thr[q]
    BY <1>1 DEF IInv, TypeOK, ThrType, Labels, Locked
  <1>3. lock = p /\ \A q \in Proc : q # p => thr[q].pc \notin Locked
    BY <1>1, Holder DEF Locked
  <1>4. TypeOK'
    BY <1>1, <1>2, <1>3, TypeFrom DEF IInv, TypeOK, pipe, Locked
  <1>5. ReadersWoken'
    BY <1>1, <1>2, <1>3 DEF IInv, ReadersWoken, pipe, Empty, At
  <1>6. WritersWoken'
    BY <1>1, <1>2, <1>3 DEF IInv, WritersWoken, pipe, Full
  <1>7. QED
    BY <1>4, <1>5, <1>6 DEF IInv

\* A reader goes on with its lock: it is the one that will wake the writers.
LEMMA ReadByteStep ==
  ASSUME IInv, NEW p \in Proc, ReadByte(p)
  PROVE  IInv'
  <1>1. /\ thr[p].pc = "read_copy" /\ ~ Empty
        /\ UNCHANGED <<data, nwrite, readopen, writeopen, lock, fds, killed>>
        /\ nread' = (nread + 1) % UINT
        /\ \/ thr' = [thr EXCEPT ![p].i = @ + 1]
           \/ thr' = [thr EXCEPT ![p].pc = "read_done"]
    BY DEF ReadByte, At, Goto, Moved
  <1>2. /\ thr' \in [Proc -> ThrType] /\ thr'[p].pc \in {"read_copy", "read_done"}
        /\ \A q \in Proc : q # p => thr'[q] = thr[q]
    <2>1. CASE thr' = [thr EXCEPT ![p].i = @ + 1]
      <3>1. [thr[p] EXCEPT !.i = @ + 1] \in ThrType
        <4>1. thr[p] \in ThrType
          BY DEF IInv, TypeOK, ThrType
        <4>2. QED
          BY <4>1, Counted
      <3>2. thr' = [thr EXCEPT ![p] = [thr[p] EXCEPT !.i = @ + 1]]
        BY <2>1
      <3>3. /\ thr' \in [Proc -> ThrType] /\ thr'[p] = [thr[p] EXCEPT !.i = @ + 1]
            /\ \A q \in Proc : q # p => thr'[q] = thr[q]
        BY <3>1, <3>2, Move DEF IInv
      <3>4. thr'[p].pc = "read_copy"
        BY <1>1, <3>3 DEF IInv, TypeOK, ThrType
      <3>5. QED
        BY <3>3, <3>4
    <2>2. CASE thr' = [thr EXCEPT ![p].pc = "read_done"]
      BY <2>2 DEF IInv, TypeOK, ThrType, Labels, Locked
    <2>3. QED
      BY <1>1, <2>1, <2>2
  <1>3. lock = p /\ \A q \in Proc : q # p => thr[q].pc \notin Locked
    BY <1>1, Holder DEF Locked
  <1>4. nread' \in 0 .. UINT - 1
    BY <1>1, Wraps DEF IInv, TypeOK
  <1>5. TypeOK'
    BY <1>1, <1>2, <1>3, <1>4 DEF IInv, TypeOK, ThrType, Locked
  <1>6. ReadersWoken'
    BY <1>1, <1>2, <1>3 DEF IInv, ReadersWoken, At
  <1>7. WritersWoken'
    BY <1>1, <1>2, <1>3 DEF WritersWoken
  <1>8. QED
    BY <1>5, <1>6, <1>7 DEF IInv

\* A reader that is done wakes all writers.
LEMMA ReadDoneStep ==
  ASSUME IInv, NEW p \in Proc, ReadDone(p)
  PROVE  IInv'
  <1> DEFINE t == [thr EXCEPT ![p] = Idle]
  <1>1. /\ thr[p].pc \in {"read_copy", "read_done"} /\ lock' = NoProc
        /\ thr' = Awoken(t, "write_asleep") /\ UNCHANGED <<pipe, fds, killed>>
    BY DEF ReadDone, At
  <1>2. /\ t \in [Proc -> ThrType] /\ t[p] = Idle
        /\ \A q \in Proc : q # p => t[q] = thr[q]
    BY IdleType DEF IInv, TypeOK, ThrType
  <1> HIDE DEF t
  <1>3. /\ thr' \in [Proc -> ThrType]
        /\ \A q \in Proc : t[q].pc # "write_asleep" => thr'[q] = t[q]
        /\ \A q \in Proc : t[q].pc = "write_asleep" => thr'[q].pc = "write_enter"
    BY <1>1, <1>2, AwokenType DEF Asleep
  <1>4. lock = p /\ \A q \in Proc : q # p => thr[q].pc \notin Locked
    BY <1>1, Holder DEF Locked
  <1>5. /\ thr'[p].pc = "idle"
        /\ \A q \in Proc : q # p => \/ thr'[q] = thr[q] /\ thr[q].pc # "write_asleep"
                                    \/ thr'[q].pc = "write_enter"
    BY <1>2, <1>3 DEF Idle
  <1>6. TypeOK'
    BY <1>1, <1>3, <1>4, <1>5, PipeAssumption, TypeFrom DEF IInv, TypeOK, pipe, Locked
  <1>7. ReadersWoken'
    BY <1>1, <1>4, <1>5 DEF IInv, ReadersWoken, pipe, Empty, Locked, At
  <1>8. WritersWoken'
    BY <1>4, <1>5 DEF WritersWoken, Locked
  <1>9. QED
    BY <1>6, <1>7, <1>8 DEF IInv

-----------------------------------------------------------------------------
\* wakeup() under the lock of nobody: it only moves sleepers, none of them a holder.
LEMMA WokenFree ==
  ASSUME IInv, NEW l \in Asleep, thr' = Awoken(thr, l)
  PROVE  /\ thr' \in [Proc -> ThrType]
         /\ \A q \in Proc : thr'[q].pc \in Locked <=> thr[q].pc \in Locked
         /\ \A q \in Proc : thr[q].pc = l => thr'[q].pc \in {"read_enter", "write_enter"}
         /\ \A q \in Proc : thr[q].pc # l => thr'[q] = thr[q]
  <1>1. thr \in [Proc -> ThrType]
    BY DEF IInv, TypeOK, ThrType
  <1>2. QED
    BY <1>1, AwokenType DEF Locked, Asleep

\* The last one out closes an end: whoever sleeps for it is woken.
LEMMA CloseStep ==
  ASSUME IInv, NEW p \in Proc, Close(p)
  PROVE  IInv'
  <1>1. PICK e \in fds[p] :
          /\ fds' = [fds EXCEPT ![p] = @ \ {e}]
          /\ IF LastOpen(p, e) THEN PipeClose(e) ELSE UNCHANGED <<readopen, writeopen, thr>>
    BY DEF Close
  <1>2. lock = NoProc /\ UNCHANGED <<data, nread, nwrite, lock, killed>>
    BY DEF Close
  <1>3. e \in {"read", "write"} /\ fds' \in [Proc -> SUBSET {"read", "write"}]
    BY <1>1 DEF IInv, TypeOK
  <1>4. \A q \in Proc : lock # q
    BY <1>2, PipeAssumption
  <1>5. CASE ~ LastOpen(p, e)
    <2>1. UNCHANGED <<readopen, writeopen, thr>>
      BY <1>1, <1>5
    <2>2. TypeOK'
      BY <1>2, <1>3, <2>1 DEF IInv, TypeOK
    <2>3. ReadersWoken' /\ WritersWoken'
      BY <1>2, <2>1 DEF IInv, ReadersWoken, WritersWoken, Empty, Full, At
    <2>4. QED
      BY <2>2, <2>3 DEF IInv
  <1>6. CASE LastOpen(p, e)
    <2> DEFINE l == IF e = "read" THEN "write_asleep" ELSE "read_asleep"
    <2>1. /\ readopen' = (readopen /\ e # "read") /\ writeopen' = (writeopen /\ e # "write")
          /\ thr' = Awoken(thr, l)
      BY <1>1, <1>6 DEF PipeClose, Wakeup
    <2>2. l \in Asleep /\ (l = "write_asleep" <=> e = "read")
          /\ (l = "read_asleep" <=> e = "write")
      BY <1>3 DEF Asleep
    <2> HIDE DEF l
    <2>3. /\ thr' \in [Proc -> ThrType]
          /\ \A q \in Proc : thr'[q].pc \in Locked <=> thr[q].pc \in Locked
          /\ \A q \in Proc : thr[q].pc = l => thr'[q].pc \in {"read_enter", "write_enter"}
          /\ \A q \in Proc : thr[q].pc # l => thr'[q] = thr[q]
      BY <2>1, <2>2, WokenFree
    <2>4. \A q \in Proc : thr[q].pc \notin Locked
      BY <1>4 DEF IInv, TypeOK
    <2>5. TypeOK'
      <3>1. readopen' \in BOOLEAN /\ writeopen' \in BOOLEAN
        BY <2>1
      <3>2. UNCHANGED <<data, nread, nwrite>> /\ lock' \in Proc \cup {NoProc}
            /\ killed' \subseteq Proc
        BY <1>2 DEF IInv, TypeOK
      <3>3. \A q \in Proc : lock' = q <=> thr'[q].pc \in Locked
        BY <1>2, <1>4, <2>3, <2>4
      <3>4. QED
        BY <1>3, <2>3, <3>1, <3>2, <3>3, TypeFrom DEF IInv
    <2>6. ReadersWoken'
      BY <1>2, <1>3, <1>4, <2>1, <2>2, <2>3, <2>4 DEF IInv, ReadersWoken, Empty, At, Locked
    <2>7. WritersWoken'
      BY <1>2, <1>3, <1>4, <2>1, <2>2, <2>3, <2>4 DEF IInv, WritersWoken, Full, Locked
    <2>8. QED
      BY <2>5, <2>6, <2>7 DEF IInv
  <1>7. QED
    BY <1>5, <1>6

\* kill() only moves a sleeper; on one CPU nobody is in the pipe then.
LEMMA KillStep ==
  ASSUME IInv, NEW p \in Proc, Kill(p)
  PROVE  IInv'
  <1> DEFINE l == CASE At(p, "read_asleep")  -> "read_enter"
                    [] At(p, "write_asleep") -> "write_enter"
                    [] OTHER -> thr[p].pc
  <1>1. /\ thr' = [thr EXCEPT ![p].pc = l] /\ UNCHANGED <<pipe, lock, fds>>
        /\ killed' = killed \cup {p} /\ (OneCPU => lock = NoProc)
    BY DEF Kill, Goto, Moved
  <1>2. /\ l \in Labels /\ (l \in Locked <=> thr[p].pc \in Locked)
        /\ (l # thr[p].pc => l \in {"read_enter", "write_enter"})
    BY DEF At, IInv, TypeOK, Labels, Locked
  <1> HIDE DEF l
  <1>3. /\ thr' \in [Proc -> ThrType] /\ thr'[p].pc = l
        /\ \A q \in Proc : q # p => thr'[q] = thr[q]
    BY <1>1, <1>2 DEF IInv, TypeOK, ThrType
  <1>4. TypeOK'
    <2>1. \A q \in Proc : lock' = q <=> thr'[q].pc \in Locked
      BY <1>1, <1>2, <1>3 DEF IInv, TypeOK
    <2>2. /\ UNCHANGED <<data, nread, nwrite>> /\ readopen' \in BOOLEAN /\ writeopen' \in BOOLEAN
          /\ lock' \in Proc \cup {NoProc} /\ killed' \subseteq Proc
          /\ fds' \in [Proc -> SUBSET {"read", "write"}]
      BY <1>1 DEF IInv, TypeOK, pipe
    <2>3. QED
      BY <1>3, <2>1, <2>2, TypeFrom DEF IInv
  <1>5. ReadersWoken'
    <2>1. OneCPU => \A h \in Proc : lock # h
      BY <1>1, PipeAssumption
    <2>2. QED
      BY <1>1, <1>2, <1>3, <2>1 DEF IInv, ReadersWoken, pipe, Empty
  <1>6. WritersWoken'
    <2>1. \A q \in Proc : thr'[q].pc \in {"write_sleep", "write_asleep"} => thr'[q].pc = thr[q].pc
      BY <1>2, <1>3
    <2>2. \A q \in Proc : thr[q].pc \in {"read_copy", "read_done"} => thr'[q].pc = thr[q].pc
      BY <1>2, <1>3 DEF Locked
    <2>3. QED
      BY <1>1, <2>1, <2>2 DEF IInv, WritersWoken, pipe, Full
  <1>7. QED
    BY <1>4, <1>5, <1>6 DEF IInv

-----------------------------------------------------------------------------
\* A new pipe: nobody sleeps.
LEMMA InitInv == Init => IInv
  <1> SUFFICES ASSUME Init PROVE IInv
    OBVIOUS
  <1>1. thr \in [Proc -> ThrType] /\ \A p \in Proc : thr[p].pc = "idle"
    BY IdleType DEF Init, Idle
  <1>2. TypeOK
    BY <1>1, PipeAssumption DEF Init, TypeOK, ThrType, Locked
  <1>3. QED
    BY <1>1, <1>2 DEF IInv, ReadersWoken, WritersWoken

\* Every step preserves the invariant.
LEMMA NextInv == IInv /\ [Next]_vars => IInv'
  <1> SUFFICES ASSUME IInv, [Next]_vars PROVE IInv'
    OBVIOUS
  <1>1. CASE UNCHANGED vars
    BY <1>1 DEF IInv, TypeOK, ReadersWoken, WritersWoken, vars, pipe, Empty, Full, At
  <1>2. CASE Next
    <2>1. PICK p \in Proc : Call(p) \/ Acquire(p) \/ KernelStep(p) \/ Close(p) \/ Kill(p)
      BY <1>2 DEF Next
    <2>2. KernelStep(p) => Sleep(p) \/ WriteStep(p) \/ ReadStep(p)
      BY DEF KernelStep
    <2>3. WriteStep(p) => IInv'
      BY WriteFailStep, WriteFullStep, WriteByteStep, WriteDoneStep DEF WriteStep
    <2>4. ReadStep(p) => IInv'
      BY ReadWaitStep, ReadStartStep, ReadByteStep, ReadDoneStep DEF ReadStep
    <2>5. QED
      BY <2>1, <2>2, <2>3, <2>4, CallStep, AcquireStep, SleepStep, CloseStep, KillStep
  <1>3. QED
    BY <1>1, <1>2

\* The inductive invariant holds in every reachable state.
THEOREM Invariance == Spec => []IInv
  BY InitInv, NextInv, PTL DEF Spec

\* Type correctness: the counters stay in their range, and a process is in a critical
\* section exactly if it holds pi->lock, on any number of CPUs.
THEOREM TypeCorrect == Spec => []TypeOK
  <1>1. IInv => TypeOK
    BY DEF IInv
  <1>2. QED
    BY Invariance, <1>1, PTL

\* On one CPU no wakeup is lost: while nobody is in the pipe, a reader sleeps only on an
\* empty pipe that may still be written, a writer only on a full one that may be read.
THEOREM NoLost == ASSUME OneCPU PROVE Spec => []NoLostWakeup
  <1>1. IInv => NoLostWakeup
    <2> SUFFICES ASSUME IInv, lock = NoProc, NEW p \in Proc
                 PROVE  /\ At(p, "read_asleep")  => Empty /\ writeopen
                        /\ At(p, "write_asleep") => Full /\ readopen
      BY DEF NoLostWakeup
    <2>1. \A h \in Proc : lock # h
      BY PipeAssumption
    <2>2. QED
      BY <2>1, OneCPU DEF IInv, ReadersWoken, WritersWoken, At
  <1>2. QED
    BY Invariance, <1>1, PTL

\* On any number of CPUs no writer misses a wakeup: only readers can, when a writer is
\* killed after it wrote.
THEOREM WritersNeverLost ==
  Spec => [](lock = NoProc => \A p \in Proc : At(p, "write_asleep") => Full /\ readopen)
  <1>1. IInv => (lock = NoProc => \A p \in Proc : At(p, "write_asleep") => Full /\ readopen)
    BY PipeAssumption DEF IInv, WritersWoken, At
  <1>2. QED
    BY Invariance, <1>1, PTL

-----------------------------------------------------------------------------
\* The writers never lap the readers; an end is open while anybody has it; and who is
\* in a call has its end.
Ring ==
  /\ Count <= PIPESIZE
  /\ \A p \in Proc : /\ "read" \in fds[p] => readopen
                     /\ "write" \in fds[p] => writeopen
                     /\ p \in Reading => "read" \in fds[p]
                     /\ p \in Writing => "write" \in fds[p]

-----------------------------------------------------------------------------
\* Sequences of one length with the same elements are the same.
LEMMA SameSeq ==
  ASSUME NEW S, NEW u \in Seq(S), NEW v \in Seq(S), NEW n \in Nat, Len(u) = n, Len(v) = n,
         \A k \in 1 .. n : u[k] = v[k]
  PROVE  u = v
  OBVIOUS

-----------------------------------------------------------------------------
\* What the ring needs of the constants.
LEMMA Sizing ==
  /\ PIPESIZE \in Nat \ {0} /\ UINT \in Nat \ {0} /\ PIPESIZE < UINT
  /\ Divides(PIPESIZE, UINT)
  BY PipeAssumption DEF Divides

\* The pipe is empty or full as the number of bytes in the ring says.
LEMMA Counts ==
  ASSUME TypeOK
  PROVE  /\ Count \in 0 .. UINT - 1
         /\ Empty <=> Count = 0
         /\ Count <= PIPESIZE => (Full <=> Count = PIPESIZE)
<1>1. nread \in 0 .. UINT - 1 /\ nwrite \in 0 .. UINT - 1
  BY DEF TypeOK
<1>2. Count = IF nread <= nwrite THEN nwrite - nread ELSE nwrite - nread + UINT
  <2>1. Count = InUse(nread, nwrite, UINT)
    BY DEF Count, InUse
  <2>2. QED BY <1>1, <2>1, Sizing, Distance
<1>3. (nread + PIPESIZE) % UINT = IF nread + PIPESIZE < UINT THEN nread + PIPESIZE
                                  ELSE nread + PIPESIZE - UINT
  <2> DEFINE x == nread + PIPESIZE
  <2>1. x \in Int /\ 0 <= x /\ x - UINT < UINT
    BY <1>1, Sizing
  <2> HIDE DEF x
  <2>2. CASE x < UINT
    <3>1. Rem(x, UINT) = x
      BY <2>1, <2>2, Sizing, Below
    <3>2. QED BY <2>2, <3>1 DEF x, Rem
  <2>3. CASE UINT <= x
    <3>1. Rem(x, UINT) = x - UINT
      BY <2>1, <2>3, Sizing, Above
    <3>2. QED BY <1>1, <2>3, <3>1, Sizing DEF x, Rem
  <2>4. QED BY <2>1, <2>2, <2>3, Sizing
<1>4. Count \in 0 .. UINT - 1 /\ (Empty <=> Count = 0)
  BY <1>1, <1>2, Sizing DEF Empty
<1>5. Count <= PIPESIZE => (Full <=> Count = PIPESIZE)
  BY <1>1, <1>2, <1>3, Sizing DEF Full
<1>6. QED BY <1>4, <1>5

LEMMA QueueIs ==
  ASSUME TypeOK
  PROVE  /\ Queue \in Seq(Byte) /\ Len(Queue) = Count
         /\ \A k \in 1 .. Count : Queue[k] = data[Place(nread, k - 1, PIPESIZE)]
<1>1. Count \in Nat /\ nread \in Nat
  BY Counts, Sizing DEF TypeOK
<1>2. \A k \in 1 .. Count : data[Place(nread, k - 1, PIPESIZE)] \in Byte
  <2> TAKE k \in 1 .. Count
  <2> DEFINE i == k - 1
  <2>1. i \in Nat
    BY <1>1
  <2> HIDE DEF i
  <2>2. Place(nread, i, PIPESIZE) \in 0 .. PIPESIZE - 1
    BY <1>1, <2>1, Sizing, PlaceType
  <2>3. data[Place(nread, i, PIPESIZE)] \in Byte
    BY <2>2 DEF TypeOK
  <2>4. QED BY <2>3 DEF i
<1>3. Queue = [k \in 1 .. Count |-> data[Place(nread, k - 1, PIPESIZE)]]
  <2>1. \A k \in 1 .. Count : nread + k - 1 = nread + (k - 1)
    BY <1>1
  <2>2. QED BY <2>1 DEF Queue, Place
<1> HIDE DEF Count, Queue
<1>4. Queue \in Seq(Byte) /\ Len(Queue) = Count
  BY <1>1, <1>2, <1>3
<1>5. QED BY <1>3, <1>4

\* The same of the next state.
Shape ==
  TypeOK =>
    /\ Queue \in Seq(Byte) /\ Len(Queue) = Count
    /\ \A k \in 1 .. Count : Queue[k] = data[Place(nread, k - 1, PIPESIZE)]

LEMMA ShapeNow == Shape
  BY QueueIs DEF Shape

LEMMA ShapeNext == Shape'
  BY ShapeNow, PTL

\* WriteByte puts a byte at the end of the queue: no other byte of it is overwritten.
LEMMA WriteSends ==
  ASSUME TypeOK, TypeOK', Count <= PIPESIZE, ~ Full, NEW b \in Byte,
         data' = [data EXCEPT ![nwrite % PIPESIZE] = b],
         nwrite' = (nwrite + 1) % UINT, nread' = nread
  PROVE  Count' = Count + 1 /\ Count' <= PIPESIZE /\ Queue' = Append(Queue, b)
<1>1. nread \in 0 .. UINT - 1 /\ nwrite \in 0 .. UINT - 1
  BY DEF TypeOK
<1>2. Count \in 0 .. PIPESIZE - 1
  BY Sizing, Counts
<1>3. Count' = Count + 1 /\ Count' <= PIPESIZE
  <2>1. Count = InUse(nread, nwrite, UINT) /\ Count' = InUse(nread, After(nwrite, UINT), UINT)
    BY DEF Count, InUse, After
  <2>2. InUse(nread, nwrite, UINT) + 1 < UINT
    BY <1>2, <2>1, Sizing
  <2>3. QED BY <1>1, <1>2, <2>1, <2>2, Sizing, OneMore
<1> DEFINE w == nwrite % PIPESIZE
<1>4. w \in 0 .. PIPESIZE - 1 /\ w = Place(nread, Count, PIPESIZE)
  <2>1. Count = InUse(nread, nwrite, UINT)
    BY DEF Count, InUse
  <2>2. QED BY <1>1, <2>1, Sizing, Behind
<1>5. data' = [data EXCEPT ![w] = b] /\ data \in [0 .. PIPESIZE - 1 -> Byte]
  BY DEF TypeOK
<1>6. /\ Queue' \in Seq(Byte) /\ Len(Queue') = Count'
      /\ \A k \in 1 .. Count' : Queue'[k] = data'[Place(nread', k - 1, PIPESIZE)]
  BY ShapeNext DEF Shape
<1>7. /\ Queue \in Seq(Byte) /\ Len(Queue) = Count
      /\ \A k \in 1 .. Count : Queue[k] = data[Place(nread, k - 1, PIPESIZE)]
  BY QueueIs
<1> HIDE DEF Count, Queue, w
<1>8. ASSUME NEW k \in 1 .. Count
      PROVE  Queue'[k] = Queue[k]
  <2> DEFINE i == k - 1
  <2> DEFINE x == Place(nread, i, PIPESIZE)
  <2>1. i \in 0 .. PIPESIZE - 1 /\ i # Count /\ Count \in 0 .. PIPESIZE - 1 /\ nread \in Nat
    BY <1>1, <1>2, Sizing
  <2>2. Queue'[k] = data'[x] /\ Queue[k] = data[x]
    BY <1>2, <1>3, <1>6, <1>7
  <2> HIDE DEF i
  <2>3. x \in 0 .. PIPESIZE - 1 /\ x # w
    <3>1. x # w
      BY <1>4, <2>1, Sizing, Distinct
    <3>2. QED BY <2>1, <3>1, Sizing, PlaceType
  <2> HIDE DEF x
  <2>4. QED BY <1>5, <2>2, <2>3
<1>9. Queue'[Count + 1] = b
  <2>1. Count + 1 \in 1 .. Count' /\ (Count + 1) - 1 = Count
    BY <1>2, <1>3
  <2>2. Queue'[Count + 1] = data'[Place(nread, Count, PIPESIZE)]
    BY <1>6, <2>1
  <2>3. QED BY <1>4, <1>5, <2>2
<1>10. Queue' = Append(Queue, b)
  <2>1. Append(Queue, b) \in Seq(Byte) /\ Len(Append(Queue, b)) = Count + 1
        /\ \A k \in 1 .. Count : Append(Queue, b)[k] = Queue[k]
        /\ Append(Queue, b)[Count + 1] = b
    BY <1>2, <1>7
  <2>2. \A k \in 1 .. Count + 1 : Queue'[k] = Append(Queue, b)[k]
    BY <1>2, <1>8, <1>9, <2>1
  <2>3. Count + 1 \in Nat /\ Len(Queue') = Count + 1
    BY <1>2, <1>3, <1>6
  <2>4. QED BY <1>6, <2>1, <2>2, <2>3, SameSeq
<1>11. QED BY <1>3, <1>10

\* ReadByte takes the byte at the front, also when nread wraps around.
LEMMA ReadReceives ==
  ASSUME TypeOK, TypeOK', Count <= PIPESIZE, ~ Empty,
         data' = data, nread' = (nread + 1) % UINT, nwrite' = nwrite
  PROVE  Count' = Count - 1 /\ Queue # <<>> /\ Queue' = Tail(Queue)
<1>1. nread \in 0 .. UINT - 1 /\ nwrite \in 0 .. UINT - 1
  BY DEF TypeOK
<1>2. Count \in 1 .. PIPESIZE
  BY Sizing, Counts
<1>3. Count' = Count - 1
  <2>1. Count = InUse(nread, nwrite, UINT) /\ Count' = InUse(After(nread, UINT), nwrite, UINT)
    BY DEF Count, InUse, After
  <2>2. nread # nwrite
    BY DEF Empty
  <2>3. QED BY <1>1, <2>1, <2>2, Sizing, OneLess
<1>4. /\ Queue' \in Seq(Byte) /\ Len(Queue') = Count'
      /\ \A k \in 1 .. Count' : Queue'[k] = data'[Place(nread', k - 1, PIPESIZE)]
  BY ShapeNext DEF Shape
<1>5. /\ Queue \in Seq(Byte) /\ Len(Queue) = Count
      /\ \A k \in 1 .. Count : Queue[k] = data[Place(nread, k - 1, PIPESIZE)]
  BY QueueIs
<1> HIDE DEF Count, Queue
<1>6. ASSUME NEW k \in 1 .. Count - 1
      PROVE  Queue'[k] = Queue[k + 1]
  <2> DEFINE i == k - 1
  <2>1. i \in Nat /\ k + 1 \in 1 .. Count /\ (k + 1) - 1 = i + 1 /\ k \in 1 .. Count'
    BY <1>2, <1>3
  <2>2. Queue'[k] = data[Place(nread', i, PIPESIZE)]
    BY <1>4, <2>1
  <2>3. Queue[k + 1] = data[Place(nread, i + 1, PIPESIZE)]
    BY <1>5, <2>1
  <2> HIDE DEF i
  <2>4. nread' = After(nread, UINT)
    BY DEF After
  <2>5. Place(After(nread, UINT), i, PIPESIZE) = Place(nread, i + 1, PIPESIZE)
    BY <1>1, <2>1, Sizing, Onwards
  <2>6. QED BY <2>2, <2>3, <2>4, <2>5
<1>7. Queue' = Tail(Queue)
  <2>1. Tail(Queue) \in Seq(Byte) /\ Len(Tail(Queue)) = Count - 1
        /\ \A k \in 1 .. Count - 1 : Tail(Queue)[k] = Queue[k + 1]
    BY <1>2, <1>5
  <2>2. \A k \in 1 .. Count - 1 : Queue'[k] = Tail(Queue)[k]
    BY <1>6, <2>1
  <2>3. Count - 1 \in Nat /\ Len(Queue') = Count - 1
    BY <1>2, <1>3, <1>4
  <2>4. QED BY <1>4, <2>1, <2>2, <2>3, SameSeq
<1>8. Queue # <<>>
  BY <1>2, <1>5
<1>9. QED BY <1>3, <1>7, <1>8

-----------------------------------------------------------------------------
ReadPcs  == {"read_enter", "read", "read_sleep", "read_asleep", "read_copy", "read_done"}
WritePcs == {"write_enter", "write", "write_sleep", "write_asleep"}

\* Nobody enters the pipe but by a call.
Stays == \A q \in Proc : /\ q \in Reading' => q \in Reading
                         /\ q \in Writing' => q \in Writing

\* One process goes on in its call or returns, and sleepers are woken.
LEMMA GoesOn ==
  ASSUME TypeOK, NEW p \in Proc, NEW r \in ThrType, NEW l \in Asleep,
         \/ thr' = [thr EXCEPT ![p] = r]
         \/ thr' = Awoken([thr EXCEPT ![p] = r], l),
         \/ r.pc = "idle"
         \/ thr[p].pc \in ReadPcs /\ r.pc \in ReadPcs
         \/ thr[p].pc \in WritePcs /\ r.pc \in WritePcs
  PROVE  Stays
<1> DEFINE t == [thr EXCEPT ![p] = r]
<1>1. /\ t \in [Proc -> ThrType] /\ t[p] = r
      /\ \A q \in Proc : q # p => t[q] = thr[q]
  BY DEF TypeOK, ThrType
<1> HIDE DEF t
<1>2. \A q \in Proc : /\ t[q].pc \in ReadPcs => thr[q].pc \in ReadPcs
                      /\ t[q].pc \in WritePcs => thr[q].pc \in WritePcs
  BY <1>1 DEF ReadPcs, WritePcs
<1>3. \A q \in Proc : /\ thr'[q].pc \in ReadPcs => t[q].pc \in ReadPcs
                      /\ thr'[q].pc \in WritePcs => t[q].pc \in WritePcs
  <2>1. CASE thr' = t
    BY <2>1
  <2>2. CASE thr' = Awoken(t, l)
    BY <1>1, <2>2, AwokenType DEF ReadPcs, WritePcs, Asleep
  <2>3. QED BY <2>1, <2>2 DEF t
<1>4. QED BY <1>2, <1>3 DEF Stays, Reading, Writing, ReadPcs, WritePcs

LEMMA LabelType ==
  ASSUME TypeOK, NEW p \in Proc, NEW l \in Labels
  PROVE  /\ [thr[p] EXCEPT !.pc = l] \in ThrType /\ [thr[p] EXCEPT !.pc = l].pc = l
         /\ [thr EXCEPT ![p].pc = l] = [thr EXCEPT ![p] = [thr[p] EXCEPT !.pc = l]]
  BY DEF TypeOK, ThrType

\* The steps that neither move a byte nor close an end, and are not calls.
LEMMA StepStays ==
  ASSUME TypeOK, NEW p \in Proc,
         \/ Acquire(p) \/ Sleep(p) \/ WriteFail(p) \/ WriteFull(p) \/ WriteDone(p)
         \/ ReadWait(p) \/ ReadStart(p) \/ ReadDone(p) \/ Kill(p)
  PROVE  Stays /\ UNCHANGED <<pipe, fds>>
<1>1. UNCHANGED <<pipe, fds>>
  BY DEF Acquire, Sleep, WriteFail, WriteFull, WriteDone, ReadWait, ReadStart, ReadDone, Kill
<1>2. ASSUME NEW l \in Labels, NEW m \in Asleep,
             thr' = Moved(p, l) \/ thr' = Awoken(Moved(p, l), m),
             \/ thr[p].pc \in ReadPcs /\ l \in ReadPcs
             \/ thr[p].pc \in WritePcs /\ l \in WritePcs
      PROVE  Stays
  <2> DEFINE r == [thr[p] EXCEPT !.pc = l]
  <2>1. r \in ThrType /\ r.pc = l /\ Moved(p, l) = [thr EXCEPT ![p] = r]
    BY LabelType DEF Moved
  <2> HIDE DEF r
  <2>2. QED BY <1>2, <2>1, GoesOn
<1>3. ASSUME NEW m \in Asleep,
             \/ thr' = [thr EXCEPT ![p] = Idle]
             \/ thr' = Awoken([thr EXCEPT ![p] = Idle], m)
      PROVE  Stays
  <2>1. Idle.pc = "idle"
    BY DEF Idle
  <2>2. QED BY <1>3, <2>1, IdleType, GoesOn
<1>4. /\ ReadPcs \subseteq Labels /\ WritePcs \subseteq Labels
      /\ "read_asleep" \in Asleep /\ "write_asleep" \in Asleep
  BY DEF ReadPcs, WritePcs, Labels, Asleep, Locked
<1>5. CASE Acquire(p)
  BY <1>2, <1>4, <1>5 DEF Acquire, At, Goto, ReadPcs, WritePcs
<1>6. CASE Sleep(p)
  BY <1>2, <1>4, <1>6 DEF Sleep, At, Goto, ReadPcs, WritePcs
<1>7. CASE WriteFail(p)
  BY <1>3, <1>4, <1>7 DEF WriteFail
<1>8. CASE WriteFull(p)
  BY <1>2, <1>4, <1>8 DEF WriteFull, At, WritePcs
<1>9. CASE WriteDone(p)
  BY <1>3, <1>4, <1>9 DEF WriteDone
<1>10. CASE ReadWait(p)
  <2>1. CASE p \in killed
    BY <1>3, <1>4, <1>10, <2>1 DEF ReadWait
  <2>2. CASE p \notin killed
    BY <1>2, <1>4, <1>10, <2>2 DEF ReadWait, At, Goto, ReadPcs
  <2>3. QED BY <2>1, <2>2
<1>11. CASE ReadStart(p)
  BY <1>2, <1>4, <1>11 DEF ReadStart, At, Goto, ReadPcs
<1>12. CASE ReadDone(p)
  BY <1>3, <1>4, <1>12 DEF ReadDone
<1>13. CASE Kill(p)
  <2> DEFINE l == CASE At(p, "read_asleep")  -> "read_enter"
                    [] At(p, "write_asleep") -> "write_enter"
                    [] OTHER -> thr[p].pc
  <2>1. thr' = Moved(p, l)
    BY <1>13 DEF Kill, Goto
  <2>2. \/ thr[p].pc = "read_asleep" /\ l = "read_enter"
        \/ thr[p].pc = "write_asleep" /\ l = "write_enter"
        \/ l = thr[p].pc
    BY DEF At
  <2> HIDE DEF l
  <2>3. CASE l = thr[p].pc
    <3>1. \A q \in Proc : thr'[q].pc = thr[q].pc
      BY <2>1, <2>3 DEF Moved, TypeOK, ThrType
    <3>2. QED BY <1>1, <3>1 DEF Stays, Reading, Writing
  <2>4. CASE thr[p].pc = "read_asleep" /\ l = "read_enter"
    <3>1. thr[p].pc \in ReadPcs /\ l \in ReadPcs
      BY <2>4 DEF ReadPcs
    <3>2. QED BY <1>1, <1>2, <1>4, <2>1, <3>1
  <2>5. CASE thr[p].pc = "write_asleep" /\ l = "write_enter"
    <3>1. thr[p].pc \in WritePcs /\ l \in WritePcs
      BY <2>5 DEF WritePcs
    <3>2. QED BY <1>1, <1>2, <1>4, <2>1, <3>1
  <2>6. QED BY <2>2, <2>3, <2>4, <2>5
<1>14. QED BY <1>1, <1>5, <1>6, <1>7, <1>8, <1>9, <1>10, <1>11, <1>12, <1>13

-----------------------------------------------------------------------------
\* What every step does: Ring is preserved, and Channel makes a step or none.
Quiet == UNCHANGED <<Queue, readopen, writeopen>>
Refines == Ring' /\ (Fifo!Next \/ Quiet)

LEMMA QuietStep ==
  ASSUME TypeOK, Ring, UNCHANGED <<pipe, fds>>,
         \A q \in Proc : /\ q \in Reading' => q \in Reading \/ "read" \in fds[q]
                         /\ q \in Writing' => q \in Writing \/ "write" \in fds[q]
  PROVE  Refines
<1>1. Count' = Count /\ Queue' = Queue
  BY DEF pipe, Count, Queue
<1>2. Ring'
  BY <1>1 DEF Ring, pipe
<1>3. QED BY <1>1, <1>2 DEF Refines, Quiet, pipe

LEMMA CallRefines ==
  ASSUME TypeOK, Ring, NEW p \in Proc, Call(p)
  PROVE  Refines
<1>1. PICK e \in fds[p], n \in Sizes :
        thr' = [thr EXCEPT ![p] = [pc |-> IF e = "read" THEN "read_enter" ELSE "write_enter",
                                   n |-> n, i |-> 0]]
  BY DEF Call
<1>2. UNCHANGED <<pipe, fds>> /\ e \in {"read", "write"}
  BY DEF Call, TypeOK
<1>3. /\ thr'[p].pc = IF e = "read" THEN "read_enter" ELSE "write_enter"
      /\ \A q \in Proc : q # p => thr'[q] = thr[q]
  BY <1>1 DEF TypeOK
<1>4. \A q \in Proc : /\ q \in Reading' => q \in Reading \/ "read" \in fds[q]
                      /\ q \in Writing' => q \in Writing \/ "write" \in fds[q]
  BY <1>2, <1>3 DEF Reading, Writing
<1>5. QED BY <1>2, <1>4, QuietStep

LEMMA WriteRefines ==
  ASSUME TypeOK, TypeOK', Ring, NEW p \in Proc, WriteByte(p)
  PROVE  Refines
<1>1. /\ ~ Full /\ readopen /\ thr[p].pc = "write"
      /\ nwrite' = (nwrite + 1) % UINT /\ thr' = [thr EXCEPT ![p].i = @ + 1]
      /\ UNCHANGED <<nread, readopen, writeopen, fds>>
  BY DEF WriteByte, At
<1>2. PICK b \in Byte : data' = [data EXCEPT ![nwrite % PIPESIZE] = b]
  BY DEF WriteByte
<1>3. Count' = Count + 1 /\ Count' <= PIPESIZE /\ Queue' = Append(Queue, b)
  BY <1>1, <1>2, WriteSends DEF Ring
<1>4. \A q \in Proc : thr'[q].pc = thr[q].pc
  BY <1>1 DEF TypeOK
<1>5. Ring'
  BY <1>1, <1>3, <1>4 DEF Ring, Reading, Writing
<1>6. writeopen
  BY <1>1 DEF Ring, Writing
<1>7. Len(Queue) < PIPESIZE
  BY <1>1, QueueIs, Counts, PipeAssumption DEF Ring
<1>8. Fifo!Send
  BY <1>1, <1>2, <1>3, <1>6, <1>7 DEF Fifo!Send
<1>9. QED BY <1>5, <1>8 DEF Refines, Fifo!Next

LEMMA ReadRefines ==
  ASSUME TypeOK, TypeOK', Ring, NEW p \in Proc, ReadByte(p)
  PROVE  Refines
<1>1. /\ ~ Empty /\ thr[p].pc = "read_copy" /\ nread' = (nread + 1) % UINT
      /\ \/ thr' = [thr EXCEPT ![p].i = @ + 1]
         \/ thr' = [thr EXCEPT ![p].pc = "read_done"]
      /\ UNCHANGED <<data, nwrite, readopen, writeopen, fds>>
  BY DEF ReadByte, At, Goto, Moved
<1>2. Count \in Nat /\ Count' = Count - 1 /\ Queue # <<>> /\ Queue' = Tail(Queue)
  BY <1>1, ReadReceives, Counts DEF Ring
<1>3. /\ thr'[p].pc \in {"read_copy", "read_done"}
      /\ \A q \in Proc : q # p => thr'[q] = thr[q]
  BY <1>1, SMTT(30) DEF TypeOK
<1>4. Count' <= PIPESIZE
  BY <1>2, PipeAssumption DEF Ring
<1>5. Ring'
  BY <1>1, <1>3, <1>4 DEF Ring, Reading, Writing
<1>6. readopen
  BY <1>1 DEF Ring, Reading
<1>7. Fifo!Receive
  BY <1>1, <1>2, <1>6 DEF Fifo!Receive
<1>8. QED BY <1>5, <1>7 DEF Refines, Fifo!Next

LEMMA CloseRefines ==
  ASSUME TypeOK, Ring, NEW p \in Proc, Close(p)
  PROVE  Refines
<1>1. PICK e \in fds[p] :
        /\ fds' = [fds EXCEPT ![p] = @ \ {e}]
        /\ IF LastOpen(p, e) THEN PipeClose(e) ELSE UNCHANGED <<readopen, writeopen, thr>>
  BY DEF Close
<1>2. /\ thr[p].pc = "idle" /\ e \in {"read", "write"}
      /\ UNCHANGED <<data, nread, nwrite>>
  BY DEF Close, At, TypeOK
<1>3. Count' = Count /\ Queue' = Queue
  BY <1>2 DEF Count, Queue
<1>4. /\ fds'[p] = fds[p] \ {e}
      /\ \A q \in Proc : q # p => fds'[q] = fds[q]
  BY <1>1 DEF TypeOK
<1>5. /\ Stays
      /\ thr'[p].pc = "idle"
  <2>1. CASE LastOpen(p, e)
    <3>1. PICK l \in Asleep : thr' = Awoken(thr, l)
      BY <1>1, <2>1 DEF PipeClose, Wakeup, Asleep
    <3>2. thr \in [Proc -> ThrType]
      BY DEF TypeOK, ThrType
    <3>3. QED BY <1>2, <3>1, <3>2, AwokenType DEF Stays, Reading, Writing, Asleep
  <2>2. CASE ~ LastOpen(p, e)
    BY <1>1, <1>2, <2>2 DEF Stays, Reading, Writing
  <2>3. QED BY <2>1, <2>2
<1>6. \A q \in Proc : /\ q \in Reading' => q \in Reading /\ q # p
                      /\ q \in Writing' => q \in Writing /\ q # p
  BY <1>5 DEF Stays, Reading, Writing
<1>7. CASE ~ LastOpen(p, e)
  BY <1>1, <1>3, <1>4, <1>6, <1>7 DEF Refines, Quiet, Ring
<1>8. CASE LastOpen(p, e)
  <2>1. /\ readopen' = (readopen /\ e # "read") /\ writeopen' = (writeopen /\ e # "write")
    BY <1>1, <1>8 DEF PipeClose
  <2>2. \A q \in Proc : e \notin fds'[q]
    BY <1>4, <1>8 DEF LastOpen
  <2>3. Ring'
    BY <1>2, <1>3, <1>4, <1>6, <2>1, <2>2 DEF Ring
  <2>4. CASE e = "read"
    <3>1. readopen /\ readopen' = FALSE /\ writeopen' = writeopen
      BY <2>1, <2>4 DEF Ring, TypeOK
    <3>2. QED BY <1>3, <2>3, <3>1 DEF Refines, Fifo!Next, Fifo!CloseRead
  <2>5. CASE e = "write"
    <3>1. writeopen /\ writeopen' = FALSE /\ readopen' = readopen
      BY <2>1, <2>5 DEF Ring, TypeOK
    <3>2. QED BY <1>3, <2>3, <3>1 DEF Refines, Fifo!Next, Fifo!CloseWrite
  <2>6. QED BY <1>2, <2>4, <2>5
<1>9. QED BY <1>7, <1>8

-----------------------------------------------------------------------------
LEMMA InitRefines == Init => Ring /\ Fifo!Init
<1> SUFFICES ASSUME Init PROVE Ring /\ Fifo!Init
  OBVIOUS
<1>1. TypeOK
  BY InitInv DEF IInv
<1>2. Count = 0
  BY <1>1, Counts DEF Init, Empty
<1>3. Queue = <<>>
  BY <1>1, <1>2, QueueIs
<1>4. Ring
  BY <1>2, PipeAssumption DEF Init, Idle, Ring, Reading, Writing
<1>5. QED BY <1>3, <1>4 DEF Init, Fifo!Init

LEMMA NextRefines == IInv /\ IInv' /\ Ring /\ [Next]_vars => Ring' /\ [Fifo!Next]_(Fifo!vars)
<1> SUFFICES ASSUME IInv, IInv', Ring, [Next]_vars PROVE Refines
  BY DEF Refines, Quiet, Fifo!vars
<1>1. TypeOK /\ TypeOK'
  BY DEF IInv
<1>2. CASE UNCHANGED vars
  <2>1. UNCHANGED <<pipe, fds>> /\ thr' = thr
    BY <1>2 DEF vars
  <2>2. QED BY <1>1, <2>1, QuietStep DEF Reading, Writing
<1>3. CASE Next
  <2>1. PICK p \in Proc : Call(p) \/ Acquire(p) \/ KernelStep(p) \/ Close(p) \/ Kill(p)
    BY <1>3 DEF Next
  <2>2. CASE Stays /\ UNCHANGED <<pipe, fds>>
    BY <1>1, <2>2, QuietStep DEF Stays
  <2>3. CASE KernelStep(p)
    BY <1>1, <2>2, <2>3, StepStays, WriteRefines, ReadRefines
       DEF KernelStep, WriteStep, ReadStep
  <2>4. QED
    BY <1>1, <2>1, <2>2, <2>3, StepStays, CallRefines, CloseRefines
<1>4. QED BY <1>2, <1>3

\* A pipe is a bounded FIFO of bytes that go in while both ends are open: no byte is lost
\* but by piperead(), none is duplicated, reordered or overwritten, whatever the counters'
\* wraparound and however many processes share the ends.
THEOREM PipeImplementsChannel == Spec => BoundedFifo
<1>1. Spec => []IInv
  BY Invariance
<1>2. QED BY <1>1, InitRefines, NextRefines, PTL DEF Spec, BoundedFifo, Fifo!Spec
=============================================================================
