---------------------------- MODULE VirtioProofs ----------------------------
(***************************************************************************)
(* The disk driver keeps its descriptors, answers every completion to the  *)
(* request it belongs to, and implements DiskService, for every number of  *)
(* processes, ring size and width of the ring indices.                     *)
(*                                                                         *)
(* The argument.  A request in flight is at exactly one place: about to be *)
(* published, in the avail ring, with the device, in the used ring, or     *)
(* done.  The entries in use of the two rings are the heads of different   *)
(* requests, each with three descriptors of its own; so a ring has room    *)
(* for the next one, though nothing in the driver checks it.               *)
(***************************************************************************)
EXTENDS VirtioDisk, FiniteSetTheorems, TLAPS

-----------------------------------------------------------------------------
(***************************************************************************)
(* The avail and used rings: n entries, two indices that count modulo u, a *)
(* multiple of n, and wrap around.  lo is the index of the oldest entry,   *)
(* hi the one behind the newest.                                           *)
(***************************************************************************)
\* Division, by name: the lemmas are then found by the names.
Rem(x, d)     == x % d
Divides(n, u) == u % n = 0
Splits(x, d, q, rest) == x = d * q + rest

\* The entries in use; the index after x; the place in the ring of entry k (0 is the oldest).
InUse(lo, hi, u) == (hi - lo) % u
After(x, u)      == (x + 1) % u
Place(lo, k, n)  == (lo + k) % n

\* A remainder is what the definition of % says, and nothing else.
LEMMA Remainder ==
  ASSUME NEW d \in Nat \ {0}, NEW x \in Int, NEW q \in Int, NEW rest \in 0 .. d - 1,
         Splits(x, d, q, rest)
  PROVE  Rem(x, d) = rest
<1> DEFINE q2 == x \div d
<1> DEFINE rest2 == x % d
<1>1. q2 \in Int /\ rest2 \in 0 .. d - 1 /\ x = d * q2 + rest2
  OBVIOUS
<1> HIDE DEF q2, rest2
<1>2. d * (q - q2) = rest2 - rest
  BY <1>1 DEF Splits
<1>3. q - q2 <= 0
  <2>1. SUFFICES ASSUME q - q2 >= 1 PROVE FALSE
    BY <1>1
  <2>2. d * (q - q2) >= d
    BY <1>1, <2>1
  <2>3. QED BY <1>1, <1>2, <2>2
<1>4. q - q2 >= 0
  <2>1. SUFFICES ASSUME q2 - q >= 1 PROVE FALSE
    BY <1>1
  <2>2. d * (q2 - q) >= d
    BY <1>1, <2>1
  <2>3. d * (q2 - q) = rest - rest2
    BY <1>1 DEF Splits
  <2>4. QED BY <1>1, <2>2, <2>3
<1>5. q = q2
  BY <1>1, <1>3, <1>4
<1>6. rest = rest2
  BY <1>1, <1>5 DEF Splits
<1>7. QED BY <1>6 DEF rest2, Rem

LEMMA Below ==
  ASSUME NEW d \in Nat \ {0}, NEW x \in Int, 0 <= x, x < d
  PROVE  Rem(x, d) = x
<1> DEFINE q == 0
<1>1. Splits(x, d, q, x) /\ x \in 0 .. d - 1 /\ q \in Int
  BY DEF Splits
<1> HIDE DEF q
<1>2. QED BY <1>1, Remainder

LEMMA Above ==
  ASSUME NEW d \in Nat \ {0}, NEW x \in Int, d <= x, x - d < d
  PROVE  Rem(x, d) = x - d
<1> DEFINE q == 1
<1>1. Splits(x, d, q, x - d) /\ x - d \in 0 .. d - 1 /\ q \in Int
  BY DEF Splits
<1> HIDE DEF q
<1>2. QED BY <1>1, Remainder

LEMMA Negative ==
  ASSUME NEW d \in Nat \ {0}, NEW x \in Int, 0 - d <= x, x < 0
  PROVE  Rem(x, d) = x + d
<1>1. Splits(x, d, 0 - 1, x + d) /\ x + d \in 0 .. d - 1 /\ 0 - 1 \in Int
  BY DEF Splits
<1>2. QED BY <1>1, Remainder

-----------------------------------------------------------------------------
\* An index that is incremented.
LEMMA Incremented ==
  ASSUME NEW u \in Nat \ {0}, NEW x \in 0 .. u - 1
  PROVE  /\ After(x, u) = IF x + 1 < u THEN x + 1 ELSE 0
         /\ After(x, u) \in 0 .. u - 1
<1> DEFINE y == x + 1
<1>1. y \in Int /\ 0 <= y /\ y <= u /\ y - u < u
  OBVIOUS
<1> HIDE DEF y
<1>2. ASSUME y < u PROVE (x + 1) % u = x + 1
  <2>1. Rem(y, u) = y
    BY <1>1, <1>2, Below
  <2>2. QED BY <1>2, <2>1 DEF y, Rem
<1>3. ASSUME y = u PROVE (x + 1) % u = 0
  <2>1. Rem(y, u) = y - u
    BY <1>1, <1>3, Above
  <2>2. QED BY <1>1, <1>3, <2>1 DEF y, Rem
<1>4. (x + 1) % u = IF x + 1 < u THEN x + 1 ELSE 0
  BY <1>1, <1>2, <1>3 DEF y
<1>5. QED BY <1>4 DEF After

\* How far hi is ahead of lo.
LEMMA Distance ==
  ASSUME NEW u \in Nat \ {0}, NEW lo \in 0 .. u - 1, NEW hi \in 0 .. u - 1
  PROVE  /\ InUse(lo, hi, u) = IF lo <= hi THEN hi - lo ELSE hi - lo + u
         /\ InUse(lo, hi, u) \in 0 .. u - 1
         /\ hi = lo <=> InUse(lo, hi, u) = 0
<1> DEFINE x == hi - lo
<1>1. x \in Int /\ 0 - u <= x /\ x < u /\ (0 <= x <=> lo <= hi)
  OBVIOUS
<1> HIDE DEF x
<1>2. Rem(x, u) = IF 0 <= x THEN x ELSE x + u
  <2>1. CASE 0 <= x
    BY <1>1, <2>1, Below
  <2>2. CASE x < 0
    BY <1>1, <2>2, Negative
  <2>3. QED BY <1>1, <2>1, <2>2
<1>3. (hi - lo) % u = IF lo <= hi THEN hi - lo ELSE hi - lo + u
  BY <1>1, <1>2 DEF x, Rem
<1>4. QED BY <1>3 DEF InUse

\* One entry more, unless the ring's indices cannot tell a full one from an empty one.
LEMMA OneMore ==
  ASSUME NEW u \in Nat \ {0}, NEW lo \in 0 .. u - 1, NEW hi \in 0 .. u - 1,
         InUse(lo, hi, u) + 1 < u
  PROVE  InUse(lo, After(hi, u), u) = InUse(lo, hi, u) + 1
<1>1. /\ After(hi, u) = IF hi + 1 < u THEN hi + 1 ELSE 0
      /\ After(hi, u) \in 0 .. u - 1
  BY Incremented
<1>2. InUse(lo, hi, u) = IF lo <= hi THEN hi - lo ELSE hi - lo + u
  BY Distance
<1>3. InUse(lo, After(hi, u), u) = IF lo <= After(hi, u) THEN After(hi, u) - lo
                                   ELSE After(hi, u) - lo + u
  BY <1>1, Distance
<1>4. CASE hi + 1 < u
  BY <1>1, <1>2, <1>3, <1>4
<1>5. CASE hi + 1 = u
  BY <1>1, <1>2, <1>3, <1>5
<1>6. QED BY <1>4, <1>5

\* One entry less.
LEMMA OneLess ==
  ASSUME NEW u \in Nat \ {0}, NEW lo \in 0 .. u - 1, NEW hi \in 0 .. u - 1, lo # hi
  PROVE  InUse(After(lo, u), hi, u) = InUse(lo, hi, u) - 1
<1>1. /\ After(lo, u) = IF lo + 1 < u THEN lo + 1 ELSE 0
      /\ After(lo, u) \in 0 .. u - 1
  BY Incremented
<1>2. InUse(lo, hi, u) = IF lo <= hi THEN hi - lo ELSE hi - lo + u
  BY Distance
<1>3. InUse(After(lo, u), hi, u) = IF After(lo, u) <= hi THEN hi - After(lo, u)
                                   ELSE hi - After(lo, u) + u
  BY <1>1, Distance
<1>4. CASE lo + 1 < u
  BY <1>1, <1>2, <1>3, <1>4
<1>5. CASE lo + 1 = u
  BY <1>1, <1>2, <1>3, <1>5
<1>6. QED BY <1>4, <1>5

-----------------------------------------------------------------------------
\* n divides u: an index that wraps around goes on at the next entry.
LEMMA Around ==
  ASSUME NEW n \in Nat \ {0}, NEW u \in Nat, Divides(n, u), NEW x \in Nat
  PROVE  Rem(x + u, n) = Rem(x, n)
<1> DEFINE m == u \div n
<1> DEFINE q == x \div n
<1> DEFINE rest == x % n
<1>1. m \in Int /\ u = n * m
  BY DEF Divides
<1>2. q \in Int /\ rest \in 0 .. n - 1 /\ x = n * q + rest
  OBVIOUS
<1> HIDE DEF m, q, rest
<1> DEFINE y == x + u
<1> DEFINE p == q + m
<1>3. y \in Int /\ p \in Int /\ Splits(y, n, p, rest)
  BY <1>1, <1>2 DEF Splits
<1> HIDE DEF y, p
<1>4. Rem(y, n) = rest
  BY <1>2, <1>3, Remainder
<1>5. QED BY <1>4 DEF rest, y, Rem

\* Entries less than n apart are different.
LEMMA Apart ==
  ASSUME NEW n \in Nat \ {0}, NEW x \in Nat, NEW k \in 1 .. n - 1
  PROVE  Rem(x + k, n) # Rem(x, n)
<1> DEFINE q == x \div n
<1> DEFINE rest == x % n
<1>1. q \in Int /\ rest \in 0 .. n - 1 /\ x = n * q + rest
  OBVIOUS
<1> HIDE DEF q, rest
<1> DEFINE y == x + k
<1> DEFINE rest2 == IF rest + k < n THEN rest + k ELSE rest + k - n
<1> DEFINE q2 == IF rest + k < n THEN q ELSE q + 1
<1>2. y \in Int /\ rest2 \in 0 .. n - 1 /\ q2 \in Int
  BY <1>1
<1>3. y = n * q2 + rest2
  <2>1. CASE rest + k < n
    BY <1>1, <2>1
  <2>2. CASE ~ (rest + k < n)
    <3>1. n * (q + 1) = n * q + n
      BY <1>1
    <3>2. QED BY <1>1, <2>2, <3>1
  <2>3. QED BY <2>1, <2>2
<1>4. rest2 # rest
  BY <1>1
<1> HIDE DEF y, rest2, q2
<1>5. Rem(y, n) = rest2
  <2>1. Splits(y, n, q2, rest2)
    BY <1>3 DEF Splits
  <2>2. QED BY <1>2, <2>1, Remainder
<1>6. QED BY <1>4, <1>5 DEF y, rest, Rem

\* The index hi stands for the entry behind the newest.
LEMMA Behind ==
  ASSUME NEW n \in Nat \ {0}, NEW u \in Nat \ {0}, Divides(n, u),
         NEW lo \in 0 .. u - 1, NEW hi \in 0 .. u - 1
  PROVE  hi % n = Place(lo, InUse(lo, hi, u), n)
<1> DEFINE d == InUse(lo, hi, u)
<1>1. d = IF lo <= hi THEN hi - lo ELSE hi - lo + u
  BY Distance
<1> HIDE DEF d
<1>2. CASE lo <= hi
  <2>1. lo + d = hi
    BY <1>1, <1>2
  <2>2. QED BY <2>1 DEF d, Place
<1>3. CASE ~ (lo <= hi)
  <2>1. lo + d = hi + u
    BY <1>1, <1>3
  <2>2. hi \in Nat /\ u \in Nat
    OBVIOUS
  <2>3. Rem(hi + u, n) = Rem(hi, n)
    BY <2>2, Around
  <2>4. QED BY <2>1, <2>3 DEF d, Place, Rem
<1>4. QED BY <1>2, <1>3

\* Seen from the second oldest entry, the entries keep their places.
LEMMA Onwards ==
  ASSUME NEW n \in Nat \ {0}, NEW u \in Nat \ {0}, Divides(n, u),
         NEW lo \in 0 .. u - 1, NEW k \in Nat
  PROVE  Place(After(lo, u), k, n) = Place(lo, k + 1, n)
<1>1. After(lo, u) = IF lo + 1 < u THEN lo + 1 ELSE 0
  BY Incremented
<1>2. CASE lo + 1 < u
  <2>1. After(lo, u) + k = lo + (k + 1)
    BY <1>1, <1>2
  <2>2. QED BY <2>1 DEF Place
<1>3. CASE lo + 1 = u
  <2>1. After(lo, u) + k = k /\ lo + (k + 1) = k + u
    BY <1>1, <1>3
  <2>2. Rem(k + u, n) = Rem(k, n)
    BY Around
  <2>3. QED BY <2>1, <2>2 DEF Place, Rem
<1>4. QED BY <1>2, <1>3

\* No two of the n entries from lo on are in the same place.
LEMMA Distinct ==
  ASSUME NEW n \in Nat \ {0}, NEW lo \in Nat, NEW i \in 0 .. n - 1, NEW j \in 0 .. n - 1,
         i # j
  PROVE  Place(lo, i, n) # Place(lo, j, n)
<1>1. ASSUME NEW a \in 0 .. n - 1, NEW b \in 0 .. n - 1, a < b
      PROVE  (lo + b) % n # (lo + a) % n
  <2> DEFINE x == lo + a
  <2> DEFINE k == b - a
  <2>1. x \in Nat /\ k \in 1 .. n - 1 /\ x + k = lo + b
    BY <1>1
  <2> HIDE DEF x, k
  <2>2. Rem(x + k, n) # Rem(x, n)
    BY <2>1, Apart
  <2>3. QED BY <2>1, <2>2 DEF x, Rem
<1>2. CASE i < j
  BY <1>1, <1>2 DEF Place
<1>3. CASE j < i
  BY <1>1, <1>3 DEF Place
<1>4. QED BY <1>2, <1>3

LEMMA PlaceType ==
  ASSUME NEW n \in Nat \ {0}, NEW lo \in Nat, NEW k \in Nat
  PROVE  Place(lo, k, n) \in 0 .. n - 1
  BY DEF Place

-----------------------------------------------------------------------------

\* The second and the third descriptor of the request with head h.
Data(h)   == desc[h].next
Status(h) == desc[desc[h].next].next

\* The chain of p's request is set up for it, and belongs to nobody else.
ChainOf(p) == {thr[p].head, Data(thr[p].head), Status(thr[p].head)}
Linked(p) ==
  LET h == thr[p].head IN
  /\ h \in Desc /\ Data(h) \in Desc /\ Status(h) \in Desc
  /\ h # Data(h) /\ h # Status(h) /\ Data(h) # Status(h)
  /\ h \notin free /\ Data(h) \notin free /\ Status(h) \notin free
  /\ desc[Data(h)].addr = p /\ desc[Status(h)].addr = h
  /\ ops[h].write = thr[p].write /\ ops[h].blk = thr[p].blk
ChainsOK ==
  /\ \A p \in Busy : Linked(p)
  /\ \A p, q \in Busy : p # q => ChainOf(p) \cap ChainOf(q) = {}
  /\ IsFiniteSet(Busy) /\ Cardinality(free) + 3 * Cardinality(Busy) = NUM

\* Who holds the lock, and who has no request yet.
LockOK == \A p \in Proc : At(p, "publish") <=> lock = p
HeadOK == \A p \in Proc : thr[p].pc \in {"alloc", "no_desc"} => thr[p].head = NoDesc

\* A request knows its buffer, and is done only once it was carried out.
OwnOK == \A p \in Busy : /\ info[thr[p].head].b = p
                         /\ bdisk[p] \/ info[thr[p].head].status = "ok"

\* h is the head of a published request that waits, with the status s.
Live(h, s) ==
  /\ info[h].b \in Proc /\ info[h].status = s
  /\ thr[info[h].b].pc \in {"sleep", "woken"} /\ thr[info[h].b].head = h
  /\ bdisk[info[h].b]

\* The entries in use of a ring are different requests with the status s, and there is
\* room for another.
Ent(ring, lo, m) == ring[Place(lo, m, NUM)]
Used(lo, hi)     == InUse(lo, hi, IDX)
SameBut(ring, r2, e) == \A d \in Desc : d # e => r2[d] = ring[d]
RingOK(ring, lo, hi, s) ==
  /\ Used(lo, hi) < NUM
  /\ \A m \in 0 .. Used(lo, hi) - 1 : Ent(ring, lo, m) \in Desc /\ Live(Ent(ring, lo, m), s)
  /\ \A m, n \in 0 .. Used(lo, hi) - 1 : m # n => Ent(ring, lo, m) # Ent(ring, lo, n)

AvailOK == /\ RingOK(avail, last_avail, avail_idx, "busy")
           /\ \A m \in 0 .. Used(last_avail, avail_idx) - 1 : Ent(avail, last_avail, m) \notin taken
TakenOK == \A h \in taken : Live(h, "busy")
UsedOK  == RingOK(used, used_idx, dev_used_idx, "ok")

\* Who is about to publish has put its head behind the last entry of the avail ring.
PublishOK ==
  \A p \in Proc : At(p, "publish") =>
    /\ Used(last_avail, avail_idx) + 1 < NUM
    /\ Ent(avail, last_avail, Used(last_avail, avail_idx)) = thr[p].head
    /\ bdisk[p] /\ info[thr[p].head].status = "busy"

IInv == /\ TypeOK /\ ChainsOK /\ WaitersHaveWaker /\ LockOK /\ HeadOK /\ OwnOK
        /\ AvailOK /\ TakenOK /\ UsedOK /\ PublishOK

-----------------------------------------------------------------------------
LEMMA Sizing ==
  /\ NUM \in Nat \ {0} /\ NUM >= 3 /\ IDX \in Nat \ {0} /\ NUM <= IDX /\ Divides(NUM, IDX)
  /\ NoDesc \notin Desc /\ NoOne \notin Proc /\ "intr" \notin Proc /\ NoOne # "intr"
<1>1. /\ NUM \in Nat \ {0} /\ NUM >= 3 /\ IDX \in Nat \ {0} /\ NUM <= IDX /\ Divides(NUM, IDX)
  BY DiskAssumption DEF Divides
<1>2. NoDesc \notin Desc
  BY <1>1 DEF NoDesc, Desc
<1>3. NoOne \notin Proc /\ "intr" \notin Proc /\ NoOne # "intr"
  BY DiskAssumption
<1>4. QED BY <1>1, <1>2, <1>3

\* How many entries there are.
LEMMA UsedIs ==
  ASSUME NEW lo \in 0 .. IDX - 1, NEW hi \in 0 .. IDX - 1
  PROVE  Used(lo, hi) \in 0 .. IDX - 1 /\ (hi = lo <=> Used(lo, hi) = 0)
  BY Sizing, Distance DEF Used

\* The oldest entry is where the reader's index points, modulo NUM.
LEMMA Oldest ==
  ASSUME NEW lo \in 0 .. IDX - 1
  PROVE  lo % NUM = Place(lo, 0, NUM)
<1>1. lo + 0 = lo
  OBVIOUS
<1>2. QED BY <1>1 DEF Place

\* The writer's index points behind the newest.
LEMMA Newest ==
  ASSUME NEW lo \in 0 .. IDX - 1, NEW hi \in 0 .. IDX - 1
  PROVE  hi % NUM = Place(lo, Used(lo, hi), NUM)
  BY Sizing, Behind DEF Used

\* The entry behind the newest is written: the entries in use stay.
LEMMA RingPut ==
  ASSUME NEW lo \in 0 .. IDX - 1, NEW hi \in 0 .. IDX - 1,
         NEW ring, NEW r2, SameBut(ring, r2, Place(lo, Used(lo, hi), NUM)), Used(lo, hi) < NUM
  PROVE  /\ Place(lo, Used(lo, hi), NUM) \in Desc
         /\ \A m \in 0 .. Used(lo, hi) - 1 : Ent(r2, lo, m) = Ent(ring, lo, m)
<1>1. Used(lo, hi) \in 0 .. NUM - 1 /\ lo \in Nat
  BY Sizing, UsedIs
<1>2. Place(lo, Used(lo, hi), NUM) \in Desc
  BY <1>1, Sizing, PlaceType DEF Desc
<1>3. ASSUME NEW m \in 0 .. Used(lo, hi) - 1
      PROVE  r2[Place(lo, m, NUM)] = ring[Place(lo, m, NUM)]
  <2>1. m \in 0 .. NUM - 1 /\ m # Used(lo, hi)
    BY <1>1, Sizing
  <2>2. Place(lo, m, NUM) # Place(lo, Used(lo, hi), NUM)
    BY <1>1, <2>1, Sizing, Distinct
  <2>3. Place(lo, m, NUM) \in Desc
    BY <1>1, <2>1, Sizing, PlaceType DEF Desc
  <2>4. QED BY <2>2, <2>3 DEF SameBut
<1>4. QED BY <1>2, <1>3 DEF Ent

\* The oldest entry is taken: the others, and the one behind the newest, move up.
LEMMA RingTake ==
  ASSUME NEW lo \in 0 .. IDX - 1, NEW hi \in 0 .. IDX - 1,
         NEW ring, NEW r2, SameBut(ring, r2, Place(lo, 0, NUM)), lo # hi
  PROVE  /\ After(lo, IDX) \in 0 .. IDX - 1
         /\ Used(After(lo, IDX), hi) = Used(lo, hi) - 1
         /\ Used(lo, hi) \in Nat /\ Used(lo, hi) >= 1
         /\ \A m \in 0 .. NUM - 2 : Ent(r2, After(lo, IDX), m) = Ent(ring, lo, m + 1)
<1>1. lo \in Nat
  OBVIOUS
<1>3. After(lo, IDX) \in 0 .. IDX - 1 /\ Used(After(lo, IDX), hi) = Used(lo, hi) - 1
  <2>1. After(lo, IDX) \in 0 .. IDX - 1
    BY Sizing, Incremented
  <2>2. InUse(After(lo, IDX), hi, IDX) = InUse(lo, hi, IDX) - 1
    BY Sizing, OneLess
  <2>3. QED BY <2>1, <2>2 DEF Used
<1>4. Used(lo, hi) \in Nat /\ Used(lo, hi) >= 1
  <2>1. Used(lo, hi) \in 0 .. IDX - 1
    BY UsedIs
  <2>2. Used(lo, hi) # 0
    BY UsedIs
  <2>3. QED BY <2>1, <2>2, Sizing
<1>5. ASSUME NEW m \in 0 .. NUM - 2
      PROVE  Ent(r2, After(lo, IDX), m) = Ent(ring, lo, m + 1)
  <2> DEFINE i == m + 1
  <2> DEFINE z == 0
  <2>1. i \in 0 .. NUM - 1 /\ z \in 0 .. NUM - 1 /\ i # z /\ m \in Nat
    BY Sizing
  <2>2. Place(After(lo, IDX), m, NUM) = Place(lo, i, NUM)
    BY <2>1, Sizing, Onwards
  <2> HIDE DEF i
  <2>3. Place(lo, 0, NUM) = Place(lo, z, NUM)
    OBVIOUS
  <2> HIDE DEF z
  <2>4. Place(lo, i, NUM) # Place(lo, z, NUM)
    BY <1>1, <2>1, Sizing, Distinct
  <2>5. r2[Place(lo, i, NUM)] = ring[Place(lo, i, NUM)]
    <3>1. i \in Nat
      BY <2>1, Sizing
    <3>2. Place(lo, i, NUM) \in Desc
      BY <1>1, <3>1, Sizing, PlaceType DEF Desc
    <3>3. QED BY <2>3, <2>4, <3>2 DEF SameBut
  <2>6. QED BY <2>2, <2>5 DEF Ent, i
<1>6. QED BY <1>3, <1>4, <1>5

\* Three descriptors that are no entries leave room for as many entries.
LEMMA RingRoom ==
  ASSUME NEW ring, NEW lo, NEW a \in Nat,
         NEW i \in Desc, NEW j \in Desc, NEW k \in Desc, i # j, i # k, j # k,
         \A m \in 0 .. a - 1 : Ent(ring, lo, m) \in Desc \ {i, j, k},
         \A m, n \in 0 .. a - 1 : m # n => Ent(ring, lo, m) # Ent(ring, lo, n)
  PROVE  a <= NUM - 3
<1> DEFINE T == Desc \ {i, j, k}
<1> DEFINE f == [m \in 0 .. a - 1 |-> Ent(ring, lo, m)]
<1>1. IsFiniteSet(Desc) /\ Cardinality(Desc) = NUM
  BY FS_Interval, Sizing DEF Desc
<1>2. IsFiniteSet(T) /\ Cardinality(T) = NUM - 3
  <2>1. IsFiniteSet(Desc \ {i}) /\ Cardinality(Desc \ {i}) = NUM - 1
    BY <1>1, Sizing, FS_RemoveElement
  <2>2. /\ IsFiniteSet((Desc \ {i}) \ {j})
        /\ Cardinality((Desc \ {i}) \ {j}) = NUM - 2
    BY <2>1, Sizing, FS_RemoveElement
  <2>3. /\ IsFiniteSet(((Desc \ {i}) \ {j}) \ {k})
        /\ Cardinality(((Desc \ {i}) \ {j}) \ {k}) = NUM - 3
    <3>1. k \in (Desc \ {i}) \ {j}
      OBVIOUS
    <3>2. QED BY <2>2, <3>1, Sizing, FS_RemoveElement
  <2>4. T = ((Desc \ {i}) \ {j}) \ {k}
    OBVIOUS
  <2>5. QED BY <2>3, <2>4
<1>3. IsFiniteSet(0 .. a - 1) /\ Cardinality(0 .. a - 1) = a
  BY FS_Interval
<1>4. f \in [0 .. a - 1 -> T]
  OBVIOUS
<1>5. \A m, n \in 0 .. a - 1 : m # n => f[m] # f[n]
  OBVIOUS
<1> HIDE DEF f, T
<1>6. SUFFICES ASSUME NUM - 3 < a PROVE FALSE
  BY Sizing
<1>7. Cardinality(T) < Cardinality(0 .. a - 1)
  BY <1>2, <1>3, <1>6
<1>8. \E m, n \in 0 .. a - 1 : m # n /\ f[m] = f[n]
  BY <1>2, <1>3, <1>4, <1>7, FS_PigeonHole
<1>9. QED BY <1>5, <1>8

\* A chain stays while its descriptors and its request do.
LEMMA LinkedKept ==
  ASSUME NEW q, Linked(q), UNCHANGED <<free, desc, ops>>,
         thr'[q].head = thr[q].head, thr'[q].write = thr[q].write, thr'[q].blk = thr[q].blk
  PROVE  Linked(q)' /\ ChainOf(q)' = ChainOf(q)
<1>1. Data(thr[q].head)' = Data(thr[q].head) /\ Status(thr[q].head)' = Status(thr[q].head)
  BY DEF Data, Status
<1>2. QED BY <1>1 DEF Linked, ChainOf

LEMMA ChainsKept ==
  ASSUME ChainsOK, UNCHANGED <<free, desc, ops>>, Busy' = Busy,
         \A q \in Busy : /\ thr'[q].head = thr[q].head /\ thr'[q].write = thr[q].write
                         /\ thr'[q].blk = thr[q].blk
  PROVE  ChainsOK'
<1>1. \A q \in Busy : Linked(q)' /\ ChainOf(q)' = ChainOf(q)
  BY LinkedKept DEF ChainsOK
<1>2. QED BY <1>1 DEF ChainsOK

-----------------------------------------------------------------------------
\* Steps that leave the requests in flight where they are.
Quiet ==
  /\ UNCHANGED <<free, desc, ops, avail, avail_idx, used, dev_used_idx, last_avail, taken,
                 info, used_idx, bdisk>>
  /\ \A q \in Proc :
       /\ thr'[q].pc \in InFlight <=> thr[q].pc \in InFlight
       /\ thr'[q].pc = "publish" <=> thr[q].pc = "publish"
       /\ q \in Busy => /\ thr'[q].head = thr[q].head /\ thr'[q].write = thr[q].write
                        /\ thr'[q].blk = thr[q].blk
  /\ TypeOK' /\ WaitersHaveWaker' /\ HeadOK' /\ LockOK'

LEMMA QuietKeeps ==
  ASSUME IInv, Quiet
  PROVE  IInv'
<1>1. Busy' = Busy
  BY DEF Quiet, Busy
<1>2. \A q \in Busy : q \in Proc /\ thr'[q].head = thr[q].head /\ thr'[q].write = thr[q].write
                      /\ thr'[q].blk = thr[q].blk
  BY DEF Quiet, Busy
<1>3. UNCHANGED <<free, desc, ops, avail, avail_idx, used, dev_used_idx, last_avail, taken,
                  info, used_idx, bdisk>>
  BY DEF Quiet
<1>4. ChainsOK'
  BY <1>1, <1>2, <1>3, ChainsKept DEF IInv
<1>5. \A h, s : Live(h, s) => Live(h, s)'
  <2> TAKE h, s
  <2> SUFFICES ASSUME Live(h, s) PROVE Live(h, s)'
    OBVIOUS
  <2> DEFINE o == info[h].b
  <2>1. o \in Proc /\ thr[o].pc \in {"sleep", "woken"} /\ thr[o].head = h /\ bdisk[o]
        /\ info[h].status = s
    BY DEF Live
  <2>2. o \in Busy
    BY <2>1 DEF Busy, InFlight
  <2>3. thr'[o].pc \in {"sleep", "woken"} /\ thr'[o].head = h
    BY <1>2, <2>1, <2>2 DEF Quiet, InFlight
  <2>4. QED BY <1>3, <2>1, <2>3 DEF Live
<1>6. AvailOK'
  BY <1>3, <1>5 DEF IInv, AvailOK, RingOK
<1>7. TakenOK' /\ UsedOK'
  BY <1>3, <1>5 DEF IInv, TakenOK, UsedOK, RingOK
<1>8. OwnOK'
  BY <1>1, <1>2, <1>3 DEF IInv, OwnOK
<1>9. PublishOK'
  <2>1. \A q \in Proc : At(q, "publish")' => At(q, "publish") /\ thr'[q].head = thr[q].head
    BY <1>2 DEF Quiet, At, Busy, InFlight
  <2>2. QED BY <1>3, <2>1 DEF IInv, PublishOK
<1>10. QED BY <1>4, <1>6, <1>7, <1>8, <1>9 DEF IInv, Quiet

\* A process that goes to l.
LEMMA MovedIs ==
  ASSUME TypeOK, NEW p \in Proc, NEW l \in InFlight \cup {"idle", "alloc", "no_desc"}
  PROVE  /\ Moved(p, l) \in [Proc -> ThrType]
         /\ Moved(p, l)[p].pc = l
         /\ \A q \in Proc : /\ Moved(p, l)[q].head = thr[q].head
                            /\ Moved(p, l)[q].write = thr[q].write
                            /\ Moved(p, l)[q].blk = thr[q].blk
                            /\ q # p => Moved(p, l)[q] = thr[q]
<1>1. thr \in [Proc -> ThrType] /\ thr[p] \in ThrType
  BY DEF TypeOK
<1>2. [thr[p] EXCEPT !.pc = l] = [pc |-> l, write |-> thr[p].write, blk |-> thr[p].blk,
                                  head |-> thr[p].head]
  BY <1>1 DEF ThrType
<1>3. Moved(p, l) = [thr EXCEPT ![p] = [pc |-> l, write |-> thr[p].write, blk |-> thr[p].blk,
                                        head |-> thr[p].head]]
  BY <1>2 DEF Moved
<1>4. [pc |-> l, write |-> thr[p].write, blk |-> thr[p].blk, head |-> thr[p].head] \in ThrType
  BY <1>1 DEF ThrType
<1>5. QED BY <1>1, <1>3, <1>4

\* Who waits for descriptors tries again.
LEMMA RetryIs ==
  ASSUME NEW t \in [Proc -> ThrType]
  PROVE  /\ Retry(t) \in [Proc -> ThrType]
         /\ \A q \in Proc : /\ Retry(t)[q].head = t[q].head
                            /\ Retry(t)[q].write = t[q].write
                            /\ Retry(t)[q].blk = t[q].blk
                            /\ t[q].pc = "no_desc" => Retry(t)[q].pc = "alloc"
                            /\ t[q].pc # "no_desc" => Retry(t)[q] = t[q]
<1>1. ASSUME NEW q \in Proc
      PROVE  [t[q] EXCEPT !.pc = "alloc"] = [pc |-> "alloc", write |-> t[q].write, blk |-> t[q].blk,
                                             head |-> t[q].head]
  BY DEF ThrType
<1>2. Retry(t) = [q \in Proc |-> IF t[q].pc = "no_desc"
                                 THEN [pc |-> "alloc", write |-> t[q].write, blk |-> t[q].blk,
                                       head |-> t[q].head]
                                 ELSE t[q]]
  BY <1>1 DEF Retry
<1>3. ASSUME NEW q \in Proc
      PROVE  [pc |-> "alloc", write |-> t[q].write, blk |-> t[q].blk, head |-> t[q].head] \in ThrType
  BY DEF ThrType
<1>4. QED BY <1>2, <1>3

LEMMA RwQuiet ==
  ASSUME IInv, NEW p \in Proc, Rw(p)
  PROVE  Quiet
<1>1. PICK w \in BOOLEAN, k \in Block, v \in Value :
        /\ thr' = [thr EXCEPT ![p] = [pc |-> "alloc", write |-> w, blk |-> k, head |-> NoDesc]]
        /\ buf' = [buf EXCEPT ![p] = v]
  BY DEF Rw
<1>2. /\ thr[p].pc = "idle"
      /\ UNCHANGED <<driver, device, info, used_idx, lock, bdisk, irq>>
  BY DEF Rw, At
<1>3. [pc |-> "alloc", write |-> w, blk |-> k, head |-> NoDesc] \in ThrType
  BY DEF ThrType
<1>4. /\ thr' \in [Proc -> ThrType]
      /\ thr'[p].pc = "alloc" /\ thr'[p].head = NoDesc
      /\ \A q \in Proc : q # p => thr'[q] = thr[q]
  BY <1>1, <1>3 DEF IInv, TypeOK
<1>5. TypeOK'
  BY <1>1, <1>2, <1>4 DEF IInv, TypeOK, driver, device
<1>6. WaitersHaveWaker'
  BY <1>2, <1>4 DEF IInv, WaitersHaveWaker, At, driver
<1>7. HeadOK' /\ LockOK'
  BY <1>2, <1>4 DEF IInv, HeadOK, LockOK, At
<1>8. QED BY <1>2, <1>4, <1>5, <1>6, <1>7 DEF Quiet, Busy, InFlight, driver, device

LEMMA NoDescriptorsIs ==
  ASSUME IInv, NEW p \in Proc, NoDescriptors(p)
  PROVE  /\ thr[p].pc = "alloc" /\ Cardinality(free) < 3
         /\ UNCHANGED <<driver, device, info, used_idx, lock, bdisk, buf, irq>>
         /\ thr' \in [Proc -> ThrType]
         /\ \A q \in Proc :
              /\ thr'[q].head = thr[q].head /\ thr'[q].write = thr[q].write /\ thr'[q].blk = thr[q].blk
              /\ thr'[q].pc = thr[q].pc \/ {thr[q].pc, thr'[q].pc} \subseteq {"alloc", "no_desc"}
<1> DEFINE t == IF free = {} THEN thr ELSE Retry(thr)
<1>1. /\ thr[p].pc = "alloc" /\ Cardinality(free) < 3
      /\ thr' = [t EXCEPT ![p].pc = "no_desc"]
      /\ UNCHANGED <<driver, device, info, used_idx, lock, bdisk, buf, irq>>
  BY DEF NoDescriptors, At
<1>2. /\ t \in [Proc -> ThrType]
      /\ \A q \in Proc : /\ t[q].head = thr[q].head /\ t[q].write = thr[q].write
                         /\ t[q].blk = thr[q].blk
                         /\ t[q].pc = thr[q].pc \/ (thr[q].pc = "no_desc" /\ t[q].pc = "alloc")
  <2>1. thr \in [Proc -> ThrType]
    BY DEF IInv, TypeOK
  <2>2. t = thr \/ t = Retry(thr)
    OBVIOUS
  <2>3. /\ Retry(thr) \in [Proc -> ThrType]
        /\ \A q \in Proc : /\ Retry(thr)[q].head = thr[q].head
                           /\ Retry(thr)[q].write = thr[q].write
                           /\ Retry(thr)[q].blk = thr[q].blk
                           /\ \/ thr[q].pc = "no_desc" /\ Retry(thr)[q].pc = "alloc"
                              \/ Retry(thr)[q].pc = thr[q].pc
    BY <2>1, RetryIs
  <2> HIDE DEF t
  <2>4. t \in [Proc -> ThrType]
    BY <2>1, <2>2, <2>3
  <2>5. ASSUME NEW q \in Proc
        PROVE  /\ t[q].head = thr[q].head /\ t[q].write = thr[q].write
               /\ t[q].blk = thr[q].blk
               /\ t[q].pc = thr[q].pc \/ (thr[q].pc = "no_desc" /\ t[q].pc = "alloc")
    <3>1. CASE t = thr
      BY <3>1
    <3>2. CASE t = Retry(thr)
      <4>1. /\ Retry(thr)[q].head = thr[q].head
            /\ Retry(thr)[q].write = thr[q].write
            /\ Retry(thr)[q].blk = thr[q].blk
            /\ \/ thr[q].pc = "no_desc" /\ Retry(thr)[q].pc = "alloc"
               \/ Retry(thr)[q].pc = thr[q].pc
        BY <2>3
      <4>2. QED BY <3>2, <4>1
    <3>3. QED BY <2>2, <3>1, <3>2
  <2>6. QED BY <2>4, <2>5
<1> HIDE DEF t
<1>3. /\ thr' \in [Proc -> ThrType]
      /\ thr'[p].pc = "no_desc" /\ thr'[p].head = t[p].head
      /\ \A q \in Proc : q # p => thr'[q] = t[q]
  <2> DEFINE r == [pc |-> "no_desc", write |-> t[p].write, blk |-> t[p].blk, head |-> t[p].head]
  <2>1. [t[p] EXCEPT !.pc = "no_desc"] = r
    BY <1>2 DEF ThrType
  <2>2. r \in ThrType
    BY <1>2 DEF ThrType
  <2>3. thr' = [t EXCEPT ![p] = r]
    BY <1>1, <2>1
  <2>4. QED BY <1>2, <2>2, <2>3
<1>4. ASSUME NEW q \in Proc
      PROVE  /\ thr'[q].head = thr[q].head /\ thr'[q].write = thr[q].write /\ thr'[q].blk = thr[q].blk
             /\ thr'[q].pc = thr[q].pc \/ {thr[q].pc, thr'[q].pc} \subseteq {"alloc", "no_desc"}
  <2>1. CASE q = p
    BY <1>1, <1>2, <1>3, <2>1
  <2>2. CASE q # p
    BY <1>2, <1>3, <2>2
  <2>3. QED BY <2>1, <2>2
<1>5. QED BY <1>1, <1>3, <1>4

LEMMA NoDescriptorsQuiet ==
  ASSUME IInv, NEW p \in Proc, NoDescriptors(p)
  PROVE  Quiet
<1>1. /\ thr[p].pc = "alloc" /\ Cardinality(free) < 3
      /\ UNCHANGED <<driver, device, info, used_idx, lock, bdisk, buf, irq>>
      /\ thr' \in [Proc -> ThrType]
  BY NoDescriptorsIs
<1>2. \A q \in Proc :
        /\ thr'[q].head = thr[q].head /\ thr'[q].write = thr[q].write /\ thr'[q].blk = thr[q].blk
        /\ thr'[q].pc = thr[q].pc \/ {thr[q].pc, thr'[q].pc} \subseteq {"alloc", "no_desc"}
  BY NoDescriptorsIs
<1>3. TypeOK'
  BY <1>1 DEF IInv, TypeOK, driver, device
<1>4. WaitersHaveWaker'
  BY <1>1 DEF WaitersHaveWaker, driver
<1>5. HeadOK' /\ LockOK'
  BY <1>1, <1>2 DEF IInv, HeadOK, LockOK, At
<1>6. QED BY <1>1, <1>2, <1>3, <1>4, <1>5 DEF Quiet, Busy, InFlight, driver, device

LEMMA KillQuiet ==
  ASSUME IInv, NEW p \in Proc, Kill(p)
  PROVE  Quiet
<1>1. UNCHANGED <<driver, device, info, used_idx, lock, bdisk, buf, irq>>
  BY DEF Kill
<1>2. PICK l \in {"woken", "alloc"} :
        /\ thr' = Moved(p, l)
        /\ l = "woken" => thr[p].pc = "sleep"
        /\ l = "alloc" => thr[p].pc = "no_desc"
  BY DEF Kill, At
<1>3. /\ thr' \in [Proc -> ThrType] /\ thr'[p].pc = l
      /\ \A q \in Proc : /\ thr'[q].head = thr[q].head /\ thr'[q].write = thr[q].write
                         /\ thr'[q].blk = thr[q].blk
                         /\ q # p => thr'[q] = thr[q]
  <2>1. l \in InFlight \cup {"idle", "alloc", "no_desc"}
    BY DEF InFlight
  <2>2. QED BY <1>2, <2>1, MovedIs DEF IInv
<1>4. TypeOK'
  BY <1>1, <1>3 DEF IInv, TypeOK, driver, device
<1>5. WaitersHaveWaker'
  BY <1>1, <1>2, <1>3 DEF IInv, WaitersHaveWaker, At, driver
<1>6. HeadOK' /\ LockOK'
  BY <1>1, <1>2, <1>3 DEF IInv, HeadOK, LockOK, At
<1>7. QED BY <1>1, <1>2, <1>3, <1>4, <1>5, <1>6 DEF Quiet, Busy, InFlight, driver, device

\* Woken, but not done: back to sleep.
LEMMA SleepAgainQuiet ==
  ASSUME IInv, NEW p \in Proc, Finish(p), bdisk[p]
  PROVE  Quiet
<1>1. /\ thr[p].pc = "woken" /\ thr' = Moved(p, "sleep")
      /\ UNCHANGED <<driver, device, info, used_idx, lock, bdisk, buf, irq>>
  BY DEF Finish, At, driver
<1>2. /\ thr' \in [Proc -> ThrType] /\ thr'[p].pc = "sleep"
      /\ \A q \in Proc : /\ thr'[q].head = thr[q].head /\ thr'[q].write = thr[q].write
                         /\ thr'[q].blk = thr[q].blk
                         /\ q # p => thr'[q] = thr[q]
  <2>1. "sleep" \in InFlight \cup {"idle", "alloc", "no_desc"}
    BY DEF InFlight
  <2>2. QED BY <1>1, <2>1, MovedIs DEF IInv
<1>3. TypeOK'
  BY <1>1, <1>2 DEF IInv, TypeOK, driver, device
<1>4. WaitersHaveWaker'
  BY <1>1, <1>2 DEF IInv, WaitersHaveWaker, At, driver
<1>5. HeadOK' /\ LockOK'
  BY <1>1, <1>2 DEF IInv, HeadOK, LockOK, At
<1>6. QED BY <1>1, <1>2, <1>3, <1>4, <1>5 DEF Quiet, Busy, InFlight, driver, device

LEMMA IntrQuiet ==
  ASSUME IInv, IntrStart \/ IntrEnd
  PROVE  Quiet
<1>1. /\ UNCHANGED <<driver, device, info, used_idx, bdisk, buf, thr>>
      /\ lock \notin Proc /\ lock' \in {NoOne, "intr"} /\ irq' \in BOOLEAN
  BY Sizing DEF IntrStart, IntrEnd, IInv, TypeOK
<1>2. lock' \notin Proc
  BY <1>1, Sizing
<1>3. TypeOK'
  BY <1>1 DEF IInv, TypeOK, driver, device
<1>4. WaitersHaveWaker' /\ HeadOK' /\ LockOK'
  BY <1>1, <1>2 DEF IInv, WaitersHaveWaker, HeadOK, LockOK, At, driver
<1>5. QED BY <1>1, <1>3, <1>4 DEF Quiet, driver, device

-----------------------------------------------------------------------------
\* The three heads of a chain are different and taken; the chains of two requests have no
\* descriptor in common.
LEMMA HeadsDiffer ==
  ASSUME IInv, NEW p \in Busy, NEW q \in Busy, p # q
  PROVE  /\ thr[q].head # thr[p].head /\ thr[q].head # Data(thr[p].head)
         /\ thr[q].head # Status(thr[p].head)
         /\ Data(thr[q].head) # thr[p].head /\ Status(thr[q].head) # thr[p].head
<1>1. ChainOf(p) \cap ChainOf(q) = {}
  BY DEF IInv, ChainsOK
<1>2. QED BY <1>1 DEF ChainOf

\* The request an entry of a ring belongs to.
LEMMA Owner ==
  ASSUME NEW h, NEW s, Live(h, s)
  PROVE  /\ info[h].b \in Busy /\ thr[info[h].b].head = h /\ info[h].status = s
         /\ bdisk[info[h].b] /\ thr[info[h].b].pc \in {"sleep", "woken"}
  BY DEF Live, Busy, InFlight

LEMMA RingTypes ==
  ASSUME IInv
  PROVE  /\ last_avail \in 0 .. IDX - 1 /\ avail_idx \in 0 .. IDX - 1
         /\ used_idx \in 0 .. IDX - 1 /\ dev_used_idx \in 0 .. IDX - 1
         /\ avail \in [Desc -> Desc \cup {NoDesc}] /\ used \in [Desc -> Desc \cup {NoDesc}]
         /\ Used(last_avail, avail_idx) \in Nat /\ Used(used_idx, dev_used_idx) \in Nat
<1>1. /\ last_avail \in 0 .. IDX - 1 /\ avail_idx \in 0 .. IDX - 1
      /\ used_idx \in 0 .. IDX - 1 /\ dev_used_idx \in 0 .. IDX - 1
      /\ avail \in [Desc -> Desc \cup {NoDesc}] /\ used \in [Desc -> Desc \cup {NoDesc}]
  BY DEF IInv, TypeOK
<1>2. Used(last_avail, avail_idx) \in 0 .. IDX - 1
  BY <1>1, Sizing, Distance DEF Used
<1>3. Used(used_idx, dev_used_idx) \in 0 .. IDX - 1
  BY <1>1, Sizing, Distance DEF Used
<1>4. QED BY <1>1, <1>2, <1>3, Sizing

\* The device takes the oldest entry of the avail ring.
LEMMA DevTakeStep ==
  ASSUME IInv, DevTake
  PROVE  IInv'
<1> DEFINE h == avail[last_avail % NUM]
<1> DEFINE A == Used(last_avail, avail_idx)
<1>1. /\ last_avail # avail_idx
      /\ taken' = taken \cup {h}
      /\ avail' = [avail EXCEPT ![last_avail % NUM] = NoDesc]
      /\ last_avail' = After(last_avail, IDX)
      /\ UNCHANGED <<free, desc, ops, avail_idx, used, dev_used_idx, disk, info, used_idx, lock,
                     bdisk, buf, thr, irq>>
  BY DEF DevTake, After
<1>2. /\ last_avail' \in 0 .. IDX - 1
      /\ Used(last_avail', avail_idx) = A - 1
      /\ A \in Nat /\ A >= 1 /\ A < NUM
      /\ h = Ent(avail, last_avail, 0)
      /\ \A m \in 0 .. NUM - 2 : Ent(avail', last_avail', m) = Ent(avail, last_avail, m + 1)
  <2>1. /\ last_avail \in 0 .. IDX - 1 /\ avail_idx \in 0 .. IDX - 1
        /\ last_avail # avail_idx /\ last_avail % NUM = Place(last_avail, 0, NUM)
    BY <1>1, RingTypes, Oldest
  <2>6. SameBut(avail, avail', Place(last_avail, 0, NUM))
    BY <1>1, <2>1, RingTypes DEF SameBut
  <2>2. /\ After(last_avail, IDX) \in 0 .. IDX - 1
        /\ Used(After(last_avail, IDX), avail_idx) = A - 1
        /\ A \in Nat /\ A >= 1
        /\ \A m \in 0 .. NUM - 2 : Ent(avail', After(last_avail, IDX), m) = Ent(avail, last_avail, m + 1)
    BY <2>1, <2>6, RingTake
  <2>3. A < NUM
    BY DEF IInv, AvailOK, RingOK
  <2>4. h = Ent(avail, last_avail, 0)
    BY <2>1 DEF Ent
  <2> HIDE DEF h, A
  <2>5. QED BY <1>1, <2>2, <2>3, <2>4
<1> HIDE DEF h, A
<1>3. /\ \A m \in 0 .. A - 1 : /\ Ent(avail, last_avail, m) \in Desc
                               /\ Live(Ent(avail, last_avail, m), "busy")
                               /\ Ent(avail, last_avail, m) \notin taken
      /\ \A m, n \in 0 .. A - 1 : m # n => Ent(avail, last_avail, m) # Ent(avail, last_avail, n)
  BY DEF IInv, AvailOK, RingOK, A
<1>4. h \in Desc /\ Live(h, "busy")
  BY <1>2, <1>3
<1>5. TypeOK'
  <2>1. avail' \in [Desc -> Desc \cup {NoDesc}]
    BY <1>1, RingTypes
  <2>2. QED BY <1>1, <1>2, <1>4, <2>1 DEF IInv, TypeOK
<1>6. \A k, s : Live(k, s)' <=> Live(k, s)
  BY <1>1 DEF Live
<1>7. TakenOK'
  BY <1>1, <1>4, <1>6 DEF IInv, TakenOK
<1>8. ASSUME NEW m \in 0 .. A - 2
      PROVE  /\ m \in 0 .. NUM - 2 /\ m + 1 \in 0 .. A - 1 /\ m + 1 # 0
             /\ Ent(avail', last_avail', m) = Ent(avail, last_avail, m + 1)
  BY <1>2, Sizing
<1>9. AvailOK'
  <2>1. Used(last_avail', avail_idx') = A - 1
    BY <1>1, <1>2
  <2>2. ASSUME NEW m \in 0 .. A - 2, NEW e, e = Ent(avail', last_avail', m)
        PROVE  e \in Desc /\ Live(e, "busy")' /\ e \notin taken'
    <3>1. e = Ent(avail, last_avail, m + 1) /\ m + 1 \in 0 .. A - 1 /\ m + 1 # 0
          /\ 0 \in 0 .. A - 1
      BY <1>2, <1>8, <2>2
    <3>2. e \in Desc /\ Live(e, "busy") /\ e \notin taken /\ e # h
      BY <1>2, <1>3, <3>1
    <3>3. QED BY <1>1, <1>6, <3>2
  <2>3. \A m, n \in 0 .. A - 2 : m # n => Ent(avail', last_avail', m) # Ent(avail', last_avail', n)
    <3> TAKE m, n \in 0 .. A - 2
    <3> SUFFICES ASSUME m # n PROVE Ent(avail', last_avail', m) # Ent(avail', last_avail', n)
      OBVIOUS
    <3>1. m + 1 # n + 1
      BY <1>2
    <3>2. QED BY <1>3, <1>8, <3>1
  <2>4. A - 1 < NUM /\ A - 1 - 1 = A - 2
    BY <1>2, Sizing
  <2>5. QED BY <2>1, <2>2, <2>3, <2>4 DEF AvailOK, RingOK
<1>10. UsedOK'
  BY <1>1, <1>6 DEF IInv, UsedOK, RingOK
<1>11. PublishOK'
  <2> SUFFICES ASSUME NEW p \in Proc, At(p, "publish")'
               PROVE  /\ Used(last_avail', avail_idx') + 1 < NUM
                      /\ Ent(avail', last_avail', Used(last_avail', avail_idx')) = thr'[p].head
                      /\ bdisk'[p] /\ info'[thr'[p].head].status = "busy"
    BY DEF PublishOK
  <2>1. At(p, "publish")
    BY <1>1 DEF At
  <2>2. /\ A + 1 < NUM /\ Ent(avail, last_avail, A) = thr[p].head
        /\ bdisk[p] /\ info[thr[p].head].status = "busy"
    BY <2>1 DEF IInv, PublishOK, A
  <2>3. Used(last_avail', avail_idx') = A - 1
    BY <1>1, <1>2
  <2>4. A - 1 \in 0 .. NUM - 2 /\ (A - 1) + 1 = A
    BY <1>2, Sizing
  <2>5. Ent(avail', last_avail', A - 1) = Ent(avail, last_avail, (A - 1) + 1)
    BY <1>2, <2>4
  <2>6. QED BY <1>1, <1>2, <2>2, <2>3, <2>4, <2>5, Sizing
<1>12. ChainsOK' /\ WaitersHaveWaker' /\ LockOK' /\ HeadOK' /\ OwnOK'
  <2>1. Busy' = Busy
    BY <1>1 DEF Busy
  <2>2. ChainsOK'
    BY <1>1, <2>1 DEF IInv, ChainsOK, Linked, ChainOf, Data, Status
  <2>3. QED BY <1>1, <2>1, <2>2 DEF IInv, WaitersHaveWaker, LockOK, HeadOK, OwnOK, At
<1>13. QED BY <1>5, <1>7, <1>9, <1>10, <1>11, <1>12 DEF IInv

\* The interrupt handler takes the oldest entry of the used ring.
LEMMA IntrStepStep ==
  ASSUME IInv, IntrStep
  PROVE  IInv'
<1> DEFINE h == used[used_idx % NUM]
<1> DEFINE b == info[h].b
<1> DEFINE U == Used(used_idx, dev_used_idx)
<1>1. /\ used_idx # dev_used_idx /\ lock = "intr"
      /\ used' = [used EXCEPT ![used_idx % NUM] = NoDesc]
      /\ used_idx' = After(used_idx, IDX)
      /\ bdisk' = [bdisk EXCEPT ![b] = FALSE]
      /\ thr' = IF At(b, "sleep") THEN Moved(b, "woken") ELSE thr
      /\ UNCHANGED <<driver, dev_used_idx, last_avail, taken, disk, info, lock, buf, irq>>
  BY DEF IntrStep, After
<1>2. /\ used_idx' \in 0 .. IDX - 1
      /\ Used(used_idx', dev_used_idx) = U - 1
      /\ U \in Nat /\ U >= 1 /\ U < NUM
      /\ h = Ent(used, used_idx, 0)
      /\ \A m \in 0 .. NUM - 2 : Ent(used', used_idx', m) = Ent(used, used_idx, m + 1)
  <2>1. /\ used_idx \in 0 .. IDX - 1 /\ dev_used_idx \in 0 .. IDX - 1
        /\ used_idx # dev_used_idx /\ used_idx % NUM = Place(used_idx, 0, NUM)
    BY <1>1, RingTypes, Oldest
  <2>6. SameBut(used, used', Place(used_idx, 0, NUM))
    BY <1>1, <2>1, RingTypes DEF SameBut
  <2>2. /\ After(used_idx, IDX) \in 0 .. IDX - 1
        /\ Used(After(used_idx, IDX), dev_used_idx) = U - 1
        /\ U \in Nat /\ U >= 1
        /\ \A m \in 0 .. NUM - 2 : Ent(used', After(used_idx, IDX), m) = Ent(used, used_idx, m + 1)
    BY <2>1, <2>6, RingTake
  <2>3. U < NUM
    BY DEF IInv, UsedOK, RingOK
  <2>4. h = Ent(used, used_idx, 0)
    BY <2>1 DEF Ent
  <2> HIDE DEF h, U
  <2>5. QED BY <1>1, <2>2, <2>3, <2>4
<1> HIDE DEF h, U
<1>3. /\ \A m \in 0 .. U - 1 : /\ Ent(used, used_idx, m) \in Desc
                               /\ Live(Ent(used, used_idx, m), "ok")
      /\ \A m, n \in 0 .. U - 1 : m # n => Ent(used, used_idx, m) # Ent(used, used_idx, n)
  BY DEF IInv, UsedOK, RingOK, U
<1>4. h \in Desc /\ Live(h, "ok")
  BY <1>2, <1>3
<1>5. /\ b \in Proc /\ b \in Busy /\ thr[b].head = h /\ info[h].status = "ok"
      /\ thr[b].pc \in {"sleep", "woken"}
  BY <1>4, Owner DEF Busy
<1> HIDE DEF b
<1>6. /\ thr' \in [Proc -> ThrType]
      /\ thr'[b].pc = "woken"
      /\ \A q \in Proc : /\ thr'[q].head = thr[q].head /\ thr'[q].write = thr[q].write
                         /\ thr'[q].blk = thr[q].blk
                         /\ q # b => thr'[q] = thr[q]
  <2>1. "woken" \in InFlight \cup {"idle", "alloc", "no_desc"} /\ thr \in [Proc -> ThrType]
    BY DEF InFlight, IInv, TypeOK
  <2>2. CASE thr[b].pc = "sleep"
    <3>1. thr' = Moved(b, "woken")
      BY <1>1, <2>2 DEF At
    <3>2. QED BY <1>5, <2>1, <3>1, MovedIs DEF IInv
  <2>3. CASE thr[b].pc = "woken"
    BY <1>1, <2>1, <2>3 DEF At
  <2>4. QED BY <1>5, <2>2, <2>3
<1>7. /\ bdisk' \in [Proc -> BOOLEAN] /\ bdisk'[b] = FALSE
      /\ \A q \in Proc : q # b => bdisk'[q] = bdisk[q]
  BY <1>1, <1>5 DEF IInv, TypeOK
<1>8. TypeOK'
  <2>1. used' \in [Desc -> Desc \cup {NoDesc}]
    BY <1>1, RingTypes
  <2>2. QED BY <1>1, <1>2, <1>6, <1>7, <2>1 DEF IInv, TypeOK, driver
<1>9. \A k, s : k # h /\ Live(k, s) => Live(k, s)'
  <2> SUFFICES ASSUME NEW k, NEW s, k # h, Live(k, s) PROVE Live(k, s)'
    OBVIOUS
  <2> DEFINE o == info[k].b
  <2>1. /\ o \in Proc /\ thr[o].head = k /\ info[k].status = s
        /\ bdisk[o] /\ thr[o].pc \in {"sleep", "woken"}
    BY DEF Live
  <2>2. o # b
    BY <1>5, <2>1
  <2>3. QED BY <1>1, <1>6, <1>7, <2>1, <2>2 DEF Live
<1>10. \A k : Live(k, "busy") => Live(k, "busy")'
  BY <1>4, <1>9 DEF Live
<1>11. AvailOK'
  BY <1>1, <1>10 DEF IInv, AvailOK, RingOK, driver
<1>12. TakenOK'
  BY <1>1, <1>10 DEF IInv, TakenOK
<1>13. UsedOK'
  <2>1. Used(used_idx', dev_used_idx') = U - 1
    BY <1>1, <1>2
  <2>2. ASSUME NEW m \in 0 .. U - 2
        PROVE  /\ m \in 0 .. NUM - 2 /\ m + 1 \in 0 .. U - 1 /\ m + 1 # 0
               /\ Ent(used', used_idx', m) = Ent(used, used_idx, m + 1)
    BY <1>2, Sizing
  <2>3. ASSUME NEW m \in 0 .. U - 2, NEW e, e = Ent(used', used_idx', m)
        PROVE  e \in Desc /\ Live(e, "ok")'
    <3>1. e = Ent(used, used_idx, m + 1) /\ m + 1 \in 0 .. U - 1 /\ m + 1 # 0
          /\ 0 \in 0 .. U - 1
      BY <1>2, <2>2, <2>3
    <3>2. e \in Desc /\ Live(e, "ok") /\ e # h
      BY <1>2, <1>3, <3>1
    <3>3. QED BY <1>9, <3>2
  <2>4. \A m, n \in 0 .. U - 2 : m # n => Ent(used', used_idx', m) # Ent(used', used_idx', n)
    <3> TAKE m, n \in 0 .. U - 2
    <3> SUFFICES ASSUME m # n PROVE Ent(used', used_idx', m) # Ent(used', used_idx', n)
      OBVIOUS
    <3>1. m + 1 # n + 1
      BY <1>2
    <3>2. QED BY <1>3, <2>2, <3>1
  <2>5. U - 1 < NUM /\ U - 1 - 1 = U - 2
    BY <1>2, Sizing
  <2>6. QED BY <2>1, <2>3, <2>4, <2>5 DEF UsedOK, RingOK
<1>14. Busy' = Busy
  <2>1. \A q \in Proc : thr'[q].pc \in InFlight <=> thr[q].pc \in InFlight
    BY <1>5, <1>6 DEF InFlight
  <2>2. QED BY <2>1 DEF Busy
<1>16. ChainsOK'
  <2>1. UNCHANGED <<free, desc, ops>>
    BY <1>1 DEF driver
  <2>2. \A q \in Busy : q \in Proc
    BY DEF Busy
  <2>3. QED BY <1>6, <1>14, <2>1, <2>2, ChainsKept DEF IInv
<1>17. OwnOK'
  BY <1>1, <1>5, <1>6, <1>7, <1>14 DEF IInv, OwnOK, Busy
<1>18. PublishOK'
  <2>1. \A q \in Proc : At(q, "publish")' => At(q, "publish") /\ q # b
    BY <1>6 DEF At
  <2>2. QED BY <1>1, <1>6, <1>7, <2>1 DEF IInv, PublishOK, driver
<1>19. WaitersHaveWaker' /\ LockOK' /\ HeadOK'
  <2>1. \A q \in Proc : thr'[q].pc = thr[q].pc \/ q = b
    BY <1>6
  <2>2. QED BY <1>1, <1>5, <1>6, <2>1 DEF IInv, WaitersHaveWaker, LockOK, HeadOK, At, driver
<1>20. QED BY <1>8, <1>11, <1>12, <1>13, <1>16, <1>17, <1>18, <1>19 DEF IInv

-----------------------------------------------------------------------------
\* The head of a request in flight, and of an entry of a ring, is a descriptor that is taken.
LEMMA HeadTaken ==
  ASSUME IInv
  PROVE  /\ \A q \in Busy : q \in Proc /\ thr[q].head \in Desc /\ thr[q].head \notin free
         /\ \A h, s : Live(h, s) => h \in Desc /\ h \notin free
<1>1. \A q \in Busy : q \in Proc /\ thr[q].head \in Desc /\ thr[q].head \notin free
  BY DEF IInv, ChainsOK, Linked, Busy
<1>2. QED BY <1>1, Owner

\* The request is published.
LEMMA PublishStep ==
  ASSUME IInv, NEW p \in Proc, Publish(p)
  PROVE  IInv'
<1> DEFINE h == thr[p].head
<1> DEFINE A == Used(last_avail, avail_idx)
<1>1. /\ thr[p].pc = "publish" /\ avail_idx' = After(avail_idx, IDX)
      /\ lock' = NoOne /\ thr' = Moved(p, "sleep")
      /\ UNCHANGED <<free, desc, ops, avail, device, info, used_idx, bdisk, buf, irq>>
  BY DEF Publish, At, After
<1>2. UNCHANGED <<used, dev_used_idx, last_avail, taken, disk>>
  BY <1>1 DEF device
<1>3. /\ thr' \in [Proc -> ThrType] /\ thr'[p].pc = "sleep"
      /\ \A q \in Proc : /\ thr'[q].head = thr[q].head /\ thr'[q].write = thr[q].write
                         /\ thr'[q].blk = thr[q].blk
                         /\ q # p => thr'[q] = thr[q]
  <2>1. "sleep" \in InFlight \cup {"idle", "alloc", "no_desc"}
    BY DEF InFlight
  <2>2. QED BY <1>1, <2>1, MovedIs DEF IInv
<1>4. p \in Busy /\ info[h].b = p /\ h \in Desc
  BY <1>1, HeadTaken DEF Busy, InFlight, IInv, OwnOK
<1>5. /\ A + 1 < NUM /\ Ent(avail, last_avail, A) = h
      /\ bdisk[p] /\ info[h].status = "busy"
  BY <1>1 DEF IInv, PublishOK, At
<1>6. \A q \in Proc : thr[q].pc = "publish" => q = p
  BY <1>1 DEF IInv, LockOK, At
<1>7. A \in Nat
  BY RingTypes
<1>8. avail_idx' \in 0 .. IDX - 1 /\ Used(last_avail, avail_idx') = A + 1
  <2>1. /\ last_avail \in 0 .. IDX - 1 /\ avail_idx \in 0 .. IDX - 1
    BY RingTypes
  <2>2. InUse(last_avail, avail_idx, IDX) + 1 < IDX
    BY <1>5, <1>7, Sizing DEF Used
  <2>3. After(avail_idx, IDX) \in 0 .. IDX - 1
    BY <2>1, Sizing, Incremented
  <2>4. InUse(last_avail, After(avail_idx, IDX), IDX) = InUse(last_avail, avail_idx, IDX) + 1
    BY <2>1, <2>2, Sizing, OneMore
  <2>5. QED BY <1>1, <2>3, <2>4 DEF Used
<1>9. /\ \A m \in 0 .. A - 1 : /\ Ent(avail, last_avail, m) \in Desc
                               /\ Live(Ent(avail, last_avail, m), "busy")
                               /\ Ent(avail, last_avail, m) \notin taken
      /\ \A m, n \in 0 .. A - 1 : m # n => Ent(avail, last_avail, m) # Ent(avail, last_avail, n)
  BY DEF IInv, AvailOK, RingOK
<1> HIDE DEF h, A
<1>10. \A k, s : Live(k, s) => k # h /\ Live(k, s)'
  <2> SUFFICES ASSUME NEW k, NEW s, Live(k, s) PROVE k # h /\ Live(k, s)'
    OBVIOUS
  <2>1. /\ info[k].b \in Proc /\ thr[info[k].b].pc \in {"sleep", "woken"}
        /\ thr[info[k].b].head = k /\ info[k].status = s /\ bdisk[info[k].b]
    BY DEF Live
  <2>2. info[k].b # p
    BY <1>1, <2>1
  <2>3. thr'[info[k].b] = thr[info[k].b]
    BY <1>3, <2>1, <2>2
  <2>4. Live(k, s)'
    BY <1>1, <2>1, <2>3 DEF Live
  <2>5. QED BY <1>4, <2>2, <2>4
<1>11. \A k : k = h => Live(k, "busy")'
  BY <1>1, <1>3, <1>4, <1>5 DEF Live, h
<1>12. TypeOK'
  BY <1>1, <1>2, <1>3, <1>8 DEF IInv, TypeOK
<1>13. AvailOK'
  <2>1. Used(last_avail', avail_idx') = A + 1
    BY <1>2, <1>8
  <2>2. ASSUME NEW m \in 0 .. A, NEW e, e = Ent(avail', last_avail', m)
        PROVE  e \in Desc /\ Live(e, "busy")' /\ e \notin taken'
    <3>1. e = Ent(avail, last_avail, m)
      BY <1>1, <1>2, <2>2
    <3>2. CASE m = A
      <4>1. e = h
        BY <1>5, <3>1, <3>2
      <4>2. h \notin taken
        <5> SUFFICES ASSUME h \in taken PROVE FALSE
          OBVIOUS
        <5>1. Live(h, "busy")
          BY DEF IInv, TakenOK
        <5>2. QED BY <1>10, <5>1
      <4>3. QED BY <1>2, <1>4, <1>11, <4>1, <4>2
    <3>3. CASE m # A
      <4>1. m \in 0 .. A - 1
        BY <1>7, <3>3
      <4>2. QED BY <1>2, <1>9, <1>10, <3>1, <4>1
    <3>4. QED BY <3>2, <3>3
  <2>3. ASSUME NEW m \in 0 .. A, NEW n \in 0 .. A, m # n
        PROVE  Ent(avail', last_avail', m) # Ent(avail', last_avail', n)
    <3>1. \A l \in 0 .. A - 1 : Ent(avail, last_avail, l) # h
      BY <1>9, <1>10
    <3>2. CASE m = A
      <4>1. n \in 0 .. A - 1
        BY <1>7, <2>3, <3>2
      <4>2. QED BY <1>1, <1>2, <1>5, <3>1, <3>2, <4>1
    <3>3. CASE n = A
      <4>1. m \in 0 .. A - 1
        BY <1>7, <2>3, <3>3
      <4>2. QED BY <1>1, <1>2, <1>5, <3>1, <3>3, <4>1
    <3>4. CASE m # A /\ n # A
      <4>1. m \in 0 .. A - 1 /\ n \in 0 .. A - 1
        BY <1>7, <3>4
      <4>2. Ent(avail, last_avail, m) # Ent(avail, last_avail, n)
        BY <1>9, <2>3, <4>1
      <4>3. QED BY <1>1, <1>2, <4>2
    <3>5. QED BY <3>2, <3>3, <3>4
  <2>4. (A + 1) - 1 = A
    BY <1>7
  <2>5. QED BY <1>5, <2>1, <2>2, <2>3, <2>4 DEF AvailOK, RingOK
<1>14. TakenOK' /\ UsedOK'
  BY <1>1, <1>2, <1>10 DEF IInv, TakenOK, UsedOK, RingOK
<1>15. \A q \in Proc : ~ At(q, "publish")'
  BY <1>3, <1>6 DEF At
<1>16. PublishOK' /\ LockOK'
  BY <1>1, <1>15, Sizing DEF PublishOK, LockOK
<1>17. Busy' = Busy
  <2>1. \A q \in Proc : thr'[q].pc \in InFlight <=> thr[q].pc \in InFlight
    BY <1>1, <1>3 DEF InFlight
  <2>2. QED BY <2>1 DEF Busy
<1>18. ChainsOK'
  <2>1. \A q \in Busy : /\ thr'[q].head = thr[q].head /\ thr'[q].write = thr[q].write
                        /\ thr'[q].blk = thr[q].blk
    BY <1>3 DEF Busy
  <2>2. QED BY <1>1, <1>17, <2>1, ChainsKept DEF IInv
<1>19. OwnOK'
  BY <1>1, <1>3, <1>17, HeadTaken DEF IInv, OwnOK
<1>20. WaitersHaveWaker' /\ HeadOK'
  BY <1>1, <1>3 DEF IInv, WaitersHaveWaker, HeadOK, At
<1>21. QED BY <1>12, <1>13, <1>14, <1>16, <1>18, <1>19, <1>20 DEF IInv

-----------------------------------------------------------------------------
\* The rings' entries in use, with their requests.
LEMMA AvailIs ==
  ASSUME IInv
  PROVE  /\ Used(last_avail, avail_idx) < NUM
         /\ \A m \in 0 .. Used(last_avail, avail_idx) - 1 :
              /\ Ent(avail, last_avail, m) \in Desc
              /\ Live(Ent(avail, last_avail, m), "busy")
              /\ Ent(avail, last_avail, m) \notin taken
         /\ \A m, n \in 0 .. Used(last_avail, avail_idx) - 1 :
              m # n => Ent(avail, last_avail, m) # Ent(avail, last_avail, n)
  BY DEF IInv, AvailOK, RingOK

LEMMA UsedOf ==
  ASSUME IInv
  PROVE  /\ Used(used_idx, dev_used_idx) < NUM
         /\ \A m \in 0 .. Used(used_idx, dev_used_idx) - 1 :
              /\ Ent(used, used_idx, m) \in Desc
              /\ Live(Ent(used, used_idx, m), "ok")
         /\ \A m, n \in 0 .. Used(used_idx, dev_used_idx) - 1 :
              m # n => Ent(used, used_idx, m) # Ent(used, used_idx, n)
  BY DEF IInv, UsedOK, RingOK

\* Three different elements.
LEMMA Three ==
  ASSUME NEW a, NEW b, NEW c, a # b, a # c, b # c
  PROVE  IsFiniteSet({a, b, c}) /\ Cardinality({a, b, c}) = 3
<1>1. IsFiniteSet({a}) /\ Cardinality({a}) = 1
  BY FS_Singleton
<1>2. IsFiniteSet({a} \cup {b}) /\ Cardinality({a} \cup {b}) = 2
  <2>1. b \notin {a}
    OBVIOUS
  <2>2. QED BY <1>1, <2>1, FS_AddElement
<1>3. IsFiniteSet(({a} \cup {b}) \cup {c}) /\ Cardinality(({a} \cup {b}) \cup {c}) = 3
  <2>1. c \notin {a} \cup {b}
    OBVIOUS
  <2>2. QED BY <1>2, <2>1, FS_AddElement
<1>4. ({a} \cup {b}) \cup {c} = {a, b, c}
  OBVIOUS
<1>5. QED BY <1>3, <1>4

\* Three descriptors are taken, or freed.
LEMMA ThreeFewer ==
  ASSUME NEW S \in SUBSET Desc, NEW a \in S, NEW b \in S, NEW c \in S, a # b, a # c, b # c
  PROVE  Cardinality(S \ {a, b, c}) = Cardinality(S) - 3 /\ Cardinality(S) \in Nat
<1> DEFINE T == S \ {a, b, c}
<1> DEFINE R == {a, b, c}
<1>1. IsFiniteSet(S)
  <2>1. IsFiniteSet(Desc)
    BY FS_Interval, Sizing DEF Desc
  <2>2. QED BY <2>1, FS_Subset
<1>2. IsFiniteSet(R) /\ Cardinality(R) = 3
  BY Three
<1>3. T \cap R = {} /\ T \cup R = S /\ T \subseteq S
  OBVIOUS
<1> HIDE DEF T, R
<1>4. IsFiniteSet(T) /\ Cardinality(T) \in Nat /\ Cardinality(S) \in Nat
  BY <1>1, <1>3, FS_Subset, FS_CardinalityType
<1>5. Cardinality(T \cup R) = Cardinality(T) + Cardinality(R) - Cardinality(T \cap R)
  BY <1>2, <1>4, FS_Union
<1>6. Cardinality({}) = 0
  BY FS_EmptySet
<1>7. Cardinality(T) = Cardinality(S) - 3
  <2>1. Cardinality(S) = Cardinality(T) + 3 - Cardinality({})
    BY <1>2, <1>3, <1>5
  <2>2. QED BY <1>4, <1>6, <2>1
<1>8. QED BY <1>4, <1>7 DEF T

\* Three descriptors are set up for the request and its head is put in the avail ring.
LEMMA SubmitStep ==
  ASSUME IInv, NEW p \in Proc, Submit(p)
  PROVE  IInv'
<1>1. PICK i \in free, j \in free, k \in free :
        /\ FirstThree(i, j, k)
        /\ free' = free \ {i, j, k}
        /\ desc' = [desc EXCEPT ![i] = [next |-> j, addr |-> i],
                                ![j] = [next |-> k, addr |-> p],
                                ![k] = [next |-> NoDesc, addr |-> i]]
        /\ ops' = [ops EXCEPT ![i] = [write |-> thr[p].write, blk |-> thr[p].blk]]
        /\ info' = [info EXCEPT ![i] = [b |-> p, status |-> "busy"]]
        /\ avail' = [avail EXCEPT ![avail_idx % NUM] = i]
        /\ thr' = [thr EXCEPT ![p].pc = "publish", ![p].head = i]
  BY DEF Submit
<1>2. /\ thr[p].pc = "alloc" /\ lock = NoOne /\ lock' = p
      /\ bdisk' = [bdisk EXCEPT ![p] = TRUE]
      /\ UNCHANGED <<avail_idx, used, dev_used_idx, last_avail, taken, disk, used_idx, buf, irq>>
  BY DEF Submit, At, device
<1>3. i \in Desc /\ j \in Desc /\ k \in Desc /\ i # j /\ i # k /\ j # k
  <2>1. free \subseteq Desc
    BY DEF IInv, TypeOK
  <2>2. i < j /\ j < k
    BY <1>1 DEF FirstThree
  <2>3. i \in Int /\ j \in Int /\ k \in Int
    BY <2>1, Sizing DEF Desc
  <2>4. QED BY <2>1, <2>2, <2>3
<1>4. /\ thr' \in [Proc -> ThrType]
      /\ thr'[p].pc = "publish" /\ thr'[p].head = i
      /\ thr'[p].write = thr[p].write /\ thr'[p].blk = thr[p].blk
      /\ \A q \in Proc : q # p => thr'[q] = thr[q]
  <2> DEFINE r == [pc |-> "publish", write |-> thr[p].write, blk |-> thr[p].blk, head |-> i]
  <2>1. thr \in [Proc -> ThrType] /\ thr[p] \in ThrType
    BY DEF IInv, TypeOK
  <2>2. [[thr[p] EXCEPT !.pc = "publish"] EXCEPT !.head = i] = r
    <3>1. [thr[p] EXCEPT !.pc = "publish"] = [pc |-> "publish", write |-> thr[p].write,
                                              blk |-> thr[p].blk, head |-> thr[p].head]
      BY <2>1 DEF ThrType
    <3>2. [thr[p] EXCEPT !.pc = "publish"] \in ThrType
      BY <2>1, <3>1 DEF ThrType, InFlight
    <3>3. PICK m \in ThrType :
            /\ m = [thr[p] EXCEPT !.pc = "publish"]
            /\ m.pc = "publish" /\ m.write = thr[p].write /\ m.blk = thr[p].blk
      BY <3>1, <3>2
    <3>4. [m EXCEPT !.head = i] = r
      <4>1. [m EXCEPT !.head = i] = [pc |-> m.pc, write |-> m.write, blk |-> m.blk, head |-> i]
        BY DEF ThrType
      <4>2. QED BY <3>3, <4>1
    <3>5. QED BY <3>3, <3>4
  <2>3. thr' = [thr EXCEPT ![p] = [[thr[p] EXCEPT !.pc = "publish"] EXCEPT !.head = i]]
    BY <1>1, <2>1
  <2>4. r \in ThrType
    BY <1>3, <2>1 DEF ThrType, InFlight
  <2>5. thr' = [thr EXCEPT ![p] = r]
    BY <2>2, <2>3
  <2> HIDE DEF r
  <2>6. thr' \in [Proc -> ThrType] /\ thr'[p] = r /\ \A q \in Proc : q # p => thr'[q] = thr[q]
    BY <2>1, <2>4, <2>5
  <2>7. QED BY <2>6 DEF r
<1>5. /\ desc' \in [Desc -> [next : Desc \cup {NoDesc}, addr : Desc \cup Proc \cup {NoOne}]]
      /\ desc'[i].next = j /\ desc'[j].next = k /\ desc'[j].addr = p /\ desc'[k].addr = i
      /\ \A d \in Desc \ {i, j, k} : desc'[d] = desc[d]
  BY <1>1, <1>3 DEF IInv, TypeOK
<1>6. /\ ops' \in [Desc -> [write : BOOLEAN, blk : Block]]
      /\ ops'[i].write = thr[p].write /\ ops'[i].blk = thr[p].blk
      /\ \A d \in Desc : d # i => ops'[d] = ops[d]
  <2>1. thr[p].write \in BOOLEAN /\ thr[p].blk \in Block
    BY DEF IInv, TypeOK, ThrType
  <2>2. [write |-> thr[p].write, blk |-> thr[p].blk] \in [write : BOOLEAN, blk : Block]
    BY <2>1
  <2>3. QED BY <1>1, <1>3, <2>2 DEF IInv, TypeOK
<1>7. /\ info' \in [Desc -> [b : Proc \cup {NoOne}, status : {"none", "busy", "ok"}]]
      /\ info'[i].b = p /\ info'[i].status = "busy"
      /\ \A d \in Desc : d # i => info'[d] = info[d]
  BY <1>1, <1>3 DEF IInv, TypeOK
<1>8. /\ bdisk' \in [Proc -> BOOLEAN] /\ bdisk'[p]
      /\ \A q \in Proc : q # p => bdisk'[q] = bdisk[q]
  BY <1>2 DEF IInv, TypeOK
<1> DEFINE A == Used(last_avail, avail_idx)
<1>9. A \in Nat /\ last_avail \in 0 .. IDX - 1 /\ avail_idx \in 0 .. IDX - 1
  BY RingTypes
<1>10. avail_idx % NUM = Place(last_avail, A, NUM)
  BY <1>9, Newest
<1>11. p \notin Busy /\ Busy' = Busy \cup {p}
  <2>1. \A q \in Proc : thr'[q].pc \in InFlight <=> q = p \/ thr[q].pc \in InFlight
    BY <1>4 DEF InFlight
  <2>2. QED BY <1>2, <2>1 DEF Busy, InFlight
<1>12. \A q \in Busy : q \in Proc /\ q # p /\ thr'[q] = thr[q]
  BY <1>4, <1>11 DEF Busy
<1>13. \A q \in Busy : ChainOf(q) \subseteq Desc \ {i, j, k}
  <2> SUFFICES ASSUME NEW q \in Busy PROVE ChainOf(q) \subseteq Desc \ {i, j, k}
    OBVIOUS
  <2>1. Linked(q)
    BY DEF IInv, ChainsOK
  <2>2. QED BY <2>1 DEF Linked, ChainOf
<1>14. ASSUME NEW q \in Busy
       PROVE  /\ Linked(q)' /\ ChainOf(q)' = ChainOf(q)
              /\ thr[q].head \in Desc /\ thr[q].head # i
  <2>1. /\ thr[q].head \in Desc \ {i, j, k} /\ Data(thr[q].head) \in Desc \ {i, j, k}
        /\ Status(thr[q].head) \in Desc \ {i, j, k}
    BY <1>13 DEF ChainOf
  <2>2. thr'[q] = thr[q]
    BY <1>12
  <2>3. /\ desc'[thr[q].head] = desc[thr[q].head]
        /\ desc'[Data(thr[q].head)] = desc[Data(thr[q].head)]
        /\ desc'[Status(thr[q].head)] = desc[Status(thr[q].head)]
        /\ ops'[thr[q].head] = ops[thr[q].head]
    BY <1>5, <1>6, <2>1
  <2>4. Linked(q)
    BY DEF IInv, ChainsOK
  <2>5. ChainOf(q)' = ChainOf(q)
    BY <2>2, <2>3 DEF ChainOf, Data, Status
  <2>6. Linked(q)'
    <3>1. free' \subseteq free
      BY <1>1
    <3>2. PICK h, d, e : h = thr[q].head /\ d = desc[h].next /\ e = desc[d].next
      OBVIOUS
    <3>3. /\ thr'[q].head = h /\ desc'[h].next = d /\ desc'[d].next = e
          /\ desc'[d].addr = desc[d].addr /\ desc'[e].addr = desc[e].addr
          /\ ops'[h] = ops[h] /\ thr'[q].write = thr[q].write /\ thr'[q].blk = thr[q].blk
      BY <2>2, <2>3, <3>2 DEF Data, Status
    <3>4. /\ h \in Desc /\ d \in Desc /\ e \in Desc /\ h # d /\ h # e /\ d # e
          /\ h \notin free /\ d \notin free /\ e \notin free
          /\ desc[d].addr = q /\ desc[e].addr = h
          /\ ops[h].write = thr[q].write /\ ops[h].blk = thr[q].blk
      BY <2>4, <3>2 DEF Linked, Data, Status
    <3>5. QED BY <3>1, <3>3, <3>4 DEF Linked, Data, Status
  <2>7. QED BY <2>1, <2>5, <2>6
<1>15. Linked(p)' /\ ChainOf(p)' = {i, j, k}
  <2>1. ChainOf(p)' = {i, j, k}
    BY <1>4, <1>5 DEF ChainOf, Data, Status
  <2>2. thr'[p].head = i /\ Data(i)' = j /\ Status(i)' = k
    BY <1>4, <1>5 DEF Data, Status
  <2>3. /\ ops'[i].write = thr'[p].write /\ ops'[i].blk = thr'[p].blk
        /\ desc'[j].addr = p /\ desc'[k].addr = i
    BY <1>4, <1>5, <1>6
  <2>4. /\ i \in Desc /\ j \in Desc /\ k \in Desc /\ i # j /\ i # k /\ j # k
        /\ i \notin free' /\ j \notin free' /\ k \notin free'
    BY <1>1, <1>3
  <2>5. Linked(p)'
    BY <2>2, <2>3, <2>4 DEF Linked
  <2>6. QED BY <2>1, <2>5
<1>16. Cardinality(free') = Cardinality(free) - 3 /\ Cardinality(free) \in Nat
  <2>1. free \in SUBSET Desc
    BY DEF IInv, TypeOK
  <2>2. QED BY <1>1, <1>3, <2>1, ThreeFewer
<1>17. ChainsOK'
  <2>1. \A q \in Busy' : Linked(q)'
    BY <1>11, <1>14, <1>15
  <2>2. ASSUME NEW q \in Busy, NEW r \in Busy, q # r PROVE ChainOf(q)' \cap ChainOf(r)' = {}
    <3>1. ChainOf(q) \cap ChainOf(r) = {}
      BY <2>2 DEF IInv, ChainsOK
    <3>2. QED BY <1>14, <3>1
  <2>3. ASSUME NEW q \in Busy PROVE ChainOf(q)' \cap ChainOf(p)' = {}
    BY <1>13, <1>14, <1>15
  <2>4. IsFiniteSet(Busy') /\ Cardinality(Busy') = Cardinality(Busy) + 1
    <3>1. IsFiniteSet(Busy)
      BY DEF IInv, ChainsOK
    <3>2. QED BY <1>11, <3>1, FS_AddElement
  <2>5. Cardinality(Busy) \in Nat /\ Cardinality(free) + 3 * Cardinality(Busy) = NUM
    BY FS_CardinalityType DEF IInv, ChainsOK
  <2>6. Cardinality(free') + 3 * Cardinality(Busy') = NUM
    BY <1>16, <2>4, <2>5, Sizing
  <2>7. ASSUME NEW q \in Busy', NEW r \in Busy', q # r PROVE ChainOf(q)' \cap ChainOf(r)' = {}
    <3>1. q = p \/ q \in Busy
      BY <1>11
    <3>2. r = p \/ r \in Busy
      BY <1>11
    <3>3. QED BY <2>2, <2>3, <2>7, <3>1, <3>2
  <2>8. QED BY <2>1, <2>4, <2>6, <2>7 DEF ChainsOK
<1>18. \A d, s : Live(d, s) => Live(d, s)'
  <2> SUFFICES ASSUME NEW d, NEW s, Live(d, s) PROVE Live(d, s)'
    OBVIOUS
  <2>1. /\ info[d].b \in Busy /\ thr[info[d].b].head = d /\ info[d].status = s
        /\ bdisk[info[d].b] /\ thr[info[d].b].pc \in {"sleep", "woken"}
    BY Owner
  <2>2. d \in Desc /\ d # i
    BY <1>14, <2>1
  <2>3. info'[d] = info[d]
    BY <1>7, <2>2
  <2>4. /\ info[d].b \in Proc /\ thr'[info[d].b] = thr[info[d].b]
        /\ bdisk'[info[d].b] = bdisk[info[d].b]
    BY <1>8, <1>12, <2>1
  <2>5. QED BY <2>1, <2>3, <2>4 DEF Live
<1>19. TypeOK'
  <2>1. avail' \in [Desc -> Desc \cup {NoDesc}]
    BY <1>1, <1>3, RingTypes
  <2>2. free' \subseteq Desc
    BY <1>1 DEF IInv, TypeOK
  <2>3. QED BY <1>2, <1>4, <1>5, <1>6, <1>7, <1>8, <2>1, <2>2 DEF IInv, TypeOK
<1> HIDE DEF A
<1>20. A <= NUM - 3
  <2>1. \A m \in 0 .. A - 1 : Ent(avail, last_avail, m) \in Desc \ {i, j, k}
    <3>1. \A d, s : Live(d, s) => d \notin free
      BY HeadTaken
    <3>2. QED BY <3>1, AvailIs DEF A
  <2>2. \A m, n \in 0 .. A - 1 : m # n => Ent(avail, last_avail, m) # Ent(avail, last_avail, n)
    BY AvailIs DEF A
  <2>3. QED BY <1>3, <1>9, <2>1, <2>2, RingRoom
<1>21. /\ Place(last_avail, A, NUM) \in Desc
       /\ \A m \in 0 .. A - 1 : Ent(avail', last_avail, m) = Ent(avail, last_avail, m)
       /\ Ent(avail', last_avail, A) = i
  <2>1. A < NUM
    BY <1>9, <1>20, Sizing
  <2>2. SameBut(avail, avail', Place(last_avail, A, NUM))
    BY <1>1, <1>10, RingTypes DEF SameBut
  <2>3. /\ Place(last_avail, A, NUM) \in Desc
        /\ \A m \in 0 .. A - 1 : Ent(avail', last_avail, m) = Ent(avail, last_avail, m)
    BY <1>9, <2>1, <2>2, RingPut DEF A
  <2>4. Ent(avail', last_avail, A) = i
    BY <1>1, <1>10, <2>3, RingTypes DEF Ent
  <2>5. QED BY <2>3, <2>4
<1>22. Used(last_avail', avail_idx') = A
  BY <1>2 DEF A
<1>23. AvailOK'
  <2>1. ASSUME NEW m \in 0 .. A - 1, NEW e, e = Ent(avail', last_avail', m)
        PROVE  e \in Desc /\ Live(e, "busy")' /\ e \notin taken'
    <3>1. e = Ent(avail, last_avail, m)
      BY <1>2, <1>21, <2>1
    <3>2. e \in Desc /\ Live(e, "busy") /\ e \notin taken
      BY <3>1, AvailIs DEF A
    <3>3. QED BY <1>2, <1>18, <3>2
  <2>2. \A m, n \in 0 .. A - 1 : m # n => Ent(avail', last_avail', m) # Ent(avail', last_avail', n)
    BY <1>2, <1>21, AvailIs DEF A
  <2>3. A < NUM
    BY <1>9, <1>20, Sizing
  <2>4. QED BY <1>22, <2>1, <2>2, <2>3 DEF AvailOK, RingOK
<1>24. TakenOK' /\ UsedOK'
  BY <1>2, <1>18 DEF IInv, TakenOK, UsedOK, RingOK
<1>25. LockOK'
  <2>1. \A q \in Proc : thr[q].pc # "publish"
    BY <1>2, Sizing DEF IInv, LockOK, At
  <2>2. QED BY <1>2, <1>4, <2>1 DEF LockOK, At
<1>26. PublishOK'
  <2>1. \A q \in Proc : At(q, "publish")' => q = p
    BY <1>2, <1>25 DEF LockOK
  <2>2. A + 1 < NUM
    BY <1>9, <1>20, Sizing
  <2>3. Ent(avail', last_avail', A) = i
    BY <1>2, <1>21
  <2>4. QED BY <1>4, <1>7, <1>8, <1>22, <2>1, <2>2, <2>3 DEF PublishOK
<1>27. OwnOK'
  <2>1. ASSUME NEW q \in Busy
        PROVE  /\ info'[thr'[q].head].b = q
               /\ bdisk'[q] \/ info'[thr'[q].head].status = "ok"
    <3>1. info'[thr'[q].head] = info[thr[q].head] /\ bdisk'[q] = bdisk[q]
      BY <1>7, <1>8, <1>12, <1>14
    <3>2. QED BY <3>1 DEF IInv, OwnOK
  <2>2. info'[thr'[p].head].b = p /\ bdisk'[p]
    BY <1>4, <1>7, <1>8
  <2>3. QED BY <1>11, <2>1, <2>2 DEF OwnOK
<1>28. WaitersHaveWaker' /\ HeadOK'
  <2>1. HeadOK'
    BY <1>4 DEF IInv, HeadOK
  <2>2. WaitersHaveWaker'
    <3>1. ASSUME NEW q \in Proc, At(q, "no_desc")' PROVE At(q, "no_desc")
      BY <1>4, <3>1 DEF At
    <3>2. QED BY <1>16, <3>1 DEF IInv, WaitersHaveWaker
  <2>3. QED BY <2>1, <2>2
<1>29. QED BY <1>17, <1>19, <1>23, <1>24, <1>25, <1>26, <1>27, <1>28 DEF IInv

\* The request is done: its descriptors are free again and whoever waits for some tries again.
LEMMA FinishStep ==
  ASSUME IInv, NEW p \in Proc, Finish(p), ~ bdisk[p]
  PROVE  IInv'
<1>1. PICK h, d, e : h = thr[p].head /\ d = desc[h].next /\ e = desc[d].next
  OBVIOUS
<1>2. Chain(h) = {h, d, e}
  BY <1>1 DEF Chain
<1>3. /\ thr[p].pc = "woken" /\ lock = NoOne
      /\ info' = [info EXCEPT ![h].b = NoOne]
      /\ free' = free \cup {h, d, e}
      /\ desc' = [i \in Desc |-> IF i \in {h, d, e} THEN Unset ELSE desc[i]]
      /\ thr' = Retry([thr EXCEPT ![p] = Idle])
      /\ UNCHANGED <<ops, avail, avail_idx, used, dev_used_idx, last_avail, taken, disk, used_idx,
                     lock, bdisk, buf, irq>>
  BY <1>1, <1>2 DEF Finish, At, device
<1>4. p \in Busy
  BY <1>3 DEF Busy, InFlight
<1>5. /\ h \in Desc /\ d \in Desc /\ e \in Desc /\ h # d /\ h # e /\ d # e
      /\ h \notin free /\ d \notin free /\ e \notin free
      /\ ChainOf(p) = {h, d, e}
  <2>1. Linked(p)
    BY <1>4 DEF IInv, ChainsOK
  <2>2. QED BY <1>1, <2>1 DEF Linked, ChainOf, Data, Status
<1>6. /\ thr' \in [Proc -> ThrType] /\ thr'[p].pc = "idle"
      /\ \A q \in Proc : q # p => /\ thr'[q].head = thr[q].head /\ thr'[q].write = thr[q].write
                                  /\ thr'[q].blk = thr[q].blk
                                  /\ thr[q].pc = "no_desc" => thr'[q].pc = "alloc"
                                  /\ thr[q].pc # "no_desc" => thr'[q] = thr[q]
  <2> DEFINE t == [thr EXCEPT ![p] = Idle]
  <2>1. Idle \in ThrType /\ Idle.pc = "idle"
    BY DiskAssumption DEF Idle, ThrType
  <2>2. /\ t \in [Proc -> ThrType] /\ t[p] = Idle /\ \A q \in Proc : q # p => t[q] = thr[q]
    BY <2>1 DEF IInv, TypeOK
  <2>3. thr' = Retry(t)
    BY <1>3
  <2> HIDE DEF t
  <2>4. /\ Retry(t) \in [Proc -> ThrType]
        /\ \A q \in Proc : /\ Retry(t)[q].head = t[q].head
                           /\ Retry(t)[q].write = t[q].write
                           /\ Retry(t)[q].blk = t[q].blk
                           /\ t[q].pc = "no_desc" => Retry(t)[q].pc = "alloc"
                           /\ t[q].pc # "no_desc" => Retry(t)[q] = t[q]
    BY <2>2, RetryIs
  <2>5. thr'[p] = Idle
    BY <2>1, <2>2, <2>3, <2>4
  <2>6. ASSUME NEW q \in Proc, q # p
        PROVE  /\ thr'[q].head = thr[q].head /\ thr'[q].write = thr[q].write
               /\ thr'[q].blk = thr[q].blk
               /\ thr[q].pc = "no_desc" => thr'[q].pc = "alloc"
               /\ thr[q].pc # "no_desc" => thr'[q] = thr[q]
    BY <2>2, <2>3, <2>4, <2>6
  <2>7. QED BY <2>1, <2>3, <2>4, <2>5, <2>6
<1>7. Busy' = Busy \ {p}
  <2>1. \A q \in Proc : thr'[q].pc \in InFlight <=> q # p /\ thr[q].pc \in InFlight
    BY <1>6 DEF InFlight
  <2>2. QED BY <2>1 DEF Busy
<1>8. \A q \in Busy : q # p => thr'[q] = thr[q]
  BY <1>6 DEF Busy, InFlight
<1>9. desc' \in [Desc -> [next : Desc \cup {NoDesc}, addr : Desc \cup Proc \cup {NoOne}]]
  <2>1. Unset \in [next : Desc \cup {NoDesc}, addr : Desc \cup Proc \cup {NoOne}]
    BY DEF Unset
  <2>2. QED BY <1>3, <2>1 DEF IInv, TypeOK
<1>10. /\ info' \in [Desc -> [b : Proc \cup {NoOne}, status : {"none", "busy", "ok"}]]
       /\ \A i \in Desc : i # h => info'[i] = info[i]
  <2>1. info \in [Desc -> [b : Proc \cup {NoOne}, status : {"none", "busy", "ok"}]]
    BY DEF IInv, TypeOK
  <2>2. QED BY <1>3, <1>5, <2>1
<1>11. ASSUME NEW q \in Busy, q # p
       PROVE  /\ Linked(q)' /\ ChainOf(q)' = ChainOf(q)
              /\ thr[q].head \in Desc /\ thr[q].head # h
  <2>1. PICK a, b, c : a = thr[q].head /\ b = desc[a].next /\ c = desc[b].next
    OBVIOUS
  <2>2. /\ a \in Desc /\ b \in Desc /\ c \in Desc /\ a # b /\ a # c /\ b # c
        /\ a \notin free /\ b \notin free /\ c \notin free
        /\ desc[b].addr = q /\ desc[c].addr = a
        /\ ops[a].write = thr[q].write /\ ops[a].blk = thr[q].blk
        /\ ChainOf(q) = {a, b, c}
    <3>1. Linked(q)
      BY DEF IInv, ChainsOK
    <3>2. QED BY <2>1, <3>1 DEF Linked, ChainOf, Data, Status
  <2>3. {a, b, c} \cap {h, d, e} = {}
    BY <1>4, <1>5, <1>11, <2>2 DEF IInv, ChainsOK
  <2>4. desc'[a] = desc[a] /\ desc'[b] = desc[b] /\ desc'[c] = desc[c]
    BY <1>3, <2>2, <2>3
  <2>5. a \notin free' /\ b \notin free' /\ c \notin free'
    BY <1>3, <2>2, <2>3
  <2>6. thr'[q] = thr[q]
    BY <1>8, <1>11
  <2>7. ChainOf(q)' = {a, b, c}
    BY <2>1, <2>4, <2>6 DEF ChainOf, Data, Status
  <2>8. Linked(q)'
    BY <1>3, <2>1, <2>2, <2>4, <2>5, <2>6 DEF Linked, Data, Status
  <2>9. QED BY <2>1, <2>2, <2>3, <2>7, <2>8
<1>12. Cardinality(free') = Cardinality(free) + 3 /\ Cardinality(free) \in Nat
  <2>1. free' \in SUBSET Desc /\ free \in SUBSET Desc
    BY <1>3, <1>5 DEF IInv, TypeOK
  <2>2. h \in free' /\ d \in free' /\ e \in free' /\ free = free' \ {h, d, e}
    BY <1>3, <1>5
  <2>3. PICK S \in SUBSET Desc : S = free'
    BY <2>1
  <2>4. /\ Cardinality(S \ {h, d, e}) = Cardinality(S) - 3 /\ Cardinality(S) \in Nat
    BY <1>5, <2>2, <2>3, ThreeFewer, SMTT(30)
  <2>5. Cardinality(free) \in Nat
    <3>1. IsFiniteSet(Desc)
      BY FS_Interval, Sizing DEF Desc
    <3>2. QED BY <2>1, <3>1, FS_Subset, FS_CardinalityType
  <2>6. QED BY <2>2, <2>3, <2>4, <2>5
<1>13. ChainsOK'
  <2>1. \A q \in Busy' : Linked(q)'
    BY <1>7, <1>11
  <2>2. ASSUME NEW q \in Busy', NEW r \in Busy', q # r PROVE ChainOf(q)' \cap ChainOf(r)' = {}
    <3>1. q \in Busy /\ r \in Busy /\ q # p /\ r # p
      BY <1>7
    <3>2. ChainOf(q) \cap ChainOf(r) = {}
      BY <2>2, <3>1 DEF IInv, ChainsOK
    <3>3. QED BY <1>11, <3>1, <3>2
  <2>3. /\ IsFiniteSet(Busy') /\ Cardinality(Busy') = Cardinality(Busy) - 1
    <3>1. IsFiniteSet(Busy)
      BY DEF IInv, ChainsOK
    <3>2. QED BY <1>4, <1>7, <3>1, FS_RemoveElement
  <2>4. Cardinality(Busy) \in Nat /\ Cardinality(free) + 3 * Cardinality(Busy) = NUM
    BY FS_CardinalityType DEF IInv, ChainsOK
  <2>5. Cardinality(free') + 3 * Cardinality(Busy') = NUM
    BY <1>12, <2>3, <2>4, Sizing
  <2>6. QED BY <2>1, <2>2, <2>3, <2>5 DEF ChainsOK
<1>14. \A k, s : Live(k, s) => Live(k, s)'
  <2> SUFFICES ASSUME NEW k, NEW s, Live(k, s) PROVE Live(k, s)'
    OBVIOUS
  <2>1. /\ info[k].b \in Busy /\ thr[info[k].b].head = k /\ info[k].status = s
        /\ bdisk[info[k].b] /\ thr[info[k].b].pc \in {"sleep", "woken"}
    BY Owner
  <2>2. info[k].b # p
    BY <2>1
  <2>3. k \in Desc /\ k # h
    BY <1>11, <2>1, <2>2
  <2>4. info'[k] = info[k] /\ thr'[info[k].b] = thr[info[k].b] /\ info[k].b \in Proc
    BY <1>8, <1>10, <2>1, <2>2, <2>3 DEF Busy
  <2>5. QED BY <1>3, <2>1, <2>4 DEF Live
<1>15. TypeOK'
  <2>1. free' \subseteq Desc
    BY <1>3, <1>5 DEF IInv, TypeOK
  <2>2. QED BY <1>3, <1>6, <1>9, <1>10, <2>1 DEF IInv, TypeOK
<1>16. AvailOK'
  BY <1>3, <1>14 DEF IInv, AvailOK, RingOK
<1>17. TakenOK' /\ UsedOK'
  BY <1>3, <1>14 DEF IInv, TakenOK, UsedOK, RingOK
<1>18. \A q \in Proc : ~ At(q, "publish")'
  <2>1. \A q \in Proc : thr[q].pc # "publish"
    BY <1>3, Sizing DEF IInv, LockOK, At
  <2>2. QED BY <1>6, <2>1 DEF At
<1>19. LockOK' /\ PublishOK'
  BY <1>3, <1>18, Sizing DEF LockOK, PublishOK
<1>20. OwnOK'
  <2> SUFFICES ASSUME NEW q \in Busy'
               PROVE  /\ info'[thr'[q].head].b = q
                      /\ bdisk'[q] \/ info'[thr'[q].head].status = "ok"
    BY DEF OwnOK
  <2>1. q \in Busy /\ q # p
    BY <1>7
  <2>2. info'[thr'[q].head] = info[thr[q].head]
    BY <1>8, <1>10, <1>11, <2>1
  <2>3. QED BY <1>3, <2>1, <2>2 DEF IInv, OwnOK
<1>21. HeadOK'
  BY <1>6 DEF IInv, HeadOK
<1>22. WaitersHaveWaker'
  BY <1>6 DEF WaitersHaveWaker, At
<1>23. QED BY <1>13, <1>15, <1>16, <1>17, <1>19, <1>20, <1>21, <1>22 DEF IInv

\* The device carries out a request it has taken: its descriptors lead to its own buffer and
\* status, and the used ring has room for it.
LEMMA DevCompleteStep ==
  ASSUME IInv, DevComplete
  PROVE  IInv'
<1>1. PICK h \in taken :
        LET data   == desc[h].next
            b      == desc[data].addr
            status == desc[desc[data].next].addr
        IN  /\ IF ops[h].write
               THEN disk' = [disk EXCEPT ![ops[h].blk] = buf[b]] /\ UNCHANGED buf
               ELSE buf' = [buf EXCEPT ![b] = disk[ops[h].blk]] /\ UNCHANGED disk
            /\ info' = [info EXCEPT ![status].status = "ok"]
            /\ used' = [used EXCEPT ![dev_used_idx % NUM] = h]
            /\ dev_used_idx' = (dev_used_idx + 1) % IDX
            /\ taken' = taken \ {h}
            /\ irq' = TRUE
            /\ UNCHANGED <<driver, last_avail, used_idx, lock, bdisk, thr>>
  BY DEF DevComplete
<1>2. PICK o : o = info[h].b
  OBVIOUS
<1>3. /\ o \in Proc /\ o \in Busy /\ thr[o].head = h /\ info[h].status = "busy"
      /\ bdisk[o] /\ thr[o].pc \in {"sleep", "woken"} /\ Live(h, "busy")
  <2>1. Live(h, "busy")
    BY DEF IInv, TakenOK
  <2>2. QED BY <1>2, <2>1, Owner DEF Busy
<1>4. /\ Linked(o) /\ desc[Data(h)].addr = o /\ desc[Status(h)].addr = h
      /\ h \in Desc /\ ops[h].blk \in Block
  <2>1. Linked(o)
    BY <1>3 DEF IInv, ChainsOK
  <2>2. h \in Desc
    BY <1>3, <2>1 DEF Linked
  <2>3. ops[h].blk \in Block
    BY <2>2 DEF IInv, TypeOK
  <2>4. QED BY <1>3, <2>1, <2>2, <2>3 DEF Linked
<1>5. /\ IF ops[h].write
         THEN disk' = [disk EXCEPT ![ops[h].blk] = buf[o]] /\ UNCHANGED buf
         ELSE buf' = [buf EXCEPT ![o] = disk[ops[h].blk]] /\ UNCHANGED disk
      /\ info' = [info EXCEPT ![h].status = "ok"]
      /\ used' = [used EXCEPT ![dev_used_idx % NUM] = h]
      /\ dev_used_idx' = After(dev_used_idx, IDX)
      /\ taken' = taken \ {h} /\ irq' = TRUE
      /\ UNCHANGED <<free, desc, ops, avail, avail_idx, last_avail, used_idx, lock, bdisk, thr>>
  BY <1>1, <1>4 DEF Data, Status, After, driver
<1>6. buf' \in [Proc -> Value] /\ disk' \in [Block -> Value]
  <2>1. buf \in [Proc -> Value] /\ disk \in [Block -> Value]
    BY DEF IInv, TypeOK
  <2>2. buf[o] \in Value /\ disk[ops[h].blk] \in Value
    BY <1>3, <1>4, <2>1
  <2>3. CASE ops[h].write
    <3>1. disk' = [disk EXCEPT ![ops[h].blk] = buf[o]] /\ buf' = buf
      BY <1>5, <2>3
    <3>2. QED BY <2>1, <2>2, <3>1
  <2>4. CASE ~ ops[h].write
    <3>1. buf' = [buf EXCEPT ![o] = disk[ops[h].blk]] /\ disk' = disk
      BY <1>5, <2>4
    <3>2. QED BY <2>1, <2>2, <3>1
  <2>5. QED BY <2>3, <2>4
<1>7. /\ info' \in [Desc -> [b : Proc \cup {NoOne}, status : {"none", "busy", "ok"}]]
      /\ info'[h].b = info[h].b /\ info'[h].status = "ok"
      /\ \A d \in Desc : d # h => info'[d] = info[d]
  <2>1. info \in [Desc -> [b : Proc \cup {NoOne}, status : {"none", "busy", "ok"}]]
    BY DEF IInv, TypeOK
  <2>2. [info[h] EXCEPT !.status = "ok"] = [b |-> info[h].b, status |-> "ok"]
    BY <1>4, <2>1
  <2>3. info' = [info EXCEPT ![h] = [b |-> info[h].b, status |-> "ok"]]
    BY <1>5, <2>2
  <2>4. info[h].b \in Proc \cup {NoOne}
    BY <1>4, <2>1
  <2>5. QED BY <1>4, <2>1, <2>3, <2>4
<1> DEFINE U == Used(used_idx, dev_used_idx)
<1>8. U \in Nat /\ used_idx \in 0 .. IDX - 1 /\ dev_used_idx \in 0 .. IDX - 1
  BY RingTypes
<1>9. dev_used_idx % NUM = Place(used_idx, U, NUM)
  BY <1>8, Newest
<1>10. U <= NUM - 3
  <2>1. PICK d, e : d = Data(h) /\ e = Status(h)
    OBVIOUS
  <2>2. d \in Desc /\ e \in Desc /\ h # d /\ h # e /\ d # e
    BY <1>3, <1>4, <2>1 DEF Linked
  <2>3. ASSUME NEW m \in 0 .. U - 1
        PROVE  Ent(used, used_idx, m) \in Desc \ {h, d, e}
    <3>1. PICK x : x = Ent(used, used_idx, m)
      OBVIOUS
    <3>2. x \in Desc /\ Live(x, "ok")
      BY <3>1, UsedOf
    <3>3. PICK q : q = info[x].b
      OBVIOUS
    <3>4. q \in Busy /\ thr[q].head = x /\ info[x].status = "ok"
      BY <3>2, <3>3, Owner
    <3>5. q # o
      BY <1>3, <3>4
    <3>6. x # h /\ x # d /\ x # e
      BY <1>3, <2>1, <3>4, <3>5, HeadsDiffer
    <3>7. QED BY <3>1, <3>2, <3>6
  <2>4. \A m, n \in 0 .. U - 1 : m # n => Ent(used, used_idx, m) # Ent(used, used_idx, n)
    BY UsedOf
  <2> HIDE DEF U
  <2>5. QED BY <1>4, <1>8, <2>2, <2>3, <2>4, RingRoom
<1> HIDE DEF U
<1>11. U < NUM /\ U + 1 < NUM /\ U + 1 < IDX
  BY <1>8, <1>10, Sizing
<1>12. /\ Place(used_idx, U, NUM) \in Desc
       /\ \A m \in 0 .. U - 1 : Ent(used', used_idx, m) = Ent(used, used_idx, m)
       /\ Ent(used', used_idx, U) = h
  <2>1. SameBut(used, used', Place(used_idx, U, NUM))
    BY <1>5, <1>9, RingTypes DEF SameBut
  <2>2. /\ Place(used_idx, U, NUM) \in Desc
        /\ \A m \in 0 .. U - 1 : Ent(used', used_idx, m) = Ent(used, used_idx, m)
    BY <1>8, <1>11, <2>1, RingPut DEF U
  <2>3. Ent(used', used_idx, U) = h
    BY <1>5, <1>9, <2>2, RingTypes DEF Ent
  <2>4. QED BY <2>2, <2>3
<1>13. dev_used_idx' \in 0 .. IDX - 1 /\ Used(used_idx', dev_used_idx') = U + 1
  <2>1. InUse(used_idx, dev_used_idx, IDX) + 1 < IDX
    BY <1>11 DEF Used, U
  <2>2. After(dev_used_idx, IDX) \in 0 .. IDX - 1
    BY <1>8, Sizing, Incremented
  <2>3. InUse(used_idx, After(dev_used_idx, IDX), IDX) = InUse(used_idx, dev_used_idx, IDX) + 1
    BY <1>8, <2>1, Sizing, OneMore
  <2>4. QED BY <1>5, <2>2, <2>3 DEF Used, U
<1>14. \A k, s : k # h /\ Live(k, s) => Live(k, s)'
  <2> SUFFICES ASSUME NEW k, NEW s, k # h, Live(k, s) PROVE Live(k, s)'
    OBVIOUS
  <2>1. k \in Desc
    BY HeadTaken
  <2>2. info'[k] = info[k]
    BY <1>7, <2>1
  <2>3. QED BY <1>5, <2>2 DEF Live
<1>15. Live(h, "ok")'
  BY <1>2, <1>3, <1>5, <1>7 DEF Live
<1>16. TypeOK'
  <2>1. used' \in [Desc -> Desc \cup {NoDesc}]
    BY <1>4, <1>5, RingTypes
  <2>2. QED BY <1>5, <1>6, <1>7, <1>13, <2>1 DEF IInv, TypeOK
<1>17. AvailOK'
  <2> DEFINE A == Used(last_avail, avail_idx)
  <2>1. ASSUME NEW m \in 0 .. A - 1, NEW e, e = Ent(avail', last_avail', m)
        PROVE  e \in Desc /\ Live(e, "busy")' /\ e \notin taken'
    <3>1. e = Ent(avail, last_avail, m)
      BY <1>5, <2>1
    <3>2. e \in Desc /\ Live(e, "busy") /\ e \notin taken
      BY <3>1, AvailIs
    <3>3. QED BY <1>5, <1>14, <3>2
  <2>2. \A m, n \in 0 .. A - 1 : m # n => Ent(avail', last_avail', m) # Ent(avail', last_avail', n)
    BY <1>5, AvailIs
  <2>3. A < NUM /\ Used(last_avail', avail_idx') = A
    BY <1>5, AvailIs
  <2> HIDE DEF A
  <2>4. QED BY <2>1, <2>2, <2>3 DEF AvailOK, RingOK
<1>18. TakenOK'
  <2>1. \A k \in taken : Live(k, "busy")
    BY DEF IInv, TakenOK
  <2>2. QED BY <1>5, <1>14, <2>1 DEF TakenOK
<1>19. UsedOK'
  <2>1. \A m \in 0 .. U - 1 : /\ Ent(used, used_idx, m) \in Desc
                              /\ Live(Ent(used, used_idx, m), "ok")
    BY UsedOf DEF U
  <2>2. \A k : Live(k, "ok") => k # h
    BY <1>3 DEF Live
  <2>3. ASSUME NEW m \in 0 .. U, NEW e, e = Ent(used', used_idx', m)
        PROVE  e \in Desc /\ Live(e, "ok")'
    <3>1. CASE m = U
      <4>1. e = h
        BY <1>5, <1>12, <2>3, <3>1
      <4>2. QED BY <1>4, <1>15, <4>1
    <3>2. CASE m # U
      <4>1. m \in 0 .. U - 1
        BY <1>8, <3>2
      <4>2. e = Ent(used, used_idx, m)
        BY <1>5, <1>12, <2>3, <4>1
      <4>3. e \in Desc /\ Live(e, "ok") /\ e # h
        BY <2>1, <2>2, <4>1, <4>2
      <4>4. QED BY <1>14, <4>3
    <3>3. QED BY <3>1, <3>2
  <2>4. \A l \in 0 .. U - 1 : Ent(used', used_idx', l) # Ent(used', used_idx', U)
    <3> TAKE l \in 0 .. U - 1
    <3>1. Ent(used, used_idx, l) # h
      BY <2>1, <2>2
    <3>2. QED BY <1>5, <1>12, <3>1
  <2>5. ASSUME NEW m \in 0 .. U, NEW n \in 0 .. U, m # n
        PROVE  Ent(used', used_idx', m) # Ent(used', used_idx', n)
    <3>1. CASE m = U
      <4>1. n \in 0 .. U - 1
        BY <1>8, <2>5, <3>1
      <4>2. QED BY <2>4, <3>1, <4>1
    <3>2. CASE n = U
      <4>1. m \in 0 .. U - 1
        BY <1>8, <2>5, <3>2
      <4>2. QED BY <2>4, <3>2, <4>1
    <3>3. CASE m # U /\ n # U
      <4>1. m \in 0 .. U - 1 /\ n \in 0 .. U - 1
        BY <1>8, <3>3
      <4>2. Ent(used, used_idx, m) # Ent(used, used_idx, n)
        BY <2>5, <4>1, UsedOf DEF U
      <4>3. QED BY <1>5, <1>12, <4>1, <4>2
    <3>4. QED BY <3>1, <3>2, <3>3
  <2>6. (U + 1) - 1 = U
    BY <1>8
  <2>7. QED BY <1>11, <1>13, <2>3, <2>5, <2>6 DEF UsedOK, RingOK
<1>20. \A d \in Desc : /\ info'[d].b = info[d].b
                       /\ d # h => info'[d].status = info[d].status
                       /\ info'[d].status = info[d].status \/ info'[d].status = "ok"
  BY <1>7
<1>21. Busy' = Busy
  BY <1>5 DEF Busy
<1>22. PublishOK'
  <2> SUFFICES ASSUME NEW p \in Proc, At(p, "publish")'
               PROVE  /\ Used(last_avail', avail_idx') + 1 < NUM
                      /\ Ent(avail', last_avail', Used(last_avail', avail_idx')) = thr'[p].head
                      /\ bdisk'[p] /\ info'[thr'[p].head].status = "busy"
    BY DEF PublishOK
  <2>1. At(p, "publish")
    BY <1>5 DEF At
  <2>2. /\ Used(last_avail, avail_idx) + 1 < NUM
        /\ Ent(avail, last_avail, Used(last_avail, avail_idx)) = thr[p].head
        /\ bdisk[p] /\ info[thr[p].head].status = "busy"
    BY <2>1 DEF IInv, PublishOK
  <2>3. p \in Busy /\ p # o
    BY <1>3, <2>1 DEF At, Busy, InFlight
  <2>4. thr[p].head \in Desc /\ thr[p].head # h
    BY <1>3, <2>3, HeadsDiffer, HeadTaken
  <2>5. info'[thr'[p].head].status = "busy"
    BY <1>5, <1>20, <2>2, <2>4
  <2>6. QED BY <1>5, <2>2, <2>5
<1>23. OwnOK'
  <2> SUFFICES ASSUME NEW q \in Busy'
               PROVE  /\ info'[thr'[q].head].b = q
                      /\ bdisk'[q] \/ info'[thr'[q].head].status = "ok"
    BY DEF OwnOK
  <2>1. q \in Busy /\ thr[q].head \in Desc
    BY <1>21, HeadTaken
  <2>2. /\ info[thr[q].head].b = q
        /\ bdisk[q] \/ info[thr[q].head].status = "ok"
    BY <2>1 DEF IInv, OwnOK
  <2>3. QED BY <1>5, <1>20, <2>1, <2>2
<1>24. ChainsOK'
  <2>1. ChainsOK
    BY DEF IInv
  <2>2. QED BY <1>5, <1>21, <2>1, ChainsKept
<1>25. WaitersHaveWaker' /\ LockOK' /\ HeadOK'
  BY <1>5 DEF IInv, WaitersHaveWaker, LockOK, HeadOK, At
<1>26. QED BY <1>16, <1>17, <1>18, <1>19, <1>22, <1>23, <1>24, <1>25 DEF IInv

-----------------------------------------------------------------------------
LEMMA InitInv ==
  ASSUME Init
  PROVE  IInv
<1>1. TypeOK
  <2>1. Idle \in ThrType /\ (CHOOSE k \in Block : TRUE) \in Block
    BY DiskAssumption DEF Idle, ThrType
  <2>2. 0 \in 0 .. IDX - 1
    BY Sizing
  <2>3. [write |-> FALSE, blk |-> CHOOSE k \in Block : TRUE] \in [write : BOOLEAN, blk : Block]
    BY <2>1
  <2>4. ops \in [Desc -> [write : BOOLEAN, blk : Block]]
    BY <2>3 DEF Init
  <2>5. thr \in [Proc -> ThrType]
    BY <2>1 DEF Init
  <2>6. QED BY <2>2, <2>4, <2>5 DEF Init, TypeOK, Unset
<1>2. \A p \in Proc : thr[p].pc = "idle"
  BY DEF Init, Idle
<1>3. Busy = {}
  BY <1>2 DEF Busy, InFlight
<1>4. Used(last_avail, avail_idx) = 0 /\ Used(used_idx, dev_used_idx) = 0
  <2>1. /\ last_avail \in 0 .. IDX - 1 /\ avail_idx \in 0 .. IDX - 1
        /\ used_idx \in 0 .. IDX - 1 /\ dev_used_idx \in 0 .. IDX - 1
    BY <1>1 DEF TypeOK
  <2>2. avail_idx = last_avail /\ dev_used_idx = used_idx
    BY DEF Init
  <2>3. Used(last_avail, avail_idx) = 0
    BY <2>1, <2>2, UsedIs
  <2>4. Used(used_idx, dev_used_idx) = 0
    BY <2>1, <2>2, UsedIs
  <2>5. QED BY <2>3, <2>4
<1>5. ChainsOK
  <2>1. Cardinality(Desc) = NUM
    BY FS_Interval, Sizing DEF Desc
  <2>2. IsFiniteSet(Busy) /\ Cardinality(Busy) = 0
    BY <1>3, FS_EmptySet
  <2>3. Cardinality(free) + 3 * Cardinality(Busy) = NUM
    BY <2>1, <2>2, Sizing DEF Init
  <2>4. QED BY <1>3, <2>2, <2>3 DEF ChainsOK
<1>6. 0 < NUM /\ \A m \in Int : m \notin 0 .. 0 - 1
  BY Sizing
<1>7. AvailOK /\ UsedOK /\ TakenOK
  <2>1. AvailOK
    BY <1>4, <1>6 DEF AvailOK, RingOK
  <2>2. UsedOK
    BY <1>4, <1>6 DEF UsedOK, RingOK
  <2>3. TakenOK
    BY DEF Init, TakenOK
  <2>4. QED BY <2>1, <2>2, <2>3
<1>8. WaitersHaveWaker /\ LockOK /\ HeadOK /\ OwnOK /\ PublishOK
  <2>1. lock \notin Proc
    BY Sizing DEF Init
  <2>2. LockOK
    BY <1>2, <2>1 DEF LockOK, At
  <2>3. QED BY <1>2, <1>3, <2>2 DEF WaitersHaveWaker, HeadOK, OwnOK, PublishOK, At
<1>9. QED BY <1>1, <1>5, <1>7, <1>8 DEF IInv

LEMMA NextInv ==
  ASSUME IInv, [Next]_vars
  PROVE  IInv'
<1>1. ASSUME NEW p \in Proc, Rw(p) PROVE IInv'
  BY <1>1, RwQuiet, QuietKeeps
<1>2. ASSUME NEW p \in Proc, Submit(p) PROVE IInv'
  BY <1>2, SubmitStep
<1>3. ASSUME NEW p \in Proc, NoDescriptors(p) PROVE IInv'
  BY <1>3, NoDescriptorsQuiet, QuietKeeps
<1>4. ASSUME NEW p \in Proc, Publish(p) PROVE IInv'
  BY <1>4, PublishStep
<1>5. ASSUME NEW p \in Proc, Finish(p) PROVE IInv'
  <2>1. CASE bdisk[p]
    BY <1>5, <2>1, SleepAgainQuiet, QuietKeeps
  <2>2. CASE ~ bdisk[p]
    BY <1>5, <2>2, FinishStep
  <2>3. QED BY <2>1, <2>2
<1>6. ASSUME NEW p \in Proc, Kill(p) PROVE IInv'
  BY <1>6, KillQuiet, QuietKeeps
<1>7. CASE DevTake
  BY <1>7, DevTakeStep
<1>8. CASE DevComplete
  BY <1>8, DevCompleteStep
<1>9. CASE IntrStep
  BY <1>9, IntrStepStep
<1>10. CASE IntrStart \/ IntrEnd
  BY <1>10, IntrQuiet, QuietKeeps
<1>11. CASE UNCHANGED vars
  <2>1. UNCHANGED <<free, desc, ops, avail, avail_idx, used, dev_used_idx, last_avail, taken, disk,
                    info, used_idx, lock, bdisk, buf, thr, irq>>
    BY <1>11 DEF vars, driver, device
  <2>2. Quiet
    BY <2>1 DEF Quiet, IInv, TypeOK, WaitersHaveWaker, HeadOK, LockOK, At
  <2>3. QED BY <2>2, QuietKeeps
<1>12. QED
  BY <1>1, <1>2, <1>3, <1>4, <1>5, <1>6, <1>7, <1>8, <1>9, <1>10, <1>11 DEF Next, Intr

LEMMA Inductive == Spec => []IInv
<1>1. Init => IInv
  BY InitInv
<1>2. IInv /\ [Next]_vars => IInv'
  BY NextInv
<1>3. QED BY <1>1, <1>2, PTL DEF Spec

-----------------------------------------------------------------------------
\* alloc_desc(), free_desc(), free_chain() and the chains set up in virtio_disk_rw() keep every
\* descriptor free or in one request, and whoever sleeps for want of descriptors has a reason to.
THEOREM DescriptorsKept == Spec => []DescriptorsSound
<1>1. ASSUME IInv, NEW q \in Busy, NEW h, h = thr[q].head
      PROVE  /\ Chain(h) = ChainOf(q) /\ Cardinality(Chain(h)) = 3 /\ Chain(h) \cap free = {}
             /\ desc[desc[h].next].addr = q /\ desc[desc[desc[h].next].next].addr = h
             /\ ops[h] = [write |-> thr[q].write, blk |-> thr[q].blk]
  <2>1. PICK d, e : d = desc[h].next /\ e = desc[d].next
    OBVIOUS
  <2>2. Chain(h) = {h, d, e} /\ ChainOf(q) = {h, d, e}
    BY <1>1, <2>1 DEF Chain, ChainOf, Data, Status
  <2>3. /\ h \in Desc /\ h # d /\ h # e /\ d # e
        /\ h \notin free /\ d \notin free /\ e \notin free
        /\ desc[d].addr = q /\ desc[e].addr = h
        /\ ops[h].write = thr[q].write /\ ops[h].blk = thr[q].blk
    <3>1. Linked(q)
      BY <1>1 DEF IInv, ChainsOK
    <3>2. QED BY <1>1, <2>1, <3>1 DEF Linked, Data, Status
  <2>4. Cardinality(Chain(h)) = 3
    <3>1. Cardinality({h, d, e}) = 3
      <4>1. h # d /\ h # e /\ d # e
        BY <2>3
      <4>2. QED BY <4>1, Three
    <3>2. QED BY <2>2, <3>1
  <2>5. ops[h] \in [write : BOOLEAN, blk : Block]
    BY <1>1, <2>3 DEF IInv, TypeOK
  <2>6. ops[h] = [write |-> ops[h].write, blk |-> ops[h].blk]
    BY <2>5
  <2>7. QED BY <2>1, <2>2, <2>3, <2>4, <2>6
<1>2. IInv => ChainsDisjoint
  <2> SUFFICES ASSUME IInv PROVE ChainsDisjoint
    OBVIOUS
  <2>1. \A p, q \in Busy : p # q => Chain(thr[p].head) \cap Chain(thr[q].head) = {}
    <3> SUFFICES ASSUME NEW p \in Busy, NEW q \in Busy, p # q
                 PROVE  Chain(thr[p].head) \cap Chain(thr[q].head) = {}
      OBVIOUS
    <3>1. ChainOf(p) \cap ChainOf(q) = {}
      BY DEF IInv, ChainsOK
    <3>2. Chain(thr[p].head) = ChainOf(p) /\ Chain(thr[q].head) = ChainOf(q)
      BY <1>1
    <3>3. QED BY <3>1, <3>2
  <2>2. Cardinality(free) + 3 * Cardinality(Busy) = NUM
    BY DEF IInv, ChainsOK
  <2>3. QED BY <1>1, <2>1, <2>2 DEF ChainsDisjoint
<1>3. IInv => DescriptorsSound
  BY <1>2 DEF DescriptorsSound, IInv
<1>4. QED BY <1>3, Inductive, PTL

\* What virtio_disk_intr() finds in the used ring is a request that waits for it: it does not
\* panic and never looks for a buffer where there is none.
THEOREM CompletionsKept == Spec => []CompletionsMatch
<1>1. IInv => CompletionsMatch
  <2> SUFFICES ASSUME IInv, NEW i \in Pending, NEW h, h = used[(used_idx + i) % NUM]
               PROVE  /\ info[h].status = "ok" /\ info[h].b # NoOne
                      /\ thr[info[h].b].pc \in {"sleep", "woken"} /\ thr[info[h].b].head = h
                      /\ bdisk[info[h].b]
    BY DEF CompletionsMatch
  <2>1. i \in Nat /\ i < Used(used_idx, dev_used_idx)
    BY Sizing DEF Pending, Used, InUse
  <2>2. Used(used_idx, dev_used_idx) \in Nat
    BY RingTypes
  <2>3. i \in 0 .. Used(used_idx, dev_used_idx) - 1
    BY <2>1, <2>2
  <2>4. h = Ent(used, used_idx, i)
    BY DEF Ent, Place
  <2>5. Live(h, "ok")
    BY <2>3, <2>4, UsedOf
  <2>6. QED BY <2>5, Sizing DEF Live
<1>2. QED BY <1>1, Inductive, PTL

-----------------------------------------------------------------------------
\* The driver implements the service.  What the service sees of q's request:
Rec(q) == [stage |-> Stage(q), write |-> thr[q].write, blk |-> thr[q].blk, data |-> buf[q]]
Kept(q) == /\ Stage(q)' = Stage(q) /\ thr'[q].write = thr[q].write /\ thr'[q].blk = thr[q].blk
           /\ buf'[q] = buf[q]

LEMMA ReqIs ==
  /\ Req = [q \in Proc |-> Rec(q)]
  /\ IInv => \A q \in Proc : Rec(q) \in Service!Request
<1>1. Req = [q \in Proc |-> Rec(q)]
  BY DEF Req, Rec
<1>2. ASSUME IInv, NEW q \in Proc PROVE Rec(q) \in Service!Request
  <2>1. Stage(q) \in {"none", "asked", "done"}
    BY DEF Stage
  <2>2. thr[q].write \in BOOLEAN /\ thr[q].blk \in Block /\ buf[q] \in Value
    BY <1>2 DEF IInv, TypeOK, ThrType
  <2>3. QED BY <2>1, <2>2 DEF Rec, Service!Request
<1>3. QED BY <1>1, <1>2

\* Nothing to be seen.
LEMMA NothingSeen ==
  ASSUME \A q \in Proc : Kept(q), disk' = disk
  PROVE  UNCHANGED Service!vars
<1>1. Req' = Req
  BY DEF Req, Kept
<1>2. QED BY <1>1 DEF Service!vars

\* Of the requests, p's alone is seen to change.
LEMMA OneSeen ==
  ASSUME NEW p \in Proc, \A q \in Proc : q # p => Kept(q), NEW r, r = Rec(p)'
  PROVE  Req' = [Req EXCEPT ![p] = r]
<1>1. Req' = [q \in Proc |-> Rec(q)']
  BY DEF Req, Rec
<1>2. \A q \in Proc : q # p => Rec(q)' = Rec(q)
  BY DEF Rec, Kept
<1>3. Req = [q \in Proc |-> Rec(q)]
  BY DEF Req, Rec
<1>4. QED BY <1>1, <1>2, <1>3

\* How far a request is.
LEMMA StageIs ==
  ASSUME IInv, NEW q \in Proc
  PROVE  /\ thr[q].pc = "idle" => Stage(q) = "none"
         /\ thr[q].pc \in {"alloc", "no_desc"} => Stage(q) = "asked"
         /\ q \in Busy => Stage(q) = IF info[thr[q].head].status = "ok" THEN "done" ELSE "asked"
<1>1. CASE thr[q].pc = "idle"
  BY <1>1 DEF Stage, At, Busy, InFlight
<1>2. CASE thr[q].pc \in {"alloc", "no_desc"}
  <2>1. thr[q].head = NoDesc
    BY <1>2 DEF IInv, HeadOK
  <2>2. QED BY <1>2, <2>1 DEF Stage, Done, At, Busy, InFlight
<1>3. CASE q \in Busy
  <2>1. thr[q].head # NoDesc
    BY <1>3, HeadTaken, Sizing
  <2>2. thr[q].pc \in InFlight
    BY <1>3 DEF Busy
  <2>3. QED BY <1>3, <2>1, <2>2 DEF Stage, Done, At, InFlight
<1>4. thr[q].pc \in InFlight \cup {"idle", "alloc", "no_desc"}
  BY DEF IInv, TypeOK, ThrType
<1>5. QED BY <1>1, <1>2, <1>3, <1>4 DEF Busy

LEMMA StageNext ==
  ASSUME IInv', NEW q \in Proc
  PROVE  /\ thr'[q].pc = "idle" => Stage(q)' = "none"
         /\ thr'[q].pc \in {"alloc", "no_desc"} => Stage(q)' = "asked"
         /\ q \in Busy' => Stage(q)' = IF info'[thr'[q].head].status = "ok" THEN "done" ELSE "asked"
<1>1. CASE thr'[q].pc = "idle"
  BY <1>1 DEF Stage, At, Busy, InFlight
<1>2. CASE thr'[q].pc \in {"alloc", "no_desc"}
  <2>1. thr'[q].head = NoDesc
    BY <1>2 DEF IInv, HeadOK
  <2>2. QED BY <1>2, <2>1 DEF Stage, Done, At, Busy, InFlight
<1>3. CASE q \in Busy'
  <2>1. thr'[q].head \in Desc
    BY <1>3 DEF IInv, ChainsOK, Linked
  <2>2. thr'[q].pc \in InFlight /\ thr'[q].head # NoDesc
    BY <1>3, <2>1, Sizing DEF Busy
  <2>3. QED BY <1>3, <2>2 DEF Stage, Done, At, InFlight
<1>4. thr'[q].pc \in InFlight \cup {"idle", "alloc", "no_desc"}
  BY DEF IInv, TypeOK, ThrType
<1>5. QED BY <1>1, <1>2, <1>3, <1>4 DEF Busy

\* A request that stays in flight, or before it, or idle, and whose status stays.
LEMMA KeptIf ==
  ASSUME IInv, IInv', NEW q \in Proc,
         thr'[q].write = thr[q].write, thr'[q].blk = thr[q].blk, buf'[q] = buf[q],
         \/ thr'[q].pc = "idle" /\ thr[q].pc = "idle"
         \/ thr'[q].pc \in {"alloc", "no_desc"} /\ thr[q].pc \in {"alloc", "no_desc"}
         \/ /\ q \in Busy /\ q \in Busy'
            /\ info'[thr'[q].head].status = info[thr[q].head].status
  PROVE  Kept(q)
<1>1. Stage(q)' = Stage(q)
  BY StageIs, StageNext
<1>2. QED BY <1>1 DEF Kept

LEMMA RecIs ==
  ASSUME IInv, IInv', NEW q \in Proc
  PROVE  /\ Req[q] = Rec(q) /\ Rec(q) \in Service!Request
         /\ \A r : r = Rec(q)' => r \in Service!Request
<1>1. Req[q] = Rec(q) /\ Rec(q) \in Service!Request
  BY ReqIs
<1>2. Rec(q)' \in Service!Request
  <2>1. Stage(q)' \in {"none", "asked", "done"}
    BY DEF Stage
  <2>2. thr'[q].write \in BOOLEAN /\ thr'[q].blk \in Block /\ buf'[q] \in Value
    BY DEF IInv, TypeOK, ThrType
  <2>3. QED BY <2>1, <2>2 DEF Rec, Service!Request
<1>3. QED BY <1>1, <1>2

\* virtio_disk_rw() is called: the request is asked for.
LEMMA RwSeen ==
  ASSUME IInv, IInv', NEW p \in Proc, Rw(p)
  PROVE  Service!Ask(p)
<1>1. PICK w \in BOOLEAN, k \in Block, v \in Value :
        /\ thr' = [thr EXCEPT ![p] = [pc |-> "alloc", write |-> w, blk |-> k, head |-> NoDesc]]
        /\ buf' = [buf EXCEPT ![p] = v]
  BY DEF Rw
<1>2. thr[p].pc = "idle" /\ disk' = disk /\ info' = info
  BY DEF Rw, At, device
<1>3. /\ thr'[p].pc = "alloc"
      /\ \A q \in Proc : q # p => thr'[q] = thr[q] /\ buf'[q] = buf[q]
  BY <1>1 DEF IInv, TypeOK
<1>4. \A q \in Proc : q # p => Kept(q)
  BY <1>2, <1>3 DEF Kept, Stage, Done, At
<1>5. PICK r : r = Rec(p)'
  OBVIOUS
<1>6. r.stage = "asked"
  BY <1>3, <1>5, StageNext DEF Rec
<1>7. r \in Service!Request
  BY <1>5, RecIs
<1>8. Req' = [Req EXCEPT ![p] = r]
  BY <1>4, <1>5, OneSeen
<1>9. Req[p].stage = "none"
  <2>1. Req[p] = Rec(p)
    BY RecIs
  <2>2. Stage(p) = "none"
    BY <1>2, StageIs
  <2>3. QED BY <2>1, <2>2 DEF Rec
<1>10. QED BY <1>2, <1>6, <1>7, <1>8, <1>9 DEF Service!Ask

\* Its descriptors are set up.
LEMMA SubmitSeen ==
  ASSUME IInv, IInv', NEW p \in Proc, Submit(p)
  PROVE  UNCHANGED Service!vars
<1>1. PICK i \in free :
        /\ info' = [info EXCEPT ![i] = [b |-> p, status |-> "busy"]]
        /\ thr' = [thr EXCEPT ![p].pc = "publish", ![p].head = i]
  BY DEF Submit
<1>2. thr[p].pc = "alloc" /\ disk' = disk /\ buf' = buf
  BY DEF Submit, At, device
<1>3. /\ thr'[p].pc = "publish"
      /\ thr'[p].write = thr[p].write /\ thr'[p].blk = thr[p].blk
      /\ \A q \in Proc : q # p => thr'[q] = thr[q]
  BY <1>1 DEF IInv, TypeOK, ThrType
<1>4. Kept(p)
  <2>1. p \in Busy'
    BY <1>3 DEF Busy, InFlight
  <2>2. info'[thr'[p].head].status = "busy"
    BY <1>3 DEF IInv, PublishOK, At
  <2>3. Stage(p)' = "asked"
    BY <2>1, <2>2, StageNext
  <2>4. Stage(p) = "asked"
    BY <1>2, StageIs
  <2>5. QED BY <1>2, <1>3, <2>3, <2>4 DEF Kept
<1>5. ASSUME NEW q \in Proc, q # p PROVE Kept(q)
  <2>1. thr'[q] = thr[q] /\ buf'[q] = buf[q]
    BY <1>2, <1>3, <1>5
  <2>2. CASE q \in Busy
    <3>1. thr[q].head \in Desc /\ thr[q].head # i
      BY <2>2, HeadTaken
    <3>2. info'[thr[q].head] = info[thr[q].head]
      BY <1>1, <3>1 DEF IInv, TypeOK
    <3>3. q \in Busy'
      BY <2>1, <2>2 DEF Busy
    <3>4. QED BY <2>1, <2>2, <3>2, <3>3, KeptIf
  <2>3. CASE q \notin Busy
    <3>1. thr[q].pc \in {"idle", "alloc", "no_desc"}
      BY <2>3 DEF Busy, IInv, TypeOK, ThrType
    <3>2. QED BY <2>1, <3>1, KeptIf
  <2>4. QED BY <2>2, <2>3
<1>6. QED BY <1>2, <1>4, <1>5, NothingSeen

\* Steps that leave the headers, the buffers, the disk and everybody's request.
LEMMA QuietSeen ==
  ASSUME IInv, IInv', info' = info, buf' = buf, disk' = disk,
         \A q \in Proc :
           /\ thr'[q].head = thr[q].head /\ thr'[q].write = thr[q].write /\ thr'[q].blk = thr[q].blk
           /\ thr'[q].pc = "idle" <=> thr[q].pc = "idle"
  PROVE  UNCHANGED Service!vars
<1>1. \A q \in Proc : Kept(q)
  BY DEF Kept, Stage, Done, At
<1>2. QED BY <1>1, NothingSeen

\* virtio_disk_rw() returns.
LEMMA FinishSeen ==
  ASSUME IInv, IInv', NEW p \in Proc, Finish(p), ~ bdisk[p]
  PROVE  Service!Answer(p)
<1>1. PICK h, S : h = thr[p].head /\ S = Chain(h)
  OBVIOUS
<1>2. /\ thr[p].pc = "woken" /\ disk' = disk /\ buf' = buf
      /\ info' = [info EXCEPT ![h].b = NoOne]
      /\ thr' = Retry([thr EXCEPT ![p] = Idle])
  BY <1>1 DEF Finish, At, device
<1>3. p \in Busy /\ h \in Desc
  BY <1>1, <1>2, HeadTaken DEF Busy, InFlight
<1>4. /\ thr'[p].pc = "idle"
      /\ \A q \in Proc : q # p => /\ thr'[q].head = thr[q].head /\ thr'[q].write = thr[q].write
                                  /\ thr'[q].blk = thr[q].blk
                                  /\ thr'[q].pc = "idle" <=> thr[q].pc = "idle"
  <2> DEFINE t == [thr EXCEPT ![p] = Idle]
  <2>1. Idle \in ThrType /\ Idle.pc = "idle"
    BY DiskAssumption DEF Idle, ThrType
  <2>2. /\ t \in [Proc -> ThrType] /\ t[p] = Idle /\ \A q \in Proc : q # p => t[q] = thr[q]
    BY <2>1 DEF IInv, TypeOK
  <2>3. thr' = Retry(t)
    BY <1>2
  <2> HIDE DEF t
  <2>4. \A q \in Proc : /\ Retry(t)[q].head = t[q].head
                        /\ Retry(t)[q].write = t[q].write
                        /\ Retry(t)[q].blk = t[q].blk
                        /\ t[q].pc = "no_desc" => Retry(t)[q].pc = "alloc"
                        /\ t[q].pc # "no_desc" => Retry(t)[q] = t[q]
    BY <2>2, RetryIs
  <2>5. thr'[p].pc = "idle"
    BY <2>1, <2>2, <2>3, <2>4
  <2>6. ASSUME NEW q \in Proc, q # p
        PROVE  /\ thr'[q].head = thr[q].head /\ thr'[q].write = thr[q].write
               /\ thr'[q].blk = thr[q].blk
               /\ thr'[q].pc = "idle" <=> thr[q].pc = "idle"
    BY <2>2, <2>3, <2>4, <2>6
  <2>7. QED BY <2>5, <2>6
<1>5. \A d : info'[d].status = info[d].status
  <2>1. info \in [Desc -> [b : Proc \cup {NoOne}, status : {"none", "busy", "ok"}]]
    BY DEF IInv, TypeOK
  <2>2. [info[h] EXCEPT !.b = NoOne] = [b |-> NoOne, status |-> info[h].status]
    BY <1>3, <2>1
  <2>3. info' = [info EXCEPT ![h] = [b |-> NoOne, status |-> info[h].status]]
    BY <1>2, <2>2
  <2>4. QED BY <2>1, <2>3
<1>6. \A q \in Proc : q # p => Kept(q)
  <2> SUFFICES ASSUME NEW q \in Proc, q # p PROVE Kept(q)
    OBVIOUS
  <2>1. /\ thr'[q].head = thr[q].head /\ thr'[q].write = thr[q].write
        /\ thr'[q].blk = thr[q].blk /\ buf'[q] = buf[q]
        /\ thr'[q].pc = "idle" <=> thr[q].pc = "idle"
    BY <1>2, <1>4
  <2>2. Done(q)' <=> Done(q)
    BY <1>5, <2>1 DEF Done
  <2>3. Stage(q)' = Stage(q)
    BY <2>1, <2>2 DEF Stage, At
  <2>4. QED BY <2>1, <2>3 DEF Kept
<1>7. PICK r : r = Rec(p)'
  OBVIOUS
<1>8. r.stage = "none" /\ r.data = buf[p]
  BY <1>2, <1>4, <1>7, StageNext DEF Rec
<1>9. r \in Service!Request /\ Req' = [Req EXCEPT ![p] = r]
  BY <1>6, <1>7, RecIs, OneSeen
<1>10. Req[p].stage = "done" /\ Req[p].data = buf[p]
  <2>1. info[thr[p].head].status = "ok"
    BY <1>3 DEF IInv, OwnOK
  <2>2. Stage(p) = "done"
    BY <1>3, <2>1, StageIs
  <2>3. Req[p] = Rec(p)
    BY RecIs
  <2>4. QED BY <2>2, <2>3 DEF Rec
<1>11. QED BY <1>2, <1>8, <1>9, <1>10 DEF Service!Answer

\* The device carries the request out.
LEMMA DevCompleteSeen ==
  ASSUME IInv, IInv', DevComplete
  PROVE  \E o \in Proc : Service!Serve(o)
<1>1. PICK h \in taken :
        LET data   == desc[h].next
            b      == desc[data].addr
            status == desc[desc[data].next].addr
        IN  /\ IF ops[h].write
               THEN disk' = [disk EXCEPT ![ops[h].blk] = buf[b]] /\ UNCHANGED buf
               ELSE buf' = [buf EXCEPT ![b] = disk[ops[h].blk]] /\ UNCHANGED disk
            /\ info' = [info EXCEPT ![status].status = "ok"]
            /\ UNCHANGED <<driver, last_avail, used_idx, lock, bdisk, thr>>
  BY DEF DevComplete
<1>2. PICK o, w, k : o = info[h].b /\ w = ops[h].write /\ k = ops[h].blk
  OBVIOUS
<1>3. o \in Proc /\ o \in Busy /\ thr[o].head = h /\ info[h].status = "busy"
  <2>1. Live(h, "busy")
    BY DEF IInv, TakenOK
  <2>2. QED BY <1>2, <2>1, Owner DEF Busy
<1>4. /\ desc[Data(h)].addr = o /\ desc[Status(h)].addr = h
      /\ h \in Desc /\ thr[o].write = w /\ thr[o].blk = k /\ k \in Block
  <2>1. Linked(o)
    BY <1>3 DEF IInv, ChainsOK
  <2>2. thr[o].blk \in Block
    BY <1>3 DEF IInv, TypeOK, ThrType
  <2>3. QED BY <1>2, <1>3, <2>1, <2>2 DEF Linked
<1>5. /\ w => disk' = [disk EXCEPT ![k] = buf[o]] /\ buf' = buf
      /\ ~ w => buf' = [buf EXCEPT ![o] = disk[k]] /\ disk' = disk
      /\ info' = [info EXCEPT ![h].status = "ok"]
      /\ thr' = thr
  BY <1>1, <1>2, <1>4 DEF Data, Status
<1>6. /\ info'[h].status = "ok"
      /\ \A d \in Desc : d # h => info'[d] = info[d]
  <2>1. info \in [Desc -> [b : Proc \cup {NoOne}, status : {"none", "busy", "ok"}]]
    BY DEF IInv, TypeOK
  <2>2. [info[h] EXCEPT !.status = "ok"] = [b |-> info[h].b, status |-> "ok"]
    BY <1>4, <2>1
  <2>3. info' = [info EXCEPT ![h] = [b |-> info[h].b, status |-> "ok"]]
    BY <1>5, <2>2
  <2>4. QED BY <1>4, <2>1, <2>3
<1>7. buf \in [Proc -> Value]
  BY DEF IInv, TypeOK
<1>8. Busy' = Busy
  BY <1>5 DEF Busy
<1>9. ASSUME NEW q \in Proc, q # o PROVE Kept(q)
  <2>1. buf'[q] = buf[q]
    BY <1>3, <1>5, <1>7, <1>9
  <2>2. CASE q \in Busy
    <3>1. thr[q].head \in Desc /\ thr[q].head # h
      BY <1>3, <1>9, <2>2, HeadTaken, HeadsDiffer
    <3>2. info'[thr'[q].head].status = info[thr[q].head].status
      BY <1>5, <1>6, <3>1
    <3>3. QED BY <1>5, <1>8, <2>1, <2>2, <3>2, KeptIf
  <2>3. CASE q \notin Busy
    <3>1. thr[q].pc \in {"idle", "alloc", "no_desc"}
      BY <2>3 DEF Busy, IInv, TypeOK, ThrType
    <3>2. QED BY <1>5, <2>1, <3>1, KeptIf
  <2>4. QED BY <2>2, <2>3
<1>10. PICK r, v : r = Rec(o)' /\ v = buf[o]
  OBVIOUS
<1>11. Req[o] = [stage |-> "asked", write |-> w, blk |-> k, data |-> v]
  <2>1. Req[o] = Rec(o)
    BY <1>3, RecIs
  <2>2. Stage(o) = "asked"
    BY <1>3, StageIs
  <2>3. QED BY <1>4, <1>10, <2>1, <2>2 DEF Rec
<1>12. Stage(o)' = "done"
  <2>1. info'[thr'[o].head].status = "ok"
    BY <1>3, <1>5, <1>6
  <2>2. QED BY <1>3, <1>8, <2>1, StageNext
<1>13. /\ w => r = [stage |-> "done", write |-> w, blk |-> k, data |-> v]
       /\ ~ w => r = [stage |-> "done", write |-> w, blk |-> k, data |-> disk[k]]
  <2>1. r = [stage |-> "done", write |-> w, blk |-> k, data |-> buf'[o]]
    BY <1>4, <1>5, <1>10, <1>12 DEF Rec
  <2>2. w => buf'[o] = v
    BY <1>5, <1>10
  <2>3. ~ w => buf'[o] = disk[k]
    BY <1>3, <1>5, <1>7
  <2>4. QED BY <2>1, <2>2, <2>3
<1>14. Req' = [Req EXCEPT ![o] = r]
  BY <1>3, <1>9, <1>10, OneSeen
<1>15. /\ Req[o].stage = "asked" /\ Req[o].write = w /\ Req[o].blk = k /\ Req[o].data = v
  BY <1>11
<1>16. ASSUME w PROVE Service!Serve(o)
  <2>1. r = [stage |-> "done", write |-> w, blk |-> k, data |-> v]
    BY <1>13, <1>16
  <2>2. [Req[o] EXCEPT !.stage = "done"] = r
    BY <1>11, <2>1
  <2>3. Req' = [Req EXCEPT ![o].stage = "done"]
    BY <1>14, <2>2
  <2>4. disk' = [disk EXCEPT ![k] = buf[o]]
    BY <1>5, <1>16
  <2>5. disk' = [disk EXCEPT ![Req[o].blk] = Req[o].data]
    BY <1>10, <1>15, <2>4
  <2>6. Req[o].write
    BY <1>15, <1>16, Zenon
  <2>7. QED BY <1>15, <2>3, <2>5, <2>6 DEF Service!Serve
<1>17. ASSUME ~ w PROVE Service!Serve(o)
  <2>1. r = [stage |-> "done", write |-> w, blk |-> k, data |-> disk[k]]
    BY <1>13, <1>17
  <2>2. [[Req[o] EXCEPT !.stage = "done"] EXCEPT !.data = disk[k]] = r
    <3>1. [Req[o] EXCEPT !.stage = "done"] = [stage |-> "done", write |-> w, blk |-> k, data |-> v]
      BY <1>11
    <3>2. [[stage |-> "done", write |-> w, blk |-> k, data |-> v] EXCEPT !.data = disk[k]] = r
      BY <2>1
    <3>3. QED BY <3>1, <3>2
  <2>3. Req' = [Req EXCEPT ![o] = [[Req[o] EXCEPT !.stage = "done"] EXCEPT !.data = disk[k]]]
    BY <1>14, <2>2
  <2>4. Req' = [Req EXCEPT ![o].stage = "done", ![o].data = disk[Req[o].blk]]
    BY <1>3, <1>15, <2>3 DEF Req
  <2>5. disk' = disk
    BY <1>5, <1>17
  <2>6. ~ Req[o].write
    BY <1>15, <1>17, Zenon
  <2>7. QED BY <1>15, <2>4, <2>5, <2>6 DEF Service!Serve
<1>18. QED BY <1>3, <1>16, <1>17

LEMMA InitSeen ==
  ASSUME Init
  PROVE  Service!Init
<1>1. IInv
  BY InitInv
<1>2. \A q \in Proc : Stage(q) = "none"
  BY DEF Init, Idle, Stage, At
<1>3. \A q \in Proc : Rec(q) \in {r \in Service!Request : r.stage = "none"}
  BY <1>1, <1>2, ReqIs DEF Rec
<1>4. Req \in [Proc -> {r \in Service!Request : r.stage = "none"}]
  BY <1>3, ReqIs
<1>5. disk \in [Block -> Value]
  BY DEF Init
<1>6. QED BY <1>4, <1>5 DEF Service!Init

\* A process that goes from one place to another, neither of them idle.
LEMMA MovedSeen ==
  ASSUME IInv, IInv', NEW p \in Proc, NEW l \in {"sleep", "woken", "alloc"}, thr[p].pc # "idle",
         thr' = Moved(p, l), info' = info, buf' = buf, disk' = disk
  PROVE  UNCHANGED Service!vars
<1>1. l \in InFlight \cup {"idle", "alloc", "no_desc"} /\ l # "idle"
  BY DEF InFlight
<1>2. /\ thr'[p].pc = l
      /\ \A q \in Proc : /\ thr'[q].head = thr[q].head /\ thr'[q].write = thr[q].write
                         /\ thr'[q].blk = thr[q].blk
                         /\ q # p => thr'[q] = thr[q]
  BY <1>1, MovedIs DEF IInv
<1>3. QED BY <1>1, <1>2, QuietSeen

LEMMA NextSeen ==
  ASSUME IInv, IInv', [Next]_vars
  PROVE  Service!Next \/ UNCHANGED Service!vars
<1>1. ASSUME NEW p \in Proc, Rw(p) PROVE Service!Next
  BY <1>1, RwSeen DEF Service!Next
<1>2. ASSUME NEW p \in Proc, Submit(p) PROVE UNCHANGED Service!vars
  BY <1>2, SubmitSeen
<1>3. ASSUME NEW p \in Proc, NoDescriptors(p) PROVE UNCHANGED Service!vars
  <2>1. info' = info /\ buf' = buf /\ disk' = disk
    BY <1>3 DEF NoDescriptors, device
  <2>2. \A q \in Proc :
          /\ thr'[q].head = thr[q].head /\ thr'[q].write = thr[q].write /\ thr'[q].blk = thr[q].blk
          /\ thr'[q].pc = thr[q].pc \/ {thr[q].pc, thr'[q].pc} \subseteq {"alloc", "no_desc"}
    BY <1>3, NoDescriptorsIs
  <2>3. QED BY <2>1, <2>2, QuietSeen
<1>4. ASSUME NEW p \in Proc, Publish(p) PROVE UNCHANGED Service!vars
  <2>1. /\ thr' = Moved(p, "sleep") /\ thr[p].pc # "idle"
        /\ info' = info /\ buf' = buf /\ disk' = disk
    BY <1>4 DEF Publish, At, device
  <2>2. QED BY <2>1, MovedSeen
<1>5. ASSUME NEW p \in Proc, Finish(p) PROVE Service!Next \/ UNCHANGED Service!vars
  <2>1. CASE bdisk[p]
    <3>1. /\ thr' = Moved(p, "sleep") /\ thr[p].pc # "idle"
          /\ info' = info /\ buf' = buf /\ disk' = disk
      BY <1>5, <2>1 DEF Finish, At, device
    <3>2. QED BY <3>1, MovedSeen
  <2>2. CASE ~ bdisk[p]
    BY <1>5, <2>2, FinishSeen DEF Service!Next
  <2>3. QED BY <2>1, <2>2
<1>6. ASSUME NEW p \in Proc, Kill(p) PROVE UNCHANGED Service!vars
  <2>1. /\ thr' = Moved(p, "woken") \/ thr' = Moved(p, "alloc")
        /\ thr[p].pc # "idle"
        /\ info' = info /\ buf' = buf /\ disk' = disk
    BY <1>6 DEF Kill, At, device
  <2>2. QED BY <2>1, MovedSeen
<1>7. CASE DevTake
  <2>1. thr' = thr /\ info' = info /\ buf' = buf /\ disk' = disk
    BY <1>7 DEF DevTake
  <2>2. QED BY <2>1, QuietSeen
<1>8. CASE DevComplete
  BY <1>8, DevCompleteSeen DEF Service!Next
<1>9. CASE IntrStep
  <2> DEFINE b == info[used[used_idx % NUM]].b
  <2>1. /\ thr' = (IF At(b, "sleep") THEN Moved(b, "woken") ELSE thr)
        /\ info' = info /\ buf' = buf /\ disk' = disk
    BY <1>9 DEF IntrStep
  <2> HIDE DEF b
  <2>2. CASE At(b, "sleep") /\ b \in Proc
    <3>1. thr' = Moved(b, "woken") /\ thr[b].pc # "idle"
      BY <2>1, <2>2 DEF At
    <3>2. QED BY <2>1, <2>2, <3>1, MovedSeen
  <2>3. CASE b \notin Proc
    <3>1. Moved(b, "woken") = thr
      BY <2>3 DEF Moved, IInv, TypeOK
    <3>2. thr' = thr
      BY <2>1, <3>1
    <3>3. QED BY <2>1, <3>2, QuietSeen
  <2>4. CASE ~ At(b, "sleep")
    <3>1. thr' = thr
      BY <2>1, <2>4
    <3>2. QED BY <2>1, <3>1, QuietSeen
  <2>5. QED BY <2>2, <2>3, <2>4
<1>10. CASE IntrStart \/ IntrEnd
  <2>1. thr' = thr /\ info' = info /\ buf' = buf /\ disk' = disk
    BY <1>10 DEF IntrStart, IntrEnd, device
  <2>2. QED BY <2>1, QuietSeen
<1>11. CASE UNCHANGED vars
  <2>1. thr' = thr /\ info' = info /\ buf' = buf /\ disk' = disk
    BY <1>11 DEF vars, device
  <2>2. QED BY <2>1, QuietSeen
<1>12. QED
  BY <1>1, <1>2, <1>3, <1>4, <1>5, <1>6, <1>7, <1>8, <1>9, <1>10, <1>11 DEF Next, Intr

\* The rings, the interrupt, the sleep and the retries of virtio_disk_rw() cannot be seen: every
\* request is carried out once, between its call and its return, whatever the order in which the
\* device takes and completes them.
THEOREM DriverImplementsService == Spec => ServesRequests
<1>1. Init => Service!Init
  BY InitSeen
<1>2. IInv /\ IInv' /\ [Next]_vars => [Service!Next]_(Service!vars)
  BY NextSeen
<1>3. QED BY <1>1, <1>2, Inductive, PTL DEF Spec, ServesRequests, Service!Spec
=============================================================================
