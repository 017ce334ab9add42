--------------------------- MODULE AtomicSpscProofs --------------------------
(***************************************************************************)
(* Proofs about AtomicSpsc, for every capacity and every width of the      *)
(* cursors: no access ever finds a slot in the wrong state, the cached     *)
(* cursors only lag, and the ring is a bounded FIFO.                       *)
(***************************************************************************)
EXTENDS AtomicSpsc, Integers, TLAPS

-----------------------------------------------------------------------------
(* Remainders                                                              *)

(* The quotient and the remainder of a number are unique.                  *)
LEMMA Remainder ==
  ASSUME NEW b \in Nat \ {0}, NEW q \in Int, NEW r \in 0..(b - 1),
         NEW q2 \in Int, NEW r2 \in 0..(b - 1), q * b + r = q2 * b + r2
  PROVE  q = q2 /\ r = r2
<1>1. ASSUME NEW x \in Int, NEW y \in Int, x < y PROVE x * b + b <= y * b
  <2>1. y - x - 1 \in Nat /\ y = x + 1 + (y - x - 1)
    BY <1>1
  <2>2. \A d \in Nat : d * b >= 0
    OBVIOUS
  <2>3. y * b = x * b + b + (y - x - 1) * b
    OBVIOUS
  <2> QED BY <2>1, <2>2, <2>3
<1>2. q * b \in Int /\ q2 * b \in Int
  OBVIOUS
<1>3. ~(q < q2)
  BY <1>1, <1>2
<1>4. ~(q2 < q)
  BY <1>1, <1>2
<1>5. q = q2
  BY <1>3, <1>4
<1> QED BY <1>2, <1>5

LEMMA Division ==
  ASSUME NEW a \in Int, NEW b \in Nat \ {0}
  PROVE  /\ a % b \in 0..(b - 1) /\ a \div b \in Int
         /\ a = (a \div b) * b + (a % b)
OBVIOUS

(* A number is its remainder when it is q times the divisor more.          *)
LEMMA RemainderOf ==
  ASSUME NEW b \in Nat \ {0}, NEW q \in Int, NEW r \in 0..(b - 1)
  PROVE  (q * b + r) % b = r
<1> DEFINE a == q * b + r
<1>1. a \in Int
  OBVIOUS
<1>2. /\ a % b \in 0..(b - 1) /\ a \div b \in Int
      /\ a = (a \div b) * b + (a % b)
  BY <1>1, Division
<1>3. q * b + r = (a \div b) * b + (a % b)
  BY <1>2
<1> HIDE DEF a
<1>4. a % b = r
  BY <1>2, <1>3, Remainder, Zenon
<1> QED BY <1>4 DEF a

(* Wrapping once.                                                          *)
LEMMA Wrapped ==
  ASSUME NEW a \in Nat, NEW b \in Nat \ {0}, b <= a, a < 2 * b
  PROVE  a % b = a - b
OBVIOUS

-----------------------------------------------------------------------------
(* The circle of cursors                                                   *)

LEMMA Constants ==
  /\ Capacity \in Nat /\ Capacity >= 2
  /\ CursorModulus \in Nat /\ CursorModulus >= 2 * Capacity
  /\ \E k \in Nat : CursorModulus = k * Capacity
<1>1. PICK k \in 2..CursorModulus : CursorModulus = k * Capacity
  BY SpscAssumption
<1>2. Capacity \in Nat /\ Capacity >= 2 /\ k \in Nat /\ k >= 2 /\ CursorModulus \in Nat
  BY SpscAssumption
<1>3. k * Capacity >= 2 * Capacity
  <2>1. k - 2 \in Nat /\ (k - 2) * Capacity >= 0
    BY <1>2
  <2>2. k * Capacity = (k - 2) * Capacity + 2 * Capacity
    BY <1>2
  <2> QED BY <1>2, <2>1, <2>2
<1> QED BY <1>1, <1>2, <1>3

(* wrapping_add and wrapping_sub, by cases.                                *)
LEMMA PlusIs ==
  ASSUME NEW c \in Cursor, NEW n \in 0..CursorModulus
  PROVE  /\ Plus(c, n) \in Cursor
         /\ Plus(c, n) = IF c + n < CursorModulus THEN c + n ELSE c + n - CursorModulus
<1>1. CursorModulus \in Nat /\ CursorModulus > 0
  BY Constants
<1>2. c + n \in Nat /\ c + n < 2 * CursorModulus
  BY <1>1 DEF Cursor
<1>3. CASE c + n < CursorModulus
  <2>1. (c + n) % CursorModulus = c + n
    BY <1>1, <1>2, <1>3
  <2> QED BY <1>1, <1>2, <1>3, <2>1 DEF Plus, Cursor
<1>4. CASE c + n >= CursorModulus
  <2> DEFINE a == c + n
  <2>1. a % CursorModulus = a - CursorModulus
    <3>1. a \in Nat /\ CursorModulus \in Nat \ {0} /\ CursorModulus <= a /\ a < 2 * CursorModulus
      BY <1>1, <1>2, <1>4
    <3> HIDE DEF a
    <3> QED BY <3>1, Wrapped
  <2> QED BY <1>1, <1>2, <1>4, <2>1 DEF Plus, Cursor
<1> QED BY <1>1, <1>2, <1>3, <1>4

LEMMA MinusIs ==
  ASSUME NEW c \in Cursor, NEW d \in Cursor
  PROVE  /\ Minus(c, d) \in Cursor
         /\ Minus(c, d) = IF c >= d THEN c - d ELSE c + CursorModulus - d
<1>1. CursorModulus \in Nat /\ CursorModulus > 0 /\ c \in Nat /\ d \in Nat
      /\ c < CursorModulus /\ d < CursorModulus
  BY Constants DEF Cursor
<1> DEFINE a == c + CursorModulus - d
<1>2. a \in Nat /\ a < 2 * CursorModulus
  BY <1>1
<1>3. CASE c >= d
  <2>1. a >= CursorModulus /\ a - CursorModulus = c - d
    BY <1>1, <1>3
  <2> HIDE DEF a
  <2>2. a % CursorModulus = c - d
    BY <1>1, <1>2, <2>1
  <2> QED BY <1>1, <1>3, <2>2 DEF Minus, Cursor, a
<1>4. CASE c < d
  <2>1. a < CursorModulus
    BY <1>1, <1>4
  <2> HIDE DEF a
  <2>2. a % CursorModulus = a
    BY <1>1, <1>2, <2>1
  <2> QED BY <1>1, <1>2, <1>4, <2>1, <2>2 DEF Minus, Cursor, a
<1> QED BY <1>1, <1>3, <1>4

(* Adding what separates two cursors to the first gives the second, and    *)
(* adding two numbers is adding their sum.                                 *)
LEMMA PlusMinus ==
  ASSUME NEW c \in Cursor, NEW d \in Cursor
  PROVE  Plus(d, Minus(c, d)) = c
<1> DEFINE n == Minus(c, d)
<1>1. /\ n \in 0..CursorModulus /\ CursorModulus \in Nat
      /\ n = IF c >= d THEN c - d ELSE c + CursorModulus - d
  BY MinusIs, Constants DEF Cursor
<1> HIDE DEF n
<1>2. Plus(d, n) = IF d + n < CursorModulus THEN d + n ELSE d + n - CursorModulus
  BY <1>1, PlusIs
<1>3. Plus(d, n) = c
  BY <1>1, <1>2 DEF Cursor
<1> QED BY <1>3 DEF n

LEMMA MinusPlus ==
  ASSUME NEW d \in Cursor, NEW n \in Cursor
  PROVE  Minus(Plus(d, n), d) = n
<1> DEFINE c == Plus(d, n)
<1>1. /\ n \in 0..CursorModulus /\ CursorModulus \in Nat
  BY Constants DEF Cursor
<1>2. /\ c \in Cursor
      /\ c = IF d + n < CursorModulus THEN d + n ELSE d + n - CursorModulus
  BY <1>1, PlusIs
<1> HIDE DEF c
<1>3. Minus(c, d) = IF c >= d THEN c - d ELSE c + CursorModulus - d
  BY <1>2, MinusIs
<1>4. Minus(c, d) = n
  BY <1>1, <1>2, <1>3 DEF Cursor
<1> QED BY <1>4 DEF c

LEMMA PlusPlus ==
  ASSUME NEW c \in Cursor, NEW m \in Nat, NEW n \in Nat, m + n <= CursorModulus
  PROVE  Plus(Plus(c, m), n) = Plus(c, m + n)
<1>1. m \in 0..CursorModulus /\ n \in 0..CursorModulus /\ m + n \in 0..CursorModulus
      /\ CursorModulus \in Nat
  BY Constants
<1>2. /\ Plus(c, m) \in Cursor
      /\ Plus(c, m) = IF c + m < CursorModulus THEN c + m ELSE c + m - CursorModulus
  BY <1>1, PlusIs
<1>3. Plus(c, m + n) = IF c + (m + n) < CursorModulus THEN c + (m + n) ELSE c + (m + n) - CursorModulus
  BY <1>1, PlusIs
<1>4. Plus(Plus(c, m), n) = IF Plus(c, m) + n < CursorModulus THEN Plus(c, m) + n
                            ELSE Plus(c, m) + n - CursorModulus
  BY <1>1, <1>2, PlusIs
<1> QED BY <1>1, <1>2, <1>3, <1>4 DEF Cursor

(* The cursor n behind c has the slot of c + n: the modulus is a multiple  *)
(* of the capacity, so wrapping does not shift the slots.                  *)
LEMMA SlotOf ==
  ASSUME NEW c \in Cursor, NEW n \in 0..CursorModulus
  PROVE  At(Plus(c, n)) = (c + n) % Capacity /\ At(Plus(c, n)) \in Slot
<1>1. PICK k \in Nat : CursorModulus = k * Capacity
  BY Constants
<1>2. Capacity \in Nat \ {0} /\ c \in Nat /\ n \in Nat /\ CursorModulus \in Nat
  BY Constants DEF Cursor
<1>3. CASE c + n < CursorModulus
  <2>1. Plus(c, n) = c + n
    BY <1>3, PlusIs
  <2> QED BY <1>2, <2>1, Division DEF At, Slot
<1>4. CASE ~(c + n < CursorModulus)
  <2> DEFINE a == c + n - CursorModulus
             q == a \div Capacity
             r == a % Capacity
  <2>1. Plus(c, n) = a /\ a \in Int
    BY <1>2, <1>4, PlusIs
  <2>2. q \in Int /\ r \in 0..(Capacity - 1) /\ a = q * Capacity + r
    BY <1>2, <2>1, Division
  <2>3. c + n = a + k * Capacity
    BY <1>1, <1>2
  <2> HIDE DEF q, r, a
  <2>4. c + n = (q + k) * Capacity + r
    BY <1>1, <1>2, <2>1, <2>2, <2>3
  <2>5. q + k \in Int
    BY <2>2
  <2>6. ((q + k) * Capacity + r) % Capacity = r
    BY <1>2, <2>2, <2>5, RemainderOf
  <2>7. (c + n) % Capacity = r
    BY <2>4, <2>6
  <2> QED BY <2>1, <2>2, <2>7 DEF At, Slot, r
<1> QED BY <1>3, <1>4

(* Fewer than Capacity cursors in a row have different slots.              *)
LEMMA SlotsDiffer ==
  ASSUME NEW c \in Cursor, NEW m \in 0..Capacity, NEW n \in 0..Capacity,
         m < n, n - m < Capacity
  PROVE  At(Plus(c, m)) # At(Plus(c, n))
<1>1. Capacity \in Nat \ {0} /\ c \in Nat /\ m \in Nat /\ n \in Nat
      /\ m \in 0..CursorModulus /\ n \in 0..CursorModulus
  BY Constants DEF Cursor
<1> SUFFICES ASSUME (c + m) % Capacity = (c + n) % Capacity PROVE FALSE
  BY <1>1, SlotOf
<1> DEFINE p == (c + m) \div Capacity
           q == (c + n) \div Capacity
           r == (c + m) % Capacity
<1>2. p \in Int /\ q \in Int /\ r \in 0..(Capacity - 1)
      /\ c + m = p * Capacity + r /\ c + n = q * Capacity + r
  <2> DEFINE a == c + m
             b == c + n
  <2>1. a \in Int /\ b \in Int /\ a % Capacity = b % Capacity
    BY <1>1
  <2> HIDE DEF a, b
  <2>2. /\ a % Capacity \in 0..(Capacity - 1) /\ a \div Capacity \in Int
        /\ a = (a \div Capacity) * Capacity + (a % Capacity)
    BY <1>1, <2>1, Division
  <2>3. /\ b % Capacity \in 0..(Capacity - 1) /\ b \div Capacity \in Int
        /\ b = (b \div Capacity) * Capacity + (b % Capacity)
    BY <1>1, <2>1, Division
  <2>4. /\ a \div Capacity \in Int /\ b \div Capacity \in Int
        /\ a % Capacity \in 0..(Capacity - 1)
        /\ a = (a \div Capacity) * Capacity + (a % Capacity)
        /\ b = (b \div Capacity) * Capacity + (a % Capacity)
    BY <2>1, <2>2, <2>3
  <2> QED BY <2>4 DEF a, b
<1> HIDE DEF p, q, r
<1>3. n - m = q * Capacity - p * Capacity
  BY <1>1, <1>2
<1>4. n - m \in 0..(Capacity - 1) /\ 0 \in 0..(Capacity - 1)
  BY <1>1
<1> DEFINE d == n - m
<1>5. q * Capacity + 0 = p * Capacity + d
  BY <1>1, <1>2, <1>3
<1>6. d \in 0..(Capacity - 1) /\ d # 0
  BY <1>1, <1>4
<1> HIDE DEF d
<1>7. 0 = d
  BY <1>1, <1>2, <1>4, <1>5, <1>6, Remainder
<1> QED BY <1>6, <1>7

LEMMA SlotAt ==
  ASSUME NEW c \in Cursor
  PROVE  At(c) \in Slot /\ Plus(c, 0) = c
<1>1. c \in Int /\ Capacity \in Nat \ {0} /\ 0 \in 0..CursorModulus
  BY Constants DEF Cursor
<1>2. Plus(c, 0) = c
  BY <1>1, PlusIs, Constants DEF Cursor
<1> QED BY <1>1, <1>2, Division DEF At, Slot

-----------------------------------------------------------------------------
(* Four cursors in order                                                   *)

(* CachesLag, of any four cursors.                                         *)
Arc(a, h, t, b) ==
  /\ Minus(h, a) + Minus(t, h) + Minus(b, t) = Minus(b, a)
  /\ Minus(b, a) <= Capacity

(* Moving the later cursor forward, and the earlier one.                   *)
LEMMA MinusUp ==
  ASSUME NEW x \in Cursor, NEW y \in Cursor, NEW n \in Nat,
         Minus(x, y) + n < CursorModulus
  PROVE  Minus(Plus(x, n), y) = Minus(x, y) + n /\ Plus(x, n) \in Cursor
<1>1. CursorModulus \in Nat /\ CursorModulus > 0
  BY Constants
<1>2. /\ Minus(x, y) \in Nat
      /\ Minus(x, y) = IF x >= y THEN x - y ELSE x + CursorModulus - y
  BY MinusIs DEF Cursor
<1>3. n \in 0..CursorModulus
  BY <1>1, <1>2
<1> DEFINE c == Plus(x, n)
<1>4. c \in Cursor /\ c = IF x + n < CursorModulus THEN x + n ELSE x + n - CursorModulus
  BY <1>3, PlusIs
<1> HIDE DEF c
<1>5. Minus(c, y) = IF c >= y THEN c - y ELSE c + CursorModulus - y
  BY <1>4, MinusIs
<1>6. Minus(c, y) = Minus(x, y) + n
  BY <1>1, <1>2, <1>4, <1>5 DEF Cursor
<1> QED BY <1>4, <1>6 DEF c

LEMMA MinusDown ==
  ASSUME NEW x \in Cursor, NEW y \in Cursor, NEW n \in Nat, n <= Minus(y, x)
  PROVE  Minus(y, Plus(x, n)) = Minus(y, x) - n /\ Plus(x, n) \in Cursor
<1>1. CursorModulus \in Nat /\ CursorModulus > 0
  BY Constants
<1>2. /\ Minus(y, x) \in Cursor
      /\ Minus(y, x) = IF y >= x THEN y - x ELSE y + CursorModulus - x
  BY MinusIs
<1>3. n \in 0..CursorModulus
  BY <1>1, <1>2 DEF Cursor
<1> DEFINE c == Plus(x, n)
<1>4. c \in Cursor /\ c = IF x + n < CursorModulus THEN x + n ELSE x + n - CursorModulus
  BY <1>3, PlusIs
<1> HIDE DEF c
<1>5. Minus(y, c) = IF y >= c THEN y - c ELSE y + CursorModulus - c
  BY <1>4, MinusIs
<1>6. Minus(y, c) = Minus(y, x) - n
  BY <1>1, <1>2, <1>4, <1>5 DEF Cursor
<1> QED BY <1>4, <1>6 DEF c

LEMMA ArcSize ==
  ASSUME NEW a \in Cursor, NEW h \in Cursor, NEW t \in Cursor, NEW b \in Cursor,
         Arc(a, h, t, b)
  PROVE  /\ Minus(b, h) = Minus(t, h) + Minus(b, t)
         /\ Minus(b, h) <= Minus(b, a) /\ Minus(b, h) \in 0..Capacity
         /\ h # t => Minus(b, h) > 0 /\ Minus(t, h) > 0
         /\ Minus(h, a) \in Nat /\ Minus(t, h) \in Nat /\ Minus(b, t) \in Nat
         /\ Minus(b, a) \in Nat
<1>1. CursorModulus \in Nat /\ Capacity \in Nat /\ CursorModulus >= 2 * Capacity
      /\ Capacity >= 2
  BY Constants
<1>2. Minus(h, a) \in Nat /\ Minus(t, h) \in Nat /\ Minus(b, t) \in Nat
      /\ Minus(b, a) \in Nat
  BY MinusIs DEF Cursor
<1>3. Minus(t, h) + Minus(b, t) < CursorModulus
  BY <1>1, <1>2 DEF Arc
<1>4. Minus(b, h) = Minus(t, h) + Minus(b, t)
  <2>1. Plus(t, Minus(b, t)) = b
    BY PlusMinus
  <2> QED BY <1>2, <1>3, <2>1, MinusUp
<1>5. Minus(t, h) = 0 => h = t
  <2>1. Plus(h, Minus(t, h)) = t /\ Plus(h, 0) = h
    BY PlusMinus, SlotAt
  <2> QED BY <2>1
<1> QED BY <1>1, <1>2, <1>4, <1>5 DEF Arc

(* A load moves the copy of the other side's cursor up to at most what it  *)
(* copies.                                                                 *)
LEMMA ArcCachedHead ==
  ASSUME NEW a \in Cursor, NEW h \in Cursor, NEW t \in Cursor, NEW b \in Cursor,
         Arc(a, h, t, b), NEW n \in 0..Minus(h, a)
  PROVE  Arc(Plus(a, n), h, t, b) /\ Plus(a, n) \in Cursor
<1>1. Capacity \in Nat
  BY Constants
<1>2. /\ Minus(h, a) \in Nat /\ Minus(t, h) \in Nat /\ Minus(b, t) \in Nat
      /\ Minus(b, a) \in Nat /\ Minus(h, a) + Minus(t, h) + Minus(b, t) = Minus(b, a)
      /\ Minus(b, a) <= Capacity
  BY ArcSize DEF Arc
<1>3. n \in Nat /\ n <= Minus(h, a) /\ n <= Minus(b, a)
  BY <1>2
<1>4. Minus(h, Plus(a, n)) = Minus(h, a) - n /\ Minus(b, Plus(a, n)) = Minus(b, a) - n
      /\ Plus(a, n) \in Cursor
  BY <1>3, MinusDown
<1> QED BY <1>1, <1>2, <1>3, <1>4 DEF Arc

LEMMA ArcCachedTail ==
  ASSUME NEW a \in Cursor, NEW h \in Cursor, NEW t \in Cursor, NEW b \in Cursor,
         Arc(a, h, t, b), NEW n \in 0..Minus(b, t)
  PROVE  Arc(a, h, Plus(t, n), b) /\ Plus(t, n) \in Cursor
<1>1. Capacity \in Nat /\ CursorModulus \in Nat /\ CursorModulus >= 2 * Capacity
      /\ Capacity >= 2
  BY Constants
<1>2. /\ Minus(h, a) \in Nat /\ Minus(t, h) \in Nat /\ Minus(b, t) \in Nat
      /\ Minus(b, a) \in Nat /\ Minus(h, a) + Minus(t, h) + Minus(b, t) = Minus(b, a)
      /\ Minus(b, a) <= Capacity
  BY ArcSize DEF Arc
<1>3. n \in Nat /\ n <= Minus(b, t) /\ Minus(t, h) + n < CursorModulus
  BY <1>1, <1>2
<1>4. Minus(b, Plus(t, n)) = Minus(b, t) - n /\ Minus(Plus(t, n), h) = Minus(t, h) + n
      /\ Plus(t, n) \in Cursor
  BY <1>3, MinusDown, MinusUp
<1> QED BY <1>1, <1>2, <1>3, <1>4 DEF Arc

(* One item more, while the producer's copy says there is room.            *)
LEMMA ArcPush ==
  ASSUME NEW a \in Cursor, NEW h \in Cursor, NEW t \in Cursor, NEW b \in Cursor,
         Arc(a, h, t, b), Minus(b, a) < Capacity
  PROVE  /\ Arc(a, h, t, Plus(b, 1)) /\ Plus(b, 1) \in Cursor
         /\ Minus(Plus(b, 1), h) = Minus(b, h) + 1
<1>1. Capacity \in Nat /\ CursorModulus \in Nat /\ CursorModulus >= 2 * Capacity
      /\ Capacity >= 2
  BY Constants
<1>2. /\ Minus(h, a) \in Nat /\ Minus(t, h) \in Nat /\ Minus(b, t) \in Nat
      /\ Minus(b, a) \in Nat /\ Minus(h, a) + Minus(t, h) + Minus(b, t) = Minus(b, a)
      /\ Minus(b, h) \in Nat /\ Minus(b, h) <= Minus(b, a)
  BY ArcSize DEF Arc
<1>3. /\ Minus(b, a) + 1 < CursorModulus /\ Minus(b, h) + 1 < CursorModulus
      /\ Minus(b, t) + 1 < CursorModulus
  BY <1>1, <1>2
<1>4. /\ Minus(Plus(b, 1), a) = Minus(b, a) + 1 /\ Minus(Plus(b, 1), h) = Minus(b, h) + 1
      /\ Minus(Plus(b, 1), t) = Minus(b, t) + 1 /\ Plus(b, 1) \in Cursor
  BY <1>3, MinusUp
<1> QED BY <1>1, <1>2, <1>4 DEF Arc

(* One item fewer, while the consumer's copy says there is one.            *)
LEMMA ArcPop ==
  ASSUME NEW a \in Cursor, NEW h \in Cursor, NEW t \in Cursor, NEW b \in Cursor,
         Arc(a, h, t, b), h # t
  PROVE  /\ Arc(a, Plus(h, 1), t, b) /\ Plus(h, 1) \in Cursor
         /\ Minus(b, Plus(h, 1)) = Minus(b, h) - 1
<1>1. Capacity \in Nat /\ CursorModulus \in Nat /\ CursorModulus >= 2 * Capacity
      /\ Capacity >= 2
  BY Constants
<1>2. /\ Minus(h, a) \in Nat /\ Minus(t, h) \in Nat /\ Minus(b, t) \in Nat
      /\ Minus(b, a) \in Nat /\ Minus(h, a) + Minus(t, h) + Minus(b, t) = Minus(b, a)
      /\ Minus(b, a) <= Capacity /\ Minus(b, h) \in Nat
      /\ Minus(b, h) > 0 /\ Minus(t, h) > 0
  BY ArcSize DEF Arc
<1>3. Minus(h, a) + 1 < CursorModulus /\ 1 <= Minus(t, h) /\ 1 <= Minus(b, h)
  BY <1>1, <1>2
<1>4. /\ Minus(Plus(h, 1), a) = Minus(h, a) + 1 /\ Minus(t, Plus(h, 1)) = Minus(t, h) - 1
      /\ Minus(b, Plus(h, 1)) = Minus(b, h) - 1 /\ Plus(h, 1) \in Cursor
  BY <1>3, MinusUp, MinusDown
<1> QED BY <1>1, <1>2, <1>4 DEF Arc

(* What a load returns is an earlier value or the newest.                  *)
LEMMA LoadIs ==
  ASSUME NEW seen \in Cursor, NEW newest \in Cursor, NEW c \in Load(seen, newest)
  PROVE  /\ \E n \in 0..Minus(newest, seen) : c = Plus(seen, n)
         /\ exact => c = newest
<1>1. Minus(newest, seen) \in 0..Minus(newest, seen)
  BY MinusIs DEF Cursor
<1>2. newest = Plus(seen, Minus(newest, seen))
  BY PlusMinus
<1> QED BY <1>1, <1>2, Zenon DEF Load

-----------------------------------------------------------------------------
(* The slots of a row of cursors                                           *)

Window(c, n) == {At(Plus(c, j)) : j \in 0..(n - 1)}

LEMMA WindowGrows ==
  ASSUME NEW c \in Cursor, NEW n \in 0..(Capacity - 1)
  PROVE  /\ Window(c, n + 1) = Window(c, n) \cup {At(Plus(c, n))}
         /\ At(Plus(c, n)) \notin Window(c, n)
<1>1. Capacity \in Nat /\ n \in Nat /\ n + 1 - 1 = n
  BY Constants
<1>2. 0..n = 0..(n - 1) \cup {n}
  BY <1>1
<1>3. Window(c, n + 1) = Window(c, n) \cup {At(Plus(c, n))}
  <2>1. Window(c, n + 1) = {At(Plus(c, j)) : j \in 0..n}
    BY <1>1 DEF Window
  <2> QED BY <1>2, <2>1, Zenon DEF Window
<1>4. ASSUME NEW j \in 0..(n - 1) PROVE At(Plus(c, j)) # At(Plus(c, n))
  <2>1. j \in 0..Capacity /\ n \in 0..Capacity /\ j < n /\ n - j < Capacity
    BY <1>1
  <2> QED BY <2>1, SlotsDiffer
<1> QED BY <1>3, <1>4 DEF Window

LEMMA WindowShrinks ==
  ASSUME NEW c \in Cursor, NEW n \in 1..Capacity
  PROVE  /\ Window(Plus(c, 1), n - 1) = Window(c, n) \ {At(c)}
         /\ At(c) \in Window(c, n)
<1>1. Capacity \in Nat /\ n \in Nat /\ n - 1 \in Nat /\ CursorModulus \in Nat
      /\ CursorModulus >= 2 * Capacity
  BY Constants
<1>2. Plus(c, 0) = c
  BY SlotAt
<1>3. At(c) \in Window(c, n)
  <2>1. 0 \in 0..(n - 1)
    BY <1>1
  <2> QED BY <1>2, <2>1, Zenon DEF Window
<1>4. ASSUME NEW j \in 1..(n - 1) PROVE At(Plus(c, j)) # At(c)
  <2>1. 0 \in 0..Capacity /\ j \in 0..Capacity /\ 0 < j /\ j - 0 < Capacity
    BY <1>1
  <2> QED BY <1>2, <2>1, SlotsDiffer
<1>5. ASSUME NEW j \in 0..(n - 2) PROVE Plus(Plus(c, 1), j) = Plus(c, j + 1)
  <2>1. 1 \in Nat /\ j \in Nat /\ 1 + j <= CursorModulus /\ 1 + j = j + 1
    BY <1>1
  <2> QED BY <2>1, PlusPlus
<1>6. Window(Plus(c, 1), n - 1) = {At(Plus(c, j)) : j \in 1..(n - 1)}
  <2>1. Window(Plus(c, 1), n - 1) = {At(Plus(c, j + 1)) : j \in 0..(n - 2)}
    <3>1. n - 1 - 1 = n - 2
      BY <1>1
    <3> QED BY <1>5, <3>1 DEF Window
  <2>2. \A j \in 0..(n - 2) : j + 1 \in 1..(n - 1)
    BY <1>1
  <2>3. \A j \in 1..(n - 1) : j - 1 \in 0..(n - 2) /\ (j - 1) + 1 = j
    BY <1>1
  <2>4. \A s : s \in {At(Plus(c, j + 1)) : j \in 0..(n - 2)} => s \in {At(Plus(c, j)) : j \in 1..(n - 1)}
    BY <2>2
  <2>5. \A s : s \in {At(Plus(c, j)) : j \in 1..(n - 1)} => s \in {At(Plus(c, j + 1)) : j \in 0..(n - 2)}
    BY <2>3
  <2> QED BY <2>1, <2>4, <2>5
<1>7. \A j \in 0..(n - 1) : j = 0 \/ j \in 1..(n - 1)
  BY <1>1
<1>8. \A j \in 1..(n - 1) : j \in 0..(n - 1)
  BY <1>1
<1> QED BY <1>2, <1>3, <1>4, <1>6, <1>7, <1>8, Zenon DEF Window

-----------------------------------------------------------------------------
(* The inductive invariant                                                 *)

(* What a call in the middle of its work has established: there is room    *)
(* for the item it is writing, there is an item where it reads, and the    *)
(* slot not yet published holds the item pushed.                           *)
Underway ==
  /\ producer \in {"confirm", "write", "publish"} => item \in Item
  /\ producer \in {"write", "publish"} => Minus(tail, cachedHead) < Capacity
  /\ producer = "publish" => buf[At(tail)] = item
  /\ consumer \in {"read", "free"} => head # cachedTail
  /\ consumer = "free" => taken \in Item

(* The ring is dropped when nobody uses it, once.                          *)
GoneTogether ==
  producer = "gone" <=> consumer = "gone"

IInv == TypeOK /\ CachesLag /\ LiveSlots /\ Underway /\ GoneTogether

(* What the types and the order of the cursors say, taken together.        *)
LEMMA Cursors ==
  ASSUME TypeOK, CachesLag
  PROVE  /\ head \in Cursor /\ tail \in Cursor /\ cachedHead \in Cursor /\ cachedTail \in Cursor
         /\ Arc(cachedHead, head, cachedTail, tail)
         /\ Minus(tail, head) \in 0..Capacity /\ Minus(tail, head) <= Minus(tail, cachedHead)
         /\ Minus(tail, cachedHead) \in Nat
         /\ head # cachedTail => Minus(tail, head) > 0
         /\ Plus(head, Minus(tail, head)) = tail
<1>1. head \in Cursor /\ tail \in Cursor /\ cachedHead \in Cursor /\ cachedTail \in Cursor
  BY DEF TypeOK
<1>2. Arc(cachedHead, head, cachedTail, tail)
  BY DEF CachesLag, Arc
<1> QED BY <1>1, <1>2, ArcSize, PlusMinus

(* LiveSlots in terms of windows.                                          *)
Occupied ==
  IF producer = "gone" THEN {}
  ELSE (Window(head, Minus(tail, head)) \ (IF consumer = "free" THEN {At(head)} ELSE {}))
       \cup (IF producer = "publish" THEN {At(tail)} ELSE {})

LEMMA LiveIs == LiveSlots <=> {s \in Slot : buf[s] # Uninit} = Occupied
BY DEF LiveSlots, Occupied, Window

(* "Never an overwrite of a live slot or a read of an unwritten one"       *)
(* follows: the slot after the last is free, the first is live.            *)
LEMMA Guarded ==
  ASSUME IInv
  PROVE  SlotsGuarded
<1>1. /\ head \in Cursor /\ tail \in Cursor
      /\ Minus(tail, head) \in 0..Capacity /\ Minus(tail, head) <= Minus(tail, cachedHead)
      /\ Minus(tail, cachedHead) \in Nat /\ Capacity \in Nat
      /\ head # cachedTail => Minus(tail, head) > 0
      /\ Plus(head, Minus(tail, head)) = tail
  BY Cursors, Constants DEF IInv
<1>2. {s \in Slot : buf[s] # Uninit} = Occupied
  BY LiveIs DEF IInv
<1>3. At(head) \in Slot /\ At(tail) \in Slot
  BY <1>1, SlotAt
<1>4. ASSUME producer = "write" PROVE buf[At(tail)] = Uninit
  <2>1. Minus(tail, head) \in 0..(Capacity - 1)
    BY <1>1, <1>4 DEF IInv, Underway
  <2>2. At(tail) \notin Window(head, Minus(tail, head))
    BY <1>1, <2>1, WindowGrows
  <2>3. At(tail) \notin Occupied
    BY <1>4, <2>2 DEF Occupied
  <2> QED BY <1>2, <1>3, <2>3
<1>5. ASSUME consumer = "read" PROVE buf[At(head)] # Uninit
  <2>1. Minus(tail, head) \in 1..Capacity
    BY <1>1, <1>5 DEF IInv, Underway
  <2>2. At(head) \in Window(head, Minus(tail, head))
    BY <1>1, <2>1, WindowShrinks
  <2>3. At(head) \in Occupied
    BY <1>5, <2>2 DEF Occupied, IInv, GoneTogether
  <2> QED BY <1>2, <2>3
<1> QED BY <1>4, <1>5 DEF SlotsGuarded

-----------------------------------------------------------------------------
(* Types                                                                   *)

(* Every access keeps the types.                                           *)
LEMMA StepType ==
  ASSUME IInv, [Next]_vars
  PROVE  TypeOK'
<1>1. /\ head \in Cursor /\ tail \in Cursor /\ cachedHead \in Cursor /\ cachedTail \in Cursor
      /\ tailSeen \in Cursor /\ reported \in Cursor /\ 0 \in Cursor
  <2>1. 0 \in Cursor
    BY Constants DEF Cursor
  <2> QED BY <2>1 DEF IInv, TypeOK
<1>2. At(head) \in Slot /\ At(tail) \in Slot
  BY <1>1, SlotAt
<1>3. /\ exact \in BOOLEAN /\ buf \in [Slot -> Item \cup {Uninit}]
      /\ dropped \in 0..(DropModulus - 1)
      /\ producer \in {"idle", "confirm", "write", "publish", "gone"}
      /\ consumer \in {"idle", "confirm", "read", "free", "gone"}
      /\ observer \in {"idle", "tail loaded", "gone"}
      /\ item \in Item \cup {Uninit} /\ taken \in Item \cup {Uninit}
      /\ got \in {<<>>} \cup {<<i>> : i \in Item}
  BY DEF IInv, TypeOK
<1>4. 1 \in 0..CursorModulus
  BY Constants
<1>5. exact' = exact
  BY DEF Next, vars
<1>6. head' \in Cursor /\ tail' \in Cursor
  <2>1. head' = head \/ head' = Plus(head, 1)
    BY DEF Next, Push, BeginPush, ConfirmFull, WriteSlot, PublishTail, Pop, BeginPop, ConfirmEmpty,
      ReadSlot, FreeSlot, Occupancy, LoadTail, LoadHead, DropRing, vars, pushVars, popVars, lenVars
  <2>2. tail' = tail \/ tail' = Plus(tail, 1)
    BY DEF Next, Push, BeginPush, ConfirmFull, WriteSlot, PublishTail, Pop, BeginPop, ConfirmEmpty,
      ReadSlot, FreeSlot, Occupancy, LoadTail, LoadHead, DropRing, vars, pushVars, popVars, lenVars
  <2> QED BY <1>1, <1>4, <2>1, <2>2, PlusIs
<1>7. cachedHead' \in Cursor /\ cachedTail' \in Cursor
  <2>1. \A seen, newest \in Cursor : Load(seen, newest) \subseteq Cursor
    <3> SUFFICES ASSUME NEW seen \in Cursor, NEW newest \in Cursor, NEW c \in Load(seen, newest)
                 PROVE  c \in Cursor
      OBVIOUS
    <3>1. PICK n \in 0..Minus(newest, seen) : c = Plus(seen, n)
      BY LoadIs
    <3>2. n \in 0..CursorModulus
      BY MinusIs, Constants DEF Cursor
    <3> QED BY <3>1, <3>2, PlusIs
  <2>2. cachedHead' = cachedHead \/ cachedHead' \in Load(cachedHead, head)
    BY DEF Next, Push, BeginPush, ConfirmFull, WriteSlot, PublishTail, Pop, BeginPop, ConfirmEmpty,
      ReadSlot, FreeSlot, Occupancy, LoadTail, LoadHead, DropRing, vars, pushVars, popVars, lenVars
  <2>3. cachedTail' = cachedTail \/ cachedTail' \in Load(cachedTail, tail)
    BY DEF Next, Push, BeginPush, ConfirmFull, WriteSlot, PublishTail, Pop, BeginPop, ConfirmEmpty,
      ReadSlot, FreeSlot, Occupancy, LoadTail, LoadHead, DropRing, vars, pushVars, popVars, lenVars
  <2> QED BY <1>1, <2>1, <2>2, <2>3
<1>8. tailSeen' \in Cursor /\ reported' \in Cursor
  <2>1. tailSeen' \in {tailSeen, tail, 0}
    BY DEF Next, Push, BeginPush, ConfirmFull, WriteSlot, PublishTail, Pop, BeginPop, ConfirmEmpty,
      ReadSlot, FreeSlot, Occupancy, LoadTail, LoadHead, DropRing, vars, pushVars, popVars, lenVars
  <2>2. reported' \in {reported, Minus(tailSeen, head)}
    BY DEF Next, Push, BeginPush, ConfirmFull, WriteSlot, PublishTail, Pop, BeginPop, ConfirmEmpty,
      ReadSlot, FreeSlot, Occupancy, LoadTail, LoadHead, DropRing, vars, pushVars, popVars, lenVars
  <2> QED BY <1>1, <2>1, <2>2, MinusIs
<1>9. dropped' \in 0..(DropModulus - 1)
  <2>1. dropped' = dropped \/ dropped' = (dropped + 1) % DropModulus
    BY DEF Next, Push, BeginPush, ConfirmFull, WriteSlot, PublishTail, Pop, BeginPop, ConfirmEmpty,
      ReadSlot, FreeSlot, Occupancy, LoadTail, LoadHead, DropRing, vars, pushVars, popVars, lenVars
  <2>2. DropModulus \in Nat \ {0} /\ dropped + 1 \in Int
    <3>1. dropped \in 0..(DropModulus - 1) /\ DropModulus \in Nat \ {0}
      BY <1>3, SpscAssumption
    <3> QED BY <3>1
  <2> QED BY <1>3, <2>1, <2>2, Division
<1>10. item' \in Item \cup {Uninit} /\ taken' \in Item \cup {Uninit}
  <2>1. item' \in {item, Uninit} \/ item' \in Item
    BY DEF Next, Push, BeginPush, ConfirmFull, WriteSlot, PublishTail, Pop, BeginPop, ConfirmEmpty,
      ReadSlot, FreeSlot, Occupancy, LoadTail, LoadHead, DropRing, vars, pushVars, popVars, lenVars
  <2>2. taken' \in {taken, Uninit, buf[At(head)]}
    BY DEF Next, Push, BeginPush, ConfirmFull, WriteSlot, PublishTail, Pop, BeginPop, ConfirmEmpty,
      ReadSlot, FreeSlot, Occupancy, LoadTail, LoadHead, DropRing, vars, pushVars, popVars, lenVars
  <2> QED BY <1>2, <1>3, <2>1, <2>2
<1>11. got' \in {<<>>} \cup {<<i>> : i \in Item}
  <2>1. got' \in {got, <<>>} \/ (consumer = "free" /\ got' = <<taken>>)
    BY DEF Next, Push, BeginPush, ConfirmFull, WriteSlot, PublishTail, Pop, BeginPop, ConfirmEmpty,
      ReadSlot, FreeSlot, Occupancy, LoadTail, LoadHead, DropRing, vars, pushVars, popVars, lenVars
  <2> QED BY <1>3, <2>1 DEF IInv, Underway
<1>12. producer' \in {"idle", "confirm", "write", "publish", "gone"}
       /\ consumer' \in {"idle", "confirm", "read", "free", "gone"}
       /\ observer' \in {"idle", "tail loaded", "gone"}
  BY <1>3, Zenon DEF Next, Push, BeginPush, ConfirmFull, WriteSlot, PublishTail, Pop, BeginPop, ConfirmEmpty,
      ReadSlot, FreeSlot, Occupancy, LoadTail, LoadHead, DropRing, vars, pushVars, popVars, lenVars
<1>13. buf' \in [Slot -> Item \cup {Uninit}]
  <2>1. \/ buf' = buf
        \/ buf' = [buf EXCEPT ![At(tail)] = item]
        \/ buf' = [buf EXCEPT ![At(head)] = Uninit]
        \/ buf' = [s \in Slot |-> IF \E c \in Held : At(c) = s THEN Uninit ELSE buf[s]]
    BY DEF Next, Push, BeginPush, ConfirmFull, WriteSlot, PublishTail, Pop, BeginPop, ConfirmEmpty,
      ReadSlot, FreeSlot, Occupancy, LoadTail, LoadHead, DropRing, vars, pushVars, popVars, lenVars
  <2> QED BY <1>2, <1>3, <2>1
<1> QED BY <1>3, <1>5, <1>6, <1>7, <1>8, <1>9, <1>10, <1>11, <1>12, <1>13 DEF TypeOK

-----------------------------------------------------------------------------
(* The order of the cursors                                                *)

LEMMA StepArc ==
  ASSUME IInv, [Next]_vars
  PROVE  CachesLag'
<1>1. /\ head \in Cursor /\ tail \in Cursor /\ cachedHead \in Cursor /\ cachedTail \in Cursor
      /\ Arc(cachedHead, head, cachedTail, tail)
  BY Cursors DEF IInv
<1>2. Arc(cachedHead', head', cachedTail', tail') => CachesLag'
  BY DEF Arc, CachesLag
<1>3. \/ UNCHANGED <<head, tail, cachedHead, cachedTail>>
      \/ cachedHead' \in Load(cachedHead, head) /\ UNCHANGED <<head, tail, cachedTail>>
      \/ cachedTail' \in Load(cachedTail, tail) /\ UNCHANGED <<head, tail, cachedHead>>
      \/ /\ producer = "publish" /\ tail' = Plus(tail, 1)
         /\ UNCHANGED <<head, cachedHead, cachedTail>>
      \/ /\ consumer = "free" /\ head' = Plus(head, 1)
         /\ UNCHANGED <<tail, cachedHead, cachedTail>>
  BY Zenon DEF Next, Push, BeginPush, ConfirmFull, WriteSlot, PublishTail, Pop, BeginPop, ConfirmEmpty,
      ReadSlot, FreeSlot, Occupancy, LoadTail, LoadHead, DropRing, vars, pushVars, popVars, lenVars
<1>4. CASE UNCHANGED <<head, tail, cachedHead, cachedTail>>
  BY <1>1, <1>2, <1>4
<1>5. CASE cachedHead' \in Load(cachedHead, head) /\ UNCHANGED <<head, tail, cachedTail>>
  <2>1. PICK n \in 0..Minus(head, cachedHead) : cachedHead' = Plus(cachedHead, n)
    BY <1>1, <1>5, LoadIs
  <2> QED BY <1>1, <1>2, <1>5, <2>1, ArcCachedHead
<1>6. CASE cachedTail' \in Load(cachedTail, tail) /\ UNCHANGED <<head, tail, cachedHead>>
  <2>1. PICK n \in 0..Minus(tail, cachedTail) : cachedTail' = Plus(cachedTail, n)
    BY <1>1, <1>6, LoadIs
  <2> QED BY <1>1, <1>2, <1>6, <2>1, ArcCachedTail
<1>7. CASE producer = "publish" /\ tail' = Plus(tail, 1) /\ UNCHANGED <<head, cachedHead, cachedTail>>
  <2>1. Minus(tail, cachedHead) < Capacity
    BY <1>7 DEF IInv, Underway
  <2> QED BY <1>1, <1>2, <1>7, <2>1, ArcPush
<1>8. CASE consumer = "free" /\ head' = Plus(head, 1) /\ UNCHANGED <<tail, cachedHead, cachedTail>>
  <2>1. head # cachedTail
    BY <1>8 DEF IInv, Underway
  <2> QED BY <1>1, <1>2, <1>8, <2>1, ArcPop
<1> QED BY <1>3, <1>4, <1>5, <1>6, <1>7, <1>8

-----------------------------------------------------------------------------
(* The slots that hold items                                               *)

(* What a step may do to the slots and to what says which of them are      *)
(* live.                                                                   *)
Quiet ==
  /\ UNCHANGED <<buf, head, tail>>
  /\ (producer' = "gone" <=> producer = "gone")
  /\ (producer' = "publish" <=> producer = "publish")
  /\ (consumer' = "free" <=> consumer = "free")
  /\ (producer = "publish" => item' = item)
  /\ (consumer = "free" => taken' = taken)

LEMMA NextCases ==
  ASSUME [Next]_vars
  PROVE  Quiet \/ WriteSlot \/ PublishTail \/ ReadSlot \/ FreeSlot \/ DropRing
<1>1. ASSUME NEW i \in Item, BeginPush(i) PROVE Quiet
  BY <1>1 DEF BeginPush, Quiet, popVars
<1>2. CASE ConfirmFull
  BY <1>2 DEF ConfirmFull, Quiet, popVars
<1>3. CASE BeginPop
  BY <1>3 DEF BeginPop, Quiet, pushVars
<1>4. CASE ConfirmEmpty
  BY <1>4 DEF ConfirmEmpty, Quiet, pushVars
<1>5. CASE LoadTail \/ LoadHead
  BY <1>5 DEF LoadTail, LoadHead, Quiet, pushVars, popVars
<1>6. CASE UNCHANGED vars
  BY <1>6 DEF vars, Quiet, pushVars, popVars
<1> QED BY <1>1, <1>2, <1>3, <1>4, <1>5, <1>6 DEF Next, Push, Pop, Occupancy

(* Where a call stands when it writes, publishes, reads and frees.         *)
LEMMA Producing ==
  ASSUME IInv, producer \in {"write", "publish"}
  PROVE  /\ Minus(tail, head) \in 0..(Capacity - 1)
         /\ At(tail) \notin Window(head, Minus(tail, head))
         /\ Window(head, Minus(tail, head) + 1) = Window(head, Minus(tail, head)) \cup {At(tail)}
         /\ Minus(Plus(tail, 1), head) = Minus(tail, head) + 1
         /\ consumer = "free" => At(head) # At(tail)
<1>1. /\ head \in Cursor /\ tail \in Cursor /\ cachedHead \in Cursor /\ cachedTail \in Cursor
      /\ Arc(cachedHead, head, cachedTail, tail)
      /\ Minus(tail, head) \in 0..Capacity /\ Minus(tail, head) <= Minus(tail, cachedHead)
      /\ Minus(tail, cachedHead) \in Nat /\ Capacity \in Nat
      /\ head # cachedTail => Minus(tail, head) > 0
      /\ Plus(head, Minus(tail, head)) = tail
  BY Cursors, Constants DEF IInv
<1>2. Minus(tail, cachedHead) < Capacity
  BY DEF IInv, Underway
<1>3. Minus(tail, head) \in 0..(Capacity - 1)
  BY <1>1, <1>2
<1>4. ASSUME consumer = "free" PROVE At(head) # At(tail)
  <2>1. Minus(tail, head) \in 1..Capacity
    BY <1>1, <1>4 DEF IInv, Underway
  <2>2. At(head) \in Window(head, Minus(tail, head))
    BY <1>1, <2>1, WindowShrinks
  <2> QED BY <1>1, <1>3, <2>2, WindowGrows
<1> QED BY <1>1, <1>2, <1>3, <1>4, WindowGrows, ArcPush

LEMMA Consuming ==
  ASSUME IInv, consumer \in {"read", "free"}
  PROVE  /\ Minus(tail, head) \in 1..Capacity
         /\ At(head) \in Window(head, Minus(tail, head))
         /\ Window(Plus(head, 1), Minus(tail, head) - 1) = Window(head, Minus(tail, head)) \ {At(head)}
         /\ Minus(tail, Plus(head, 1)) = Minus(tail, head) - 1
         /\ producer = "publish" => At(head) # At(tail)
<1>1. /\ head \in Cursor /\ tail \in Cursor /\ cachedHead \in Cursor /\ cachedTail \in Cursor
      /\ Arc(cachedHead, head, cachedTail, tail)
      /\ Minus(tail, head) \in 0..Capacity /\ Capacity \in Nat
      /\ head # cachedTail => Minus(tail, head) > 0
  BY Cursors, Constants DEF IInv
<1>2. head # cachedTail
  BY DEF IInv, Underway
<1>3. Minus(tail, head) \in 1..Capacity
  BY <1>1, <1>2
<1>4. At(head) \in Window(head, Minus(tail, head))
  BY <1>1, <1>3, WindowShrinks
<1>5. ASSUME producer = "publish" PROVE At(head) # At(tail)
  BY <1>4, <1>5, Producing
<1> QED BY <1>1, <1>2, <1>3, <1>4, <1>5, WindowShrinks, ArcPop

(* A slot is live from the write that fills it to the read that empties    *)
(* it, and all of it is from head to tail but for the call in between.     *)
LEMMA StepLive ==
  ASSUME IInv, TypeOK', [Next]_vars
  PROVE  LiveSlots'
<1> DEFINE Live == {s \in Slot : buf[s] # Uninit}
<1>1. Live = Occupied
  BY LiveIs DEF IInv
<1>2. Live' = Occupied' => LiveSlots'
  BY DEF LiveSlots, Occupied, Window
<1>3. /\ buf \in [Slot -> Item \cup {Uninit}] /\ Uninit \notin Item
      /\ head \in Cursor /\ tail \in Cursor
  BY SpscAssumption DEF IInv, TypeOK
<1>4. At(head) \in Slot /\ At(tail) \in Slot
  BY <1>3, SlotAt
<1> HIDE DEF Live
<1>5. CASE Quiet
  <2>1. Live' = Live
    BY <1>5 DEF Live, Quiet
  <2>2. Occupied' = Occupied
    BY <1>5 DEF Occupied, Quiet, Window
  <2> QED BY <1>1, <1>2, <2>1, <2>2
<1>6. CASE WriteSlot
  <2>1. /\ producer = "write" /\ producer' = "publish" /\ buf' = [buf EXCEPT ![At(tail)] = item]
        /\ head' = head /\ tail' = tail /\ consumer' = consumer
    BY <1>6 DEF WriteSlot, popVars
  <2>2. item \in Item
    BY <2>1 DEF IInv, Underway
  <2>3. Live' = Live \cup {At(tail)}
    BY <1>3, <1>4, <2>1, <2>2 DEF Live
  <2>4. Occupied' = Occupied \cup {At(tail)}
    BY <2>1 DEF Occupied, Window
  <2> QED BY <1>1, <1>2, <2>3, <2>4
<1>7. CASE PublishTail
  <2>1. /\ producer = "publish" /\ producer' = "idle" /\ tail' = Plus(tail, 1) /\ buf' = buf
        /\ head' = head /\ consumer' = consumer
    BY <1>7 DEF PublishTail, popVars
  <2>2. Live' = Live
    BY <2>1 DEF Live
  <2>3. /\ Minus(tail', head') = Minus(tail, head) + 1
        /\ Window(head, Minus(tail, head) + 1) = Window(head, Minus(tail, head)) \cup {At(tail)}
        /\ consumer = "free" => At(head) # At(tail)
    BY <2>1, Producing
  <2>4. Occupied' = Window(head, Minus(tail', head)) \ (IF consumer = "free" THEN {At(head)} ELSE {})
    BY <2>1 DEF Occupied, Window
  <2>5. Occupied = (Window(head, Minus(tail, head)) \ (IF consumer = "free" THEN {At(head)} ELSE {}))
                     \cup {At(tail)}
    BY <2>1 DEF Occupied
  <2>6. Occupied' = Occupied
    BY <2>1, <2>3, <2>4, <2>5
  <2> QED BY <1>1, <1>2, <2>2, <2>6
<1>8. CASE ReadSlot
  <2>1. /\ consumer = "read" /\ consumer' = "free" /\ buf' = [buf EXCEPT ![At(head)] = Uninit]
        /\ head' = head /\ tail' = tail /\ producer' = producer
    BY <1>8 DEF ReadSlot, pushVars
  <2>2. Live' = Live \ {At(head)}
    BY <1>3, <1>4, <2>1 DEF Live
  <2>3. producer # "gone" /\ (producer = "publish" => At(head) # At(tail))
    BY <2>1, Consuming DEF IInv, GoneTogether
  <2>4. Occupied' = (Window(head, Minus(tail, head)) \ {At(head)})
                      \cup (IF producer = "publish" THEN {At(tail)} ELSE {})
    BY <2>1, <2>3 DEF Occupied, Window
  <2>5. Occupied = Window(head, Minus(tail, head)) \cup (IF producer = "publish" THEN {At(tail)} ELSE {})
    BY <2>1, <2>3 DEF Occupied
  <2>6. Occupied' = Occupied \ {At(head)}
    BY <2>3, <2>4, <2>5
  <2> QED BY <1>1, <1>2, <2>2, <2>6
<1>9. CASE FreeSlot
  <2>1. /\ consumer = "free" /\ consumer' = "idle" /\ buf' = buf
        /\ head' = Plus(head, 1) /\ tail' = tail /\ producer' = producer
    BY <1>9 DEF FreeSlot, pushVars
  <2>2. Live' = Live
    BY <2>1 DEF Live
  <2>3. /\ Minus(tail, Plus(head, 1)) = Minus(tail, head) - 1
        /\ Window(Plus(head, 1), Minus(tail, head) - 1) = Window(head, Minus(tail, head)) \ {At(head)}
    BY <2>1, Consuming
  <2>4. producer # "gone"
    BY <2>1 DEF IInv, GoneTogether
  <2>5. Occupied' = Window(Plus(head, 1), Minus(tail, Plus(head, 1)))
                      \cup (IF producer = "publish" THEN {At(tail)} ELSE {})
    BY <2>1, <2>4 DEF Occupied, Window
  <2>6. Occupied' = Occupied
    BY <2>1, <2>3, <2>4, <2>5 DEF Occupied
  <2> QED BY <1>1, <1>2, <2>2, <2>6
<1>10. CASE DropRing
  <2>1. /\ producer = "idle" /\ consumer = "idle" /\ producer' = "gone"
        /\ buf' = [s \in Slot |-> IF \E c \in Held : At(c) = s THEN Uninit ELSE buf[s]]
    BY <1>10 DEF DropRing
  <2>2. Occupied = Window(head, Minus(tail, head)) /\ Occupied' = {}
    BY <2>1 DEF Occupied
  <2>3. Window(head, Minus(tail, head)) = {At(c) : c \in Held}
    BY DEF Window, Held
  <2>4. ASSUME NEW s \in Slot PROVE buf'[s] = Uninit
    <3>1. CASE s \in Occupied
      <4>1. \E c \in Held : At(c) = s
        BY <2>2, <2>3, <3>1
      <4> QED BY <2>1, <4>1
    <3>2. CASE s \notin Occupied
      <4>1. buf[s] = Uninit
        BY <1>1, <3>2 DEF Live
      <4> QED BY <2>1, <4>1
    <3> QED BY <3>1, <3>2
  <2>5. Live' = {}
    BY <2>4 DEF Live
  <2> QED BY <1>2, <2>2, <2>5
<1> QED BY <1>5, <1>6, <1>7, <1>8, <1>9, <1>10, NextCases

-----------------------------------------------------------------------------
(* The calls in the middle of their work                                   *)

LEMMA StepUnderway ==
  ASSUME IInv, TypeOK', CachesLag', [Next]_vars
  PROVE  Underway' /\ GoneTogether'
<1>1. /\ head \in Cursor /\ tail \in Cursor /\ cachedHead \in Cursor /\ cachedTail \in Cursor
      /\ Minus(tail, cachedHead) \in Nat /\ Minus(tail, cachedHead) <= Capacity
      /\ Capacity \in Nat
  BY Cursors, Constants DEF IInv, CachesLag
<1>2. /\ buf \in [Slot -> Item \cup {Uninit}] /\ At(head) \in Slot /\ At(tail) \in Slot
      /\ Underway /\ GoneTogether /\ SlotsGuarded
  BY <1>1, SlotAt, Guarded DEF IInv, TypeOK
<1>3. ASSUME NEW i \in Item, BeginPush(i) PROVE Underway' /\ GoneTogether'
  <2>1. ~Full(cachedHead) => Minus(tail, cachedHead) < Capacity
    BY <1>1 DEF Full
  <2> QED BY <1>2, <1>3, <2>1 DEF BeginPush, Underway, GoneTogether, popVars
<1>4. CASE ConfirmFull
  <2>1. producer = "confirm" /\ item \in Item
    BY <1>2, <1>4 DEF ConfirmFull, Underway
  <2>2. PICK h \in Load(cachedHead, head) :
          /\ cachedHead' = h
          /\ producer' = IF Full(h) THEN "idle" ELSE "write"
          /\ item' = IF Full(h) THEN Uninit ELSE item
    BY <1>4 DEF ConfirmFull
  <2>3. tail' = tail /\ buf' = buf /\ head' = head /\ cachedTail' = cachedTail
        /\ consumer' = consumer /\ taken' = taken
    BY <1>4 DEF ConfirmFull, popVars
  <2>4. Minus(tail, h) \in Nat /\ Minus(tail, h) <= Capacity
    <3>1. tail' \in Cursor /\ cachedHead' \in Cursor
      BY DEF TypeOK
    <3>2. Minus(tail', cachedHead') <= Capacity /\ Minus(tail', cachedHead') \in Nat
      BY <3>1, MinusIs DEF CachesLag, Cursor
    <3> QED BY <2>2, <2>3, <3>2
  <2>5. ~Full(h) => Minus(tail, h) < Capacity
    BY <1>1, <2>4 DEF Full
  <2> QED BY <1>2, <2>1, <2>2, <2>3, <2>5 DEF Underway, GoneTogether
<1>5. CASE WriteSlot
  <2>1. /\ producer = "write" /\ producer' = "publish" /\ buf' = [buf EXCEPT ![At(tail)] = item]
        /\ UNCHANGED <<head, tail, consumer, item, taken, cachedHead, cachedTail>>
    BY <1>5 DEF WriteSlot, popVars
  <2> QED BY <1>2, <2>1 DEF Underway, GoneTogether
<1>6. CASE PublishTail
  BY <1>2, <1>6 DEF PublishTail, Underway, GoneTogether, popVars
<1>7. CASE BeginPop
  BY <1>2, <1>7 DEF BeginPop, Underway, GoneTogether, pushVars
<1>8. CASE ConfirmEmpty
  BY <1>2, <1>8 DEF ConfirmEmpty, Underway, GoneTogether, pushVars
<1>9. CASE ReadSlot
  <2>1. /\ consumer = "read" /\ consumer' = "free" /\ taken' = buf[At(head)]
        /\ buf' = [buf EXCEPT ![At(head)] = Uninit]
        /\ UNCHANGED <<head, tail, producer, item, cachedHead, cachedTail>>
    BY <1>9 DEF ReadSlot, pushVars
  <2>2. taken' \in Item /\ head # cachedTail
    BY <1>2, <2>1 DEF SlotsGuarded, Underway
  <2>3. producer = "publish" => buf'[At(tail)] = item
    <3>1. producer = "publish" => At(head) # At(tail)
      BY <2>1, Consuming
    <3> QED BY <1>2, <2>1, <3>1 DEF Underway
  <2> QED BY <1>2, <2>1, <2>2, <2>3 DEF Underway, GoneTogether
<1>10. CASE FreeSlot
  BY <1>2, <1>10 DEF FreeSlot, Underway, GoneTogether, pushVars
<1>11. CASE LoadTail \/ LoadHead \/ UNCHANGED vars
  BY <1>2, <1>11 DEF LoadTail, LoadHead, vars, Underway, GoneTogether, pushVars, popVars
<1>12. CASE DropRing
  BY <1>12 DEF DropRing, Underway, GoneTogether
<1> QED
  BY <1>3, <1>4, <1>5, <1>6, <1>7, <1>8, <1>9, <1>10, <1>11, <1>12 DEF Next, Push, Pop, Occupancy

-----------------------------------------------------------------------------

LEMMA InitIInv == Init => IInv
<1> SUFFICES ASSUME Init PROVE IInv
  OBVIOUS
<1>1. /\ head = 0 /\ tail = 0 /\ cachedHead = 0 /\ cachedTail = 0 /\ tailSeen = 0 /\ reported = 0
      /\ buf = [s \in Slot |-> Uninit] /\ exact \in BOOLEAN
      /\ producer = "idle" /\ consumer = "idle" /\ observer = "idle"
      /\ item = Uninit /\ taken = Uninit /\ got = <<>> /\ dropped = 0
  BY DEF Init
<1>2. 0 \in Cursor /\ 0 \in 0..(DropModulus - 1)
  BY Constants, SpscAssumption DEF Cursor
<1>3. Minus(0, 0) = 0
  BY <1>2, MinusIs
<1>4. TypeOK
  BY <1>1, <1>2 DEF TypeOK
<1>5. CachesLag
  BY <1>1, <1>3, Constants DEF CachesLag
<1>6. LiveSlots
  <2>1. {s \in Slot : buf[s] # Uninit} = {}
    BY <1>1
  <2>2. Window(head, Minus(tail, head)) = {}
    BY <1>1, <1>3 DEF Window
  <2>3. Occupied = {}
    BY <1>1, <2>2 DEF Occupied
  <2> QED BY <2>1, <2>3, LiveIs
<1>7. Underway /\ GoneTogether
  BY <1>1 DEF Underway, GoneTogether
<1> QED BY <1>4, <1>5, <1>6, <1>7 DEF IInv

(* The inductive invariant holds in every reachable state.                 *)
THEOREM Invariance == Spec => []IInv
<1>1. Init => IInv
  BY InitIInv
<1>2. IInv /\ [Next]_vars => IInv'
  BY StepType, StepArc, StepLive, StepUnderway DEF IInv
<1> QED BY <1>1, <1>2, PTL DEF Spec

(* "Never an overwrite of a live slot or a read of an unwritten one", the  *)
(* cached cursors lag and never run ahead, and exactly the items between   *)
(* the cursors are kept: for every capacity and every width of the         *)
(* cursors, across any number of wraps and with loads as stale as acquire  *)
(* and release allow.                                                      *)
THEOREM RingIsSafe == Spec => []RingSafe
<1>1. IInv => RingSafe
  BY Guarded DEF IInv, RingSafe
<1> QED BY <1>1, Invariance, PTL

-----------------------------------------------------------------------------
(* The refinement of BoundedFifo                                           *)

(* The number of items held and each of them, oldest first.                *)
Size == Minus(tail, head)
ItemAt(n) == IF n = 1 /\ consumer = "free" THEN taken ELSE buf[At(Plus(head, n - 1))]

LEMMA QueueIs ==
  ASSUME TypeOK, CachesLag, GoneTogether, producer # "gone"
  PROVE  /\ Queue = [n \in 1..Size |-> ItemAt(n)] /\ Size \in 0..Capacity
         /\ Size \in Nat
<1>1. Size \in 0..Capacity /\ Size \in Nat
  BY Cursors, Constants DEF Size
<1> QED BY <1>1 DEF Queue, Size, ItemAt

LEMMA QueueSlots ==
  ASSUME TypeOK, CachesLag, NEW n \in 1..Size
  PROVE  At(Plus(head, n - 1)) \in Slot
<1>1. head \in Cursor /\ Size \in 0..Capacity /\ Capacity \in Nat /\ CursorModulus \in Nat
      /\ CursorModulus >= 2 * Capacity
  BY Cursors, Constants DEF Size
<1>2. n - 1 \in 0..CursorModulus
  BY <1>1
<1> QED BY <1>1, <1>2, SlotOf

(* A step that leaves the items where they are leaves the queue as it is.  *)
LEMMA SameQueue ==
  ASSUME Quiet
  PROVE  Queue' = Queue
BY DEF Quiet, Queue

(* The slot being written is not one of the queue's.                       *)
LEMMA WriteKeepsQueue ==
  ASSUME IInv, WriteSlot
  PROVE  Queue' = Queue
<1>1. /\ producer = "write" /\ producer' = "publish" /\ buf' = [buf EXCEPT ![At(tail)] = item]
      /\ head' = head /\ tail' = tail /\ consumer' = consumer /\ taken' = taken
  BY DEF WriteSlot, popVars
<1>2. At(tail) \notin Window(head, Size) /\ Size \in Nat
  BY <1>1, Producing, Constants DEF Size
<1>3. ASSUME NEW n \in 1..Size PROVE At(Plus(head, n - 1)) # At(tail)
  <2>1. n - 1 \in 0..(Size - 1)
    BY <1>2
  <2>2. At(Plus(head, n - 1)) \in Window(head, Size)
    BY <2>1 DEF Window
  <2> QED BY <1>2, <2>2
<1>4. ASSUME NEW n \in 1..Size PROVE buf'[At(Plus(head, n - 1))] = buf[At(Plus(head, n - 1))]
  <2>1. At(Plus(head, n - 1)) \in Slot
    BY QueueSlots DEF IInv
  <2> QED BY <1>1, <1>3, <2>1 DEF IInv, TypeOK
<1> QED BY <1>1, <1>4 DEF Queue, Size

(* An item being moved out is still the queue's first.                     *)
LEMMA ReadKeepsQueue ==
  ASSUME IInv, ReadSlot
  PROVE  Queue' = Queue
<1>1. /\ consumer = "read" /\ consumer' = "free" /\ buf' = [buf EXCEPT ![At(head)] = Uninit]
      /\ taken' = buf[At(head)]
      /\ head' = head /\ tail' = tail /\ producer' = producer
  BY DEF ReadSlot, pushVars
<1>2. /\ Size \in 1..Capacity /\ head \in Cursor /\ Capacity \in Nat /\ Size \in Nat
  BY <1>1, Consuming, Cursors, Constants DEF Size, IInv
<1>3. Plus(head, 0) = head
  BY <1>2, SlotAt
<1>4. ASSUME NEW n \in 1..Size, n # 1 PROVE At(Plus(head, n - 1)) # At(head)
  <2>1. 0 \in 0..Capacity /\ n - 1 \in 0..Capacity /\ 0 < n - 1 /\ (n - 1) - 0 < Capacity
    BY <1>2, <1>4
  <2>2. At(Plus(head, 0)) # At(Plus(head, n - 1))
    BY <1>2, <2>1, SlotsDiffer
  <2> QED BY <1>3, <2>2
<1>5. ASSUME NEW n \in 1..Size
      PROVE  (IF n = 1 /\ consumer' = "free" THEN taken' ELSE buf'[At(Plus(head, n - 1))])
              = (IF n = 1 /\ consumer = "free" THEN taken ELSE buf[At(Plus(head, n - 1))])
  <2>1. CASE n = 1
    <3>1. n - 1 = 0
      BY <2>1
    <3> QED BY <1>1, <1>3, <2>1, <3>1
  <2>2. CASE n # 1
    <3>1. At(Plus(head, n - 1)) \in Slot
      BY QueueSlots DEF IInv
    <3> QED BY <1>1, <1>4, <2>2, <3>1 DEF IInv, TypeOK
  <2> QED BY <2>1, <2>2
<1> QED BY <1>1, <1>5 DEF Queue, Size

(* A push takes effect when tail is stored.                                *)
LEMMA PublishStores ==
  ASSUME IInv, IInv', PublishTail
  PROVE  Fifo!Store(item) /\ item \in Item
<1>1. /\ producer = "publish" /\ producer' = "idle" /\ tail' = Plus(tail, 1) /\ buf' = buf
      /\ UNCHANGED <<head, consumer, taken, got, dropped>>
  BY DEF PublishTail, popVars
<1>2. /\ Size \in 0..(Capacity - 1) /\ Size' = Size + 1 /\ Size \in Nat /\ Size < Capacity
  <2>1. Size \in 0..(Capacity - 1) /\ Minus(Plus(tail, 1), head) = Size + 1
    BY <1>1, Producing DEF Size
  <2> QED BY <1>1, <2>1, Constants DEF Size
<1>3. Queue = [n \in 1..Size |-> ItemAt(n)] /\ Queue' = [n \in 1..(Size + 1) |-> ItemAt(n)']
  <2>1. Queue' = [n \in 1..Size' |-> ItemAt(n)']
    BY <1>1 DEF Queue, Size, ItemAt
  <2> QED BY <1>1, <1>2, <2>1 DEF Queue, Size, ItemAt
<1>4. item \in Item /\ buf[At(tail)] = item
  BY <1>1 DEF IInv, Underway
<1>5. Plus(head, Size) = tail
  BY Cursors DEF Size, IInv
<1>6. consumer = "free" => Size > 0
  BY <1>2, Consuming DEF Size
<1>7. \A n \in 1..Size : ItemAt(n)' = ItemAt(n)
  BY <1>1 DEF ItemAt
<1>8. ASSUME NEW n \in 1..(Size + 1), n = Size + 1 PROVE ItemAt(n)' = item
  <2>1. ~(n = 1 /\ consumer = "free") /\ n - 1 = Size
    BY <1>2, <1>6, <1>8
  <2> QED BY <1>1, <1>4, <1>5, <2>1 DEF ItemAt
<1> DEFINE q == [n \in 1..Size |-> ItemAt(n)]
           q2 == [n \in 1..(Size + 1) |-> ItemAt(n)']
<1>9. /\ DOMAIN q = 1..Size /\ \A n \in 1..Size : q[n] = ItemAt(n)
      /\ q2[Size + 1] = item /\ \A n \in 1..Size : q2[n] = q[n]
  <2>1. Size + 1 \in 1..(Size + 1) /\ \A n \in 1..Size : n \in 1..(Size + 1)
    BY <1>2
  <2>2. q2[Size + 1] = item
    <3> PICK m \in 1..(Size + 1) : m = Size + 1
      BY <2>1
    <3> QED BY <1>8
  <2> QED BY <1>7, <2>1, <2>2
<1>10. Len(q) = Size /\ q2 = Append(q, item)
  <2> HIDE DEF ItemAt, Size
  <2>1. Len(q) = Size
    BY <1>2
  <2>2. Append(q, item) = [n \in 1..(Size + 1) |-> IF n = Size + 1 THEN item ELSE q[n]]
    BY <1>2, <2>1
  <2>3. \A n \in 1..(Size + 1) : q2[n] = IF n = Size + 1 THEN item ELSE q[n]
    BY <1>2, <1>9
  <2> QED BY <2>1, <2>2, <2>3
<1>11. Len(Queue) < Capacity /\ Queue' = Append(Queue, item)
  BY <1>2, <1>3, <1>10
<1> QED BY <1>1, <1>4, <1>11 DEF Fifo!Store

(* A pop takes effect when head is stored.                                 *)
LEMMA FreeTakes ==
  ASSUME IInv, IInv', FreeSlot
  PROVE  Fifo!Take
<1>1. /\ consumer = "free" /\ consumer' = "idle" /\ buf' = buf
      /\ head' = Plus(head, 1) /\ got' = <<taken>>
      /\ UNCHANGED <<tail, producer, dropped>>
  BY DEF FreeSlot, pushVars
<1>2. /\ Size \in 1..Capacity /\ Size' = Size - 1 /\ Size \in Nat /\ Size >= 1
      /\ Size <= Capacity /\ head \in Cursor
      /\ producer # "gone" /\ producer' # "gone"
  <2>1. Size \in 1..Capacity /\ Minus(tail, Plus(head, 1)) = Size - 1 /\ head \in Cursor
    BY <1>1, Consuming, Cursors DEF Size, IInv
  <2>2. producer # "gone" /\ producer' # "gone"
    BY <1>1 DEF IInv, GoneTogether
  <2> QED BY <1>1, <2>1, <2>2, Constants DEF Size
<1>3. Queue = [n \in 1..Size |-> ItemAt(n)] /\ Queue' = [n \in 1..(Size - 1) |-> ItemAt(n)']
  <2>1. Queue' = [n \in 1..Size' |-> ItemAt(n)']
    BY <1>2 DEF Queue, Size, ItemAt
  <2> QED BY <1>2, <2>1 DEF Queue, Size, ItemAt
<1>4. ItemAt(1) = taken
  BY <1>1 DEF ItemAt
<1>5. ASSUME NEW n \in 1..(Size - 1) PROVE ItemAt(n)' = ItemAt(n + 1)
  <2>1. /\ n + 1 # 1 /\ (n + 1) - 1 = n /\ 1 \in Nat /\ n - 1 \in Nat
        /\ 1 + (n - 1) <= CursorModulus /\ 1 + (n - 1) = n
    BY <1>2, Constants
  <2>2. Plus(Plus(head, 1), n - 1) = Plus(head, n)
    BY <1>2, <2>1, PlusPlus
  <2> QED BY <1>1, <2>1, <2>2 DEF ItemAt
<1> DEFINE q == [n \in 1..Size |-> ItemAt(n)]
           q2 == [n \in 1..(Size - 1) |-> ItemAt(n)']
<1>6. /\ q[1] = taken /\ \A n \in 1..(Size - 1) : q2[n] = q[n + 1]
  <2>1. 1 \in 1..Size /\ \A n \in 1..(Size - 1) : n + 1 \in 1..Size
    BY <1>2
  <2> QED BY <1>4, <1>5, <2>1
<1>7. q # <<>> /\ Head(q) = taken /\ q2 = Tail(q)
  <2> HIDE DEF ItemAt, Size
  <2>1. Len(q) = Size /\ q # <<>>
    BY <1>2
  <2>2. Tail(q) = [n \in 1..(Size - 1) |-> q[n + 1]]
    BY <1>2, <2>1
  <2>3. Head(q) = q[1]
    BY <1>2, <2>1
  <2> QED BY <1>6, <2>1, <2>2, <2>3
<1>8. Queue # <<>> /\ Head(Queue) = taken /\ Queue' = Tail(Queue)
  BY <1>3, <1>7
<1> QED BY <1>1, <1>8 DEF Fifo!Take

(* Each access is a step of BoundedFifo, or changes nothing there.         *)
LEMMA StepFifo ==
  ASSUME IInv, IInv', [Next]_vars
  PROVE  [Fifo!Next]_(Fifo!vars)
<1>1. exact' = exact
  BY DEF Next, vars
<1>2. /\ head \in Cursor /\ tail \in Cursor /\ cachedHead \in Cursor /\ cachedTail \in Cursor
  BY Cursors DEF IInv
<1>3. ASSUME Quiet, got' = got, dropped' = dropped PROVE UNCHANGED Fifo!vars
  BY <1>1, <1>3, SameQueue DEF Fifo!vars
<1>4. ASSUME NEW i \in Item, BeginPush(i) PROVE UNCHANGED Fifo!vars
  BY <1>3, <1>4 DEF BeginPush, Quiet, popVars
<1>5. CASE BeginPop \/ LoadTail \/ LoadHead
  BY <1>3, <1>5 DEF BeginPop, LoadTail, LoadHead, Quiet, pushVars, popVars
<1>6. CASE UNCHANGED vars
  BY <1>3, <1>6 DEF vars, Quiet, pushVars, popVars
<1>7. CASE WriteSlot
  <2>1. got' = got /\ dropped' = dropped
    BY <1>7 DEF WriteSlot, popVars
  <2> QED BY <1>1, <1>7, <2>1, WriteKeepsQueue DEF Fifo!vars
<1>8. CASE ReadSlot
  <2>1. got' = got /\ dropped' = dropped
    BY <1>8 DEF ReadSlot, pushVars
  <2> QED BY <1>1, <1>8, <2>1, ReadKeepsQueue DEF Fifo!vars
<1>9. CASE PublishTail
  BY <1>1, <1>9, PublishStores DEF Fifo!Next
<1>10. CASE FreeSlot
  BY <1>1, <1>10, FreeTakes DEF Fifo!Next
<1>11. CASE DropRing
  <2>1. Queue' = <<>> /\ got' = got /\ dropped' = dropped
    BY <1>11 DEF DropRing, Queue
  <2> QED BY <1>1, <2>1 DEF Fifo!Next, Fifo!Discard
<1>12. CASE ConfirmFull
  <2>1. producer = "confirm" /\ Quiet /\ got' = got
    BY <1>12 DEF ConfirmFull, Quiet, popVars
  <2>2. PICK h \in Load(cachedHead, head) :
          dropped' = IF Full(h) THEN (dropped + 1) % DropModulus ELSE dropped
    BY <1>12 DEF ConfirmFull
  <2>3. CASE ~Full(h)
    BY <1>3, <2>1, <2>2, <2>3
  <2>4. CASE Full(h)
    <3>1. dropped' = (dropped + 1) % DropModulus
      BY <2>2, <2>4
    <3>2. ASSUME exact PROVE Len(Queue) = Capacity
      <4>1. h = head
        BY <1>2, <3>2, LoadIs
      <4>2. Size = Capacity
        BY <2>4, <4>1 DEF Full, Size
      <4>3. Queue = [n \in 1..Capacity |-> ItemAt(n)]
        BY <2>1, <4>2, QueueIs DEF IInv
      <4> QED BY <4>3, Constants
    <3>3. Queue' = Queue
      BY <2>1, SameQueue
    <3> QED BY <1>1, <2>1, <3>1, <3>2, <3>3 DEF Fifo!Next, Fifo!Refuse
  <2> QED BY <2>3, <2>4
<1>13. CASE ConfirmEmpty
  <2>1. consumer = "confirm" /\ Quiet /\ dropped' = dropped
    BY <1>13 DEF ConfirmEmpty, Quiet, pushVars
  <2>2. PICK t \in Load(cachedTail, tail) : got' = IF head = t THEN <<>> ELSE got
    BY <1>13 DEF ConfirmEmpty
  <2>3. CASE head # t
    BY <1>3, <2>1, <2>2, <2>3
  <2>4. CASE head = t
    <3>1. got' = <<>>
      BY <2>2, <2>4
    <3>2. ASSUME exact PROVE Queue = <<>>
      <4>1. tail = head
        BY <1>2, <2>4, <3>2, LoadIs
      <4>2. Minus(tail, head) = 0
        BY <1>2, <4>1, MinusIs DEF Cursor
      <4> QED BY <4>2 DEF Queue
    <3>3. Queue' = Queue
      BY <2>1, SameQueue
    <3> QED BY <1>1, <2>1, <3>1, <3>2, <3>3 DEF Fifo!Next, Fifo!FindNothing
  <2> QED BY <2>3, <2>4
<1> QED
  BY <1>4, <1>5, <1>6, <1>7, <1>8, <1>9, <1>10, <1>11, <1>12, <1>13 DEF Next, Push, Pop, Occupancy

(* The ring is a bounded FIFO: what is popped is what was pushed, once     *)
(* each and in order, and a refusal or a None is told only of a ring that  *)
(* was, or a moment ago seemed, full or empty.                             *)
THEOREM ImplementsFifo == Spec => IsFifo
<1>1. Init => Fifo!Init
  <2> SUFFICES ASSUME Init PROVE Fifo!Init
    OBVIOUS
  <2>1. 0 \in Cursor
    BY Constants DEF Cursor
  <2>2. Minus(tail, head) = 0
    BY <2>1, MinusIs DEF Init
  <2>3. Queue = <<>>
    BY <2>2 DEF Queue
  <2> QED BY <2>3 DEF Init, Fifo!Init
<1>2. IInv /\ IInv' /\ [Next]_vars => [Fifo!Next]_(Fifo!vars)
  BY StepFifo
<1> QED BY <1>1, <1>2, Invariance, PTL DEF Spec, IsFifo, Fifo!Spec
=============================================================================
