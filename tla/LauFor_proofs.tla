--------------------------- MODULE LauFor_proofs ----------------------------
(***************************************************************************)
(* Proof that a numerical 'for' over integers runs exactly as often as it  *)
(* should, for integers of any width and any limit.                        *)
(***************************************************************************)
EXTENDS LauFor, TLAPS

-----------------------------------------------------------------------------
(* Arithmetic *)

(* Integer division by a positive number. *)
LEMMA Division ==
  ASSUME NEW a \in Int, NEW b \in Nat \ {0}
  PROVE  /\ a \div b \in Int /\ (a \div b) * b <= a /\ a < (a \div b + 1) * b
         /\ 0 <= a => a \div b \in Nat /\ a \div b <= a
OBVIOUS

(* Remainders of numbers around the range of the divisor. *)
LEMMA Remainder ==
  ASSUME NEW w \in Nat \ {0}
  PROVE  /\ \A a \in Int : a % w \in Int /\ 0 <= a % w /\ a % w < w
         /\ \A a \in Int : 0 <= a /\ a < w => a % w = a
         /\ \A a \in Int : -w <= a /\ a < 0 => a % w = a + w
         /\ \A a \in Int : w <= a /\ a < 2 * w => a % w = a - w
OBVIOUS

(* The values of a register, and its modulus. *)
Modulus == MAXUNSIGNED + 1

(* The ranges of integers and of unsigned integers. *)
LEMMA Ranges ==
  /\ MAXINT \in Nat /\ MAXINT > 0 /\ MININT = -MAXINT - 1
  /\ Modulus \in Nat \ {0} /\ Modulus = 2 * MAXINT + 2 /\ MAXUNSIGNED = Modulus - 1
  /\ \A n : n \in Integer <=> n \in Int /\ -MAXINT - 1 <= n /\ n <= MAXINT
  /\ \A n : n \in 0..MAXUNSIGNED <=> n \in Int /\ 0 <= n /\ n < Modulus
BY Width DEF MAXUNSIGNED, MININT, Modulus, Integer

(* Integers that wrap around do so once. *)
LEMMA Modulo ==
  /\ \A a \in Int : Unsigned(a) \in Int /\ 0 <= Unsigned(a) /\ Unsigned(a) < Modulus
  /\ \A a \in Int : 0 <= a /\ a < Modulus => Unsigned(a) = a
  /\ \A a \in Int : -Modulus <= a /\ a < 0 => Unsigned(a) = a + Modulus
  /\ \A a \in Int : Modulus <= a /\ a < 2 * Modulus => Unsigned(a) = a - Modulus
  /\ \A a \in Int : Wrap(a) = Unsigned(a - MININT) + MININT
<1>1. Modulus \in Nat \ {0} /\ \A a : Unsigned(a) = a % Modulus
  BY Ranges DEF Unsigned, Modulus
<1>2. \A a : Wrap(a) = Unsigned(a - MININT) + MININT
  BY DEF Wrap, Unsigned
<1> QED  BY <1>1, <1>2, Remainder

(* A value goes through a register of either sign unharmed. *)
LEMMA Signed ==
  /\ \A n \in Integer : Wrap(n) = n /\ Unsigned(n) \in 0..MAXUNSIGNED
  /\ \A n \in 0..MAXUNSIGNED : Wrap(n) \in Integer /\ Unsigned(Wrap(n)) = n
<1>1. ASSUME NEW n \in Integer  PROVE Wrap(n) = n /\ Unsigned(n) \in 0..MAXUNSIGNED
  <2>1. n \in Int /\ n - MININT \in Int /\ 0 <= n - MININT /\ n - MININT < Modulus
    BY Ranges
  <2>2. Unsigned(n - MININT) = n - MININT
    BY <2>1, Modulo
  <2> QED  BY <2>1, <2>2, Ranges, Modulo
<1>2. ASSUME NEW n \in 0..MAXUNSIGNED  PROVE Wrap(n) \in Integer /\ Unsigned(Wrap(n)) = n
  <2>1. n \in Int /\ 0 <= n /\ n < Modulus
    BY Ranges
  <2>2. CASE n <= MAXINT
    <3>1. n \in Integer
      BY <2>1, <2>2, Ranges
    <3> QED  BY <1>1, <2>1, <3>1, Modulo
  <2>3. CASE n > MAXINT
    <3>1. n - MININT \in Int /\ Modulus <= n - MININT /\ n - MININT < 2 * Modulus
      BY <2>1, <2>3, Ranges
    <3>2. Unsigned(n - MININT) = n - MININT - Modulus
      BY <3>1, Modulo
    <3>3. Wrap(n) = n - Modulus
      BY <2>1, <3>2, Ranges, Modulo
    <3>6. n - Modulus \in Integer
      BY <2>1, <2>3, Ranges
    <3>4. n - Modulus \in Int /\ -Modulus <= n - Modulus /\ n - Modulus < 0
      BY <2>1, Ranges
    <3>5. Unsigned(n - Modulus) = n
      BY <2>1, <3>4, Ranges, Modulo
    <3> QED  BY <3>3, <3>5, <3>6
  <2> QED  BY <2>1, <2>2, <2>3, Ranges
<1> QED  BY <1>1, <1>2

(* The difference of two integers does not overflow as an unsigned value. *)
LEMMA Difference ==
  ASSUME NEW a \in Integer, NEW b \in Integer, a <= b
  PROVE  Unsigned(Unsigned(b) - Unsigned(a)) = b - a
<1>1. /\ a \in Int /\ b \in Int /\ -Modulus <= a /\ a < Modulus /\ -Modulus <= b /\ b < Modulus
      /\ 0 <= b - a /\ b - a < Modulus /\ Modulus \in Nat
  BY Ranges
<1>2. /\ Unsigned(a) = (IF a < 0 THEN a + Modulus ELSE a)
      /\ Unsigned(b) = (IF b < 0 THEN b + Modulus ELSE b)
  BY <1>1, Modulo
<1>3. Unsigned(b) - Unsigned(a) = b - a \/ Unsigned(b) - Unsigned(a) = b - a - Modulus
  BY <1>1, <1>2
<1>4. Unsigned(b - a) = b - a
  BY <1>1, Modulo
<1>5. Unsigned(b - a - Modulus) = b - a
  <2> DEFINE c == b - a - Modulus
  <2>1. c \in Int /\ -Modulus <= c /\ c < 0 /\ c + Modulus = b - a
    BY <1>1
  <2> HIDE DEF c
  <2>2. Unsigned(c) = b - a
    BY <2>1, Modulo
  <2> QED  BY <2>2 DEF c
<1> QED  BY <1>3, <1>4, <1>5

(* The unsigned divisor is the length of the step, for the least integer too. *)
LEMMA Divisor ==
  ASSUME NEW c \in Integer
  PROVE  /\ c > 0 => Unsigned(c) = c
         /\ c < 0 => Unsigned(-(c + 1)) + 1 = -c
<1>1. ASSUME c > 0  PROVE Unsigned(c) = c
  BY <1>1, Ranges, Modulo
<1>2. ASSUME c < 0  PROVE Unsigned(-(c + 1)) + 1 = -c
  <2> DEFINE e == -(c + 1)
  <2>1. e \in Int /\ 0 <= e /\ e < Modulus /\ e + 1 = -c
    BY <1>2, Ranges
  <2> HIDE DEF e
  <2>2. Unsigned(e) + 1 = -c
    BY <2>1, Modulo
  <2> QED  BY <2>2 DEF e
<1> QED  BY <1>1, <1>2

(* So many steps, and no more, fit between the first value and the limit. *)
LEMMA Fits ==
  ASSUME NEW i \in Integer, NEW l \in Integer, NEW c \in Integer, c # 0,
         IF c > 0 THEN i <= l ELSE i >= l
  PROVE  LET n == Iterations(i, l, c) IN
         /\ n \in 0..MAXUNSIGNED
         /\ c > 0 => i + n * c <= l /\ l < i + (n + 1) * c
         /\ c < 0 => i + n * c >= l /\ l > i + (n + 1) * c
<1> DEFINE n == Iterations(i, l, c)
<1>1. i \in Int /\ l \in Int /\ c \in Int
  BY Ranges
<1>2. CASE c > 0
  <2>1. n = (l - i) \div c
    BY <1>2, Difference, Divisor DEF Iterations
  <2>2. l - i \in Int /\ 0 <= l - i /\ l - i < Modulus /\ c \in Nat \ {0}
    BY <1>1, <1>2, Ranges
  <2> DEFINE e == l - i
  <2>3. e \in Int /\ 0 <= e /\ e < Modulus /\ n = e \div c
    BY <2>1, <2>2
  <2> HIDE DEF e, n
  <2>4. n \in Nat /\ n <= e /\ n * c <= e /\ e < (n + 1) * c
    BY <2>2, <2>3, Division
  <2>5. n \in 0..MAXUNSIGNED
    BY <2>3, <2>4, Ranges
  <2>6. n * c \in Int /\ (n + 1) * c \in Int
    BY <1>1, <2>4
  <2>7. i + n * c <= l /\ l < i + (n + 1) * c
    BY <1>1, <2>4, <2>6 DEF e
  <2> QED  BY <1>1, <1>2, <2>5, <2>7 DEF n
<1>3. CASE c < 0
  <2>3. Unsigned(Unsigned(i) - Unsigned(l)) = i - l
    BY <1>1, <1>3, Difference
  <2>1. n = (i - l) \div (-c)
    BY <1>1, <1>3, <2>3, Divisor DEF Iterations
  <2> DEFINE e == i - l  b == -c
  <2>2. e \in Int /\ 0 <= e /\ e < Modulus /\ b \in Nat \ {0} /\ n = e \div b
    BY <1>1, <1>3, <2>1, Ranges
  <2> HIDE DEF e, b, n
  <2>4. n \in Nat /\ n <= e /\ n * b <= e /\ e < (n + 1) * b
    BY <2>2, Division
  <2>5. n \in 0..MAXUNSIGNED
    BY <2>2, <2>4, Ranges
  <2>6. n * c = -(n * b) /\ (n + 1) * c = -((n + 1) * b) /\ n * b \in Int /\ (n + 1) * b \in Int
    BY <1>1, <2>2, <2>4 DEF b
  <2>7. i + n * c >= l /\ l > i + (n + 1) * c
    BY <1>1, <2>4, <2>6 DEF e
  <2> QED  BY <1>1, <1>3, <2>5, <2>7 DEF n
<1> QED  BY <1>1, <1>2, <1>3

-----------------------------------------------------------------------------
(* The limit *)

(* Values of different kinds differ. *)
LEMMA Tags ==
  /\ None # Err /\ None[1] = "none" /\ ~IsInt(None) /\ ~IsFlt(None)
  /\ \A n : Int_(n) # None /\ Int_(n) # Err /\ IsInt(Int_(n)) /\ ~IsFlt(Int_(n)) /\ Int_(n)[2] = n
  /\ \A v : ~(IsInt(v) /\ IsFlt(v)) /\ (IsInt(v) \/ IsFlt(v) => v # None /\ v # Err)
BY DEF None, Err, Int_, IsInt, IsFlt

(* A fraction converts to its floor or its ceiling, if that is an integer. *)
Rounding(c) == IF c < 0 THEN "ceil" ELSE "floor"

(* A fraction is rounded to the integer that bounds the same integers. *)
LEMMA Rounds ==
  ASSUME NEW f, IsFraction(f), f[3] > 0, NEW c \in Int, c # 0
  PROVE  \E z \in Int :
           /\ \A i \in Int : Reaches(i, f, c) <=> UpTo(i, z, c)
           /\ tointegerns(f, Rounding(c)) = IF MININT <= z /\ z <= MAXINT THEN Int_(z) ELSE None
           /\ z > 0 => f[2] > 0
           /\ z < 0 => f[2] < 0
<1> DEFINE n == f[2]  d == f[3]  q == n \div d
<1>1. /\ n \in Int /\ d \in Nat \ {0} /\ IsFlt(f) /\ ~IsInt(f)
      /\ d = 1 => f = <<"flt", n, 1>>
      /\ d > 1 => n % d # 0
  BY Tags DEF IsFraction
<1>2. q \in Int /\ q * d <= n /\ n < (q + 1) * d
  BY <1>1, Division
<1>3. l_floor(f) = <<"flt", q, 1>>
  BY <1>1 DEF l_floor, Finite
<1>4. \A i : numbertointeger(<<"flt", i, 1>>) = IF MININT <= i /\ i <= MAXINT THEN Int_(i) ELSE None
  BY DEF numbertointeger, Finite
<1>5. f # NaN /\ (d > 1 => f # <<"flt", q, 1>>)
  BY <1>1 DEF NaN
<1>6. \A i \in Int : Reaches(i, f, c) <=> IF c > 0 THEN i * d <= n ELSE i * d >= n
  BY <1>1 DEF Reaches, AtMost, AtLeast
<1>7. tointegerns(f, Rounding(c)) = Rounded(f, <<"flt", q, 1>>, Rounding(c))
  BY <1>1, <1>3 DEF tointegerns, flttointeger
<1>8. CASE d = 1
  <2>1. q = n /\ f = <<"flt", q, 1>>
    BY <1>1, <1>2, <1>8
  <2>2. tointegerns(f, Rounding(c)) = numbertointeger(<<"flt", n, 1>>)
    BY <1>5, <1>7, <2>1 DEF Rounded
  <2>3. \A i \in Int : Reaches(i, f, c) <=> UpTo(i, n, c)
    BY <1>1, <1>6, <1>8 DEF UpTo
  <2> QED  BY <1>1, <1>4, <2>2, <2>3
<1>9. CASE d > 1 /\ c > 0
  <2>1. Rounding(c) = "floor"
    BY <1>9 DEF Rounding
  <2>2. tointegerns(f, Rounding(c)) = numbertointeger(<<"flt", q, 1>>)
    BY <1>5, <1>7, <1>9, <2>1 DEF Rounded
  <2> HIDE DEF n, d, q
  <2>3. \A i \in Int : i * d <= n <=> i <= q
    <3> SUFFICES ASSUME NEW i \in Int  PROVE i * d <= n <=> i <= q
      OBVIOUS
    <3>1. i <= q => i * d <= q * d
      BY <1>1, <1>2
    <3>2. i >= q + 1 => i * d >= (q + 1) * d
      BY <1>1, <1>2
    <3> QED  BY <1>1, <1>2, <3>1, <3>2
  <2>4. \A i \in Int : Reaches(i, f, c) <=> UpTo(i, q, c)
    BY <1>6, <1>9, <2>3 DEF UpTo
  <2>5. (q > 0 => n > 0) /\ (q < 0 => n < 0)
    BY <1>1, <1>2
  <2> QED  BY <1>2, <1>4, <2>2, <2>4, <2>5 DEF n
<1>10. CASE d > 1 /\ c < 0
  <2>1. Rounding(c) = "ceil"
    BY <1>10 DEF Rounding
  <2>2. tointegerns(f, Rounding(c)) = numbertointeger(<<"flt", q + 1, 1>>)
    BY <1>5, <1>7, <1>10, <2>1 DEF Rounded, Finite, IsInt
  <2>6. q * d # n
    BY <1>1, <1>2, <1>10
  <2> HIDE DEF n, d, q
  <2>3. \A i \in Int : i * d >= n <=> i >= q + 1
    <3> SUFFICES ASSUME NEW i \in Int  PROVE i * d >= n <=> i >= q + 1
      OBVIOUS
    <3>1. i <= q => i * d <= q * d
      BY <1>1, <1>2
    <3>2. i >= q + 1 => i * d >= (q + 1) * d
      BY <1>1, <1>2
    <3> QED  BY <1>1, <1>2, <2>6, <3>1, <3>2
  <2>4. \A i \in Int : Reaches(i, f, c) <=> UpTo(i, q + 1, c)
    BY <1>6, <1>10, <2>3 DEF UpTo
  <2>5. (q + 1 > 0 => n > 0) /\ (q + 1 < 0 => n < 0)
    BY <1>1, <1>2, <2>6
  <2>7. q + 1 \in Int
    BY <1>2
  <2> QED  BY <1>4, <2>2, <2>4, <2>5, <2>7 DEF n
<1> QED  BY <1>1, <1>8, <1>9, <1>10

(* What forlimit gives: the integers up to the given limit are those up to it. *)
ClipOk(p, i, l, c) ==
  /\ p = Err <=> l = None
  /\ p = None => ~Reaches(i, l, c)
  /\ p # None /\ p # Err =>
       /\ p[2] \in Integer /\ UpTo(i, p[2], c)
       /\ \A j \in Integer : Reaches(j, l, c) <=> UpTo(j, p[2], c)

(* An integer limit clips the loop as it should. *)
LEMMA WithinOk ==
  ASSUME NEW p, IsInt(p), p[2] \in Integer, NEW i \in Integer, NEW l, l # None, NEW c \in Int, c # 0,
         \A j \in Integer : Reaches(j, l, c) <=> UpTo(j, p[2], c)
  PROVE  ClipOk(Within(p, i, c), i, l, c)
<1>1. p # None /\ p # Err /\ None # Err
  BY Tags
<1>2. i \in Int /\ p[2] \in Int
  BY Ranges
<1>3. Within(p, i, c) = (IF UpTo(i, p[2], c) THEN p ELSE None)
  BY <1>2 DEF Within, UpTo
<1>4. Reaches(i, l, c) <=> UpTo(i, p[2], c)
  OBVIOUS
<1> QED  BY <1>1, <1>3, <1>4 DEF ClipOk

(* So does every limit. *)
LEMMA ForlimitIs ==
  ASSUME NEW l \in Limits, NEW i \in Integer, NEW c \in Integer, c # 0
  PROVE  ClipOk(forlimit(i, l, c), i, l, c)
<1> DEFINE p == tointegerns(l, Rounding(c))
<1>1. forlimit(i, l, c) = Limit(p, i, l, c)
  BY DEF forlimit, Rounding
<1>2. i \in Int /\ c \in Int /\ MAXINT \in Integer /\ MININT \in Integer
  BY Ranges
<1>3. /\ \A j \in Integer : j \in Int /\ MININT <= j /\ j <= MAXINT
      /\ \A j \in Int : MININT <= j /\ j <= MAXINT => j \in Integer
      /\ MININT < 0 /\ 0 < MAXINT /\ MININT \in Int /\ MAXINT \in Int
  BY Ranges
<1>4. CASE l = None
  <2>1. p = None
    BY <1>4, Tags DEF tointegerns
  <2> HIDE DEF p
  <2>2. forlimit(i, l, c) = Err
    BY <1>1, <1>4, <2>1 DEF Limit, Clipped
  <2> QED  BY <1>4, <2>2, Tags DEF ClipOk
<1>5. CASE IsInt(l) /\ l[2] \in Integer
  <2>1. p = l /\ l # None
    BY <1>5, Tags DEF tointegerns
  <2> HIDE DEF p
  <2>2. forlimit(i, l, c) = Within(l, i, c)
    BY <1>1, <2>1 DEF Limit
  <2>3. \A j \in Integer : Reaches(j, l, c) <=> UpTo(j, l[2], c)
    BY <1>5 DEF Reaches, UpTo, AtMost, AtLeast
  <2> QED  BY <1>2, <1>5, <2>1, <2>2, <2>3, WithinOk
<1>6. CASE IsFraction(l)
  <2>1. IsFlt(l) /\ ~IsInt(l) /\ l # None /\ l[2] \in Int /\ l[3] \in Nat
    BY <1>6, Tags DEF IsFraction
  <2>2. numlt(Zero, l) <=> l[2] > 0
    BY <2>1 DEF numlt, Zero
  <2>3. ASSUME p = None, l[2] > 0 => \A j \in Integer : Reaches(j, l, c) <=> c > 0,
               ~(l[2] > 0) => \A j \in Integer : Reaches(j, l, c) <=> c < 0
        PROVE  ClipOk(forlimit(i, l, c), i, l, c)
    <3> HIDE DEF p
    <3>1. forlimit(i, l, c) = Clipped(i, l, c)
      BY <1>1, <2>3 DEF Limit
    <3>2. CASE l[2] > 0 /\ c > 0
      <4>1. forlimit(i, l, c) = Within(Int_(MAXINT), i, c)
        BY <1>2, <2>1, <2>2, <3>1, <3>2 DEF Clipped
      <4>2. \A j \in Integer : Reaches(j, l, c) <=> UpTo(j, MAXINT, c)
        BY <1>3, <2>3, <3>2 DEF UpTo
      <4> QED  BY <1>2, <2>1, <4>1, <4>2, Tags, WithinOk
    <3>3. CASE ~(l[2] > 0) /\ c < 0
      <4>1. forlimit(i, l, c) = Within(Int_(MININT), i, c)
        BY <1>2, <2>1, <2>2, <3>1, <3>3 DEF Clipped
      <4>2. \A j \in Integer : Reaches(j, l, c) <=> UpTo(j, MININT, c)
        BY <1>2, <1>3, <2>3, <3>3 DEF UpTo
      <4> QED  BY <1>2, <2>1, <4>1, <4>2, Tags, WithinOk
    <3>4. CASE (l[2] > 0 /\ c < 0) \/ (~(l[2] > 0) /\ c > 0)
      <4>1. forlimit(i, l, c) = None
        BY <1>2, <2>1, <2>2, <3>1, <3>4 DEF Clipped
      <4>2. ~Reaches(i, l, c)
        BY <1>2, <2>3, <3>4
      <4> QED  BY <2>1, <4>1, <4>2, Tags DEF ClipOk
    <3> QED  BY <1>2, <2>1, <3>2, <3>3, <3>4
  <2>4. CASE l[3] = 0
    <3>1. l_floor(l) = l /\ ~Finite(l)
      BY <2>1, <2>4 DEF l_floor, Finite
    <3>2. p = None
      <4>1. numbertointeger(l) = None
        BY <3>1 DEF numbertointeger
      <4>2. Rounding(c) \in {"ceil", "floor"}
        BY DEF Rounding
      <4> QED  BY <2>1, <3>1, <4>1, <4>2 DEF tointegerns, flttointeger, Rounded
    <3>3. \A j \in Integer : Reaches(j, l, c) <=> IF c > 0 THEN l[2] > 0 ELSE l[2] <= 0
      BY <2>1, <2>4 DEF Reaches, AtMost, AtLeast
    <3>4. (l[2] <= 0 <=> ~(l[2] > 0)) /\ (c < 0 <=> ~(c > 0))
      BY <1>2, <2>1
    <3> QED  BY <2>3, <3>2, <3>3, <3>4
  <2>5. CASE l[3] > 0
    <3>1. PICK z \in Int :
            /\ \A j \in Int : Reaches(j, l, c) <=> UpTo(j, z, c)
            /\ p = IF MININT <= z /\ z <= MAXINT THEN Int_(z) ELSE None
            /\ z > 0 => l[2] > 0
            /\ z < 0 => l[2] < 0
      BY <1>2, <1>6, <2>5, Rounds
    <3> HIDE DEF p
    <3>2. CASE MININT <= z /\ z <= MAXINT
      <4>1. p = Int_(z) /\ z \in Integer
        BY <1>3, <3>1, <3>2
      <4>2. forlimit(i, l, c) = Within(p, i, c)
        BY <1>1, <4>1, Tags DEF Limit
      <4>3. IsInt(p) /\ p[2] = z
        BY <4>1, Tags
      <4>4. \A j \in Integer : Reaches(j, l, c) <=> UpTo(j, p[2], c)
        BY <1>3, <3>1, <4>3
      <4> QED  BY <1>2, <2>1, <4>1, <4>2, <4>3, <4>4, WithinOk
    <3>3. CASE z > MAXINT
      <4>1. p = None /\ l[2] > 0
        BY <1>3, <3>1, <3>3
      <4>2. \A j \in Integer : Reaches(j, l, c) <=> c > 0
        BY <1>2, <1>3, <3>1, <3>3 DEF UpTo
      <4> QED  BY <2>3, <4>1, <4>2
    <3>4. CASE z < MININT
      <4>1. p = None /\ ~(l[2] > 0)
        BY <1>3, <2>1, <3>1, <3>4
      <4>2. \A j \in Integer : Reaches(j, l, c) <=> c < 0
        BY <1>2, <1>3, <3>1, <3>4 DEF UpTo
      <4> QED  BY <2>3, <4>1, <4>2
    <3> QED  BY <1>3, <3>2, <3>3, <3>4
  <2> QED  BY <2>1, <2>4, <2>5
<1> QED  BY <1>4, <1>5, <1>6, LimitsAreNumbers

-----------------------------------------------------------------------------
(* The invariant *)

(* The invariant holds when the loop starts. *)
LEMMA LoopInitially == LoopInit => LoopInv
BY DEF LoopInit, LoopInv, Operands

(* The counter of OP_FORPREP. *)
LEMMA Prepares ==
  ASSUME LoopInv, ForPrep  PROVE LoopInv'
<1> DEFINE p == intforprep(init, limit, step)
<1>1. /\ init \in Integer /\ limit \in Limits /\ step \in Integer
      /\ init' = init /\ limit' = limit /\ step' = step
  BY DEF LoopInv, Operands, ForPrep
<1>2. /\ regs' = p.regs
      /\ pc' = IF p.regs = Err THEN "error" ELSE IF p.skip THEN "skipped" ELSE "running"
      /\ done' = IF p.regs = Err \/ p.skip THEN 0 ELSE 1
  BY DEF ForPrep
<1>3. Clip' = Clip
  BY <1>1 DEF Clip
<1>4. CASE step = 0
  <2>1. p.regs = Err
    BY <1>4 DEF intforprep, Wrong
  <2> QED  BY <1>1, <1>2, <1>4, <2>1 DEF LoopInv, Operands
<1>5. CASE step # 0 /\ Clip = Err
  <2>1. p.regs = Err
    <3>1. p = Counted(init, Err, step)
      BY <1>5 DEF intforprep, Clip
    <3>2. Counted(init, Err, step) = Wrong
      BY Tags DEF Counted
    <3> QED  BY <3>1, <3>2 DEF Wrong
  <2>2. limit = None
    BY <1>1, <1>5, ForlimitIs DEF Clip, ClipOk
  <2> QED  BY <1>1, <1>2, <2>1, <2>2 DEF LoopInv, Operands
<1>6. CASE step # 0 /\ Clip = None
  <2>1. p = Skipped(Int_(init), None, Int_(step))
    BY <1>6, Tags DEF intforprep, Counted, Clip
  <2>2. p.skip = TRUE /\ p.regs = <<Int_(init), None, Int_(step)>>
    BY <2>1 DEF Skipped
  <2>3. p.regs # Err
    BY <2>2 DEF Err
  <2> HIDE DEF p
  <2>4. pc' = "skipped"
    BY <1>2, <2>2, <2>3
  <2> QED  BY <1>1, <1>3, <1>6, <2>4, Tags DEF LoopInv, Operands
<1>7. CASE step # 0 /\ Clip # Err /\ Clip # None
  <2> DEFINE n == Iterations(init, Clip[2], step)
  <2>1. p = [skip |-> FALSE, regs |-> <<Int_(Wrap(n)), Int_(step), Int_(init)>>]
    BY <1>7 DEF intforprep, Counted, Clip
  <2>2. p.skip = FALSE /\ p.regs = <<Int_(Wrap(n)), Int_(step), Int_(init)>>
    BY <2>1
  <2>3. p.regs # Err
    BY <2>2 DEF Err
  <2>4. Clip[2] \in Integer /\ UpTo(init, Clip[2], step)
    BY <1>1, <1>7, ForlimitIs DEF Clip, ClipOk
  <2>5. /\ n \in 0..MAXUNSIGNED
        /\ step > 0 => init + n * step <= Clip[2] /\ Clip[2] < init + (n + 1) * step
        /\ step < 0 => init + n * step >= Clip[2] /\ Clip[2] > init + (n + 1) * step
    BY <1>1, <1>7, <2>4, Fits DEF UpTo
  <2>6. step \in Int /\ init \in Int /\ Clip[2] \in Int
    BY <1>1, <2>4, Ranges
  <2> HIDE DEF p, n
  <2>7. Wrap(n) \in Integer /\ Unsigned(Wrap(n)) = n /\ n \in Nat
    BY <2>5, Signed, Ranges
  <2>8. /\ pc' = "running" /\ done' = 1
        /\ regs' = <<Int_(Wrap(n)), Int_(step), Int_(init)>>
    BY <1>2, <2>2, <2>3
  <2>9. regs'[1][2] = Wrap(n) /\ regs'[2][2] = step /\ regs'[3][2] = init
    BY <2>8 DEF Int_
  <2>10. Left' = n /\ Index' = init
    BY <2>7, <2>9 DEF Left, Index
  <2>11. /\ UpTo(init + n * step, Clip[2], step)
         /\ ~UpTo(init + (n + 1) * step, Clip[2], step)
    <3>1. n * step \in Int /\ (n + 1) * step \in Int
      BY <2>6, <2>7
    <3>2. step > 0 \/ step < 0
      BY <1>7, <2>6
    <3> QED  BY <2>5, <2>6, <3>1, <3>2 DEF UpTo
  <2>12. Toward(Index + Left * step)' /\ ~Toward(Index + (Left + 1) * step)'
    BY <1>1, <1>3, <2>10, <2>11 DEF Toward
  <2>13. Index' = init' + (done' - 1) * step'
    BY <1>1, <2>6, <2>8, <2>10
  <2>14. Registers'
    BY <1>1, <1>3, <1>7, <2>7, <2>8, <2>9, <2>10, <2>12, <2>13 DEF Registers
  <2> QED  BY <1>1, <1>3, <1>7, <2>8, <2>14 DEF LoopInv, Operands
<1> QED  BY <1>4, <1>5, <1>6, <1>7

(* A value between two others is an integer. *)
LEMMA Between ==
  ASSUME NEW a \in Integer, NEW z \in Integer, NEW b \in Int, NEW c \in Int, c # 0,
         UpTo(a, b, c), UpTo(b, z, c)
  PROVE  b \in Integer
BY Ranges DEF UpTo

(* OP_FORLOOP takes one step, which stays within the limit. *)
LEMMA Advances ==
  ASSUME LoopInv, ForLoop  PROVE LoopInv'
<1> DEFINE r == CountDown(regs, Left)  z == Clip[2]
<1>1. /\ init \in Integer /\ limit \in Limits /\ step \in Integer /\ step # 0
      /\ init' = init /\ limit' = limit /\ step' = step /\ pc = "running"
      /\ Clip # Err /\ Registers
  BY DEF LoopInv, Operands, ForLoop
<1>2. /\ regs' = r.regs /\ pc' = IF r.on THEN "running" ELSE "ended"
      /\ done' = IF r.on THEN done + 1 ELSE done
  BY DEF ForLoop, Left
<1>3. Clip' = Clip
  BY <1>1 DEF Clip
<1>4. /\ done \in Nat \ {0} /\ regs[1][2] \in Integer /\ regs[2][2] = step /\ Index \in Integer
      /\ Index = init + (done - 1) * step /\ Clip # None
      /\ UpTo(Index + Left * step, z, step) /\ ~UpTo(Index + (Left + 1) * step, z, step)
  BY <1>1 DEF Registers, Toward
<1>5. Left \in 0..MAXUNSIGNED
  BY <1>4, Signed DEF Left
<1>6. /\ step \in Int /\ Index \in Int /\ Left \in Nat /\ z \in Integer /\ z \in Int /\ init \in Int
  BY <1>1, <1>4, <1>5, ForlimitIs, Ranges DEF Clip, ClipOk
<1>7. CASE Left = 0
  <2>1. ~r.on /\ r.regs = regs
    <3>1. r.on <=> Left > 0
      BY DEF CountDown
    <3>2. r.regs = regs
      BY <1>7 DEF CountDown
    <3> QED  BY <1>7, <3>1, <3>2
  <2> HIDE DEF r
  <2>2. pc' = "ended" /\ regs' = regs /\ done' = done
    BY <1>2, <2>1
  <2>3. Registers'
    BY <1>1, <1>3, <2>2 DEF Registers, Toward, Index, Left
  <2> QED  BY <1>1, <1>3, <1>7, <2>2, <2>3 DEF LoopInv, Operands, Left
<1>8. CASE Left > 0
  <2> DEFINE n == Left - 1  i == Index + step
  <2>1. r.on /\ r.regs = <<Int_(Wrap(n)), regs[2], Int_(Wrap(Index + regs[2][2]))>>
    <3>1. r.on <=> Left > 0
      BY DEF CountDown
    <3>2. Left # 0
      BY <1>8
    <3>3. r.regs = <<Int_(Wrap(n)), regs[2], Int_(Wrap(Index + regs[2][2]))>>
      BY <3>2 DEF CountDown, Index
    <3> QED  BY <1>8, <3>1, <3>3
  <2>2. n \in 0..MAXUNSIGNED /\ n \in Nat /\ Left = n + 1 /\ i \in Int
    BY <1>5, <1>6, <1>8, Ranges
  <2> HIDE DEF r, n, z
  <2>3. /\ pc' = "running" /\ done' = done + 1
        /\ regs' = <<Int_(Wrap(n)), regs[2], Int_(Wrap(i))>>
    BY <1>2, <1>4, <2>1
  <2>4. /\ Index + Left * step = i + n * step /\ Index + (Left + 1) * step = i + (n + 1) * step
        /\ i + n * step \in Int /\ i + (n + 1) * step \in Int
    BY <1>6, <2>2
  <2>5. UpTo(i, i + n * step, step) /\ UpTo(Index, i, step)
    <3>1. (step > 0 => n * step >= 0) /\ (step < 0 => n * step <= 0) /\ n * step \in Int
      BY <1>6, <2>2
    <3> QED  BY <1>1, <1>6, <2>2, <3>1 DEF UpTo
  <2>6. UpTo(i, z, step)
    BY <1>4, <1>6, <2>2, <2>4, <2>5 DEF UpTo
  <2>7. i \in Integer
    BY <1>1, <1>4, <1>6, <2>2, <2>5, <2>6, Between
  <2> HIDE DEF i
  <2>8. Wrap(i) = i /\ Wrap(n) \in Integer /\ Unsigned(Wrap(n)) = n
    BY <2>2, <2>7, Signed
  <2>9. regs'[1][2] = Wrap(n) /\ regs'[2][2] = step /\ regs'[3][2] = i
    BY <1>4, <2>3, <2>8 DEF Int_
  <2>10. Left' = n /\ Index' = i
    BY <2>8, <2>9 DEF Left, Index
  <2>11. Toward(Index + Left * step)' /\ ~Toward(Index + (Left + 1) * step)'
    BY <1>1, <1>3, <1>4, <2>4, <2>10 DEF Toward, z
  <2>12. Index' = init' + (done' - 1) * step'
    <3>1. done' - 1 = (done - 1) + 1 /\ done - 1 \in Int
      BY <1>4, <2>3
    <3>2. \A x \in Int : (x + 1) * step = x * step + step /\ x * step \in Int
      BY <1>6
    <3>3. (done' - 1) * step = (done - 1) * step + step /\ (done - 1) * step \in Int
      BY <3>1, <3>2
    <3>4. Index' = Index + step
      BY <2>10 DEF i
    <3> QED  BY <1>1, <1>4, <1>6, <3>3, <3>4
  <2>13. done' \in Nat \ {0}
    BY <1>4, <2>3
  <2>14. Registers'
    BY <1>1, <1>3, <1>4, <2>7, <2>8, <2>9, <2>10, <2>11, <2>12, <2>13 DEF Registers
  <2> QED  BY <1>1, <1>3, <2>3, <2>14 DEF LoopInv, Operands
<1> QED  BY <1>6, <1>7, <1>8

(* The invariant says what the loop promises. *)
LEMMA Promised == LoopInv => LoopsExactly
<1> SUFFICES ASSUME LoopInv  PROVE LoopsExactly
  OBVIOUS
<1>1. init \in Integer /\ limit \in Limits /\ step \in Integer /\ step \in Int
  BY Ranges DEF LoopInv, Operands
<1>2. step # 0 => ClipOk(Clip, init, limit, step)
  BY <1>1, ForlimitIs DEF Clip
<1>3. pc = "error" => step = 0 \/ limit = None
  BY DEF LoopInv, Operands
<1>4. pc \in {"skipped", "running", "ended"} => step # 0 /\ Clip # Err /\ limit # None
  BY <1>2 DEF LoopInv, Operands, ClipOk
<1>5. pc = "skipped" => ~InLimit(init)
  BY <1>2, <1>4 DEF LoopInv, Operands, ClipOk, InLimit
<1>6. ASSUME pc \in {"running", "ended"}
      PROVE  /\ done > 0 /\ Index = init + (done - 1) * step /\ Index \in Integer /\ InLimit(Index)
             /\ pc = "ended" => Index + step \notin Integer \/ ~InLimit(Index + step)
  <2>1. /\ step # 0 /\ Clip # Err /\ Clip # None /\ done \in Nat \ {0} /\ Index \in Integer
        /\ Index = init + (done - 1) * step /\ regs[1][2] \in Integer
        /\ UpTo(Index + Left * step, Clip[2], step)
        /\ ~UpTo(Index + (Left + 1) * step, Clip[2], step)
        /\ pc = "ended" => Left = 0
    BY <1>4, <1>6 DEF LoopInv, Registers, Toward
  <2>2. Clip[2] \in Integer /\ \A j \in Integer : InLimit(j) <=> UpTo(j, Clip[2], step)
    BY <1>2, <2>1 DEF ClipOk, InLimit
  <2>3. Left \in Nat /\ Index \in Int /\ Clip[2] \in Int
    BY <2>1, <2>2, Signed, Ranges DEF Left
  <2>4. UpTo(Index, Clip[2], step)
    <3>1. (step > 0 => Left * step >= 0) /\ (step < 0 => Left * step <= 0) /\ Left * step \in Int
      BY <1>1, <2>3
    <3> QED  BY <1>1, <2>1, <2>3, <3>1 DEF UpTo
  <2>5. pc = "ended" => ~UpTo(Index + step, Clip[2], step)
    <3>1. Left = 0 => Index + (Left + 1) * step = Index + step
      BY <1>1, <2>3
    <3> QED  BY <2>1, <3>1
  <2>6. done > 0 /\ InLimit(Index)
    BY <2>1, <2>2, <2>4
  <2>7. ASSUME pc = "ended", Index + step \in Integer  PROVE ~InLimit(Index + step)
    BY <2>2, <2>5, <2>7
  <2> QED  BY <2>1, <2>6, <2>7
<1> QED  BY <1>3, <1>4, <1>5, <1>6 DEF LoopsExactly

(* Every step of the loop keeps it. *)
LEMMA LoopStays == LoopInv /\ [LoopNext]_loopvars => LoopInv'
<1>1. ASSUME LoopInv, UNCHANGED loopvars  PROVE LoopInv'
  BY <1>1 DEF loopvars, LoopInv, Operands, Registers, Clip, Left, Toward, Index
<1> QED  BY <1>1, Prepares, Advances DEF LoopNext

(* A 'for' over integers of any width enters its body for exactly the integers
   that the reference definition gives, in order, and never wraps around. *)
THEOREM LoopIsExact == LoopSpec => []LoopsExactly
<1>1. LoopSpec => []LoopInv
  BY LoopInitially, LoopStays, PTL DEF LoopSpec
<1> QED  BY <1>1, Promised, PTL
=============================================================================
