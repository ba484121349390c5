------------------------------ MODULE LauNumber ------------------------------
(***************************************************************************)
(* Numbers and their operations (lobject.c, lvm.c, llimits.h).             *)
(* Integers, of Bits bits, and floats are as in LauInteger.  Only the      *)
(* conversion of an integer to a float rounds, to Mantissa bits.           *)
(***************************************************************************)
EXTENDS LauInteger, Sequences, TLC

CONSTANTS Bits, Mantissa
ASSUME Widths == Bits \in Nat \ {0, 1} /\ Mantissa \in Nat \ {0} /\ MAXINT = 2 ^ (Bits - 1) - 1

True == <<"true">>
False == <<"false">>
Str(s) == <<"str", s>>

Abs(n) == IF n < 0 THEN -n ELSE n
RECURSIVE Gcd(_, _)
Gcd(a, b) == IF b = 0 THEN a ELSE Gcd(b, a % b)
Sign(n) == IF n > 0 THEN 1 ELSE IF n < 0 THEN -1 ELSE 0
Reduced(n, d, g) == <<"flt", Sign(n) * Sign(d) * (Abs(n) \div g), Abs(d) \div g>>
Flt(n, d) == IF d = 0 THEN <<"flt", Sign(n), 0>> ELSE Reduced(n, d, Gcd(Abs(n), Abs(d)))
IsNumber(v) == v[1] \in {"int", "flt"}
IsStr(v) == v[1] = "str"

\* cast_num: the float nearest to an integer, ties to an even mantissa.
RECURSIVE RoundTo(_, _)
RoundTo(n, unit) ==
  IF Abs(n) < (2 ^ Mantissa) * unit
  THEN LET q == Abs(n) \div unit
           r == Abs(n) % unit
           up == 2 * r > unit \/ (2 * r = unit /\ q % 2 = 1)
       IN (IF n < 0 THEN -1 ELSE 1) * unit * (q + IF up THEN 1 ELSE 0)
  ELSE RoundTo(n, 2 * unit)
cast_num(n) == Flt(RoundTo(n, 1), 1)

\* A numeral string converts to its number (l_strton); other strings do not.
Numeral == [s \in {ToString(i) : i \in -9..9} |-> CHOOSE i \in -9..9 : ToString(i) = s]
tonumeric(v) ==
  IF v[1] = "str" /\ v[2] \in DOMAIN Numeral THEN Int_(Numeral[v[2]])
  ELSE IF IsNumber(v) THEN v ELSE None
\* tonumberns, tonumber: a float, or None.
tonumberns(v) == IF IsInt(v) THEN cast_num(v[2]) ELSE IF IsFlt(v) THEN v ELSE None
tonumber(v) == IF tonumeric(v) = None THEN None ELSE tonumberns(tonumeric(v))

(***************************************************************************)
(* Comparing and rounding floats                                           *)
(***************************************************************************)
numeq(a, b) == a = b /\ a # NaN
numle(a, b) == numlt(a, b) \/ numeq(a, b)
IsZero(v) == v[2] = 0 /\ v # NaN
IsIntegral(v) == IsInt(v) \/ v[3] = 1
Trunc(v) == v[2]                                        \* of an integral number
tointeger(v, mode) == tointegerns(IF tonumeric(v) = None THEN v ELSE tonumeric(v), mode)

\* l_intfitsf: an integer that a float represents exactly.
intfitsf(i) == -(2 ^ Mantissa) <= i /\ i <= 2 ^ Mantissa
LTintfloat(i, f) ==
  LET fi == flttointeger(f, "ceil") IN
  IF intfitsf(i) THEN numlt(cast_num(i), f)
  ELSE IF fi # None THEN i < fi[2] ELSE numlt(Zero, f)
LEintfloat(i, f) ==
  LET fi == flttointeger(f, "floor") IN
  IF intfitsf(i) THEN numle(cast_num(i), f)
  ELSE IF fi # None THEN i <= fi[2] ELSE numlt(Zero, f)
LTfloatint(f, i) ==
  LET fi == flttointeger(f, "floor") IN
  IF intfitsf(i) THEN numlt(f, cast_num(i))
  ELSE IF fi # None THEN fi[2] < i ELSE numlt(f, Zero)
LEfloatint(f, i) ==
  LET fi == flttointeger(f, "ceil") IN
  IF intfitsf(i) THEN numle(f, cast_num(i))
  ELSE IF fi # None THEN fi[2] <= i ELSE numlt(f, Zero)
LTnum(l, r) ==
  CASE IsInt(l) /\ IsInt(r) -> l[2] < r[2]
    [] IsInt(l) /\ IsFlt(r) -> LTintfloat(l[2], r)
    [] IsFlt(l) /\ IsFlt(r) -> numlt(l, r)
    [] OTHER -> LTfloatint(l, r[2])
LEnum(l, r) ==
  CASE IsInt(l) /\ IsInt(r) -> l[2] <= r[2]
    [] IsInt(l) /\ IsFlt(r) -> LEintfloat(l[2], r)
    [] IsFlt(l) /\ IsFlt(r) -> numle(l, r)
    [] OTHER -> LEfloatint(l, r[2])
rawequalobj(a, b) ==
  CASE IsInt(a) /\ IsFlt(b) -> flttointeger(b, "eq") = a
    [] IsFlt(a) /\ IsInt(b) -> flttointeger(a, "eq") = b
    [] OTHER -> a = b /\ a # NaN

(***************************************************************************)
(* Arithmetic                                                              *)
(***************************************************************************)
\* lauV_mod: C's remainder, corrected to the sign of the divisor; None is the error.
V_mod(m, n) ==
  IF n = 0 THEN None
  ELSE IF n = -1 THEN Int_(0)
  ELSE LET r == (IF m < 0 THEN -1 ELSE 1) * (Abs(m) % Abs(n))
       IN Int_(IF r # 0 /\ (r < 0) # (n < 0) THEN r + n ELSE r)
numadd(a, b) == Flt(a[2] * b[3] + b[2] * a[3], a[3] * b[3])
nummul(a, b) == Flt(a[2] * b[2], a[3] * b[3])
numdiv(a, b) == IF IsZero(b) THEN None ELSE Flt(a[2] * b[3], a[3] * b[2])
\* fmod, corrected to the sign of the divisor.
Towards0(q) == Sign(q[2]) * (Abs(q[2]) \div q[3])
Corrected(m, b) ==
  IF IF m[2] > 0 THEN b[2] < 0 ELSE m[2] < 0 /\ b[2] > 0 THEN numadd(m, b) ELSE m
V_modf(a, b) ==
  IF IsZero(b) THEN NaN
  ELSE Corrected(numadd(a, nummul(Flt(-Towards0(Flt(a[2] * b[3], a[3] * b[2])), 1), b)), b)
RECURSIVE Power(_, _)
Power(a, n) == IF n = 0 THEN Flt(1, 1) ELSE nummul(a, Power(a, n - 1))
numpow(a, b) == IF b[2] < 0 THEN numdiv(Flt(1, 1), Power(a, -b[2])) ELSE Power(a, b[2])

intarith(op, a, b) ==
  CASE op = "ADD" -> Int_(Wrap(a + b))
    [] op = "SUB" -> Int_(Wrap(a - b))
    [] op = "MUL" -> Int_(Wrap(a * b))
    [] op = "MOD" -> V_mod(a, b)
numarith(op, a, b) ==
  CASE op = "ADD" -> numadd(a, b)
    [] op = "SUB" -> numadd(a, Flt(-b[2], b[3]))
    [] op = "MUL" -> nummul(a, b)
    [] op = "DIV" -> numdiv(a, b)
    [] op = "POW" -> numpow(a, b)
    [] op = "MOD" -> V_modf(a, b)
\* A result with an integral value becomes an integer.
Integral(f) == IF f # None /\ IsIntegral(f) THEN Int_(f[2]) ELSE f
FloatResult(op, n1, n2) ==
  IF n1 = None \/ n2 = None THEN None
  ELSE IF op \in {"DIV", "POW"} THEN Integral(numarith(op, n1, n2))
  ELSE numarith(op, n1, n2)
rawarith(op, a, b) ==
  IF op \notin {"DIV", "POW"} /\ IsInt(a) /\ IsInt(b) THEN intarith(op, a[2], b[2])
  ELSE FloatResult(op, tonumberns(a), tonumberns(b))

CeilLog2(x) == CHOOSE n \in 0..Bits : 2 ^ n >= x /\ \A m \in 0..(n - 1) : 2 ^ m < x

(***************************************************************************)
(* Numerical 'for' loops                                                   *)
(***************************************************************************)
FloatLoop(fi, fl, fs) ==
  IF None \in {fi, fl, fs} THEN Wrong
  ELSE IF IsZero(fs) THEN Wrong
  ELSE IF IF numlt(Zero, fs) THEN numlt(fl, fi) ELSE numlt(fi, fl) THEN Skipped(fi, fl, fs)
  ELSE [skip |-> FALSE, regs |-> <<fl, fs, fi>>]
forprep(init, limit, step) ==
  IF ~IsInt(init) \/ ~IsInt(step)
  THEN FloatLoop(tonumber(init), tonumber(limit), tonumber(step))
  ELSE intforprep(init[2], tonumeric(limit), step[2])
floatforloop(regs, idx) ==
  LET on == IF numlt(Zero, regs[2]) THEN numle(idx, regs[1]) ELSE numle(regs[1], idx)
  IN [on |-> on, regs |-> IF on THEN [regs EXCEPT ![3] = idx] ELSE regs]
forloop(regs) ==
  IF IsInt(regs[2]) THEN CountDown(regs, Unsigned(regs[1][2]))
  ELSE floatforloop(regs, numadd(regs[3], regs[2]))
=============================================================================
