----------------------------- MODULE LauInteger -----------------------------
(***************************************************************************)
(* Integers that wrap around, their conversion from floats, and the 'for'  *)
(* loops over them (llimits.h, lobject.c, lvm.c).  An integer is           *)
(* <<"int", n>>; a float is <<"flt", n, d>>, the fraction n / d in lowest  *)
(* terms, with 1/0, -1/0 and 0/0 for the infinities and NaN.               *)
(***************************************************************************)
EXTENDS Integers

CONSTANT MAXINT                                         \* LAU_MAXINTEGER
ASSUME Width == MAXINT \in Nat \ {0}

Nil == <<"nil">>
None == <<"none">>
Err == <<"err">>
Int_(n) == <<"int", n>>
Inf(sign) == <<"flt", sign, 0>>
NaN == <<"flt", 0, 0>>
Zero == <<"flt", 0, 1>>
IsInt(v) == v[1] = "int"
IsFlt(v) == v[1] = "flt"
Finite(v) == IsInt(v) \/ v[3] # 0

MININT == -MAXINT - 1
MAXUNSIGNED == 2 * MAXINT + 1
Wrap(n) == ((n - MININT) % (MAXUNSIGNED + 1)) + MININT  \* intop: l_castU2S
Unsigned(n) == n % (MAXUNSIGNED + 1)                    \* l_castS2U

(***************************************************************************)
(* From floats                                                             *)
(***************************************************************************)
numlt(a, b) ==
  IF a[3] = 0 /\ b[3] = 0 THEN a[2] < b[2] /\ a # NaN /\ b # NaN
  ELSE a[2] * b[3] < b[2] * a[3]
l_floor(f) == IF Finite(f) THEN <<"flt", f[2] \div f[3], 1>> ELSE f

\* lau_numbertointeger and lauV_flttointeger: the integer, or None.
numbertointeger(f) ==
  IF Finite(f) /\ MININT <= f[2] /\ f[2] <= MAXINT THEN Int_(f[2]) ELSE None
Rounded(n, f, mode) ==
  IF n # f \/ n = NaN
  THEN CASE mode = "eq" -> None
         [] mode = "floor" -> numbertointeger(f)
         [] mode = "ceil" -> numbertointeger(IF Finite(f) THEN <<"flt", f[2] + 1, 1>> ELSE f)
  ELSE numbertointeger(f)
flttointeger(n, mode) == Rounded(n, l_floor(n), mode)
tointegerns(v, mode) ==
  IF IsFlt(v) THEN flttointeger(v, mode) ELSE IF IsInt(v) THEN v ELSE None

(***************************************************************************)
(* Numerical 'for' loops over integers: the three values, and the three    *)
(* registers they become                                                   *)
(***************************************************************************)
\* forlimit, for the number that the limit converts to: None means that the
\* loop does not run; Err that there is no such number.
Within(l, init, step) == IF (IF step > 0 THEN init > l[2] ELSE init < l[2]) THEN None ELSE l
Clipped(init, flim, step) ==
  IF flim = None THEN Err
  ELSE IF numlt(Zero, flim) THEN IF step < 0 THEN None ELSE Within(Int_(MAXINT), init, step)
  ELSE IF step > 0 THEN None ELSE Within(Int_(MININT), init, step)
Limit(p, init, lim, step) ==
  IF p = None THEN Clipped(init, lim, step) ELSE Within(p, init, step)
forlimit(init, lim, step) ==
  Limit(tointegerns(lim, IF step < 0 THEN "ceil" ELSE "floor"), init, lim, step)
\* forprep: [skip, regs] with the three registers after it, or regs = Err.
Wrong == [skip |-> FALSE, regs |-> Err]
Skipped(init, limit, step) == [skip |-> TRUE, regs |-> <<init, limit, step>>]
\* A bug: the divisor is the step, negated, plus one.
Iterations_Negated(init, l, step) ==
  IF step > 0 THEN Unsigned(Unsigned(l) - Unsigned(init)) \div Unsigned(step)
  ELSE Unsigned(Unsigned(init) - Unsigned(l)) \div Unsigned(-step + 1)
\* The number of iterations is computed without overflow.
Iterations(init, l, step) ==
  IF step > 0 THEN Unsigned(Unsigned(l) - Unsigned(init)) \div Unsigned(step)
  ELSE Unsigned(Unsigned(init) - Unsigned(l)) \div (Unsigned(-(step + 1)) + 1)
Counted(init, l, step) ==
  CASE l = Err -> Wrong
    [] l = None -> Skipped(Int_(init), l, Int_(step))
    [] OTHER -> [skip |-> FALSE,
                 regs |-> <<Int_(Wrap(Iterations(init, l[2], step))), Int_(step), Int_(init)>>]
intforprep(init, lim, step) ==
  IF step = 0 THEN Wrong ELSE Counted(init, forlimit(init, lim, step), step)
\* OP_FORLOOP: whether the loop goes on, and its registers.
CountDown(regs, count) ==
  [on |-> count > 0,
   regs |-> IF count = 0 THEN regs
            ELSE <<Int_(Wrap(count - 1)), regs[2], Int_(Wrap(regs[3][2] + regs[2][2]))>>]
=============================================================================
