------------------------------- MODULE LauFor -------------------------------
(***************************************************************************)
(* One numerical 'for' over integers, executed by OP_FORPREP and           *)
(* OP_FORLOOP (lvm.c), from any initial value, limit and step.             *)
(***************************************************************************)
EXTENDS LauInteger

CONSTANT Limits      \* numbers that limits convert to, and None for a limit that is not one

IsFraction(f) ==
  /\ IsFlt(f) /\ f[2] \in Int /\ f[3] \in Nat
  /\ f[3] = 0 => f[2] \in {-1, 0, 1} /\ f = <<"flt", f[2], 0>>
  /\ f[3] = 1 => f = <<"flt", f[2], 1>>
  /\ f[3] > 1 => f[2] % f[3] # 0
Integer == MININT..MAXINT
ASSUME LimitsAreNumbers ==
  \A l \in Limits : l = None \/ (IsInt(l) /\ l[2] \in Integer) \/ IsFraction(l)

VARIABLES init, limit, step,   \* the operands
          pc,                  \* "prep", "running", or how it ended: "error", "skipped", "ended"
          regs,                \* the registers, from OP_FORPREP on
          done                 \* how often the body has been entered
loopvars == <<init, limit, step, pc, regs, done>>

LoopInit ==
  /\ init \in Integer /\ limit \in Limits /\ step \in Integer
  /\ pc = "prep" /\ regs = Err /\ done = 0

ForPrep ==
  /\ pc = "prep"
  /\ \E p \in {intforprep(init, limit, step)} :
       /\ regs' = p.regs
       /\ pc' = IF p.regs = Err THEN "error" ELSE IF p.skip THEN "skipped" ELSE "running"
       /\ done' = IF p.regs = Err \/ p.skip THEN 0 ELSE 1
  /\ UNCHANGED <<init, limit, step>>

ForLoop ==
  /\ pc = "running"
  /\ \E r \in {CountDown(regs, Unsigned(regs[1][2]))} :
       /\ regs' = r.regs
       /\ pc' = IF r.on THEN "running" ELSE "ended"
       /\ done' = IF r.on THEN done + 1 ELSE done
  /\ UNCHANGED <<init, limit, step>>

LoopNext == ForPrep \/ ForLoop
LoopSpec == LoopInit /\ [][LoopNext]_loopvars

-----------------------------------------------------------------------------
(* What a loop promises *)

\* Whether i has not passed the limit; NaN is taken for the least of all numbers.
AtMost(i, l) == IF IsInt(l) THEN i <= l[2] ELSE IF l[3] = 0 THEN l[2] > 0 ELSE i * l[3] <= l[2]
AtLeast(i, l) == IF IsInt(l) THEN i >= l[2] ELSE IF l[3] = 0 THEN l[2] <= 0 ELSE i * l[3] >= l[2]
Reaches(i, l, c) == IF c > 0 THEN AtMost(i, l) ELSE AtLeast(i, l)
InLimit(i) == Reaches(i, limit, step)
Index == regs[3][2]

\* A 'for' over integers runs for exactly the integers init, init + step, ...
\* up to its limit, be it a float, infinite or at the end of the range, and
\* never wraps around; the limit must be a number and the step not zero
\* (forlimit, forprep, OP_FORLOOP).
LoopsExactly ==
  /\ pc = "error" => step = 0 \/ limit = None
  /\ pc \in {"skipped", "running", "ended"} => step # 0 /\ limit # None
  /\ pc = "skipped" => ~InLimit(init)
  /\ pc \in {"running", "ended"} =>
       done > 0 /\ Index = init + (done - 1) * step /\ Index \in Integer /\ InLimit(Index)
  /\ pc = "ended" => Index + step \notin Integer \/ ~InLimit(Index + step)

(* The inductive invariant: the counter says how many steps fit between the
   index and the integer that the limit has been clipped to. *)
Clip == forlimit(init, limit, step)
Left == Unsigned(regs[1][2])
UpTo(i, n, c) == IF c > 0 THEN i <= n ELSE i >= n
Toward(i) == UpTo(i, Clip[2], step)
Operands ==
  /\ init \in Integer /\ limit \in Limits /\ step \in Integer
  /\ pc \in {"prep", "skipped", "error", "running", "ended"}
  /\ pc = "error" => step = 0 \/ limit = None
  /\ pc \in {"skipped", "running", "ended"} => step # 0 /\ Clip # Err
  /\ pc = "skipped" => Clip = None
Registers ==
  /\ Clip # None /\ done \in Nat \ {0}
  /\ regs[1][2] \in Integer /\ regs[2][2] = step /\ Index \in Integer
  /\ Index = init + (done - 1) * step
  /\ Toward(Index + Left * step) /\ ~Toward(Index + (Left + 1) * step)
LoopInv ==
  /\ Operands
  /\ pc \in {"running", "ended"} => Registers
  /\ pc = "ended" => Left = 0
=============================================================================
