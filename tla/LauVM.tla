-------------------------------- MODULE LauVM --------------------------------
(***************************************************************************)
(* The interpreter (lvm.c), running compiled chunks in one thread.  The    *)
(* thread is a record L that holds the part of the heap it reaches:        *)
(*   stk     the stack; slot i is stk[i], a register is base + n           *)
(*   ci      the calls, each [func, pc, cl, want, nextra, setby, top]      *)
(*   top     L->top, 0 when an instruction has left it unspecified         *)
(*   tbc     the slots of the pending to-be-closed variables               *)
(*   heap    tables, functions from keys to values                         *)
(*   clos    Lau closures; cells: upvalues, open (in a slot) or closed     *)
(*   out     what the chunk did that its host can see                      *)
(* Operators named as C functions take L and return the new one.           *)
(***************************************************************************)
EXTENDS LauDebug

CONSTANTS Sources,          \* the chunks that may run, in a sequence: [toks |-> tokens, ...]
          Compile(_)        \* the compiler: from tokens to [p |-> prototype, err |-> message]

VARIABLES prog,     \* the chunk that runs, with its prototype
          L

\* TLC expands what a definition calls, over and over; not what Unfold is given.
Unfold(F(_), x) == F(x)

\* What a fresh slot holds: no correct code reads it.
Junk == <<"junk">>
Table(i) == <<"tab", i>>
Closure(i) == <<"fun", i>>
Native(name) == <<"nat", name>>
Closable(i) == <<"clo", i>>     \* an object of the host with '__close'
IsFalse(v) == v \in {Nil, False}

(***************************************************************************)
(* Slots, instructions and constants of the running function               *)
(***************************************************************************)
RECURSIVE ProtoAt(_, _)
ProtoAt(p, path) == IF path = <<>> THEN p ELSE ProtoAt(p.p[path[1]], Tail(path))
ci(s) == Last(s.ci)
base(s) == ci(s).func + 1
cl(s) == s.clos[ci(s).cl]
P(s) == ProtoAt(prog.p, cl(s).p)
I(s) == P(s).code[ci(s).pc + 1]
NextI(s) == P(s).code[ci(s).pc + 2]
K(s, n) == P(s).k[n + 1]
R(s, n) == s.stk[base(s) + n]
RKC(s) == IF I(s).k = 1 THEN K(s, I(s).C) ELSE R(s, I(s).C)

Padded(seq, n, v) == IF n <= Len(seq) THEN seq ELSE seq \o [i \in 1..(n - Len(seq)) |-> v]
Filled(stk, n) == Padded(stk, n, Junk)
SetSlot(s, slot, v) == [s EXCEPT !.stk = [Filled(@, slot) EXCEPT ![slot] = v]]
SetR(s, n, v) == SetSlot(s, base(s) + n, v)
SetRA(s, v) == SetR(s, I(s).A, v)
\* The registers that instruction i leaves with new values when it goes on to pos.
NoResult == {"SETUPVAL", "SETTABUP", "SETTABLE", "SETI", "SETFIELD", "SETLIST", "TEST", "EQ", "LT",
             "LE", "EQK", "EQI", "LTI", "LEI", "GTI", "GEI", "JMP", "TBC", "CLOSE", "VARARGPREP",
             "MMBIN", "MMBINI", "MMBINK", "TFORLOOP"}
Sets(s, i, pos) ==
  CASE i.op = "LOADNIL" -> i.A..(i.A + i.B)
    [] i.op = "SELF" -> {i.A, i.A + 1}
    [] i.op \in {"FORPREP", "FORLOOP"} -> i.A..(i.A + 2)
    [] i.op = "TFORPREP" -> {i.A + 2, i.A + 3}
    [] i.op = "TFORCALL" -> (i.A + 3)..(P(s).maxstacksize - 1)
    [] i.op = "CALL" -> i.A..(P(s).maxstacksize - 1)
    [] i.op = "TESTSET" -> IF pos = ci(s).pc + 2 THEN {} ELSE {i.A}
    [] i.op \in NoResult \/ (i.op = "ADDI" /\ pos = ci(s).pc + 1) -> {}
    [] OTHER -> {i.A}
\* Every instruction ends here; 'setby' is a ghost: who set each register last.
Goto(s, pos) ==
  [s EXCEPT !.ci[Len(s.ci)] =
     [@ EXCEPT !.pc = pos,
               !.setby = [r \in DOMAIN @ |-> IF r \in Sets(s, I(s), pos) THEN ci(s).pc ELSE @[r]]]]
Skip(s, n) == [Goto(s, ci(s).pc + n) EXCEPT !.top = 0]
Seen(s, event) == [s EXCEPT !.out = Append(@, event)]

(***************************************************************************)
(* Upvalues and to-be-closed variables (lfunc.c)                           *)
(***************************************************************************)
getupval(s, c) == IF s.cells[c].open THEN s.stk[s.cells[c].slot] ELSE s.cells[c].v
setupval(s, c, v) ==
  IF s.cells[c].open THEN SetSlot(s, s.cells[c].slot, v) ELSE [s EXCEPT !.cells[c].v = v]
UpvalId(s, n) == cl(s).up[n + 1]
\* findupval: the open upvalue of a slot, made if there is none yet.
OpenAt(s, slot) == {c \in DOMAIN s.cells : s.cells[c].open /\ s.cells[c].slot = slot}
findupval(s, slot) ==
  IF OpenAt(s, slot) # {} THEN [s |-> s, id |-> Max(OpenAt(s, slot))]
  ELSE [s |-> [s EXCEPT !.cells = Append(@, [open |-> TRUE, slot |-> slot, v |-> Nil])],
        id |-> Len(s.cells) + 1]
closeupval(s, level) ==
  [s EXCEPT !.cells = [c \in DOMAIN @ |->
     IF @[c].open /\ @[c].slot >= level
     THEN [open |-> FALSE, slot |-> 0, v |-> s.stk[@[c].slot]] ELSE @[c]]]
Close(s, level) ==
  LET pending == SelectSeq(s.tbc, LAMBDA slot : slot >= level)
      Called(t, slot) == Seen(t, <<"close", t.stk[slot]>>)
  IN [FoldLeft(Called, closeupval(s, level), Reverse(pending))
        EXCEPT !.tbc = SelectSeq(@, LAMBDA slot : slot < level)]
\* An error ends the chunk, closing what it left open (lauD_closeprotected); 'what' is to blame.
Raise(s, what) == [Close(s, 1) EXCEPT !.status = "error", !.out = Append(@, <<"error", what>>)]
Unnamed == <<"none">>
\* What the message of an error calls it: lauG_typeerror, lauG_callerror, checkclosemth.
ErrorName(s, what) ==
  LET closing == lauF_getlocalname(P(s), what[2] - ci(s).func, ci(s).pc) IN
  CASE what = Unnamed -> ""
    [] what[1] = "called" -> funcnamefromcode(P(s), ci(s).pc).name
    [] what[1] = "closing" -> IF closing = "" THEN "(temporary)" ELSE closing
    [] what[1] \in {"register", "upvalue"} -> varinfo(P(s), ci(s).pc, what).name
newtbcupval(s, slot) ==
  IF IsFalse(s.stk[slot]) THEN s
  ELSE IF s.stk[slot][1] # "clo" THEN Raise(s, <<"closing", slot>>)
  ELSE [s EXCEPT !.tbc = Append(@, slot)]
\* pushclosure: 'ups' describes the upvalues, in order.
pushclosure(s, path, ups) ==
  LET Capture(a, u) ==
        LET f == findupval(a.s, base(s) + u.idx) IN
        IF u.instack THEN [s |-> f.s, up |-> Append(a.up, f.id)]
        ELSE [a EXCEPT !.up = Append(@, UpvalId(s, u.idx))]
      r == FoldLeft(Capture, [s |-> s, up |-> <<>>], ups)
  IN [r.s EXCEPT !.clos = Append(@, [p |-> path, up |-> r.up])]

(***************************************************************************)
(* Operations on values                                                    *)
(***************************************************************************)
tostringbuff(v) ==
  IF IsStr(v) THEN v[2] ELSE IF IsInt(v) THEN ToString(v[2])
  ELSE IF v[3] = 1 THEN ToString(v[2]) \o ".0" ELSE ToString(v[2]) \o "/" \o ToString(v[3])
concat(a, b) ==
  IF (IsStr(a) \/ IsNumber(a)) /\ (IsStr(b) \/ IsNumber(b))
  THEN Str(tostringbuff(a) \o tostringbuff(b)) ELSE None

\* op_arith, op_arithK and their float versions; None is an error.
op_arith(op, v1, v2) ==
  IF op \notin {"DIV", "POW"} /\ IsInt(v1) /\ IsInt(v2) THEN intarith(op, v1[2], v2[2])
  ELSE IF IsNumber(v1) /\ IsNumber(v2) THEN numarith(op, tonumber(v1), tonumber(v2))
  ELSE IF IsNumber(v1) /\ tonumber(v2) # None
  THEN Integral(numarith(op, tonumber(v1), tonumber(v2)))
  ELSE concat(v1, v2)
\* op_arithI: None when the operation is left to a metamethod.
op_arithI(v, imm) ==
  CASE IsInt(v) -> intarith("ADD", v[2], imm)
    [] IsFlt(v) -> numadd(v, cast_num(imm))
    [] IsStr(v) -> concat(v, Int_(imm))
    [] OTHER -> None

\* Strings are ordered by their place here (l_strcmp).
Collation == <<"", "1", "2", "3", "a", "b", "c">>
l_strcmp(a, b) ==
  LET Place(x) == CHOOSE i \in DOMAIN Collation : Collation[i] = x IN Place(a) - Place(b)
Comparable(a, b) == (IsNumber(a) /\ IsNumber(b)) \/ (IsStr(a) /\ IsStr(b))
lessthan(a, b) == IF IsNumber(a) THEN LTnum(a, b) ELSE l_strcmp(a[2], b[2]) < 0
lessequal(a, b) == IF IsNumber(a) THEN LEnum(a, b) ELSE l_strcmp(a[2], b[2]) <= 0

\* sqrt: the float nearest to the root of n/d, an integer m of Mantissa bits over 2^k.
Scale(n, d) == Max({k \in 0..Mantissa : n < 4 ^ (Mantissa - k) * d})
Root(n, d) ==
  LET k == Scale(n, d)
      Nearest(m) == (2 * m - 1) ^ 2 * d <= 4 ^ (k + 1) * n /\ 4 ^ (k + 1) * n < (2 * m + 1) ^ 2 * d
  IN IF n = 0 THEN Zero ELSE Flt(CHOOSE m \in 1..(2 ^ Mantissa) : Nearest(m), 2 ^ k)
sqrt(f) == IF f[3] = 0 THEN f ELSE Root(f[2], f[3])
\* objlen: the length of a string, a border of a table, the square root of a number.
objlen(s, v) ==
  CASE v[1] = "tab" ->
         Int_(CHOOSE n \in 0..Cardinality(DOMAIN s.heap[v[2]]) :
                /\ Int_(n + 1) \notin DOMAIN s.heap[v[2]]
                /\ n = 0 \/ Int_(n) \in DOMAIN s.heap[v[2]])
    [] IsStr(v) -> Int_(Len(v[2]))
    [] IsNumber(v) /\ tonumberns(v)[2] >= 0 -> Integral(sqrt(tonumberns(v)))
    [] OTHER -> None
\* The error of a negative number names no value.
LengthBlames(v, operand) == IF IsNumber(v) THEN Unnamed ELSE operand

\* Table accesses; no table of a chunk has a metatable.
Key(k) == IF IsFlt(k) /\ IsIntegral(k) THEN Int_(k[2]) ELSE k
Get(s, t, k) ==
  IF Key(k) \in DOMAIN s.heap[t[2]] THEN s.heap[t[2]][Key(k)] ELSE Nil
IsTable(v) == v[1] = "tab"
finishget(s, operand, t, k) ==
  IF IsTable(t) THEN SetRA(s, Get(s, t, k)) ELSE Raise(s, operand)
finishset(s, operand, t, k, v) ==
  LET h == s.heap[t[2]]
      keys == IF v = Nil THEN DOMAIN h \ {Key(k)} ELSE DOMAIN h \cup {Key(k)}
  IN IF ~IsTable(t) THEN Raise(s, operand)
     ELSE IF k = Nil \/ k = NaN THEN Raise(s, Unnamed)
     ELSE [s EXCEPT !.heap[t[2]] = [x \in keys |-> IF x = Key(k) THEN v ELSE h[x]]]

(***************************************************************************)
(* Calls (ldo.c, ltm.c).  The functions of the host are external: 'out'    *)
(* shows its arguments, 'three' returns three values, 'iter' walks a list, *)
(* 'file' makes a closable object.                                         *)
(***************************************************************************)
Host(name, args, s) ==
  LET a == args \o <<Nil, Nil>>
      n == IF IsInt(a[2]) THEN Int_(a[2][2] + 1) ELSE Int_(1)
  IN CASE name = "out" -> [s |-> Seen(s, <<"out", args>>), res |-> args]
       [] name = "three" -> [s |-> s, res |-> <<Int_(1), Int_(2), Int_(3)>>]
       [] name = "iter" ->
            [s |-> s, res |-> IF Get(s, a[1], n) = Nil THEN <<Nil>> ELSE <<n, Get(s, a[1], n)>>]
       [] name = "file" -> [s |-> s, res |-> <<Closable(a[1][2])>>]

\* moveresults: the results in their place, and the caller's registers after them.
moveresults(s, res, vals, want) ==
  LET n == IF want = MULTRET THEN Len(vals) ELSE want
      moved == [i \in 1..n |-> IF i <= Len(vals) THEN vals[i] ELSE Nil]
      stk == SubSeq(s.stk, 1, res - 1) \o moved
  IN [s EXCEPT !.stk = IF s.ci = <<>> THEN stk ELSE Filled(stk, ci(s).top - 1),
               !.top = res + n, !.out = IF s.ci = <<>> THEN Append(@, <<"return", moved>>) ELSE @,
               !.status = IF s.ci = <<>> THEN "done" ELSE @]
poscall(s, vals) ==
  moveresults([s EXCEPT !.ci = Front(@)], ci(s).func, vals, ci(s).want)
NoneYet(s, id) ==
  [r \in 0..(ProtoAt(prog.p, s.clos[id].p).maxstacksize - 1) |-> -1]
\* A new frame at slot 'func', with 'args' completed to the parameters.
Frame(s, func, id, want) ==
  [func |-> func, pc |-> 0, cl |-> id, want |-> want, nextra |-> 0, setby |-> NoneYet(s, id),
   top |-> func + 1 + ProtoAt(prog.p, s.clos[id].p).maxstacksize]
Args(s, id, args) == Padded(args, ProtoAt(prog.p, s.clos[id].p).numparams, Nil)
Enter(s, calls, func, id, want, args) ==
  LET f == Frame(s, func, id, want)
      given == Args(s, id, args)
  IN [s EXCEPT !.ci = Append(calls, f), !.top = func + 1 + Len(given),
               !.stk = Filled(Append(SubSeq(@, 1, func - 1), Closure(id)) \o given, f.top - 1)]
precall(s, func, want) ==
  LET f == s.stk[func]
      args == SubSeq(s.stk, func + 1, s.top - 1)
      r == Host(f[2], args, s)
  IN CASE f[1] = "fun" -> Enter(s, s.ci, func, f[2], want, args)
       [] f[1] = "nat" -> moveresults(r.s, func, r.res, want)
       [] OTHER -> Raise(L, <<"called", func>>)
\* pretailcall: the callee takes the frame of its caller.
pretailcall(s, func, delta) ==
  LET f == s.stk[func]
      args == SubSeq(s.stk, func + 1, s.top - 1)
      r == Host(f[2], args, s)
      Back(t) == [t EXCEPT !.ci[Len(t.ci)].func = @ - delta]
  IN CASE f[1] = "fun" -> Enter(s, Front(s.ci), ci(s).func - delta, f[2], ci(s).want, args)
       [] f[1] = "nat" -> poscall(Back(r.s), r.res)
       [] OTHER -> Raise(L, <<"called", func>>)
\* adjustvarargs: the function moves to after its extra arguments.
adjustvarargs(s) ==
  LET n == P(s).numparams
      func == ci(s).func
      args == SubSeq(s.stk, func + 1, s.top - 1)
      moved == SubSeq(s.stk, 1, func) \o [i \in DOMAIN args |-> IF i <= n THEN Nil ELSE args[i]]
                 \o <<s.stk[func]>> \o SubSeq(args, 1, n) \o <<Nil>>
      top == ci(s).top + Len(args) + 1
  IN [s EXCEPT !.stk = Filled(moved, top - 1),
               !.ci[Len(s.ci)] = [@ EXCEPT !.func = func + Len(args) + 1, !.top = top,
                                           !.nextra = Len(args) - n]]

(***************************************************************************)
(* Instructions: an action for each group of cases of lauV_execute.  Only  *)
(* instructions that expect it find L->top: the others invalidate it.      *)
(***************************************************************************)
At_(ops) == L.status = "run" /\ I(L).op \in ops
A == I(L).A
B == I(L).B
C == I(L).C
RA == R(L, A)
RB == R(L, B)
RC == R(L, C)
Step(s) == L' = (IF s.status = "run" THEN Skip(s, 1) ELSE s) /\ UNCHANGED prog
StepJump(s, pos) == L' = [Goto(s, pos) EXCEPT !.top = 0] /\ UNCHANGED prog
ValueOr(s, v, operand) == IF v = None THEN Raise(s, operand) ELSE SetRA(s, v)

Move == At_({"MOVE"}) /\ Step(SetRA(L, RB))
Load ==
  \/ At_({"LOADI"}) /\ Step(SetRA(L, Int_(B)))
  \/ At_({"LOADF"}) /\ Step(SetRA(L, cast_num(B)))
  \/ At_({"LOADK"}) /\ Step(SetRA(L, K(L, B)))
  \/ At_({"LOADKX"}) /\ StepJump(SetRA(L, K(L, NextI(L).A)), ci(L).pc + 2)
LoadBoolean ==
  \/ At_({"LOADFALSE"}) /\ Step(SetRA(L, False))
  \/ At_({"LFALSESKIP"}) /\ StepJump(SetRA(L, False), ci(L).pc + 2)
  \/ At_({"LOADTRUE"}) /\ Step(SetRA(L, True))
LoadNil ==
  At_({"LOADNIL"}) /\ Step(FoldLeft(LAMBDA s, i : SetR(s, A + i - 1, Nil), L,
                                   [i \in 1..(B + 1) |-> i]))
Upvalue ==
  \/ At_({"GETUPVAL"}) /\ Step(SetRA(L, getupval(L, UpvalId(L, B))))
  \/ At_({"SETUPVAL"}) /\ Step(setupval(L, UpvalId(L, B), RA))
GetTable ==
  \/ At_({"GETTABUP"}) /\ Step(finishget(L, <<"upvalue", B>>, getupval(L, UpvalId(L, B)), K(L, C)))
  \/ At_({"GETTABLE"}) /\ Step(finishget(L, <<"register", B>>, RB, RC))
  \/ At_({"GETI"}) /\ Step(finishget(L, <<"register", B>>, RB, Int_(C)))
  \/ At_({"GETFIELD"}) /\ Step(finishget(L, <<"register", B>>, RB, K(L, C)))
  \/ At_({"SELF"}) /\ Step(finishget(SetR(L, A + 1, RB), <<"register", B>>, RB, K(L, C)))
SetTable ==
  \/ At_({"SETTABUP"}) /\ Step(finishset(L, <<"upvalue", A>>, getupval(L, UpvalId(L, A)), K(L, B), RKC(L)))
  \/ At_({"SETTABLE"}) /\ Step(finishset(L, <<"register", A>>, RA, RB, RKC(L)))
  \/ At_({"SETI"}) /\ Step(finishset(L, <<"register", A>>, RA, Int_(B), RKC(L)))
  \/ At_({"SETFIELD"}) /\ Step(finishset(L, <<"register", A>>, RA, K(L, B), RKC(L)))
NewTable ==
  /\ At_({"NEWTABLE"})
  /\ StepJump(SetRA([L EXCEPT !.heap = Append(@, <<>>)], Table(Len(L.heap) + 1)), ci(L).pc + 2)
\* After an arithmetic instruction that has its result, its MMBIN is skipped.
Done(s, v) == IF v = None THEN Raise(s, Unnamed) ELSE SetRA(s, v)
StepOver(s) == L' = (IF s.status = "run" THEN Skip(s, 2) ELSE s) /\ UNCHANGED prog
Arithmetic ==
  \/ At_({"ADDI"}) /\ op_arithI(RB, C) # None /\ StepOver(SetRA(L, op_arithI(RB, C)))
  \/ At_({"ADDI"}) /\ op_arithI(RB, C) = None /\ Step(L)
  \/ \E op \in Arith :
       \/ At_({op}) /\ StepOver(Done(L, op_arith(op, RB, RC)))
       \/ At_({KOp(op)}) /\ StepOver(Done(L, op_arith(op, RB, K(L, C))))
Metamethod == At_({"MMBIN", "MMBINI", "MMBINK"}) /\ Step(Raise(L, <<"register", A>>))
Unary ==
  \/ /\ At_({"UNM"})
     /\ Step(ValueOr(L, CASE IsInt(RB) -> Int_(Wrap(-RB[2]))
                          [] IsFlt(RB) -> Flt(-RB[2], RB[3])
                          [] OTHER -> None, <<"register", B>>))
  \/ At_({"NOT"}) /\ Step(SetRA(L, IF IsFalse(RB) THEN True ELSE False))
  \/ At_({"LEN"}) /\ Step(ValueOr(L, objlen(L, RB), LengthBlames(RB, <<"register", B>>)))
CloseVariables == At_({"CLOSE"}) /\ Step(Close(L, base(L) + A))
Tbc == At_({"TBC"}) /\ Step(newtbcupval(L, base(L) + A))

\* Jumps are relative to the next instruction.
Jmp == At_({"JMP"}) /\ StepJump(L, ci(L).pc + 1 + A)
docondjump(s, holds) ==
  StepJump(s, IF holds # (I(s).k = 1) THEN ci(s).pc + 2 ELSE ci(s).pc + 2 + NextI(s).A)
Equal ==
  \/ At_({"EQ"}) /\ docondjump(L, rawequalobj(RA, RB))
  \/ At_({"EQK"}) /\ docondjump(L, rawequalobj(RA, K(L, B)))
  \/ At_({"EQI"}) /\ docondjump(L, IsNumber(RA) /\ rawequalobj(RA, Int_(B)))
Order ==
  \/ At_({"LT", "LE"}) /\ ~Comparable(RA, RB) /\ Step(Raise(L, Unnamed))
  \/ At_({"LT"}) /\ Comparable(RA, RB) /\ docondjump(L, lessthan(RA, RB))
  \/ At_({"LE"}) /\ Comparable(RA, RB) /\ docondjump(L, lessequal(RA, RB))
OrderI ==
  \/ At_({"LTI", "LEI", "GTI", "GEI"}) /\ ~IsNumber(RA) /\ Step(Raise(L, Unnamed))
  \/ At_({"LTI"}) /\ IsNumber(RA) /\ docondjump(L, LTnum(RA, Int_(B)))
  \/ At_({"LEI"}) /\ IsNumber(RA) /\ docondjump(L, LEnum(RA, Int_(B)))
  \/ At_({"GTI"}) /\ IsNumber(RA) /\ docondjump(L, LTnum(Int_(B), RA))
  \/ At_({"GEI"}) /\ IsNumber(RA) /\ docondjump(L, LEnum(Int_(B), RA))
Test == At_({"TEST"}) /\ docondjump(L, ~IsFalse(RA))
TestSet ==
  /\ At_({"TESTSET"})
  /\ IF IsFalse(RB) = (I(L).k = 1) THEN StepJump(L, ci(L).pc + 2)
     ELSE StepJump(SetRA(L, RB), ci(L).pc + 2 + NextI(L).A)

\* B arguments and the function, or up to the top; the pc is saved for the return.
WithTop(s) == IF I(s).B # 0 THEN [s EXCEPT !.top = base(s) + I(s).A + I(s).B] ELSE s
Call ==
  /\ At_({"CALL"})
  /\ L' = precall(Goto(WithTop(L), ci(L).pc + 1), base(L) + A, C - 1)
  /\ UNCHANGED prog
Delta(s) == IF I(s).C # 0 THEN ci(s).nextra + I(s).C ELSE 0
TailCall ==
  /\ At_({"TAILCALL"})
  /\ LET s == WithTop(L) IN
     L' = pretailcall(IF I(L).k = 1 THEN closeupval(s, base(L)) ELSE s, base(L) + A, Delta(L))
  /\ UNCHANGED prog
Results(s) ==
  LET first == base(s) + I(s).A IN
  SubSeq(s.stk, first, IF I(s).B = 0 THEN s.top - 1 ELSE first + I(s).B - 2)
Return ==
  /\ At_({"RETURN"})
  /\ LET s == IF I(L).k = 1 THEN Close(L, base(L)) ELSE L
         t == [s EXCEPT !.ci[Len(s.ci)].func = @ - Delta(s)]
     IN L' = poscall(t, Results(L))
  /\ UNCHANGED prog
ReturnFew ==
  /\ \/ At_({"RETURN0"}) /\ L' = poscall(L, <<>>)
     \/ At_({"RETURN1"}) /\ L' = poscall(L, <<RA>>)
  /\ UNCHANGED prog

SetRs(s, n, vals) ==
  FoldLeft(LAMBDA t, i : SetR(t, n + i - 1, vals[i]), s, [i \in DOMAIN vals |-> i])
ForPrep ==
  /\ At_({"FORPREP"})
  /\ \E r \in {forprep(RA, R(L, A + 1), R(L, A + 2))} :
     IF r.regs = Err THEN Step(Raise(L, Unnamed))
     ELSE StepJump(IF r.skip THEN L ELSE SetRs(L, A, r.regs),
                   IF r.skip THEN ci(L).pc + B + 2 ELSE ci(L).pc + 1)
ForLoop ==
  /\ At_({"FORLOOP"})
  /\ \E r \in {forloop(<<RA, R(L, A + 1), R(L, A + 2)>>)} :
     StepJump(SetRs(L, A, r.regs), IF r.on THEN ci(L).pc + 1 - B ELSE ci(L).pc + 1)
TForPrep ==
  /\ At_({"TFORPREP"})
  /\ LET s == newtbcupval(SetRs(L, A + 2, <<R(L, A + 3), R(L, A + 2)>>), base(L) + A + 2) IN
     IF s.status = "run" THEN StepJump(s, ci(L).pc + 1 + B) ELSE Step(s)
TForCall ==
  /\ At_({"TFORCALL"})
  /\ LET s == SetRs(L, A + 3, <<RA, R(L, A + 1), R(L, A + 3)>>) IN
     L' = precall([Goto(s, ci(L).pc + 1) EXCEPT !.top = base(L) + A + 6], base(L) + A + 3, C)
  /\ UNCHANGED prog
TForLoop ==
  At_({"TFORLOOP"}) /\ StepJump(L, IF R(L, A + 3) # Nil THEN ci(L).pc + 1 - B ELSE ci(L).pc + 1)
SetList ==
  /\ At_({"SETLIST"})
  /\ LET n == IF B = 0 THEN L.top - (base(L) + A) - 1 ELSE B
         first == C + IF I(L).k = 1 THEN NextI(L).A * (MAXARG_vC + 1) ELSE 0
         Store(s, i) == finishset(s, <<"register", A>>, RA, Int_(first + i), R(L, A + i))
     IN StepJump(FoldLeft(Store, L, [i \in 1..n |-> i]),
                 ci(L).pc + IF I(L).k = 1 THEN 2 ELSE 1)
MakeClosure ==
  /\ At_({"CLOSURE"})
  /\ LET s == pushclosure(L, Append(cl(L).p, B + 1), P(L).p[B + 1].ups) IN
     Step(SetRA(s, Closure(Len(s.clos))))
VarargPrep == At_({"VARARGPREP"}) /\ Step(adjustvarargs(L))

(***************************************************************************)
(* A chunk is loaded and called by its host; its upvalue is the globals.   *)
(***************************************************************************)
Globals == ("out" :> Native("out") @@ "three" :> Native("three") @@ "iter" :> Native("iter")
              @@ "file" :> Native("file"))
GlobalTable == [k \in {Str(n) : n \in DOMAIN Globals} |-> Globals[k[2]]]
Init ==
  /\ \E all \in {Sources} : \E i \in DOMAIN all :
       prog = [id |-> i] @@ Unfold(Compile, all[i].toks) @@ all[i]
  /\ LET s == [stk |-> <<Closure(1)>>, ci |-> <<>>, top |-> 2, tbc |-> <<>>,
               heap |-> <<GlobalTable>>, clos |-> <<[p |-> <<>>, up |-> <<1>>]>>,
               cells |-> <<[open |-> FALSE, slot |-> 0, v |-> Table(1)]>>,
               out |-> <<>>, status |-> "run"]
     IN L = IF prog.err # "" THEN [s EXCEPT !.status = "rejected"]
            ELSE precall(s, 1, MULTRET)
\* A chunk that has ended: only a running one that has no step is stuck.
Stopped == L.status # "run" /\ UNCHANGED <<prog, L>>
Next ==
  \/ Move \/ Load \/ LoadBoolean \/ LoadNil \/ Upvalue \/ GetTable \/ SetTable \/ NewTable
  \/ Arithmetic \/ Metamethod \/ Unary \/ CloseVariables \/ Tbc \/ Jmp \/ Equal \/ Order
  \/ OrderI \/ Test \/ TestSet \/ Call \/ TailCall \/ Return \/ ReturnFew \/ ForPrep \/ ForLoop
  \/ TForPrep \/ TForCall \/ TForLoop \/ SetList \/ MakeClosure \/ VarargPrep
  \/ Stopped
vars == <<prog, L>>
Spec == Init /\ [][Next]_vars
=============================================================================
