------------------------------ MODULE LauCode ------------------------------
(***************************************************************************)
(* The code generator (lcode.c).  A FuncState is a record f; an expdesc is *)
(* a record e.  Most functions of lcode.c change both, and some of them a  *)
(* second expression: they are operators on a context                      *)
(*      c = [f |-> FuncState, e |-> expdesc, d |-> second expdesc].        *)
(* A position pc counts from 0, as in the source.  An error sets f.err.    *)
(***************************************************************************)
EXTENDS LauNumber, LauOpcodes, SequencesExt, FiniteSetsExt

NO_JUMP == -1

CONSTANTS MaxIwthAbs,    \* MAXIWTHABS: instructions between absolute lines
          LimLineDiff    \* LIMLINEDIFF

ABSLINEINFO == "abs"

\* An expression with no jumps; fields that its kind does not use stay as here.
Exp(k, i) == [k |-> k, val |-> Nil, info |-> i, vidx |-> 0, tab |-> 0, idx |-> 0,
              keystr |-> -1, t |-> NO_JUMP, f |-> NO_JUMP]
Const(k, v) == [Exp(k, 0) EXCEPT !.val = v]
Ctx(f, e) == [f |-> f, e |-> e, d |-> Exp("VVOID", 0)]
Ctx2(f, e, d) == [f |-> f, e |-> e, d |-> d]
swapexps(c) == [f |-> c.f, e |-> c.d, d |-> c.e]

hasjumps(e) == e.t # e.f
Fault(f, msg) == IF f.err = "" THEN [f EXCEPT !.err = msg] ELSE f

pc(f) == Len(f.code)
At(f, i) == f.code[i + 1]
Put(f, i, ins) == [f EXCEPT !.code[i + 1] = ins]
getinstruction(c) == At(c.f, c.e.info)

(***************************************************************************)
(* Registers                                                               *)
(***************************************************************************)
varinreg(v) == v.kind # "RDKCTC"
reglevel(f, nvar) ==
  LET inreg == {i \in 1..nvar : varinreg(f.vars[i])}
  IN IF inreg = {} THEN 0 ELSE f.vars[Max(inreg)].ridx + 1
nvarstack(f) == reglevel(f, f.nactvar)

checkstack(f, n) ==
  LET new == f.freereg + n IN
  IF new <= f.maxstacksize THEN f
  ELSE IF new > MAXARG_A THEN Fault(f, "too many registers")
  ELSE [f EXCEPT !.maxstacksize = new]
reserveregs(f, n) == [checkstack(f, n) EXCEPT !.freereg = @ + n]

\* 'balanced' is the assertion of freereg: registers are freed in stack order.
freereg(f, reg) ==
  IF reg < nvarstack(f) THEN f
  ELSE [f EXCEPT !.freereg = @ - 1, !.balanced = @ /\ reg = f.freereg - 1]
freeregs_Unordered(f, r1, r2) == freereg(freereg(f, r1), r2)
freeregs(f, r1, r2) ==
  IF r1 > r2 THEN freereg(freereg(f, r1), r2) ELSE freereg(freereg(f, r2), r1)
RegOf(e) == IF e.k = "VNONRELOC" THEN e.info ELSE -1
freeexp(f, e) == IF e.k = "VNONRELOC" THEN freereg(f, e.info) ELSE f
freeexps(f, e1, e2) == freeregs(f, RegOf(e1), RegOf(e2))

(***************************************************************************)
(* Emitting instructions and their lines.  f.lines is a ghost: the line    *)
(* last asked for each instruction.                                        *)
(***************************************************************************)
savelineinfo(f, line) ==
  LET dif == line - f.previousline
      absolute == \/ dif >= LimLineDiff \/ -dif >= LimLineDiff
                  \/ f.iwthabs >= MaxIwthAbs
  IN [f EXCEPT
        !.lineinfo = Append(@, IF absolute THEN <<ABSLINEINFO>> ELSE <<"rel", dif>>),
        !.abslineinfo = IF absolute THEN Append(@, [pc |-> Len(f.lineinfo), line |-> line]) ELSE @,
        !.iwthabs = IF absolute THEN 1 ELSE @ + 1,
        !.previousline = line,
        !.lines = Append(@, line)]
removelastlineinfo_Ahead(f) ==
  [f EXCEPT !.lineinfo = Front(@), !.lines = Front(@), !.iwthabs = @ - 1]
removelastlineinfo(f) ==
  LET last == Last(f.lineinfo)
      g == [f EXCEPT !.lineinfo = Front(@), !.lines = Front(@)]
  IN IF last[1] = "rel"
     THEN [g EXCEPT !.previousline = @ - last[2], !.iwthabs = @ - 1]
     ELSE [g EXCEPT !.abslineinfo = Front(@), !.iwthabs = MaxIwthAbs + 1]
removelastinstruction(f) == [removelastlineinfo(f) EXCEPT !.code = Front(@)]
fixline(f, line) == savelineinfo(removelastlineinfo(f), line)

code(f, ins) == savelineinfo([f EXCEPT !.code = Append(@, ins)], f.lastline)
codeABCk(f, o, a, b, c, k) == code(f, Ins(o, a, b, c, k))
codeABC(f, o, a, b, c) == codeABCk(f, o, a, b, c, 0)
codeABx(f, o, a, bx) == code(f, Ins(o, a, bx, 0, 0))
codek(f, reg, k) ==
  IF k <= MAXARG_Bx THEN codeABx(f, "LOADK", reg, k)
  ELSE code(codeABx(f, "LOADKX", reg, 0), Ins("EXTRAARG", k, 0, 0, 0))

\* The previous instruction, unless a jump may land between it and the next one.
previousinstruction(f) ==
  IF pc(f) > f.lasttarget THEN At(f, pc(f) - 1) ELSE Ins("none", 0, 0, 0, 0)

nil(f, from, n) ==
  LET prev == previousinstruction(f)
      l == from + n - 1
      pl == prev.A + prev.B
      lo == Min({from, prev.A})
      hi == Max({l, pl})
  IN IF /\ prev.op = "LOADNIL"
        /\ \/ prev.A <= from /\ from <= pl + 1
           \/ from <= prev.A /\ prev.A <= l + 1
     THEN Put(f, pc(f) - 1, [prev EXCEPT !.A = lo, !.B = hi - lo])
     ELSE codeABC(f, "LOADNIL", from, n - 1, 0)

ret(f, first, nret) ==
  LET op == IF nret = 0 THEN "RETURN0" ELSE IF nret = 1 THEN "RETURN1" ELSE "RETURN"
      g == IF nret + 1 > MAXARG_C THEN Fault(f, "too many returns") ELSE f
  IN codeABC(g, op, first, nret + 1, 0)

(***************************************************************************)
(* Jump lists: a pending jump holds the offset of the next one in its list *)
(***************************************************************************)
getjump(f, i) ==
  IF At(f, i).A = NO_JUMP THEN NO_JUMP ELSE i + 1 + At(f, i).A
fixjump(f, i, dest) ==
  LET g == [f EXCEPT !.code[i + 1].A = dest - (i + 1)]
  IN IF At(f, i).op = "JMP" THEN g ELSE Fault(g, "not a jump")

RECURSIVE LastJump(_, _)
LastJump(f, list) ==
  LET next == getjump(f, list) IN IF next = NO_JUMP THEN list ELSE LastJump(f, next)

\* lauK_concat: the list that is l1 followed by l2, and the code that links them.
ConcatCode(f, l1, l2) ==
  IF l1 = NO_JUMP \/ l2 = NO_JUMP THEN f ELSE fixjump(f, LastJump(f, l1), l2)
ConcatList(l1, l2) == IF l1 = NO_JUMP THEN l2 ELSE l1

jump(f) == code(f, Ins("JMP", NO_JUMP, 0, 0, 0))
condjump(f, o, a, b, c, k) == jump(codeABCk(f, o, a, b, c, k))
getlabel(f) == [f EXCEPT !.lasttarget = pc(f)]

getjumpcontrol(f, i) == IF i >= 1 /\ testTMode(At(f, i - 1).op) THEN i - 1 ELSE i

IsTestset(f, node) == At(f, getjumpcontrol(f, node)).op = "TESTSET"
patchtestreg(f, node, reg) ==
  LET i == getjumpcontrol(f, node)
      ins == At(f, i)
  IN IF ~IsTestset(f, node) THEN f
     ELSE IF reg # NO_REG /\ reg # ins.B THEN Put(f, i, [ins EXCEPT !.A = reg])
     ELSE Put(f, i, Ins("TEST", ins.B, 0, 0, ins.k))

RECURSIVE removevalues(_, _)
removevalues(f, list) ==
  IF list = NO_JUMP THEN f
  ELSE removevalues(patchtestreg(f, list, NO_REG), getjump(f, list))

RECURSIVE patchlistaux(_, _, _, _, _)
patchlistaux(f, list, vtarget, reg, dtarget) ==
  IF list = NO_JUMP THEN f
  ELSE patchlistaux(
         fixjump(patchtestreg(f, list, reg), list,
                 IF IsTestset(f, list) THEN vtarget ELSE dtarget),
         getjump(f, list), vtarget, reg, dtarget)

patchlist(f, list, target) == patchlistaux(f, list, target, NO_REG, target)
patchtohere(f, list) == patchlist(getlabel(f), list, pc(f))
jumpto(f, target) == patchlist(jump(f), pc(f), target)

RECURSIVE need_value(_, _)
need_value(f, list) ==
  list # NO_JUMP /\ (~IsTestset(f, list) \/ need_value(f, getjump(f, list)))

(***************************************************************************)
(* Constants                                                               *)
(***************************************************************************)
\* k2proto, addk: the constant keeps the index it has, or gets the next one.
KIndex(f, v) ==
  IF v \in Range(f.k) THEN (CHOOSE i \in DOMAIN f.k : f.k[i] = v) - 1 ELSE Len(f.k)
AddK(f, v) == IF v \in Range(f.k) THEN f ELSE [f EXCEPT !.k = Append(@, v)]

fitsC(i) == -OFFSET_sC <= i /\ i <= MAXARG_C - OFFSET_sC
fitsBx(i) == -OFFSET_sBx <= i /\ i <= MAXARG_Bx - OFFSET_sBx

\* lauK_int, lauK_float and the strings of discharge2reg: put a constant in reg.
LoadK(f, reg, v) == codek(AddK(f, v), reg, KIndex(f, v))
int(f, reg, i) ==
  IF fitsBx(i) THEN codeABx(f, "LOADI", reg, i) ELSE LoadK(f, reg, Int_(i))
float(f, reg, v) ==
  IF IsIntegral(v) /\ fitsBx(Trunc(v)) THEN codeABx(f, "LOADF", reg, Trunc(v))
  ELSE LoadK(f, reg, v)

tonumeral(e) == ~hasjumps(e) /\ e.k \in {"VKINT", "VKFLT"}

\* lauK_exp2const: the constant that e is, or None.
exp2const(e) ==
  IF hasjumps(e) THEN None
  ELSE CASE e.k = "VFALSE" -> False
         [] e.k = "VTRUE" -> True
         [] e.k = "VNIL" -> Nil
         [] e.k \in {"VKSTR", "VKINT", "VKFLT", "VCONST"} -> e.val
         [] OTHER -> None
const2exp(v, e) ==
  LET k == CASE v[1] = "int" -> "VKINT" [] v[1] = "flt" -> "VKFLT"
             [] v[1] = "str" -> "VKSTR" [] v = True -> "VTRUE"
             [] v = False -> "VFALSE" [] OTHER -> "VNIL"
  IN [e EXCEPT !.k = k, !.val = v]

str2K(c) ==
  [c EXCEPT !.f = AddK(c.f, c.e.val), !.e.info = KIndex(c.f, c.e.val), !.e.k = "VK"]

\* Whether lauK_exp2K would succeed, and the expression and constants it leaves.
KValue(f, e) ==
  IF e.k = "VK" THEN f.k[e.info + 1] ELSE exp2const(e)
IsK(f, e) ==
  /\ ~hasjumps(e)
  /\ e.k \in {"VTRUE", "VFALSE", "VNIL", "VKINT", "VKFLT", "VKSTR", "VK"}
  /\ KIndex(f, KValue(f, e)) <= MAXINDEXRK
exp2K(c) ==
  LET v == KValue(c.f, c.e) IN
  IF hasjumps(c.e) \/ v = None \/ c.e.k = "VCONST" THEN c
  ELSE IF IsK(c.f, c.e)
  THEN [c EXCEPT !.f = AddK(c.f, v), !.e.k = "VK", !.e.info = KIndex(c.f, v)]
  ELSE [c EXCEPT !.f = AddK(c.f, v)]

(***************************************************************************)
(* Where the value of an expression is                                     *)
(***************************************************************************)
setreturns(c, nresults) ==
  IF nresults + 1 > MAXARG_C THEN [c EXCEPT !.f = Fault(@, "too many multiple results")]
  ELSE [c EXCEPT !.f.code[c.e.info + 1].C = nresults + 1]
setoneret(c) ==
  IF c.e.k = "VCALL"
  THEN [c EXCEPT !.e.k = "VNONRELOC", !.e.info = getinstruction(c).A] ELSE c

\* The expression becomes the result of an instruction that can put it anywhere.
Relocatable(c, op, b, cc) ==
  [c EXCEPT !.f = codeABC(c.f, op, 0, b, cc), !.e.info = pc(c.f), !.e.k = "VRELOC"]

dischargevars(c) ==
  LET e == c.e
      Freed(g) == [c EXCEPT !.f = g]
  IN CASE e.k = "VCONST" -> [c EXCEPT !.e = const2exp(e.val, e)]
       [] e.k = "VLOCAL" -> [c EXCEPT !.e.k = "VNONRELOC"]
       [] e.k = "VUPVAL" -> Relocatable(c, "GETUPVAL", e.info, 0)
       [] e.k = "VINDEXUP" -> Relocatable(c, "GETTABUP", e.tab, e.idx)
       [] e.k = "VINDEXI" -> Relocatable(Freed(freereg(c.f, e.tab)), "GETI", e.tab, e.idx)
       [] e.k = "VINDEXSTR" -> Relocatable(Freed(freereg(c.f, e.tab)), "GETFIELD", e.tab, e.idx)
       [] e.k = "VINDEXED" ->
            Relocatable(Freed(freeregs(c.f, e.tab, e.idx)), "GETTABLE", e.tab, e.idx)
       [] OTHER -> setoneret(c)

Discharged(f, e, reg) ==
  CASE e.k = "VNIL" -> nil(f, reg, 1)
    [] e.k = "VFALSE" -> codeABC(f, "LOADFALSE", reg, 0, 0)
    [] e.k = "VTRUE" -> codeABC(f, "LOADTRUE", reg, 0, 0)
    [] e.k = "VKSTR" -> LoadK(f, reg, e.val)
    [] e.k = "VK" -> codek(f, reg, e.info)
    [] e.k = "VKFLT" -> float(f, reg, e.val)
    [] e.k = "VKINT" -> int(f, reg, e.val[2])
    [] e.k = "VRELOC" -> [f EXCEPT !.code[e.info + 1].A = reg]
    [] e.k = "VNONRELOC" /\ reg # e.info -> codeABC(f, "MOVE", reg, e.info, 0)
    [] OTHER -> f
discharge2reg(c0, reg) ==
  LET c == dischargevars(c0) IN
  IF c.e.k \in {"VJMP", "VVOID"} THEN c
  ELSE [c EXCEPT !.f = Discharged(c.f, c.e, reg), !.e.info = reg, !.e.k = "VNONRELOC"]
discharge2anyreg(c) ==
  IF c.e.k = "VNONRELOC" THEN c
  ELSE LET f == reserveregs(c.f, 1) IN discharge2reg([c EXCEPT !.f = f], f.freereg - 1)

code_loadbool(f, a, op) == codeABC(getlabel(f), op, a, 0, 0)

\* The jumps of an expression end at its value, or at one of two loads of a boolean.
ResolveJumps(f, e, reg) ==
  LET loads == need_value(f, e.t) \/ need_value(f, e.f)
      fj == IF e.k = "VJMP" THEN NO_JUMP ELSE pc(f)
      f1 == IF e.k = "VJMP" THEN f ELSE jump(f)
      p_f == pc(f1)
      f2 == code_loadbool(code_loadbool(f1, reg, "LFALSESKIP"), reg, "LOADTRUE")
      f3 == getlabel(IF loads THEN patchtohere(f2, fj) ELSE f)
      final == pc(f3)
      f4 == patchlistaux(f3, e.f, final, reg, IF loads THEN p_f ELSE NO_JUMP)
  IN patchlistaux(f4, e.t, final, reg, IF loads THEN p_f + 1 ELSE NO_JUMP)
exp2reg(c0, reg) ==
  LET c1 == discharge2reg(c0, reg)
      c == IF c1.e.k # "VJMP" THEN c1
           ELSE [c1 EXCEPT !.f = ConcatCode(@, c1.e.t, c1.e.info),
                           !.e.t = ConcatList(@, c1.e.info)]
      f == IF hasjumps(c.e) THEN ResolveJumps(c.f, c.e, reg) ELSE c.f
  IN Ctx2(f, Exp("VNONRELOC", reg), c.d)

exp2nextreg(c0) ==
  LET c == dischargevars(c0)
      f == reserveregs(freeexp(c.f, c.e), 1)
  IN exp2reg([c EXCEPT !.f = f], f.freereg - 1)
exp2anyreg(c0) ==
  LET c == dischargevars(c0) IN
  IF c.e.k = "VNONRELOC" /\ ~hasjumps(c.e) THEN c
  ELSE IF c.e.k = "VNONRELOC" /\ c.e.info >= nvarstack(c.f) THEN exp2reg(c, c.e.info)
  ELSE exp2nextreg(c)
exp2anyregup(c) == IF c.e.k # "VUPVAL" \/ hasjumps(c.e) THEN exp2anyreg(c) ELSE c
exp2val(c) == IF c.e.k = "VJMP" \/ hasjumps(c.e) THEN exp2anyreg(c) ELSE dischargevars(c)
exp2RK(c) == IF IsK(c.f, c.e) THEN exp2K(c) ELSE exp2anyreg(exp2K(c))
\* The same functions for the second expression.
d2anyreg(c) == swapexps(exp2anyreg(swapexps(c)))

(***************************************************************************)
(* Stores and indexed expressions                                          *)
(***************************************************************************)
codeABRK(f, o, a, b, ec) ==
  LET c == exp2RK(Ctx(f, ec)) IN
  Ctx(codeABCk(c.f, o, a, b, c.e.info, IF IsK(f, ec) THEN 1 ELSE 0), c.e)
storevar(f, var, ex) ==
  LET Stored(c) == freeexp(c.f, c.e)
      c1 == exp2anyreg(Ctx(f, ex))
  IN CASE var.k = "VLOCAL" -> exp2reg(Ctx(freeexp(f, ex), ex), var.info).f
       [] var.k = "VUPVAL" -> freeexp(codeABC(c1.f, "SETUPVAL", c1.e.info, var.info, 0), c1.e)
       [] var.k = "VINDEXUP" -> Stored(codeABRK(f, "SETTABUP", var.tab, var.idx, ex))
       [] var.k = "VINDEXI" -> Stored(codeABRK(f, "SETI", var.tab, var.idx, ex))
       [] var.k = "VINDEXSTR" -> Stored(codeABRK(f, "SETFIELD", var.tab, var.idx, ex))
       [] var.k = "VINDEXED" -> Stored(codeABRK(f, "SETTABLE", var.tab, var.idx, ex))
       [] OTHER -> Fault(f, "invalid variable")

\* lauK_self: 'e' is the receiver, 'd' the name of the method.
self(c0) ==
  LET c1 == exp2anyreg(c0)
      ereg == c1.e.info
      f1 == freeexp(c1.f, c1.e)
      base == f1.freereg
      c2 == Ctx2(reserveregs(f1, 2), Exp("VNONRELOC", base), c1.d)
      k == swapexps(exp2K(swapexps(c2)))
      r == d2anyreg(k)
  IN IF IsK(c2.f, c2.d)
     THEN [k EXCEPT !.f = codeABC(k.f, "SELF", base, ereg, k.d.info)]
     ELSE [r EXCEPT !.f = freeexp(codeABC(codeABC(r.f, "MOVE", base + 1, ereg, 0),
                                          "GETTABLE", base, ereg, r.d.info), r.d)]

isKstr(f, e) ==
  e.k = "VK" /\ ~hasjumps(e) /\ e.info <= MAXINDEXRK /\ f.k[e.info + 1][1] = "str"
isKint(e) == e.k = "VKINT" /\ ~hasjumps(e)
isCint(e) == isKint(e) /\ e.val[2] \in 0..MAXARG_C
isSCint(e) == isKint(e) /\ fitsC(e.val[2])
isSCnumber(e) ==
  tonumeral(e) /\ IsIntegral(e.val) /\ fitsC(Trunc(e.val))

\* lauK_indexed: 'e' becomes e[d].
indexed(c0) ==
  LET c1 == IF c0.d.k = "VKSTR" THEN swapexps(str2K(swapexps(c0))) ELSE c0
      keystr == IF c0.d.k = "VKSTR" THEN c1.d.info ELSE -1
      c == IF c1.e.k = "VUPVAL" /\ ~isKstr(c1.f, c1.d) THEN exp2anyreg(c1) ELSE c1
      As(g, k, i) == [g EXCEPT !.e.k = k, !.e.tab = c.e.info, !.e.idx = i, !.e.keystr = keystr]
      r == d2anyreg(c)
  IN IF c.e.k = "VUPVAL" THEN As(c, "VINDEXUP", c.d.info)
     ELSE IF isKstr(c.f, c.d) THEN As(c, "VINDEXSTR", c.d.info)
     ELSE IF isCint(c.d) THEN As(c, "VINDEXI", c.d.val[2])
     ELSE As(r, "VINDEXED", r.d.info)

(***************************************************************************)
(* Conditions                                                              *)
(***************************************************************************)
negatecondition(f, e) ==
  LET i == getjumpcontrol(f, e.info) IN [f EXCEPT !.code[i + 1].k = 1 - @]

\* jumponcond: c.e.info becomes the position of the jump.
jumponcond(c, cond) ==
  LET ie == getinstruction(c)
      c1 == discharge2anyreg(c)
      f1 == freeexp(c1.f, c1.e)
      At2(g) == [c EXCEPT !.f = g, !.e.info = pc(g) - 1]
  IN IF c.e.k = "VRELOC" /\ ie.op = "NOT"
     THEN At2(condjump(removelastinstruction(c.f), "TEST", ie.B, 0, 0, 1 - cond))
     ELSE At2(condjump(f1, "TESTSET", NO_REG, c1.e.info, 0, cond))

goiftrue(c0) ==
  LET c1 == dischargevars(c0)
      c == CASE c1.e.k = "VJMP" -> [c1 EXCEPT !.f = negatecondition(@, c1.e)]
             [] c1.e.k \in {"VK", "VKFLT", "VKINT", "VKSTR", "VTRUE"} ->
                  [c1 EXCEPT !.e.info = NO_JUMP]
             [] OTHER -> jumponcond(c1, 0)
  IN [c EXCEPT !.f = patchtohere(ConcatCode(@, c.e.f, c.e.info), c.e.t),
               !.e.f = ConcatList(@, c.e.info), !.e.t = NO_JUMP]
goiffalse(c0) ==
  LET c1 == dischargevars(c0)
      c == CASE c1.e.k = "VJMP" -> c1
             [] c1.e.k \in {"VNIL", "VFALSE"} -> [c1 EXCEPT !.e.info = NO_JUMP]
             [] OTHER -> jumponcond(c1, 1)
  IN [c EXCEPT !.f = patchtohere(ConcatCode(@, c.e.t, c.e.info), c.e.f),
               !.e.t = ConcatList(@, c.e.info), !.e.f = NO_JUMP]

codenot(c) ==
  LET r == discharge2anyreg(c)
      n == CASE c.e.k \in {"VNIL", "VFALSE"} -> [c EXCEPT !.e.k = "VTRUE"]
             [] c.e.k \in {"VK", "VKFLT", "VKINT", "VKSTR", "VTRUE"} -> [c EXCEPT !.e.k = "VFALSE"]
             [] c.e.k = "VJMP" -> [c EXCEPT !.f = negatecondition(@, c.e)]
             [] OTHER -> Relocatable([r EXCEPT !.f = freeexp(@, r.e)], "NOT", r.e.info, 0)
  IN [n EXCEPT !.f = removevalues(removevalues(@, n.e.t), n.e.f),
               !.e.t = n.e.f, !.e.f = n.e.t]

(***************************************************************************)
(* Operators                                                               *)
(***************************************************************************)
Arith == {"ADD", "SUB", "MUL", "MOD", "POW", "DIV"}     \* foldbinop
validop(op, v2) == op \in {"DIV", "MOD"} => ~IsZero(v2)

\* constfolding: the expression that c.e becomes, or c.e itself.
Foldable(op, e1, e2) ==
  /\ tonumeral(e1) /\ tonumeral(e2) /\ validop(op, e2.val)
  /\ LET r == rawarith(op, e1.val, e2.val)
     IN r # None /\ (r[1] = "flt" => ~IsZero(r))
Folded(op, e1, e2) == const2exp(rawarith(op, e1.val, e2.val), e1)

codeunexpval(c0, op, line) ==
  LET c == exp2anyreg(c0)
      r == Relocatable([c EXCEPT !.f = freeexp(@, c.e)], op, c.e.info, 0)
  IN [r EXCEPT !.f = fixline(@, line)]

finishbinexpval(c0, op, v2, flip, line, mmop, event) ==
  LET c == exp2anyreg(c0)
      v1 == c.e.info
      f1 == freeexps(codeABC(c.f, op, 0, v1, v2), c.e, c.d)
      f2 == codeABCk(fixline(f1, line), mmop, v1, v2, event, flip)
  IN [c EXCEPT !.f = fixline(f2, line), !.e.info = pc(c.f), !.e.k = "VRELOC"]

codebinexpval(c0, opr, line) ==
  LET c == d2anyreg(c0) IN finishbinexpval(c, opr, c.d.info, 0, line, "MMBIN", opr)
codebini(c, op, line, event) ==
  finishbinexpval(c, op, c.d.val[2], 0, line, "MMBINI", event)
codebinK(c, opr, line) ==
  finishbinexpval(c, KOp(opr), c.d.info, 0, line, "MMBINK", opr)
NegFits(e2) == isKint(e2) /\ fitsC(e2.val[2]) /\ fitsC(-e2.val[2])
finishbinexpneg(c, op, line, event) ==
  LET i2 == c.d.val[2]
      r == finishbinexpval(c, op, -i2, 0, line, "MMBINI", event)
  IN [r EXCEPT !.f.code[pc(r.f)].B = i2]

codearith(c, opr, line) ==
  LET k == swapexps(exp2K(swapexps(c))) IN
  IF ~tonumeral(c.d) THEN codebinexpval(c, opr, line)
  ELSE IF IsK(c.f, c.d) THEN codebinK(k, opr, line)
  ELSE codebinexpval(k, opr, line)
codecommutative(c, opr, line) ==
  IF opr = "ADD" /\ isSCint(c.d) THEN codebini(c, "ADDI", line, "ADD")
  ELSE codearith(c, opr, line)

\* A comparison is a test and a jump; the expression is that jump.
Compared(c, op, r1, r2, isfloat, k) ==
  LET f == condjump(freeexps(c.f, c.e, c.d), op, r1, r2, isfloat, k)
  IN [c EXCEPT !.f = f, !.e.info = pc(f) - 1, !.e.k = "VJMP"]
IsFloat(e) == IF e.k = "VKFLT" THEN 1 ELSE 0
codeorder(c, opr) ==
  LET l == exp2anyreg(c)
      r == d2anyreg(c)
      both == d2anyreg(l)
  IN IF isSCnumber(c.d)
     THEN Compared(l, opr \o "I", l.e.info, Trunc(c.d.val), IsFloat(c.d), 1)
     ELSE IF isSCnumber(c.e)
     THEN Compared(r, IF opr = "LT" THEN "GTI" ELSE "GEI",
                   r.d.info, Trunc(c.e.val), IsFloat(c.e), 1)
     ELSE Compared(both, opr, both.e.info, both.d.info, 0, 1)
codeeq(c0, opr) ==
  LET c1 == IF c0.e.k # "VNONRELOC" THEN swapexps(c0) ELSE c0
      c == exp2anyreg(c1)
      rk == swapexps(exp2RK(swapexps(c)))
      k == IF opr = "EQ" THEN 1 ELSE 0
  IN IF isSCnumber(c.d) THEN Compared(c, "EQI", c.e.info, Trunc(c.d.val), IsFloat(c.d), k)
     ELSE Compared(rk, IF IsK(c.f, c.d) THEN "EQK" ELSE "EQ", rk.e.info, rk.d.info, 0, k)

prefix(c0, opr, line) ==
  LET c == dischargevars(c0)
      zero == Const("VKINT", Int_(0))
  IN CASE opr = "NOT" -> codenot(c)
       [] opr = "UNM" /\ Foldable("DIV", c.e, zero) -> [c EXCEPT !.e = Folded("DIV", c.e, zero)]
       [] OTHER -> codeunexpval(c, opr, line)

\* lauK_infix: the first operand, before the second one is read.
infix(c0, opr) ==
  LET c == dischargevars(c0) IN
  CASE opr = "AND" -> goiftrue(c)
    [] opr = "OR" -> goiffalse(c)
    [] opr \in Arith -> IF tonumeral(c.e) THEN c ELSE exp2anyreg(c)
    [] opr \in {"EQ", "NE"} -> IF tonumeral(c.e) THEN c ELSE exp2RK(c)
    [] OTHER -> IF isSCnumber(c.e) THEN c ELSE exp2anyreg(c)

\* lauK_posfix: both operands are known, the second one in c.d.
posfix(c0, opr, line) ==
  LET c == swapexps(dischargevars(swapexps(c0))) IN
  CASE opr \in Arith /\ Foldable(opr, c.e, c.d) -> [c EXCEPT !.e = Folded(opr, c.e, c.d)]
    [] opr = "AND" ->
         [c EXCEPT !.f = ConcatCode(@, c.d.f, c.e.f),
                   !.e = [c.d EXCEPT !.f = ConcatList(@, c.e.f)]]
    [] opr = "OR" ->
         [c EXCEPT !.f = ConcatCode(@, c.d.t, c.e.t),
                   !.e = [c.d EXCEPT !.t = ConcatList(@, c.e.t)]]
    [] opr \in {"ADD", "MUL"} -> codecommutative(c, opr, line)
    [] opr = "SUB" /\ NegFits(c.d) -> finishbinexpneg(c, "ADDI", line, "SUB")
    [] opr \in Arith -> codearith(c, opr, line)
    [] opr \in {"EQ", "NE"} -> codeeq(c, opr)
    [] opr = "GT" -> codeorder(swapexps(c), "LT")
    [] opr = "GE" -> codeorder(swapexps(c), "LE")
    [] OTHER -> codeorder(c, opr)

(***************************************************************************)
(* Constructors, and the last pass                                         *)
(***************************************************************************)
settablesize(f, i, ra, asize, hsize) ==
  LET extra == asize \div (MAXARG_vC + 1)
      rc == asize % (MAXARG_vC + 1)
      k == IF extra > 0 THEN 1 ELSE 0
      rb == IF hsize = 0 THEN 0 ELSE CeilLog2(hsize) + 1
  IN Put(Put(f, i, Ins("NEWTABLE", ra, rb, rc, k)), i + 1, Ins("EXTRAARG", extra, 0, 0, 0))
setlist(f, base, nelems, tostore) ==
  LET n == IF tostore = MULTRET THEN 0 ELSE tostore
      low == nelems % (MAXARG_vC + 1)
      extra == nelems \div (MAXARG_vC + 1)
      g == IF nelems <= MAXARG_vC
           THEN codeABCk(f, "SETLIST", base, n, nelems, 0)
           ELSE code(codeABCk(f, "SETLIST", base, n, low, 1), Ins("EXTRAARG", extra, 0, 0, 0))
  IN [g EXCEPT !.freereg = base + 1]

RECURSIVE finaltarget(_, _, _)
finaltarget(f, i, count) ==
  IF count = 0 \/ At(f, i).op # "JMP" THEN i
  ELSE finaltarget(f, i + 1 + At(f, i).A, count - 1)
Finished(f, i) ==
  LET ins == At(f, i)
      asReturn == IF f.needclose \/ f.vahid THEN [ins EXCEPT !.op = "RETURN"] ELSE ins
      closing == [ins EXCEPT !.op = IF @ = "TAILCALL" THEN @ ELSE asReturn.op,
                             !.k = IF f.needclose THEN 1 ELSE @,
                             !.C = IF f.vahid THEN f.numparams + 1 ELSE @]
  IN CASE ins.op \in {"RETURN0", "RETURN1"} -> IF asReturn = ins THEN ins ELSE closing
       [] ins.op \in {"RETURN", "TAILCALL"} -> closing
       [] ins.op = "JMP" -> [ins EXCEPT !.A = finaltarget(f, i, 100) - (i + 1)]
       [] OTHER -> ins
finish(f) == [f EXCEPT !.code = [i \in DOMAIN @ |-> Finished(f, i - 1)]]
=============================================================================
