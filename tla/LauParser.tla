------------------------------ MODULE LauParser ------------------------------
(***************************************************************************)
(* The parser (lparser.c): from the tokens of a chunk to the prototype of  *)
(* its main function, in one pass.  A grammar rule is an operator from the *)
(* LexState s to the next one; a rule that reads an expression gives a     *)
(* record [s, e].  s.fs is the stack of FuncStates, the current one last.  *)
(* After an error s.err is set and no token is left, so every loop ends.   *)
(***************************************************************************)
EXTENDS LauCode

CONSTANTS MAXVARS, MAXUPVAL, UNARY_PRIORITY

Tok(t, v, line) == [t |-> t, v |-> v, line |-> line]

(***************************************************************************)
(* Tokens                                                                  *)
(***************************************************************************)
token(s) == s.toks[s.pos].t
seminfo(s) == s.toks[s.pos].v
linenumber(s) == s.toks[Min({s.pos + s.ahead, Len(s.toks)})].line

fs(s) == Last(s.fs)
SetFs(s, f) == [s EXCEPT !.fs[Len(s.fs)] = f]
syntaxerror(s, msg) ==
  IF s.err # "" THEN s
  ELSE [s EXCEPT !.err = msg, !.toks = <<Tok("eof", "", linenumber(s))>>, !.pos = 1, !.ahead = 0]
next(s) ==
  LET line == linenumber(s)
      t == [s EXCEPT !.pos = Min({@ + 1, Len(s.toks)}), !.ahead = 0, !.lastline = line]
  IN SetFs(t, [fs(t) EXCEPT !.lastline = line])
lookahead(s) == [s EXCEPT !.ahead = 1]
aheadtoken(s) == s.toks[Min({s.pos + 1, Len(s.toks)})].t

check(s, t) == IF token(s) = t THEN s ELSE syntaxerror(s, t)
checknext(s, t) == IF token(s) = t THEN next(s) ELSE syntaxerror(s, t)
testnext(s, t) == IF token(s) = t THEN next(s) ELSE s
check_match(s, what) == checknext(s, what)
str_checkname(s) == checknext(s, "name")
checkname(s) == IF token(s) = "name" THEN seminfo(s) ELSE "?"

\* A step of the code generator: its context becomes the state and the expression.
With(s, c) == [s |-> SetFs(s, c.f), e |-> c.e]
Gen(s, e) == Ctx(fs(s), e)
VVoid == Exp("VVOID", 0)
hasmultret(e) == e.k = "VCALL"
vkisindexed(k) == k \in {"VINDEXED", "VINDEXUP", "VINDEXI", "VINDEXSTR"}
vkisvar(k) == k \in {"VLOCAL", "VUPVAL", "VCONST"} \/ vkisindexed(k)

(***************************************************************************)
(* Variables                                                               *)
(***************************************************************************)
new_varkind(f, name, kind) ==
  [f EXCEPT !.vars = Append(@, [name |-> name, kind |-> kind, ridx |-> 0, pidx |-> 0, val |-> Nil])]
new_localvar(f, name) == new_varkind(f, name, "VDKREG")
registerlocalvar(f, name) ==
  [f EXCEPT !.locvars = Append(@, [name |-> name, startpc |-> pc(f), endpc |-> pc(f)])]
adjustlocalvars(f, nvars) ==
  LET Start(g, i) ==
        LET v == g.nactvar + 1
            reg == nvarstack(f) + i - 1
            h == registerlocalvar(g, g.vars[v].name)
            k == [h EXCEPT !.nactvar = v, !.vars[v].ridx = reg, !.vars[v].pidx = Len(h.locvars)]
        IN IF reg + 1 > MAXVARS THEN Fault(k, "too many local variables") ELSE k
  IN FoldLeft(Start, f, [i \in 1..nvars |-> i])
removevars(f, tolevel) ==
  LET ended == {f.vars[v].pidx : v \in {w \in (tolevel + 1)..f.nactvar : varinreg(f.vars[w])}}
  IN [f EXCEPT !.vars = SubSeq(@, 1, tolevel), !.nactvar = tolevel,
               !.locvars = [i \in DOMAIN @ |->
                              IF i \in ended THEN [@[i] EXCEPT !.endpc = pc(f)] ELSE @[i]]]

\* searchvar: the innermost active variable of f with this name, as an expression.
Named(f, name) == {i \in 1..f.nactvar : f.vars[i].name = name}
init_var(f, i) ==
  IF f.vars[i].kind = "RDKCTC" THEN Const("VCONST", f.vars[i].val)
  ELSE [Exp("VLOCAL", f.vars[i].ridx) EXCEPT !.vidx = i]
searchvar(f, name) ==
  IF Named(f, name) = {} THEN Exp("VGLOBAL", -1) ELSE init_var(f, Max(Named(f, name)))
searchupvalue(f, name) ==
  LET found == {i \in DOMAIN f.ups : f.ups[i].name = name}
  IN IF found = {} THEN -1 ELSE Min(found) - 1
newupvalue(f, prev, name, v) ==
  LET local == v.k = "VLOCAL"
      kind == IF local THEN prev.vars[v.vidx].kind ELSE prev.ups[v.info + 1].kind
      g == IF Len(f.ups) + 1 > MAXUPVAL THEN Fault(f, "too many upvalues") ELSE f
  IN [g EXCEPT !.ups = Append(@, [name |-> name, instack |-> local, idx |-> v.info, kind |-> kind])]

\* The block that holds the variable must close it.
markupval(f, level) ==
  LET b == Max({i \in DOMAIN f.bl : f.bl[i].nactvar < level} \cup {1})
  IN [f EXCEPT !.bl[b].upval = TRUE, !.needclose = TRUE]
marktobeclosed(f) ==
  [f EXCEPT !.bl[Len(f.bl)].upval = TRUE, !.bl[Len(f.bl)].insidetbc = TRUE, !.needclose = TRUE]

\* singlevaraux at level lvl of the stack of functions.
RECURSIVE singlevaraux(_, _, _, _)
singlevaraux(stack, lvl, name, base) ==
  LET f == stack[lvl]
      v == searchvar(f, name)
      up == searchupvalue(f, name)
      outer == singlevaraux(stack, lvl - 1, name, FALSE)
      idx == Len(outer.stack[lvl].ups)
  IN CASE v.k # "VGLOBAL" ->
            [stack |-> IF ~base /\ v.k = "VLOCAL" THEN [stack EXCEPT ![lvl] = markupval(f, v.vidx)]
                       ELSE stack,
             e |-> v]
       [] v.k = "VGLOBAL" /\ up >= 0 -> [stack |-> stack, e |-> Exp("VUPVAL", up)]
       [] v.k = "VGLOBAL" /\ up < 0 /\ lvl = 1 -> [stack |-> stack, e |-> v]
       [] OTHER ->
            IF outer.e.k \notin {"VLOCAL", "VUPVAL"} THEN outer
            ELSE [stack |-> [outer.stack EXCEPT
                               ![lvl] = newupvalue(@, outer.stack[lvl - 1], name, outer.e)],
                  e |-> Exp("VUPVAL", idx)]
Found(s, name) == singlevaraux(s.fs, Len(s.fs), name, TRUE)
buildglobal(s, name) ==
  LET env == Found(s, "_ENV")
      c == exp2anyregup(Ctx(Last(env.stack), env.e))
      t == [s EXCEPT !.fs = env.stack]
  IN IF env.e.k = "VGLOBAL" THEN [s |-> syntaxerror(s, "_ENV is global"), e |-> env.e]
     ELSE With(t, indexed(Ctx2(c.f, c.e, Const("VKSTR", Str(name)))))
singlevar(s) ==
  LET name == checkname(s)
      t == str_checkname(s)
      v == Found(t, name)
  IN IF v.e.k = "VGLOBAL" THEN buildglobal(t, name)
     ELSE [s |-> [t EXCEPT !.fs = v.stack], e |-> v.e]

ReadOnly(f, e) ==
  \/ e.k = "VCONST"
  \/ e.k = "VLOCAL" /\ f.vars[e.vidx].kind # "VDKREG"
  \/ e.k = "VUPVAL" /\ f.ups[e.info + 1].kind # "VDKREG"
check_readonly_Local(s, e) ==
  IF ReadOnly(fs(s), e) /\ e.k # "VUPVAL" THEN syntaxerror(s, "attempt to assign to const variable") ELSE s
check_readonly(s, e) ==
  IF ReadOnly(fs(s), e) THEN syntaxerror(s, "attempt to assign to const variable") ELSE s

adjust_assign_Unset(f0, nvars, nexps, e) ==
  LET needed == nvars - nexps
      single == IF e.k = "VVOID" THEN f0 ELSE exp2nextreg(Ctx(f0, e)).f
      multi == setreturns(Ctx(f0, e), Max({needed + 1, 0})).f
  IN reserveregs(IF hasmultret(e) THEN multi ELSE single, needed)
adjust_assign(f0, nvars, nexps, e) ==
  LET needed == nvars - nexps
      f == checkstack(f0, needed)
      multi == setreturns(Ctx(f, e), Max({needed + 1, 0})).f
      single == IF e.k = "VVOID" THEN f ELSE exp2nextreg(Ctx(f, e)).f
      one == IF needed > 0 THEN nil(single, single.freereg, needed) ELSE single
      g == IF hasmultret(e) THEN multi ELSE one
  IN IF needed > 0 THEN reserveregs(g, needed) ELSE [g EXCEPT !.freereg = @ + needed]

(***************************************************************************)
(* Blocks and breaks (the only gotos of the language)                      *)
(***************************************************************************)
enterblock(f, isloop) ==
  [f EXCEPT !.bl = Append(@, [isloop |-> isloop, nactvar |-> f.nactvar, firstgoto |-> Len(f.gt),
                              upval |-> FALSE,
                              insidetbc |-> f.bl # <<>> /\ Last(f.bl).insidetbc]),
            !.balanced = @ /\ f.freereg = nvarstack(f)]
newgotoentry(f) ==
  LET g == codeABC(jump(f), "CLOSE", 0, 1, 0)
  IN [g EXCEPT !.gt = Append(@, [pc |-> pc(f), nactvar |-> f.nactvar, close |-> FALSE])]

\* closegoto: a jump that needs a CLOSE changes places with the one after it.
closegoto(f, gt, label, bup) ==
  LET jmp == At(f, gt.pc)
      close == Ins("CLOSE", reglevel(f, label.nactvar), 0, 0, 0)
      needs == gt.close \/ (label.nactvar < gt.nactvar /\ bup)
      g == IF needs THEN Put(Put(f, gt.pc + 1, jmp), gt.pc, close) ELSE f
  IN patchlist(g, IF needs THEN gt.pc + 1 ELSE gt.pc, label.pc)
\* solvegotos: with a label they are closed, without one they go to the outer block.
\* 'level' is where the variables of the block, already removed, were.
solvegotos(f, bl, haslabel, label, level(_)) ==
  LET mine == SubSeq(f.gt, bl.firstgoto + 1, Len(f.gt))
      kept == SubSeq(f.gt, 1, bl.firstgoto)
      outlevel == reglevel(f, bl.nactvar)
      Close(g, gt) == closegoto(g, gt, label, bl.upval)
      exported == [i \in DOMAIN mine |-> [pc |-> mine[i].pc, nactvar |-> bl.nactvar,
                     close |-> mine[i].close \/ (bl.upval /\ level(mine[i].nactvar) > outlevel)]]
  IN IF haslabel THEN [FoldLeft(Close, f, mine) EXCEPT !.gt = kept]
     ELSE [f EXCEPT !.gt = kept \o exported]
leaveblock(f) ==
  LET bl == Last(f.bl)
      level == reglevel(f, bl.nactvar)
      f1 == IF Len(f.bl) > 1 /\ bl.upval THEN codeABC(f, "CLOSE", level, 0, 0) ELSE f
      f2 == removevars([f1 EXCEPT !.freereg = level], bl.nactvar)
      f3 == IF bl.isloop = 2 THEN getlabel(f2) ELSE f2
      label == [pc |-> pc(f3), nactvar |-> f3.nactvar]
      Was(nvar) == reglevel(f, nvar)
      f4 == solvegotos(f3, bl, bl.isloop = 2, label, Was)
  IN [f4 EXCEPT !.bl = Front(@)]

(***************************************************************************)
(* Functions                                                               *)
(***************************************************************************)
open_func(s, line) ==
  LET f == [code |-> <<>>, k |-> <<>>, lineinfo |-> <<>>, abslineinfo |-> <<>>, iwthabs |-> 0,
            previousline |-> line, lines |-> <<>>, lastline |-> s.lastline, freereg |-> 0,
            maxstacksize |-> 2, lasttarget |-> 0, vars |-> <<>>, nactvar |-> 0,
            balanced |-> TRUE, err |-> "", needclose |-> FALSE, vahid |-> FALSE, numparams |-> 0,
            ups |-> <<>>, p |-> <<>>, bl |-> <<>>, gt |-> <<>>, locvars |-> <<>>,
            linedefined |-> line, lastlinedefined |-> 0]
  IN [s EXCEPT !.fs = Append(@, enterblock(f, 0))]
Proto(f) ==
  [code |-> f.code, k |-> f.k, p |-> f.p, ups |-> f.ups, lineinfo |-> f.lineinfo,
   abslineinfo |-> f.abslineinfo, lines |-> f.lines, locvars |-> f.locvars,
   linedefined |-> f.linedefined, lastlinedefined |-> f.lastlinedefined, source |-> "chunk",
   numparams |-> f.numparams, vahid |-> f.vahid,
   maxstacksize |-> f.maxstacksize, balanced |-> f.balanced]
\* close_func: the finished prototype; the state goes back to the enclosing function.
Closed(f) == finish(leaveblock(ret(f, nvarstack(f), 0)))
close_func(s) ==
  LET f == Closed(fs(s))
      stack == Front(s.fs)
      up == [Last(stack) EXCEPT !.p = Append(@, Proto(f)), !.lastline = s.lastline,
                                !.err = IF @ = "" THEN f.err ELSE @]
  IN [s EXCEPT !.fs = [stack EXCEPT ![Len(stack)] = up]]
setvararg(f) == codeABC([f EXCEPT !.vahid = TRUE], "VARARGPREP", 0, 0, 0)
\* codeclosure: the prototype being closed is the next one of the enclosing function.
codeclosure(s) ==
  LET f == s.fs[Len(s.fs) - 1]
      g == [f EXCEPT !.lastline = s.lastline]
      c == exp2nextreg(Ctx(codeABx(g, "CLOSURE", 0, Len(f.p)), Exp("VRELOC", pc(f))))
  IN [s |-> [s EXCEPT !.fs[Len(s.fs) - 1] = c.f], e |-> c.e]

\* A block on the line of its opening keyword has one statement at most.
initsl(s, startline) ==
  IF linenumber(s) = startline THEN [s EXCEPT !.slCount = 0, !.slStart = startline] ELSE s
slstmtcheck(s, isSl) ==
  IF isSl /\ s.slCount > 1 THEN syntaxerror(s, "end expected") ELSE s

block_follow(s) == token(s) \in {"else", "elseif", "end", "eof", "until"}

RECURSIVE statement(_), statlist(_), expr(_), subexpr(_, _), binops(_, _, _), body(_, _, _),
          suffixes(_), explistrest(_, _), fields(_, _), parnames(_, _), restassign(_, _),
          elseifs(_), localnames(_, _), selectors(_, _), loopnames(_, _)

statlist(s) ==
  IF block_follow(s) THEN s
  ELSE IF token(s) = "return" THEN statement(s) ELSE statlist(statement(s))
block(s) ==
  LET t == statlist(SetFs(s, enterblock(fs(s), 0))) IN SetFs(t, leaveblock(fs(t)))
\* initsl, a block and slstmtcheck; startline is the line of the opening keyword.
slblock(s, startline) ==
  slstmtcheck(block(initsl(s, startline)), linenumber(s) = startline)

\* parnames: the rest of the parameters, n of them so far.
parnames(s, n) ==
  LET t == str_checkname(SetFs(s, new_localvar(fs(s), checkname(s)))) IN
  IF token(t) = "," THEN parnames(next(t), n + 1) ELSE [s |-> t, n |-> n + 1]
parlist(s) ==
  LET r == IF token(s) = ")" THEN [s |-> s, n |-> 0] ELSE parnames(s, 0)
      f == adjustlocalvars(fs(r.s), r.n)
  IN SetFs(r.s, reserveregs([f EXCEPT !.numparams = f.nactvar], f.nactvar))
body(s, ismethod, line) ==
  LET startline == linenumber(s)
      s1 == checknext(open_func(s, line), "(")
      s2 == IF ismethod THEN SetFs(s1, adjustlocalvars(new_localvar(fs(s1), "self"), 1)) ELSE s1
      s3 == checknext(parlist(s2), ")")
      s4 == statlist(initsl(s3, startline))
      s5 == SetFs(s4, [fs(s4) EXCEPT !.lastlinedefined = linenumber(s4)])
      s6 == check_match(slstmtcheck(s5, linenumber(s3) = startline), "end")
      c == codeclosure(s6)
  IN [s |-> close_func(c.s), e |-> c.e]

(***************************************************************************)
(* Constructors: cc = [v, na, nh, tostore, max, keys], t the table register *)
(***************************************************************************)
codename(s) == [s |-> str_checkname(s), e |-> Const("VKSTR", Str(checkname(s)))]
yindex(s) ==
  LET r == expr(next(s)) IN
  [s |-> checknext(With(r.s, exp2val(Gen(r.s, r.e))).s, "]"), e |-> exp2val(Gen(r.s, r.e)).e]
fieldsel(s, e) ==
  LET v == With(s, exp2anyregup(Gen(s, e)))
      k == codename(next(v.s))
  IN With(k.s, indexed(Ctx2(fs(k.s), v.e, k.e)))

keyequal(a, b) ==
  a.k = b.k /\ a.val = b.val /\ a.k \in {"VKINT", "VKFLT", "VKSTR"}
recfield(s, t, cc) ==
  LET reg == fs(s).freereg
      key == IF token(s) = "name" THEN codename(s) ELSE yindex(s)
      same == Cardinality({i \in DOMAIN cc.keys : keyequal(cc.keys[i], key.e)})
      s1 == checknext([key.s EXCEPT !.warned = @ + same], "=")
      tab == With(s1, indexed(Ctx2(fs(s1), Exp("VNONRELOC", t), key.e)))
      val == expr(tab.s)
      f == storevar(fs(val.s), tab.e, val.e)
  IN [s |-> SetFs(val.s, [f EXCEPT !.freereg = reg]),
      cc |-> [cc EXCEPT !.nh = @ + 1, !.keys = Append(@, key.e)]]
closelistfield(f, t, cc) ==
  LET g == exp2nextreg(Ctx(f, cc.v)).f
      flush == cc.tostore >= cc.max
  IN [f |-> IF flush THEN setlist(g, t, cc.na, cc.tostore) ELSE g,
      cc |-> [cc EXCEPT !.v = VVoid, !.na = IF flush THEN @ + cc.tostore ELSE @,
                        !.tostore = IF flush THEN 0 ELSE @]]
lastlistfield(f, t, cc) ==
  LET g == IF cc.v.k = "VVOID" THEN f ELSE exp2nextreg(Ctx(f, cc.v)).f
      m == setreturns(Ctx(f, cc.v), MULTRET).f
  IN IF cc.tostore = 0 THEN [f |-> f, na |-> cc.na]
     ELSE IF hasmultret(cc.v)
     THEN [f |-> setlist(m, t, cc.na, MULTRET), na |-> cc.na - 1 + cc.tostore]
     ELSE [f |-> setlist(g, t, cc.na, cc.tostore), na |-> cc.na + cc.tostore]
listfield(s, cc) ==
  LET r == expr(s) IN [s |-> r.s, cc |-> [cc EXCEPT !.v = r.e, !.tostore = @ + 1]]
field(s, t, cc) ==
  IF token(s) = "[" THEN recfield(s, t, cc)
  ELSE IF token(s) = "name"
  THEN IF aheadtoken(s) = "=" THEN recfield(lookahead(s), t, cc) ELSE listfield(lookahead(s), cc)
  ELSE listfield(s, cc)
maxtostore(f) ==
  LET free == MAXARG_A - f.freereg IN
  IF free >= 160 THEN free \div 5 ELSE IF free >= 80 THEN 10 ELSE 1
\* fields: c is [s, cc]; the register of the table is t.
fields(c, t) ==
  LET closed == IF c.cc.v.k = "VVOID" THEN [f |-> fs(c.s), cc |-> c.cc]
                ELSE closelistfield(fs(c.s), t, c.cc)
      r == field(SetFs(c.s, closed.f), t, closed.cc)
  IN IF token(c.s) = "}" THEN c
     ELSE IF token(r.s) = "," THEN fields([r EXCEPT !.s = next(@)], t) ELSE r
constructor(s) ==
  LET f0 == fs(s)
      t == f0.freereg
      f1 == reserveregs(code(codeABC(f0, "NEWTABLE", 0, 0, 0), Ins("EXTRAARG", 0, 0, 0, 0)), 1)
      s1 == checknext(SetFs(s, f1), "{")
      cc == [v |-> VVoid, na |-> 0, nh |-> 0, tostore |-> 0, max |-> maxtostore(f1), keys |-> <<>>]
      r == fields([s |-> s1, cc |-> cc], t)
      s2 == check_match(r.s, "}")
      l == lastlistfield(fs(s2), t, r.cc)
  IN [s |-> SetFs(s2, settablesize(l.f, pc(f0), t, l.na, r.cc.nh)), e |-> Exp("VNONRELOC", t)]

(***************************************************************************)
(* Expressions                                                             *)
(***************************************************************************)
explistrest(r, n) ==
  LET w == With(r.s, exp2nextreg(Gen(r.s, r.e))) IN
  IF token(r.s) = "," THEN explistrest(expr(next(w.s)), n + 1)
  ELSE [s |-> r.s, e |-> r.e, n |-> n]
explist(s) == explistrest(expr(s), 1)

\* The arguments of a call: an expression that is void, open or the last argument.
callargs(s) ==
  LET r == explist(next(s))
      m == IF hasmultret(r.e) THEN SetFs(r.s, setreturns(Gen(r.s, r.e), MULTRET).f) ELSE r.s
  IN CASE token(s) = "(" ->
            IF token(next(s)) = ")" THEN [s |-> next(next(s)), e |-> VVoid]
            ELSE [s |-> check_match(m, ")"), e |-> r.e]
       [] token(s) = "{" -> constructor(s)
       [] token(s) = "string" -> [s |-> next(s), e |-> Const("VKSTR", seminfo(s))]
       [] OTHER -> [s |-> syntaxerror(s, "function arguments expected"), e |-> VVoid]
funcargs(s, e) ==
  LET line == linenumber(s)
      a == callargs(s)
      base == e.info
      f == IF a.e.k = "VVOID" \/ hasmultret(a.e) THEN fs(a.s) ELSE exp2nextreg(Gen(a.s, a.e)).f
      nparams == IF hasmultret(a.e) THEN MULTRET ELSE f.freereg - (base + 1)
      g == fixline(codeABC(f, "CALL", base, nparams + 1, 2), line)
  IN [s |-> SetFs(a.s, [g EXCEPT !.freereg = base + 1]), e |-> Exp("VCALL", pc(f))]

primaryexp(s) ==
  LET r == expr(next(s))
      t == check_match(r.s, ")")
  IN CASE token(s) = "(" -> With(t, dischargevars(Gen(t, r.e)))
       [] token(s) = "name" -> singlevar(s)
       [] OTHER -> [s |-> syntaxerror(s, "unexpected symbol"), e |-> Exp("VNIL", 0)]
\* suffixes: r is [s, e], what was read so far.
suffixes(r) ==
  LET up == With(r.s, exp2anyregup(Gen(r.s, r.e)))
      key == yindex(up.s)
      name == codename(next(r.s))
      recv == With(name.s, self(Ctx2(fs(name.s), r.e, name.e)))
      fn == With(r.s, exp2nextreg(Gen(r.s, r.e)))
  IN CASE token(r.s) = "." -> suffixes(fieldsel(r.s, r.e))
       [] token(r.s) = "[" -> suffixes(With(key.s, indexed(Ctx2(fs(key.s), up.e, key.e))))
       [] token(r.s) = ":" -> suffixes(funcargs(recv.s, recv.e))
       [] token(r.s) \in {"(", "string", "{"} -> suffixes(funcargs(fn.s, fn.e))
       [] OTHER -> r
suffixedexp(s) == suffixes(primaryexp(s))
simpleexp(s) ==
  LET Lit(e) == [s |-> next(s), e |-> e]
  IN CASE token(s) = "int" -> Lit(Const("VKINT", seminfo(s)))
       [] token(s) = "flt" -> Lit(Const("VKFLT", seminfo(s)))
       [] token(s) = "string" -> Lit(Const("VKSTR", seminfo(s)))
       [] token(s) = "nil" -> Lit(Exp("VNIL", 0))
       [] token(s) = "true" -> Lit(Exp("VTRUE", 0))
       [] token(s) = "false" -> Lit(Exp("VFALSE", 0))
       [] token(s) = "{" -> constructor(s)
       [] token(s) = "function" -> body(next(s), FALSE, linenumber(next(s)))
       [] OTHER -> suffixedexp(s)

unopr == [t \in {"not", "-", "#"} |->
            CASE t = "not" -> "NOT" [] t = "-" -> "UNM" [] t = "#" -> "LEN"]
BinTokens == <<"+", "-", "*", "%", "^", "/", "==", "<", "<=", "~=", ">", ">=", "and", "or">>
BinOprs == <<"ADD", "SUB", "MUL", "MOD", "POW", "DIV", "EQ", "LT", "LE", "NE", "GT", "GE",
             "AND", "OR">>
IndexOf(t) == CHOOSE i \in DOMAIN BinTokens : BinTokens[i] = t
isbinop(t) == t \in Range(BinTokens)
getbinopr(t) == BinOprs[IndexOf(t)]
\* The table is indexed by the number of the operator; its rows are written in order.
PriorityRows == <<<<10, 10>>, <<10, 10>>, <<11, 11>>, <<11, 11>>, <<14, 13>>, <<11, 11>>, <<11, 11>>,
                  <<6, 6>>, <<4, 4>>, <<5, 5>>, <<7, 7>>, <<7, 7>>, <<9, 8>>, <<3, 3>>, <<3, 3>>,
                  <<3, 3>>, <<3, 3>>, <<3, 3>>, <<3, 3>>, <<2, 2>>, <<1, 1>>>>
priority(t) == PriorityRows[IndexOf(t)]

binops(s, e, limit) ==
  LET t == token(s)
      op == getbinopr(t)
      line == linenumber(s)
      s1 == next(s)
      l == With(s1, infix(Gen(s1, e), op))
      r == subexpr(l.s, priority(t)[2])
      c == With(r.s, posfix(Ctx2(fs(r.s), l.e, r.e), op, line))
  IN IF isbinop(t) /\ priority(t)[1] > limit THEN binops(c.s, c.e, limit)
     ELSE [s |-> s, e |-> e]
subexpr(s, limit) ==
  LET u == subexpr(next(s), UNARY_PRIORITY)
      p == With(u.s, prefix(Gen(u.s, u.e), unopr[token(s)], linenumber(s)))
      r == simpleexp(s)
  IN IF token(s) \in DOMAIN unopr THEN binops(p.s, p.e, limit) ELSE binops(r.s, r.e, limit)
expr(s) == subexpr(s, 0)

(***************************************************************************)
(* Statements                                                              *)
(***************************************************************************)
\* check_conflict: a variable assigned here and used by an earlier target is copied.
check_conflict_Skipped(f, lhs, v) == [f |-> f, lhs |-> lhs]
check_conflict(f, lhs, v) ==
  LET extra == f.freereg
      TabUp(l) == l.k = "VINDEXUP" /\ v.k = "VUPVAL" /\ l.tab = v.info
      TabReg(l) == l.k \in {"VINDEXED", "VINDEXI", "VINDEXSTR"} /\ v.k = "VLOCAL" /\ l.tab = v.info
      Idx(l) == l.k = "VINDEXED" /\ v.k = "VLOCAL" /\ l.idx = v.info
      Safe(l) == [l EXCEPT !.k = IF TabUp(l) THEN "VINDEXSTR" ELSE @,
                           !.tab = IF TabUp(l) \/ TabReg(l) THEN extra ELSE @,
                           !.idx = IF Idx(l) THEN extra ELSE @]
      conflict == \E i \in DOMAIN lhs : TabUp(lhs[i]) \/ TabReg(lhs[i]) \/ Idx(lhs[i])
      copy == codeABC(f, IF v.k = "VLOCAL" THEN "MOVE" ELSE "GETUPVAL", extra, v.info, 0)
  IN [f |-> IF conflict THEN reserveregs(copy, 1) ELSE f,
      lhs |-> [i \in DOMAIN lhs |-> Safe(lhs[i])]]
storevartop(f, v) == storevar(f, v, Exp("VNONRELOC", f.freereg - 1))

\* restassign: lhs are the targets, in order; they are stored last to first.
restassign(s, lhs) ==
  LET v == Last(lhs)
      n == Len(lhs)
      s1 == check_readonly(IF vkisvar(v.k) THEN s ELSE syntaxerror(s, "syntax error"), v)
      nv == suffixedexp(next(s1))
      c == IF vkisindexed(nv.e.k) THEN [f |-> fs(nv.s), lhs |-> lhs]
           ELSE check_conflict(fs(nv.s), lhs, nv.e)
      es == explist(checknext(s1, "="))
      one == setoneret(Gen(es.s, es.e))
      StoreTop(i, f) == storevartop(f, lhs[i])
      stored == IF es.n = n THEN FoldRight(StoreTop, [i \in 1..(n - 1) |-> i], storevar(one.f, v, one.e))
                ELSE FoldRight(StoreTop, [i \in 1..n |-> i], adjust_assign(fs(es.s), n, es.n, es.e))
  IN CASE s1.err # "" -> s1
       [] s1.err = "" /\ token(s1) = "," -> restassign(SetFs(nv.s, c.f), Append(c.lhs, nv.e))
       [] OTHER -> IF es.s.err # "" THEN es.s ELSE SetFs(es.s, stored)

dupifneeded(f) ==
  LET ins == At(f, pc(f) - 1) IN
  IF pc(f) > 0 /\ ins.op \in {"GETTABUP", "GETTABLE", "GETI", "GETFIELD"}
  THEN code(reserveregs(f, 1), [ins EXCEPT !.A = f.freereg]) ELSE f
CompoundTokens == <<"+=", "-=", "*=", "%=", "^=", "/=">>
compoundassign(s, v) ==
  LET opr == BinOprs[CHOOSE i \in DOMAIN CompoundTokens : CompoundTokens[i] = token(s)]
      s1 == next(check_readonly(s, v))
      r == With(s1, infix(Ctx(dupifneeded(fs(s1)), v), opr))
      e == expr(r.s)
      c == posfix(Ctx2(fs(e.s), r.e, e.e), opr, linenumber(e.s))
  IN IF ~vkisvar(v.k) THEN syntaxerror(s, "syntax error") ELSE SetFs(e.s, storevar(c.f, v, c.e))

\* cond: the state, and the list of jumps that leave when the condition is false.
cond(s) ==
  LET r == expr(s)
      w == With(r.s, goiftrue(Gen(r.s, IF r.e.k = "VNIL" THEN [r.e EXCEPT !.k = "VFALSE"] ELSE r.e)))
  IN [s |-> w.s, exit |-> w.e.f]

breakstat(s) ==
  LET f == fs(s)
      loops == {i \in DOMAIN f.bl : f.bl[i].isloop # 0}
      t == next(SetFs(s, [f EXCEPT !.bl[Max(loops)].isloop = 2]))
  IN IF loops = {} THEN syntaxerror(s, "break outside loop") ELSE SetFs(t, newgotoentry(fs(t)))

whilestat(s) ==
  LET s1 == next(s)
      init == pc(fs(s1))
      c == cond(SetFs(s1, getlabel(fs(s1))))
      s2 == checknext(SetFs(c.s, enterblock(fs(c.s), 1)), "do")
      s3 == slblock(s2, linenumber(s))
      s4 == check_match(SetFs(s3, jumpto(fs(s3), init)), "end")
  IN SetFs(s4, patchtohere(leaveblock(fs(s4)), c.exit))

exp1(s) == LET r == expr(s) IN With(r.s, exp2nextreg(Gen(r.s, r.e))).s
fixforjump(f, i, dest, back) ==
  LET offset == IF back THEN (i + 1) - dest ELSE dest - (i + 1)
      g == Put(f, i, [At(f, i) EXCEPT !.B = offset])
  IN IF offset > MAXARG_Bx THEN Fault(g, "control structure too long") ELSE g
forbody(s, base, line, nvars, isgen) ==
  LET s1 == checknext(s, "do")
      prep == pc(fs(s1))
      f1 == codeABx(fs(s1), IF isgen THEN "TFORPREP" ELSE "FORPREP", base, 0)
      f2 == enterblock([f1 EXCEPT !.freereg = @ - 1], 0)
      s2 == SetFs(s1, reserveregs(adjustlocalvars(f2, nvars), nvars))
      s3 == slblock(s2, linenumber(s))
      f3 == leaveblock(fs(s3))
      f4 == fixforjump(getlabel(f3), prep, pc(f3), FALSE)
      f5 == IF isgen THEN fixline(codeABC(f4, "TFORCALL", base, 0, nvars), line) ELSE f4
      f6 == codeABx(f5, IF isgen THEN "TFORLOOP" ELSE "FORLOOP", base, 0)
  IN SetFs(s3, fixline(fixforjump(f6, pc(f5), prep + 1, TRUE), line))

LOOPVARKIND == "RDKCONST"
ForState(f, n) == FoldLeft(LAMBDA g, i : new_localvar(g, "(for state)"), f, [i \in 1..n |-> i])
fornum(s, varname, line) ==
  LET f == fs(s)
      base == f.freereg
      s1 == SetFs(s, new_varkind(ForState(f, 2), varname, LOOPVARKIND))
      s2 == exp1(checknext(exp1(checknext(s1, "=")), ","))
      s3 == IF token(s2) = "," THEN exp1(next(s2))
            ELSE SetFs(s2, reserveregs(int(fs(s2), fs(s2).freereg, 1), 1))
  IN forbody(SetFs(s3, adjustlocalvars(fs(s3), 2)), base, line, 1, FALSE)
\* loopnames: the other declared variables of a generic loop.
loopnames(s, n) ==
  IF token(s) # "," THEN [s |-> s, n |-> n]
  ELSE loopnames(str_checkname(SetFs(next(s), new_localvar(fs(next(s)), checkname(next(s))))), n + 1)
forlist(s, indexname) ==
  LET f == fs(s)
      base == f.freereg
      l == loopnames(SetFs(s, new_varkind(ForState(f, 3), indexname, LOOPVARKIND)), 4)
      line == linenumber(l.s)
      es == explist(l.s)
      f1 == adjustlocalvars(adjust_assign(fs(es.s), 4, es.n, es.e), 3)
  IN forbody(SetFs(es.s, checkstack(marktobeclosed(f1), 2)), base, line, l.n - 3, TRUE)
forstat(s, line) ==
  LET s1 == next(SetFs(s, enterblock(fs(s), 1)))
      name == checkname(s1)
      s2 == str_checkname(s1)
      s3 == CASE token(s2) = "=" -> fornum(s2, name, line)
              [] token(s2) = "," -> forlist(s2, name)
              [] OTHER -> syntaxerror(s2, "'=' expected")
      s4 == check_match(s3, "end")
  IN SetFs(s4, leaveblock(fs(s4)))

\* test_then_block: r is [s, escape], escape the list of jumps to the end of the 'if'.
test_then_block(r) ==
  LET c == cond(next(r.s))
      s1 == slblock(checknext(c.s, "then"), linenumber(r.s))
      more == token(s1) \in {"else", "elseif"}
      f == fs(s1)
      j == pc(f)
      g == IF more THEN ConcatCode(jump(f), r.escape, j) ELSE f
  IN [s |-> SetFs(s1, patchtohere(g, c.exit)),
      escape |-> IF more THEN ConcatList(r.escape, j) ELSE r.escape]
elseifs(r) == IF token(r.s) = "elseif" THEN elseifs(test_then_block(r)) ELSE r
ifstat(s) ==
  LET r == elseifs(test_then_block([s |-> s, escape |-> NO_JUMP]))
      s1 == IF token(r.s) = "else" THEN block(next(r.s)) ELSE r.s
      s2 == check_match(s1, "end")
  IN SetFs(s2, patchtohere(fs(s2), r.escape))

localfunc(s) ==
  LET s1 == str_checkname(SetFs(s, new_localvar(fs(s), checkname(s))))
      s2 == SetFs(s1, adjustlocalvars(fs(s1), 1))
      r == body(s2, FALSE, linenumber(s2))
      f == fs(r.s)
  IN SetFs(r.s, [f EXCEPT !.locvars[f.vars[f.nactvar].pidx].startpc = pc(f)])

\* getvarattribute: the state and the kind of the variable.
getvarattribute(s, df) ==
  LET name == checkname(next(s))
      s1 == checknext(str_checkname(next(s)), ">")
  IN CASE token(s) # "<" -> [s |-> s, kind |-> df]
       [] token(s) = "<" /\ name = "const" -> [s |-> s1, kind |-> "RDKCONST"]
       [] token(s) = "<" /\ name = "close" -> [s |-> s1, kind |-> "RDKTOCLOSE"]
       [] OTHER -> [s |-> syntaxerror(s, "unknown attribute"), kind |-> df]
\* localnames: r is [s, n, toclose]; the variables that are declared, n of them.
localnames(r, df) ==
  LET name == checkname(r.s)
      a == getvarattribute(str_checkname(r.s), df)
      close == a.kind = "RDKTOCLOSE"
      s1 == SetFs(a.s, new_varkind(fs(a.s), name, a.kind))
      s2 == IF close /\ r.toclose # 0 THEN syntaxerror(s1, "multiple to-be-closed variables") ELSE s1
      q == [s |-> s2, n |-> r.n + 1,
            toclose |-> IF close THEN fs(s2).nactvar + r.n + 1 ELSE r.toclose]
  IN IF token(s2) = "," THEN localnames([q EXCEPT !.s = next(@)], df) ELSE q
checktoclose(f, level) ==
  IF level = 0 THEN f ELSE codeABC(marktobeclosed(f), "TBC", f.vars[level].ridx, 0, 0)
localstat(s) ==
  LET a == getvarattribute(s, "VDKREG")
      r == localnames([s |-> a.s, n |-> 0, toclose |-> 0], a.kind)
      es == IF token(r.s) = "=" THEN explist(next(r.s)) ELSE [s |-> r.s, e |-> VVoid, n |-> 0]
      f == fs(es.s)
      last == Len(f.vars)
      const == es.n = r.n /\ f.vars[last].kind = "RDKCONST" /\ exp2const(es.e) # None
      asConst == adjustlocalvars([f EXCEPT !.vars[last].kind = "RDKCTC",
                                           !.vars[last].val = exp2const(es.e)], r.n - 1)
      asLocal == adjustlocalvars(adjust_assign(f, r.n, es.n, es.e), r.n)
      g == IF const THEN [asConst EXCEPT !.nactvar = @ + 1] ELSE asLocal
  IN IF es.s.err # "" THEN es.s ELSE SetFs(es.s, checktoclose(g, r.toclose))

selectors(s, e) ==
  LET r == fieldsel(s, e) IN
  CASE token(s) = "." -> selectors(r.s, r.e)
    [] token(s) = ":" -> [s |-> r.s, e |-> r.e, ismethod |-> TRUE]
    [] OTHER -> [s |-> s, e |-> e, ismethod |-> FALSE]
funcstat(s, line) ==
  LET n == singlevar(next(s))
      v == selectors(n.s, n.e)
      b == body(check_readonly(v.s, v.e), v.ismethod, line)
  IN IF b.s.err # "" THEN b.s ELSE SetFs(b.s, fixline(storevar(fs(b.s), v.e, b.e), line))

exprstat(s) ==
  LET v == suffixedexp(s) IN
  CASE token(v.s) \in {"=", ","} -> restassign(v.s, <<v.e>>)
    [] token(v.s) \in Range(CompoundTokens) -> compoundassign(v.s, v.e)
    [] OTHER -> IF v.e.k # "VCALL" THEN syntaxerror(v.s, "syntax error")
                ELSE SetFs(v.s, [fs(v.s) EXCEPT !.code[v.e.info + 1].C = 1])

retstat(s) ==
  LET first == nvarstack(fs(s))
      r == explist(s)
      f == fs(r.s)
      tail == r.n = 1 /\ ~Last(f.bl).insidetbc
      open == setreturns(Gen(r.s, r.e), MULTRET).f
      one == exp2anyreg(Gen(r.s, r.e))
      g == CASE hasmultret(r.e) ->
                  ret(IF tail THEN [open EXCEPT !.code[r.e.info + 1].op = "TAILCALL"] ELSE open,
                      first, MULTRET)
             [] ~hasmultret(r.e) /\ r.n = 1 -> ret(one.f, one.e.info, 1)
             [] OTHER -> ret(exp2nextreg(Gen(r.s, r.e)).f, first, r.n)
  IN IF block_follow(s) THEN SetFs(s, ret(fs(s), first, 0)) ELSE SetFs(r.s, g)

Stat(s, line) ==
  CASE token(s) = "if" -> ifstat(s)
    [] token(s) = "while" -> whilestat(s)
    [] token(s) = "do" -> check_match(slblock(next(s), line), "end")
    [] token(s) = "for" -> forstat(s, line)
    [] token(s) = "function" -> funcstat(s, line)
    [] token(s) = "local" ->
         IF token(next(s)) = "function" THEN localfunc(next(next(s))) ELSE localstat(next(s))
    [] token(s) = "return" -> retstat(next(s))
    [] token(s) = "break" -> breakstat(s)
    [] OTHER -> exprstat(s)
\* After a statement only the registers of local variables are in use.
statement(s) ==
  LET line == linenumber(s)
      t == Stat(IF s.slStart = line THEN [s EXCEPT !.slCount = @ + 1] ELSE s, line)
      f == fs(t)
  IN SetFs(t, [f EXCEPT !.freereg = nvarstack(f),
                        !.balanced = @ /\ (t.err # "" \/ (f.maxstacksize >= f.freereg
                                                       /\ f.freereg >= nvarstack(f)))])

(***************************************************************************)
(* A chunk                                                                 *)
(***************************************************************************)
LexState(toks) ==
  [toks |-> toks, pos |-> 1, ahead |-> 0, lastline |-> 1, fs |-> <<>>, err |-> "",
   warned |-> 0, slCount |-> 0, slStart |-> 0]
\* lauY_parser and mainfunc: the prototype of the main function, and the error if any.
Parse(toks) ==
  LET s0 == open_func(LexState(toks), 0)
      f0 == [setvararg(fs(s0)) EXCEPT
               !.ups = <<[name |-> "_ENV", instack |-> TRUE, idx |-> 0, kind |-> "VDKREG"]>>]
      s1 == check(statlist(SetFs(s0, f0)), "eof")
      f == Closed(fs(s1))
  IN [p |-> Proto(f), err |-> IF s1.err # "" THEN s1.err ELSE f.err, warned |-> s1.warned]
=============================================================================
