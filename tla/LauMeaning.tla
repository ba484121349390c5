----------------------------- MODULE LauMeaning -----------------------------
(***************************************************************************)
(* What a chunk means: the language, as its manual and README define it,   *)
(* evaluated on syntax trees.  It has scopes and values and nothing of the *)
(* compiler: no registers, jumps, constants or instructions.               *)
(*                                                                         *)
(* Expressions and statements are tuples whose first element is their      *)
(* kind.  The store s = [cells, heap, clos, out, err, blame, sig, res] has a cell *)
(* for each variable; an environment maps names to cells.  sig is "break"  *)
(* or "return" while a block is being left.                                *)
(***************************************************************************)
EXTENDS LauVM

\* An error; 'blame' is the name of the value that caused it, "" if it has none.
Blame(s, name) == IF s.err THEN s ELSE [s EXCEPT !.err = TRUE, !.blame = name]
Bad(s) == Blame(s, "")
\* The name an expression gives to its value.
NameOf(e) ==
  CASE e[1] = "var" -> e[2]
    [] e[1] = "k" /\ e[2][1] = "str" -> e[2][2]
    [] e[1] = "idx" /\ e[3][1] = "k" /\ e[3][2][1] = "str" -> e[3][2][2]
    [] e[1] = "par" -> IF e[2][1] = "var" THEN e[2][2] ELSE ""
    [] OTHER -> ""
NewCell(s, v) == [s EXCEPT !.cells = Append(@, v)]
Value(r) == IF r.v = <<>> THEN Nil ELSE r.v[1]

\* Division and power give an integer if possible, and so does any operation with a numeral
\* (the machine does so of two numbers only when the compiler folds them).
Arith2(op, a, b) ==
  CASE IsNumber(a) /\ IsNumber(b) -> rawarith(op, a, b)
    [] IsNumber(a) /\ IsStr(b) /\ tonumeric(b) # None ->
         Integral(numarith(op, tonumber(a), tonumber(b)))
    [] OTHER -> concat(a, b)
Compare(op, a, b) ==
  CASE op = "EQ" -> rawequalobj(a, b)
    [] op = "NE" -> ~rawequalobj(a, b)
    [] op = "LT" -> lessthan(a, b)
    [] op = "LE" -> lessequal(a, b)
    [] op = "GT" -> lessthan(b, a)
    [] op = "GE" -> lessequal(b, a)
Bool(x) == IF x THEN True ELSE False
Put_(s, t, k, v, name) ==
  IF t[1] # "tab" THEN Blame(s, name) ELSE IF k = Nil THEN Bad(s)
  ELSE [s EXCEPT !.heap[t[2]] =
          [x \in {y \in DOMAIN @ \cup {Key(k)} : y # Key(k) \/ v # Nil} |->
             IF x = Key(k) THEN v ELSE @[x]]]

RECURSIVE Ev(_, _, _), Evs(_, _, _), Apply(_, _, _, _), Stmts(_, _, _), Exec(_, _, _),
          While(_, _, _, _), For(_, _, _, _, _), ForIn(_, _, _, _, _), If(_, _, _, _),
          Items(_, _, _, _, _), Places(_, _, _)

Ev1(e, env, s) == LET r == Ev(e, env, s) IN [v |-> Value(r), s |-> r.s]
Evs(es, env, s) ==
  LET h == Ev1(es[1], env, s)
      t == Evs(Tail(es), env, h.s)
  IN IF es = <<>> THEN [v |-> <<>>, s |-> s]
     ELSE IF Len(es) = 1 THEN Ev(es[1], env, s)
     ELSE [v |-> <<h.v>> \o t.v, s |-> t.s]
Ev(e, env, s) ==
  LET a == Ev1(e[3], env, s)
      b == Ev1(e[4], env, a.s)
      t == Ev1(e[2], env, s)
      k == Ev1(e[3], env, t.s)
      args == Evs(e[3], env, t.s)
      margs == Evs(e[4], env, t.s)
      Or(x, u, name) ==
        IF x = None THEN [v |-> <<Nil>>, s |-> Blame(u, name)] ELSE [v |-> <<x>>, s |-> u]
      As(x, u) == Or(x, u, "")
  IN IF s.err THEN [v |-> <<>>, s |-> s]
     ELSE CASE e[1] = "k" -> As(e[2], s)
       [] e[1] = "var" ->
            As(IF e[2] \in DOMAIN env THEN s.cells[env[e[2]]] ELSE Get(s, Table(1), Str(e[2])), s)
       [] e[1] = "par" -> As(t.v, t.s)
       [] e[1] = "fun" ->
            [v |-> <<Closure(Len(s.clos) + 1)>>,
             s |-> [s EXCEPT !.clos = Append(@, [params |-> e[2], blk |-> e[3], env |-> env])]]
       [] e[1] = "un" /\ e[2] = "NOT" -> As(Bool(IsFalse(a.v)), a.s)
       [] e[1] = "un" /\ e[2] = "UNM" ->
            Or(IF IsNumber(a.v) THEN rawarith("SUB", Int_(0), a.v) ELSE None, a.s, NameOf(e[3]))
       [] e[1] = "un" /\ e[2] = "LEN" ->
            Or(objlen(a.s, a.v), a.s, IF IsNumber(a.v) THEN "" ELSE NameOf(e[3]))
       [] e[1] = "bin" /\ e[2] = "AND" -> IF IsFalse(a.v) THEN As(a.v, a.s) ELSE As(b.v, b.s)
       [] e[1] = "bin" /\ e[2] = "OR" -> IF IsFalse(a.v) THEN As(b.v, b.s) ELSE As(a.v, a.s)
       [] e[1] = "bin" /\ e[2] \in Arith -> Or(Arith2(e[2], a.v, b.v), b.s, NameOf(IF IsNumber(a.v) THEN e[4] ELSE e[3]))
       [] e[1] = "bin" /\ e[2] \in {"EQ", "NE", "LT", "LE", "GT", "GE"} ->
            As(IF e[2] \in {"EQ", "NE"} \/ Comparable(a.v, b.v)
               THEN Bool(Compare(e[2], a.v, b.v)) ELSE None, b.s)
       [] e[1] = "idx" -> Or(IF t.v[1] = "tab" THEN Get(k.s, t.v, k.v) ELSE None, k.s, NameOf(e[2]))
       [] e[1] = "tab" -> Items(e[2], 1, Len(s.heap) + 1, env, [s EXCEPT !.heap = Append(@, <<>>)])
       [] e[1] = "call" -> Apply(t.v, args.v, args.s, NameOf(e[2]))
       [] e[1] = "meth" ->
            IF t.v[1] # "tab" THEN Or(None, t.s, NameOf(e[2]))
            ELSE Apply(Get(t.s, t.v, Str(e[3])), <<t.v>> \o margs.v, margs.s, e[3])
\* Items: the fields of a constructor, i the index of the next positional one.
Items(items, i, id, env, s) ==
  LET it == items[1]
      k == Ev1(it[2], env, s)
      v == Ev1(it[3], env, k.s)
      p == Ev1(it[2], env, s)
      all == Ev(it[2], env, s)
      Put1(u, j) == Put_(u, Table(id), Int_(i + j - 1), all.v[j], "")
  IN IF items = <<>> \/ s.err THEN [v |-> <<Table(id)>>, s |-> s]
     ELSE IF it[1] = "field" THEN Items(Tail(items), i, id, env, Put_(v.s, Table(id), k.v, v.v, ""))
     ELSE IF Len(items) > 1
     THEN Items(Tail(items), i + 1, id, env, Put_(p.s, Table(id), Int_(i), p.v, ""))
     ELSE [v |-> <<Table(id)>>, s |-> FoldLeft(Put1, all.s, [j \in DOMAIN all.v |-> j])]

\* Bind: new cells for names, with values or nil.
Bind(env, s, names, vals) ==
  LET n == Len(s.cells) IN
  [env |-> [i \in DOMAIN names |-> n + i],
   s |-> [s EXCEPT !.cells = @ \o [i \in DOMAIN names |-> IF i <= Len(vals) THEN vals[i] ELSE Nil]],
   names |-> names, outer |-> env]
EnvOf(b) ==
  [x \in DOMAIN b.outer \cup Range(b.names) |->
     IF x \in Range(b.names) THEN b.env[Max({i \in DOMAIN b.names : b.names[i] = x})] ELSE b.outer[x]]
Apply(f, args, s, name) ==
  LET c == s.clos[f[2]]
      b == Bind(c.env, s, c.params, args)
      r == Stmts(c.blk, EnvOf(b), b.s)
      h == Host(f[2], args, s)
  IN IF s.err THEN [v |-> <<>>, s |-> s]
     ELSE IF f[1] = "fun"
     THEN [v |-> IF r.sig = "return" THEN r.res ELSE <<>>, s |-> [r EXCEPT !.sig = ""]]
     ELSE IF f[1] = "nat" THEN [v |-> h.res, s |-> h.s] ELSE [v |-> <<>>, s |-> Blame(s, name)]

\* Places: where each target of an assignment is.
Places(targets, env, s) ==
  LET e == targets[1]
      t == Ev1(e[2], env, s)
      k == Ev1(e[3], env, t.s)
      rest == Places(Tail(targets), env, IF e[1] = "idx" THEN k.s ELSE s)
      p == IF e[1] = "idx" THEN <<"in", t.v, k.v, NameOf(e[2])>>
           ELSE IF e[2] \in DOMAIN env THEN <<"cell", env[e[2]]>> ELSE <<"in", Table(1), Str(e[2]), "">>
  IN IF targets = <<>> THEN [v |-> <<>>, s |-> s] ELSE [v |-> <<p>> \o rest.v, s |-> rest.s]
Store(s, p, v) ==
  IF p[1] = "cell" THEN [s EXCEPT !.cells[p[2]] = v] ELSE Put_(s, p[2], p[3], v, p[4])
Assign(s, places, vals) ==
  FoldRight(LAMBDA i, t : Store(t, places[i], IF i <= Len(vals) THEN vals[i] ELSE Nil),
            [i \in DOMAIN places |-> i], s)

\* Stmts: the statements of a block; a variable to be closed is closed at its end.
Stmts(blk, env, s) ==
  LET st == blk[1]
      es == Evs(st[4], env, s)
      b == Bind(env, es.s, st[2], es.v)
      rest == Stmts(Tail(blk), EnvOf(b), b.s)
      tbc == {i \in DOMAIN st[3] : st[3][i] = "close"}
      v == b.s.cells[b.env[Max(tbc)]]
      fn == Bind(env, s, <<st[2]>>, <<Closure(Len(s.clos) + 1)>>)
      f == Ev(<<"fun", st[3], st[4]>>, EnvOf(fn), fn.s)
  IN IF blk = <<>> \/ s.err \/ s.sig # "" THEN s
     ELSE IF st[1] = "local"
     THEN IF tbc = {} \/ b.s.err \/ IsFalse(v) THEN rest
          ELSE IF v[1] # "clo" THEN Blame(b.s, st[2][Max(tbc)]) ELSE Seen(rest, <<"close", v>>)
     ELSE IF st[1] = "localfun" THEN Stmts(Tail(blk), EnvOf(fn), f.s)
     ELSE Stmts(Tail(blk), env, Exec(st, env, s))
\* Once: the blk of a loop, with new variables.
Once(names, vals, blk, env, s) ==
  LET b == Bind(env, s, names, vals) IN Stmts(blk, EnvOf(b), b.s)
Left(s) == s.err \/ s.sig # ""
AfterLoop(s) == IF s.sig = "break" THEN [s EXCEPT !.sig = ""] ELSE s
While(c, blk, env, s) ==
  LET t == Ev1(c, env, s)
      u == Stmts(blk, env, t.s)
  IN IF t.s.err \/ IsFalse(t.v) THEN t.s ELSE IF Left(u) THEN AfterLoop(u) ELSE While(c, blk, env, u)
If(clauses, other, env, s) ==
  LET t == Ev1(clauses[1][1], env, s) IN
  IF clauses = <<>> THEN Stmts(other, env, s)
  ELSE IF t.s.err THEN t.s
  ELSE IF IsFalse(t.v) THEN If(Tail(clauses), other, env, t.s) ELSE Stmts(clauses[1][2], env, t.s)
\* For: the values of the variable are those between i and lim, in steps of st[4].
For(i, lim, st, env, s) ==
  LET on == IF i.step > 0 THEN i.v <= lim ELSE i.v >= lim
      u == Once(<<st[2]>>, <<Int_(i.v)>>, st[6], env, s)
  IN IF ~on THEN s ELSE IF Left(u) THEN AfterLoop(u)
     ELSE For([i EXCEPT !.v = @ + i.step], lim, st, env, u)
ForIn(f, ctl, st, env, s) ==
  LET r == Apply(f[1], <<f[2], ctl>>, s, "for iterator")
      u == Once(st[2], r.v, st[4], env, r.s)
  IN IF r.s.err \/ Value(r) = Nil THEN r.s
     ELSE IF Left(u) THEN AfterLoop(u) ELSE ForIn(f, Value(r), st, env, u)
Exec(st, env, s) ==
  LET es == Evs(st[3], env, s)
      pl == Places(st[2], env, s)
      vs == Evs(st[3], env, pl.s)
      p1 == Places(<<st[2]>>, env, s)
      now == Ev1(st[2], env, s)
      by == Ev1(st[4], env, now.s)
      sum == Arith2(st[3], now.v, by.v)
      lo == Ev1(st[3], env, s)
      hi == Ev1(st[4], env, lo.s)
      step == Ev1(st[5], env, hi.s)
      four == es.v \o <<Nil, Nil, Nil, Nil>>
      loop == ForIn(four, four[3], st, env, es.s)
      def == Ev(<<"fun", st[3], st[4]>>, env, s)
      called == Ev(st[2], env, s).s
      rets == Evs(st[2], env, s)
  IN CASE st[1] = "expr" -> called
       [] st[1] = "set" -> IF vs.s.err THEN vs.s ELSE Assign(vs.s, pl.v, vs.v)
       [] st[1] = "aug" ->
            IF by.s.err \/ sum = None THEN Bad(by.s) ELSE Store(by.s, p1.v[1], sum)
       [] st[1] = "def" -> LET p == Places(<<st[2]>>, env, def.s) IN Store(p.s, p.v[1], def.v[1])
       [] st[1] = "do" -> Stmts(st[2], env, s)
       [] st[1] = "while" -> While(st[2], st[3], env, s)
       [] st[1] = "if" -> If(st[2], st[3], env, s)
       [] st[1] = "for" ->
            IF step.s.err \/ {lo.v[1], hi.v[1], step.v[1]} # {"int"} \/ step.v[2] = 0 THEN Bad(step.s)
            ELSE For([v |-> lo.v[2], step |-> step.v[2]], hi.v[2], st, env, step.s)
       [] st[1] = "forin" ->
            IF es.s.err THEN es.s
            ELSE IF IsFalse(four[4]) THEN loop
            ELSE IF four[4][1] # "clo" THEN Blame(es.s, "(for state)") ELSE Seen(loop, <<"close", four[4]>>)
       [] st[1] = "return" -> IF rets.s.err THEN rets.s
                              ELSE [rets.s EXCEPT !.sig = "return", !.res = rets.v]
       [] st[1] = "break" -> [s EXCEPT !.sig = "break"]

\* The meaning of a chunk: what its host sees.
Meaning(chunk) ==
  LET s == Stmts(chunk, <<>>,
             [cells |-> <<>>, heap |-> <<GlobalTable>>, clos |-> <<>>, out |-> <<>>,
              err |-> FALSE, blame |-> "", sig |-> "", res |-> <<>>])
  IN IF s.err THEN Append(s.out, <<"error", s.blame>>)
     ELSE Append(s.out, <<"return", IF s.sig = "return" THEN s.res ELSE <<>>>>)
=============================================================================
