---------------------------- MODULE MCLauCompile ----------------------------
(***************************************************************************)
(* Chunks for the compiler and the interpreter, their tokens, and what     *)
(* their execution must agree with.                                        *)
(***************************************************************************)
EXTENDS LauParser, LauMeaning, LauDump

\* Operators of these modules as constants, like Compile: TLC does not unfold a constant.
CONSTANTS MeaningOf(_), ProtosOf(_), DumpOf(_), UndumpOf(_), NameIn(_)

(***************************************************************************)
(* The tokens of a syntax tree.  'doc' says whether operators of different *)
(* levels are written without parentheses, with the priorities that the    *)
(* comments of lparser.c give; otherwise only arithmetic ones are.         *)
(***************************************************************************)
DocPriority == [o \in Range(BinOprs) |->
  CASE o \in {"ADD", "SUB"} -> <<10, 10>> [] o \in {"MUL", "MOD", "DIV"} -> <<11, 11>>
    [] o = "POW" -> <<14, 13>> [] o = "AND" -> <<2, 2>> [] o = "OR" -> <<1, 1>>
    [] OTHER -> <<3, 3>>]
T(t) == <<[t |-> t, v |-> "", line |-> 0]>>
Name(n) == <<[t |-> "name", v |-> n, line |-> 0]>>
Lit(v) == <<[t |-> CASE v = Nil -> "nil" [] v = True -> "true" [] v = False -> "false"
                     [] v[1] = "str" -> "string" [] OTHER -> v[1], v |-> v, line |-> 0]>>
NL == T("newline")
RECURSIVE Join(_), Clauses(_, _), UE(_, _), UB(_, _), US(_, _)
Join(parts) ==          \* separated by commas
  IF parts = <<>> THEN <<>>
  ELSE parts[1] \o IF Len(parts) = 1 THEN <<>> ELSE T(",") \o Join(Tail(parts))
Names(ns) == Join([i \in DOMAIN ns |-> Name(ns[i])])
OpToken(o) == BinTokens[CHOOSE i \in DOMAIN BinOprs : BinOprs[i] = o]
IsName(k) == k[1] = "k" /\ k[2][1] = "str"

UEs(es, doc) == Join([i \in DOMAIN es |-> UE(es[i], doc)])
Paren(toks) == T("(") \o toks \o T(")")
\* Bare: may 'child' stand next to operator o, on its left or right, without parentheses?
Bare(o, child, doc, left) ==
  CASE child[1] = "bin" ->
         /\ doc \/ (o \in Arith /\ child[2] \in Arith)
         /\ IF left THEN DocPriority[o][1] <= DocPriority[child[2]][2]
            ELSE DocPriority[child[2]][1] > DocPriority[o][2]
    [] child[1] = "un" -> ~(left /\ o = "POW")
    [] OTHER -> TRUE
Operand(o, child, doc, left) ==
  IF Bare(o, child, doc, left) THEN UE(child, doc) ELSE Paren(UE(child, doc))
Prefix(e, doc) == IF e[1] \in {"var", "idx", "call", "meth", "par"} THEN UE(e, doc) ELSE Paren(UE(e, doc))
Arguments(es, doc) == IF Len(es) = 1 /\ (IsName(es[1]) \/ es[1][1] = "tab") THEN UE(es[1], doc) ELSE Paren(UEs(es, doc))
Function(params, blk, doc) == Paren(Names(params)) \o NL \o UB(blk, doc) \o T("end")
Field(it, doc) ==
  CASE it[1] = "item" -> UE(it[2], doc)
    [] IsName(it[2]) -> Name(it[2][2][2]) \o T("=") \o UE(it[3], doc)
    [] OTHER -> T("[") \o UE(it[2], doc) \o T("]") \o T("=") \o UE(it[3], doc)
UE(e, doc) ==
  CASE e[1] = "k" -> Lit(e[2])
    [] e[1] = "var" -> Name(e[2])
    [] e[1] = "par" -> Paren(UE(e[2], doc))
    [] e[1] = "un" -> T(CASE e[2] = "NOT" -> "not" [] e[2] = "UNM" -> "-" [] OTHER -> "#")
                        \o IF e[3][1] = "bin" /\ e[3][2] # "POW" THEN Paren(UE(e[3], doc)) ELSE UE(e[3], doc)
    [] e[1] = "bin" -> Operand(e[2], e[3], doc, TRUE) \o T(OpToken(e[2])) \o Operand(e[2], e[4], doc, FALSE)
    [] e[1] = "idx" -> Prefix(e[2], doc) \o IF IsName(e[3]) THEN T(".") \o Name(e[3][2][2])
                                            ELSE T("[") \o UE(e[3], doc) \o T("]")
    [] e[1] = "call" -> Prefix(e[2], doc) \o Arguments(e[3], doc)
    [] e[1] = "meth" -> Prefix(e[2], doc) \o T(":") \o Name(e[3]) \o Arguments(e[4], doc)
    [] e[1] = "fun" -> T("function") \o Function(e[2], e[3], doc)
    [] e[1] = "tab" -> T("{") \o Join([i \in DOMAIN e[2] |-> Field(e[2][i], doc)]) \o T("}")
Attrib(name, a) == Name(name) \o IF a = "" THEN <<>> ELSE T("<") \o Name(a) \o T(">")
Clauses(cs, doc) ==     \* the first one without its keyword
  IF cs = <<>> THEN <<>>
  ELSE UE(cs[1][1], doc) \o T("then") \o NL \o UB(cs[1][2], doc)
         \o IF Len(cs) = 1 THEN <<>> ELSE T("elseif") \o Clauses(Tail(cs), doc)
US(s, doc) ==
  CASE s[1] = "local" -> T("local") \o Join([i \in DOMAIN s[2] |-> Attrib(s[2][i], s[3][i])])
                           \o IF s[4] = <<>> THEN <<>> ELSE T("=") \o UEs(s[4], doc)
    [] s[1] = "localfun" -> T("local") \o T("function") \o Name(s[2]) \o Function(s[3], s[4], doc)
    [] s[1] = "def" -> T("function") \o UE(s[2], doc) \o Function(s[3], s[4], doc)
    [] s[1] = "expr" -> UE(s[2], doc)
    [] s[1] = "set" -> UEs(s[2], doc) \o T("=") \o UEs(s[3], doc)
    [] s[1] = "aug" -> UE(s[2], doc)
         \o T(CASE s[3] = "ADD" -> "+=" [] s[3] = "SUB" -> "-=" [] s[3] = "MUL" -> "*=" [] OTHER -> "/=")
         \o UE(s[4], doc)
    [] s[1] = "do" -> T("do") \o NL \o UB(s[2], doc) \o T("end")
    [] s[1] = "while" -> T("while") \o UE(s[2], doc) \o T("do") \o NL \o UB(s[3], doc) \o T("end")
    [] s[1] = "if" -> T("if") \o Clauses(s[2], doc)
         \o (IF s[3] = <<>> THEN <<>> ELSE T("else") \o NL \o UB(s[3], doc)) \o T("end")
    [] s[1] = "for" -> T("for") \o Name(s[2]) \o T("=") \o UEs(<<s[3], s[4], s[5]>>, doc)
                         \o T("do") \o NL \o UB(s[6], doc) \o T("end")
    [] s[1] = "forin" -> T("for") \o Names(s[2]) \o UEs(s[3], doc) \o T("do") \o NL \o UB(s[4], doc) \o T("end")
    [] s[1] = "return" -> T("return") \o UEs(s[2], doc)
    [] s[1] = "break" -> T("break")
UB(blk, doc) == IF blk = <<>> THEN <<>> ELSE US(blk[1], doc) \o NL \o UB(Tail(blk), doc)
\* Lines: the tokens with the lines they are on; all on one if 'one'.
Lines(toks, one) ==
  LET ends == {i \in DOMAIN toks : toks[i].t = "newline"}
      Line(i) == IF one THEN 1 ELSE 1 + Cardinality({e \in ends : e < i})
      numbered == [i \in DOMAIN toks |-> [toks[i] EXCEPT !.line = Line(i)]]
      IsToken(t) == t.t # "newline"
  IN Append(SelectSeq(numbered, IsToken), [t |-> "eof", v |-> "", line |-> Line(Len(toks))])
\* 'written': whether to check its precompiled form and its lines too.
Text(ast, doc, one, rejects, written) ==
  [ast |-> ast, toks |-> Lines(UB(ast, doc), one), rejects |-> rejects, written |-> written]
Chunk(ast) == Text(ast, FALSE, FALSE, FALSE, TRUE)
Oneline(ast) == Text(ast, FALSE, TRUE, FALSE, TRUE)
Rejected(ast) == Text(ast, FALSE, FALSE, TRUE, TRUE)
RejectedLine(ast) == Text(ast, FALSE, TRUE, TRUE, TRUE)

(***************************************************************************)
(* Short names for syntax                                                  *)
(***************************************************************************)
V(x) == <<"var", x>>
N(i) == <<"k", Int_(i)>>
S(x) == <<"k", Str(x)>>
F(p, q) == <<"k", Flt(p, q)>>
Bin(o, a, b) == <<"bin", o, a, b>>
Un(o, a) == <<"un", o, a>>
Idx(t, k) == <<"idx", t, k>>
CallE(f, args) == <<"call", V(f), args>>
Out(args) == CallE("out", args)
Do(e) == <<"expr", e>>
Say(e) == Do(Out(<<e>>))
Let(names, es) == <<"local", names, [i \in DOMAIN names |-> ""], es>>
Set(ts, es) == <<"set", ts, es>>
Fun(params, blk) == <<"fun", params, blk>>
Ret(es) == <<"return", es>>
Break == <<"break">>
IfThen(c, blk) == <<"if", <<<<c, blk>>>>, <<>>>>
Tab(es) == <<"tab", [i \in DOMAIN es |-> <<"item", es[i]>>]>>

(***************************************************************************)
(* Expressions: every one of depth two over these leaves, in seven places  *)
(***************************************************************************)
Pairs(Make(_, _, _), ops, xs, ys) ==
  LET n == Len(xs) * Len(ys)
      At2(i) == Make(ops[(i \div n) + 1], xs[((i % n) \div Len(ys)) + 1], ys[(i % Len(ys)) + 1])
  IN [i \in 1..(Len(ops) * n) |-> At2(i - 1)]
Nots(xs) == [i \in DOMAIN xs |-> Un("NOT", xs[i])]
Leaves == <<V("a"), Out(<<V("b")>>), N(1)>>
Depth1 == Leaves \o Nots(Leaves) \o Pairs(Bin, <<"AND", "OR", "EQ", "LT", "ADD">>, Leaves, Leaves)
Depth2 == Nots(Depth1) \o Pairs(Bin, <<"AND", "OR", "NE", "ADD">>, Depth1, Leaves)
            \o Pairs(Bin, <<"AND", "OR", "LE">>, Leaves, Depth1)
Expressed(ast) == Text(ast, FALSE, FALSE, FALSE, FALSE)
Contexts(e, va, vb) ==
  Expressed(<<Let(<<"a", "b">>, <<va, vb>>),
          Say(e),
          Let(<<"z">>, <<e>>),
          Say(V("z")),
          <<"if", <<<<e, <<Say(S("a"))>>>>>>, <<Say(S("b"))>>>>,
          Set(<<V("z"), V("g")>>, <<Tab(<<V("z"), N(2)>>), e>>),
          Set(<<Idx(V("z"), e)>>, <<e>>),
          Say(Idx(V("z"), V("g"))),
          Ret(<<Un("NOT", e)>>)>>)

(***************************************************************************)
(* Statements                                                              *)
(***************************************************************************)
Attribs(names, as, es) == <<"local", names, as, es>>
Loop(v, a, b, c, blk) == <<"for", v, N(a), N(b), c, blk>>
AddTo(x, e) == Set(<<V(x)>>, <<Bin("ADD", V(x), e)>>)
File(n) == CallE("file", <<N(n)>>)
Many(n) == [i \in 1..n |-> N(100 + i)]
Statements == <<
  \* closures made in a loop have a variable of their own each, shared by the two of them
  Chunk(<<Let(<<"t">>, <<Tab(<<>>)>>),
          Loop("i", 1, 3, N(1),
            <<Let(<<"x">>, <<V("i")>>),
              Set(<<Idx(V("t"), V("i"))>>, <<Fun(<<"d">>, <<AddTo("x", V("d")), Ret(<<V("x")>>)>>)>>),
              IfThen(Bin("EQ", V("i"), N(2)), <<Set(<<V("get")>>, <<Fun(<<>>, <<Ret(<<V("x")>>)>>)>>), Break>>),
              AddTo("x", N(5))>>),
          Say(<<"call", Idx(V("t"), N(1)), <<N(3)>>>>), Say(<<"call", Idx(V("t"), N(1)), <<N(3)>>>>),
          Say(<<"call", Idx(V("t"), N(2)), <<N(4)>>>>), Say(CallE("get", <<>>))>>),
  \* break leaves two blocks, one with a captured variable, one with a variable to be closed
  Chunk(<<Let(<<"i">>, <<N(0)>>),
          <<"while", Bin("LT", V("i"), N(3)), <<
            AddTo("i", N(1)),
            Attribs(<<"f">>, <<"close">>, <<File(7)>>),
            <<"do", <<Let(<<"u">>, <<V("i")>>), Set(<<V("g")>>, <<Fun(<<>>, <<Ret(<<V("u")>>)>>)>>),
                      IfThen(Bin("EQ", V("u"), N(2)), <<Break>>), Say(V("u"))>>>>,
            Say(CallE("g", <<>>))>>>>,
          Say(CallE("g", <<>>)), Say(V("i"))>>),
  \* targets that use the variables they assign
  Chunk(<<Let(<<"t", "i">>, <<Tab(<<N(1), N(2), N(3)>>), N(1)>>), Let(<<"u">>, <<V("t")>>),
          Set(<<V("i"), Idx(V("t"), V("i"))>>, <<N(2), N(9)>>), Say(Idx(V("u"), N(1))),
          Set(<<Idx(V("t"), V("i")), V("t"), V("i")>>, <<N(8), N(7), N(6)>>), Say(Idx(V("u"), N(2))), Say(V("t")),
          Set(<<V("t"), V("i")>>, <<V("i"), V("t")>>), Say(V("t")), Say(V("i")),
          <<"localfun", "f", <<>>, <<Set(<<Idx(V("u"), S("a")), V("u")>>, <<N(4), N(5)>>), Ret(<<V("u")>>)>>>>,
          Let(<<"w">>, <<V("u")>>), Say(CallE("f", <<>>)), Say(Idx(V("w"), S("a")))>>),
  \* missing and extra values, open calls in every position
  Chunk(<<Let(<<"a", "b", "c">>, <<CallE("three", <<>>)>>), Do(Out(<<V("a"), V("b"), V("c")>>)),
          Let(<<"d", "e">>, <<CallE("three", <<>>), N(7), N(8)>>), Do(Out(<<V("d"), V("e")>>)),
          Let(<<"x", "y", "z">>, <<N(4), CallE("three", <<>>)>>), Do(Out(<<V("x"), V("y"), V("z")>>)),
          Do(Out(<<CallE("three", <<>>), CallE("three", <<>>)>>)),
          Do(Out(<<<<"par", CallE("three", <<>>)>>>>)),
          Set(<<V("a"), V("b"), V("c")>>, <<N(6), CallE("three", <<>>)>>), Do(Out(<<V("a"), V("b"), V("c")>>)),
          Set(<<V("a"), V("b")>>, <<N(1)>>), Do(Out(<<V("a"), V("b"), V("g")>>)),
          Do(Out(<<Un("LEN", Tab(<<CallE("three", <<>>), CallE("three", <<>>)>>))>>)),
          Ret(<<N(5), CallE("three", <<>>)>>)>>),
  \* constructors: more items than one SETLIST stores, than its C counts; fields among them
  Chunk(<<Let(<<"t">>, <<Tab(Many(60))>>), Say(Un("LEN", V("t"))), Say(Idx(V("t"), N(51))),
          Let(<<"u">>, <<<<"tab", <<<<"item", N(1)>>, <<"field", S("x"), N(2)>>, <<"item", V("q")>>,
                           <<"field", N(9), Tab(<<N(3)>>)>>, <<"field", Bin("ADD", N(4), N(4)), S("e")>>,
                           <<"item", CallE("three", <<>>)>>>>>>>>),
          Do(Out(<<Un("LEN", V("u")), Idx(V("u"), S("x")), Idx(Idx(V("u"), N(9)), N(1)), Idx(V("u"), N(8)),
                   Idx(V("u"), N(5))>>))>>),
  \* more constants than LOADK and the RK operands reach
  Chunk(<<Let(<<"t">>, <<Tab([i \in 1..36 |-> IF i % 2 = 0 THEN N(100 + i) ELSE S("a")])>>),
          Say(Idx(V("t"), N(36))),
          Set(<<Idx(V("t"), S("m"))>>, <<Fun(<<"self", "x">>, <<Ret(<<V("x")>>)>>)>>),
          Say(<<"meth", V("t"), "m", <<N(3)>>>>),
          Set(<<Idx(V("t"), S("n"))>>, <<S("b")>>), Say(Bin("EQ", Idx(V("t"), S("n")), S("b"))),
          Say(Bin("ADD", N(200), Idx(V("t"), N(2)))), Say(Bin("MUL", Idx(V("t"), N(2)), N(300)))>>),
  \* methods, fields of fields, definitions by path
  Chunk(<<Let(<<"o">>, <<<<"tab", <<<<"field", S("n"), N(5)>>, <<"field", S("in"), Tab(<<>>)>>>>>>>>),
          <<"def", Idx(V("o"), S("m")), <<"self", "d">>,
             <<Set(<<Idx(V("self"), S("n"))>>, <<Bin("SUB", Idx(V("self"), S("n")), V("d"))>>), Ret(<<V("self"), V("d")>>)>>>>,
          <<"def", Idx(Idx(V("o"), S("in")), S("f")), <<>>, <<Ret(<<Idx(V("o"), S("n"))>>)>>>>,
          Do(<<"meth", <<"meth", V("o"), "m", <<N(1)>>>>, "m", <<N(2)>>>>),
          Say(<<"call", Idx(Idx(V("o"), S("in")), S("f")), <<>>>>),
          Set(<<Idx(V("o"), V("o"))>>, <<V("o")>>), Say(Idx(Idx(Idx(V("o"), V("o")), V("o")), S("n")))>>),
  \* recursion, tail calls, a callee with more and with fewer parameters, a native one
  Chunk(<<<<"localfun", "loop", <<"n", "acc">>,
             <<IfThen(Bin("EQ", V("n"), N(0)), <<Ret(<<V("acc")>>)>>),
               Let(<<"up">>, <<V("n")>>), Set(<<V("keep")>>, <<Fun(<<>>, <<Ret(<<V("up")>>)>>)>>),
               Ret(<<CallE("loop", <<Bin("SUB", V("n"), N(1)), Bin("ADD", V("acc"), V("n")), N(9)>>)>>)>>>>,
          <<"localfun", "fact", <<"n">>,
             <<IfThen(Bin("LE", V("n"), N(1)), <<Ret(<<N(1)>>)>>),
               Ret(<<Bin("MUL", V("n"), CallE("fact", <<Bin("SUB", V("n"), N(1))>>))>>)>>>>,
          <<"localfun", "show", <<"x">>, <<Ret(<<CallE("out", <<V("x"), V("y")>>)>>)>>>>,
          Do(Out(<<CallE("loop", <<N(4), N(0)>>), CallE("fact", <<N(4)>>), CallE("keep", <<>>), CallE("show", <<N(1)>>)>>)),
          Ret(<<CallE("show", <<N(2)>>)>>)>>),
  \* numeric loops of every direction and kind of bounds
  Chunk(<<Loop("i", 3, 1, Un("UNM", N(1)), <<Say(V("i"))>>), Loop("i", 1, 3, N(2), <<Say(V("i"))>>),
          Loop("i", 3, 1, N(1), <<Say(V("i"))>>),
          <<"for", "i", N(1), N(2), CallE("out", <<N(1)>>), <<Let(<<"j">>, <<V("i")>>), AddTo("j", N(1)), Say(V("j"))>>>>,
          Loop("i", 1, 2, N(1), <<Loop("j", 1, 2, N(1), <<IfThen(Bin("LT", V("i"), V("j")), <<Break>>), Do(Out(<<V("i"), V("j")>>))>>)>>)>>),
  Chunk(<<Loop("i", 1, 2, N(0), <<Say(V("i"))>>)>>),
  \* generic loops, with a closing value, left in the middle, by an error
  Chunk(<<Let(<<"t">>, <<Tab(<<N(4), N(5), N(6)>>)>>),
          <<"forin", <<"i", "v">>, <<V("iter"), V("t")>>, <<Do(Out(<<V("i"), V("v")>>)),
             Set(<<V("g")>>, <<Fun(<<>>, <<Ret(<<V("v")>>)>>)>>)>>>>,
          <<"forin", <<"i", "v">>, <<V("iter"), V("t"), N(1), File(1)>>,
             <<IfThen(Bin("EQ", V("i"), N(3)), <<Break>>), Do(Out(<<V("v"), CallE("g", <<>>)>>))>>>>,
          <<"forin", <<"i", "v">>, <<Fun(<<"s", "c">>, <<Ret(<<CallE("iter", <<V("s"), V("c")>>)>>)>>), V("t"), N(0), File(2)>>,
             <<Say(V("v")), IfThen(Bin("EQ", V("v"), N(5)), <<Ret(<<V("v")>>)>>)>>>>>>),
  Chunk(<<<<"forin", <<"i", "v">>, <<V("iter"), Tab(<<N(4), S("a")>>), N(0), File(1)>>, <<Say(Bin("LT", V("v"), N(3)))>>>>>>),
  Chunk(<<<<"forin", <<"i", "v">>, <<V("iter"), Tab(<<>>), N(0), N(1)>>, <<Say(N(1))>>>>>>),
  \* variables to be closed: order, early return with results, errors, nothing to close
  Chunk(<<<<"localfun", "f", <<"x">>,
             <<Attribs(<<"a">>, <<"close">>, <<File(1)>>), Attribs(<<"b", "c">>, <<"", "close">>, <<N(0), File(2)>>),
               Attribs(<<"n">>, <<"close">>, <<V("q")>>),
               IfThen(V("x"), <<Attribs(<<"d">>, <<"close">>, <<File(3)>>), Ret(<<V("x"), CallE("three", <<>>)>>)>>),
               Ret(<<CallE("out", <<V("b")>>)>>)>>>>,
          Do(Out(<<CallE("f", <<N(4)>>)>>)), Do(Out(<<CallE("f", <<>>)>>)),
          Attribs(<<"e">>, <<"close">>, <<File(5)>>), Say(Idx(V("q"), N(1)))>>),
  Chunk(<<Attribs(<<"e">>, <<"close">>, <<N(5)>>)>>),
  \* constants, some known when compiling; upvalues of upvalues
  Chunk(<<Attribs(<<"k">>, <<"const">>, <<N(4)>>), Attribs(<<"s", "m">>, <<"const", "const">>, <<S("a"), S("b")>>),
          Attribs(<<"nilk">>, <<"const">>, <<<<"k", Nil>>>>), Attribs(<<"dyn">>, <<"const">>, <<Out(<<N(6)>>)>>),
          Let(<<"x">>, <<V("k")>>),
          <<"localfun", "outer", <<>>,
             <<Let(<<"y">>, <<Bin("ADD", V("k"), V("x"))>>),
               Ret(<<Fun(<<>>, <<AddTo("x", N(1)), AddTo("y", V("x")), Do(Out(<<V("m"), V("s"), V("nilk"), V("dyn"), V("x")>>)),
                              Ret(<<V("y")>>)>>)>>)>>>>,
          Let(<<"g">>, <<CallE("outer", <<>>)>>), Say(CallE("g", <<>>)), Say(CallE("g", <<>>)), Say(V("x")),
          IfThen(V("nilk"), <<Say(N(1))>>), <<"while", V("nilk"), <<Say(N(2))>>>>>>),
  \* arithmetic: folding, immediate and constant operands, strings, mixed numbers; the divisions
  \* and powers of numbers made at run time have no integral result (OP_DIV would leave a float)
  Chunk(<<Let(<<"x", "s", "h">>, <<N(6), S("a"), Bin("DIV", N(1), N(2))>>),
          Do(Out(<<Bin("ADD", V("x"), N(2)), Bin("SUB", V("x"), N(2)), Bin("SUB", N(2), V("x")), Bin("ADD", N(2), V("x")),
                   Bin("ADD", V("x"), N(77)), Bin("SUB", V("x"), N(77)), Bin("MUL", V("x"), N(3)), Bin("MOD", V("x"), N(4)),
                   Bin("DIV", V("x"), N(4)), Bin("POW", V("x"), Un("UNM", N(2))), Bin("DIV", N(9), N(3)), Bin("MOD", Un("UNM", N(5)), N(3)),
                   Bin("POW", N(2), N(3)), Bin("DIV", V("x"), S("3")), Bin("POW", V("x"), S("2")), Bin("MUL", V("h"), S("2")),
                   Bin("MOD", V("x"), Un("UNM", N(4))), Bin("ADD", V("h"), N(1)), Bin("MUL", V("h"), V("x"))>>)),
          Do(Out(<<Bin("ADD", V("s"), V("x")), Bin("ADD", V("s"), N(1)), Bin("ADD", N(1), V("s")), Bin("ADD", V("x"), S("2")),
                   Bin("MUL", V("x"), S("3")), Bin("ADD", V("s"), S("b")), Un("UNM", V("x")), Un("LEN", N(9)), Un("LEN", V("s")),
                   Bin("ADD", Bin("MUL", N(2), V("x")), Bin("POW", N(2), Bin("POW", N(1), N(3)))),
                   Bin("SUB", Bin("SUB", V("x"), N(1)), Bin("SUB", V("x"), N(2))), Un("UNM", Bin("POW", V("x"), Un("UNM", N(1)))),
                   Bin("DIV", Bin("MUL", V("x"), V("x")), N(8)), Bin("DIV", N(1), V("x")), Bin("POW", V("h"), V("x"))>>)),
          Do(Out(<<Bin("LT", V("x"), N(7)), Bin("LE", N(6), V("x")), Bin("GT", V("x"), N(7)), Bin("GE", V("x"), V("h")),
                   Bin("LT", V("h"), V("x")), Bin("EQ", V("x"), Bin("ADD", N(5), N(1))), Bin("NE", V("x"), S("6")), Bin("LT", S("a"), S("b")),
                   Bin("GT", N(80), V("x")), Bin("EQ", N(80), V("x")), Bin("EQ", S("a"), V("s")), Bin("NE", <<"k", Nil>>, V("q"))>>)),
          <<"aug", V("x"), "ADD", N(3)>>, Say(V("x")), <<"aug", V("x"), "SUB", Bin("MUL", V("x"), N(2))>>, Say(V("x")),
          <<"aug", V("x"), "MUL", Un("UNM", N(2))>>, Say(V("x")), <<"aug", V("x"), "DIV", N(4)>>, Say(V("x"))>>),
  \* square roots: integers, floats, the negative ones
  Chunk(<<Let(<<"x">>, <<N(2)>>), Do(Out(<<Un("LEN", V("x")), Un("LEN", F(9, 4)), Un("LEN", F(16, 1)), Un("LEN", N(0)),
                                           Bin("ADD", Un("LEN", N(2047)), V("x"))>>)),
          Set(<<V("x")>>, <<Un("UNM", V("x"))>>), Say(Un("LEN", V("x")))>>),
  Chunk(<<Say(Bin("ADD", <<"k", Nil>>, N(1)))>>), Chunk(<<Say(Bin("LT", N(1), S("a")))>>),
  Chunk(<<Let(<<"x">>, <<S("a")>>), Say(Bin("LT", V("x"), N(3)))>>), Chunk(<<Say(Bin("DIV", N(1), N(0)))>>),
  Chunk(<<Say(Un("LEN", V("q")))>>), Chunk(<<Say(Un("UNM", V("q")))>>), Chunk(<<Do(CallE("q", <<>>))>>),
  Chunk(<<Ret(<<CallE("q", <<>>)>>)>>), Chunk(<<Set(<<Idx(V("q"), N(1))>>, <<N(1)>>)>>),
  Chunk(<<Do(<<"meth", V("q"), "m", <<>>>>)>>), Chunk(<<Say(Bin("ADD", V("q"), V("q")))>>),
  \* errors of named values: a variable after one that has ended, an upvalue, fields, methods
  Chunk(<<<<"do", <<Let(<<"a", "b">>, <<N(1), N(2)>>)>>>>, Do(CallE("q", <<>>))>>),
  Chunk(<<Let(<<"u">>, <<>>), <<"localfun", "f", <<"x">>, <<Do(CallE("u", <<V("x")>>))>>>>, Do(CallE("f", <<N(1)>>))>>),
  Chunk(<<Let(<<"t">>, <<Tab(<<>>)>>), Say(Idx(Idx(V("t"), S("x")), S("y")))>>),
  Chunk(<<Let(<<"t", "a">>, <<Tab(<<>>), S("x")>>), Do(<<"call", Idx(V("t"), V("a")), <<>>>>)>>),
  Chunk(<<Let(<<"t">>, <<Tab(<<>>)>>), Do(<<"meth", V("t"), "m", <<N(1)>>>>)>>),
  Chunk(<<Let(<<"t">>, <<Tab(<<>>)>>), Set(<<Idx(Idx(V("t"), S("x")), N(1))>>, <<N(1)>>)>>),
  Chunk(<<<<"forin", <<"i", "v">>, <<V("q"), N(1)>>, <<Say(V("i"))>>>>>>),
  Chunk(<<Say(Bin("ADD", N(1), Un("UNM", <<"par", Bin("AND", V("out"), V("q"))>>)))>>),
  Chunk(<<Do(<<"call", <<"par", Bin("OR", V("q"), V("g"))>>, <<>>>>)>>),
  Chunk(<<Let(<<"a">>, <<N(1)>>), Do(<<"call", <<"par", Bin("AND", V("a"), V("q"))>>, <<>>>>)>>),
  \* a function that ends without a return; numbers that are not integers
  Chunk(<<<<"localfun", "f", <<"x">>, <<Say(V("x"))>>>>, Do(CallE("f", <<F(2, 1)>>)), Do(CallE("f", <<F(1, 2)>>)),
          Let(<<"x">>, <<F(3, 1)>>), Say(Bin("LT", V("x"), F(4, 1))), Say(Bin("EQ", V("x"), N(3))),
          Say(Bin("GT", V("x"), N(2))), Say(Bin("ADD", F(1, 2), V("x"))), Say(Bin("MUL", F(1, 2), N(2)))>>),
  \* a chain of conditions
  Chunk(<<Loop("i", 1, 4, N(1),
            <<<<"if", <<<<Bin("LT", V("i"), N(2)), <<Say(S("a"))>>>>, <<Bin("AND", Bin("EQ", V("i"), N(2)), Un("NOT", V("q"))), <<>>>>,
                        <<Bin("OR", V("q"), Bin("GE", V("i"), N(4))), <<Say(S("b"))>>>>>>, <<Say(V("i"))>>>>>>),
          <<"if", <<<<<<"k", True>>, <<Say(N(1))>>>>, <<<<"k", Nil>>, <<Say(N(2))>>>>>>, <<>>>>,
          <<"while", Bin("AND", <<"k", True>>, N(1)), <<Let(<<"c">>, <<N(1)>>), Set(<<V("g")>>, <<Fun(<<>>, <<Ret(<<V("c")>>)>>)>>), Break>>>>,
          <<"do", <<Let(<<"a", "b">>, <<>>), Let(<<"a">>, <<V("a")>>), Let(<<"c">>, <<V("b")>>), Do(Out(<<V("a"), V("c")>>))>>>>,
          Ret(<<>>)>>),
  \* blocks on one line
  Oneline(<<IfThen(V("out"), <<Say(N(1))>>), <<"while", V("q"), <<Say(N(2))>>>>,
            <<"localfun", "f", <<>>, <<Ret(<<N(3)>>)>>>>, Say(CallE("f", <<>>))>>),
  RejectedLine(<<IfThen(V("out"), <<Say(N(1)), Say(N(2))>>)>>),
  RejectedLine(<<<<"while", V("q"), <<Say(N(1)), Say(N(2))>>>>>>),
  RejectedLine(<<IfThen(V("out"), <<IfThen(V("out"), <<Say(N(1)), Say(N(2))>>)>>)>>),
  RejectedLine(<<IfThen(V("out"), <<IfThen(V("q"), <<Say(N(1))>>), Say(N(2))>>)>>),
  RejectedLine(<<Set(<<V("f")>>, <<Fun(<<>>, <<Say(N(1)), Ret(<<N(3)>>)>>)>>)>>),
  \* programs that are not accepted
  Rejected(<<Attribs(<<"k">>, <<"const">>, <<N(4)>>), Set(<<V("k")>>, <<N(5)>>)>>),
  Rejected(<<Attribs(<<"k">>, <<"const">>, <<Out(<<>>)>>), Let(<<"f">>, <<Fun(<<>>, <<Set(<<V("k")>>, <<N(5)>>)>>)>>)>>),
  Rejected(<<Attribs(<<"k">>, <<"close">>, <<File(1)>>), <<"aug", V("k"), "ADD", N(1)>>>>),
  Rejected(<<Attribs(<<"a", "b">>, <<"close", "close">>, <<>>)>>),
  Rejected(<<Attribs(<<"a">>, <<"other">>, <<>>)>>),
  Rejected(<<Loop("i", 1, 2, N(1), <<AddTo("i", N(1))>>)>>),
  Rejected(<<<<"forin", <<"i", "v">>, <<V("iter"), V("t")>>, <<Set(<<V("i")>>, <<N(1)>>)>>>>>>),
  Rejected(<<Break>>), Rejected(<<<<"while", N(1), <<<<"localfun", "f", <<>>, <<Break>>>>>>>>>>),
  Rejected(<<Do(N(1))>>), Rejected(<<Set(<<Out(<<>>)>>, <<N(1)>>)>>), Rejected(<<Ret(<<N(2)>>), Say(N(1))>>)
>>

\* Values are the same with their subtype: 3 is not 3.0.
SameEvent(a, b) == a[1] = b[1] /\ (a[1] # "error" => a[2] = b[2])
Ended == L.status \in {"done", "error"}
\* A compiled chunk does what its source means: the same output, closings,
\* results and errors, in the same order, as the evaluation of its syntax tree,
\* integers and floats told apart (jump lists, registers, constants, upvalues
\* and operands of lparser.c and lcode.c, executed by lauV_execute).
CompiledAgrees ==
  Ended =>
    LET m == Unfold(MeaningOf, prog.ast) IN
    Len(L.out) = Len(m) /\ \A i \in DOMAIN m : SameEvent(L.out[i], m[i])
\* Exactly the chunks that the language forbids are refused: assignments to
\* constants, breaks with no loop, blocks of two statements on a line, nested
\* ones too unless the last statement is the inner block, ...
\* (check_readonly, undefgoto, the counting of statements by slStmtCount).
CompileRejects == (L.status = "rejected") <=> prog.rejects

\* The registers that an instruction uses.
UpTo(s, a, b) == {a + i : i \in 0..(IF b = 0 THEN s.top - base(s) - a - 1 ELSE b - 1)}
RK(i) == IF i.k = 0 THEN {i.C} ELSE {}
Uses(s) ==
  LET i == I(s) IN
  CASE i.op \in {"MOVE", "UNM", "NOT", "LEN", "TESTSET", "GETI", "GETFIELD", "SELF", "ADDI"} -> {i.B}
    [] i.op \in Arith \cup {"GETTABLE"} -> {i.B, i.C}
    [] i.op \in {KOp(o) : o \in Arith} -> {i.B}
    [] i.op \in {"SETUPVAL", "EQK", "EQI", "LTI", "LEI", "GTI", "GEI", "TEST", "RETURN1", "TBC",
                 "MMBINI", "MMBINK"} -> {i.A}
    [] i.op = "SETTABUP" -> RK(i)
    [] i.op = "SETTABLE" -> {i.A, i.B} \cup RK(i)
    [] i.op \in {"SETI", "SETFIELD"} -> {i.A} \cup RK(i)
    [] i.op \in {"EQ", "LT", "LE", "MMBIN"} -> {i.A, i.B}
    [] i.op \in {"CALL", "TAILCALL"} -> UpTo(s, i.A, i.B)
    [] i.op = "RETURN" -> IF i.B = 1 THEN {} ELSE UpTo(s, i.A, IF i.B = 0 THEN 0 ELSE i.B - 1)
    [] i.op = "SETLIST" -> UpTo(s, i.A, IF i.B = 0 THEN 0 ELSE i.B + 1)
    [] i.op \in {"FORPREP", "FORLOOP"} -> i.A..(i.A + 2)
    [] i.op = "TFORPREP" -> i.A..(i.A + 3)
    [] i.op = "TFORCALL" -> {i.A, i.A + 1, i.A + 3}
    [] i.op = "TFORLOOP" -> {i.A + 3}
    [] OTHER -> {}
Running == L.status = "run"
\* No instruction reads a register that nothing has set since its function
\* began or that a call has left unset, and an instruction that takes its
\* count from the top of the stack comes right after one that set it
\* (adjust_assign, lauK_nil, lauK_setreturns, isIT).
OperandsKnown ==
  Running =>
    /\ isIT(I(L)) => L.top # 0
    /\ \A r \in Uses(L) : base(L) + r \in DOMAIN L.stk /\ R(L, r) # Junk

\* The registers an error at instruction i may name.
Nameable(i) ==
  CASE i.op \in {"CALL", "TAILCALL", "SETTABLE", "SETI", "SETFIELD", "MMBINI", "MMBINK"} -> {i.A}
    [] i.op \in {"UNM", "LEN", "GETI", "GETFIELD", "SELF"} -> {i.B}
    [] i.op = "GETTABLE" -> {i.B, i.C}
    [] i.op = "MMBIN" -> {i.A, i.B}
    [] OTHER -> {}
\* The instruction that names an operand is the one that set it, whatever the path here.
Naming == {"MOVE", "GETUPVAL", "LOADK", "LOADKX", "GETTABUP", "GETTABLE", "GETI", "GETFIELD", "SELF"}
WriterFound ==
  Running =>
    \A r \in Nameable(I(L)) :
      LET at == findsetreg(P(L), ci(L).pc, r) IN
      \/ lauF_getlocalname(P(L), r + 1, ci(L).pc) # ""
      \/ at \in {-1, ci(L).setby[r]}
      \/ P(L).code[at + 1].op \notin Naming
\* The name that an error message gives to a value is the name that the
\* source gives it (varinfo, funcnamefromcode, getobjname).
NameKnown(name) == name \notin {"", "?", "integer index"}
ErrorNamed ==
  L.status = "error" =>
    LET m == Unfold(MeaningOf, prog.ast)
        name == Unfold(NameIn, [s |-> L, what |-> Last(L.out)[2]])
    IN NameKnown(name) => name = m[Len(m)][2]

RECURSIVE Protos(_)             \* a function and those in it
Protos(p) == <<p>> \o FlattenSeq([i \in DOMAIN p.p |-> Protos(p.p[i])])
\* Registers are freed in the order of a stack, and each statement leaves free
\* all those it took but for its variables (freereg, freeregs and the
\* assertions in freereg and 'statement').
RegistersBalanced ==
  Ended => LET all == Unfold(ProtosOf, prog.p) IN \A i \in DOMAIN all : all[i].balanced
\* The line of every instruction, in each of its encodings, is the line that
\* the generator was told for it, after any removals of the last instruction,
\* and 'changedline' agrees (savelineinfo, removelastlineinfo, lauG_getfuncline).
LinesDecode ==
  Ended /\ prog.written =>
    LET all == Unfold(ProtosOf, prog.p)
        Decoded(p, n) ==
          /\ lauG_getfuncline(p, n - 1) = p.lines[n]
          /\ \A m \in 1..(n - 1) : changedline(p, m - 1, n - 1) <=> p.lines[m] # p.lines[n]
    IN \A i \in DOMAIN all : \A n \in DOMAIN all[i].code : Decoded(all[i], n)

\* A chunk that is written and read back is what it was, its repeated strings
\* included, or that less its debug information; a chunk that is cut is
\* refused (lauU_dump, lauU_undump).
DumpRoundTrip ==
  Ended /\ prog.written =>
    LET p == prog.p IN
    \A strip \in BOOLEAN :
      LET data == Unfold(DumpOf, [p |-> p, strip |-> strip])
          back == Unfold(UndumpOf, data)
      IN /\ back.err = "" /\ back.v = Dumped(p, strip)
         /\ \A n \in {m \in 1..(Len(data) - 1) : m % 37 = prog.id % 37} :
              Unfold(UndumpOf, SubSeq(data, 1, n)).err # ""

Dump(f) == dump(f.p, f.strip)
ErrorNameIn(e) == ErrorName(e.s, e.what)
AllSources == Statements \o [i \in DOMAIN Depth2 |-> Contexts(Depth2[i], N(1), <<"k", Nil>>)]

\* Two operators side by side, written with as few parentheses as the documented priorities need.
Mixed ==
  LET ops == <<"ADD", "MUL", "EQ", "LT", "AND", "OR">>
      Before(o, p) == Bin(o, Bin(p, V("a"), V("a")), N(2))
      After(o, p) == Bin(o, V("a"), Bin(p, V("a"), N(2)))
      Both(k) == <<Before(ops[(k \div 6) + 1], ops[(k % 6) + 1]), After(ops[(k \div 6) + 1], ops[(k % 6) + 1])>>
  IN FlattenSeq([k \in 1..36 |-> Both(k - 1)])
DocumentedSources ==
  LET mixed == Mixed IN
  [i \in DOMAIN mixed |->
     Text(<<Let(<<"a">>, <<N(3)>>), Say(mixed[i])>>, TRUE, FALSE, FALSE, FALSE)]
\* The comments of the priority table (lparser.c:1444-1446) say that comparisons bind alike and
\* looser than arithmetic, 'and' looser than they, 'or' loosest: a program means that.
OperatorsBind == CompiledAgrees
=============================================================================
