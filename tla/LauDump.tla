------------------------------- MODULE LauDump -------------------------------
(***************************************************************************)
(* Precompiled chunks: writing a prototype (ldump.c) and reading it back   *)
(* (lundump.c).  A chunk is a sequence of bytes.  A value that is copied   *)
(* as a block of n bytes is one "block" byte that holds it and n - 1 bytes *)
(* of filling, so that a reader out of step with the writer, or with a     *)
(* wrong alignment, meets something that is not what it wants.             *)
(***************************************************************************)
EXTENDS LauNumber, SequencesExt, FiniteSetsExt

NULL == "(null)"
Filling == <<"...">>
Block(v, size) == <<<<"block", v, size>>>> \o [i \in 1..(size - 1) |-> Filling]
RECURSIVE Blocks(_, _)
Blocks(vs, size) ==
  IF vs = <<>> THEN <<>> ELSE Block(vs[1], size) \o Blocks(Tail(vs), size)
SizeInstruction == 4
SizeInt == 4
SizeInteger == 8
SizeNumber == 8

(***************************************************************************)
(* ldump.c: D = [out, strs, strip]; strs are the strings saved so far.     *)
(***************************************************************************)
dumpBlock(D, bytes) == [D EXCEPT !.out = @ \o bytes]
Padding(offset, align) == IF offset % align = 0 THEN 0 ELSE align - (offset % align)
dumpAlign(D, align) == dumpBlock(D, [i \in 1..Padding(Len(D.out), align) |-> 0])
RECURSIVE Varint(_, _)
Varint(x, more) == (IF x < 128 THEN <<>> ELSE Varint(x \div 128, 128)) \o <<(x % 128) + more>>
dumpVarint(D, x) == dumpBlock(D, Varint(x, 0))
dumpByte(D, b) == dumpBlock(D, <<b>>)
dumpInteger(D, x) == dumpVarint(D, Unsigned(IF x >= 0 THEN 2 * x ELSE 2 * (-x - 1) + 1))
dumpString_FromZero(D, s) ==
  LET saved == {i \in DOMAIN D.strs : D.strs[i] = s}
      new == dumpBlock(dumpVarint(D, Len(s) + 1), Block(s, Len(s) + 1))
  IN IF s = NULL THEN dumpVarint(dumpVarint(D, 0), 0)
     ELSE IF saved # {} THEN dumpVarint(dumpVarint(D, 0), Max(saved) - 1)
     ELSE [new EXCEPT !.strs = Append(@, s)]
dumpString(D, s) ==
  LET saved == {i \in DOMAIN D.strs : D.strs[i] = s}
      new == dumpBlock(dumpVarint(D, Len(s) + 1), Block(s, Len(s) + 1))
  IN IF s = NULL THEN dumpVarint(dumpVarint(D, 0), 0)
     ELSE IF saved # {} THEN dumpVarint(dumpVarint(D, 0), Max(saved))
     ELSE [new EXCEPT !.strs = Append(@, s)]
dumpConstant(D, v) ==
  LET E == dumpByte(D, v[1]) IN
  CASE IsFlt(v) -> dumpBlock(E, Block(v, SizeNumber))
    [] IsInt(v) -> dumpInteger(E, v[2])
    [] v[1] = "str" -> dumpString(E, v[2])
    [] OTHER -> E
\* A vector: its length, then its elements one by one.
dumpVector(D, vs, Element(_, _)) == FoldLeft(Element, dumpVarint(D, Len(vs)), vs)
dumpUpvalue(D, u) == dumpByte(dumpByte(dumpByte(D, u.instack), u.idx), u.kind)
dumpLocvar(D, v) == dumpVarint(dumpVarint(dumpString(D, v.name), v.startpc), v.endpc)
Kept(D, vs) == IF D.strip THEN <<>> ELSE vs
dumpDebug(D, f) ==
  LET lines == Kept(D, f.lineinfo)
      abs == Kept(D, f.abslineinfo)
      Name(E, u) == dumpString(E, u.name)
      D1 == dumpBlock(dumpVarint(D, Len(lines)), lines)
      D2 == dumpVarint(D1, Len(abs))
      D3 == IF abs = <<>> THEN D2 ELSE dumpBlock(dumpAlign(D2, SizeInt), Blocks(abs, 2 * SizeInt))
  IN dumpVector(dumpVector(D3, Kept(D, f.locvars), dumpLocvar), Kept(D, f.ups), Name)
RECURSIVE dumpFunction(_, _)
dumpFunction(D, f) ==
  LET D1 == dumpVarint(dumpVarint(D, f.linedefined), f.lastlinedefined)
      D2 == dumpByte(dumpByte(dumpByte(D1, f.numparams), f.vahid), f.maxstacksize)
      D3 == dumpAlign(dumpVarint(D2, Len(f.code)), SizeInstruction)
      D4 == dumpVector(dumpBlock(D3, Blocks(f.code, SizeInstruction)), f.k, dumpConstant)
      Nested(E, p) == dumpFunction(E, p)
      D5 == dumpVector(dumpVector(D4, f.ups, dumpUpvalue), f.p, Nested)
  IN dumpDebug(dumpString(D5, IF D.strip THEN NULL ELSE f.source), f)
Signature == <<"esc", "L", "a", "u">>
Data == <<"x19", "x93", "cr", "lf", "x1a", "lf">>
NumInfo(what, size) == <<size>> \o Block(what, size)
Header ==
  Signature \o <<"version", "format">> \o Data \o NumInfo("int", SizeInt)
    \o NumInfo("Instruction", SizeInstruction) \o NumInfo("lau_Integer", SizeInteger)
    \o NumInfo("lau_Number", SizeNumber)
dump(f, strip) ==
  dumpFunction(dumpByte([out |-> Header, strs |-> <<>>, strip |-> strip], Len(f.ups)), f).out

(***************************************************************************)
(* lundump.c: S = [data, offset, strs, err, v]; v is what was read last.   *)
(* The first error is the one that is thrown.                              *)
(***************************************************************************)
error(S, why) == IF S.err = "" THEN [S EXCEPT !.err = why, !.v = 0] ELSE S
loadBlock(S, size) ==       \* v: the bytes
  IF S.err # "" THEN [S EXCEPT !.v = 0]
  ELSE IF S.offset + size > Len(S.data) THEN error(S, "truncated chunk")
  ELSE [S EXCEPT !.offset = @ + size, !.v = SubSeq(S.data, S.offset + 1, S.offset + size)]
loadAlign(S, align) == loadBlock(S, Padding(S.offset, align))
loadByte(S) == LET T == loadBlock(S, 1) IN IF T.err # "" THEN T ELSE [T EXCEPT !.v = @[1]]
\* loadVar: a value of this size.
loadVar(S, size) ==
  LET T == loadBlock(S, size) IN
  IF T.err # "" THEN T
  ELSE [T EXCEPT !.v = IF @ = <<>> THEN Filling ELSE IF @[1] = <<"block", @[1][2], size>> THEN @[1][2]
                       ELSE Filling]
RECURSIVE loadGroups(_, _, _)
loadGroups(S, x, limit) ==
  LET T == loadByte(S) IN
  IF T.err # "" THEN T
  ELSE IF x > limit \div 128 THEN error(T, "integer overflow")
  ELSE IF T.v >= 128 THEN loadGroups(T, x * 128 + (T.v % 128), limit)
  ELSE [T EXCEPT !.v = x * 128 + @]
loadVarint(S, limit) == loadGroups(S, 0, limit)
loadInt(S) == loadVarint(S, MAXINT)
loadInteger(S) ==
  LET T == loadVarint(S, MAXUNSIGNED) IN
  [T EXCEPT !.v = IF @ % 2 = 1 THEN Wrap(-(@ \div 2) - 1) ELSE Wrap(@ \div 2)]
loadString(S) ==
  LET T == loadInt(S)
      idx == loadVarint(T, MAXUNSIGNED)
      new == loadVar(T, T.v)
  IN IF T.err # "" THEN T
     ELSE IF T.v = 0
     THEN IF idx.err # "" THEN idx
          ELSE IF idx.v = 0 THEN [idx EXCEPT !.v = NULL]
          ELSE IF idx.v \notin DOMAIN idx.strs THEN error(idx, "invalid string index")
          ELSE [idx EXCEPT !.v = idx.strs[idx.v]]
     ELSE IF new.err # "" THEN new ELSE [new EXCEPT !.strs = Append(@, new.v)]
loadConstant(S) ==
  LET T == loadByte(S)
      Tagged(tag, U) == IF U.err # "" THEN U ELSE [U EXCEPT !.v = <<tag, @>>]
  IN CASE T.err # "" -> T
       [] T.v \in {"nil", "false", "true"} -> [T EXCEPT !.v = <<@>>]
       [] T.v = "flt" -> loadVar(T, SizeNumber)
       [] T.v = "int" -> Tagged("int", loadInteger(T))
       [] T.v = "str" -> LET U == loadString(T) IN
            IF U.err = "" /\ U.v = NULL THEN error(U, "bad format for constant string")
            ELSE Tagged("str", U)
       [] OTHER -> error(T, "invalid constant")
\* Elements: n of them, each read by Load.
loadMany(S, n, Load(_)) ==
  LET One(a, i) == LET T == Load(a.S) IN [S |-> T, vs |-> Append(a.vs, T.v)]
      r == FoldLeft(One, [S |-> S, vs |-> <<>>], [i \in 1..n |-> i])
  IN IF S.err # "" THEN S ELSE [r.S EXCEPT !.v = r.vs]
loadVector(S, Load(_)) == LET T == loadInt(S) IN loadMany(T, T.v, Load)
loadBytes(S) == LET T == loadInt(S) IN IF T.err # "" THEN T ELSE loadBlock(T, T.v)
loadUpvalue(S) ==
  LET a == loadByte(S)
      b == loadByte(a)
      c == loadByte(b)
  IN [c EXCEPT !.v = [name |-> NULL, instack |-> a.v, idx |-> b.v, kind |-> c.v]]
loadLocvar(S) ==
  LET n == loadString(S)
      a == loadInt(n)
      b == loadInt(a)
  IN [b EXCEPT !.v = [name |-> n.v, startpc |-> a.v, endpc |-> b.v]]
loadInstruction(S) == loadVar(S, SizeInstruction)
loadCode(S) == LET n == loadInt(S) IN loadMany(loadAlign(n, SizeInstruction), n.v, loadInstruction)
loadAbsLine(S) == loadVar(S, 2 * SizeInt)
loadAbsLines(S) ==
  LET n == loadInt(S) IN
  loadMany(IF n.v = 0 THEN n ELSE loadAlign(n, SizeInt), n.v, loadAbsLine)
\* The names of the upvalues: all of them or none.
loadNames(S, ups) ==
  LET n == loadInt(S)
      T == loadMany(n, IF n.v = 0 THEN 0 ELSE Len(ups), loadString)
  IN IF S.err # "" THEN S ELSE IF T.err # "" \/ T.v = <<>> THEN [T EXCEPT !.v = ups]
     ELSE [T EXCEPT !.v = [i \in DOMAIN ups |-> [ups[i] EXCEPT !.name = T.v[i]]]]
\* Read: one more field of a function; a = [S, f].
Read(a, field, Load(_)) ==
  LET T == Load(a.S) IN [S |-> T, f |-> [x \in DOMAIN a.f \cup {field} |-> IF x = field THEN T.v ELSE a.f[x]]]
RECURSIVE loadFunction(_)
loadFunction(S) ==
  LET a1 == Read(Read([S |-> S, f |-> <<>>], "linedefined", loadInt), "lastlinedefined", loadInt)
      a2 == Read(Read(Read(a1, "numparams", loadByte), "vahid", loadByte), "maxstacksize", loadByte)
      a3 == Read(Read(a2, "code", loadCode), "k", LAMBDA T : loadVector(T, loadConstant))
      a4 == Read(a3, "ups", LAMBDA T : loadVector(T, loadUpvalue))
      a5 == Read(a4, "p", LAMBDA T : loadVector(T, loadFunction))
      a6 == Read(Read(Read(a5, "source", loadString), "lineinfo", loadBytes), "abslineinfo", loadAbsLines)
      a7 == Read(a6, "locvars", LAMBDA T : loadVector(T, loadLocvar))
      WithNames(a) == Read(a, "ups", LAMBDA T : loadNames(T, a.f["ups"]))
      Whole(a) == IF a.S.err # "" THEN a.S ELSE [a.S EXCEPT !.v = a.f]
  IN IF S.err # "" THEN S ELSE Whole(WithNames(a7))
\* checkHeader compares all but the first byte, which told what to load.
checkHeader(S) ==
  LET T == loadBlock(S, Len(Header) - 1) IN
  IF T.err # "" THEN T ELSE IF T.v # Tail(Header) THEN error(T, "bad header") ELSE T
undump(data) ==
  LET h == checkHeader([data |-> data, offset |-> 1, strs |-> <<>>, err |-> "", v |-> 0])
      n == loadByte(h)
      f == loadFunction(n)
  IN IF h.err # "" THEN h
     ELSE IF f.err = "" /\ n.v # Len(f.v.ups) THEN error(f, "corrupted chunk") ELSE f

(***************************************************************************)
(* What of a prototype a chunk keeps                                       *)
(***************************************************************************)
RECURSIVE Dumped(_, _)
Dumped(f, strip) ==
  [linedefined |-> f.linedefined, lastlinedefined |-> f.lastlinedefined, numparams |-> f.numparams,
   vahid |-> f.vahid, maxstacksize |-> f.maxstacksize, code |-> f.code, k |-> f.k,
   p |-> [i \in DOMAIN f.p |-> Dumped(f.p[i], strip)],
   source |-> IF strip THEN NULL ELSE f.source,
   ups |-> [i \in DOMAIN f.ups |-> IF strip THEN [f.ups[i] EXCEPT !.name = NULL] ELSE f.ups[i]],
   lineinfo |-> IF strip THEN <<>> ELSE f.lineinfo,
   abslineinfo |-> IF strip THEN <<>> ELSE f.abslineinfo,
   locvars |-> IF strip THEN <<>> ELSE f.locvars]
=============================================================================
