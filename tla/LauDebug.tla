------------------------------ MODULE LauDebug ------------------------------
(***************************************************************************)
(* What the debug information of a function says of its code (ldebug.c):   *)
(* the lines of its instructions and the names of its registers.  Nothing  *)
(* here is kept while a program runs: a name is found, after the fact, by  *)
(* a symbolic execution of the code up to the instruction that failed.     *)
(***************************************************************************)
EXTENDS LauCode

(***************************************************************************)
(* Lines                                                                   *)
(***************************************************************************)
\* The last absolute line at or before pc, from the estimate pc \div MAXIWTHABS - 1.
getbaseline(p, pos) ==
  LET n == Len(p.abslineinfo)
      Base(i) == p.abslineinfo[i + 1]
      from == (pos \div MaxIwthAbs) - 1
      Passed(i) == i < n /\ pos >= Base(i).pc
      last == CHOOSE i \in (IF from < 0 THEN -1 ELSE from)..(n - 1) :
                /\ \A j \in (from + 1)..i : Passed(j)
                /\ ~Passed(i + 1)
  IN IF n = 0 \/ pos < Base(0).pc THEN [pc |-> -1, line |-> p.linedefined, low |-> TRUE]
     ELSE [pc |-> Base(last).pc, line |-> Base(last).line,
           low |-> from < 0 \/ (from < n /\ Base(from).pc <= pos)]
lauG_getfuncline(p, pos) ==
  LET b == getbaseline(p, pos)
      Advance(line, i) == line + p.lineinfo[i][2]
  IN FoldLeft(Advance, b.line, [i \in 1..(pos - b.pc) |-> b.pc + i + 1])

\* changedline: 'oldpc' is before 'newpc'.
changedline(p, oldpc, newpc) ==
  LET between == {p.lineinfo[i + 1] : i \in (oldpc + 1)..newpc}
      Delta(i) == p.lineinfo[i + 1][2]
  IN IF newpc - oldpc < MaxIwthAbs \div 2 /\ <<ABSLINEINFO>> \notin between
     THEN SumFunction([i \in (oldpc + 1)..newpc |-> Delta(i)]) # 0
     ELSE lauG_getfuncline(p, oldpc) # lauG_getfuncline(p, newpc)

(***************************************************************************)
(* Symbolic execution.  A name is [kind, name]; "" stands for NULL.        *)
(***************************************************************************)
NoName == [kind |-> "", name |-> ""]
Label(kind, name) == [kind |-> kind, name |-> name]

\* The n-th (from 1) variable that is active at pos; "" if there is none.
lauF_getlocalname_Ended(p, n, pos) ==
  IF n \in DOMAIN p.locvars /\ p.locvars[n].startpc <= pos THEN p.locvars[n].name ELSE ""
lauF_getlocalname(p, n, pos) ==
  LET started == CHOOSE i \in 0..Len(p.locvars) :
                   /\ \A j \in 1..i : p.locvars[j].startpc <= pos
                   /\ i < Len(p.locvars) => p.locvars[i + 1].startpc > pos
      Active(v) == pos < v.endpc
      active == SelectSeq(SubSeq(p.locvars, 1, started), Active)
  IN IF n \in DOMAIN active THEN active[n].name ELSE ""

\* The instruction before 'lastpc' that left its value in 'reg'; -1 if unknown.
Changes(i, reg) ==
  CASE i.op = "LOADNIL" -> reg \in i.A..(i.A + i.B)
    [] i.op = "TFORCALL" -> reg >= i.A + 2
    [] i.op \in {"CALL", "TAILCALL"} -> reg >= i.A
    [] i.op = "JMP" -> FALSE
    [] OTHER -> testAMode(i.op) /\ reg = i.A
filterpc_Always(pos, jmptarget) == pos
filterpc(pos, jmptarget) == IF pos < jmptarget THEN -1 ELSE pos
findsetreg(p, lastpc, reg) ==
  LET last == IF testMMMode(p.code[lastpc + 1].op) THEN lastpc - 1 ELSE lastpc
      Scan(s, n) ==
        LET i == p.code[n]
            dest == n + i.A
        IN IF i.op = "JMP"
           THEN IF dest <= last /\ dest > s.jmptarget THEN [s EXCEPT !.jmptarget = dest] ELSE s
           ELSE IF Changes(i, reg) THEN [s EXCEPT !.setreg = filterpc(n - 1, s.jmptarget)] ELSE s
  IN FoldLeft(Scan, [setreg |-> -1, jmptarget |-> 0], [n \in 1..last |-> n]).setreg

upvalname(p, n) == p.ups[n + 1].name
kname(p, n) == IF p.k[n + 1][1] = "str" THEN Label("constant", p.k[n + 1][2]) ELSE Label("", "?")
\* basicgetobjname: the name and, if it comes from an instruction, where that is.
RECURSIVE basicgetobjname(_, _, _)
basicgetobjname(p, pos, reg) ==
  LET local == lauF_getlocalname(p, reg + 1, pos)
      at == findsetreg(p, pos, reg)
      i == p.code[at + 1]
      Found(n) == [pc |-> at, n |-> n]
  IN IF local # "" THEN [pc |-> pos, n |-> Label("local", local)]
     ELSE IF at = -1 THEN Found(NoName)
     ELSE CASE i.op = "MOVE" /\ i.B < i.A -> basicgetobjname(p, at, i.B)
            [] i.op = "GETUPVAL" -> Found(Label("upvalue", upvalname(p, i.B)))
            [] i.op = "LOADK" -> Found(kname(p, i.B))
            [] i.op = "LOADKX" -> Found(kname(p, p.code[at + 2].A))
            [] OTHER -> Found(NoName)
rname(p, pos, c) ==
  LET n == basicgetobjname(p, pos, c).n IN IF n.kind = "constant" THEN n.name ELSE "?"
EnvField(n) == IF n = Label("local", "_ENV") \/ n = Label("upvalue", "_ENV") THEN "global" ELSE "field"
getobjname(p, lastpc, reg) ==
  LET b == basicgetobjname(p, lastpc, reg)
      i == p.code[b.pc + 1]
      isEnv == EnvField(basicgetobjname(p, b.pc, i.B).n)
  IN IF b.n.kind # "" \/ b.pc = -1 THEN b.n
     ELSE CASE i.op = "GETTABUP" ->
                 Label(EnvField(Label("upvalue", upvalname(p, i.B))), kname(p, i.C).name)
            [] i.op = "GETTABLE" -> Label(isEnv, rname(p, b.pc, i.C))
            [] i.op = "GETI" -> Label("field", "integer index")
            [] i.op = "GETFIELD" -> Label(isEnv, kname(p, i.C).name)
            [] i.op = "SELF" -> Label("method", kname(p, i.C).name)
            [] OTHER -> NoName
\* The name of a function called at pos, and that of an operand (varinfo).
funcnamefromcode(p, pos) ==
  IF p.code[pos + 1].op = "TFORCALL" THEN Label("for iterator", "for iterator")
  ELSE getobjname(p, pos, p.code[pos + 1].A)
varinfo(p, pos, operand) ==
  IF operand[1] = "upvalue" THEN Label("upvalue", upvalname(p, operand[2]))
  ELSE getobjname(p, pos, operand[2])
=============================================================================
