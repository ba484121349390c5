----------------------------- MODULE LauCallInv -----------------------------
(***************************************************************************)
(* The inductive invariant behind the safety properties of LauCall: how    *)
(* the C functions under way, the call frames, and the positions that they *)
(* and the list of to-be-closed variables keep into the stack, belong      *)
(* together.                                                               *)
(***************************************************************************)
EXTENDS LauCall

-----------------------------------------------------------------------------
(* Types *)

CallInfo ==
  [kind : {"Lau", "C"}, func : Nat, want : {0, 1, MULTRET}, fresh : BOOLEAN,
   args : Seq(StackValue), pc : {"run", "call", "index", "add", "close", "return", "top"},
   level : Nat, k : BOOLEAN, ypcall : BOOLEAN, recst : ErrorStatus \cup {"ok"}, tbc : BOOLEAN,
   clsret : BOOLEAN, u2 : Nat]

TryC   == [t : {"try"}, by : {"resume", "recover", "pcall", "closep"}, ci : Nat, level : Nat,
           status : ErrorStatus \cup {"ok"}, nc : Nat, nny : Nat]
CallC  == [t : {"ccall"}, inc : 0..1, y : 0..1]
PlainC == [t : {"exec", "cfn", "unroll"}]
CloseC == [t : {"close"}, level : Nat, status : ErrorStatus \cup {"ok", "ktop"}, yy : BOOLEAN,
           then : {"close", "return", "poscall", "top", "pcallk", "closep"}]
ResetC == [t : {"reset"}, self : BOOLEAN, nc : Nat]
CFunction == TryC \cup CallC \cup PlainC \cup CloseC \cup ResetC

State ==
  [ci : Seq(CallInfo), stack : Seq(StackValue), tbclist : Seq(Nat), status : Status,
   nc : Nat, nny : Nat, cs : Seq(CFunction), ret : Seq(Status \cup StackValue)]

Try(e, by) == e.t = "try" /\ e.by \in by
Closing(e, then) == e.t = "close" /\ e.then \in then
Unprotected == {"resume", "recover"}
Protected == {"pcall", "closep"}

-----------------------------------------------------------------------------
(* Frames *)

Returning(f) == f.clsret \/ f.pc = "return"
TakesResult(f) == f.pc \in {"index", "add"}

FrameOk(s, i) ==
  LET f == s.ci[i] IN
  /\ f.ypcall => /\ f.kind = "C" /\ f.k /\ f.pc = "call" /\ ~f.clsret
                 /\ f.func < f.u2 /\ f.u2 <= CallTop(s, i)
  /\ ~f.ypcall => f.recst = "ok"
  /\ f.clsret => f.kind = "C" /\ f.tbc /\ f.u2 \in 0..1
  /\ f.pc = "return" => f.kind = "Lau" /\ f.u2 \in 0..1
  /\ f.pc = "close" => f.kind = "Lau" /\ f.func < f.level /\ f.level <= CallTop(s, i)
  /\ f.pc = "top" => f.kind = "C" /\ ~f.clsret /\ f.func < f.level /\ f.level <= CallTop(s, i)
  /\ f.pc \in {"index", "add"} => f.kind = "Lau"
  /\ Returning(f) => f.func + f.u2 < CallTop(s, i)

(* a frame that closes its variables calls only close methods, which have no results,
   and never as the instruction OP_CALL does; an instruction that takes a result of
   its call wants one; a protected call has its function where its status will be *)
ResultOf(s, i) == Returning(s.ci[i]) /\ s.ci[i].u2 = 1 => s.stack[CallTop(s, i) - 1] = "res"

CallerOk(s, i) ==
  LET f == s.ci[i]  g == s.ci[i + 1] IN
  /\ Returning(f) => g.want = 0
  /\ TakesResult(f) => g.want = 1
  /\ f.recst # "ok" => g.want = 0
  /\ f.ypcall /\ f.recst = "ok" => g.func = f.u2
  /\ f.pc \in {"close", "return"} => g.kind = "C" \/ g.fresh
  /\ g.kind = "Lau" /\ ~g.fresh => f.kind = "Lau"
  /\ ResultOf(s, i)

(* a C function with a continuation, or that only closes its variables as it ends *)
MayBeSkipped(f) == f.kind = "C" => (f.k \/ f.clsret) /\ f.pc # "top"

Frames(s) ==
  /\ Len(s.ci) \in 1..MaxFrames /\ s.ci[1] = BaseCI
  /\ \A i, j \in 1..Len(s.ci) : i < j => s.ci[i].func < s.ci[j].func
  /\ \A i \in 1..Len(s.ci) : s.ci[i].func <= Len(s.stack) /\ FrameOk(s, i)
  /\ \A i \in 1..(Len(s.ci) - 1) : CallerOk(s, i)
  /\ \A i, j \in 2..Len(s.ci) : i < j /\ s.ci[j].ypcall => MayBeSkipped(s.ci[i])

-----------------------------------------------------------------------------
(* To-be-closed variables *)

(* a variable above the base of a C function is one that it has marked, or is left
   from a call that failed or by a reset *)
Accounted(s, p, i) ==
  \/ s.ci[i].tbc
  \/ s.ci[i].recst # "ok" /\ p >= s.ci[i].u2
  \/ \E j \in 1..Len(s.cs) : Try(s.cs[j], {"closep"}) /\ s.cs[j].ci = i /\ p >= s.cs[j].level

VariableOk(s, p) ==
  /\ 1 < p /\ p <= Len(s.stack) /\ s.stack[p] \in Var
  /\ \A i \in 1..Len(s.ci) :
       /\ p # s.ci[i].func
       /\ s.ci[i].kind = "C" /\ s.ci[i].func < p /\ p < CallTop(s, i) => Accounted(s, p, i)

Variables(s) ==
  /\ Len(s.tbclist) <= MaxVars
  /\ \A a, b \in 1..Len(s.tbclist) : a < b => s.tbclist[a] < s.tbclist[b]
  /\ \A a \in 1..Len(s.tbclist) : VariableOk(s, s.tbclist[a])

-----------------------------------------------------------------------------
(* The C stack by itself *)

EntryOk(cs, j) ==
  LET e == cs[j] IN
  /\ j = 1 <=> Try(e, Unprotected) \/ (e.t = "reset" /\ ~e.self)
  /\ e.t = "try" => e.nc < MaxCcalls /\ e.nny <= e.nc
  /\ e.t = "ccall" => e.y <= e.inc
  /\ e.t = "unroll" => j = 2
  /\ e.t = "reset" => /\ j <= 3 /\ (j = 3 => NestedClose) /\ e.nc < MaxCcalls
                      /\ \A i \in 1..j : cs[i].t \in {"try", "reset"}

(* which C function calls which *)
CallsNext(e, c) ==
  \/ e.t = "ccall" /\ (c.t \in {"exec", "cfn"} \/ Closing(c, {"poscall"}))
  \/ e.t = "unroll" /\ (c.t \in {"exec", "cfn"} \/ Closing(c, {"poscall", "pcallk"}))
  \/ e.t = "exec" /\ (c.t \in {"ccall", "cfn"} \/ Closing(c, {"close", "return", "poscall"}))
  \/ e.t = "cfn" /\ (c.t = "ccall" \/ Try(c, Protected) \/ Closing(c, {"top"}))
  \/ e.t = "close" /\ c.t = "ccall" /\ (~e.yy => c.y = 1)
  \/ Try(e, {"resume"}) /\ c.t \in {"ccall", "unroll", "reset"}
  \/ Try(e, {"recover"}) /\ c.t \in {"unroll", "reset"}
  \/ Try(e, {"pcall"}) /\ c.t = "ccall" /\ c.y = 1
  \/ Try(e, {"closep"}) /\ (c.t = "reset" \/ (Closing(c, {"closep"}) /\ c.level = e.level /\ c.status = e.status))
  \/ e.t = "reset" /\ Try(c, {"closep"}) /\ c.level = 2

CFunctions(cs) ==
  /\ \A j \in 1..Len(cs) : EntryOk(cs, j)
  /\ \A j \in 1..(Len(cs) - 1) : CallsNext(cs[j], cs[j + 1])

(* the counts in nCcalls when function j is in control *)
ResetBelow(cs, j) == Max({0} \cup {i \in 1..j : cs[i].t = "reset"})
Before(cs, j) == IF ResetBelow(cs, j) > 0 THEN cs[ResetBelow(cs, j)].nc ELSE 1
Counted(cs, j) == {i \in 1..j : cs[i].t = "ccall" /\ cs[i].inc = 1}
NonYieldable(cs, j) == {i \in 1..j : cs[i].t = "ccall" /\ cs[i].y = 1}
CcallsAt(cs, j) == Before(cs, j) + Cardinality(Counted(cs, j))
NonYieldableAt(cs, j) == Cardinality(NonYieldable(cs, j))

Saved(cs) ==
  \A j \in 1..Len(cs) :
    cs[j].t = "try" => cs[j].nc = CcallsAt(cs, j - 1) /\ cs[j].nny = NonYieldableAt(cs, j - 1)

-----------------------------------------------------------------------------
(* The C stack and the frames.  d[j] is the number of frames when function j
   called the one above it. *)

CloseOk(s, e, i) ==
  LET f == s.ci[i] IN
  /\ e.level <= CallTop(s, i)
  /\ e.then = "poscall" => f.clsret /\ e.level = f.func /\ e.status = "ktop"
  /\ e.then # "poscall" => f.func < e.level
  /\ e.then = "close" => f.pc = "close" /\ e.level = f.level /\ e.status = "ok"
  /\ e.then = "return" => f.pc = "return" /\ e.level = f.func + 1 /\ e.status = "ktop"
  /\ e.then = "top" => /\ f.kind = "C" /\ ~f.clsret /\ ~f.ypcall /\ f.recst = "ok"
                       /\ f.pc = "top" /\ e.level = f.level /\ e.status = "ktop" /\ ~e.yy
  /\ e.then = "pcallk" => f.ypcall /\ e.level = f.u2 /\ e.status = f.recst /\ f.recst # "ok"
  /\ e.then = "closep" => f.kind = "C" /\ ~f.clsret /\ ~f.ypcall /\ ~e.yy

OnFrame(s, e, i) ==
  LET f == s.ci[i] IN
  /\ e.t = "exec" => f.kind = "Lau"
  /\ e.t = "cfn" => f.kind = "C" /\ ~f.clsret /\ f.recst = "ok" /\ i > 1
  /\ Try(e, Unprotected) \/ e.t \in {"unroll", "reset"} => i = 1
  /\ Try(e, Protected) => /\ e.ci = i /\ f.kind = "C" /\ ~f.ypcall /\ ~f.clsret
                          /\ f.func < e.level /\ e.level <= CallTop(s, i)
                          /\ i = 1 => e.level = 2
  /\ e.t = "close" => CloseOk(s, e, i)

(* how frame i waits, whose function e has called c, and the frames above it: none
   of them is a protected call of lau_pcallk if e cannot be yielded across *)
Beneath(s, e, c, i) ==
  /\ e.t = "exec" /\ (c.t = "cfn" \/ Closing(c, {"poscall"})) => s.ci[i].pc \notin {"close", "return"}
  /\ e.t = "cfn" /\ c.t # "close" => s.ci[i].pc # "top"
  /\ e.t = "ccall" /\ e.y = 1 => \A x \in (i + 1)..Len(s.ci) : ~s.ci[x].ypcall
  /\ Try(e, {"pcall"}) /\ i < Len(s.ci) => s.ci[i + 1].func = e.level
  /\ Try(e, {"closep"}) /\ i < Len(s.ci) => s.ci[i + 1].want = 0

Deeper(s, d, j) ==
  LET e == s.cs[j]  c == s.cs[j + 1] IN
  /\ e.t = "ccall" => d[j] < d[j + 1]
  /\ e.t = "ccall" /\ c.t # "exec" => d[j + 1] = d[j] + 1
  /\ e.t = "ccall" /\ c.t = "exec" =>
       /\ s.ci[d[j] + 1].fresh
       /\ \A i \in (d[j] + 2)..d[j + 1] : ~s.ci[i].fresh
  /\ e.t = "unroll" => d[j + 1] > 1
  /\ e.t = "exec" => IF c.t = "cfn" \/ Closing(c, {"poscall"}) THEN d[j + 1] = d[j] + 1
                                                               ELSE d[j + 1] = d[j]
  /\ e.t = "exec" /\ c.t = "ccall" => TakesResult(s.ci[d[j]])
  /\ e.t = "cfn" /\ c.t = "ccall" => c.y = 1 \/ s.ci[d[j]].k
  /\ e.t \notin {"ccall", "unroll", "exec"} => d[j + 1] = d[j]
  /\ Beneath(s, e, c, d[j])

Depths(s, d) ==
  /\ \A j \in 1..Len(s.cs) : d[j] \in 1..Len(s.ci) /\ OnFrame(s, s.cs[j], d[j])
  /\ \A i, j \in 1..Len(s.cs) : i < j => d[i] <= d[j]
  /\ \A j \in 1..(Len(s.cs) - 1) : Deeper(s, d, j)

(* a C function that waits for a call is on the C stack or can be skipped *)
Waiting(s, d) ==
  s.status \notin ErrorStatus =>
    \A i \in 2..(Len(s.ci) - 1) :
      MayBeSkipped(s.ci[i]) \/ \E j \in 1..Len(s.cs) : s.cs[j].t = "cfn" /\ d[j] = i

(* what holds of a state whatever is in control *)
Skeleton(s, d) ==
  /\ s \in State /\ d \in [Nat -> Nat]
  /\ Frames(s) /\ CFunctions(s.cs) /\ Saved(s.cs) /\ Depths(s, d) /\ Waiting(s, d)
  /\ s.cs # <<>> => s.status = "ok"

Base(s, d) == Skeleton(s, d) /\ Variables(s)

-----------------------------------------------------------------------------
(* The function in control *)

Counts(s) == s.nc = CcallsAt(s.cs, Len(s.cs)) /\ s.nny = NonYieldableAt(s.cs, Len(s.cs))

Top(s, d) ==
  LET m == Len(s.cs)  n == Len(s.ci)  f == s.ci[n] IN
  /\ m > 0 /\ s.cs[m].t # "unroll" => d[m] = n
  /\ m = 0 /\ s.status = "yield" => n > 1 /\ f.kind = "C" /\ ~f.clsret /\ ~f.ypcall
  /\ (m = 0 /\ s.status = "yield") \/ (m > 0 /\ s.cs[m].t = "unroll") => f.pc # "top"
  /\ s.status = "mem" => Last(s.stack) = "mem"
  /\ s.status \notin ErrorStatus => ResultOf(s, n)
  /\ m > 0 /\ TakesResult(f) => f.func < Len(s.stack) /\ ~TbcFrom(s, Len(s.stack))
  /\ m > 0 /\ Try(s.cs[m], {"closep"}) => ~TbcFrom(s, s.cs[m].level)
  /\ m > 0 => s.cs[m].t # "reset"
  /\ s.nc < MaxCcalls /\ s.nny <= s.nc
  /\ m > 0 /\ s.cs[m].t # "try" => Counts(s)

CInv(s) == \E d \in [Nat -> Nat] : Base(s, d) /\ Top(s, d)
=============================================================================
