--------------------------- MODULE LauCall_steps ----------------------------
(***************************************************************************)
(* The steps of LauCall that keep the invariant of LauCallInv: instructions,*)
(* API calls, errors, yields, lau_resume and lau_closethread by the host, and*)
(* the returns of ccall and of lauD_rawrunprotected.                       *)
(***************************************************************************)
EXTENDS LauCall_calls

-----------------------------------------------------------------------------
(* Another CallInfo for a function in control. *)
NewInfo(s, n, g) ==
  LET f == s.ci[n] IN
  /\ g \in CallInfo /\ g.func = f.func /\ g.kind = f.kind /\ g.want = f.want /\ g.fresh = f.fresh
  /\ f.tbc => g.tbc
  /\ ~g.clsret /\ g.recst = "ok"
  /\ g.ypcall => g.kind = "C" /\ g.k /\ g.pc = "call" /\ f.func < g.u2 /\ g.u2 = Len(s.stack) + 1
     /\ s.nny = 0
  /\ g.pc = "return" => g.kind = "Lau" /\ g.u2 \in {0, 1} /\ g.func + g.u2 < Len(s.stack) + 1
  /\ g.pc = "close" => g.kind = "Lau" /\ f.func < g.level /\ g.level <= Len(s.stack) + 1
  /\ g.pc = "top" => g.kind = "C" /\ f.func < g.level /\ g.level <= Len(s.stack) + 1
  /\ g.pc \in {"index", "add"} => g.kind = "Lau"

(* Such a change of the running frame disturbs nothing. *)
LEMMA SetRunning ==
  ASSUME NEW s, NEW d, NEW m, NEW n, Running(s, d, m, n), NEW g, NewInfo(s, n, g)
  PROVE  Framed(s, SetCI(s, g), g) /\ Base(SetCI(s, g), d)
<1> DEFINE t == SetCI(s, g)
<1>1. /\ Base(s, d) /\ s \in State /\ m \in Nat /\ m = Len(s.cs) /\ m > 0 /\ n \in Nat
         /\ n = Len(s.ci) /\ n > 1 /\ n > 0
      /\ d[m] = n /\ s.cs[m].t \in {"exec", "cfn"} /\ CallTop(s, n) = Len(s.stack) + 1
      /\ (s.cs[m].t = "exec" => s.ci[n].kind = "Lau") /\ (s.cs[m].t = "cfn" => s.ci[n].kind = "C")
  BY DEF Running, InControl
<1>2. /\ g \in CallInfo /\ g.func = s.ci[n].func /\ g.kind = s.ci[n].kind /\ g.want = s.ci[n].want
         /\ g.fresh = s.ci[n].fresh
      /\ (s.ci[n].tbc => g.tbc) /\ ~g.clsret /\ g.recst = "ok"
  BY DEF NewInfo
<1>3. Framed(s, t, g)
  BY <1>1, <1>2, SetCIIs
<1> HIDE DEF t
<1>4. /\ t.stack = s.stack /\ t.cs = s.cs /\ Len(t.ci) = n /\ t.ci[n] = g
  BY <1>1, <1>3 DEF Framed
<1>5. FrameOk(t, n)
  <2>1. CallTop(t, n) = Len(s.stack) + 1
    BY <1>1, <1>4 DEF CallTop
  <2>2. /\ g.ypcall => g.kind = "C" /\ g.k /\ g.pc = "call" /\ g.func < g.u2
           /\ g.u2 <= CallTop(t, n)
        /\ g.pc = "return" => g.kind = "Lau" /\ g.u2 \in {0, 1} /\ g.func + g.u2 < CallTop(t, n)
        /\ g.pc = "close" => g.kind = "Lau" /\ g.func < g.level /\ g.level <= CallTop(t, n)
        /\ g.pc = "top" => g.kind = "C" /\ ~g.clsret /\ g.func < g.level /\ g.level <= CallTop(t, n)
        /\ g.pc \in {"index", "add"} => g.kind = "Lau"
    BY <1>1, <2>1 DEF NewInfo
  <2> QED  BY <1>2, <1>4, <2>2 DEF FrameOk, Returning
<1>6. OnFrame(t, s.cs[m], n)
  BY <1>1, <1>2, <1>4 DEF OnFrame, Try
<1>7. g.ypcall => AllYieldable(s) /\ \A i \in 2..(n - 1) : MayBeSkipped(s.ci[i])
  <2>1. g.ypcall => s.nny = 0
    BY DEF NewInfo
  <2> QED  BY <2>1, NoBarrier
<1>8. Base(t, d)
  BY <1>1, <1>2, <1>3, <1>5, <1>6, <1>7, SetFrame
<1> QED  BY <1>3, <1>8 DEF t

(* It pushes a function and calls it. *)
LEMMA PushesFunction ==
  ASSUME NEW s, NEW d, NEW m, NEW n, Running(s, d, m, n), NEW g, NewInfo(s, n, g),
         g.pc \in {"call", "index", "add"}, NEW want \in {0, 1}, want = 1 <=> g.pc # "call"
  PROVE  LET t == PushStack(SetCI(s, g), <<"func">>) IN
         /\ MayCall(t, d, m, n, Len(t.stack), want)
         /\ t.cs = s.cs /\ t.ci[n] = g /\ Len(t.stack) = Len(s.stack) + 1 /\ t.nny = s.nny
<1> DEFINE b == SetCI(s, g)
           t == PushStack(b, <<"func">>)
           l == Len(s.stack)
<1>1. /\ s \in State /\ Skeleton(s, d) /\ m \in Nat /\ m = Len(s.cs) /\ m > 0 /\ m \in 1..m
         /\ n \in Nat /\ n = Len(s.ci) /\ n > 1
      /\ d[m] = n /\ s.cs[m].t \in {"exec", "cfn"} /\ s.status = "ok" /\ l \in Nat
      /\ (s.cs[m].t = "exec" => s.ci[n].kind = "Lau") /\ (s.cs[m].t = "cfn" => s.ci[n].kind = "C")
      /\ Counts(s) /\ s.nc < MaxCcalls /\ s.nny <= s.nc /\ (\A j \in 1..m : d[j] = n => j = m)
      /\ s.ci[n].func \in Nat /\ s.ci[n].func <= l /\ Variables(s)
  BY DEF Running, InControl, Base
<1>2. Framed(s, b, g) /\ Base(b, d)
  BY SetRunning
<1>3. g.func = s.ci[n].func /\ g.kind = s.ci[n].kind /\ ~g.clsret /\ g \in CallInfo
      /\ (g.ypcall => g.u2 = l + 1) /\ g.recst = "ok"
  BY DEF NewInfo
<1> HIDE DEF b
<1>4. /\ b \in State /\ b.stack = s.stack /\ b.cs = s.cs /\ b.tbclist = s.tbclist /\ b.status = "ok"
      /\ b.nc = s.nc /\ b.nny = s.nny /\ Len(b.ci) = n /\ b.ci[n] = g
  BY <1>1, <1>2 DEF Framed, SameCounts
<1>5. <<"func">> \in Seq(StackValue) /\ Len(<<"func">>) = 1
  BY DEF StackValue
<1>6. Grown(b, t, <<"func">>)
  BY <1>4, <1>5, PushStackIs
<1> HIDE DEF t, l
<1>7. l = Len(s.stack)
  BY DEF l
<1>8. /\ t \in State /\ t.ci = b.ci /\ t.cs = s.cs /\ t.tbclist = s.tbclist /\ t.status = "ok"
         /\ t.nc = s.nc /\ t.nny = s.nny
      /\ Len(t.stack) = l + 1 /\ \A p \in 1..l : t.stack[p] = s.stack[p]
  BY <1>4, <1>5, <1>6, <1>7 DEF Grown, SameCounts
<1>9. Base(t, d)
  <2>1. Len(t.stack) >= Len(b.stack) /\ \A p \in 1..Len(b.stack) : t.stack[p] = b.stack[p]
    BY <1>1, <1>4, <1>7, <1>8
  <2> QED  BY <1>2, <1>4, <1>8, <2>1, Grow
<1>10. Calling(t, n, l + 1, want)
  <2>1. g.func < l + 1
    BY <1>1, <1>3
  <2>2. ~Returning(g) /\ (TakesResult(g) => want = 1) /\ g.pc \notin {"close", "top"}
    BY <1>3 DEF Returning, TakesResult
  <2>3. g.ypcall => g.u2 <= l + 1 /\ l + 1 = g.u2
    BY <1>1, <1>3
  <2> QED  BY <1>3, <1>4, <1>8, <2>1, <2>2, <2>3 DEF Calling
<1>11. \A a \in 1..Len(t.tbclist) : t.tbclist[a] < l + 1
  <2> TAKE a \in 1..Len(t.tbclist)
  <2>1. VariableOk(s, s.tbclist[a]) /\ s.tbclist[a] \in Nat
    BY <1>1, <1>8, StateType DEF Variables
  <2>2. s.tbclist[a] <= l
    BY <1>7, <2>1 DEF VariableOk
  <2> QED  BY <1>1, <1>8, <2>1, <2>2
<1>12. \A j \in 1..m : d[j] = n /\ (Try(t.cs[j], Protected) \/ t.cs[j].t = "close")
         => t.cs[j].level <= l + 1
  BY <1>1, <1>8 DEF Try, Protected
<1>13. n > 1 => MayBeSkipped(t.ci[n]) \/ \E j \in 1..m : t.cs[j].t = "cfn" /\ d[j] = n
  BY <1>1, <1>3, <1>4, <1>8 DEF MayBeSkipped
<1>17. \A j \in 1..m : d[j] = n => /\ (Try(t.cs[j], {"pcall"}) => l + 1 = t.cs[j].level)
                               /\ (Try(t.cs[j], {"closep"}) => want = 0)
  BY <1>1, <1>8 DEF Try
<1>14. Counts(t)
  BY <1>1, <1>8 DEF Counts
<1>15. l + 1 \in Nat /\ l + 1 <= Len(t.stack) /\ Len(t.stack) = l + 1
  BY <1>1, <1>8
<1>16. MayCall(t, d, m, n, l + 1, want)
  <2>1. m = Len(t.cs) /\ n = Len(t.ci) /\ want \in {0, 1, MULTRET}
    BY <1>1, <1>4, <1>8
  <2> QED  BY <1>1, <1>8, <1>9, <1>10, <1>11, <1>12, <1>13, <1>14, <1>15, <1>17, <2>1 DEF MayCall
<1> QED  BY <1>4, <1>7, <1>8, <1>15, <1>16 DEF t, b

(* The instructions of a Lau function run in one that is in control. *)
LEMMA InLauRuns ==
  ASSUME CInv(L), InLau
  PROVE  \E d \in [Nat -> Nat] : /\ Top(L, d) /\ Running(L, d, Len(L.cs), Len(L.ci))
                                 /\ L.cs[Len(L.cs)].t = "exec" /\ CI = L.ci[Len(L.ci)]
                                    /\ CI.pc = "run" /\ ~CI.ypcall
<1>1. L.cs # <<>>
  BY DEF InLau, Control
<1>2. PICK d \in [Nat -> Nat] : Top(L, d) /\ InControl(L, d, Len(L.cs), Len(L.ci))
  BY <1>1, Controls
<1>3. L.cs[Len(L.cs)].t = "exec" /\ CI = L.ci[Len(L.ci)] /\ FrameOk(L, Len(L.ci)) /\ CI.pc = "run"
  BY <1>2 DEF InLau, InControl, CI
<1>4. ~CI.ypcall
  BY <1>3 DEF FrameOk
<1>5. Running(L, d, Len(L.cs), Len(L.ci))
  BY <1>2, <1>3, <1>4, RunsInFrame
<1> QED  BY <1>2, <1>3, <1>4, <1>5

(* The API functions are called by a C function that is in control. *)
LEMMA InCRuns ==
  ASSUME CInv(L), InC
  PROVE  \E d \in [Nat -> Nat] : /\ Top(L, d) /\ Running(L, d, Len(L.cs), Len(L.ci))
                                 /\ L.cs[Len(L.cs)].t = "cfn" /\ CI = L.ci[Len(L.ci)]
                                    /\ CI.pc = "run" /\ ~CI.ypcall
<1>1. L.cs # <<>>
  BY DEF InC, Control
<1>2. PICK d \in [Nat -> Nat] : Top(L, d) /\ InControl(L, d, Len(L.cs), Len(L.ci))
  BY <1>1, Controls
<1>3. L.cs[Len(L.cs)].t = "cfn" /\ CI = L.ci[Len(L.ci)] /\ FrameOk(L, Len(L.ci)) /\ CI.pc = "run"
  BY <1>2 DEF InC, InControl, CI
<1>4. ~CI.ypcall
  BY <1>3 DEF FrameOk
<1>5. Running(L, d, Len(L.cs), Len(L.ci))
  BY <1>2, <1>3, <1>4, RunsInFrame
<1> QED  BY <1>2, <1>3, <1>4, <1>5

-----------------------------------------------------------------------------

(* A call instruction keeps the invariant. *)
LEMMA OpCallStep ==
  ASSUME CInv(L), NEW kind \in {"Lau", "C"}, OpCall(kind)
  PROVE  CInv(L')
<1> DEFINE m == Len(L.cs)
           n == Len(L.ci)
           g == [CI EXCEPT !.pc = "call", !.level = 0]
           t == PushStack(SetCI(L, g), <<"func">>)
<1>1. PICK d \in [Nat -> Nat] : /\ Top(L, d) /\ Running(L, d, m, n) /\ L.cs[m].t = "exec"
        /\ CI = L.ci[n] /\ CI.pc = "run" /\ ~CI.ypcall
  BY InLauRuns DEF OpCall
<1>2. NewInfo(L, n, g) /\ g.pc = "call"
  <2>1. CI \in CallInfo /\ ~CI.clsret /\ CI.recst = "ok" /\ CI.kind = "Lau"
    BY <1>1 DEF Running, InControl
  <2>2. /\ g \in CallInfo /\ g.func = CI.func /\ g.kind = CI.kind /\ g.want = CI.want
           /\ g.fresh = CI.fresh /\ g.tbc = CI.tbc
        /\ g.clsret = CI.clsret /\ g.recst = CI.recst /\ g.ypcall = CI.ypcall /\ g.pc = "call"
    BY <2>1 DEF CallInfo
  <2> QED  BY <1>1, <2>1, <2>2 DEF NewInfo
<1>3. L' = precall(t, Len(t.stack), 0, kind, FALSE)
  BY DEF OpCall, At, CI
<1> HIDE DEF g, m, n
<1>4. MayCall(t, d, m, n, Len(t.stack), 0) /\ t.cs = L.cs /\ t.ci[n] = g
  <2>1. /\ Running(L, d, m, n) /\ NewInfo(L, n, g) /\ g.pc \in {"call", "index", "add"}
        /\ 0 \in {0, 1} /\ (0 = 1 <=> g.pc # "call")
    BY <1>1, <1>2
  <2> QED  BY ONLY <2>1, PushesFunction DEF t
<1> HIDE DEF t
<1>5. t.cs[m].t = "exec" /\ t.ci[n].pc \notin {"close", "return"}
  BY <1>1, <1>2, <1>4
<1> QED  BY <1>3, <1>4, <1>5, Precall

(* An instruction that calls a metamethod keeps the invariant. *)
LEMMA OpMetaStep ==
  ASSUME CInv(L), NEW kind \in {"Lau", "C"}, NEW op \in {"index", "add"}, OpMeta(kind, op)
  PROVE  CInv(L')
<1> DEFINE m == Len(L.cs)
           n == Len(L.ci)
           g == [CI EXCEPT !.pc = op, !.level = 0]
           t == PushStack(SetCI(L, g), <<"func">>)
<1>1. PICK d \in [Nat -> Nat] : /\ Top(L, d) /\ Running(L, d, m, n) /\ L.cs[m].t = "exec"
        /\ CI = L.ci[n] /\ CI.pc = "run" /\ ~CI.ypcall
  BY InLauRuns DEF OpMeta
<1>2. NewInfo(L, n, g) /\ g.pc = op
  <2>1. CI \in CallInfo /\ ~CI.clsret /\ CI.recst = "ok" /\ CI.kind = "Lau"
    BY <1>1 DEF Running, InControl
  <2>2. /\ g \in CallInfo /\ g.func = CI.func /\ g.kind = CI.kind /\ g.want = CI.want
           /\ g.fresh = CI.fresh /\ g.tbc = CI.tbc
        /\ g.clsret = CI.clsret /\ g.recst = CI.recst /\ g.ypcall = CI.ypcall /\ g.pc = op
    BY <2>1 DEF CallInfo
  <2> QED  BY <1>1, <2>1, <2>2 DEF NewInfo
<1>3. L' = ccall(t, Len(t.stack), 1, 1, 0, kind)
  BY DEF OpMeta, At, CI, Call
<1> HIDE DEF g
<1>4. MayCall(t, d, m, n, Len(t.stack), 1) /\ t.cs = L.cs /\ t.ci[n] = g
  <2>1. g.pc \in {"call", "index", "add"} /\ g.pc # "call"
    BY <1>2
  <2>2. 1 \in {0, 1} /\ (1 = 1 <=> g.pc # "call")
    BY <2>1
  <2>3. Running(L, d, m, n) /\ NewInfo(L, n, g)
    BY <1>1, <1>2
  <2> HIDE DEF m, n
  <2> QED  BY <2>1, <2>2, <2>3, PushesFunction
<1> HIDE DEF t, m, n
<1>5. t.cs[m].t = "exec" /\ CallsNext(t.cs[m], [t |-> "ccall", inc |-> 1, y |-> 0])
        /\ TakesResult(t.ci[n])
  BY <1>1, <1>2, <1>4 DEF CallsNext, TakesResult
<1> QED
  <2>1. /\ t.cs[m].t = "exec" => TakesResult(t.ci[n])
        /\ t.cs[m].t = "cfn" => (0 = 1 \/ t.ci[n].k) /\ t.ci[n].pc # "top"
        /\ CallsNext(t.cs[m], [t |-> "ccall", inc |-> 1, y |-> 0])
    BY <1>5
  <2>2. kind \in {"Lau", "C"} /\ 1 \in {0, 1} /\ 0 \in {0, 1} /\ 0 <= 1
    OBVIOUS
  <2>3. CInv(ccall(t, Len(t.stack), 1, 1, 0, kind))
    BY ONLY <1>4, <2>1, <2>2, Ccall
  <2> QED  BY <1>3, <2>3

(* lau_callk keeps the invariant. *)
LEMMA callkStep ==
  ASSUME CInv(L), NEW kind \in {"Lau", "C"}, NEW k \in BOOLEAN, callk(kind, k)
  PROVE  CInv(L')
<1> DEFINE m == Len(L.cs)
           n == Len(L.ci)
<1>1. PICK d \in [Nat -> Nat] : /\ Top(L, d) /\ Running(L, d, m, n) /\ L.cs[m].t = "cfn"
        /\ CI = L.ci[n] /\ CI.pc = "run" /\ ~CI.ypcall
  BY InCRuns DEF callk
<1>2. CI \in CallInfo /\ ~CI.clsret /\ CI.recst = "ok" /\ CI.kind = "C"
  BY <1>1 DEF Running, InControl
<1> HIDE DEF m, n
<1>3. CASE k /\ yieldable(L)
  <2> DEFINE g == [CI EXCEPT !.pc = "call", !.k = TRUE]
             t == PushStack(SetCI(L, g), <<"func">>)
  <2>1. L' = ccall(t, Len(t.stack), 0, 1, 0, kind)
    BY <1>3 DEF callk, Call
  <2>2. NewInfo(L, n, g) /\ g.pc = "call" /\ g.k
    <3>1. /\ g \in CallInfo /\ g.func = CI.func /\ g.kind = CI.kind /\ g.want = CI.want
             /\ g.fresh = CI.fresh /\ g.tbc = CI.tbc
          /\ g.clsret = CI.clsret /\ g.recst = CI.recst /\ g.ypcall = CI.ypcall /\ g.pc = "call"
             /\ g.k = TRUE
      BY <1>2 DEF CallInfo
    <3> QED  BY <1>1, <1>2, <3>1 DEF NewInfo
  <2> HIDE DEF g
  <2>3. MayCall(t, d, m, n, Len(t.stack), 0) /\ t.cs = L.cs /\ t.ci[n] = g
    BY <1>1, <2>2, PushesFunction
  <2> HIDE DEF t
  <2>4. t.cs[m].t = "cfn" /\ CallsNext(t.cs[m], [t |-> "ccall", inc |-> 1, y |-> 0]) /\ t.ci[n].k
        /\ t.ci[n].pc = "call"
    BY <1>1, <2>2, <2>3 DEF CallsNext
  <2> QED
    <3>1. /\ t.cs[m].t = "exec" => TakesResult(t.ci[n])
          /\ t.cs[m].t = "cfn" => (0 = 1 \/ t.ci[n].k) /\ t.ci[n].pc # "top"
          /\ CallsNext(t.cs[m], [t |-> "ccall", inc |-> 1, y |-> 0])
      BY <2>4
    <3>2. kind \in {"Lau", "C"} /\ 1 \in {0, 1} /\ 0 \in {0, 1} /\ 0 <= 1
      OBVIOUS
    <3>3. CInv(ccall(t, Len(t.stack), 0, 1, 0, kind))
      BY ONLY <2>3, <3>1, <3>2, Ccall
    <3> QED  BY <2>1, <3>3
<1>4. CASE ~(k /\ yieldable(L))
  <2> DEFINE g == [CI EXCEPT !.pc = "call", !.level = 0]
             t == PushStack(SetCI(L, g), <<"func">>)
  <2>1. L' = ccall(t, Len(t.stack), 0, 1, 1, kind)
    BY <1>4 DEF callk, Call, At, CI
  <2>2. NewInfo(L, n, g) /\ g.pc = "call"
    <3>1. /\ g \in CallInfo /\ g.func = CI.func /\ g.kind = CI.kind /\ g.want = CI.want
             /\ g.fresh = CI.fresh /\ g.tbc = CI.tbc
          /\ g.clsret = CI.clsret /\ g.recst = CI.recst /\ g.ypcall = CI.ypcall /\ g.pc = "call"
      BY <1>2 DEF CallInfo
    <3> QED  BY <1>1, <1>2, <3>1 DEF NewInfo
  <2> HIDE DEF g
  <2>3. MayCall(t, d, m, n, Len(t.stack), 0) /\ t.cs = L.cs /\ t.ci[n] = g
    BY <1>1, <2>2, PushesFunction
  <2> HIDE DEF t
  <2>4. t.cs[m].t = "cfn" /\ CallsNext(t.cs[m], [t |-> "ccall", inc |-> 1, y |-> 1])
        /\ t.ci[n].pc = "call"
    BY <1>1, <2>2, <2>3 DEF CallsNext
  <2> QED
    <3>1. /\ t.cs[m].t = "exec" => TakesResult(t.ci[n])
          /\ t.cs[m].t = "cfn" => (1 = 1 \/ t.ci[n].k) /\ t.ci[n].pc # "top"
          /\ CallsNext(t.cs[m], [t |-> "ccall", inc |-> 1, y |-> 1])
      BY <2>4
    <3>2. kind \in {"Lau", "C"} /\ 1 \in {0, 1} /\ 1 <= 1
      OBVIOUS
    <3>3. CInv(ccall(t, Len(t.stack), 0, 1, 1, kind))
      BY ONLY <2>3, <3>1, <3>2, Ccall
    <3> QED  BY <2>1, <3>3
<1> QED  BY <1>3, <1>4

(* lauD_pcall: a C function in control catches the errors of the call. *)
LEMMA Protects ==
  ASSUME NEW s, NEW d, NEW m, NEW n, NEW func, MayCall(s, d, m, n, func, 0), s.cs[m].t = "cfn", s.ci[n].pc # "top",
         func = Len(s.stack), s.ci[n].recst = "ok", ~s.ci[n].ypcall
  PROVE  LET t == rawrunprotected(s, "pcall", n, func, "ok") IN
         \E c : MayCall(t, c, m + 1, n, func, 0) /\ Try(t.cs[m + 1], {"pcall"}) /\ t.stack = s.stack
<1> DEFINE e == [t |-> "try", by |-> "pcall", ci |-> n, level |-> func, status |-> "ok",
      nc |-> s.nc, nny |-> s.nny]
           t == rawrunprotected(s, "pcall", n, func, "ok")
           k == m + 1
           c == [d EXCEPT ![k] = n]
<1>1. /\ Base(s, d) /\ Skeleton(s, d) /\ s \in State /\ d \in [Nat -> Nat] /\ s.status = "ok"
         /\ Variables(s)
      /\ m \in Nat /\ m = Len(s.cs) /\ m > 0 /\ n \in Nat /\ n = Len(s.ci) /\ d[m] = n
      /\ s.nc < MaxCcalls /\ s.nny <= s.nc /\ Counts(s) /\ s.nc \in Nat /\ s.nny \in Nat
      /\ func \in Nat /\ func <= Len(s.stack) /\ (\A a \in 1..Len(s.tbclist) : s.tbclist[a] < func)
      /\ Calling(s, n, func, 0)
      /\ (\A j \in 1..m : d[j] = n /\ (Try(s.cs[j], Protected) \/ s.cs[j].t = "close")
         => s.cs[j].level <= func)
      /\ (\A j \in 1..m : d[j] = n => /\ (Try(s.cs[j], {"pcall"}) => func = s.cs[j].level)
                                    /\ (Try(s.cs[j], {"closep"}) => 0 = 0))
      /\ (n > 1 => MayBeSkipped(s.ci[n]) \/ \E j \in 1..m : s.cs[j].t = "cfn" /\ d[j] = n)
  BY StateType DEF MayCall, Base, Skeleton
<1>2. k = m + 1
  OBVIOUS
<1> HIDE DEF k
<1>3. /\ k \in Nat /\ k > 0 /\ k # 1 /\ m # k /\ m \in 1..m /\ m \in 1..k /\ k \in 1..k
      /\ (\A j \in 1..k : j \in 1..m \/ j = k) /\ \A j \in 1..m : j \in Nat /\ j # k /\ j \in 1..k
  <2>1. m \in Nat /\ m > 0
    BY <1>1
  <2> QED  BY <1>2, <2>1, Successor, Zenon
<1>4. n \in 1..n /\ n > 0
  <2>1. n > 0
    BY <1>1, Bases
  <2>2. \A q \in Nat : q > 0 => q \in 1..q
    OBVIOUS
  <2> QED  BY <1>1, <2>1, <2>2, Zenon
<1>5. /\ e \in CFunction /\ e.t = "try" /\ e.by = "pcall" /\ e.ci = n /\ e.level = func
         /\ e.nc = s.nc /\ e.nny = s.nny
  <2>1. e \in TryC
    BY <1>1 DEF TryC
  <2> QED  BY <2>1 DEF CFunction
<1>6. t = PushC(s, e)
  BY DEF rawrunprotected
<1> HIDE DEF e, t
<1>7. Pushed(s, t, e)
  BY <1>1, <1>5, <1>6, PushCIs
<1>8. /\ t \in State /\ t.ci = s.ci /\ t.stack = s.stack /\ t.tbclist = s.tbclist /\ t.status = "ok"
      /\ t.nc = s.nc /\ t.nny = s.nny /\ Len(t.cs) = k /\ t.cs[k] = e
         /\ \A j \in 1..m : t.cs[j] = s.cs[j]
  BY <1>1, <1>2, <1>7 DEF Pushed, SameCounts
<1>9. c \in [Nat -> Nat] /\ c[k] = n /\ c[m] = n /\ \A j \in 1..m : c[j] = d[j]
  <2>1. d \in [Nat -> Nat] /\ n \in Nat /\ m \in Nat /\ d[m] = n
    BY <1>1
  <2>2. k \in Nat /\ m # k /\ \A j \in 1..m : j \in Nat /\ j # k
    BY <1>3
  <2>3. c \in [Nat -> Nat] /\ c[k] = n /\ \A j \in Nat : j # k => c[j] = d[j]
    <3>1. d \in [Nat -> Nat] /\ n \in Nat /\ k \in Nat
      BY <2>1, <2>2
    <3> QED  BY ONLY <3>1, Changed, Zenon
  <2> QED  BY <2>1, <2>2, <2>3, Zenon
<1> HIDE DEF c
<1>10. OnFrame(s, e, n)
  <2>1. OnFrame(s, s.cs[m], n)
    BY <1>1, <1>3 DEF Skeleton, Depths
  <2>2. s.ci[n].kind = "C" /\ ~s.ci[n].clsret /\ n > 1 /\ ~s.ci[n].ypcall
    BY <2>1 DEF OnFrame
  <2>3. s.ci[n].func < func /\ func <= CallTop(s, n)
    <3>1. CallTop(s, n) = Len(s.stack) + 1 /\ Len(s.stack) \in Nat
      BY <1>1, <1>4, Bases
    <3>2. \A q \in Nat : q <= q + 1
      OBVIOUS
    <3> QED  BY <1>1, <3>1, <3>2 DEF Calling
  <2>4. n # 1
    <3>1. \A q \in Nat : q > 1 => q # 1
      OBVIOUS
    <3>2. n \in Nat
      BY <1>1
    <3> QED  BY <2>2, <3>1, <3>2, Zenon
  <2> QED  BY <1>5, <2>2, <2>3, <2>4 DEF OnFrame, Try, Protected, Unprotected
<1>11. Skeleton(t, c)
  <2>1. EntryOk(t.cs, k)
    BY <1>1, <1>3, <1>5, <1>8 DEF EntryOk, Try, Unprotected
  <2>2. e.nc = CcallsAt(s.cs, m) /\ e.nny = NonYieldableAt(s.cs, m)
    BY <1>1, <1>5 DEF Counts
  <2>3. CallsNext(s.cs[m], e)
    BY <1>5 DEF CallsNext, Try, Protected
  <2>4. Deeper(t, c, m)
    <3>1. t.cs[m] = s.cs[m] /\ t.cs[m + 1] = e /\ c[m + 1] = c[m]
      BY <1>2, <1>3, <1>8, <1>9
    <3>2. Beneath(t, t.cs[m], e, n)
      <4>1. n = Len(t.ci) /\ t.cs[m].t = "cfn" /\ t.ci[n].pc # "top"
        BY <1>1, <1>3, <1>8
      <4> QED  BY <1>1, <4>1, BeneathLast
    <3> QED  BY <1>5, <1>9, <3>1, <3>2 DEF Deeper
  <2>5. n \in 1..Len(s.ci) /\ d[m] <= n
    BY <1>1, <1>4
  <2>6. Skeleton(t, [d EXCEPT ![k] = n])
    BY <1>1, <1>2, <1>3, <1>5, <1>7, <1>10, <2>1, <2>2, <2>3, <2>4, <2>5, PushEntry DEF c
  <2> QED  BY <2>6 DEF c
<1>12. Variables(t)
  BY <1>1, <1>7, VariablesPush
<1>13. Counts(t)
  BY <1>1, <1>5, <1>7, CountsPush
<1>14. Calling(t, n, func, 0)
  BY <1>1, <1>8 DEF Calling
<1>15. \A j \in 1..k : c[j] = n /\ (Try(t.cs[j], Protected) \/ t.cs[j].t = "close")
         => t.cs[j].level <= func
  <2> SUFFICES ASSUME NEW j \in 1..k, c[j] = n, Try(t.cs[j], Protected)
                      \/ t.cs[j].t = "close" PROVE t.cs[j].level <= func
    OBVIOUS
  <2>1. CASE j = k
    BY <1>1, <1>5, <1>8, <2>1
  <2>2. CASE j \in 1..m
    BY <1>1, <1>8, <1>9, <2>2
  <2> QED  BY <1>3, <2>1, <2>2
<1>19. \A j \in 1..k : c[j] = n => /\ (Try(t.cs[j], {"pcall"}) => func = t.cs[j].level)
                               /\ (Try(t.cs[j], {"closep"}) => 0 = 0)
  <2> SUFFICES ASSUME NEW j \in 1..k, c[j] = n, Try(t.cs[j], {"pcall"}) PROVE func = t.cs[j].level
    OBVIOUS
  <2>1. CASE j = k
    BY <1>5, <1>8, <2>1
  <2>2. CASE j \in 1..m
    BY <1>1, <1>8, <1>9, <2>2
  <2> QED  BY <1>3, <2>1, <2>2
<1>16. n > 1 => MayBeSkipped(t.ci[n]) \/ \E j \in 1..k : t.cs[j].t = "cfn" /\ c[j] = n
  <2>1. t.cs[m].t = "cfn" /\ c[m] = n /\ m \in 1..k
    BY <1>3, <1>8, <1>9
  <2> QED  BY <2>1
<1>17. MayCall(t, c, k, n, func, 0)
  <2>1. Base(t, c)
    BY <1>11, <1>12 DEF Base
  <2> QED  BY <1>1, <1>3, <1>8, <1>9, <1>13, <1>14, <1>15, <1>16, <1>19, <2>1 DEF MayCall
<1>18. Try(t.cs[k], {"pcall"})
  BY <1>5, <1>8 DEF Try
<1> QED  BY <1>2, <1>8, <1>17, <1>18 DEF t

(* lau_pcallk keeps the invariant. *)
LEMMA pcallkStep ==
  ASSUME CInv(L), NEW kind \in {"Lau", "C"}, NEW k \in BOOLEAN, pcallk(kind, k)
  PROVE  CInv(L')
<1> DEFINE m == Len(L.cs)
           n == Len(L.ci)
           func == Len(L.stack) + 1
<1>1. PICK d \in [Nat -> Nat] : /\ Top(L, d) /\ Running(L, d, m, n) /\ L.cs[m].t = "cfn"
        /\ CI = L.ci[n] /\ CI.pc = "run" /\ ~CI.ypcall
  BY InCRuns DEF pcallk
<1>2. CI \in CallInfo /\ ~CI.clsret /\ CI.recst = "ok" /\ CI.kind = "C" /\ func \in Nat
        /\ CI.func < func /\ func <= Len(L.stack) + 1
      /\ L \in State /\ n > 0 /\ m \in Nat /\ n \in Nat
  <2>1. CI \in CallInfo /\ ~CI.clsret /\ CI.recst = "ok" /\ CI.kind = "C" /\ Len(L.stack) \in Nat
        /\ CI.func <= Len(L.stack) /\ CI.func \in Nat /\ L \in State /\ n > 0 /\ m \in Nat
           /\ n \in Nat
    BY <1>1 DEF Running, InControl
  <2>2. \A p, q \in Nat : p <= q => p < q + 1 /\ q + 1 \in Nat /\ q + 1 <= q + 1
    OBVIOUS
  <2> QED  BY <2>1, <2>2
<1>3. n = Len(L.ci)
  OBVIOUS
<1>4. CASE k /\ yieldable(L)
  <2> DEFINE g == [CI EXCEPT !.pc = "call", !.k = TRUE, !.u2 = func, !.ypcall = TRUE]
             t == PushStack(SetCI(L, g), <<"func">>)
  <2>1. L' = ccall(t, Len(t.stack), 0, 1, 0, kind)
    BY <1>4 DEF pcallk, Call
  <2> HIDE DEF func, m, n
  <2>2. NewInfo(L, n, g) /\ g.pc = "call" /\ g.k
    <3>1. /\ g \in CallInfo /\ g.func = CI.func /\ g.kind = CI.kind /\ g.want = CI.want
             /\ g.fresh = CI.fresh /\ g.tbc = CI.tbc
          /\ g.clsret = CI.clsret /\ g.recst = CI.recst /\ g.ypcall = TRUE /\ g.pc = "call"
             /\ g.k = TRUE /\ g.u2 = func
      BY <1>2 DEF CallInfo
    <3>2. L.nny = 0
      BY <1>4 DEF yieldable
    <3>3. /\ g.func = L.ci[n].func /\ g.kind = L.ci[n].kind /\ g.want = L.ci[n].want
          /\ g.fresh = L.ci[n].fresh /\ (L.ci[n].tbc => g.tbc) /\ ~g.clsret /\ g.recst = "ok"
      BY <1>1, <1>2, <3>1
    <3>4. g.kind = "C" /\ L.ci[n].func < g.u2 /\ g.u2 = Len(L.stack) + 1
      BY <1>1, <1>2, <3>1 DEF func
    <3> QED  BY <3>1, <3>2, <3>3, <3>4 DEF NewInfo
  <2> HIDE DEF g
  <2>3. MayCall(t, d, m, n, Len(t.stack), 0) /\ t.cs = L.cs /\ t.ci[n] = g
    BY <1>1, <2>2, PushesFunction
  <2> HIDE DEF t
  <2>4. t.cs[m].t = "cfn" /\ CallsNext(t.cs[m], [t |-> "ccall", inc |-> 1, y |-> 0]) /\ t.ci[n].k
        /\ t.ci[n].pc = "call"
    BY <1>1, <2>2, <2>3 DEF CallsNext
  <2> QED
    <3>1. /\ t.cs[m].t = "exec" => TakesResult(t.ci[n])
          /\ t.cs[m].t = "cfn" => (0 = 1 \/ t.ci[n].k) /\ t.ci[n].pc # "top"
          /\ CallsNext(t.cs[m], [t |-> "ccall", inc |-> 1, y |-> 0])
      BY <2>4
    <3>2. kind \in {"Lau", "C"} /\ 1 \in {0, 1} /\ 0 \in {0, 1} /\ 0 <= 1
      OBVIOUS
    <3>3. CInv(ccall(t, Len(t.stack), 0, 1, 0, kind))
      BY ONLY <2>3, <3>1, <3>2, Ccall
    <3> QED  BY <2>1, <3>3
<1>5. CASE ~(k /\ yieldable(L))
  <2> DEFINE g == [CI EXCEPT !.pc = "call", !.level = 0]
             b == SetCI(L, g)
             s == PushStack(b, <<"func">>)
             t == rawrunprotected(s, "pcall", n, func, "ok")
             i == m + 1
  <2>1. NewInfo(L, n, g) /\ g.pc = "call" /\ g.recst = "ok" /\ ~g.ypcall
    <3>1. /\ g \in CallInfo /\ g.func = CI.func /\ g.kind = CI.kind /\ g.want = CI.want
             /\ g.fresh = CI.fresh /\ g.tbc = CI.tbc
          /\ g.clsret = CI.clsret /\ g.recst = CI.recst /\ g.ypcall = CI.ypcall /\ g.pc = "call"
      BY <1>2 DEF CallInfo
    <3> QED  BY <1>1, <1>2, <3>1 DEF NewInfo
  <2>2. L' = Call(rawrunprotected(b, "pcall", n, func, "ok"), 0, 1, kind)
    BY <1>5 DEF pcallk, At, CI
  <2> HIDE DEF g, func
  <2>3. Framed(L, b, g)
    BY <1>2, <2>1, SetCIIs DEF NewInfo
  <2> HIDE DEF b
  <2>4. b \in State /\ b.nc = L.nc /\ b.nny = L.nny /\ b.stack = L.stack
    BY <2>3 DEF Framed, SameCounts
  <2>5. PushStack(rawrunprotected(b, "pcall", n, func, "ok"), <<"func">>) = t
    BY <2>4 DEF rawrunprotected, PushC, PushStack, State
  <2>6. t.stack = b.stack \o <<"func">>
    BY <2>4 DEF rawrunprotected, PushC, PushStack, State
  <2>7. L' = ccall(t, Len(t.stack), 0, 1, 1, kind)
    BY <2>2, <2>5 DEF Call
  <2> HIDE DEF m, n
  <2>8. MayCall(s, d, m, n, Len(s.stack), 0) /\ s.cs = L.cs /\ s.ci[n] = g
          /\ Len(s.stack) = Len(L.stack) + 1
    BY <1>1, <2>1, PushesFunction DEF b
  <2> HIDE DEF s
  <2>9. func = Len(s.stack) /\ s.cs[m].t = "cfn" /\ s.ci[n].recst = "ok" /\ ~s.ci[n].ypcall
        /\ s.ci[n].pc # "top"
    BY <1>1, <2>1, <2>8 DEF func
  <2>10. \E c : MayCall(t, c, m + 1, n, func, 0) /\ Try(t.cs[m + 1], {"pcall"}) /\ t.stack = s.stack
    <3>1. s.cs[m].t = "cfn" /\ func = Len(s.stack) /\ s.ci[n].recst = "ok" /\ ~s.ci[n].ypcall
          /\ s.ci[n].pc # "top"
      BY <2>9
    <3>2. MayCall(s, d, m, n, func, 0)
      BY <2>8, <2>9
    <3> QED
      BY ONLY <3>1, <3>2, Protects, SMTT(20)
  <2> HIDE DEF t
  <2>11. PICK c : MayCall(t, c, i, n, func, 0) /\ Try(t.cs[i], {"pcall"}) /\ t.stack = s.stack
    BY <2>10
  <2> HIDE DEF i
  <2>12. CallsNext(t.cs[i], [t |-> "ccall", inc |-> 1, y |-> 1]) /\ t.cs[i].t = "try"
    BY <2>11 DEF CallsNext, Try
  <2>13. CInv(ccall(t, func, 0, 1, 1, kind))
    BY <2>11, <2>12, Ccall
  <2> QED  BY <2>7, <2>9, <2>11, <2>13
<1> QED  BY <1>4, <1>5

(* A function of the program goes on. *)
LEMMA RunsOn ==
  ASSUME NEW s, NEW d, Base(s, d), s.status = "ok", NEW m \in Nat, m = Len(s.cs), m > 0,
         s.cs[m].t \in {"exec", "cfn"},
         NEW n \in Nat, n = Len(s.ci), d[m] = n, ~Returning(s.ci[n]), ~TakesResult(s.ci[n]),
         s.nc < MaxCcalls, s.nny <= s.nc, Counts(s)
  PROVE  CInv(s)
<1>1. d \in [Nat -> Nat]
  BY DEF Base, Skeleton
<1>2. ResultOf(s, n)
  BY DEF ResultOf
<1>3. Top(s, d)
  BY <1>2 DEF Top, Try
<1> QED  BY <1>1, <1>3 DEF CInv

(* A function in control may push values. *)
LEMMA RunningGrows ==
  ASSUME NEW s, NEW d, NEW m, NEW n, Running(s, d, m, n), ~Returning(s.ci[n]),
         NEW v \in Seq(StackValue)
  PROVE  LET t == PushStack(s, v) IN Running(t, d, m, n) /\ Grown(s, t, v)
<1> DEFINE t == PushStack(s, v)
<1>1. InControl(s, d, m, n) /\ s \in State /\ Base(s, d) /\ n = Len(s.ci) /\ m = Len(s.cs)
        /\ Len(s.stack) \in Nat
      /\ n \in Nat /\ s.ci[n].func \in Nat /\ s.ci[n].func <= Len(s.stack) /\ s.status = "ok"
         /\ m > 0
  BY DEF Running, InControl
<1>2. Grown(s, t, v)
  BY <1>1, PushStackIs
<1> HIDE DEF t
<1>3. t \in State /\ t.ci = s.ci /\ t.cs = s.cs /\ t.status = s.status /\ t.tbclist = s.tbclist
        /\ t.nc = s.nc /\ t.nny = s.nny
      /\ Len(t.stack) = Len(s.stack) + Len(v) /\ Len(v) \in Nat
         /\ \A p \in 1..Len(s.stack) : t.stack[p] = s.stack[p]
  BY <1>2 DEF Grown, SameCounts
<1>4. Len(t.stack) \in Nat /\ Len(t.stack) >= Len(s.stack)
  BY <1>1, <1>3
<1>5. Base(t, d)
  BY <1>1, <1>3, <1>4, Grow
<1>6. s.ci[n].func <= Len(t.stack)
  BY <1>1, <1>4
<1>7. n \in 1..Len(t.ci)
  BY <1>1, <1>3 DEF InControl
<1>8. FrameOk(t, n)
  BY <1>5, <1>7 DEF Base, Skeleton, Frames
<1>9. CallTop(t, n) = Len(t.stack) + 1
  BY <1>1, <1>3 DEF CallTop
<1>10. ResultOf(t, n)
  BY <1>3 DEF ResultOf
<1>11. Control(t) = Control(s) /\ (Counts(s) => Counts(t))
  BY <1>3 DEF Control, Counts
<1>12. InControl(t, d, m, n)
  BY <1>3, <1>4, <1>5, <1>6, <1>8, <1>9, <1>10, <1>11 DEF Running, InControl
<1>13. Running(t, d, m, n)
  BY <1>3, <1>11, <1>12 DEF Running
<1> QED  BY <1>2, <1>13 DEF t

(* The value on top becomes a variable to be closed. *)
LEMMA MarksVariable ==
  ASSUME NEW s, NEW d, Base(s, d), NEW n \in Nat, n = Len(s.ci), NEW l \in Nat, l = Len(s.stack),
         l > 1, s.stack[l] \in Var,
         s.ci[n].func < l, s.ci[n].kind = "C" => s.ci[n].tbc,
         \A a \in 1..Len(s.tbclist) : s.tbclist[a] < l, Len(s.tbclist) < MaxVars,
         NEW t \in State, t.ci = s.ci, t.cs = s.cs, t.stack = s.stack, t.status = s.status,
         t.tbclist = Append(s.tbclist, l)
  PROVE  Base(t, d)
<1> DEFINE k == Len(s.tbclist)
           r == k + 1
<1>1. Skeleton(s, d) /\ s \in State /\ s.tbclist \in Seq(Nat) /\ k \in Nat /\ MaxVars \in Nat
        /\ Variables(s)
  BY StateType, Bounds DEF Base, Skeleton
<1>2. /\ n > 0 /\ \A i \in 1..n : s.ci[i] \in CallInfo /\ s.ci[i].func \in Nat
         /\ CallTop(s, i) \in Nat
      /\ \A i \in 1..(n - 1) : CallTop(s, i) = s.ci[i + 1].func
      /\ \A i, j \in 1..n : i < j => s.ci[i].func < s.ci[j].func /\ CallTop(s, i) <= s.ci[j].func
  BY <1>1, Bases
<1>3. n \in 1..n
  BY <1>2
<1>4. \A i : CallTop(t, i) = CallTop(s, i)
  BY DEF CallTop
<1>5. \A i, p : Accounted(s, p, i) => Accounted(t, p, i)
  BY DEF Accounted
<1>6. Skeleton(t, d)
  <2>1. TopOnly(s, t)
    <3>1. n \in 1..n
      BY <1>2
    <3> QED  BY <1>1, <1>2, <3>1 DEF TopOnly, Skeleton, Frames
  <2>2. FrameOk(t, Len(s.ci))
    <3>1. FrameOk(s, n) /\ s.ci[n] \in CallInfo /\ CallTop(s, n) \in Nat
      BY <1>1, <1>2, <1>3 DEF Skeleton, Frames
    <3> QED  BY <1>4, <3>1, FrameOkKept
  <2>3. t.ci[Len(s.ci)].ypcall => \A i \in 2..(Len(s.ci) - 1) : MayBeSkipped(s.ci[i])
    <3> SUFFICES ASSUME s.ci[n].ypcall, NEW i \in 2..(n - 1) PROVE MayBeSkipped(s.ci[i])
      OBVIOUS
    <3>1. n \in 2..n /\ i \in 2..n /\ i < n
      BY <1>2
    <3> QED  BY <1>1, <3>1 DEF Skeleton, Frames
  <2>4. \A j \in 1..Len(s.cs) : d[j] = Len(s.ci) => OnFrame(t, s.cs[j], d[j])
          /\ t.ci[Len(s.ci)] = s.ci[Len(s.ci)]
    <3> SUFFICES ASSUME NEW j \in 1..Len(s.cs) PROVE OnFrame(t, s.cs[j], d[j])
      OBVIOUS
    <3>1. OnFrame(s, s.cs[j], d[j])
      BY <1>1 DEF Skeleton, Depths
    <3> QED  BY <1>4, <3>1 DEF OnFrame, CloseOk
  <2> QED  BY <1>1, <2>1, <2>2, <2>3, <2>4, LocalSkeleton
<1>7. r = k + 1 /\ r \in Nat
  BY <1>1
<1>8. /\ Len(t.tbclist) = r /\ t.tbclist[r] = l /\ \A a \in 1..k : t.tbclist[a] = s.tbclist[a]
  BY <1>1, AppendProperties
<1> HIDE DEF k, r
<1>9. k = Len(s.tbclist)
  BY DEF k
<1>10. k \in Nat /\ (\A a \in 1..r : a \in 1..k \/ a = r) /\ (\A a \in 1..k : s.tbclist[a] \in Nat)
  <2>1. k \in Nat
    BY <1>1 DEF k
  <2> QED
    <3>1. \A a \in 1..r : a \in 1..k \/ a = r
      BY ONLY <1>7, <2>1
    <3>2. \A a \in 1..k : s.tbclist[a] \in Nat
      BY <1>1, <1>9, StateType
    <3> QED  BY <2>1, <3>1, <3>2
<1>11. \A a \in 1..k : VariableOk(t, s.tbclist[a])
  <2> TAKE a \in 1..k
  <2>1. VariableOk(s, s.tbclist[a])
    BY <1>1, <1>9 DEF Variables
  <2> QED  BY <1>4, <1>5, <2>1 DEF VariableOk
<1>12. VariableOk(t, l)
  <2>1. ASSUME NEW i \in 1..n
        PROVE  l # s.ci[i].func /\ (s.ci[i].kind = "C" /\ l < CallTop(s, i) => Accounted(s, l, i))
    <3>1. CASE i = n
      <4>1. l # s.ci[n].func
        BY <1>2, <1>3
      <4> QED  BY <3>1, <4>1 DEF Accounted
    <3>2. CASE i < n
      <4>1. s.ci[i].func < s.ci[n].func /\ CallTop(s, i) <= s.ci[n].func /\ n \in 1..n
        BY <1>2, <3>2
      <4>2. s.ci[i].func \in Nat /\ s.ci[n].func \in Nat /\ CallTop(s, i) \in Nat
        BY <1>2, <1>3
      <4>3. \A x, y, z \in Nat : x < y /\ y < l => l # x /\ (z <= y => ~(l < z))
        OBVIOUS
      <4>4. l # s.ci[i].func /\ ~(l < CallTop(s, i))
        BY <4>1, <4>2, <4>3
      <4> QED  BY <4>4
    <3>3. i = n \/ i < n
      BY <1>3
    <3> QED  BY <3>1, <3>2, <3>3
  <2> QED  BY <1>4, <1>5, <2>1 DEF VariableOk
<1>13. \A a, b \in 1..r : a < b => t.tbclist[a] < t.tbclist[b]
  <2> TAKE a, b \in 1..r
  <2> HAVE a < b
  <2>1. a \in 1..k
    BY <1>7, <1>10
  <2>2. CASE b = r
    BY <1>8, <1>9, <2>1, <2>2
  <2>3. CASE b \in 1..k
    BY <1>1, <1>8, <1>9, <2>1, <2>3 DEF Variables
  <2> QED  BY <1>10, <2>2, <2>3
<1>14. r <= MaxVars
  BY <1>1, <1>7, <1>9, <1>10
<1>15. Variables(t)
  BY <1>8, <1>10, <1>11, <1>12, <1>13, <1>14 DEF Variables
<1> QED  BY <1>6, <1>15 DEF Base

(* Every variable is below the top of the stack. *)
LEMMA VariablesBelow ==
  ASSUME NEW s, s \in State, Variables(s)
  PROVE  \A a \in 1..Len(s.tbclist) : s.tbclist[a] \in Nat /\ s.tbclist[a] > 1
         /\ s.tbclist[a] <= Len(s.stack)
BY StateType DEF Variables, VariableOk

(* Errors raised by the program keep the invariant. *)
LEMMA ErrorSteps ==
  ASSUME CInv(L), (\E e \in Error : RaiseError(e)) \/ MemoryError
  PROVE  CInv(L')
<1>1. InLau \/ InC
  BY DEF RaiseError, MemoryError
<1>2. PICK d \in [Nat -> Nat] : Running(L, d, Len(L.cs), Len(L.ci))
  BY <1>1, InLauRuns, InCRuns
<1>3. Base(L, d) /\ L.status = "ok" /\ Len(L.cs) > 0 /\ L.cs[Len(L.cs)].t # "reset"
  BY <1>2 DEF Running, InControl
<1>4. "mem" \in ErrorStatus
  BY DEF ErrorStatus
<1>5. CASE MemoryError
  BY <1>3, <1>4, <1>5, Throw DEF MemoryError
<1>6. CASE \E e \in Error : RaiseError(e)
  BY <1>3, <1>6, Runerror DEF RaiseError
<1> QED  BY <1>5, <1>6

(* Actions of a function of the program *)

(* The errors and the marks are those of a function in control. *)
LEMMA RunsFunction ==
  ASSUME CInv(L), InLau \/ InC
  PROVE  \E d \in [Nat -> Nat] : /\ Running(L, d, Len(L.cs), Len(L.ci))
         /\ L.cs[Len(L.cs)].t \in {"exec", "cfn"}
                                 /\ (InC <=> L.cs[Len(L.cs)].t = "cfn")
                                 /\ CI = L.ci[Len(L.ci)] /\ CI.pc = "run" /\ ~CI.ypcall
<1>1. PICK d \in [Nat -> Nat] : /\ Running(L, d, Len(L.cs), Len(L.ci))
                                /\ CI = L.ci[Len(L.ci)] /\ CI.pc = "run" /\ ~CI.ypcall
  BY InLauRuns, InCRuns
<1>2. L.cs[Len(L.cs)].t = Control(L) /\ L.cs[Len(L.cs)].t \in {"exec", "cfn"}
  BY <1>1 DEF Running, InControl
<1>3. InC <=> L.cs[Len(L.cs)].t = "cfn"
  BY <1>1, <1>2 DEF InC
<1> QED  BY <1>1, <1>2, <1>3

(* The values pushed when a function returns n of them. *)
LEMMA ResultValues ==
  ASSUME NEW n \in {0, 1}
  PROVE  LET v == [i \in 1..n |-> "res"] IN
         v \in Seq(StackValue) /\ Len(v) = n /\ (n = 1 => v[1] = "res")
<1>1. "res" \in StackValue
  BY DEF StackValue
<1> QED  BY <1>1

(* A function of the program closes variables of its own. *)
LEMMA StartsClosing ==
  ASSUME NEW s, NEW d, Base(s, d), s.status = "ok", NEW m \in Nat, m = Len(s.cs), m > 0,
         s.cs[m].t \in {"exec", "cfn"},
         NEW n \in Nat, n = Len(s.ci), d[m] = n, s.nc < MaxCcalls, s.nny <= s.nc, Counts(s),
         NEW e \in CloseC, OnFrame(s, e, n), CallsNext(s.cs[m], e), e.then # "poscall",
         ResultOf(s, n), ~TakesResult(s.ci[n])
  PROVE  CInv(PushC(s, e))
<1>1. e \in CFunction /\ e.t = "close"
  BY DEF CFunction, CloseC
<1>2. \A t, c : t.ci = s.ci /\ t.cs[m] = s.cs[m] /\ t.cs[m + 1] = e /\ c[m] = d[m] /\ c[m + 1] = n
                 => Deeper(t, c, m)
  <2> TAKE t, c
  <2> HAVE t.ci = s.ci /\ t.cs[m] = s.cs[m] /\ t.cs[m + 1] = e /\ c[m] = d[m] /\ c[m + 1] = n
  <2>1. Beneath(t, s.cs[m], e, d[m])
    BY <1>1 DEF Beneath, Closing, Try
  <2> QED  BY <1>1, <2>1 DEF Deeper, Closing
<1>3. d[m] <= n
  OBVIOUS
<1>4. MayEnter(s, d, m, n, e)
  BY <1>1, <1>2, <1>3 DEF MayEnter
<1> QED  BY <1>4, EnterTop

-----------------------------------------------------------------------------

(* OP_TBC and lau_toclose keep the invariant. *)
LEMMA ToCloseStep ==
  ASSUME CInv(L), NEW v \in Var \ ToSet(L.stack), ToClose(v)
  PROVE  CInv(L')
<1> DEFINE m == Len(L.cs)
           n == Len(L.ci)
           g == IF InC THEN [CI EXCEPT !.tbc = TRUE] ELSE CI
           b == SetCI(L, g)
           s == PushStack(b, <<v>>)
           l == Len(s.stack)
<1>1. PICK d \in [Nat -> Nat] : /\ Running(L, d, m, n) /\ L.cs[m].t \in {"exec", "cfn"}
        /\ (InC <=> L.cs[m].t = "cfn")
                                /\ CI = L.ci[n] /\ CI.pc = "run" /\ ~CI.ypcall
  BY RunsFunction DEF ToClose
<1>2. CI \in CallInfo /\ ~CI.clsret /\ CI.recst = "ok" /\ L \in State /\ Base(L, d) /\ n > 0
        /\ n \in Nat /\ n = Len(L.ci)
      /\ CI.func <= Len(L.stack) /\ CI.func \in Nat /\ CI.func > 0
         /\ (L.cs[m].t = "exec" => CI.kind = "Lau")
      /\ m \in Nat /\ m = Len(L.cs) /\ m > 0 /\ d[m] = n
  BY <1>1 DEF Running, InControl
<1>3. /\ g \in CallInfo /\ g.func = CI.func /\ g.kind = CI.kind /\ g.want = CI.want
         /\ g.fresh = CI.fresh /\ (CI.tbc => g.tbc)
      /\ g.clsret = CI.clsret /\ g.recst = CI.recst /\ g.ypcall = CI.ypcall /\ g.pc = CI.pc
         /\ (InC => g.tbc = TRUE)
  <2>1. CASE InC
    <3>1. g = [CI EXCEPT !.tbc = TRUE]
      BY <2>1
    <3> HIDE DEF g
    <3>2. g \in CallInfo /\ g.tbc = TRUE
      BY <1>2, <3>1 DEF CallInfo
    <3>3. /\ g.func = CI.func /\ g.kind = CI.kind /\ g.want = CI.want /\ g.fresh = CI.fresh
          /\ g.clsret = CI.clsret /\ g.recst = CI.recst /\ g.ypcall = CI.ypcall /\ g.pc = CI.pc
      BY <1>2, <3>1 DEF CallInfo
    <3> QED  BY <3>2, <3>3
  <2>2. CASE ~InC
    <3>1. g = CI
      BY <2>2
    <3> HIDE DEF g
    <3> QED  BY <1>2, <2>2, <3>1
  <2> QED  BY <2>1, <2>2
<1>4. L' = [s EXCEPT !.tbclist = Append(@, l)]
  <2>1. L.ci \in Seq(CallInfo)
    BY <1>2, StateType
  <2>2. CASE InC
    BY <1>2, <2>2 DEF ToClose, SetCI, PushStack, State
  <2>3. CASE ~InC
    <3>1. [L.ci EXCEPT ![n] = CI] = L.ci
      <4>1. L.ci \in [1..Len(L.ci) -> CallInfo]
        BY <2>1, LenProperties
      <4> QED  BY <1>1, <4>1
    <3>2. b = L
      BY <1>2, <2>3, <3>1 DEF SetCI, State
    <3> QED  BY <2>3, <3>2 DEF ToClose
  <2> QED  BY <2>2, <2>3
<1>5. Len(L.tbclist) < MaxVars
  BY DEF ToClose
<1> HIDE DEF m, n, g
<1>6. NewInfo(L, n, g)
  BY <1>1, <1>2, <1>3 DEF NewInfo
<1>7. Framed(L, b, g) /\ Base(b, d)
  BY <1>1, <1>6, SetRunning
<1> HIDE DEF b
<1>8. /\ b \in State /\ b.stack = L.stack /\ b.cs = L.cs /\ b.tbclist = L.tbclist
         /\ b.status = L.status
      /\ b.nc = L.nc /\ b.nny = L.nny /\ Len(b.ci) = n /\ b.ci[n] = g
  BY <1>2, <1>7 DEF Framed, SameCounts
<1>9. <<v>> \in Seq(StackValue) /\ Len(<<v>>) = 1 /\ <<v>>[1] = v
  BY DEF StackValue
<1>10. Grown(b, s, <<v>>)
  BY <1>8, <1>9, PushStackIs
<1> HIDE DEF s, l
<1>11. l = Len(s.stack)
  BY DEF l
<1>12. /\ s \in State /\ s.ci = b.ci /\ s.cs = L.cs /\ s.tbclist = L.tbclist /\ s.status = L.status
       /\ s.nc = L.nc /\ s.nny = L.nny /\ Len(s.stack) = Len(L.stack) + 1
       /\ s.stack[Len(L.stack) + 1] = v /\ \A p \in 1..Len(L.stack) : s.stack[p] = L.stack[p]
  <2>1. /\ s \in State /\ s.ci = b.ci /\ s.cs = L.cs /\ s.tbclist = L.tbclist /\ s.status = L.status
        /\ s.nc = L.nc /\ s.nny = L.nny
    BY <1>8, <1>10 DEF Grown, SameCounts
  <2>2. /\ Len(s.stack) = Len(b.stack) + 1 /\ \A p \in 1..Len(b.stack) : s.stack[p] = b.stack[p]
    BY <1>9, <1>10 DEF Grown
  <2>3. s.stack[Len(b.stack) + 1] = v
    <3>1. 1 \in 1..Len(<<v>>)
      BY <1>9
    <3>2. \A i \in 1..Len(<<v>>) : s.stack[Len(b.stack) + i] = <<v>>[i]
      BY <1>10 DEF Grown
    <3>3. s.stack[Len(b.stack) + 1] = <<v>>[1]
      BY <3>1, <3>2
    <3> QED  BY <1>9, <3>3
  <2> QED  BY <1>8, <2>1, <2>2, <2>3
<1>13. l = Len(L.stack) + 1 /\ l \in Nat /\ Len(L.stack) \in Nat /\ l > 1 /\ g.func < l
  <2>1. Len(L.stack) \in Nat /\ l = Len(L.stack) + 1
    BY <1>2, <1>11, <1>12, StateType
  <2>2. g.func = CI.func /\ CI.func \in Nat /\ CI.func > 0 /\ CI.func <= Len(L.stack)
    BY <1>2, <1>3
  <2>3. \A x, y \in Nat : x > 0 /\ x <= y => y + 1 \in Nat /\ y + 1 > 1 /\ x < y + 1
    OBVIOUS
  <2> QED  BY <2>1, <2>2, <2>3
<1>14. Base(s, d)
  <2>1. Len(s.stack) >= Len(b.stack) /\ \A p \in 1..Len(b.stack) : s.stack[p] = b.stack[p]
    BY <1>8, <1>11, <1>12, <1>13
  <2> QED  BY <1>7, <1>8, <1>12, <2>1, Grow
<1>15. /\ L' \in State /\ L'.ci = s.ci /\ L'.cs = s.cs /\ L'.stack = s.stack /\ L'.status = s.status
       /\ L'.tbclist = Append(s.tbclist, l) /\ L'.nc = s.nc /\ L'.nny = s.nny
  <2>1. Append(s.tbclist, l) \in Seq(Nat)
    BY <1>12, <1>13, StateType, AppendProperties
  <2> QED  BY <1>4, <1>12, <2>1 DEF State
<1>16. \A a \in 1..Len(s.tbclist) : s.tbclist[a] < l
  <2> TAKE a \in 1..Len(s.tbclist)
  <2>1. L.tbclist[a] \in Nat /\ L.tbclist[a] <= Len(L.stack)
    BY <1>2, <1>12, VariablesBelow DEF Base
  <2>2. \A x, y \in Nat : x <= y => x < y + 1
    OBVIOUS
  <2>3. s.tbclist[a] = L.tbclist[a] /\ l = Len(L.stack) + 1 /\ Len(L.stack) \in Nat
    BY <1>12, <1>13
  <2> QED  BY <2>1, <2>2, <2>3
<1>17. Base(L', d)
  <2>1. n = Len(s.ci) /\ s.ci[n] = g /\ s.stack[l] \in Var /\ Len(s.tbclist) < MaxVars
    BY <1>5, <1>8, <1>12, <1>13
  <2>2. g.kind = "C" => g.tbc
    BY <1>1, <1>2, <1>3
  <2> HIDE DEF g
  <2> QED  BY <1>2, <1>11, <1>13, <1>14, <1>15, <1>16, <2>1, <2>2, MarksVariable
<1>18. m = Len(L'.cs) /\ L'.cs[m].t \in {"exec", "cfn"} /\ n = Len(L'.ci) /\ L'.ci[n] = g
  BY <1>1, <1>2, <1>8, <1>12, <1>15
<1>19. ~Returning(g) /\ ~TakesResult(g)
  BY <1>1, <1>2, <1>3 DEF Returning, TakesResult
<1>20. L'.status = "ok" /\ L'.nc < MaxCcalls /\ L'.nny <= L'.nc /\ Counts(L')
  BY <1>1, <1>12, <1>15 DEF Running, InControl, Counts
<1> QED  BY <1>2, <1>17, <1>18, <1>19, <1>20, RunsOn

(* The end of a block keeps the invariant. *)
LEMMA OpCloseStep ==
  ASSUME CInv(L), NEW i \in 1..Len(L.tbclist), OpClose(L.tbclist[i])
  PROVE  CInv(L')
<1> DEFINE m == Len(L.cs)
           n == Len(L.ci)
           level == L.tbclist[i]
           g == [CI EXCEPT !.pc = "close", !.level = level]
           s == SetCI(L, g)
           e == [t |-> "close", level |-> level, status |-> "ok", yy |-> TRUE, then |-> "close"]
<1>1. PICK d \in [Nat -> Nat] : /\ Top(L, d) /\ Running(L, d, m, n) /\ L.cs[m].t = "exec"
                                /\ CI = L.ci[n] /\ CI.pc = "run" /\ ~CI.ypcall
  BY InLauRuns DEF OpClose
<1>2. CI \in CallInfo /\ ~CI.clsret /\ CI.recst = "ok" /\ CI.kind = "Lau" /\ L \in State
        /\ Base(L, d) /\ n > 0 /\ n \in Nat
      /\ n = Len(L.ci) /\ m \in Nat /\ m = Len(L.cs) /\ m > 0 /\ d[m] = n /\ Len(L.stack) \in Nat
      /\ CallTop(L, n) = Len(L.stack) + 1 /\ L.nc < MaxCcalls /\ L.nny <= L.nc /\ Counts(L)
         /\ L.status = "ok"
  BY <1>1 DEF Running, InControl
<1>3. level \in Nat /\ CI.func < level /\ level <= Len(L.stack) + 1 /\ L' = PushC(s, e)
  <2>1. level \in Nat /\ level <= Len(L.stack)
    BY <1>2, VariablesBelow DEF Base
  <2>2. \A x, y \in Nat : x <= y => x <= y + 1
    OBVIOUS
  <2>3. CI.func < level /\ L' = PushC(s, e)
    BY DEF OpClose, lauF_close
  <2> QED  BY <1>2, <2>1, <2>2, <2>3
<1> HIDE DEF level, m, n
<1>4. /\ g \in CallInfo /\ g.func = CI.func /\ g.kind = CI.kind /\ g.want = CI.want
         /\ g.fresh = CI.fresh /\ g.tbc = CI.tbc
      /\ g.clsret = CI.clsret /\ g.recst = CI.recst /\ g.ypcall = CI.ypcall /\ g.pc = "close"
         /\ g.level = level
  BY <1>2, <1>3 DEF CallInfo
<1>5. e \in CloseC /\ e.t = "close" /\ e.level = level /\ e.status = "ok" /\ e.then = "close"
  BY <1>3 DEF CloseC
<1> HIDE DEF g, e
<1>6. NewInfo(L, n, g)
  BY <1>1, <1>2, <1>3, <1>4 DEF NewInfo
<1>7. Framed(L, s, g) /\ Base(s, d)
  BY <1>1, <1>6, SetRunning
<1> HIDE DEF s
<1>8. /\ s \in State /\ s.stack = L.stack /\ s.cs = L.cs /\ s.status = "ok"
      /\ s.nc = L.nc /\ s.nny = L.nny /\ Len(s.ci) = n /\ s.ci[n] = g
  BY <1>2, <1>7 DEF Framed, SameCounts
<1>9. CallTop(s, n) = Len(L.stack) + 1
  <2>1. Len(s.ci) = n /\ s.stack = L.stack
    BY <1>8
  <2>2. ~(n < Len(s.ci))
    <3>1. n \in Nat
      BY <1>2
    <3>2. \A x \in Nat : ~(x < x)
      OBVIOUS
    <3> QED  BY ONLY <2>1, <3>1, <3>2
  <2> QED  BY ONLY <2>1, <2>2 DEF CallTop
<1>10. OnFrame(s, e, n)
  BY <1>2, <1>3, <1>4, <1>5, <1>8, <1>9 DEF OnFrame, CloseOk, Try
<1>11. CallsNext(s.cs[m], e)
  BY <1>1, <1>5, <1>8 DEF CallsNext, Closing
<1>12. ResultOf(s, n) /\ ~TakesResult(s.ci[n])
  BY <1>2, <1>4, <1>8 DEF ResultOf, Returning, TakesResult
<1>13. Counts(s)
  BY <1>2, <1>8 DEF Counts
<1> QED  BY <1>1, <1>2, <1>3, <1>5, <1>7, <1>8, <1>10, <1>11, <1>12, <1>13, StartsClosing

(* A return instruction keeps the invariant. *)
LEMMA OpReturnStep ==
  ASSUME CInv(L), NEW nres \in {0, 1}, OpReturn(nres)
  PROVE  CInv(L')
<1> DEFINE m == Len(L.cs)
           n == Len(L.ci)
           v == [i \in 1..nres |-> "res"]
           s == PushStack(L, v)
           g == [CI EXCEPT !.pc = "return", !.u2 = nres]
           t == SetCI(s, g)
           e == [t |-> "close", level |-> CI.func + 1, status |-> "ktop", yy |-> TRUE,
           then |-> "return"]
<1>1. PICK d \in [Nat -> Nat] : /\ Top(L, d) /\ Running(L, d, m, n) /\ L.cs[m].t = "exec"
                                /\ CI = L.ci[n] /\ CI.pc = "run" /\ ~CI.ypcall
  BY InLauRuns DEF OpReturn
<1>2. CI \in CallInfo /\ ~CI.clsret /\ CI.recst = "ok" /\ CI.kind = "Lau" /\ L \in State /\ n > 0
        /\ n \in Nat
      /\ n = Len(L.ci) /\ m \in Nat /\ m = Len(L.cs) /\ m > 0 /\ d[m] = n /\ Len(L.stack) \in Nat
      /\ CI.func \in Nat /\ CI.func <= Len(L.stack) /\ CI.func > 0
  BY <1>1 DEF Running, InControl
<1>3. L' = IF TbcFrom(L, CI.func) THEN PushC(t, e) ELSE leaveframe(s, nres)
  BY DEF OpReturn, lauF_close
<1>4. v \in Seq(StackValue) /\ Len(v) = nres /\ (nres = 1 => v[1] = "res")
  BY ResultValues
<1>5. nres \in Nat
  OBVIOUS
<1> HIDE DEF v, m, n
<1>6. Running(s, d, m, n) /\ Grown(L, s, v)
  <2>1. ~Returning(L.ci[n])
    BY <1>1, <1>2 DEF Returning
  <2> QED  BY <1>1, <1>4, <2>1, RunningGrows
<1> HIDE DEF s
<1>7. /\ s.ci = L.ci /\ s.cs = L.cs /\ s.tbclist = L.tbclist /\ Len(s.stack) = Len(L.stack) + nres
      /\ (nres = 1 => s.stack[Len(L.stack) + 1] = "res")
  <2>1. s.ci = L.ci /\ s.cs = L.cs /\ s.tbclist = L.tbclist
    BY <1>6 DEF Grown, SameCounts
  <2>2. Len(s.stack) = Len(L.stack) + nres
    BY <1>4, <1>6 DEF Grown
  <2>3. nres = 1 => s.stack[Len(L.stack) + 1] = "res"
    <3>1. 1 \in 1..Len(v) \/ nres = 0
      BY <1>4
    <3>2. \A p \in 1..Len(v) : s.stack[Len(L.stack) + p] = v[p]
      BY <1>6 DEF Grown
    <3> QED  BY <1>4, <3>1, <3>2
  <2> QED  BY <2>1, <2>2, <2>3
<1>8. /\ s \in State /\ Base(s, d) /\ s.status = "ok" /\ s.nc < MaxCcalls /\ s.nny <= s.nc
         /\ Counts(s)
      /\ CallTop(s, n) = Len(s.stack) + 1 /\ Len(s.stack) \in Nat
  BY <1>6 DEF Running, InControl
<1>9. CI.func + nres <= Len(s.stack)
  <2>1. \A x, y, z \in Nat : x <= y => x + z <= y + z
    OBVIOUS
  <2>2. CI.func \in Nat /\ Len(L.stack) \in Nat /\ CI.func <= Len(L.stack)
          /\ Len(s.stack) = Len(L.stack) + nres
    BY <1>2, <1>7
  <2> QED  BY <1>5, <2>1, <2>2
<1>10. CASE ~TbcFrom(L, CI.func)
  <2>1. ~TbcFrom(s, s.ci[n].func)
    BY <1>1, <1>7, <1>10 DEF TbcFrom
  <2> QED  BY <1>1, <1>2, <1>3, <1>7, <1>8, <1>9, <1>10, <2>1, Leaveframe
<1>11. CASE TbcFrom(L, CI.func)
  <2>1. /\ g \in CallInfo /\ g.func = CI.func /\ g.kind = CI.kind /\ g.want = CI.want
           /\ g.fresh = CI.fresh /\ g.tbc = CI.tbc
        /\ g.clsret = CI.clsret /\ g.recst = CI.recst /\ g.ypcall = CI.ypcall /\ g.pc = "return"
           /\ g.u2 = nres
    BY <1>2, <1>5 DEF CallInfo
  <2>2. CI.func + 1 \in Nat /\ CI.func < CI.func + 1 /\ CI.func + 1 <= Len(s.stack) + 1
          /\ CI.func + nres < Len(s.stack) + 1
    <3>1. \A x, y, z \in Nat : x + z <= y => x + 1 \in Nat /\ x < x + 1 /\ x + 1 <= y + 1
            /\ x + z < y + 1
      OBVIOUS
    <3>2. CI.func \in Nat /\ Len(s.stack) \in Nat
      BY <1>2, <1>8
    <3> QED  BY <1>5, <1>9, <3>1, <3>2
  <2>3. e \in CloseC /\ e.t = "close" /\ e.level = CI.func + 1 /\ e.status = "ktop"
          /\ e.then = "return"
    BY <2>2 DEF CloseC
  <2> HIDE DEF g, e
  <2>4. NewInfo(s, n, g)
    BY <1>1, <1>2, <1>7, <2>1, <2>2 DEF NewInfo
  <2>5. Framed(s, t, g) /\ Base(t, d)
    BY <1>6, <2>4, SetRunning
  <2> HIDE DEF t
  <2>6. /\ t \in State /\ t.stack = s.stack /\ t.cs = L.cs /\ t.status = "ok"
        /\ t.nc = s.nc /\ t.nny = s.nny /\ Len(t.ci) = n /\ t.ci[n] = g
    BY <1>2, <1>7, <1>8, <2>5 DEF Framed, SameCounts
  <2>7. CallTop(t, n) = Len(s.stack) + 1
    <3>1. Len(t.ci) = n /\ t.stack = s.stack
      BY <2>6
    <3>2. ~(n < Len(t.ci))
      BY ONLY <1>2, <3>1
    <3> QED  BY ONLY <3>1, <3>2 DEF CallTop
  <2>8. OnFrame(t, e, n)
    BY <1>2, <2>1, <2>2, <2>3, <2>6, <2>7 DEF OnFrame, CloseOk, Try
  <2>9. CallsNext(t.cs[m], e)
    BY <1>1, <2>3, <2>6 DEF CallsNext, Closing
  <2>10. ~TakesResult(t.ci[n])
    BY <2>1, <2>6 DEF TakesResult
  <2>11. ResultOf(t, n)
    <3>1. CallTop(t, n) - 1 = Len(s.stack)
      BY <1>8, <2>7
    <3>2. g.u2 = 1 => s.stack[Len(s.stack)] = "res"
      BY <1>7, <2>1
    <3> QED  BY <2>6, <3>1, <3>2 DEF ResultOf
  <2>12. Counts(t)
    BY <1>7, <1>8, <2>6 DEF Counts
  <2> QED  BY <1>1, <1>2, <1>3, <1>8, <1>11, <2>3, <2>5, <2>6, <2>8, <2>9, <2>10, <2>11, <2>12,
              StartsClosing
<1> QED  BY <1>10, <1>11

(* The stack may lose what is above p if nothing of the running frame is there. *)
Above(s, d, n, p) ==
  LET f == s.ci[n] IN
  /\ f.func < p
  /\ f.ypcall => f.u2 <= p
  /\ f.pc \in {"close", "top"} => f.level <= p
  /\ Returning(f) => f.func + f.u2 < p
  /\ \A j \in 1..Len(s.cs) : d[j] = n /\ (Try(s.cs[j], Protected) \/ s.cs[j].t = "close")
     => s.cs[j].level <= p

(* A cut of the stack above all variables disturbs nothing. *)
LEMMA TrimsStack ==
  ASSUME NEW s, NEW d, Base(s, d), NEW n \in Nat, n = Len(s.ci), NEW p \in Nat, Above(s, d, n, p),
         ~TbcFrom(s, p),
         NEW t \in State, t.ci = s.ci, t.cs = s.cs, t.tbclist = s.tbclist, t.status = s.status,
         p <= Len(t.stack) + 1, \A q \in 1..(p - 1) : t.stack[q] = s.stack[q]
  PROVE  Base(t, d)
<1>1. Skeleton(s, d) /\ s \in State /\ Variables(s) /\ Frames(s) /\ Depths(s, d)
  BY DEF Base, Skeleton
<1>2. /\ n > 0 /\ n \in 1..n /\ s.ci[n] \in CallInfo /\ s.ci[n].func \in Nat
         /\ CallTop(s, n) = Len(s.stack) + 1
      /\ Len(s.stack) \in Nat /\ Len(t.stack) \in Nat
  <2>1. n > 0 /\ CallTop(s, n) = Len(s.stack) + 1 /\ Len(s.stack) \in Nat
    BY <1>1, Bases
  <2>2. n \in 1..n
    BY <2>1
  <2>3. s.ci[n] \in CallInfo /\ s.ci[n].func \in Nat
    BY <1>1, <2>2, Bases
  <2> QED  BY <2>1, <2>2, <2>3, StateType
<1>3. /\ s.ci[n].func < p /\ (s.ci[n].ypcall => s.ci[n].u2 <= p)
         /\ (s.ci[n].pc = "close" => s.ci[n].level <= p)
         /\ (s.ci[n].pc = "top" => s.ci[n].level <= p)
      /\ (Returning(s.ci[n]) => s.ci[n].func + s.ci[n].u2 < p)
      /\ \A j \in 1..Len(s.cs) : d[j] = n /\ (Try(s.cs[j], Protected) \/ s.cs[j].t = "close")
         => s.cs[j].level <= p
  BY DEF Above
<1>4. CallTop(t, n) = Len(t.stack) + 1 /\ CallTop(t, n) \in Nat /\ p <= CallTop(t, n)
  BY <1>2 DEF CallTop
<1>5. \A x \in Nat : x <= p => x <= CallTop(t, n)
  BY <1>4
<1>6. \A x \in Nat : x < p => x < CallTop(t, n)
  BY <1>4
<1>7. FrameOk(t, n)
  <2>1. FrameOk(s, n)
    BY <1>1, <1>2 DEF Frames
  <2>2. s.ci[n].u2 \in Nat /\ s.ci[n].level \in Nat /\ s.ci[n].func \in Nat
          /\ s.ci[n].func + s.ci[n].u2 \in Nat
    BY <1>2, FrameType
  <2> QED  BY <1>3, <1>5, <1>6, <2>1, <2>2 DEF FrameOk
<1>8. TopOnly(s, t)
  <2>1. s.ci[n].func <= Len(t.stack)
    BY <1>2, <1>3
  <2>2. \A q \in 1..(s.ci[n].func - 1) : t.stack[q] = s.stack[q]
    <3>1. \A x, y \in Nat : x < y => \A q \in 1..(x - 1) : q \in 1..(y - 1)
      OBVIOUS
    <3>2. \A q \in 1..(s.ci[n].func - 1) : q \in 1..(p - 1)
      BY ONLY p \in Nat, <1>2, <1>3, <3>1
    <3> QED  BY <3>2
  <2> QED  BY <2>1, <2>2 DEF TopOnly
<1>9. \A j \in 1..Len(s.cs) : d[j] = n => OnFrame(t, s.cs[j], d[j])
  <2> SUFFICES ASSUME NEW j \in 1..Len(s.cs), d[j] = n PROVE OnFrame(t, s.cs[j], d[j])
    OBVIOUS
  <2>1. OnFrame(s, s.cs[j], d[j]) /\ s.cs[j] \in CFunction
    BY <1>1, StateType DEF Depths
  <2>2. s.cs[j].t \in {"try", "close"} => s.cs[j].level \in Nat
    BY <2>1, EntryType DEF TryC, CloseC
  <2>3. CASE s.cs[j].t = "close"
    <3>1. s.cs[j].level <= CallTop(t, n)
      BY <1>3, <1>5, <2>2, <2>3
    <3> QED  BY <2>1, <2>3, <3>1 DEF OnFrame, CloseOk, Try
  <2>4. CASE Try(s.cs[j], Protected)
    <3>1. s.cs[j].level <= CallTop(t, n) /\ s.cs[j].t = "try"
      <4>1. s.cs[j].t = "try"
        BY <2>4 DEF Try
      <4> QED  BY <1>3, <1>5, <2>2, <2>4, <4>1
    <3> QED  BY <2>1, <2>4, <3>1 DEF OnFrame, Try, Protected, Unprotected
  <2>5. CASE s.cs[j].t # "close" /\ ~Try(s.cs[j], Protected)
    BY <2>1, <2>5 DEF OnFrame
  <2> QED  BY <2>3, <2>4, <2>5
<1>10. t.ci[n].ypcall => \A i \in 2..(n - 1) : MayBeSkipped(s.ci[i])
  <2> SUFFICES ASSUME s.ci[n].ypcall, NEW i \in 2..(n - 1) PROVE MayBeSkipped(s.ci[i])
    OBVIOUS
  <2>1. n \in 2..n /\ i \in 2..n /\ i < n
    BY <1>2
  <2> QED  BY <1>1, <2>1 DEF Frames
<1>11. \A a \in 1..Len(t.tbclist) :
         /\ t.tbclist[a] = s.tbclist[a]
         /\ t.tbclist[a] <= Len(t.stack) /\ t.stack[t.tbclist[a]] = s.stack[t.tbclist[a]]
         /\ s.ci[n].kind = "C" /\ s.ci[n].func < t.tbclist[a] => Accounted(t, t.tbclist[a], n)
  <2> TAKE a \in 1..Len(t.tbclist)
  <2>1. s.tbclist[a] \in Nat /\ s.tbclist[a] > 1 /\ s.tbclist[a] <= Len(s.stack)
          /\ VariableOk(s, s.tbclist[a])
    BY <1>1, VariablesBelow DEF Variables
  <2>2. s.tbclist[a] < p
    BY <2>1 DEF TbcFrom
  <2>3. s.tbclist[a] <= Len(t.stack) /\ s.tbclist[a] \in 1..(p - 1) /\ s.tbclist[a] < CallTop(s, n)
    <3>1. \A x, y, z, w \in Nat : x > 1 /\ x < y /\ y <= z + 1 /\ x <= w =>
            x <= z /\ x \in 1..(y - 1) /\ x < w + 1
      OBVIOUS
    <3>2. p <= Len(t.stack) + 1
      OBVIOUS
    <3> QED  BY ONLY p \in Nat, <1>2, <2>1, <2>2, <3>1, <3>2
  <2>4. s.ci[n].kind = "C" /\ s.ci[n].func < s.tbclist[a] => Accounted(s, s.tbclist[a], n)
    BY <1>2, <2>1, <2>3 DEF VariableOk
  <2> QED  BY <2>3, <2>4 DEF Accounted
<1> QED
  <2>1. FrameOk(t, Len(s.ci)) /\ TopOnly(s, t)
    BY <1>7, <1>8
  <2>2. /\ t.ci[Len(s.ci)].ypcall => \A i \in 2..(Len(s.ci) - 1) : MayBeSkipped(s.ci[i])
        /\ t.ci[Len(s.ci)].ypcall => s.ci[Len(s.ci)].ypcall \/ AllYieldable(s)
    BY <1>10
  <2>3. \A j \in 1..Len(s.cs) : d[j] = Len(s.ci) =>
          OnFrame(t, s.cs[j], d[j]) /\ (j = Len(s.cs) \/ t.ci[Len(s.ci)] = s.ci[Len(s.ci)])
    BY <1>9
  <2>4. Len(t.tbclist) <= Len(s.tbclist)
    BY StateType
  <2>5. \A a \in 1..Len(t.tbclist) :
          /\ t.tbclist[a] = s.tbclist[a]
          /\ t.tbclist[a] <= Len(t.stack) /\ t.stack[t.tbclist[a]] = s.stack[t.tbclist[a]]
          /\ s.ci[Len(s.ci)].kind = "C" /\ s.ci[Len(s.ci)].func < t.tbclist[a]
               => Accounted(t, t.tbclist[a], Len(s.ci))
    BY <1>11
  <2>6. t.cs = s.cs /\ t.status = s.status
    OBVIOUS
  <2> QED  BY ONLY Base(s, d), t \in State, <2>1, <2>2, <2>3, <2>4, <2>5, <2>6, Local

(* lau_settop keeps the invariant. *)
LEMMA settopStep ==
  ASSUME CInv(L), NEW newtop \in 1..Len(L.stack), settop(newtop)
  PROVE  CInv(L')
<1> DEFINE m == Len(L.cs)
           n == Len(L.ci)
           g == [CI EXCEPT !.pc = "top", !.level = newtop]
           s == SetCI(L, g)
           e == [t |-> "close", level |-> newtop, status |-> "ktop", yy |-> FALSE, then |-> "top"]
<1>1. PICK d \in [Nat -> Nat] : /\ Top(L, d) /\ Running(L, d, m, n) /\ L.cs[m].t = "cfn"
                                /\ CI = L.ci[n] /\ CI.pc = "run" /\ ~CI.ypcall
  BY InCRuns DEF settop
<1>2. CI \in CallInfo /\ ~CI.clsret /\ CI.recst = "ok" /\ CI.kind = "C" /\ L \in State /\ Base(L, d)
        /\ n > 0 /\ n \in Nat
      /\ n = Len(L.ci) /\ m \in Nat /\ m = Len(L.cs) /\ m > 0 /\ d[m] = n /\ Len(L.stack) \in Nat
      /\ CallTop(L, n) = Len(L.stack) + 1 /\ L.nc < MaxCcalls /\ L.nny <= L.nc /\ Counts(L)
         /\ L.status = "ok"
  BY <1>1 DEF Running, InControl
<1>3. newtop \in Nat /\ CI.func < newtop /\ newtop <= Len(L.stack) + 1 /\ newtop <= Len(L.stack)
        /\ newtop \in 1..(Len(L.stack) + 1)
      /\ CI.func \in Nat /\ newtop > 0
  <2>1. newtop \in Nat /\ newtop > 0 /\ newtop <= Len(L.stack)
    BY <1>2
  <2>2. CI.func \in Nat
    BY <1>2, FrameType
  <2> QED
    <3>1. CI.func < newtop
      BY DEF settop
    <3>2. \A x, y \in Nat : x > 0 /\ x <= y => x <= y + 1 /\ x \in 1..(y + 1)
      OBVIOUS
    <3> QED  BY ONLY <1>2, <2>1, <2>2, <3>1, <3>2
<1>4. L' = IF TbcFrom(L, newtop) THEN PushC(s, e) ELSE SetTop(L, newtop)
  BY DEF settop, lauF_close
<1> HIDE DEF m, n
<1>5. CASE TbcFrom(L, newtop)
  <2>1. /\ g \in CallInfo /\ g.func = CI.func /\ g.kind = CI.kind /\ g.want = CI.want
           /\ g.fresh = CI.fresh /\ g.tbc = CI.tbc
        /\ g.clsret = CI.clsret /\ g.recst = CI.recst /\ g.ypcall = CI.ypcall /\ g.pc = "top"
           /\ g.level = newtop
    BY <1>2, <1>3 DEF CallInfo
  <2>2. e \in CloseC /\ e.t = "close" /\ e.level = newtop /\ e.status = "ktop" /\ e.then = "top"
          /\ e.yy = FALSE
    BY <1>3 DEF CloseC
  <2> HIDE DEF g, e
  <2>3. NewInfo(L, n, g)
    <3>1. /\ g.func = L.ci[n].func /\ g.kind = L.ci[n].kind /\ g.want = L.ci[n].want
          /\ g.fresh = L.ci[n].fresh /\ (L.ci[n].tbc => g.tbc) /\ ~g.clsret /\ g.recst = "ok"
      BY <1>1, <1>2, <2>1
    <3>2. g.kind = "C" /\ L.ci[n].func < g.level /\ g.level <= Len(L.stack) + 1
      BY <1>1, <1>2, <1>3, <2>1
    <3> QED  BY <1>1, <2>1, <3>1, <3>2 DEF NewInfo
  <2>4. Framed(L, s, g) /\ Base(s, d)
    BY <1>1, <2>3, SetRunning
  <2> HIDE DEF s
  <2>5. /\ s \in State /\ s.stack = L.stack /\ s.cs = L.cs /\ s.status = "ok"
        /\ s.nc = L.nc /\ s.nny = L.nny /\ Len(s.ci) = n /\ s.ci[n] = g
    BY <1>2, <2>4 DEF Framed, SameCounts
  <2>6. CallTop(s, n) = Len(L.stack) + 1
    <3>1. Len(s.ci) = n /\ s.stack = L.stack
      BY <2>5
    <3>2. ~(n < Len(s.ci))
      <4>1. n \in Nat
        BY <1>2
      <4>2. \A x \in Nat : ~(x < x)
        OBVIOUS
      <4> QED  BY ONLY <3>1, <4>1, <4>2
    <3> QED  BY ONLY <3>1, <3>2 DEF CallTop
  <2>7. OnFrame(s, e, n)
    BY <1>1, <1>2, <1>3, <2>1, <2>2, <2>5, <2>6 DEF OnFrame, CloseOk, Try
  <2>8. CallsNext(s.cs[m], e)
    BY <1>1, <2>2, <2>5 DEF CallsNext, Closing
  <2>9. ResultOf(s, n) /\ ~TakesResult(s.ci[n])
    BY <1>2, <2>1, <2>5 DEF ResultOf, Returning, TakesResult
  <2>10. Counts(s)
    BY <1>2, <2>5 DEF Counts
  <2> QED  BY <1>1, <1>2, <1>4, <1>5, <2>2, <2>4, <2>5, <2>7, <2>8, <2>9, <2>10, StartsClosing
<1>6. CASE ~TbcFrom(L, newtop)
  <2> DEFINE t == SetTop(L, newtop)
  <2>1. Cut(L, t, newtop)
    BY <1>2, <1>3, SetTopIs
  <2> HIDE DEF t
  <2>2. /\ t \in State /\ t.ci = L.ci /\ t.cs = L.cs /\ t.tbclist = L.tbclist /\ t.status = L.status
           /\ t.nc = L.nc /\ t.nny = L.nny
        /\ Len(t.stack) = newtop - 1 /\ \A q \in 1..(newtop - 1) : t.stack[q] = L.stack[q]
    BY <2>1 DEF Cut, SameCounts
  <2>3. newtop <= Len(t.stack) + 1
    BY <1>3, <2>2
  <2>4. Above(L, d, n, newtop)
    <3>1. \A j \in 1..Len(L.cs) : d[j] = n => L.cs[j].t = "cfn"
      BY <1>1, <1>2 DEF Running
    <3>2. ~Returning(CI)
      BY <1>1, <1>2 DEF Returning
    <3> QED  BY <1>1, <1>2, <1>3, <3>1, <3>2 DEF Above, Try
  <2>5. Base(t, d)
    BY <1>2, <1>3, <1>6, <2>2, <2>3, <2>4, TrimsStack
  <2>6. ~Returning(t.ci[n]) /\ ~TakesResult(t.ci[n])
    BY <1>1, <1>2, <2>2 DEF Returning, TakesResult
  <2>7. Counts(t)
    BY <1>2, <2>2 DEF Counts
  <2>8. CInv(t)
    <3>1. Base(t, d) /\ t.status = "ok" /\ n = Len(t.ci) /\ m = Len(t.cs) /\ d[m] = n
      BY <1>2, <2>2, <2>5
    <3>2. t.cs[m].t = "cfn" /\ t.nc < MaxCcalls /\ t.nny <= t.nc
      BY <1>1, <1>2, <2>2
    <3>3. n \in Nat /\ m \in Nat /\ m > 0
      BY <1>2
    <3> QED
      <4>1. Base(t, d) /\ t.status = "ok" /\ m \in Nat /\ m = Len(t.cs) /\ m > 0
        BY <3>1, <3>3
      <4>2. t.cs[m].t \in {"exec", "cfn"}
        BY <3>2
      <4>3. n \in Nat /\ n = Len(t.ci) /\ d[m] = n
        BY <3>1, <3>3
      <4>4. t.nc < MaxCcalls /\ t.nny <= t.nc
        BY <3>2
      <4> QED  BY ONLY <2>6, <2>7, <4>1, <4>2, <4>3, <4>4, RunsOn
  <2> QED  BY <1>4, <1>6, <2>8 DEF t
<1> QED  BY <1>5, <1>6

(* What runs a function of the program belongs to a frame below. *)
LEMMA RunBelow ==
  ASSUME NEW s, NEW d, Skeleton(s, d), NEW m \in Nat, m = Len(s.cs), m > 0, NEW n, n = d[m],
         s.cs[m].t = "cfn" \/ Closing(s.cs[m], {"poscall"})
  PROVE  /\ m > 1 /\ n > 1 /\ \A j \in 1..(m - 1) : d[j] < n
         /\ s.cs[m - 1].t \in {"ccall", "exec", "unroll"}
         /\ s.cs[m - 1].t # "unroll" => d[m - 1] = n - 1
<1> DEFINE k == m - 1
<1>1. /\ CFunctions(s.cs) /\ Depths(s, d) /\ d \in [Nat -> Nat] /\ n \in Nat /\ m \in 1..m
  <2>1. CFunctions(s.cs) /\ Depths(s, d) /\ d \in [Nat -> Nat]
    BY DEF Skeleton
  <2>2. \A q \in Nat : q > 0 => q \in 1..q
    OBVIOUS
  <2>3. d[m] \in Nat
    BY <2>1
  <2> QED  BY <2>1, <2>2, <2>3, Zenon
<1>2. m # 1
  BY <1>1 DEF CFunctions, EntryOk, Try, Closing
<1>3. m > 1
  <2>1. \A q \in Nat : q > 0 /\ q # 1 => q > 1
    OBVIOUS
  <2> QED  BY <1>2, <2>1, Zenon
<1>4. k \in Nat /\ k > 0 /\ k + 1 = m /\ k \in 1..(m - 1) /\ k \in 1..m /\ k < m
        /\ (\A j \in 1..(m - 1) : j \in 1..m /\ (j = k \/ j < k))
  BY <1>3
<1> HIDE DEF k
<1>5. CallsNext(s.cs[k], s.cs[m]) /\ Deeper(s, d, k) /\ d[k] \in Nat /\ OnFrame(s, s.cs[k], d[k])
  <2>1. CallsNext(s.cs[k], s.cs[k + 1]) /\ Deeper(s, d, k)
    BY <1>1, <1>4 DEF CFunctions, Depths
  <2>2. d[k] \in Nat /\ OnFrame(s, s.cs[k], d[k])
    BY <1>1, <1>4 DEF Depths
  <2> QED  BY <1>4, <2>1, <2>2
<1>6. s.cs[k].t \in {"ccall", "exec", "unroll"}
  BY <1>5 DEF CallsNext, Try, Closing
<1>7. /\ s.cs[k].t = "ccall" => d[m] = d[k] + 1
      /\ s.cs[k].t = "exec" => d[m] = d[k] + 1
      /\ s.cs[k].t = "unroll" => d[k] = 1 /\ d[m] > 1
  <2>1. s.cs[m].t # "exec"
    BY DEF Closing
  <2>2. s.cs[k + 1] = s.cs[m] /\ d[k + 1] = d[m]
    BY <1>4
  <2>3. Closing(s.cs[m], {"poscall"}) \/ s.cs[m].t = "cfn"
    OBVIOUS
  <2> QED  BY <1>5, <2>1, <2>2, <2>3 DEF Deeper, OnFrame
<1>8. d[k] < n /\ (s.cs[k].t # "unroll" => d[k] = n - 1)
  <2>1. \A x, y \in Nat : y = x + 1 => x < y /\ x = y - 1
    OBVIOUS
  <2>2. \A y \in Nat : y > 1 => 1 < y
    OBVIOUS
  <2>3. d[k] \in Nat /\ n \in Nat /\ d[m] = n
    BY <1>1, <1>5
  <2>4. CASE s.cs[k].t = "unroll"
    BY <1>7, <2>2, <2>3, <2>4
  <2>5. CASE s.cs[k].t # "unroll"
    BY <1>6, <1>7, <2>1, <2>3, <2>5
  <2> QED  BY <2>4, <2>5
<1>9. n > 1
  <2>1. d[k] > 0
    <3>1. k \in 1..m
      BY <1>4
    <3>2. d[k] \in 1..Len(s.ci) /\ \A x : \A i \in 1..x : i > 0
      BY <1>1, <3>1 DEF Depths
    <3> QED  BY <3>2
  <2> QED
    <3>1. \A x, y \in Nat : x > 0 /\ x < y => y > 1
      OBVIOUS
    <3> QED  BY <1>1, <1>5, <1>8, <2>1, <3>1
<1>10. \A j \in 1..(m - 1) : d[j] < n
  <2> TAKE j \in 1..(m - 1)
  <2>1. d[j] <= d[k] /\ d[j] \in Nat
    <3>1. j \in 1..m /\ k \in 1..m /\ j \in Nat /\ (j = k \/ j < k)
      BY <1>4
    <3>2. d[j] \in Nat
      BY <1>1, <3>1
    <3>3. CASE j = k
      BY <1>5, <3>3
    <3>4. CASE j < k
      BY <1>1, <3>1, <3>2, <3>4 DEF Depths
    <3> QED  BY <3>1, <3>3, <3>4
  <2>2. d[k] \in Nat /\ n \in Nat /\ d[k] < n
    BY <1>1, <1>5, <1>8
  <2>3. \A x, y, z \in Nat : x <= y /\ y < z => x < z
    OBVIOUS
  <2> QED  BY <2>1, <2>2, <2>3
<1> QED  BY <1>3, <1>6, <1>8, <1>9, <1>10 DEF k

(* When such a function is left, its frame may go away. *)
LEMMA Leaves ==
  ASSUME NEW s, NEW d, Base(s, d), s.status = "ok", NEW m \in Nat, m = Len(s.cs), m > 0,
         NEW n \in Nat, n = Len(s.ci), d[m] = n,
         s.cs[m].t = "cfn" \/ Closing(s.cs[m], {"poscall"}),
         s.nc < MaxCcalls, s.nny <= s.nc, Counts(s), NEW nres \in {0, 1},
         s.ci[n].func + nres <= Len(s.stack)
  PROVE  LET t == PopC(s) IN
         /\ Popped(s, t) /\ MayReturn(t, d, m - 1, n, nres)
         /\ t.cs[m - 1].t = "exec" => t.ci[n - 1].pc \notin {"close", "return"}
<1> DEFINE t == PopC(s)
           k == m - 1
<1>1. Skeleton(s, d) /\ s \in State
  BY DEF Base, Skeleton
<1>2. Popped(s, t)
  <2>1. s.cs # <<>>
    BY <1>1, StateType
  <2> QED  BY <1>1, <2>1, PopCIs
<1> HIDE DEF t
<1>3. m > 1 /\ n > 1 /\ (\A j \in 1..(m - 1) : d[j] < n)
      /\ s.cs[m - 1].t \in {"ccall", "exec", "unroll"}
         /\ (s.cs[m - 1].t # "unroll" => d[m - 1] = n - 1)
  BY <1>1, RunBelow
<1>4. k = m - 1 /\ k \in Nat /\ k > 0 /\ k \in 1..k
  BY <1>3, LessOne
<1> HIDE DEF k
<1>5. /\ t \in State /\ t.ci = s.ci /\ t.stack = s.stack /\ t.status = "ok" /\ t.nc = s.nc
         /\ t.nny = s.nny
      /\ Len(t.cs) = k /\ \A j \in 1..k : t.cs[j] = s.cs[j]
  BY <1>2, <1>4 DEF Popped, SameCounts
<1>6. s.cs[m].t \notin {"ccall", "reset"} /\ ~Try(s.cs[m], {"closep"})
  BY DEF Closing, Try
<1>7. Base(t, d)
  BY <1>2, <1>6, PopEntry
<1>8. Counts(t)
  BY <1>1, <1>2, <1>6, CountsPop
<1>9. t.cs[k] = s.cs[m - 1] /\ d[k] = d[m - 1]
  BY <1>4, <1>5
<1>10. \A j \in 1..k : d[j] < n
  BY <1>3, <1>4
<1>11. MayReturn(t, d, k, n, nres)
  BY <1>3, <1>4, <1>5, <1>7, <1>8, <1>9, <1>10 DEF MayReturn
<1>12. t.cs[k].t = "exec" => t.ci[n - 1].pc \notin {"close", "return"}
  <2>1. k \in 1..(m - 1) /\ k + 1 = m
    BY <1>4
  <2>2. Deeper(s, d, k)
    BY <1>1, <2>1 DEF Skeleton, Depths
  <2>3. Beneath(s, s.cs[k], s.cs[m], d[k])
    BY <2>1, <2>2 DEF Deeper
  <2>4. s.cs[k].t = "exec" => d[k] = n - 1
    BY <1>3, <1>4
  <2>5. t.cs[k] = s.cs[k]
    BY <1>4, <1>5
  <2> QED  BY <1>5, <2>3, <2>4, <2>5 DEF Beneath
<1> QED  BY <1>2, <1>4, <1>11, <1>12 DEF t

(* The return of a C function keeps the invariant. *)
LEMMA CReturnStep ==
  ASSUME CInv(L), NEW nres \in {0, 1}, CReturn(nres)
  PROVE  CInv(L')
<1> DEFINE m == Len(L.cs)
           n == Len(L.ci)
           v == [i \in 1..nres |-> "res"]
           s == PushStack(L, v)
           t == PopC(s)
<1>1. PICK d \in [Nat -> Nat] : /\ Top(L, d) /\ Running(L, d, m, n) /\ L.cs[m].t = "cfn"
                                /\ CI = L.ci[n] /\ CI.pc = "run" /\ ~CI.ypcall
  BY InCRuns DEF CReturn
<1>2. CI \in CallInfo /\ ~CI.clsret /\ CI.recst = "ok" /\ CI.kind = "C" /\ L \in State /\ n > 0
        /\ n \in Nat
      /\ n = Len(L.ci) /\ m \in Nat /\ m = Len(L.cs) /\ m > 0 /\ d[m] = n /\ Len(L.stack) \in Nat
      /\ CI.func \in Nat /\ CI.func <= Len(L.stack) /\ CI.func > 0
  BY <1>1 DEF Running, InControl
<1>3. L' = poscall(t, nres)
  BY DEF CReturn
<1>4. v \in Seq(StackValue) /\ Len(v) = nres /\ (nres = 1 => v[1] = "res")
  BY ResultValues
<1>5. nres \in Nat
  OBVIOUS
<1> HIDE DEF v, m, n
<1>6. Running(s, d, m, n) /\ Grown(L, s, v)
  <2>1. ~Returning(L.ci[n])
    BY <1>1, <1>2 DEF Returning
  <2> QED  BY <1>1, <1>4, <2>1, RunningGrows
<1> HIDE DEF s
<1>7. /\ s.ci = L.ci /\ s.cs = L.cs /\ s.tbclist = L.tbclist /\ Len(s.stack) = Len(L.stack) + nres
      /\ (nres = 1 => s.stack[Len(L.stack) + 1] = "res")
  <2>1. s.ci = L.ci /\ s.cs = L.cs /\ s.tbclist = L.tbclist
    BY <1>6 DEF Grown, SameCounts
  <2>2. Len(s.stack) = Len(L.stack) + nres
    BY <1>4, <1>6 DEF Grown
  <2>3. nres = 1 => s.stack[Len(L.stack) + 1] = "res"
    <3>1. 1 \in 1..Len(v) \/ nres = 0
      BY <1>4
    <3>2. \A p \in 1..Len(v) : s.stack[Len(L.stack) + p] = v[p]
      BY <1>6 DEF Grown
    <3> QED  BY <1>4, <3>1, <3>2
  <2> QED  BY <2>1, <2>2, <2>3
<1>8. /\ s \in State /\ Base(s, d) /\ s.status = "ok" /\ s.nc < MaxCcalls /\ s.nny <= s.nc
         /\ Counts(s)
      /\ CallTop(s, n) = Len(s.stack) + 1 /\ Len(s.stack) \in Nat
  BY <1>6 DEF Running, InControl
<1>9. CI.func + nres <= Len(s.stack)
  <2>1. \A x, y, z \in Nat : x <= y => x + z <= y + z
    OBVIOUS
  <2>2. CI.func \in Nat /\ Len(L.stack) \in Nat /\ CI.func <= Len(L.stack)
          /\ Len(s.stack) = Len(L.stack) + nres
    BY <1>2, <1>7
  <2> QED  BY <1>5, <2>1, <2>2
<1>10. /\ Popped(s, t) /\ MayReturn(t, d, m - 1, n, nres)
       /\ t.cs[m - 1].t = "exec" => t.ci[n - 1].pc \notin {"close", "return"}
  BY <1>1, <1>2, <1>7, <1>8, <1>9, Leaves
<1> HIDE DEF t
<1>11. t.ci = s.ci /\ t.stack = s.stack
  BY <1>10 DEF Popped
<1>12. t.ci[n].kind = "C" /\ ~t.ci[n].ypcall /\ t.ci[n].pc # "top"
  BY <1>1, <1>2, <1>7, <1>11
<1>13. nres = 1 => t.stack[Len(t.stack)] = "res"
  BY <1>7, <1>11
<1>14. CInv(poscall(t, nres))
  BY ONLY <1>5, <1>10, <1>12, <1>13, Poscall
<1> QED  BY <1>3, <1>14

(* A yield leaves all C functions. *)
LEMMA YieldsTo ==
  ASSUME NEW s, NEW d, NEW m, NEW n, Running(s, d, m, n), s.nny = 0, s.cs[m].t = "cfn",
         ~s.ci[n].ypcall, ~Returning(s.ci[n]), s.ci[n].pc # "top"
  PROVE  LET t == throw([s EXCEPT !.status = "yield"], "yield") IN
         /\ t \in State /\ t.ci = s.ci /\ t.stack = s.stack /\ t.tbclist = s.tbclist
         /\ t.status = "yield" /\ t.nc = s.cs[1].nc /\ t.nny = s.cs[1].nny /\ Len(t.cs) = 0
         /\ Try(s.cs[1], Unprotected)
<1> DEFINE u == [s EXCEPT !.status = "yield"]
           x == Max(Tries(u))
           b == Unprotect(u, x)
           t == [b EXCEPT !.ret = <<"yield">>]
<1>1. /\ Base(s, d) /\ Skeleton(s, d) /\ CFunctions(s.cs) /\ Depths(s, d) /\ d[m] = n /\ m \in 1..m
         /\ m > 0
      /\ m \in Nat /\ m = Len(s.cs) /\ n = Len(s.ci) /\ n \in Nat /\ n > 0 /\ n \in 1..n /\ n > 1
      /\ s.status = "ok" /\ s \in State /\ s.ci[n].kind = "C" /\ ~s.ci[n].clsret
         /\ s.ci[n].recst = "ok" /\ Variables(s)
      /\ Len(s.stack) \in Nat /\ CallTop(s, n) = Len(s.stack) + 1 /\ d \in [Nat -> Nat]
  BY DEF Running, InControl, Base, Skeleton
<1>2. (\A j \in 1..m : ~Try(s.cs[j], Protected)) /\ \A i \in 2..(n - 1) : MayBeSkipped(s.ci[i])
  BY NoBarrier
<1>3. x = Max(Tries(s)) /\ u \in State /\ u.cs = s.cs /\ u.ci = s.ci /\ u.stack = s.stack
        /\ u.tbclist = s.tbclist /\ u.status = "yield"
  <2>1. u \in State /\ u.cs = s.cs /\ u.ci = s.ci /\ u.stack = s.stack /\ u.tbclist = s.tbclist
          /\ u.status = "yield"
    BY <1>1 DEF State, Status
  <2> HIDE DEF u
  <2>2. Tries(u) = Tries(s)
    BY <2>1 DEF Tries
  <2> QED  BY <2>1, <2>2
<1>4. x = 1 /\ Try(s.cs[1], Unprotected) /\ s.cs[1] \in CFunction
  <2>1. x \in 1..m /\ s.cs[x].t = "try"
    BY <1>1, <1>3, HandlersOf
  <2> HIDE DEF x
  <2>2. s.cs[x] \in CFunction
    BY <1>1, <2>1, StateType
  <2>3. Try(s.cs[x], Unprotected)
    <3>1. s.cs[x].by \in {"resume", "recover", "pcall", "closep"}
      BY <2>1, <2>2, EntryType DEF TryC
    <3> QED  BY <1>2, <2>1, <3>1 DEF Try, Unprotected, Protected
  <2>4. EntryOk(s.cs, x)
    BY <1>1, <2>1 DEF CFunctions
  <2>5. x = 1
    BY <2>3, <2>4 DEF EntryOk
  <2> QED  BY <2>2, <2>3, <2>5
<1>5. throw(u, "yield") = t
  <2>1. u.cs[x].by \in {"resume", "recover"}
    BY <1>3, <1>4 DEF Try, Unprotected
  <2> QED  BY <2>1 DEF throw, precover
<1> HIDE DEF x
<1>6. BackTo(u, b, 1)
  <2>1. u \in State /\ 1 \in 1..Len(u.cs) /\ u.cs[1].t = "try"
    BY <1>1, <1>3, <1>4 DEF Try
  <2> HIDE DEF u
  <2>2. b = Unprotect(u, 1)
    BY <1>4
  <2> QED  BY <2>1, <2>2, UnprotectIs
<1> HIDE DEF u, b
<1>7. /\ b \in State /\ b.ci = s.ci /\ b.stack = s.stack /\ b.tbclist = s.tbclist
         /\ b.status = "yield"
      /\ b.nc = s.cs[1].nc /\ b.nny = s.cs[1].nny /\ Len(b.cs) = 0
  BY <1>3, <1>6 DEF BackTo
<1>8. /\ t \in State /\ t.ci = s.ci /\ t.stack = s.stack /\ t.tbclist = s.tbclist
         /\ t.status = "yield"
      /\ t.nc = s.cs[1].nc /\ t.nny = s.cs[1].nny /\ Len(t.cs) = 0
  <2>1. <<"yield">> \in Seq(Status \cup StackValue)
    BY DEF Status
  <2> QED  BY <1>7, <2>1 DEF State
<1> HIDE DEF t
<1> QED  BY <1>4, <1>5, <1>8 DEF u

(* The state a yield leaves has the invariant. *)
LEMMA Yields ==
  ASSUME NEW s, NEW d, NEW m, NEW n, Running(s, d, m, n), s.nny = 0, s.cs[m].t = "cfn",
         ~s.ci[n].ypcall, ~Returning(s.ci[n]), s.ci[n].pc # "top"
  PROVE  CInv(throw([s EXCEPT !.status = "yield"], "yield"))
<1> DEFINE t == throw([s EXCEPT !.status = "yield"], "yield")
<1>1. /\ Base(s, d) /\ Skeleton(s, d) /\ CFunctions(s.cs) /\ Depths(s, d) /\ d[m] = n /\ m \in 1..m
         /\ m > 0
      /\ m \in Nat /\ m = Len(s.cs) /\ n = Len(s.ci) /\ n \in Nat /\ n > 0 /\ n \in 1..n /\ n > 1
      /\ s.status = "ok" /\ s \in State /\ s.ci[n].kind = "C" /\ ~s.ci[n].clsret
         /\ s.ci[n].recst = "ok" /\ Variables(s)
      /\ Len(s.stack) \in Nat /\ CallTop(s, n) = Len(s.stack) + 1 /\ d \in [Nat -> Nat]
  BY DEF Running, InControl, Base, Skeleton
<1>2. (\A j \in 1..m : ~Try(s.cs[j], Protected)) /\ \A i \in 2..(n - 1) : MayBeSkipped(s.ci[i])
  BY NoBarrier
<1>8. /\ t \in State /\ t.ci = s.ci /\ t.stack = s.stack /\ t.tbclist = s.tbclist
         /\ t.status = "yield"
      /\ t.nc = s.cs[1].nc /\ t.nny = s.cs[1].nny /\ Len(t.cs) = 0
  BY YieldsTo
<1>15. Try(s.cs[1], Unprotected)
  BY YieldsTo
<1> HIDE DEF t
<1>9. Skeleton(t, d)
  <2>1. CallTop(t, n) = CallTop(s, n)
    BY <1>8 DEF CallTop
  <2>2. \A j \in 1..m : s.cs[j].t = "cfn" => d[j] >= n \/ MayBeSkipped(s.ci[d[j]])
    <3> TAKE j \in 1..m
    <3>1. d[j] \in 1..n /\ OnFrame(s, s.cs[j], d[j])
      BY <1>1 DEF Depths
    <3>2. s.cs[j].t = "cfn" => d[j] > 1
      BY <3>1 DEF OnFrame
    <3>3. \A q \in 1..n : q > 1 => q >= n \/ q \in 2..(n - 1)
      <4>1. \A z \in Nat : \A q \in 1..z : q > 1 => q >= z \/ q \in 2..(z - 1)
        OBVIOUS
      <4>2. n \in Nat
        BY <1>1
      <4> QED  BY <4>1, <4>2
    <3> QED  BY <1>2, <3>1, <3>2, <3>3
  <2>3. "yield" \notin ErrorStatus /\ s.status \notin ErrorStatus
    BY <1>1 DEF ErrorStatus
  <2>4. CutTo(s, d, t, n, 0)
    <3>1. 0 \in 0..Len(s.cs) /\ n \in 1..Len(s.ci)
      BY <1>1
    <3>2. \A j \in (0 + 1)..Len(s.cs) : j \in 1..m
      BY <1>1
    <3>3. Len(t.stack) + 1 >= CallTop(s, n)
      BY <1>1, <1>8
    <3> QED  BY <1>1, <1>8, <2>2, <2>3, <3>1, <3>2, <3>3 DEF CutTo
  <2>5. 0 \in Nat
    OBVIOUS
  <2> QED  BY <1>1, <1>8, <2>4, <2>5, SkeletonCut
<1>10. Variables(t)
  <2>1. \A a \in 1..Len(t.tbclist) :
          /\ t.tbclist[a] = s.tbclist[a]
          /\ t.tbclist[a] <= Len(t.stack) /\ t.stack[t.tbclist[a]] = s.stack[t.tbclist[a]]
          /\ s.ci[n].kind = "C" /\ s.ci[n].func < t.tbclist[a] => Accounted(t, t.tbclist[a], n)
    <3> TAKE a \in 1..Len(t.tbclist)
    <3>1. VariableOk(s, s.tbclist[a]) /\ s.tbclist[a] \in Nat /\ s.tbclist[a] <= Len(s.stack)
      BY <1>1, <1>8, VariablesBelow DEF Variables
    <3>2. s.tbclist[a] < CallTop(s, n)
      <4>1. \A v, w \in Nat : v <= w => v < w + 1
        OBVIOUS
      <4>2. CallTop(s, n) = Len(s.stack) + 1 /\ Len(s.stack) \in Nat
        BY <1>1
      <4> QED  BY <3>1, <4>1, <4>2
    <3>3. s.ci[n].kind = "C" /\ s.ci[n].func < s.tbclist[a] => Accounted(s, s.tbclist[a], n)
      BY <1>1, <3>1, <3>2 DEF VariableOk
    <3>4. \A j \in 1..Len(s.cs) : ~Try(s.cs[j], {"closep"})
      BY <1>1, <1>2 DEF Try, Protected
    <3>5. s.ci[n].kind = "C" /\ s.ci[n].func < s.tbclist[a] => s.ci[n].tbc
      BY <1>1, <3>3, <3>4 DEF Accounted
    <3> QED  BY <1>8, <3>1, <3>5 DEF Accounted
  <2>2. \A j \in 1..Len(s.cs) :
          Try(s.cs[j], {"closep"}) /\ s.cs[j].ci < n => j \in 1..Len(t.cs) /\ t.cs[j] = s.cs[j]
    BY <1>1, <1>2 DEF Try, Protected
  <2>3. n \in 1..Len(s.ci) /\ Len(t.ci) = n
    BY <1>1, <1>8
  <2>4. Len(t.tbclist) <= Len(s.tbclist)
    BY <1>1, <1>8, StateType
  <2>5. /\ Base(s, d) /\ t \in State /\ (\A i \in 1..(n - 1) : t.ci[i] = s.ci[i])
        /\ t.ci[n].func = s.ci[n].func /\ t.ci[n].kind = s.ci[n].kind
    BY <1>1, <1>8
  <2> QED  BY ONLY <2>1, <2>2, <2>3, <2>4, <2>5, VariablesKept
<1>11. s.cs[1].nc < MaxCcalls /\ s.cs[1].nny <= s.cs[1].nc
  <2>1. EntryOk(s.cs, 1)
    <3>1. 1 \in 1..Len(s.cs)
      BY <1>1
    <3> QED  BY <1>1, <3>1 DEF CFunctions
  <2> QED  BY <1>15, <2>1 DEF EntryOk, Try
<1>12. ResultOf(t, n)
  BY <1>8 DEF ResultOf
<1>13. Top(t, d)
  BY <1>1, <1>8, <1>11, <1>12 DEF Top
<1>14. Base(t, d)
  BY <1>9, <1>10 DEF Base
<1> QED  BY <1>1, <1>13, <1>14 DEF CInv, t

(* The running C function as it yields. *)
YieldingBy(f, k) == [f EXCEPT !.k = k, !.u2 = 0]
Yielding(s, d, m, n, g) ==
  /\ Running(s, d, m, n) /\ Framed(L, s, g)
  /\ s.nny = 0 /\ s.cs[m].t = "cfn" /\ ~s.ci[n].ypcall /\ ~Returning(s.ci[n])
  /\ s.ci[n].pc # "top"
  /\ g.func = L.ci[n].func /\ g.args = L.ci[n].args /\ g.pc = "run" /\ ~g.clsret /\ ~g.ypcall

(* A C function that yields has its continuation noted in its frame. *)
LEMMA YieldingFrame ==
  ASSUME CInv(L), NEW k \in BOOLEAN, yieldable(L), NEW d \in [Nat -> Nat], NEW m, NEW n,
         m = Len(L.cs), n = Len(L.ci), Top(L, d), Running(L, d, m, n), L.cs[m].t = "cfn",
         CI = L.ci[n], CI.pc = "run", ~CI.ypcall,
         NEW g, g = YieldingBy(CI, k), NEW s, s = SetCI(L, g)
  PROVE  Yielding(s, d, m, n, g)
<1>1. /\ Top(L, d) /\ Running(L, d, m, n) /\ L.cs[m].t = "cfn"
      /\ CI = L.ci[n] /\ CI.pc = "run" /\ ~CI.ypcall
  OBVIOUS
<1>2. CI \in CallInfo /\ ~CI.clsret /\ CI.recst = "ok" /\ CI.kind = "C" /\ L \in State /\ n > 0
        /\ n \in Nat
      /\ n = Len(L.ci) /\ m \in Nat /\ m = Len(L.cs) /\ m > 0 /\ d[m] = n /\ Base(L, d)
         /\ L.status = "ok"
  BY <1>1 DEF Running, InControl
<1>3. /\ g \in CallInfo /\ g.func = CI.func /\ g.kind = CI.kind /\ g.want = CI.want
         /\ g.fresh = CI.fresh /\ g.tbc = CI.tbc
      /\ g.clsret = CI.clsret /\ g.recst = CI.recst /\ g.ypcall = CI.ypcall /\ g.pc = "run"
  BY <1>1, <1>2 DEF CallInfo, YieldingBy
<1>4. NewInfo(L, n, g)
  BY <1>1, <1>2, <1>3 DEF NewInfo
<1>5. Framed(L, s, g) /\ Base(s, d)
  BY <1>1, <1>4, SetRunning
<1>6. L.nny = 0
  BY DEF yieldable
<1>7. /\ s \in State /\ s.stack = L.stack /\ s.cs = L.cs /\ s.status = "ok"
      /\ s.nc = L.nc /\ s.nny = L.nny /\ Len(s.ci) = n /\ s.ci[n] = g
  BY <1>2, <1>5 DEF Framed, SameCounts
<1>8. ~Returning(g) /\ ~g.clsret /\ g.kind = "C" /\ g.recst = "ok" /\ ~g.ypcall
  BY <1>1, <1>2, <1>3 DEF Returning
<1>9. Running(s, d, m, n)
  <2>1. /\ m \in 1..m /\ n \in 1..n /\ Control(L) = L.cs[m].t /\ Last(L.cs) = L.cs[m] /\ Counts(L)
           /\ n > 1
        /\ L.nc < MaxCcalls /\ L.nny <= L.nc /\ L.nc \in Nat /\ L.nny \in Nat /\ d[m] = n
           /\ d \in [Nat -> Nat]
        /\ L.ci[n].func \in Nat /\ L.ci[n].func > 0 /\ L.ci[n].func <= Len(L.stack)
           /\ Len(L.stack) \in Nat
        /\ CallTop(L, n) = Len(L.stack) + 1 /\ (\A j \in 1..m : d[j] = n => j = m)
    BY <1>1 DEF Running, InControl
  <2>2. Last(s.ci) = g
    <3>1. s.ci \in Seq(CallInfo) /\ s.ci # <<>>
      <4>1. Len(s.ci) > 0
        BY <1>2, <1>7
      <4> QED  BY <1>7, <4>1, StateType
    <3>2. s.ci[Len(s.ci)] = g
      BY ONLY <1>7
    <3> QED  BY <3>1, <3>2, FrontLast
  <2>3. FrameOk(s, n)
    BY <1>5, <1>7, <2>1 DEF Base, Skeleton, Frames
  <2>4. ResultOf(s, n)
    BY <1>7, <1>8 DEF ResultOf
  <2>5. CallTop(s, n) = Len(s.stack) + 1
    <3>1. ~(n < Len(s.ci))
      <4>1. \A x \in Nat : ~(x < x)
        OBVIOUS
      <4>2. Len(s.ci) = n /\ n \in Nat
        BY <1>2, <1>7
      <4> QED  BY ONLY <4>1, <4>2
    <3> QED  BY ONLY <3>1 DEF CallTop
  <2>6. Control(s) = L.cs[m].t /\ Counts(s)
    BY <1>7, <2>1 DEF Control, Counts
  <2>7. g.func = L.ci[n].func
    BY <1>1, <1>3
  <2>8. InControl(s, d, m, n)
    BY <1>1, <1>2, <1>3, <1>5, <1>7, <2>1, <2>2, <2>3, <2>4, <2>5, <2>6, <2>7 DEF InControl
  <2> QED  BY <1>1, <1>7, <1>8, <2>1, <2>6, <2>8 DEF Running
<1>10. /\ s.nny = 0 /\ s.cs[m].t = "cfn" /\ ~s.ci[n].ypcall /\ ~Returning(s.ci[n])
       /\ s.ci[n].pc # "top"
  BY <1>1, <1>3, <1>6, <1>7, <1>8
<1>11. g.args = L.ci[n].args
  BY <1>1, <1>2 DEF CallInfo, YieldingBy
<1> QED  BY <1>1, <1>3, <1>5, <1>8, <1>9, <1>10, <1>11 DEF Yielding

(* lau_yieldk keeps the invariant, whether it may yield or not. *)
LEMMA yieldkStep ==
  ASSUME CInv(L), NEW k \in BOOLEAN, yieldk(k)
  PROVE  CInv(L')
<1> DEFINE m == Len(L.cs)
           n == Len(L.ci)
           g == [CI EXCEPT !.k = k, !.u2 = 0]
           s == SetCI(L, g)
<1>1. PICK d \in [Nat -> Nat] : /\ Top(L, d) /\ Running(L, d, m, n) /\ L.cs[m].t = "cfn"
                                /\ CI = L.ci[n] /\ CI.pc = "run" /\ ~CI.ypcall
  BY InCRuns DEF yieldk
<1>2. CI \in CallInfo /\ ~CI.clsret /\ CI.recst = "ok" /\ CI.kind = "C" /\ L \in State /\ n > 0
        /\ n \in Nat
      /\ n = Len(L.ci) /\ m \in Nat /\ m = Len(L.cs) /\ m > 0 /\ d[m] = n /\ Base(L, d)
         /\ L.status = "ok"
  BY <1>1 DEF Running, InControl
<1>3. CASE ~yieldable(L)
  <2>1. L' = runerror(L, message)
    BY <1>3 DEF yieldk
  <2>2. message \in Error
    BY Bounds
  <2>3. L.cs[m].t # "reset"
    BY <1>1
  <2> QED  BY <1>2, <2>1, <2>2, <2>3, Runerror
<1>4. CASE yieldable(L)
  <2>1. L' = throw([s EXCEPT !.status = "yield"], "yield")
    <3>1. SetCI([L EXCEPT !.status = "yield"], g) = [s EXCEPT !.status = "yield"]
      BY <1>2 DEF SetCI, State
    <3> QED  BY <1>4, <3>1 DEF yieldk
  <2>2. g = YieldingBy(CI, k) /\ s = SetCI(L, g)
    BY DEF YieldingBy
  <2> HIDE DEF g, s, m, n
  <2>3. m = Len(L.cs) /\ n = Len(L.ci)
    BY <1>2
  <2>4. Yielding(s, d, m, n, g)
    <3>1. /\ CInv(L) /\ k \in BOOLEAN /\ yieldable(L) /\ d \in [Nat -> Nat]
          /\ m = Len(L.cs) /\ n = Len(L.ci) /\ Top(L, d) /\ Running(L, d, m, n) /\ L.cs[m].t = "cfn"
          /\ CI = L.ci[n] /\ CI.pc = "run" /\ ~CI.ypcall
          /\ g = YieldingBy(CI, k) /\ s = SetCI(L, g)
      BY <1>1, <1>4, <2>2, <2>3
    <3> QED  BY ONLY <3>1, YieldingFrame
  <2> QED  BY <2>1, <2>4, Yields DEF Yielding
<1> QED  BY <1>3, <1>4

(* Only the base frame, with no C function or with the first handlers. *)
LEMMA Bare ==
  ASSUME NEW t \in State, NEW d \in [Nat -> Nat], t.ci = <<BaseCI>>, t.cs = <<>>, Len(t.stack) > 0
  PROVE  Skeleton(t, d)
<1>1. Len(t.ci) = 1 /\ t.ci[1] = BaseCI /\ Len(t.cs) = 0 /\ Len(t.stack) \in Nat
        /\ 1 \in 1..MaxFrames
  BY StateType, Bounds
<1>2. /\ BaseCI.kind = "C" /\ BaseCI.func = 1 /\ ~BaseCI.ypcall /\ ~BaseCI.clsret
         /\ BaseCI.pc = "run" /\ BaseCI.recst = "ok"
  BY DEF BaseCI, Frame
<1>3. Frames(t)
  <2>1. FrameOk(t, 1)
    BY <1>1, <1>2 DEF FrameOk, Returning
  <2>2. \A i \in 1..Len(t.ci) : i = 1
    BY <1>1
  <2>3. 1..(Len(t.ci) - 1) = {} /\ 2..Len(t.ci) = {}
    BY <1>1
  <2>4. \A i, j \in 1..Len(t.ci) : ~(i < j)
    BY <1>1
  <2>5. Len(t.ci) \in 1..MaxFrames /\ t.ci[1].func <= Len(t.stack)
    BY <1>1, <1>2
  <2> QED  BY <1>1, <2>1, <2>2, <2>3, <2>4, <2>5 DEF Frames
<1>4. 1..Len(t.cs) = {} /\ 1..(Len(t.cs) - 1) = {} /\ 2..(Len(t.ci) - 1) = {}
  BY <1>1
<1>5. CFunctions(t.cs) /\ Saved(t.cs)
  BY <1>4 DEF CFunctions, Saved
<1>6. Depths(t, d) /\ Waiting(t, d)
  BY <1>4 DEF Depths, Waiting
<1> QED  BY <1>3, <1>5, <1>6 DEF Skeleton

(* The first handlers on the C stack. *)
AtFirst(s, d, m, k) ==
  /\ k \in {1, 2} /\ k \in 1..m /\ s.cs[k].t = "try"
     /\ (\A j \in 1..k : d[j] = 1 /\ s.cs[j].t # "ccall")
  /\ s.cs[k].by \in {"resume", "recover", "closep"}
  /\ \A j \in 1..k : s.cs[j].t \in {"try", "reset"}
  /\ k = 2 => s.cs[1].t = "reset"

(* The handler that lauD_throwbaselevel looks for is among the first C functions. *)
LEMMA FirstHandler ==
  ASSUME NEW s, NEW d, Skeleton(s, d), NEW m \in Nat, m = Len(s.cs), m > 0, s.cs[m].t # "reset",
         NEW k, k = BaseTry(s)
  PROVE  AtFirst(s, d, m, k)
<1> USE DEF AtFirst
<1>1. /\ k \in 1..m /\ s.cs[k].t = "try" /\ \A j \in 1..m : s.cs[j].t = "try" => k <= j
  BY HandlersOf DEF BaseTry
<1>2. /\ CFunctions(s.cs) /\ Depths(s, d) /\ d \in [Nat -> Nat] /\ s \in State
  BY DEF Skeleton
<1>3. 1 \in 1..m /\ EntryOk(s.cs, 1) /\ OnFrame(s, s.cs[1], d[1])
  <2>1. 1 \in 1..m
    OBVIOUS
  <2> QED  BY <1>2, <2>1 DEF CFunctions, Depths
<1>4. CASE Try(s.cs[1], Unprotected)
  <2>1. k <= 1
    BY <1>1, <1>3, <1>4 DEF Try
  <2>2. k = 1
    BY <1>1, <2>1
  <2>3. d[1] = 1
    BY <1>3, <1>4 DEF OnFrame
  <2>4. \A j \in 1..1 : j = 1
    OBVIOUS
  <2> QED  BY <1>1, <1>4, <2>2, <2>3, <2>4 DEF Try, Unprotected
<1>5. CASE s.cs[1].t = "reset"
  <2>1. m # 1
    BY <1>5
  <2>2. 1 \in 1..(m - 1) /\ 2 \in 1..m /\ 1 + 1 = 2
    <3>1. \A q \in Nat : q > 0 /\ q # 1 => 1 \in 1..(q - 1) /\ 2 \in 1..q /\ 1 + 1 = 2
      OBVIOUS
    <3> QED  BY <2>1, <3>1, Zenon
  <2>3. CallsNext(s.cs[1], s.cs[2]) /\ Deeper(s, d, 1)
    BY <1>2, <2>2 DEF CFunctions, Depths
  <2>4. Try(s.cs[2], {"closep"})
    BY <1>5, <2>3 DEF CallsNext, Try, Closing
  <2>5. k <= 2
    BY <1>1, <2>2, <2>4 DEF Try
  <2>6. k # 1
    BY <1>1, <1>5
  <2>7. k = 2
    BY <1>1, <2>5, <2>6
  <2>8. d[1] = 1
    BY <1>3, <1>5 DEF OnFrame
  <2>9. d[2] = 1
    BY <1>5, <2>2, <2>3, <2>8 DEF Deeper
  <2>10. \A j \in 1..2 : j = 1 \/ j = 2
    OBVIOUS
  <2> QED  BY <1>1, <1>5, <2>2, <2>4, <2>7, <2>8, <2>9, <2>10 DEF Try
<1> QED  BY <1>3, <1>4, <1>5 DEF EntryOk

(* lauE_resetthread *)
Resets(s, d, k) ==
  /\ Skeleton(s, d) /\ s.status = "ok" /\ k \in {0, 1, 2} /\ k = Len(s.cs) /\ s.ci = <<BaseCI>>
  /\ s.nc < MaxCcalls /\ s.nny = 0
  /\ \A j \in 1..k : s.cs[j].t \in {"try", "reset"} /\ d[j] = 1
  /\ k = 2 => NestedClose
  /\ k > 0 => s.cs[k].t = "try" /\ s.cs[k].by \in {"resume", "recover", "closep"}

(* A reset has only the base frame and those handlers below it. *)
LEMMA Resetting ==
  ASSUME NEW s, NEW d, NEW k, Resets(s, d, k), NEW self \in BOOLEAN, self <=> k > 0,
         NEW e, e = [t |-> "reset", self |-> self, nc |-> s.nc], NEW t, t = PushC(s, e)
  PROVE  \E c : /\ Skeleton(t, c) /\ c \in [Nat -> Nat] /\ c[k + 1] = 1 /\ Counts(t)
         /\ Len(t.cs) = k + 1 /\ t.cs[k + 1] = e
                /\ t \in State /\ t.ci = <<BaseCI>> /\ t.stack = s.stack /\ SameCounts(s, t)
<1> DEFINE r == k + 1
           c == [d EXCEPT ![r] = 1]
<1>1. /\ Skeleton(s, d) /\ s.status = "ok" /\ k \in Nat /\ k = Len(s.cs) /\ s.ci = <<BaseCI>>
         /\ s \in State
      /\ s.nc < MaxCcalls /\ s.nny = 0 /\ d \in [Nat -> Nat] /\ s.nc \in Nat
      /\ (\A j \in 1..k : s.cs[j].t \in {"try", "reset"} /\ d[j] = 1)
      /\ (k > 0 => s.cs[k].t = "try" /\ s.cs[k].by \in {"resume", "recover", "closep"})
  <2>1. Skeleton(s, d) /\ k \in Nat
    BY DEF Resets
  <2>2. s \in State /\ d \in [Nat -> Nat]
    BY <2>1 DEF Skeleton
  <2> QED  BY <2>1, <2>2, StateType DEF Resets
<1>2. r = k + 1 /\ r \in Nat /\ r > 0 /\ r \in {1, 2, 3} /\ r <= 3 /\ r \in 1..r
      /\ (\A j \in 1..r : j \in 1..k \/ j = r) /\ (\A j \in 1..k : j \in Nat /\ j # r /\ j \in 1..r)
         /\ (r = 1 <=> k = 0)
      /\ (k > 0 => k \in 1..k)
  BY DEF Resets
<1> HIDE DEF r
<1>3. e \in CFunction /\ e.t = "reset" /\ e.self = self /\ e.nc = s.nc
  <2>1. e \in ResetC
    BY <1>1 DEF ResetC
  <2> QED  BY <2>1 DEF CFunction
<1>4. Pushed(s, t, e)
  BY <1>1, <1>3, PushCIs
<1>5. /\ t \in State /\ t.ci = s.ci /\ t.stack = s.stack /\ t.nc = s.nc /\ t.nny = 0
      /\ Len(t.cs) = r /\ t.cs[r] = e /\ \A j \in 1..k : t.cs[j] = s.cs[j]
  BY <1>1, <1>2, <1>4 DEF Pushed, SameCounts
<1>6. c \in [Nat -> Nat] /\ c[r] = 1 /\ \A j \in 1..k : c[j] = d[j]
  <2>1. 1 \in Nat /\ r \in Nat /\ \A j \in 1..k : j \in Nat /\ j # r
    BY <1>2
  <2> QED
    <3>1. d \in [Nat -> Nat] /\ r \in Nat /\ 1 \in Nat
      BY <1>1, <2>1
    <3>2. c \in [Nat -> Nat] /\ c[r] = 1 /\ \A j \in Nat : j # r => c[j] = d[j]
      <4> QED  BY ONLY <3>1, SMT
    <3> QED  BY ONLY <2>1, <3>2
<1> HIDE DEF c
<1>7. Len(s.ci) = 1
  BY <1>1
<1>8. EntryOk(t.cs, r)
  <2>1. \A j \in 1..r : t.cs[j].t \in {"try", "reset"}
    <3>1. \A j \in 1..k : t.cs[j].t \in {"try", "reset"}
      BY <1>1, <1>5
    <3>2. t.cs[r].t \in {"try", "reset"}
      BY <1>3, <1>5
    <3> QED  BY ONLY <1>2, <3>1, <3>2
  <2>2. r = 1 <=> ~self
    <3>1. k = 0 <=> ~(k > 0)
      <4> QED  BY ONLY <1>1
    <3>2. r = 1 <=> k = 0
      BY <1>2
    <3> QED  BY <3>1, <3>2, Zenon
  <2> QED
    <3>1. /\ t.cs[r].t = "reset" /\ t.cs[r].nc = s.nc /\ s.nc < MaxCcalls
          /\ t.cs[r].self <=> self
      BY <1>1, <1>3, <1>5
    <3>2. ~Try(t.cs[r], Unprotected)
      BY <3>1 DEF Try
    <3>3. r <= 3 /\ (r = 3 => NestedClose)
      <4>1. k = 2 => NestedClose
        BY DEF Resets
      <4>2. \A x \in Nat : x + 1 = 3 => x = 2
        OBVIOUS
      <4>3. r = 3 => k = 2
        BY <1>1, <1>2, <4>2
      <4>4. r <= 3
        BY <1>2
      <4> QED  BY <4>1, <4>3, <4>4, Zenon
    <3> QED  BY ONLY <2>1, <2>2, <3>1, <3>2, <3>3 DEF EntryOk
<1>9. OnFrame(s, e, 1)
  BY <1>3 DEF OnFrame, Try
<1>10. k > 0 => /\ d[k] <= 1 /\ CallsNext(s.cs[k], e) /\ Deeper(t, c, k)
  <2> SUFFICES ASSUME k > 0 PROVE d[k] <= 1 /\ CallsNext(s.cs[k], e) /\ Deeper(t, c, k)
    OBVIOUS
  <2>1. k \in 1..k /\ d[k] = 1 /\ s.cs[k].t = "try"
          /\ s.cs[k].by \in {"resume", "recover", "closep"}
    BY <1>1, <1>2
  <2>2. CallsNext(s.cs[k], e)
    BY <1>3, <2>1 DEF CallsNext, Try
  <2>3. t.cs[k].t = "try" /\ c[k] = 1 /\ c[k + 1] = 1
    BY <1>2, <1>5, <1>6, <2>1
  <2>4. Deeper(t, c, k)
    <3>1. Beneath(t, t.cs[k], t.cs[k + 1], 1)
      <4>1. Len(t.ci) = 1
        BY <1>5, <1>7
      <4> QED  BY <2>3, <4>1, BeneathLast
    <3> QED  BY <2>3, <3>1 DEF Deeper
  <2> QED  BY <2>1, <2>2, <2>4
<1>11. Skeleton(t, c)
  <2>1. 1 \in 1..Len(s.ci)
    BY <1>7
  <2>2. e.t # "try"
    BY <1>3
  <2>3. Skeleton(t, [d EXCEPT ![r] = 1])
    BY <1>1, <1>2, <1>3, <1>4, <1>8, <1>9, <1>10, <2>1, <2>2, PushEntry DEF c
  <2> QED  BY <2>3 DEF c
<1>12. Counts(t)
  <2>1. t.cs \in Seq(CFunction) /\ r \in 1..Len(t.cs)
    BY <1>2, <1>5, StateType
  <2>2. \A i \in 1..r : t.cs[i].t # "ccall"
    BY <1>1, <1>2, <1>3, <1>5
  <2>3. CcallsAt(t.cs, r) = t.cs[r].nc /\ NonYieldableAt(t.cs, r) = 0
    BY <1>3, <1>5, <2>1, <2>2, CountStep
  <2> QED  BY <1>3, <1>5, <2>3 DEF Counts
<1> QED  BY <1>1, <1>2, <1>4, <1>5, <1>6, <1>11, <1>12 DEF Pushed

(* lauE_resetthread up to its loop keeps the invariant. *)
LEMMA ResetsThread ==
  ASSUME NEW u, NEW d, Base(u, d), NEW s \in State, s.stack = u.stack, s.tbclist = u.tbclist,
         NEW self \in BOOLEAN,
         NEW c, NEW k, Resets([s EXCEPT !.ci = <<BaseCI>>, !.nny = 0, !.status = "ok"], c, k),
         self <=> k > 0
  PROVE  CInv(resetthread(s, self))
<1> DEFINE z == [s EXCEPT !.ci = <<BaseCI>>, !.nny = 0, !.status = "ok"]
           e == [t |-> "reset", self |-> self, nc |-> s.nc]
           t == PushC(z, e)
           st == IF s.status = "yield" THEN "ok" ELSE s.status
           w == closeprotected(t, 2, st)
           r == k + 1
<1>1. resetthread(s, self) = w
  BY DEF resetthread
<1>2. /\ z.nc = s.nc /\ z.stack = s.stack /\ z.tbclist = s.tbclist /\ z.status = "ok" /\ z.nny = 0
  BY DEF State
<1>3. st \in ErrorStatus \cup {"ok"}
  BY DEF State, Status
<1>4. Resets(z, c, k)
  OBVIOUS
<1> HIDE DEF z
<1>5. e = [t |-> "reset", self |-> self, nc |-> z.nc]
  BY <1>2
<1> HIDE DEF e
<1>6. \E h : /\ Skeleton(t, h) /\ h \in [Nat -> Nat] /\ h[k + 1] = 1 /\ Counts(t)
        /\ Len(t.cs) = k + 1 /\ t.cs[k + 1] = e
             /\ t \in State /\ t.ci = <<BaseCI>> /\ t.stack = z.stack /\ SameCounts(z, t)
  <2> HIDE DEF t
  <2>1. t = PushC(z, e)
    BY DEF t
  <2> QED
    <3>1. e = [t |-> "reset", self |-> self, nc |-> z.nc]
      BY <1>5
    <3> QED
      <4>1. self \in BOOLEAN /\ (self <=> k > 0)
        OBVIOUS
      <4>2. \A f, q : f = [t |-> "reset", self |-> self, nc |-> z.nc] /\ q = PushC(z, f) =>
              \E h : /\ Skeleton(q, h) /\ h \in [Nat -> Nat] /\ h[k + 1] = 1 /\ Counts(q)
                     /\ Len(q.cs) = k + 1 /\ q.cs[k + 1] = f
                     /\ q \in State /\ q.ci = <<BaseCI>> /\ q.stack = z.stack /\ SameCounts(z, q)
        BY ONLY <1>4, <4>1, Resetting, SMTT(20)
      <4> QED  BY ONLY <2>1, <3>1, <4>2
<1> HIDE DEF t, st
<1>7. PICK h \in [Nat -> Nat] : /\ Skeleton(t, h) /\ h[r] = 1 /\ Counts(t) /\ Len(t.cs) = r
        /\ t.cs[r] = e
             /\ t \in State /\ t.ci = <<BaseCI>> /\ t.stack = z.stack /\ SameCounts(z, t)
  BY <1>6
<1>8. k \in Nat /\ z.nc < MaxCcalls
  BY <1>4 DEF Resets
<1>9. r = k + 1 /\ r \in Nat /\ r > 0
  BY <1>8
<1> HIDE DEF r
<1>10. /\ t.stack = u.stack /\ t.tbclist = u.tbclist /\ t.status = "ok" /\ t.nc = z.nc /\ t.nny = 0
          /\ Len(t.ci) = 1
       /\ t.ci[1] = BaseCI /\ t.cs[r].t = "reset" /\ t.nc \in Nat
  <2>1. e.t = "reset"
    BY DEF e
  <2>2. t.nc \in Nat
    BY <1>7, StateType
  <2> QED  BY <1>2, <1>7, <2>1, <2>2 DEF SameCounts
<1>11. /\ BaseCI.kind = "C" /\ BaseCI.func = 1 /\ ~BaseCI.ypcall /\ ~BaseCI.clsret
  BY DEF BaseCI, Frame
<1>12. /\ Skeleton(u, d) /\ u \in State /\ Variables(u) /\ Len(u.stack) > 0 /\ Len(u.stack) \in Nat
          /\ Frames(u) /\ Depths(u, d)
       /\ Len(u.ci) \in Nat /\ Len(u.ci) > 0
  BY BaseType DEF Base, Skeleton
<1>13. 2 <= CallTop(t, 1)
  <2>1. CallTop(t, 1) = Len(u.stack) + 1
    BY <1>10 DEF CallTop
  <2> QED  BY <1>12, <2>1
<1>14. ProtectedClosing(t, w, 2, st) /\ \E g \in [Nat -> Nat] : Skeleton(w, g) /\ Top(w, g)
  <2> DEFINE n == 1
  <2>1. n \in Nat /\ n = Len(t.ci) /\ n = 1
    BY <1>10
  <2>2. t.ci[n].kind = "C" /\ ~t.ci[n].ypcall /\ ~t.ci[n].clsret /\ t.ci[n].func < 2
    BY <1>10, <1>11
  <2>3. h[r] = n /\ 2 \in Nat /\ 2 <= CallTop(t, n)
    BY <1>7, <1>13
  <2>4. t.nc < MaxCcalls /\ t.nny <= t.nc
    BY <1>8, <1>10
  <2> HIDE DEF n
  <2> QED
    <3>1. Skeleton(t, h) /\ t.status = "ok" /\ r \in Nat /\ r = Len(t.cs) /\ r > 0
      BY <1>7, <1>9, <1>10
    <3>2. \/ t.cs[r].t = "cfn" /\ t.ci[n].pc # "top"
          \/ t.cs[r].t = "reset" /\ 2 = 2
      BY <1>10
    <3>3. Counts(t) /\ (n = 1 => 2 = 2)
      BY <1>7
    <3>4. w = closeprotected(t, 2, st)
      OBVIOUS
    <3> HIDE DEF w
    <3>5. LET x == closeprotected(t, 2, st) IN
          /\ ProtectedClosing(t, x, 2, st)
          /\ \E g \in [Nat -> Nat] : Skeleton(x, g) /\ Top(x, g)
      BY ONLY <1>3, <2>1, <2>2, <2>3, <2>4, <3>1, <3>2, <3>3, Closeprotected
    <3> QED  BY ONLY <3>4, <3>5
<1> HIDE DEF w
<1>15. PICK g \in [Nat -> Nat] : Skeleton(w, g) /\ Top(w, g)
  BY <1>14
<1>16. /\ w \in State /\ w.ci = t.ci /\ w.stack = u.stack /\ w.tbclist = u.tbclist
       /\ Len(w.cs) = r + 2 /\ w.cs[r + 1] = CloseP(t, 2, st)
  BY <1>7, <1>10, <1>14 DEF ProtectedClosing, SameCounts
<1>17. Variables(w)
  <2>1. Len(w.ci) = 1 /\ w.ci[1] = BaseCI /\ u.ci[1] = BaseCI /\ 1 \in 1..Len(u.ci)
    <3>1. w.ci[1] = BaseCI /\ Len(w.ci) = 1
      BY <1>10, <1>16
    <3>2. Len(u.ci) \in 1..MaxFrames /\ u.ci[1] = BaseCI
      BY <1>12 DEF Frames
    <3>3. \A q \in Nat : q > 0 => 1 \in 1..q
      OBVIOUS
    <3> QED  BY <1>12, <3>1, <3>2, <3>3
  <2>2. \A i \in 1..(1 - 1) : w.ci[i] = u.ci[i]
    OBVIOUS
  <2>3. r + 1 \in 1..Len(w.cs)
    <3>1. \A q \in Nat : q + 1 \in 1..(q + 2)
      OBVIOUS
    <3> QED  BY <1>9, <1>16, <3>1
  <2>4. Try(w.cs[r + 1], {"closep"}) /\ w.cs[r + 1].ci = 1 /\ w.cs[r + 1].level = 2
    BY <1>10, <1>16 DEF CloseP, Try
  <2>5. \A a \in 1..Len(w.tbclist) :
          /\ w.tbclist[a] = u.tbclist[a]
          /\ w.tbclist[a] <= Len(w.stack) /\ w.stack[w.tbclist[a]] = u.stack[w.tbclist[a]]
          /\ u.ci[1].kind = "C" /\ u.ci[1].func < w.tbclist[a] => Accounted(w, w.tbclist[a], 1)
    <3> TAKE a \in 1..Len(w.tbclist)
    <3>1. u.tbclist[a] \in Nat /\ u.tbclist[a] > 1 /\ u.tbclist[a] <= Len(u.stack)
      BY <1>12, <1>16, VariablesBelow
    <3>2. u.tbclist[a] >= 2
      <4>1. \A q \in Nat : q > 1 => q >= 2
        OBVIOUS
      <4> QED  BY <3>1, <4>1
    <3>3. Accounted(w, u.tbclist[a], 1)
      BY <2>3, <2>4, <3>2 DEF Accounted
    <3> QED  BY <1>16, <3>1, <3>3
  <2>6. \A j \in 1..Len(u.cs) :
          Try(u.cs[j], {"closep"}) /\ u.cs[j].ci < 1 => j \in 1..Len(w.cs) /\ w.cs[j] = u.cs[j]
    <3> SUFFICES ASSUME NEW j \in 1..Len(u.cs), Try(u.cs[j], {"closep"}) PROVE ~(u.cs[j].ci < 1)
      OBVIOUS
    <3>1. OnFrame(u, u.cs[j], d[j]) /\ d[j] \in 1..Len(u.ci)
      BY <1>12 DEF Depths
    <3>2. u.cs[j].ci = d[j]
      BY <3>1 DEF OnFrame, Try, Protected
    <3>3. \A q \in Nat : \A z1 \in 1..q : ~(z1 < 1)
      OBVIOUS
    <3> QED  BY <1>12, <3>1, <3>2, <3>3
  <2>7. Len(w.tbclist) <= Len(u.tbclist)
    BY <1>12, <1>16, StateType
  <2>8. w.ci[1].func = u.ci[1].func /\ w.ci[1].kind = u.ci[1].kind
    BY <2>1
  <2> QED  BY <1>16, <2>1, <2>2, <2>5, <2>6, <2>7, <2>8, VariablesKept
<1> QED  BY <1>1, <1>15, <1>17 DEF CInv, Base

(* lau_closethread keeps the invariant, by the host or by the coroutine itself. *)
LEMMA closethreadStep ==
  ASSUME CInv(L), closethread
  PROVE  CInv(L')
<1>1. CASE Control(L) = "host" /\ L' = resetthread([L EXCEPT !.nc = 0, !.ret = <<"ok">>], FALSE)
  <2> DEFINE s == [L EXCEPT !.nc = 0, !.ret = <<"ok">>]
             z == [s EXCEPT !.ci = <<BaseCI>>, !.nny = 0, !.status = "ok"]
  <2>1. PICK d \in [Nat -> Nat] : Base(L, d) /\ Top(L, d)
    BY DEF CInv
  <2>2. L \in State /\ Len(L.stack) > 0 /\ L.cs \in Seq(CFunction) /\ d \in [Nat -> Nat]
    BY <2>1, BaseType, StateType DEF Base, Skeleton
  <2>3. L.cs = <<>>
    <3> SUFFICES ASSUME L.cs # <<>> PROVE FALSE
      OBVIOUS
    <3>1. Last(L.cs) \in CFunction
      BY <2>2, FrontLast
    <3>2. Last(L.cs).t # "host"
      BY <3>1, EntryType
    <3> QED  BY <1>1, <3>2 DEF Control
  <2>4. BaseCI \in CallInfo /\ <<BaseCI>> \in Seq(CallInfo)
    <3>1. <<>> \in Seq(StackValue)
      OBVIOUS
    <3>2. BaseCI \in CallInfo
      BY <3>1 DEF CallInfo, BaseCI, Frame
    <3> QED  BY <3>2
  <2>5. <<"ok">> \in Seq(Status \cup StackValue)
    BY DEF Status
  <2>6. s \in State /\ s.stack = L.stack /\ s.tbclist = L.tbclist /\ s.cs = L.cs /\ s.nc = 0
    BY <2>2, <2>5 DEF State
  <2> HIDE DEF s
  <2>7. z \in State /\ z.ci = <<BaseCI>> /\ z.cs = <<>> /\ z.stack = L.stack /\ z.status = "ok"
          /\ z.nc = 0 /\ z.nny = 0
    BY <2>3, <2>4, <2>6 DEF State, Status
  <2>8. Resets(z, d, 0)
    <3> HIDE DEF z
    <3>1. Skeleton(z, d)
      BY <2>2, <2>7, Bare
    <3>2. 0 < MaxCcalls /\ Len(z.cs) = 0
      BY <2>7, Bounds
    <3> QED  BY <2>7, <3>1, <3>2 DEF Resets
  <2>9. FALSE \in BOOLEAN /\ (FALSE <=> 0 > 0)
    OBVIOUS
  <2>10. L' = resetthread(s, FALSE)
    BY <1>1 DEF s
  <2> QED  BY <2>1, <2>6, <2>8, <2>9, <2>10, ResetsThread
<1>2. CASE /\ InC /\ (NestedClose \/ Head(L.cs).t # "reset")
           /\ L' = resetthread([L EXCEPT !.cs = SubSeq(@, 1, BaseTry(L))], TRUE)
  <2> DEFINE k == BaseTry(L)
             s == [L EXCEPT !.cs = SubSeq(@, 1, BaseTry(L))]
             z == [s EXCEPT !.ci = <<BaseCI>>, !.nny = 0, !.status = "ok"]
             m == Len(L.cs)
             n == Len(L.ci)
  <2>1. PICK d \in [Nat -> Nat] : Running(L, d, m, n) /\ L.cs[m].t = "cfn"
    BY <1>2, InCRuns
  <2>2. /\ Base(L, d) /\ Skeleton(L, d) /\ L \in State /\ m \in Nat /\ m > 0 /\ L.nc < MaxCcalls
           /\ n \in Nat /\ n > 0
        /\ L.cs \in Seq(CFunction) /\ m = Len(L.cs) /\ L.status = "ok" /\ Frames(L) /\ n = Len(L.ci)
           /\ L.ci \in Seq(CallInfo)
        /\ Len(L.stack) \in Nat
    BY <2>1, StateType DEF Running, InControl, Base, Skeleton
  <2>3. k = BaseTry(L)
    OBVIOUS
  <2> HIDE DEF k, m, n
  <2>4. /\ k \in {1, 2} /\ k \in 1..m /\ L.cs[k].t = "try"
           /\ (\A j \in 1..k : d[j] = 1 /\ L.cs[j].t # "ccall")
        /\ L.cs[k].by \in {"resume", "recover", "closep"} /\ (k = 2 => L.cs[1].t = "reset")
        /\ \A j \in 1..k : L.cs[j].t \in {"try", "reset"}
    <3>1. L.cs[m].t # "reset"
      BY <2>1
    <3>2. Skeleton(L, d) /\ m \in Nat /\ m = Len(L.cs) /\ m > 0
      BY <2>2
    <3> HIDE DEF z, s
    <3>3. AtFirst(L, d, m, k)
      BY <2>3, <3>1, <3>2, FirstHandler
    <3> QED  BY <3>3 DEF AtFirst
  <2>5. SubSeq(L.cs, 1, k) \in Seq(CFunction) /\ Len(SubSeq(L.cs, 1, k)) = k
          /\ \A j \in 1..k : SubSeq(L.cs, 1, k)[j] = L.cs[j]
    <3>1. k \in 0..Len(L.cs)
      BY <2>2, <2>4
    <3> QED  BY <2>2, <3>1, Prefix
  <2>6. BaseCI \in CallInfo /\ <<BaseCI>> \in Seq(CallInfo)
    <3>1. <<>> \in Seq(StackValue)
      OBVIOUS
    <3>2. BaseCI \in CallInfo
      BY <3>1 DEF CallInfo, BaseCI, Frame
    <3> QED  BY <3>2
  <2>7. s \in State /\ s.stack = L.stack /\ s.tbclist = L.tbclist /\ s.cs = SubSeq(L.cs, 1, k)
          /\ s.nc = L.nc
    BY <2>2, <2>3, <2>5 DEF State
  <2> HIDE DEF s
  <2>8. /\ z \in State /\ z.ci = <<BaseCI>> /\ z.stack = L.stack /\ z.status = "ok" /\ z.nc = L.nc
           /\ z.nny = 0
        /\ z.cs = SubSeq(L.cs, 1, k)
    BY <2>6, <2>7 DEF State, Status
  <2>9. Resets(z, d, k)
    <3> HIDE DEF z
    <3>1. Len(z.ci) = 1 /\ z.ci[1] = BaseCI /\ L.ci[1] = BaseCI /\ k \in Nat /\ 1 \in 1..n
            /\ k \in 0..m
      <4>1. z.ci[1] = BaseCI /\ Len(z.ci) = 1
        BY <2>8
      <4>2. L.ci[1] = BaseCI
        BY <2>2 DEF Frames
      <4>3. k \in Nat /\ 1 \in 1..n /\ k \in 0..m
        BY ONLY <2>2, <2>4
      <4> QED  BY <4>1, <4>2, <4>3
    <3>2. Len(z.cs) = k /\ \A j \in 1..k : z.cs[j] = L.cs[j]
      BY <2>5, <2>8
    <3>3. CutTo(L, d, z, 1, k)
      <4>1. \A i \in 1..1 : z.ci[i] = L.ci[i]
        BY <3>1
      <4>2. \A p \in 1..(L.ci[1].func - 1) : z.stack[p] = L.stack[p]
        BY <2>8
      <4>3. Len(z.stack) + 1 >= CallTop(L, 1)
        <5>1. CallTop(L, 1) <= Len(L.stack) + 1
          <6>1. CASE n = 1
            <7>1. CallTop(L, n) = Len(L.stack) + 1
              BY <2>2, Bases
            <7>2. \A x \in Nat : x + 1 <= x + 1
              OBVIOUS
            <7> QED  BY <2>2, <6>1, <7>1, <7>2
          <6>2. CASE n > 1
            <7>1. \A q \in Nat : q > 1 => 2 \in 1..q /\ 1 < q
              OBVIOUS
            <7>2. CallTop(L, 1) = L.ci[2].func /\ 2 \in 1..n
              BY <2>2, <6>2, <7>1 DEF CallTop
            <7>3. L.ci[2].func <= Len(L.stack) /\ L.ci[2].func \in Nat
              BY <2>2, <7>2, Bases
            <7>4. \A x, y \in Nat : x <= y => x <= y + 1
              OBVIOUS
            <7> QED  BY <2>2, <7>2, <7>3, <7>4
          <6>3. n = 1 \/ n > 1
            <7>1. \A q \in Nat : q > 0 => (q = 1 \/ q > 1)
              OBVIOUS
            <7> QED  BY <2>2, <7>1
          <6> QED  BY <6>1, <6>2, <6>3
        <5> QED  BY <2>8, <5>1
      <4>4. \A j \in 1..k : z.cs[j] = L.cs[j] /\ d[j] <= 1
        BY <2>4, <3>2
      <4>5. "ok" \notin ErrorStatus
        BY DEF ErrorStatus
      <4>6. \A j \in (k + 1)..Len(L.cs) : L.cs[j].t = "cfn" => d[j] >= 1
        <5> TAKE j \in (k + 1)..Len(L.cs)
        <5>1. j \in 1..Len(L.cs)
          BY <2>2, <2>4
        <5>2. d[j] \in 1..Len(L.ci)
          BY <2>2, <5>1 DEF Skeleton, Depths
        <5> QED  BY <2>2, <5>2
      <4> QED  BY <2>2, <2>8, <3>1, <3>2, <4>1, <4>2, <4>3, <4>4, <4>5, <4>6 DEF CutTo
    <3>4. Skeleton(z, d)
      <4>1. 1 \in Nat
        OBVIOUS
      <4> QED  BY <2>2, <2>8, <3>1, <3>3, <4>1, SkeletonCut
    <3>5. \A j \in 1..k : z.cs[j].t \in {"try", "reset"} /\ d[j] = 1
      BY <2>4, <3>2
    <3>6. z.cs[k].t = "try" /\ z.cs[k].by \in {"resume", "recover", "closep"} /\ k \in {0, 1, 2}
      <4>1. k \in 1..k
        BY <2>4
      <4> QED  BY <2>4, <3>2, <4>1
    <3>7. k = 2 => NestedClose
      <4> SUFFICES ASSUME k = 2 PROVE Head(L.cs).t = "reset"
        BY <1>2
      <4>1. L.cs[1].t = "reset"
        BY <2>4
      <4>2. Head(L.cs) = L.cs[1]
        BY <2>2
      <4> QED  BY <4>1, <4>2
    <3> QED  BY <2>2, <2>8, <3>2, <3>4, <3>5, <3>6, <3>7 DEF Resets
  <2>10. TRUE \in BOOLEAN /\ (TRUE <=> k > 0)
    BY <2>4
  <2>11. L' = resetthread(s, TRUE)
    BY <1>2, <2>3 DEF s
  <2> QED  BY <2>2, <2>7, <2>9, <2>10, <2>11, ResetsThread
<1> QED  BY <1>1, <1>2 DEF closethread

(* lau_resume *)

ResumeEntry == [t |-> "try", by |-> "resume", ci |-> 0, level |-> 0, status |-> "ok", nc |-> 1,
nny |-> 0]

(* Nothing is counted below the first C function. *)
LEMMA NothingCounted ==
  ASSUME NEW cs
  PROVE  CcallsAt(cs, 0) = 1 /\ NonYieldableAt(cs, 0) = 0
<1>1. ResetBelow(cs, 0) = 0
  <2>1. ResetBelow(cs, 0) \in 0..0
    BY ResetBelowIs
  <2> QED  BY <2>1
<1>2. Before(cs, 0) = 1
  BY <1>1 DEF Before
<1>3. Counted(cs, 0) = {} /\ NonYieldable(cs, 0) = {}
  BY DEF Counted, NonYieldable
<1>4. Cardinality({}) = 0
  BY FS_EmptySet
<1> QED  BY <1>2, <1>3, <1>4 DEF CcallsAt, NonYieldableAt

(* lau_resume's own handler is the first C function. *)
LEMMA Handles ==
  ASSUME NEW z, NEW d, Base(z, d), z.cs = <<>>, z.status = "ok", NEW t, Pushed(z, t, ResumeEntry)
  PROVE  \E c : /\ Base(t, c) /\ c \in [Nat -> Nat] /\ c[1] = 1 /\ Len(t.cs) = 1
         /\ t.cs[1] = ResumeEntry
                /\ CcallsAt(t.cs, 1) = 1 /\ NonYieldableAt(t.cs, 1) = 0
<1> DEFINE e == ResumeEntry  c == [d EXCEPT ![1] = 1]
<1>1. /\ Skeleton(z, d) /\ z \in State /\ Variables(z) /\ Len(z.ci) \in Nat /\ Len(z.ci) > 0
         /\ d \in [Nat -> Nat]
      /\ t \in State /\ Len(z.cs) = 0 /\ Len(t.cs) = 1 /\ t.cs[1] = e
  <2>1. Skeleton(z, d) /\ z \in State /\ Variables(z) /\ Len(z.ci) \in Nat /\ Len(z.ci) > 0
    BY BaseType DEF Base
  <2>2. d \in [Nat -> Nat]
    BY <2>1 DEF Skeleton
  <2>3. t \in State /\ Len(t.cs) = Len(z.cs) + 1 /\ t.cs[Len(z.cs) + 1] = e
    BY DEF Pushed
  <2>4. Len(z.cs) = 0
    OBVIOUS
  <2> QED  BY <2>1, <2>2, <2>3, <2>4
<1>2. e \in CFunction /\ Try(e, Unprotected) /\ e.t = "try" /\ e.nc = 1 /\ e.nny = 0
  <2>1. e \in TryC
    BY DEF TryC, ResumeEntry, ErrorStatus
  <2> QED  BY <2>1 DEF CFunction, Try, Unprotected, ResumeEntry
<1>3. EntryOk(t.cs, 1)
  BY <1>1, <1>2, Bounds DEF EntryOk, Try
<1>4. OnFrame(z, e, 1)
  BY <1>2 DEF OnFrame, Try, Unprotected, Protected, ResumeEntry
<1>5. 1 \in 1..Len(z.ci)
  <2>1. \A q \in Nat : q > 0 => 1 \in 1..q
    OBVIOUS
  <2> QED  BY <1>1, <2>1
<1>6. Skeleton(t, c)
  <2> HIDE DEF e
  <2>1. 0 \in Nat /\ 0 = Len(z.cs) /\ 1 \in Nat /\ 1 = 0 + 1 /\ ~(0 > 0)
    BY <1>1
  <2>2. e.nc = CcallsAt(z.cs, 0) /\ e.nny = NonYieldableAt(z.cs, 0)
    BY <1>2, NothingCounted
  <2>3. Pushed(z, t, e)
    BY DEF e
  <2> QED  BY <1>1, <1>2, <1>3, <1>4, <1>5, <2>1, <2>2, <2>3, PushEntry
<1>7. Variables(t)
  BY <1>1, VariablesPush
<1>8. c \in [Nat -> Nat] /\ c[1] = 1
  BY <1>1, Changed
<1>9. CcallsAt(t.cs, 1) = 1 /\ NonYieldableAt(t.cs, 1) = 0
  <2>1. t.cs \in Seq(CFunction) /\ 1 \in 1..Len(t.cs) /\ 1 - 1 = 0
    BY <1>1, StateType
  <2>2. /\ t.cs[1].t \notin {"ccall", "reset"} =>
              /\ CcallsAt(t.cs, 1) = CcallsAt(t.cs, 1 - 1)
              /\ NonYieldableAt(t.cs, 1) = NonYieldableAt(t.cs, 1 - 1)
    BY <2>1, CountStep
  <2> QED  BY <1>1, <1>2, <2>1, <2>2, NothingCounted
<1> QED  BY <1>1, <1>6, <1>7, <1>8, <1>9 DEF Base

(* A coroutine that is not running has no variable left to close. *)
LEMMA NoneLeft ==
  ASSUME NEW s, NEW d, Base(s, d), s.cs = <<>>, Len(s.ci) = 1
  PROVE  Len(s.tbclist) = 0 /\ s.ci = <<BaseCI>>
<1>1. /\ s \in State /\ Variables(s) /\ Len(s.stack) \in Nat /\ s.ci \in Seq(CallInfo)
         /\ s.ci[1] = BaseCI /\ Len(s.tbclist) \in Nat
  BY BaseType, StateType DEF Base, Skeleton, Frames
<1>2. s.ci = <<BaseCI>>
  BY <1>1
<1>3. ASSUME NEW a \in 1..Len(s.tbclist) PROVE FALSE
  <2> DEFINE p == s.tbclist[a]
  <2>1. VariableOk(s, p)
    BY <1>1 DEF Variables
  <2>2. p \in Nat /\ p > 1 /\ p <= Len(s.stack)
    BY <1>1, VariablesBelow
  <2> HIDE DEF p
  <2>3. BaseCI.kind = "C" /\ BaseCI.func = 1 /\ ~BaseCI.tbc /\ BaseCI.recst = "ok"
    BY DEF BaseCI, Frame
  <2>4. CallTop(s, 1) = Len(s.stack) + 1
    BY DEF CallTop
  <2>5. 1 < p /\ p < CallTop(s, 1)
    BY <1>1, <2>2, <2>4
  <2>6. Accounted(s, p, 1)
    BY <1>1, <2>1, <2>3, <2>5 DEF VariableOk
  <2> QED  BY <1>1, <2>3, <2>6 DEF Accounted
<1> QED  BY <1>1, <1>2, <1>3

(* The base frame of a new coroutine, with nothing on its C stack, calls its function. *)
Starting(s, c) ==
  /\ MayCall(s, c, 1, 1, 2, MULTRET)
  /\ CallsNext(s.cs[1], [t |-> "ccall", inc |-> 0, y |-> 0]) /\ s.cs[1] = ResumeEntry
  /\ s.nc = 1 /\ Len(s.tbclist) = 0 /\ s.ci = <<BaseCI>> /\ Len(s.stack) = 2 /\ Len(s.cs) = 1
  /\ L.status = "ok" /\ L.tbclist = s.tbclist /\ L.ci = s.ci /\ L.cs = <<>>

(* lau_resume of a new coroutine is a call. *)
LEMMA Starts ==
  ASSUME CInv(L), NEW kind \in {"Lau", "C"}, Start(kind)
  PROVE  \E s, c : Starting(s, c) /\ L' = ccall(s, 2, MULTRET, 0, 0, kind)
<1> DEFINE y == [L EXCEPT !.nc = 1, !.nny = 0, !.status = "ok", !.ret = <<"ok">>]
           z == [y EXCEPT !.stack = <<"nil", "func">>]
           s == [Resumed EXCEPT !.stack = <<"nil", "func">>]
<1>1. PICK d \in [Nat -> Nat] : Base(L, d)
  BY DEF CInv
<1>2. L \in State /\ L.status = "ok" /\ Len(L.ci) = 1 /\ L' = ccall(s, 2, MULTRET, 0, 0, kind)
  BY <1>1, BaseType DEF Start
<1>3. L.cs = <<>>
  <2> SUFFICES ASSUME L.cs # <<>> PROVE FALSE
    OBVIOUS
  <2>1. Last(L.cs) \in CFunction
    BY <1>2, StateType, FrontLast
  <2>2. Last(L.cs).t # "host"
    BY <2>1, EntryType
  <2> QED  BY <2>2 DEF Control, Start
<1>4. Len(L.tbclist) = 0 /\ L.ci = <<BaseCI>>
  BY <1>1, <1>2, <1>3, NoneLeft
<1>5. <<"nil", "func">> \in Seq(StackValue) /\ <<"ok">> \in Seq(Status \cup StackValue)
  <2>1. "nil" \in StackValue /\ "func" \in StackValue /\ "ok" \in Status
    BY DEF StackValue, Status
  <2> QED  BY <2>1
<1>6. y \in State /\ y.nc = 1 /\ y.nny = 0 /\ y.status = "ok" /\ y.ci = L.ci /\ y.cs = L.cs
        /\ y.tbclist = L.tbclist
  BY <1>2, <1>5 DEF State, Status
<1>7. Resumed = PushC(y, ResumeEntry)
  BY <1>6 DEF Resumed, rawrunprotected, ResumeEntry
<1> HIDE DEF y
<1>8. ResumeEntry \in CFunction
  <2>1. ResumeEntry \in TryC
    BY DEF TryC, ResumeEntry, ErrorStatus
  <2> QED  BY <2>1 DEF CFunction
<1>9. Pushed(y, Resumed, ResumeEntry)
  BY <1>6, <1>7, <1>8, PushCIs
<1>10. /\ z \in State /\ z.stack = <<"nil", "func">> /\ z.ci = y.ci /\ z.cs = y.cs
          /\ SameCounts(y, z)
  BY <1>5, <1>6 DEF State, SameCounts
<1>11. /\ s \in State /\ s.stack = <<"nil", "func">> /\ s.ci = Resumed.ci /\ s.cs = Resumed.cs
          /\ SameCounts(Resumed, s)
  BY <1>5, <1>9 DEF State, SameCounts, Pushed
<1> HIDE DEF z, s
<1>12. Pushed(z, s, ResumeEntry)
  BY <1>9, <1>10, <1>11 DEF Pushed, SameCounts
<1>13. Base(z, d)
  <2>1. Skeleton(z, d)
    <3>1. z.ci = <<BaseCI>> /\ z.cs = <<>> /\ Len(z.stack) > 0
      BY <1>3, <1>4, <1>6, <1>10
    <3> QED  BY <1>10, <3>1, Bare
  <2>2. Variables(z)
    <3>1. Len(z.tbclist) = 0
      BY <1>4, <1>6, <1>10 DEF SameCounts
    <3>2. 0 <= MaxVars /\ \A a \in 1..0 : FALSE
      BY Bounds
    <3> QED  BY <3>1, <3>2 DEF Variables
  <2> QED  BY <2>1, <2>2 DEF Base
<1>14. PICK c \in [Nat -> Nat] : /\ Base(s, c) /\ c[1] = 1 /\ Len(s.cs) = 1 /\ s.cs[1] = ResumeEntry
                /\ CcallsAt(s.cs, 1) = 1 /\ NonYieldableAt(s.cs, 1) = 0
  BY <1>3, <1>6, <1>10, <1>12, <1>13, Handles DEF SameCounts
<1>15. s.nc = 1 /\ s.nny = 0 /\ s.status = "ok" /\ Len(s.tbclist) = 0 /\ s.ci = <<BaseCI>>
         /\ Len(s.stack) = 2
  BY <1>4, <1>6, <1>9, <1>11 DEF Pushed, SameCounts
<1>16. MayCall(s, c, 1, 1, 2, MULTRET)
  <2>1. Counts(s) /\ s.nc < MaxCcalls /\ s.nny <= s.nc
    BY <1>14, <1>15, Bounds DEF Counts
  <2>2. Calling(s, 1, 2, MULTRET)
    <3>1. s.ci[1] = BaseCI
      BY <1>15
    <3> QED  BY <3>1 DEF Calling, BaseCI, Frame, Returning, TakesResult
  <2>3. \A j \in 1..1 : j = 1
    OBVIOUS
  <2>4. ~Try(s.cs[1], Protected) /\ s.cs[1].t # "close"
    BY <1>14 DEF Try, Protected, ResumeEntry
  <2>5. \A a \in 1..Len(s.tbclist) : s.tbclist[a] < 2
    <3>1. \A a \in 1..0 : FALSE
      OBVIOUS
    <3> QED  BY <1>15, <3>1
  <2>6. \A j \in 1..1 : c[j] = 1 /\ (Try(s.cs[j], Protected) \/ s.cs[j].t = "close")
          => s.cs[j].level <= 2
    BY <2>3, <2>4
  <2>7. MULTRET \in {0, 1, MULTRET} /\ 1 = Len(s.cs) /\ 1 = Len(s.ci)
    BY <1>14, <1>15
  <2>8. Len(s.ci) = 1 /\ ~(1 > 1) /\ 1 > 0 /\ 1 \in Nat /\ 2 \in Nat /\ 2 <= 2
    BY <1>15
  <2>9. \A j \in 1..1 : c[j] = 1 => /\ (Try(s.cs[j], {"pcall"}) => 2 = s.cs[j].level)
                                   /\ (Try(s.cs[j], {"closep"}) => MULTRET = 0)
    BY <2>3, <2>4 DEF Try, Protected
  <2> QED  BY <1>14, <1>15, <2>1, <2>2, <2>5, <2>8, <2>6, <2>7, <2>9 DEF MayCall
<1>17. CallsNext(s.cs[1], [t |-> "ccall", inc |-> 0, y |-> 0]) /\ s.cs[1].t = "try"
  BY <1>14 DEF CallsNext, Try, ResumeEntry
<1>18. L.tbclist = s.tbclist /\ L.ci = s.ci
  BY <1>4, <1>6, <1>9, <1>11 DEF Pushed, SameCounts
<1>19. Starting(s, c)
  BY <1>2, <1>3, <1>14, <1>15, <1>16, <1>17, <1>18 DEF Starting
<1> QED  BY <1>2, <1>19

(* lau_resume of a new coroutine keeps the invariant. *)
LEMMA StartStep ==
  ASSUME CInv(L), NEW kind \in {"Lau", "C"}, Start(kind)
  PROVE  CInv(L')
<1>1. PICK s, c : Starting(s, c) /\ L' = ccall(s, 2, MULTRET, 0, 0, kind)
  BY Starts
<1>2. /\ MayCall(s, c, 1, 1, 2, MULTRET) /\ CallsNext(s.cs[1], [t |-> "ccall", inc |-> 0, y |-> 0])
      /\ 0 \in {0, 1} /\ 0 <= 0 /\ s.cs[1].t # "exec" /\ s.cs[1].t # "cfn"
  BY <1>1 DEF Starting, ResumeEntry
<1>3. CInv(ccall(s, 2, MULTRET, 0, 0, kind))
  BY <1>2, Ccall
<1> QED  BY <1>1, <1>3

(* The variables depend on the frames, the C functions and the stack only. *)
LEMMA VariablesSame ==
  ASSUME NEW s, NEW t, Variables(s), t.ci = s.ci, t.cs = s.cs, t.stack = s.stack,
         t.tbclist = s.tbclist
  PROVE  Variables(t)
<1>1. \A i : CallTop(t, i) = CallTop(s, i)
  BY DEF CallTop
<1>2. \A p, i : Accounted(t, p, i) <=> Accounted(s, p, i)
  BY DEF Accounted
<1>3. \A p : VariableOk(s, p) => VariableOk(t, p)
  BY <1>1, <1>2 DEF VariableOk
<1> QED  BY <1>3 DEF Variables

UnrollEntry == [t |-> "unroll"]

(* A frame of a C function that has yielded. *)
Suspended(y, d, n) ==
  /\ Base(y, d) /\ y.cs = <<>> /\ y.status = "ok" /\ y.nc = 1 /\ y.nny = 0
  /\ n \in Nat /\ n = Len(y.ci) /\ n > 1 /\ y.ci[n].kind = "C" /\ ~y.ci[n].clsret /\ ~y.ci[n].ypcall

Unrolls(s, y, c, n, v) ==
  /\ Base(s, c) /\ c \in [Nat -> Nat] /\ c[1] = 1 /\ c[2] = 1 /\ Len(s.cs) = 2
     /\ s.cs[2] = UnrollEntry /\ Counts(s)
  /\ s.ci = y.ci /\ s.status = "ok" /\ s.nc = 1 /\ s.nny = 0
  /\ Len(s.stack) = Len(y.stack) + Len(v)
  /\ \A p \in 1..Len(v) : s.stack[Len(y.stack) + p] = v[p]
  /\ \A p \in 1..Len(y.stack) : s.stack[p] = y.stack[p]
  /\ s \in State /\ s.tbclist = y.tbclist /\ s.cs[1] = ResumeEntry

(* lau_resume of a suspended coroutine: its handler, its arguments and unroll. *)
LEMMA Unrolling ==
  ASSUME NEW y, NEW d, NEW n, Suspended(y, d, n), NEW v \in Seq(StackValue), Len(v) \in {0, 1}
  PROVE  \E c : Unrolls(PushC(PushStack(PushC(y, ResumeEntry), v), UnrollEntry), y, c, n, v)
<1> DEFINE r == PushC(y, ResumeEntry)
           g == PushStack(r, v)
           s == PushC(g, UnrollEntry)
<1>1. /\ Base(y, d) /\ y.cs = <<>> /\ y.status = "ok" /\ y \in State /\ y.nc = 1 /\ y.nny = 0
      /\ Len(y.stack) \in Nat /\ Len(y.ci) \in Nat /\ Len(y.ci) > 0
  BY BaseType DEF Suspended
<1>2. ResumeEntry \in CFunction
  <2>1. ResumeEntry \in TryC
    BY DEF TryC, ResumeEntry, ErrorStatus
  <2> QED  BY <2>1 DEF CFunction
<1>3. UnrollEntry \in CFunction /\ UnrollEntry.t = "unroll"
  BY DEF CFunction, PlainC, UnrollEntry
<1>4. Pushed(y, r, ResumeEntry)
  BY <1>1, <1>2, PushCIs
<1> HIDE DEF r
<1>5. PICK b \in [Nat -> Nat] : /\ Base(r, b) /\ b[1] = 1 /\ Len(r.cs) = 1 /\ r.cs[1] = ResumeEntry
                                /\ CcallsAt(r.cs, 1) = 1 /\ NonYieldableAt(r.cs, 1) = 0
  BY <1>1, <1>4, Handles
<1>6. /\ r \in State /\ r.ci = y.ci /\ r.stack = y.stack /\ r.status = "ok" /\ r.nc = 1 /\ r.nny = 0
      /\ r.tbclist = y.tbclist
  BY <1>1, <1>4 DEF Pushed, SameCounts
<1>7. Grown(r, g, v)
  BY <1>6, PushStackIs
<1> HIDE DEF g
<1>8. /\ g \in State /\ g.ci = y.ci /\ g.cs = r.cs /\ g.status = "ok" /\ g.nc = 1 /\ g.nny = 0
         /\ g.tbclist = r.tbclist
      /\ Len(g.stack) = Len(y.stack) + Len(v)
         /\ (\A p \in 1..Len(v) : g.stack[Len(y.stack) + p] = v[p])
      /\ \A p \in 1..Len(r.stack) : g.stack[p] = r.stack[p]
  BY <1>6, <1>7 DEF Grown, SameCounts
<1>9. Base(g, b)
  <2>1. Len(g.stack) >= Len(r.stack)
    <3>1. \A x \in Nat, q \in {0, 1} : x + q >= x
      OBVIOUS
    <3> QED  BY <1>1, <1>6, <1>8, <3>1
  <2> QED  BY <1>5, <1>6, <1>8, <2>1, Grow
<1>10. Counts(g)
  BY <1>5, <1>8 DEF Counts
<1>11. Pushed(g, s, UnrollEntry)
  BY <1>3, <1>8, PushCIs
<1> HIDE DEF s
<1>12. Len(s.cs) = 2 /\ s.cs[2] = UnrollEntry /\ s.cs[1] = ResumeEntry /\ Len(g.cs) = 1
  <2>1. Len(g.cs) = 1 /\ g.cs[1] = ResumeEntry
    BY <1>5, <1>8
  <2>2. Len(s.cs) = 1 + 1 /\ s.cs[1 + 1] = UnrollEntry /\ \A j \in 1..1 : s.cs[j] = g.cs[j]
    BY <1>11, <2>1 DEF Pushed
  <2>3. 1 + 1 = 2 /\ 1 \in 1..1
    OBVIOUS
  <2> QED  BY <2>1, <2>2, <2>3
<1> DEFINE c == [b EXCEPT ![2] = 1]
<1>13. c \in [Nat -> Nat] /\ c[2] = 1 /\ c[1] = 1
  <2>1. /\ [b EXCEPT ![2] = 1] \in [Nat -> Nat] /\ [b EXCEPT ![2] = 1][2] = 1
        /\ \A j \in Nat : j # 2 => [b EXCEPT ![2] = 1][j] = b[j]
    <3>1. 2 \in Nat /\ 1 \in Nat
      OBVIOUS
    <3> QED
      <4>1. b \in [Nat -> Nat]
        OBVIOUS
      <4> QED  BY ONLY <4>1, SMT
  <2>2. 1 \in Nat /\ 1 # 2
    OBVIOUS
  <2> QED  BY <1>5, <2>1, <2>2
<1>14. Skeleton(s, c)
  <2>1. EntryOk(s.cs, 2)
    <3>1. ~Try(UnrollEntry, Unprotected) /\ UnrollEntry.t = "unroll"
      BY DEF UnrollEntry, Try
    <3> QED  BY <1>12, <3>1 DEF EntryOk
  <2>2. OnFrame(g, UnrollEntry, 1)
    BY <1>3 DEF OnFrame, Try
  <2>3. Deeper(s, c, 1)
    <3>1. 1 + 1 = 2
      OBVIOUS
    <3>2. ResumeEntry.t = "try"
      BY DEF ResumeEntry
    <3> HIDE DEF c
    <3>3. Beneath(s, s.cs[1], s.cs[2], 1)
      BY <1>12, <3>2, <1>3 DEF Beneath, Try, ResumeEntry
    <3> QED  BY <1>12, <1>13, <3>1, <3>2, <3>3 DEF Deeper
  <2>4. CallsNext(g.cs[1], UnrollEntry)
    <3>1. Try(ResumeEntry, {"resume"}) /\ UnrollEntry.t \in {"ccall", "unroll", "reset"}
      BY DEF ResumeEntry, Try, UnrollEntry
    <3> QED  BY <1>5, <1>8, <3>1 DEF CallsNext
  <2>5. 1 \in 1..Len(g.ci)
    <3>1. \A q \in Nat : q > 0 => 1 \in 1..q
      OBVIOUS
    <3> QED  BY <1>1, <1>8, <3>1
  <2>6. 1 \in Nat /\ 1 = Len(g.cs) /\ 2 \in Nat /\ 2 = 1 + 1 /\ b[1] <= 1
    BY <1>5, <1>12
  <2>7. UnrollEntry.t # "try"
    BY <1>3
  <2>8. Skeleton(g, b)
    BY <1>9 DEF Base
  <2> QED  BY <1>3, <1>8, <1>11, <2>1, <2>2, <2>3, <2>4, <2>5, <2>6, <2>7, <2>8, PushEntry
<1>15. Variables(s)
  BY <1>8, <1>9, <1>11, VariablesPush DEF Base
<1>16. Counts(s)
  BY <1>3, <1>8, <1>10, <1>11, CountsPush
<1>17. /\ s.ci = y.ci /\ s.stack = g.stack /\ s.status = "ok" /\ s.nc = 1 /\ s.nny = 0
       /\ s \in State /\ s.tbclist = y.tbclist
  BY <1>6, <1>8, <1>11 DEF Pushed, SameCounts
<1>18. Unrolls(s, y, c, n, v)
  <2> HIDE DEF c
  <2> QED  BY <1>6, <1>8, <1>12, <1>13, <1>14, <1>15, <1>16, <1>17 DEF Unrolls, Base
<1> QED  BY <1>18 DEF s, g, r

(* A suspended coroutine, and s, with which it goes on: unroll is in control. *)
Continuing(s, c, d, n, nargs) ==
  LET f == L.ci[n] IN
  /\ Base(L, d) /\ L \in State /\ L.cs = <<>> /\ L.status = "yield" /\ Len(L.stack) \in Nat
  /\ n = Len(L.ci) /\ n \in Nat /\ n > 1 /\ CI = f /\ f \in CallInfo /\ f.kind = "C"
  /\ ~f.clsret /\ ~f.ypcall /\ f.recst = "ok" /\ f.pc \notin {"top", "return", "index", "add"}
  /\ f.func \in Nat /\ f.func <= Len(L.stack) /\ FrameOk(s, n)
  /\ Base(s, c) /\ s \in State /\ c[1] = 1 /\ c[2] = 1 /\ Len(s.cs) = 2 /\ s.cs[1] = ResumeEntry
  /\ s.cs[2] = UnrollEntry /\ Counts(s) /\ s.nc < MaxCcalls /\ s.nny <= s.nc
  /\ s.ci = L.ci /\ s.tbclist = L.tbclist /\ s.status = "ok"
  /\ Len(s.stack) = Len(L.stack) + nargs
  /\ nargs = 1 => s.stack[Len(L.stack) + 1] = "res"
  /\ \A p \in 1..Len(L.stack) : s.stack[p] = L.stack[p]

(* A coroutine that goes on after lau_yieldk calls the continuation, or returns. *)
LEMMA ContinuesFrom ==
  ASSUME CInv(L), NEW nargs \in {0, 1}, Continue(nargs)
  PROVE  \E s, c, d : /\ Continuing(s, c, d, Len(L.ci), nargs)
                      /\ L' = IF CI.k THEN PushC(s, [t |-> "cfn"]) ELSE poscall(s, nargs)
<1> DEFINE y == [L EXCEPT !.nc = 1, !.nny = 0, !.status = "ok", !.ret = <<"ok">>]
           v == [i \in 1..nargs |-> "res"]
           s == PushC(PushStack(Resumed, v), UnrollEntry)
           n == Len(L.ci)
           f == L.ci[n]
<1>1. PICK d \in [Nat -> Nat] : Base(L, d) /\ Top(L, d)
  BY DEF CInv
<1>2. /\ L \in State /\ Skeleton(L, d) /\ Variables(L) /\ L.status = "yield" /\ n \in Nat /\ n > 0
         /\ L.ci \in Seq(CallInfo)
      /\ Len(L.stack) \in Nat /\ n = Len(L.ci)
      /\ L' = IF CI.k THEN PushC(s, [t |-> "cfn"]) ELSE poscall(s, nargs)
  BY <1>1, BaseType, StateType DEF Continue, UnrollEntry, Base
<1>3. L.cs = <<>>
  <2> SUFFICES ASSUME L.cs # <<>> PROVE FALSE
    OBVIOUS
  <2>1. Last(L.cs) \in CFunction
    BY <1>2, StateType, FrontLast
  <2>2. Last(L.cs).t # "host"
    BY <2>1, EntryType
  <2> QED  BY <2>2 DEF Control, Continue
<1>4. n > 1 /\ f.kind = "C" /\ ~f.clsret /\ ~f.ypcall /\ f.pc # "top"
  <2>1. Len(L.cs) = 0
    BY <1>3
  <2> QED  BY <1>1, <1>2, <2>1 DEF Top
<1>5. CI = f
  <2>1. L.ci # <<>>
    BY <1>2
  <2> QED  BY <1>2, <2>1, FrontLast DEF CI
<1>6. /\ y \in State /\ y.nc = 1 /\ y.nny = 0 /\ y.status = "ok" /\ y.ci = L.ci /\ y.cs = L.cs
         /\ y.tbclist = L.tbclist
      /\ y.stack = L.stack
  <2>1. <<"ok">> \in Seq(Status \cup StackValue)
    BY DEF Status
  <2> QED  BY <1>2, <2>1 DEF State, Status
<1>7. Resumed = PushC(y, ResumeEntry)
  BY <1>6 DEF Resumed, rawrunprotected, ResumeEntry
<1>8. v \in Seq(StackValue) /\ Len(v) = nargs /\ (nargs = 1 => v[1] = "res")
  BY ResultValues
<1>9. s = PushC(PushStack(PushC(y, ResumeEntry), v), UnrollEntry)
  BY <1>7
<1> HIDE DEF y, n, v, s
<1>10. Base(y, d)
  <2>1. CutTo(L, d, y, n, 0)
    <3>1. n \in 1..Len(L.ci) /\ 0 \in 0..Len(L.cs) /\ Len(y.cs) = 0
      <4>1. n \in Nat /\ n > 0 /\ n = Len(L.ci)
        BY <1>2
      <4>2. Len(L.cs) = 0 /\ y.cs = L.cs
        BY <1>3, <1>6
      <4> QED  BY ONLY <4>1, <4>2
    <3>2. Len(y.stack) + 1 >= CallTop(L, n)
      <4>1. CallTop(L, n) = Len(L.stack) + 1
        BY <1>2, Bases
      <4>2. \A x \in Nat : x + 1 >= x + 1
        OBVIOUS
      <4> QED  BY <1>2, <1>6, <4>1, <4>2
    <3>3. \A j \in 1..0 : y.cs[j] = L.cs[j] /\ d[j] <= n
      OBVIOUS
    <3>4. L.status \notin ErrorStatus
      BY <1>2 DEF ErrorStatus
    <3>5. \A j \in (0 + 1)..Len(L.cs) : FALSE
      BY <1>3
    <3> QED  BY <1>2, <1>6, <3>1, <3>2, <3>3, <3>4, <3>5 DEF CutTo
  <2>2. Skeleton(y, d)
    <3>1. 0 \in Nat
      OBVIOUS
    <3> QED  BY <1>2, <1>6, <2>1, <3>1, SkeletonCut
  <2> QED  BY <1>2, <1>6, <2>2, VariablesSame DEF Base
<1>11. Suspended(y, d, n)
  BY <1>2, <1>3, <1>4, <1>6, <1>10 DEF Suspended
<1>12. PICK c : Unrolls(s, y, c, n, v)
  BY <1>8, <1>9, <1>11, Unrolling
<1>13. /\ Base(s, c) /\ s \in State /\ c[1] = 1 /\ c[2] = 1 /\ Len(s.cs) = 2 /\ s.cs[2] = UnrollEntry /\ Counts(s)
       /\ s.ci = L.ci /\ s.status = "ok" /\ s.nc = 1 /\ s.nny = 0
          /\ Len(s.stack) = Len(L.stack) + nargs
       /\ nargs = 1 => s.stack[Len(L.stack) + 1] = "res"
       /\ s.tbclist = L.tbclist /\ s.cs[1] = ResumeEntry
       /\ \A p \in 1..Len(L.stack) : s.stack[p] = L.stack[p]
  <2>1. nargs = 1 => 1 \in 1..nargs
    OBVIOUS
  <2> QED  BY <1>6, <1>8, <1>12, <2>1 DEF Unrolls
<1>14. s.nc < MaxCcalls /\ s.nny <= s.nc
  BY <1>13, Bounds
<1>15. f \in CallInfo /\ FrameOk(s, n) /\ f.func <= Len(L.stack) /\ f.func \in Nat /\ s.ci[n] = f
  <2>1. n \in 1..n
    BY <1>2
  <2>2. FrameOk(s, n)
    BY <1>2, <1>13, <2>1 DEF Base, Skeleton, Frames
  <2> QED  BY <1>2, <1>13, <2>1, <2>2, Bases
<1>16. f.recst = "ok" /\ f.pc # "return" /\ f.pc \notin {"index", "add"}
  BY <1>4, <1>15 DEF FrameOk
<1>17. Continuing(s, c, d, n, nargs)
  BY <1>1, <1>2, <1>3, <1>4, <1>5, <1>13, <1>14, <1>15, <1>16 DEF Continuing
<1> QED  BY <1>2, <1>17 DEF n

(* It may return from the function that yielded, if that has no continuation. *)
LEMMA ContinueReturns ==
  ASSUME NEW s, NEW c, NEW d, NEW n, NEW nargs \in {0, 1}, Continuing(s, c, d, n, nargs)
  PROVE  MayReturn(s, c, 2, n, nargs)
<1>1. /\ Base(s, c) /\ c[1] = 1 /\ c[2] = 1 /\ Len(s.cs) = 2 /\ s.cs[2] = UnrollEntry /\ Counts(s)
      /\ s.ci = L.ci /\ s.status = "ok" /\ Len(s.stack) = Len(L.stack) + nargs
      /\ s.nc < MaxCcalls /\ s.nny <= s.nc /\ n \in Nat /\ n > 1 /\ n = Len(L.ci)
      /\ Len(L.stack) \in Nat /\ L.ci[n].func \in Nat /\ L.ci[n].func <= Len(L.stack)
  BY DEF Continuing
<1>2. UnrollEntry.t = "unroll"
  BY DEF UnrollEntry
<1>3. \A j \in 1..2 : j = 1 \/ j = 2
  OBVIOUS
<1>4. \A j \in 1..2 : c[j] < n
  BY <1>1, <1>3
<1>5. s.ci[n].func + nargs <= Len(s.stack)
  <2>1. \A p, q \in Nat, z \in {0, 1} : p <= q => p + z <= q + z
    OBVIOUS
  <2> QED  BY <1>1, <2>1
<1>6. 2 \in Nat /\ 2 = Len(s.cs) /\ 2 > 0 /\ n = Len(s.ci) /\ s.cs[2].t = "unroll"
  BY <1>1, <1>2
<1> QED  BY <1>1, <1>4, <1>5, <1>6 DEF MayReturn

(* lau_resume of a suspended coroutine keeps the invariant. *)
LEMMA ContinueStep ==
  ASSUME CInv(L), NEW nargs \in {0, 1}, Continue(nargs)
  PROVE  CInv(L')
<1> DEFINE n == Len(L.ci)
           f == L.ci[n]
<1>1. PICK s, c, d : /\ Continuing(s, c, d, n, nargs)
                     /\ L' = IF CI.k THEN PushC(s, [t |-> "cfn"]) ELSE poscall(s, nargs)
  BY ContinuesFrom
<1>2. /\ n \in Nat /\ n > 0 /\ n = Len(L.ci) /\ Len(L.stack) \in Nat
      /\ L' = IF CI.k THEN PushC(s, [t |-> "cfn"]) ELSE poscall(s, nargs)
  BY <1>1 DEF Continuing
<1> HIDE DEF n
<1>4. n > 1 /\ f.kind = "C" /\ ~f.clsret /\ ~f.ypcall /\ f.pc # "top"
  BY <1>1 DEF Continuing
<1>5. CI = f
  BY <1>1 DEF Continuing
<1>13. /\ Base(s, c) /\ c[1] = 1 /\ c[2] = 1 /\ Len(s.cs) = 2 /\ s.cs[2] = UnrollEntry /\ Counts(s)
       /\ s.ci = L.ci /\ s.status = "ok" /\ Len(s.stack) = Len(L.stack) + nargs
       /\ nargs = 1 => s.stack[Len(L.stack) + 1] = "res"
  BY <1>1 DEF Continuing
<1>14. s.nc < MaxCcalls /\ s.nny <= s.nc
  BY <1>1 DEF Continuing
<1>15. f \in CallInfo /\ FrameOk(s, n) /\ f.func <= Len(L.stack) /\ f.func \in Nat /\ s.ci[n] = f
  BY <1>1 DEF Continuing
<1>16. f.recst = "ok" /\ f.pc # "return" /\ f.pc \notin {"index", "add"}
  BY <1>1 DEF Continuing
<1>17. UnrollEntry.t = "unroll"
  BY DEF UnrollEntry
<1>18. CASE f.k
  <2> DEFINE e == [t |-> "cfn"]
  <2>1. e \in CFunction /\ e.t = "cfn"
    BY DEF CFunction, PlainC
  <2> HIDE DEF e, f
  <2>2. OnFrame(s, e, n)
    BY <1>4, <1>15, <1>16, <2>1 DEF OnFrame, Try
  <2>3. CallsNext(s.cs[2], e)
    BY <1>13, <1>17, <2>1 DEF CallsNext
  <2>4. \A t, b : t.ci = s.ci /\ t.cs[2] = s.cs[2] /\ t.cs[2 + 1] = e /\ b[2] = c[2]
          /\ b[2 + 1] = n => Deeper(t, b, 2)
    <3> TAKE t, b
    <3> HAVE t.ci = s.ci /\ t.cs[2] = s.cs[2] /\ t.cs[2 + 1] = e /\ b[2] = c[2] /\ b[2 + 1] = n
    <3>1. Beneath(t, t.cs[2], e, b[2])
      BY <1>13, <1>17 DEF Beneath, Try
    <3> QED  BY <1>4, <1>13, <1>17, <3>1 DEF Deeper
  <2>5. c[2] <= n /\ 2 \in Nat /\ 2 = Len(s.cs) /\ 2 > 0
    <3>1. \A q \in Nat : q > 1 => 1 <= q
      OBVIOUS
    <3>2. 2 \in Nat /\ 2 > 0
      OBVIOUS
    <3> QED  BY <1>2, <1>4, <1>13, <3>1, <3>2
  <2>6. n = Len(s.ci)
    BY <1>2, <1>13
  <2>7. MayEnter(s, c, 2, n, e)
    BY <1>2, <1>13, <1>14, <2>1, <2>2, <2>3, <2>4, <2>5, <2>6 DEF MayEnter
  <2>8. ResultOf(s, n) /\ ~TakesResult(s.ci[n])
    BY <1>4, <1>15, <1>16 DEF ResultOf, Returning, TakesResult
  <2>9. CInv(PushC(s, e))
    BY <2>7, <2>8, EnterTop
  <2> QED  BY <1>2, <1>5, <1>18, <2>9 DEF e
<1>19. CASE ~f.k
  <2> HIDE DEF f
  <2>1. MayReturn(s, c, 2, n, nargs)
    BY <1>1, ContinueReturns
  <2>2. nargs = 1 => s.stack[Len(s.stack)] = "res"
    BY <1>13
  <2>3. CInv(poscall(s, nargs))
    <3>1. s.ci[n].kind = "C" /\ ~s.ci[n].ypcall /\ s.ci[n].pc # "top"
      BY <1>4, <1>15 DEF f
    <3>2. s.cs[2].t = "exec" => s.ci[n - 1].pc \notin {"close", "return"}
      BY <1>13, <1>17
    <3> QED  BY ONLY <2>1, <2>2, <3>1, <3>2, Poscall
  <2> QED  BY <1>2, <1>5, <1>19, <2>3
<1> QED  BY <1>18, <1>19

(* ccall returns *)

Uncounted(s, y, z) == PopC([s EXCEPT !.nc = @ - y, !.nny = @ - z])

ReturnedTo(s, t, d, q, n) ==
  /\ Base(t, d) /\ t.status = "ok" /\ t \in State
  /\ q \in Nat /\ q > 0 /\ q = Len(t.cs) /\ n \in Nat /\ n > 0 /\ n = Len(t.ci) /\ d[q] = n
  /\ t.nc < MaxCcalls /\ t.nny <= t.nc /\ Counts(t)
  /\ t.ci = s.ci /\ t.stack = s.stack /\ t.tbclist = s.tbclist
  /\ t.cs[q].t \in {"exec", "cfn", "close"} \/ Try(t.cs[q], {"resume", "pcall"})
  /\ t.cs[q].t = "exec" => TakesResult(t.ci[n])

(* ccall takes its increments of nCcalls back and returns. *)
LEMMA Uncounts ==
  ASSUME NEW s, NEW d, NEW m, NEW n, InControl(s, d, m, n), s.cs[m].t = "ccall"
  PROVE  ReturnedTo(s, Uncounted(s, s.cs[m].inc, s.cs[m].y), d, m - 1, n)
<1> DEFINE e == s.cs[m]  q == m - 1
           u == [s EXCEPT !.nc = @ - e.inc, !.nny = @ - e.y]
           t == PopC(u)
<1>1. /\ Base(s, d) /\ s \in State /\ s.status = "ok" /\ m \in Nat /\ m = Len(s.cs) /\ m > 0
         /\ m \in 1..m
      /\ n \in Nat /\ n = Len(s.ci) /\ n > 0 /\ n \in 1..n /\ Counts(s) /\ d[m] = n
         /\ s.nc < MaxCcalls
      /\ s.nc \in Nat /\ s.nny \in Nat /\ e \in CFunction
  BY BaseType DEF InControl
<1>2. Skeleton(s, d) /\ CFunctions(s.cs) /\ Depths(s, d) /\ s.cs \in Seq(CFunction)
  BY <1>1, StateType DEF Base, Skeleton
<1>3. m > 1
  <2>1. EntryOk(s.cs, m)
    BY <1>1, <1>2 DEF CFunctions
  <2>2. m # 1
    BY <2>1 DEF EntryOk, Try
  <2>3. \A x \in Nat : x > 0 /\ x # 1 => x > 1
    OBVIOUS
  <2> QED  BY <1>1, <2>2, <2>3
<1>4. q \in Nat /\ q > 0 /\ q + 1 = m /\ q \in 1..m /\ q \in 1..(m - 1) /\ m \in 1..m
  BY <1>1, <1>3, LessOne
<1>5. e.inc \in {0, 1} /\ e.y \in {0, 1} /\ e.y <= e.inc
  <2>1. e \in CallC
    BY <1>1, EntryType
  <2>2. EntryOk(s.cs, m)
    BY <1>1, <1>2 DEF CFunctions
  <2>3. \A x \in 0..1 : x \in {0, 1}
    OBVIOUS
  <2> QED  BY <2>1, <2>2, <2>3 DEF CallC, EntryOk
<1>6. /\ CcallsAt(s.cs, m) = CcallsAt(s.cs, q) + e.inc
         /\ NonYieldableAt(s.cs, m) = NonYieldableAt(s.cs, q) + e.y
      /\ CcallsAt(s.cs, q) \in Nat /\ NonYieldableAt(s.cs, q) \in Nat
  <2>1. m \in 1..Len(s.cs) /\ q \in 0..Len(s.cs)
    BY <1>1, <1>4
  <2> QED  BY <1>2, <2>1, CountStep, CountType
<1>7. NonYieldableAt(s.cs, q) <= CcallsAt(s.cs, q)
  <2>1. q \in 0..Len(s.cs)
    BY <1>1, <1>4
  <2>2. \A i \in 1..q : s.cs[i].t = "ccall" => s.cs[i].y <= s.cs[i].inc
    <3> TAKE i \in 1..q
    <3>1. i \in 1..Len(s.cs)
      BY <1>1, <1>4
    <3> QED  BY <1>2, <3>1 DEF CFunctions, EntryOk
  <2> QED  BY <1>2, <2>1, <2>2, NonYieldableIsCounted
<1>8. s.nc = CcallsAt(s.cs, q) + e.inc /\ s.nny = NonYieldableAt(s.cs, q) + e.y
  BY <1>1, <1>6 DEF Counts
<1>9. s.nc - e.inc = CcallsAt(s.cs, q) /\ s.nny - e.y = NonYieldableAt(s.cs, q)
        /\ CcallsAt(s.cs, q) <= s.nc
  <2>1. \A x \in Nat, z \in {0, 1} : (x + z) - z = x /\ x <= x + z
    OBVIOUS
  <2> QED  BY <1>5, <1>6, <1>8, <2>1
<1>10. /\ u \in State /\ u.ci = s.ci /\ u.cs = s.cs /\ u.stack = s.stack /\ u.tbclist = s.tbclist
          /\ u.status = "ok"
       /\ u.nc = CcallsAt(s.cs, q) /\ u.nny = NonYieldableAt(s.cs, q)
  <2>1. s.nc - e.inc \in Nat /\ s.nny - e.y \in Nat
    BY <1>6, <1>9
  <2> HIDE DEF e
  <2> QED  BY <1>1, <1>9, <2>1 DEF State
<1> HIDE DEF e, q, u
<1>11. Base(u, d)
  <2>1. Len(u.stack) >= Len(s.stack)
    BY <1>1, <1>10, StateType
  <2> QED  BY <1>1, <1>10, <2>1, Grow
<1>12. Popped(u, t)
  <2>1. u.cs # <<>>
    BY <1>1, <1>10
  <2> QED  BY <1>10, <2>1, PopCIs
<1> HIDE DEF t
<1>13. /\ t \in State /\ t.ci = s.ci /\ t.stack = s.stack /\ t.tbclist = s.tbclist
          /\ t.status = "ok"
       /\ t.nc = CcallsAt(s.cs, q) /\ t.nny = NonYieldableAt(s.cs, q)
       /\ Len(t.cs) = q /\ \A j \in 1..q : t.cs[j] = s.cs[j]
  <2>1. Len(u.cs) = m
    BY <1>1, <1>10
  <2>2. Len(t.cs) = m - 1
    BY <1>12, <2>1 DEF Popped
  <2>3. m - 1 = q
    BY DEF q
  <2> QED  BY <1>10, <1>12, <2>2, <2>3 DEF Popped, SameCounts
<1>14. Base(t, d)
  <2>1. u.cs[m].t # "cfn" /\ ~Try(u.cs[m], {"closep"})
    BY <1>10 DEF Try
  <2>2. m = Len(u.cs)
    BY <1>1, <1>10
  <2> QED  BY <1>1, <1>11, <1>12, <2>1, <2>2, PopEntry
<1>15. Counts(t)
  <2>1. CcallsAt(t.cs, q) = CcallsAt(s.cs, q) /\ NonYieldableAt(t.cs, q) = NonYieldableAt(s.cs, q)
    BY <1>4, <1>13, SameCount
  <2> QED  BY <1>13, <2>1 DEF Counts
<1>16. t.cs[q] = s.cs[q]
  <2>1. q \in 1..q
    BY <1>4
  <2> QED  BY <1>13, <2>1
<1>17. CallsNext(s.cs[q], s.cs[m]) /\ Deeper(s, d, q)
  <2>1. q \in 1..(Len(s.cs) - 1)
    BY <1>1, <1>4
  <2> QED  BY <1>2, <1>4, <2>1 DEF CFunctions, Depths
<1>18. s.cs[q].t \in {"exec", "cfn", "close"} \/ Try(s.cs[q], {"resume", "pcall"})
  BY <1>17 DEF CallsNext, Closing, Try
<1>19. d[q] = n /\ (s.cs[q].t = "exec" => TakesResult(s.ci[n]))
  <2>1. s.cs[q].t \notin {"ccall", "unroll"}
    BY <1>18 DEF Try
  <2>2. s.cs[q + 1] = s.cs[m] /\ d[q + 1] = n
    BY <1>1, <1>4
  <2>3. CASE s.cs[q].t = "exec"
    BY <1>17, <2>2, <2>3 DEF Deeper, Closing
  <2>4. CASE s.cs[q].t # "exec"
    BY <1>17, <2>1, <2>2, <2>4 DEF Deeper
  <2> QED  BY <2>3, <2>4
<1>20. t.nc < MaxCcalls /\ t.nny <= t.nc
  <2>1. MaxCcalls \in Nat
    BY Bounds
  <2> QED  BY <1>1, <1>6, <1>7, <1>9, <1>13, <2>1
<1>21. ReturnedTo(s, t, d, q, n)
  BY <1>1, <1>4, <1>13, <1>14, <1>15, <1>16, <1>18, <1>19, <1>20 DEF ReturnedTo
<1>22. t = Uncounted(s, s.cs[m].inc, s.cs[m].y)
  BY DEF t, u, e, Uncounted
<1> QED  BY <1>21, <1>22 DEF q

(* The frame that runs. *)
LEMMA RunningFrame ==
  ASSUME NEW s, NEW d, Base(s, d), NEW n \in Nat, n = Len(s.ci)
  PROVE  /\ s \in State /\ n > 0 /\ n \in 1..n /\ s.ci[n] \in CallInfo /\ FrameOk(s, n)
         /\ Skeleton(s, d) /\ Depths(s, d) /\ Frames(s) /\ CFunctions(s.cs)
         /\ Len(s.stack) \in Nat /\ Len(s.stack) > 0 /\ CallTop(s, n) = Len(s.stack) + 1
         /\ s.ci[n].func \in Nat /\ s.ci[n].func > 0 /\ s.ci[n].func <= Len(s.stack)
<1>1. s \in State /\ Len(s.ci) > 0 /\ Len(s.stack) \in Nat /\ Len(s.stack) > 0
  BY BaseType
<1>2. Skeleton(s, d)
  BY DEF Base
<1>3. Depths(s, d) /\ Frames(s) /\ CFunctions(s.cs)
  BY <1>2 DEF Skeleton
<1>4. n > 0 /\ n \in 1..n
  BY <1>1
<1>5. FrameOk(s, n)
  BY <1>3, <1>4 DEF Frames
<1> QED  BY <1>1, <1>2, <1>3, <1>4, <1>5, Bases

(* A C function goes on after a call. *)
GoingOn(f, g) ==
  /\ g \in CallInfo /\ g.func = f.func /\ g.kind = f.kind /\ g.want = f.want /\ g.fresh = f.fresh
  /\ g.tbc = f.tbc /\ g.clsret = f.clsret /\ ~g.ypcall /\ g.pc = "run" /\ g.recst = "ok"

(* A C function with its new CallInfo keeps the invariant. *)
LEMMA GoesOn ==
  ASSUME NEW s, NEW d, Base(s, d), s.status = "ok", NEW m \in Nat, m = Len(s.cs), m > 0,
         s.cs[m].t = "cfn",
         NEW n \in Nat, n = Len(s.ci), d[m] = n, s.nc < MaxCcalls, s.nny <= s.nc, Counts(s),
         NEW f, GoingOn(s.ci[n], f)
  PROVE  CInv(SetCI(s, f))
<1> DEFINE t == SetCI(s, f)
<1>1. /\ s \in State /\ n > 0 /\ n \in 1..n /\ s.ci[n] \in CallInfo /\ m \in 1..m /\ Depths(s, d)
  <2>1. m \in 1..m
    OBVIOUS
  <2> QED  BY <2>1, RunningFrame
<1>2. OnFrame(s, s.cs[m], n)
  BY <1>1 DEF Depths
<1>3. s.ci[n].kind = "C" /\ ~s.ci[n].clsret /\ s.ci[n].recst = "ok" /\ n > 1
  BY <1>2 DEF OnFrame
<1>4. /\ f \in CallInfo /\ f.func = s.ci[n].func /\ f.kind = "C" /\ f.want = s.ci[n].want
         /\ f.fresh = s.ci[n].fresh
      /\ f.tbc = s.ci[n].tbc /\ ~f.clsret /\ f.recst = "ok" /\ ~f.ypcall /\ f.pc = "run"
  BY <1>3 DEF GoingOn
<1> HIDE DEF t
<1>5. Framed(s, t, f)
  BY <1>1, <1>4, SetCIIs DEF t
<1>6. t.ci[n] = f /\ Len(t.ci) = n /\ t.cs = s.cs /\ t.status = "ok" /\ t.nc = s.nc /\ t.nny = s.nny
  BY <1>5 DEF Framed, SameCounts
<1>7. FrameOk(t, n)
  BY <1>4, <1>6 DEF FrameOk, Returning
<1>8. OnFrame(t, s.cs[m], n)
  BY <1>2, <1>3, <1>4, <1>6 DEF OnFrame, Try
<1>9. Base(t, d)
  BY <1>1, <1>3, <1>4, <1>5, <1>7, <1>8, SetFrame
<1>10. ~Returning(f) /\ ~TakesResult(f)
  BY <1>4 DEF Returning, TakesResult
<1>11. Counts(t)
  BY <1>6 DEF Counts
<1>12. CInv(t)
  BY <1>6, <1>9, <1>10, <1>11, RunsOn
<1> QED  BY <1>12 DEF t

(* An instruction takes the result of its call. *)
LEMMA TakesIt ==
  ASSUME NEW s, NEW d, Base(s, d), s.status = "ok", NEW m \in Nat, m = Len(s.cs), m > 0,
         s.cs[m].t = "exec",
         NEW n \in Nat, n = Len(s.ci), d[m] = n, s.nc < MaxCcalls, s.nny <= s.nc, Counts(s),
         TakesResult(s.ci[n]), s.ci[n].func < Len(s.stack), ~TbcFrom(s, Len(s.stack))
  PROVE  CInv(At(SetTop(s, Len(s.stack)), "run"))
<1> DEFINE l == Len(s.stack)  t == SetTop(s, l)
<1>1. /\ s \in State /\ n > 0 /\ n \in 1..n /\ s.ci[n] \in CallInfo /\ Skeleton(s, d) /\ l \in Nat
         /\ l > 0 /\ l = Len(s.stack)
      /\ Frames(s)
  BY RunningFrame
<1>2. FrameOk(s, n)
  BY RunningFrame
<1>3. ~s.ci[n].ypcall /\ s.ci[n].pc \notin {"close", "top"} /\ ~Returning(s.ci[n])
  BY <1>2 DEF FrameOk, TakesResult, Returning
<1>4. \A j \in 1..m : d[j] = n => j = m
  BY <1>1, OnTop
<1> HIDE DEF l
<1>5. Above(s, d, n, l)
  BY <1>1, <1>3, <1>4 DEF Above, Try
<1>6. Cut(s, t, l)
  <2>1. l \in 1..(l + 1)
    <3>1. \A q \in Nat : q > 0 => q \in 1..(q + 1)
      OBVIOUS
    <3> QED  BY <1>1, <3>1
  <2> QED  BY <1>1, <2>1, SetTopIs
<1> HIDE DEF t
<1>7. /\ t \in State /\ t.ci = s.ci /\ t.cs = s.cs /\ t.tbclist = s.tbclist /\ t.status = "ok"
         /\ t.nc = s.nc /\ t.nny = s.nny
      /\ l <= Len(t.stack) + 1 /\ \A q \in 1..(l - 1) : t.stack[q] = s.stack[q]
  <2>1. Len(t.stack) = l - 1
    BY <1>6 DEF Cut
  <2>2. \A q \in Nat : q <= (q - 1) + 1
    OBVIOUS
  <2> QED  BY <1>1, <1>6, <2>1, <2>2 DEF Cut, SameCounts
<1>8. Base(t, d)
  BY <1>1, <1>5, <1>7, TrimsStack
<1>9. Counts(t)
  BY <1>7 DEF Counts
<1>10. CInv(At(t, "run"))
  BY <1>7, <1>8, <1>9, NextInstruction
<1> QED  BY <1>10 DEF t, l

(* The return of ccall keeps the invariant. *)
LEMMA CcallReturnsStep ==
  ASSUME CInv(L), CcallReturns
  PROVE  CInv(L')
<1> DEFINE m == Len(L.cs)  n == Len(L.ci)  e == L.cs[m]  q == m - 1
           s == Uncounted(L, e.inc, e.y)
<1>1. L.cs # <<>>
  BY DEF CcallReturns, Control
<1>2. PICK d \in [Nat -> Nat] : Top(L, d) /\ InControl(L, d, m, n)
  BY <1>1, Controls
<1>3. L.cs[m].t = "ccall" /\ Last(L.cs) = L.cs[m] /\ CI = L.ci[n]
  BY <1>2 DEF CcallReturns, InControl, CI
<1>4. L' = CASE Control(s) = "cfn" -> SetCI(s, [L.ci[n] EXCEPT !.pc = "run", !.ypcall = FALSE])
             [] Control(s) = "exec" -> At(SetTop(s, Len(s.stack)), "run")
             [] OTHER -> s
  BY <1>3 DEF CcallReturns, Uncounted
<1>5. ReturnedTo(L, s, d, q, n)
  BY <1>2, <1>3, Uncounts
<1> HIDE DEF s, q
<1>6. /\ Base(s, d) /\ s.status = "ok" /\ s \in State
      /\ q \in Nat /\ q > 0 /\ q = Len(s.cs) /\ n \in Nat /\ n > 0 /\ n = Len(s.ci) /\ d[q] = n
      /\ s.nc < MaxCcalls /\ s.nny <= s.nc /\ Counts(s)
      /\ s.ci = L.ci /\ s.stack = L.stack /\ s.tbclist = L.tbclist
  BY <1>5 DEF ReturnedTo
<1>7. /\ s.cs[q].t \in {"exec", "cfn", "close"} \/ Try(s.cs[q], {"resume", "pcall"})
      /\ s.cs[q].t = "exec" => TakesResult(s.ci[n])
  BY <1>5 DEF ReturnedTo
<1>8. Control(s) = s.cs[q].t
  <2>1. s.cs # <<>> /\ s.cs \in Seq(CFunction)
    <3>1. s.cs \in Seq(CFunction)
      BY <1>6, StateType
    <3>2. s.cs = <<>> => Len(s.cs) = 0
      OBVIOUS
    <3> QED  BY <1>6, <3>1, <3>2
  <2> QED  BY <1>6, <2>1, FrontLast DEF Control
<1>9. m > 0 /\ ResultOf(L, n)
        /\ (TakesResult(L.ci[n]) => L.ci[n].func < Len(L.stack) /\ ~TbcFrom(L, Len(L.stack)))
  BY <1>2 DEF Top, InControl
<1>10. TakesResult(s.ci[n]) => s.ci[n].func < Len(s.stack) /\ ~TbcFrom(s, Len(s.stack))
  BY <1>6, <1>9 DEF TbcFrom
<1> HIDE DEF m, n
<1>11. CASE s.cs[q].t = "cfn"
  <2>1. GoingOn(s.ci[n], [L.ci[n] EXCEPT !.pc = "run", !.ypcall = FALSE])
    <3>1. s.ci[n] = L.ci[n] /\ s.ci[n] \in CallInfo /\ OnFrame(s, s.cs[q], n)
      <4>1. Depths(s, d) /\ q \in 1..Len(s.cs)
        <5>1. q \in 1..Len(s.cs)
          BY ONLY <1>6
        <5> QED  BY <1>6, <5>1, RunningFrame
      <4> QED  BY <1>6, <4>1, RunningFrame DEF Depths
    <3>2. s.ci[n].recst = "ok"
      BY <1>11, <3>1 DEF OnFrame
    <3> QED  BY <3>1, <3>2 DEF GoingOn, CallInfo
  <2>2. CInv(SetCI(s, [L.ci[n] EXCEPT !.pc = "run", !.ypcall = FALSE]))
    BY <1>6, <1>11, <2>1, GoesOn
  <2> QED  BY <1>4, <1>8, <1>11, <2>2
<1>12. CASE s.cs[q].t = "exec"
  <2>1. CInv(At(SetTop(s, Len(s.stack)), "run"))
    BY <1>6, <1>7, <1>10, <1>12, TakesIt
  <2> QED  BY <1>4, <1>8, <1>12, <2>1
<1>13. CASE s.cs[q].t \notin {"cfn", "exec"}
  <2>1. L' = s
    BY <1>4, <1>8, <1>13
  <2>2. ResultOf(s, n)
    <3>1. CallTop(s, n) = CallTop(L, n)
      BY <1>6 DEF CallTop
    <3> QED  BY <1>6, <1>9, <3>1 DEF ResultOf
  <2>3. s.cs[q].t \notin {"reset", "unroll"} /\ ~Try(s.cs[q], {"closep"})
    BY <1>7 DEF Try
  <2>4. Top(s, d)
    <3>1. s.status # "yield" /\ s.status # "mem"
      BY <1>6
    <3> QED  BY <1>6, <1>10, <2>2, <2>3, <3>1 DEF Top
  <2> QED  BY <1>6, <2>1, <2>4 DEF CInv
<1> QED  BY <1>11, <1>12, <1>13

(* lauD_rawrunprotected returns *)

Untried(s, t, d, q, n) ==
  /\ Base(t, d) /\ t.status = "ok" /\ t \in State
  /\ q \in Nat /\ q = Len(t.cs) /\ n \in Nat /\ n > 0 /\ n = Len(t.ci)
  /\ t.nc < MaxCcalls /\ t.nny <= t.nc /\ Counts(t)
  /\ t.ci = s.ci /\ t.stack = s.stack /\ t.tbclist = s.tbclist

(* lauD_rawrunprotected returns with the counts it started with. *)
LEMMA Untries ==
  ASSUME NEW s, NEW d, NEW m, NEW n, InControl(s, d, m, n), s.cs[m].t = "try",
         Try(s.cs[m], {"closep"}) => ~TbcFrom(s, s.cs[m].level)
  PROVE  Untried(s, Unprotect(s, m), d, m - 1, n)
<1> DEFINE e == s.cs[m]  q == m - 1  t == Unprotect(s, m)  p == PopC(s)
<1>1. /\ Base(s, d) /\ s \in State /\ s.status = "ok" /\ m \in Nat /\ m = Len(s.cs) /\ m > 0
         /\ m \in 1..m
      /\ n \in Nat /\ n = Len(s.ci) /\ n > 0
  BY DEF InControl
<1>2. Skeleton(s, d) /\ CFunctions(s.cs) /\ Saved(s.cs) /\ s.cs \in Seq(CFunction)
  BY <1>1, StateType DEF Base, Skeleton
<1>3. q \in Nat /\ q <= m
  BY <1>1
<1>4. BackTo(s, t, m)
  BY <1>1, UnprotectIs
<1>5. Popped(s, p)
  <2>1. s.cs # <<>>
    BY <1>1
  <2> QED  BY <1>1, <2>1, PopCIs
<1>6. Base(p, d)
  <2>1. s.cs[m].t # "cfn"
    OBVIOUS
  <2> HIDE DEF p
  <2> QED  BY <1>1, <1>5, <2>1, PopEntry
<1>7. t.cs = p.cs
  BY <1>1 DEF Unprotect, PopC, Front, State
<1> HIDE DEF t, p, q
<1>8. /\ t \in State /\ t.ci = s.ci /\ t.stack = s.stack /\ t.tbclist = s.tbclist /\ t.status = "ok"
      /\ Len(t.cs) = q /\ (\A j \in 1..q : t.cs[j] = s.cs[j]) /\ t.nc = e.nc /\ t.nny = e.nny
  BY <1>1, <1>4 DEF BackTo, q
<1>9. Base(t, d)
  <2>1. p.ci = s.ci /\ p.stack = s.stack /\ p.tbclist = s.tbclist /\ p.status = "ok"
          /\ Len(t.stack) >= Len(p.stack)
    <3>1. p.ci = s.ci /\ p.stack = s.stack /\ p.tbclist = s.tbclist /\ p.status = "ok"
      BY <1>1, <1>5 DEF Popped, SameCounts
    <3>2. Len(t.stack) \in Nat /\ Len(t.stack) = Len(p.stack)
      BY <1>8, <3>1, StateType
    <3>3. \A x \in Nat : x >= x
      OBVIOUS
    <3> QED  BY <3>1, <3>2, <3>3
  <2> QED  BY <1>6, <1>7, <1>8, <2>1, Grow
<1>10. e.nc = CcallsAt(s.cs, q) /\ e.nny = NonYieldableAt(s.cs, q)
  BY <1>1, <1>2 DEF Saved, q
<1>11. e.nc < MaxCcalls /\ e.nny <= e.nc
  BY <1>1, <1>2 DEF CFunctions, EntryOk
<1>12. Counts(t)
  <2>1. CcallsAt(t.cs, q) = CcallsAt(s.cs, q) /\ NonYieldableAt(t.cs, q) = NonYieldableAt(s.cs, q)
    BY <1>3, <1>8, SameCount
  <2> QED  BY <1>8, <1>10, <2>1 DEF Counts
<1>13. Untried(s, t, d, q, n)
  BY <1>1, <1>3, <1>8, <1>9, <1>11, <1>12 DEF Untried
<1> QED  BY <1>13 DEF t, q

(* 'At' in a C function: it goes on. *)
LEMMA AtC ==
  ASSUME NEW s, NEW d, Base(s, d), s.status = "ok", NEW m \in Nat, m = Len(s.cs), m > 0,
         s.cs[m].t = "cfn",
         NEW n \in Nat, n = Len(s.ci), d[m] = n, s.nc < MaxCcalls, s.nny <= s.nc, Counts(s),
         ~s.ci[n].ypcall
  PROVE  CInv(At(s, "run"))
<1> DEFINE f == [s.ci[n] EXCEPT !.pc = "run", !.level = 0]
<1>1. At(s, "run") = SetCI(s, f)
  <2>1. s.ci # <<>> /\ s.ci \in Seq(CallInfo)
    BY RunningFrame, StateType
  <2> QED  BY <2>1, FrontLast DEF At
<1>2. OnFrame(s, s.cs[m], n) /\ s.ci[n] \in CallInfo
  <2>1. Depths(s, d) /\ m \in 1..m
    BY RunningFrame
  <2> QED  BY <2>1, RunningFrame DEF Depths
<1>3. s.ci[n].recst = "ok" /\ ~s.ci[n].clsret
  BY <1>2 DEF OnFrame
<1>4. GoingOn(s.ci[n], f)
  BY <1>2, <1>3 DEF GoingOn, CallInfo
<1> HIDE DEF f
<1> QED  BY <1>1, <1>4, GoesOn

(* The stack of a C function in control may be cut at p. *)
LEMMA TrimsC ==
  ASSUME NEW s, NEW d, Base(s, d), NEW m \in Nat, m = Len(s.cs), m > 0, s.cs[m].t = "cfn",
         NEW n \in Nat, n = Len(s.ci), d[m] = n, ~s.ci[n].ypcall, s.ci[n].pc # "top",
         NEW p \in Nat, s.ci[n].func < p, ~TbcFrom(s, p),
         NEW t \in State, t.ci = s.ci, t.cs = s.cs, t.tbclist = s.tbclist, t.status = s.status,
         p <= Len(t.stack) + 1, \A q \in 1..(p - 1) : t.stack[q] = s.stack[q]
  PROVE  Base(t, d)
<1>1. Skeleton(s, d) /\ Depths(s, d) /\ m \in 1..m /\ FrameOk(s, n)
  BY RunningFrame
<1>2. OnFrame(s, s.cs[m], n)
  BY <1>1 DEF Depths
<1>3. s.ci[n].kind = "C" /\ ~s.ci[n].clsret
  BY <1>2 DEF OnFrame
<1>4. s.ci[n].pc \notin {"close", "top"} /\ ~Returning(s.ci[n])
  BY <1>1, <1>3 DEF FrameOk, Returning
<1>5. \A j \in 1..m : d[j] = n => j = m
  BY <1>1, OnTop
<1>6. Above(s, d, n, p)
  BY <1>4, <1>5 DEF Above, Try
<1> QED  BY <1>6, TrimsStack

(* The rest of lauE_resetthread *)

ResetEnds(s, d, q, status) ==
  /\ Base(s, d) /\ s.status = "ok" /\ s \in State
  /\ q \in Nat /\ q > 0 /\ q = Len(s.cs) /\ s.cs[q].t = "reset" /\ Len(s.ci) = 1 /\ d[q] = 1
  /\ s.nc < MaxCcalls /\ s.nny <= s.nc /\ ~TbcFrom(s, 2) /\ status \in ErrorStatus \cup {"ok"}

(* The base frame by itself. *)
LEMMA BaseFrame ==
  ASSUME NEW s, s.ci[1] = BaseCI
  PROVE  /\ s.ci[1].func = 1 /\ s.ci[1].kind = "C" /\ ~s.ci[1].ypcall /\ s.ci[1].pc = "run"
         /\ ~Returning(s.ci[1])
         /\ ~TakesResult(s.ci[1]) /\ ResultOf(s, 1)
<1>1. BaseCI.func = 1 /\ BaseCI.kind = "C" /\ ~BaseCI.ypcall /\ BaseCI.pc = "run" /\ ~BaseCI.clsret
  BY DEF BaseCI, Frame
<1> QED  BY <1>1 DEF Returning, TakesResult, ResultOf

(* Its stack is cleared: only the slot of the base frame and an error object stay. *)
LEMMA Cleans ==
  ASSUME NEW s, NEW d, NEW q, NEW status, ResetEnds(s, d, q, status),
         NEW t, t = IF status = "ok" THEN SetTop(s, 2) ELSE seterrorobj(s, status, 2)
  PROVE  /\ Base(t, d) /\ t \in State /\ t.ci = s.ci /\ t.cs = s.cs /\ t.tbclist = s.tbclist
         /\ t.status = "ok"
         /\ t.nc = s.nc /\ t.nny = s.nny /\ Len(t.stack) > 0
<1>1. /\ Base(s, d) /\ s.status = "ok" /\ s \in State /\ q \in Nat /\ q > 0 /\ q = Len(s.cs)
         /\ s.cs[q].t = "reset"
      /\ Len(s.ci) = 1 /\ d[q] = 1 /\ ~TbcFrom(s, 2)
  BY DEF ResetEnds
<1>2. /\ Len(s.stack) \in Nat /\ Len(s.stack) > 0 /\ Depths(s, d) /\ Frames(s) /\ CFunctions(s.cs)
         /\ 1 \in Nat
  BY <1>1, RunningFrame
<1>3. s.ci[1] = BaseCI
  BY <1>2 DEF Frames
<1>4. 2 \in 1..(Len(s.stack) + 1) /\ 2 <= Len(s.stack) + 1
  BY <1>2
<1>5. /\ t \in State /\ t.ci = s.ci /\ t.cs = s.cs /\ t.tbclist = s.tbclist /\ t.status = "ok"
         /\ t.nc = s.nc /\ t.nny = s.nny
      /\ Len(t.stack) \in {1, 2} /\ \A p \in 1..(2 - 1) : t.stack[p] = s.stack[p]
  <2>1. CASE status = "ok"
    <3>1. Cut(s, t, 2)
      BY <1>1, <1>4, <2>1, SetTopIs
    <3> QED  BY <1>1, <3>1 DEF Cut, SameCounts
  <2>2. CASE status # "ok"
    <3>1. Erred(s, t, 2)
      BY <1>1, <1>2, <1>4, <2>2, SetErrorIs
    <3> QED  BY <1>1, <3>1 DEF Erred, SameCounts
  <2> QED  BY <2>1, <2>2
<1>6. Above(s, d, 1, 2)
  <2>1. \A j \in 1..Len(s.cs) : s.cs[j].t \in {"try", "reset"}
    <3>1. EntryOk(s.cs, q) /\ q \in 1..q
      BY <1>1, <1>2 DEF CFunctions
    <3> QED  BY <1>1, <3>1 DEF EntryOk
  <2>2. \A j \in 1..Len(s.cs) : d[j] = 1 /\ Try(s.cs[j], Protected) => s.cs[j].level = 2
    <3> TAKE j \in 1..Len(s.cs)
    <3>1. OnFrame(s, s.cs[j], d[j])
      BY <1>2 DEF Depths
    <3> QED  BY <3>1 DEF OnFrame
  <2>3. 1 < 2 /\ 2 <= 2
    OBVIOUS
  <2> QED  BY <1>3, <2>1, <2>2, <2>3, BaseFrame DEF Above
<1>7. 2 <= Len(t.stack) + 1 /\ Len(t.stack) > 0
  <2>1. \A x \in {1, 2} : 2 <= x + 1 /\ x > 0
    OBVIOUS
  <2> QED  BY <1>5, <2>1
<1>8. Base(t, d)
  <2>1. 1 = Len(s.ci) /\ 1 \in Nat /\ 2 \in Nat
    BY <1>1
  <2>2. /\ s.status = t.status /\ t.ci = s.ci /\ t.cs = s.cs /\ t.tbclist = s.tbclist /\ t \in State
        /\ \A p \in 1..(2 - 1) : t.stack[p] = s.stack[p]
    BY <1>1, <1>5
  <2> QED  BY ONLY <1>1, <1>6, <1>7, <2>1, <2>2, TrimsStack
<1> QED  BY <1>5, <1>7, <1>8

(* A coroutine that has closed itself goes on at the first handler. *)
LEMMA BackToFirst ==
  ASSUME NEW w, NEW d, Base(w, d), w.status = "ok", NEW r \in Nat, r = Len(w.cs), r > 0,
         w.cs[r].t = "try",
         Len(w.ci) = 1, ~TbcFrom(w, 2), w.nc < MaxCcalls, w.nny <= w.nc,
         NEW status \in ErrorStatus \cup {"ok"}
  PROVE  CInv(throwbaselevel(w, status))
<1> DEFINE k == BaseTry(w)  t == [w EXCEPT !.cs = SubSeq(@, 1, k)]
<1>1. /\ w \in State /\ Skeleton(w, d) /\ Variables(w) /\ Frames(w) /\ Depths(w, d)
         /\ w.cs \in Seq(CFunction)
      /\ Len(w.stack) \in Nat /\ d \in [Nat -> Nat]
  <2>1. w \in State /\ Skeleton(w, d) /\ Frames(w) /\ Depths(w, d) /\ Len(w.stack) \in Nat
    <3>1. Len(w.ci) \in Nat
      BY BaseType
    <3> QED  BY <3>1, RunningFrame
  <2> QED  BY <2>1, StateType DEF Base, Skeleton
<1>2. AtFirst(w, d, r, k)
  <2>1. w.cs[r].t # "reset"
    OBVIOUS
  <2> QED  BY <1>1, <2>1, FirstHandler
<1>3. k = BaseTry(w)
  OBVIOUS
<1> HIDE DEF k
<1>4. /\ k \in Nat /\ k > 0 /\ k \in 0..Len(w.cs) /\ k \in 1..k /\ w.cs[k].t = "try" /\ d[k] = 1
      /\ \A j \in 1..k : d[j] = 1
  <2>1. k \in {1, 2} /\ k \in 1..r /\ w.cs[k].t = "try" /\ \A j \in 1..k : d[j] = 1
    BY <1>2 DEF AtFirst
  <2>2. k \in 1..k
    BY <2>1
  <2> QED  BY <2>1, <2>2
<1>5. SubSeq(w.cs, 1, k) \in Seq(CFunction) /\ Len(SubSeq(w.cs, 1, k)) = k
        /\ \A j \in 1..k : SubSeq(w.cs, 1, k)[j] = w.cs[j]
  BY <1>1, <1>4, Prefix
<1>6. /\ t \in State /\ t.ci = w.ci /\ t.stack = w.stack /\ t.tbclist = w.tbclist /\ t.status = "ok"
         /\ t.nc = w.nc /\ t.nny = w.nny
      /\ Len(t.cs) = k /\ \A j \in 1..k : t.cs[j] = w.cs[j]
  BY <1>1, <1>5 DEF State
<1>7. throwbaselevel(w, status) = IF status = "ok" THEN t ELSE throw(t, status)
  BY <1>3 DEF throwbaselevel
<1> HIDE DEF t
<1>8. CallTop(w, 1) = Len(w.stack) + 1 /\ w.ci[1] = BaseCI
  BY <1>1 DEF CallTop, Frames
<1>9. Skeleton(t, d)
  <2>1. 1 \in 1..Len(w.ci) /\ Len(t.ci) = 1
    BY <1>6
  <2>2. \A i \in 1..1 : t.ci[i] = w.ci[i]
    BY <1>6
  <2>3. \A j \in 1..k : t.cs[j] = w.cs[j] /\ d[j] <= 1
    BY <1>4, <1>6
  <2>4. Len(t.stack) + 1 >= CallTop(w, 1)
    <3>1. \A x \in Nat : x + 1 >= x + 1
      OBVIOUS
    <3> QED  BY <1>1, <1>6, <1>8, <3>1
  <2>5. w.status \notin ErrorStatus
    BY DEF ErrorStatus
  <2>6. \A j \in (k + 1)..Len(w.cs) : d[j] >= 1
    <3> TAKE j \in (k + 1)..Len(w.cs)
    <3>1. j \in 1..Len(w.cs)
      BY <1>4
    <3>2. d[j] \in 1..Len(w.ci)
      BY <1>1, <3>1 DEF Depths
    <3> QED  BY <3>2
  <2>7. \A p \in 1..(w.ci[1].func - 1) : t.stack[p] = w.stack[p]
    BY <1>6
  <2>8. CutTo(w, d, t, 1, k)
    BY <1>4, <1>6, <2>1, <2>2, <2>3, <2>4, <2>5, <2>6, <2>7 DEF CutTo
  <2>9. 1 \in Nat
    OBVIOUS
  <2> QED  BY <1>1, <1>4, <1>6, <2>8, <2>9, SkeletonCut
<1>10. Variables(t) /\ Len(t.tbclist) = 0
  <2>1. Len(w.tbclist) \in Nat /\ Len(w.tbclist) <= MaxVars
    BY <1>1, StateType DEF Variables
  <2>2. ASSUME NEW a \in 1..Len(w.tbclist) PROVE FALSE
    <3>1. w.tbclist[a] \in Nat /\ w.tbclist[a] > 1
      BY <1>1, VariablesBelow
    <3>2. \A x \in Nat : x > 1 => x >= 2
      OBVIOUS
    <3> QED  BY <3>1, <3>2 DEF TbcFrom
  <2>3. Len(w.tbclist) = 0
    BY <2>1, <2>2
  <2>4. \A a \in 1..0 : FALSE
    OBVIOUS
  <2> QED  BY <1>6, <2>1, <2>3, <2>4 DEF Variables
<1>11. Base(t, d)
  BY <1>9, <1>10 DEF Base
<1>12. CASE status = "ok"
  <2>1. ResultOf(t, 1) /\ ~TakesResult(t.ci[1])
    BY <1>6, <1>8, BaseFrame
  <2>2. ~TbcFrom(t, t.cs[k].level)
    <3>1. \A a \in 1..0 : FALSE
      OBVIOUS
    <3> QED  BY <1>10, <3>1 DEF TbcFrom
  <2>3. t.cs[k].t = "try" /\ Len(t.ci) = 1
    BY <1>4, <1>6
  <2>4. Top(t, d)
    BY <1>4, <1>6, <2>1, <2>2, <2>3 DEF Top
  <2> QED  BY <1>1, <1>7, <1>11, <1>12, <2>4 DEF CInv
<1>13. CASE status # "ok"
  <2>1. t.cs[Len(t.cs)].t # "reset" /\ Len(t.cs) > 0
    BY <1>4, <1>6
  <2>2. CInv(throw(t, status))
    BY <1>6, <1>11, <1>13, <2>1, Throw
  <2> QED  BY <1>7, <1>13, <2>2
<1> QED  BY <1>12, <1>13

(* The rest of lauE_resetthread keeps the invariant. *)
LEMMA ResetDone ==
  ASSUME NEW s, NEW d, NEW q, NEW status, ResetEnds(s, d, q, status)
  PROVE  CInv(resetdone(s, status))
<1> DEFINE t == IF status = "ok" THEN SetTop(s, 2) ELSE seterrorobj(s, status, 2)
           w == PopC(t)
           r == q - 1
           ret == IF status = "ok" THEN <<"ok">> ELSE <<status, Last(t.stack)>>
           v == [w EXCEPT !.ret = ret]
<1>1. /\ Base(s, d) /\ s.status = "ok" /\ s \in State /\ q \in Nat /\ q > 0 /\ q = Len(s.cs)
         /\ s.cs[q].t = "reset"
      /\ Len(s.ci) = 1 /\ d[q] = 1 /\ ~TbcFrom(s, 2) /\ s.nc < MaxCcalls /\ s.nny <= s.nc
         /\ status \in ErrorStatus \cup {"ok"}
      /\ q \in 1..q
  BY DEF ResetEnds
<1>2. Frames(s) /\ CFunctions(s.cs) /\ s.cs \in Seq(CFunction) /\ d \in [Nat -> Nat]
        /\ s.ci[1] = BaseCI
  <2>1. 1 \in Nat /\ 1 = Len(s.ci)
    BY <1>1
  <2>2. Frames(s) /\ CFunctions(s.cs) /\ s.cs \in Seq(CFunction) /\ Skeleton(s, d)
    BY <1>1, <2>1, RunningFrame, StateType
  <2> QED  BY <2>2 DEF Skeleton, Frames
<1>3. EntryOk(s.cs, q)
  BY <1>1, <1>2 DEF CFunctions
<1>4. /\ Base(t, d) /\ t \in State /\ t.ci = s.ci /\ t.cs = s.cs /\ t.tbclist = s.tbclist
         /\ t.status = "ok"
      /\ t.nc = s.nc /\ t.nny = s.nny /\ Len(t.stack) > 0
  BY Cleans
<1>5. resetdone(s, status) = IF Last(s.cs).self THEN throwbaselevel(w, status) ELSE v
  BY DEF resetdone
<1>6. Last(s.cs) = s.cs[q]
  <2>1. s.cs # <<>>
    BY <1>1
  <2> QED  BY <1>1, <1>2, <2>1, FrontLast
<1> HIDE DEF t
<1>7. Popped(t, w)
  <2>1. t.cs # <<>>
    BY <1>1, <1>4
  <2> QED  BY <1>4, <2>1, PopCIs
<1> HIDE DEF w
<1>8. Base(w, d)
  <2>1. t.cs[q].t # "cfn" /\ ~Try(t.cs[q], {"closep"}) /\ q = Len(t.cs)
    BY <1>1, <1>4 DEF Try
  <2> QED  BY <1>1, <1>4, <1>7, <2>1, PopEntry
<1>9. /\ w \in State /\ w.ci = s.ci /\ w.stack = t.stack /\ w.tbclist = s.tbclist /\ w.status = "ok"
         /\ w.nc = s.nc /\ w.nny = s.nny
      /\ Len(w.cs) = r /\ r \in Nat /\ \A j \in 1..r : w.cs[j] = s.cs[j]
  <2>1. Len(t.cs) = q
    BY <1>1, <1>4
  <2>2. Len(w.cs) = r
    BY <1>7, <2>1 DEF Popped
  <2>3. r \in Nat
    BY <1>1
  <2> HIDE DEF r
  <2> QED  BY <1>4, <1>7, <2>2, <2>3 DEF Popped, SameCounts
<1>10. CASE s.cs[q].self
  <2>1. q # 1
    BY <1>1, <1>3, <1>10 DEF EntryOk, Try
  <2>2. q > 1
    <3>1. \A x \in Nat : x > 0 /\ x # 1 => x > 1
      OBVIOUS
    <3> QED  BY <1>1, <2>1, <3>1
  <2>3. r > 0 /\ r + 1 = q /\ r \in 1..r /\ r \in 1..(q - 1) /\ r = q - 1
    <3>1. r = q - 1
      OBVIOUS
    <3> HIDE DEF r
    <3> QED  BY <1>1, <2>2, <3>1, LessOne
  <2> HIDE DEF r
  <2>4. CallsNext(s.cs[r], s.cs[q])
    BY <1>1, <1>2, <2>3 DEF CFunctions
  <2>5. s.cs[r].t = "try"
    BY <1>1, <2>4 DEF CallsNext, Try, Closing
  <2>6. w.cs[r].t = "try" /\ ~TbcFrom(w, 2) /\ Len(w.ci) = 1
    BY <1>1, <1>9, <2>3, <2>5 DEF TbcFrom
  <2>7. CInv(throwbaselevel(w, status))
    BY <1>1, <1>8, <1>9, <2>3, <2>6, BackToFirst
  <2> QED  BY <1>5, <1>6, <1>10, <2>7
<1>11. CASE ~s.cs[q].self
  <2>1. q = 1
    BY <1>1, <1>3, <1>11 DEF EntryOk
  <2>2. Len(w.cs) = 0
    BY <1>9, <2>1
  <2>3. ret \in Seq(Status \cup StackValue)
    <3>1. Last(t.stack) \in StackValue
      <4>1. t.stack \in Seq(StackValue) /\ t.stack # <<>>
        BY <1>4, StateType
      <4> QED  BY <4>1, FrontLast
    <3>2. status \in Status /\ "ok" \in Status
      BY <1>1 DEF Status
    <3>3. <<"ok">> \in Seq(Status \cup StackValue)
            /\ <<status, Last(t.stack)>> \in Seq(Status \cup StackValue)
      BY <3>1, <3>2
    <3> QED  BY <3>3
  <2> HIDE DEF ret
  <2>4. v \in State /\ v.ci = w.ci /\ v.stack = w.stack /\ v.cs = w.cs /\ v.tbclist = w.tbclist
          /\ v.status = "ok" /\ v.nc = w.nc
        /\ v.nny = w.nny
    BY <1>9, <2>3 DEF State
  <2> HIDE DEF v
  <2>5. Base(v, d)
    <3>1. Len(v.stack) >= Len(w.stack)
      <4>1. Len(w.stack) \in Nat
        BY <1>9, StateType
      <4>2. \A x \in Nat : x >= x
        OBVIOUS
      <4> QED  BY <2>4, <4>1, <4>2
    <3> QED  BY <1>8, <1>9, <2>4, <3>1, Grow
  <2>6. ResultOf(v, 1)
    BY <1>2, <1>9, <2>4, BaseFrame
  <2>7. Top(v, d)
    <3>1. Len(v.cs) = 0 /\ Len(v.ci) = 1 /\ v.status = "ok" /\ v.nc < MaxCcalls /\ v.nny <= v.nc
      BY <1>1, <1>9, <2>2, <2>4
    <3>2. ~(0 > 0)
      OBVIOUS
    <3> QED  BY <2>6, <3>1, <3>2 DEF Top
  <2>8. CInv(v)
    BY <1>2, <2>5, <2>7 DEF CInv
  <2> QED  BY <1>5, <1>6, <1>11, <2>8
<1> QED  BY <1>10, <1>11

(* The return of lauD_rawrunprotected keeps the invariant. *)
LEMMA TryReturnsStep ==
  ASSUME CInv(L), TryReturns
  PROVE  CInv(L')
<1> DEFINE m == Len(L.cs)  n == Len(L.ci)  try == L.cs[m]  q == m - 1
           s == Unprotect(L, m)
<1>1. L.cs # <<>>
  BY DEF TryReturns, Control
<1>2. PICK d \in [Nat -> Nat] : Top(L, d) /\ InControl(L, d, m, n)
  BY <1>1, Controls
<1>3. try.t = "try" /\ Last(L.cs) = try
  BY <1>2 DEF TryReturns, InControl
<1>4. L' = CASE try.by \in {"resume", "recover"} -> [s EXCEPT !.ret = <<"ok">>]
             [] try.by = "pcall" -> At(s, "run")
             [] try.by = "closep"
             /\ Control(s) = "cfn" -> At(seterrorobj(s, try.status, try.level), "run")
             [] try.by = "closep" /\ Control(s) = "reset" -> resetdone(s, try.status)
  BY <1>3 DEF TryReturns
<1>5. /\ m \in Nat /\ m > 0 /\ n \in Nat /\ Base(L, d) /\ d[m] = n /\ n > 0 /\ m = Len(L.cs)
         /\ n = Len(L.ci)
      /\ L \in State /\ m \in 1..m
  BY <1>2, <1>3 DEF InControl
<1>6. Try(try, {"closep"}) => ~TbcFrom(L, try.level)
  BY <1>2, <1>5 DEF Top
<1>7. Untried(L, s, d, q, n)
  BY <1>2, <1>3, <1>6, Untries
<1>8. q = m - 1
  OBVIOUS
<1>9. \A j \in 1..q : s.cs[j] = L.cs[j]
  <2>1. BackTo(L, s, m)
    BY <1>3, <1>5, UnprotectIs
  <2> QED  BY <2>1 DEF BackTo
<1> HIDE DEF s, q
<1>10. /\ Base(s, d) /\ s.status = "ok" /\ s \in State /\ q \in Nat /\ q = Len(s.cs)
          /\ n = Len(s.ci)
       /\ s.nc < MaxCcalls /\ s.nny <= s.nc /\ Counts(s) /\ s.ci = L.ci /\ s.stack = L.stack
          /\ s.tbclist = L.tbclist
  BY <1>7 DEF Untried
<1>11. /\ Depths(L, d) /\ Frames(L) /\ CFunctions(L.cs) /\ Len(L.stack) \in Nat /\ Len(L.stack) > 0
          /\ L.ci[n] \in CallInfo
       /\ CallTop(L, n) = Len(L.stack) + 1 /\ L.ci[1] = BaseCI
  BY <1>5, RunningFrame DEF Frames
<1>12. OnFrame(L, try, n) /\ EntryOk(L.cs, m) /\ try \in TryC
  <2>1. try \in CFunction
    BY <1>5, StateType
  <2> QED  BY <1>3, <1>5, <1>11, <2>1, EntryType DEF Depths, CFunctions
<1> HIDE DEF m, n
<1>13. CASE try.by \in Unprotected
  <2>1. Try(try, Unprotected)
    BY <1>3, <1>13 DEF Try
  <2>2. m = 1 /\ n = 1
    BY <1>12, <2>1 DEF EntryOk, OnFrame
  <2>3. q = 0
    BY <1>8, <2>2
  <2> DEFINE v == [s EXCEPT !.ret = <<"ok">>]
  <2>4. L' = v
    BY <1>4, <1>13 DEF Unprotected
  <2>5. <<"ok">> \in Seq(Status \cup StackValue)
    BY DEF Status
  <2>6. v \in State /\ v.ci = s.ci /\ v.stack = s.stack /\ v.cs = s.cs /\ v.tbclist = s.tbclist
          /\ v.status = "ok" /\ v.nc = s.nc
        /\ v.nny = s.nny
    BY <1>10, <2>5 DEF State
  <2> HIDE DEF v
  <2>7. Base(v, d)
    <3>1. Len(v.stack) >= Len(s.stack)
      <4>1. \A x \in Nat : x >= x
        OBVIOUS
      <4> QED  BY <1>10, <1>11, <2>6, <4>1
    <3> QED  BY <1>10, <2>6, <3>1, Grow
  <2>8. ResultOf(v, 1)
    BY <1>10, <1>11, <2>6, BaseFrame
  <2>9. Top(v, d)
    <3>1. Len(v.cs) = 0 /\ Len(v.ci) = 1 /\ v.status = "ok" /\ v.nc < MaxCcalls /\ v.nny <= v.nc
      BY <1>10, <2>2, <2>3, <2>6
    <3>2. ~(0 > 0)
      OBVIOUS
    <3> QED  BY <2>8, <3>1, <3>2 DEF Top
  <2> QED  BY <2>4, <2>7, <2>9 DEF CInv
<1>14. CASE try.by \in Protected
  <2>1. Try(try, Protected)
    BY <1>3, <1>14 DEF Try
  <2>2. try.ci = n /\ L.ci[n].kind = "C" /\ ~L.ci[n].ypcall /\ L.ci[n].func < try.level
          /\ try.level <= Len(L.stack) + 1
    BY <1>11, <1>12, <2>1 DEF OnFrame
  <2>3. m # 1
    <3>1. ~Try(try, Unprotected) /\ try.t # "reset"
      BY <1>3, <1>14 DEF Try, Unprotected, Protected
    <3> HIDE DEF try
    <3>2. try = L.cs[m]
      BY DEF try
    <3> QED  BY <1>12, <3>1, <3>2 DEF EntryOk
  <2>4. m > 1
    <3>1. \A x \in Nat : x > 0 /\ x # 1 => x > 1
      OBVIOUS
    <3> QED  BY <1>5, <2>3, <3>1
  <2>5. q > 0 /\ q + 1 = m /\ q \in 1..q /\ q \in 1..(m - 1)
    BY <1>5, <1>8, <2>4, LessOne
  <2>6. CallsNext(L.cs[q], try) /\ Deeper(L, d, q)
    BY <1>5, <1>11, <2>5 DEF CFunctions, Depths
  <2>7. s.cs[q] = L.cs[q]
    BY <1>9, <2>5
  <2>8. Control(s) = s.cs[q].t
    <3>1. s.cs \in Seq(CFunction) /\ s.cs # <<>>
      <4>1. s.cs = <<>> => Len(s.cs) = 0
        OBVIOUS
      <4> QED  BY <1>10, <2>5, <4>1, StateType
    <3> QED  BY <1>10, <3>1, FrontLast DEF Control
  <2>9. \/ s.cs[q].t = "cfn"
        \/ try.by = "closep" /\ s.cs[q].t = "reset" /\ try.level = 2
    BY <1>3, <1>14, <2>6, <2>7 DEF CallsNext, Try, Closing, Protected
  <2>10. d[q] = n
    <3>1. L.cs[q].t \notin {"ccall", "unroll", "exec"}
      BY <2>7, <2>9
    <3> QED  BY <1>5, <2>5, <2>6, <3>1 DEF Deeper
  <2>11. CASE try.by = "pcall"
    <3>1. s.cs[q].t = "cfn"
      BY <2>9, <2>11
    <3>2. CInv(At(s, "run"))
      BY <1>5, <1>10, <2>2, <2>5, <2>10, <3>1, AtC
    <3>3. try.by \notin {"resume", "recover"}
      BY <2>11
    <3> QED  BY <1>4, <2>11, <3>2, <3>3
  <2>12. CASE try.by = "closep"
    <3>1. ~TbcFrom(s, try.level)
      BY <1>3, <1>6, <1>10, <2>12 DEF Try, TbcFrom
    <3>2. try.status \in ErrorStatus \cup {"ok"} /\ try.level \in Nat
      BY <1>12 DEF TryC
    <3>3. CASE s.cs[q].t = "cfn"
      <4> DEFINE t == seterrorobj(s, try.status, try.level)
      <4>1. try.level \in 1..(Len(s.stack) + 1)
        <5>1. L.ci[n].func \in Nat
          BY <1>11, FrameType
        <5>2. \A x, y, z \in Nat : x < y /\ y <= z + 1 => y \in 1..(z + 1)
          OBVIOUS
        <5> QED  BY <1>10, <1>11, <2>2, <3>2, <5>1, <5>2
      <4>2. Erred(s, t, try.level)
        BY <1>10, <1>11, <4>1, SetErrorIs
      <4> HIDE DEF t
      <4>3. /\ t \in State /\ t.ci = s.ci /\ t.cs = s.cs /\ t.tbclist = s.tbclist
               /\ t.status = s.status /\ t.nc = s.nc
            /\ t.nny = s.nny /\ try.level <= Len(t.stack) + 1
               /\ \A p \in 1..(try.level - 1) : t.stack[p] = s.stack[p]
        <5>1. \A x \in Nat : x <= x + 1
          OBVIOUS
        <5> QED  BY <3>2, <4>2, <5>1 DEF Erred, SameCounts
      <4>8. s.ci[n].pc # "top"
        <5>1. Beneath(L, L.cs[q], L.cs[q + 1], d[q])
          BY <2>6 DEF Deeper
        <5>2. L.cs[q].t = "cfn" /\ L.cs[q + 1].t # "close" /\ d[q] = n
          BY <1>3, <2>5, <2>7, <2>10, <3>3
        <5> QED  BY <1>10, <5>1, <5>2 DEF Beneath
      <4>4. Base(t, d)
        BY <1>5, <1>10, <2>2, <2>5, <2>10, <3>1, <3>2, <3>3, <4>3, <4>8, TrimsC
      <4>5. Counts(t)
        BY <1>10, <4>3 DEF Counts
      <4>6. CInv(At(t, "run"))
        <5>1. t.status = "ok" /\ q = Len(t.cs) /\ t.cs[q].t = "cfn" /\ n = Len(t.ci)
                /\ t.nc < MaxCcalls /\ t.nny <= t.nc
              /\ ~t.ci[n].ypcall
          BY <1>10, <2>2, <3>3, <4>3
        <5> QED  BY <1>5, <1>10, <2>5, <2>10, <4>4, <4>5, <5>1, AtC
      <4>7. L' = At(t, "run")
        <5>1. try.by \notin {"resume", "recover"} /\ try.by # "pcall"
          BY <2>12
        <5> QED  BY <1>4, <2>8, <2>12, <3>3, <5>1 DEF t
      <4> QED  BY <4>6, <4>7
    <3>4. CASE s.cs[q].t # "cfn"
      <4>1. s.cs[q].t = "reset" /\ try.level = 2
        BY <2>9, <3>4
      <4>2. n = 1
        <5>1. OnFrame(L, L.cs[q], d[q])
          <6>1. q \in 1..Len(L.cs)
            BY <1>5, <2>5
          <6> QED  BY <1>11, <6>1 DEF Depths
        <5> QED  BY <2>7, <2>10, <4>1, <5>1 DEF OnFrame
      <4>3. ResetEnds(s, d, q, try.status)
        BY <1>10, <2>5, <2>10, <3>1, <3>2, <4>1, <4>2 DEF ResetEnds
      <4>4. CInv(resetdone(s, try.status))
        BY <4>3, ResetDone
      <4>5. L' = resetdone(s, try.status)
        <5>1. try.by \notin {"resume", "recover"} /\ try.by # "pcall" /\ Control(s) = "reset"
          BY <2>8, <2>12, <4>1
        <5> QED  BY <1>4, <2>12, <5>1
      <4> QED  BY <4>4, <4>5
    <3> QED  BY <3>3, <3>4
  <2> QED  BY <1>14, <2>11, <2>12 DEF Protected
<1> QED  BY <1>12, <1>13, <1>14 DEF TryC, Unprotected, Protected
=============================================================================
