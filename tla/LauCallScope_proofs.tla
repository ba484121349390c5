------------------------ MODULE LauCallScope_proofs -------------------------
(***************************************************************************)
(* LauCall implements LauScope: each of its steps is a step of LauScope, or *)
(* changes nothing that it sees.  A coroutine does not close itself while  *)
(* the host closes it (~NestedClose): its frames then have at most one     *)
(* handler each.                                                           *)
(***************************************************************************)
EXTENDS LauCallScope_lemmas

-----------------------------------------------------------------------------
(* Returns: a function that has variables to close leaves them to a loop, one that
   has none returns. *)

(* The activation on top starts to leave, or leaves. *)
LeaveMeant(s, t, n) ==
  AlterMeant(s, t, n, "leave", ActivationOf(s, n).first) \/ ReturnMeant(s, t, n)

(* A function that returns closes its variables first. *)
LEMMA LeaveLoop ==
  ASSUME NEW s, NEW d, NEW n, Resting(s, d, n), NEW t, NEW g, Alters(s, t, n, g),
         g.clsret \/ g.pc = "return", g.pc \notin {"close", "top"}, ~g.ypcall
  PROVE  LeaveMeant(s, t, n)
<1>1. Base(s, d) /\ n = Len(s.ci) /\ n \in Nat /\ Alive(s) /\ n > 1
  BY DEF Resting
<1>2. t.ci[n] = g /\ SameTries(s, t) /\ Handlers(s, "closep", n) = {} /\ g.func = s.ci[n].func
  BY DEF Alters, Resting, Protected
<1>3. Handlers(t, "closep", n) = {}
  <2>1. n > 0 /\ "closep" \in Protected
    BY <1>1 DEF Protected
  <2> QED  BY <1>1, <1>2, <2>1, TriesKept
<1>4. Unwinding(t, n) = NoUnwinding
  BY <1>2, <1>3, NotUnwinding
<1> DEFINE ph == Phase(g, NoUnwinding)
<1>5. ph = "leave"
  BY DEF Phase
<1>6. Keep(t, n, ph, NoUnwinding) = ActivationOf(s, n).first
  <2>1. Older(t, s.ci[n].func) = Older(s, s.ci[n].func)
    BY <1>1, AltersUnder
  <2>2. Keep(t, n, "leave", NoUnwinding) = Older(t, t.ci[n].func)
    BY DEF Keep
  <2>3. ActivationOf(s, n).first = Older(s, s.ci[n].func)
    BY ActFields
  <2> QED  BY <1>2, <1>5, <2>1, <2>2, <2>3
<1>7. AlterMeant(s, t, n, ph, Keep(t, n, ph, NoUnwinding))
  <2> HIDE DEF ph
  <2>1. ph = Phase(g, NoUnwinding)
    BY DEF ph
  <2> QED  BY <1>1, <1>4, <2>1, AlterMeans
<1> QED  BY <1>5, <1>6, <1>7 DEF LeaveMeant

(* lauD_poscall, of a function that was running or suspended in state s *)
LEMMA PoscallMeans ==
  ASSUME NEW s, NEW d, NEW n, Resting(s, d, n), s.ci[n].kind = "C", ~s.ci[n].ypcall,
         NEW u, Grew(s, u), NEW c, NEW q, NEW nres, MayReturn(u, c, q, n, nres),
         NEW r, JustUnder(n, r), NEW f, f = s.ci[r], MayGoOn(u, q, f)
  PROVE  LeaveMeant(s, poscall(u, nres), n)
<1> DEFINE g == [s.ci[n] EXCEPT !.u2 = nres, !.clsret = TRUE]
           e == [t |-> "close", level |-> s.ci[n].func, status |-> "ktop", yy |-> TRUE,
                 then |-> "poscall"]
<1>1. Base(s, d) /\ n = Len(s.ci) /\ n \in Nat /\ Alive(s) /\ n > 1 /\ s.ci[n] \in CallInfo
      /\ s.ci[n].pc \in {"run", "call", "index", "add"}
  BY DEF Resting, Idle
<1>2. u \in State /\ u.ci = s.ci /\ u.tbclist = s.tbclist
  BY DEF Grew
<1>3. Last(u.ci) = s.ci[n]
  <2>1. s.ci \in Seq(CallInfo) /\ s.ci # <<>>
    BY <1>1, <1>2, StateType
  <2> QED  BY <1>1, <1>2, <2>1, FrontLast
<1>4. CASE ~s.ci[n].tbc
  <2>1. ~TbcFrom(u, u.ci[n].func)
    <3>1. ~u.ci[n].ypcall /\ u.ci[n].kind = "C" /\ ~u.ci[n].tbc
      BY <1>2, <1>4
    <3> QED  BY <3>1, NoneMarked
  <2>2. ~TbcFrom(s, s.ci[n].func)
    BY <1>2, <2>1 DEF TbcFrom
  <2> DEFINE t == moveresults(u, nres)
  <2>3. poscall(u, nres) = t
    BY <1>3, <1>4 DEF poscall
  <2>4. t = moveresults(u, nres)
    OBVIOUS
  <2> HIDE DEF t
  <2>5. ReturnMeant(s, t, n)
    <3>1. Base(s, d)
      BY <1>1
    <3>2. Alive(s)
      BY <1>1
    <3>3. n = Len(s.ci)
      BY <1>1
    <3>4. Grew(s, u)
      OBVIOUS
    <3>5. MayReturn(u, c, q, n, nres)
      OBVIOUS
    <3>6. JustUnder(n, r)
      OBVIOUS
    <3>7. f = s.ci[r]
      OBVIOUS
    <3>8. MayGoOn(u, q, f)
      OBVIOUS
    <3> QED  BY ONLY <2>2, <2>4, <3>1, <3>2, <3>3, <3>4, <3>5, <3>6, <3>7, <3>8, ReturnMeans
  <2> QED  BY <2>3, <2>5 DEF LeaveMeant
<1>5. CASE s.ci[n].tbc
  <2>1. poscall(u, nres) = PushC(SetCI(u, g), e)
    BY <1>3, <1>5 DEF poscall, lauF_close
  <2>2. nres \in Nat /\ s.ci[n].func \in Nat
    <3>1. nres \in {0, 1}
      BY DEF MayReturn
    <3> QED  BY <1>1, <3>1, FrameType
  <2>3. /\ g \in CallInfo /\ g.func = s.ci[n].func /\ g.args = s.ci[n].args /\ g.clsret
        /\ g.pc = s.ci[n].pc /\ g.ypcall = s.ci[n].ypcall
    BY <1>1, <2>2 DEF CallInfo
  <2>4. e \in CloseC
    BY <2>2 DEF CloseC
  <2> DEFINE t == PushC(SetCI(u, g), e)
  <2>5. t = PushC(SetCI(u, g), e)
    OBVIOUS
  <2> HIDE DEF g, e, t
  <2>6. Alters(s, t, n, g)
    <3>1. Base(s, d)
      BY <1>1
    <3>2. n = Len(s.ci)
      BY <1>1
    <3>3. Grew(s, u)
      OBVIOUS
    <3> QED  BY ONLY <2>3, <2>4, <2>5, <3>1, <3>2, <3>3, StartsLoop
  <2>7. g.pc \notin {"close", "top"} /\ ~g.ypcall
    BY <1>1, <2>3
  <2>8. Resting(s, d, n)
    OBVIOUS
  <2>9. LeaveMeant(s, t, n)
    BY ONLY <2>3, <2>6, <2>7, <2>8, LeaveLoop
  <2> QED  BY <2>1, <2>9 DEF t
<1> QED  BY <1>4, <1>5

(* What has been put on the stack, and C functions that have returned to others,
   leave the meaning of a state alone. *)
LEMMA GrewStack ==
  ASSUME NEW s, s \in State, Alive(s), NEW v \in Seq(StackValue), NEW u, u = PushStack(s, v)
  PROVE  Grew(s, u) /\ Grown(s, u, v)
<1>1. Grown(s, u, v)
  BY PushStackIs
<1>2. /\ u \in State /\ u.ci = s.ci /\ u.cs = s.cs /\ u.tbclist = s.tbclist /\ u.status = s.status
      /\ Len(u.stack) = Len(s.stack) + Len(v) /\ Len(v) \in Nat
      /\ \A p \in 1..Len(s.stack) : u.stack[p] = s.stack[p]
  BY <1>1 DEF Grown, SameCounts
<1>3. Len(s.stack) <= Len(u.stack)
  <2>1. Len(s.stack) \in Nat
    BY StateType
  <2> DEFINE x == Len(s.stack)
             y == Len(u.stack)
             z == Len(v)
  <2>2. x \in Nat /\ z \in Nat /\ y = x + z
    BY <1>2, <2>1
  <2> HIDE DEF x, y, z
  <2>3. x <= y
    BY ONLY <2>2
  <2> QED  BY <2>3 DEF x, y
<1>4. SameTries(s, u)
  BY <1>2 DEF SameTries, SameHandlers, Handlers
<1> QED  BY <1>1, <1>2, <1>3, <1>4 DEF Grew, Alive

(* A C function that catches no error may return. *)
LEMMA GrewPop ==
  ASSUME NEW s, NEW u, Grew(s, u), NEW w, Popped(u, w), NEW m, m = Len(u.cs), u.cs[m].t # "try"
  PROVE  Grew(s, w)
<1> DEFINE k == Len(w.cs)
<1>1. u \in State /\ u.ci = s.ci /\ u.tbclist = s.tbclist /\ Alive(u) /\ SameTries(s, u)
      /\ Len(s.stack) <= Len(u.stack) /\ \A p \in 1..Len(s.stack) : u.stack[p] = s.stack[p]
  BY DEF Grew
<1>2. /\ w \in State /\ w.ci = u.ci /\ w.stack = u.stack /\ w.tbclist = u.tbclist
      /\ w.status = u.status /\ Len(u.cs) > 0 /\ k = Len(u.cs) - 1 /\ \A j \in 1..k : w.cs[j] = u.cs[j]
  BY DEF Popped, SameCounts
<1>3. Len(u.cs) \in Nat /\ Len(w.cs) = k
  BY <1>1, StateType
<1> HIDE DEF k
<1>4. k \in Nat /\ k <= Len(u.cs) /\ k <= Len(w.cs) /\ Len(w.cs) \in Nat
      /\ (\A j \in (k + 1)..Len(w.cs) : FALSE) /\ \A j \in (k + 1)..Len(u.cs) : j = Len(u.cs)
  BY ONLY <1>2, <1>3
<1>5. SameTries(u, w)
  <2>1. \A j \in (k + 1)..Len(u.cs) : ~Try(u.cs[j], Protected)
    BY <1>4 DEF Try
  <2>2. \A j \in (k + 1)..Len(w.cs) : ~Try(w.cs[j], Protected)
    BY <1>4
  <2> QED  BY ONLY <1>2, <1>3, <1>4, <2>1, <2>2, KeepsTries
<1>6. SameTries(s, w)
  BY <1>1, <1>5, TriesThrough
<1> QED  BY <1>1, <1>2, <1>6 DEF Grew, Alive

(* The frame under a function that runs. *)
LEMMA RunsUnder ==
  ASSUME NEW s, NEW d, NEW n, Resting(s, d, n)
  PROVE  \E r \in Nat : JustUnder(n, r)
<1>1. n \in Nat /\ n > 1
  BY DEF Resting
<1>2. n - 1 \in Nat
  BY ONLY <1>1
<1> QED  BY <1>1, <1>2 DEF JustUnder

(* Room for results, as many as they are. *)
LEMMA ResultsFit ==
  ASSUME NEW s, NEW u, NEW v, Grown(s, u, v), NEW nres \in {0, 1}, Len(v) = nres,
         NEW p \in Nat, p <= Len(s.stack), Len(s.stack) \in Nat
  PROVE  p + nres <= Len(u.stack)
<1>1. Len(u.stack) = Len(s.stack) + nres
  BY DEF Grown
<1>2. \A x, y \in Nat, z \in {0, 1} : x <= y => x + z <= y + z
  OBVIOUS
<1> QED  BY <1>1, <1>2

(* The return of a C function means that the activation on top leaves. *)
LEMMA CReturnMeans ==
  ASSUME CInv(L), ~NestedClose, NEW nres \in {0, 1}, CReturn(nres)
  PROVE  LeaveMeant(L, L', Len(L.ci))
<1> DEFINE m == Len(L.cs)
           n == Len(L.ci)
           v == [i \in 1..nres |-> "res"]
           s == PushStack(L, v)
           u == PopC(s)
<1>1. PICK d \in [Nat -> Nat] : /\ Running(L, d, m, n) /\ L.cs[m].t = "cfn"
                                /\ CI = L.ci[n] /\ CI.pc = "run" /\ ~CI.ypcall
  BY InCRuns DEF CReturn
<1>2. L' = poscall(u, nres) /\ n = Len(L.ci)
  BY DEF CReturn
<1>3. v \in Seq(StackValue) /\ Len(v) = nres
  BY ResultValues
<1>4. s = PushStack(L, v) /\ u = PopC(s)
  OBVIOUS
<1> HIDE DEF m, n, v, u
<1>5. Runner(L, d, m, n)
  BY <1>1, RunnerIs
<1>6. Resting(L, d, n) /\ L \in State /\ Alive(L) /\ ~L.ci[n].clsret /\ L.ci[n].pc = "run"
      /\ m \in Nat /\ m = Len(L.cs) /\ m > 0 /\ n \in Nat /\ n = Len(L.ci)
  BY <1>5, RunnerRests DEF Runner
<1>7. L.ci[n].kind = "C" /\ L.ci[n].func \in Nat /\ L.ci[n].func <= Len(L.stack) /\ Len(L.stack) \in Nat
  BY <1>1 DEF Running, InControl
<1> HIDE DEF s
<1>8. Running(s, d, m, n)
  <2>1. ~Returning(L.ci[n])
    BY <1>6 DEF Returning
  <2> QED  BY <1>1, <1>3, <1>4, <2>1, RunningGrows
<1>9. Grew(L, s) /\ Grown(L, s, v)
  BY <1>3, <1>4, <1>6, GrewStack
<1>10. s.ci = L.ci /\ s.cs = L.cs
  BY <1>9 DEF Grown
<1>11. s.ci[n].func + nres <= Len(s.stack)
  BY <1>3, <1>7, <1>9, <1>10, ResultsFit
<1>12. /\ Popped(s, u) /\ MayReturn(u, d, m - 1, n, nres)
       /\ u.cs[m - 1].t = "exec" => u.ci[n - 1].pc \notin {"close", "return"}
  <2>1. /\ Base(s, d) /\ s.status = "ok" /\ m = Len(s.cs) /\ n = Len(s.ci) /\ d[m] = n
        /\ s.nc < MaxCcalls /\ s.nny <= s.nc /\ Counts(s) /\ s.cs[m].t = "cfn"
    BY <1>1, <1>8, <1>10 DEF Running, InControl
  <2> QED  BY <1>4, <1>6, <1>11, <2>1, Leaves
<1>13. Grew(L, u)
  <2>1. s.cs[m].t # "try" /\ m = Len(s.cs)
    BY <1>1, <1>6, <1>10
  <2> QED  BY <1>9, <1>12, <2>1, GrewPop
<1>14. PICK r \in Nat : JustUnder(n, r)
  BY <1>6, RunsUnder
<1> DEFINE f == L.ci[r]
           q == m - 1
<1>15. MayGoOn(u, q, f)
  <2>1. r = n - 1 /\ u.ci = L.ci
    BY <1>13, <1>14 DEF JustUnder, Grew
  <2> QED  BY <1>12, <2>1 DEF MayGoOn
<1>16. MayReturn(u, d, q, n, nres) /\ f = L.ci[r]
  BY <1>12
<1>17. ~L.ci[n].ypcall
  BY <1>1
<1> HIDE DEF f, q
<1>18. LeaveMeant(L, poscall(u, nres), n)
  BY ONLY <1>6, <1>7, <1>13, <1>14, <1>15, <1>16, <1>17, PoscallMeans
<1> QED  BY <1>2, <1>18 DEF n

(* So does the return of a Lau function. *)
LEMMA OpReturnMeans ==
  ASSUME CInv(L), ~NestedClose, NEW nres \in {0, 1}, OpReturn(nres)
  PROVE  LeaveMeant(L, L', Len(L.ci))
<1> DEFINE m == Len(L.cs)
           n == Len(L.ci)
           v == [i \in 1..nres |-> "res"]
           s == PushStack(L, v)
           g == [CI EXCEPT !.pc = "return", !.u2 = nres]
           e == [t |-> "close", level |-> CI.func + 1, status |-> "ktop", yy |-> TRUE,
                 then |-> "return"]
<1>1. PICK d \in [Nat -> Nat] : /\ Running(L, d, m, n) /\ L.cs[m].t = "exec"
                                /\ CI = L.ci[n] /\ CI.pc = "run" /\ ~CI.ypcall
  BY InLauRuns DEF OpReturn
<1>2. L' = (IF TbcFrom(L, CI.func) THEN PushC(SetCI(s, g), e) ELSE leaveframe(s, nres))
      /\ n = Len(L.ci) /\ m = Len(L.cs)
  BY DEF OpReturn, lauF_close
<1>3. v \in Seq(StackValue) /\ Len(v) = nres
  BY ResultValues
<1>4. s = PushStack(L, v)
  OBVIOUS
<1> HIDE DEF m, n, v
<1>5. Runner(L, d, m, n)
  BY <1>1, RunnerIs
<1>6. Resting(L, d, n) /\ L \in State /\ Alive(L) /\ ~L.ci[n].clsret /\ L.ci[n].pc = "run"
      /\ m \in Nat /\ m = Len(L.cs) /\ m > 0 /\ n \in Nat /\ n = Len(L.ci) /\ Base(L, d)
      /\ CI \in CallInfo
  BY <1>1, <1>5, RunnerRests DEF Runner
<1>7. L.ci[n].func \in Nat /\ L.ci[n].func <= Len(L.stack) /\ Len(L.stack) \in Nat
  BY <1>1 DEF Running, InControl
<1> HIDE DEF s
<1>8. Running(s, d, m, n)
  <2>1. ~Returning(L.ci[n])
    BY <1>6 DEF Returning
  <2> QED  BY <1>1, <1>3, <1>4, <2>1, RunningGrows
<1>9. Grew(L, s) /\ Grown(L, s, v)
  BY <1>3, <1>4, <1>6, GrewStack
<1>10. s.ci = L.ci /\ s.cs = L.cs
  BY <1>9 DEF Grown
<1>11. CASE TbcFrom(L, CI.func)
  <2>a. CI.func \in Nat
    BY <1>1, <1>7
  <2>b. CI.func + 1 \in Nat
    BY ONLY <2>a
  <2>c. nres \in Nat
    BY ONLY nres \in {0, 1}
  <2>1. nres \in Nat /\ CI.func + 1 \in Nat
    BY <2>b, <2>c
  <2>2. /\ g \in CallInfo /\ g.func = CI.func /\ g.args = CI.args /\ g.pc = "return"
        /\ g.ypcall = CI.ypcall
    BY <1>6, <2>1 DEF CallInfo
  <2>3. e \in CloseC
    BY <2>1 DEF CloseC
  <2>4. L' = PushC(SetCI(s, g), e)
    BY <1>2, <1>11
  <2> HIDE DEF g, e
  <2>5. Alters(L, L', n, g)
    <3>1. g.func = L.ci[n].func /\ g.args = L.ci[n].args /\ g \in CallInfo
      BY <1>1, <2>2
    <3> QED  BY ONLY <1>6, <1>9, <2>3, <2>4, <3>1, StartsLoop
  <2>6. g.pc \notin {"close", "top"} /\ ~g.ypcall
    BY <1>1, <2>2
  <2>7. LeaveMeant(L, L', n)
    BY ONLY <1>6, <2>2, <2>5, <2>6, LeaveLoop
  <2> QED  BY <2>7 DEF n
<1>12. CASE ~TbcFrom(L, CI.func)
  <2>1. s.ci[n].func + nres <= Len(s.stack)
    BY <1>3, <1>7, <1>9, <1>10, ResultsFit
  <2>2. /\ Base(s, d) /\ s.status = "ok" /\ m = Len(s.cs) /\ n = Len(s.ci) /\ d[m] = n
        /\ s.nc < MaxCcalls /\ s.nny <= s.nc /\ Counts(s) /\ s.cs[m].t = "exec"
    BY <1>1, <1>8, <1>10 DEF Running, InControl
  <2>3. PICK u, c, q : FrameLeft(s, u, c, q, n, nres)
    BY <1>6, <2>1, <2>2, LeavesFrame
  <2>4. MayReturn(u, c, q, n, nres) /\ leaveframe(s, nres) = moveresults(u, nres)
    BY <2>3 DEF FrameLeft
  <2>5. Grew(L, u)
    <3>1. CASE u = s
      BY <1>9, <3>1
    <3>2. CASE Popped(s, u)
      <4>1. s.cs[m].t # "try" /\ m = Len(s.cs)
        BY <2>2
      <4> QED  BY <1>9, <3>2, <4>1, GrewPop
    <3> QED  BY <2>3, <3>1, <3>2 DEF FrameLeft
  <2>6. PICK r \in Nat : JustUnder(n, r)
    BY <1>6, RunsUnder
  <2> DEFINE f == L.ci[r]
  <2>7. MayGoOn(u, q, f)
    <3>1. r = n - 1 /\ u.ci = L.ci
      BY <2>5, <2>6 DEF JustUnder, Grew
    <3>2. u.cs[q].t = "exec" => u.ci[n - 1].pc \notin {"close", "return"}
      BY <2>3 DEF FrameLeft
    <3> QED  BY <3>1, <3>2 DEF MayGoOn
  <2>8. f = L.ci[r]
    OBVIOUS
  <2>9. ~TbcFrom(L, L.ci[n].func)
    BY <1>1, <1>12
  <2>10. L' = moveresults(u, nres)
    BY <1>2, <1>12, <2>4
  <2> HIDE DEF f
  <2>11. ReturnMeant(L, L', n)
    BY ONLY <1>6, <2>4, <2>5, <2>6, <2>7, <2>8, <2>9, <2>10, ReturnMeans
  <2> QED  BY <2>11 DEF LeaveMeant, n
<1> QED  BY <1>11, <1>12

(* A frame that changes but goes on running changes no activation. *)
LEMMA TurnsSame ==
  ASSUME NEW s, NEW d, Base(s, d), Alive(s), NEW n, n = Len(s.ci), Idle(s, n),
         NEW t, NEW g, Turns(s, t, n, g), Idle(t, n)
  PROVE  Same(s, t)
<1>1. Under(s, t, n)
  BY TurnsUnder
<1>2. Len(t.ci) = n /\ t.tbclist = s.tbclist /\ Alive(t)
      /\ \A a \in 1..Len(s.tbclist) : t.stack[s.tbclist[a]] = s.stack[s.tbclist[a]]
  BY DEF Turns
<1> QED  BY <1>1, <1>2, SameMeaning

(* An idle frame that stays idle means nothing to LauScope. *)
LEMMA AltersSame ==
  ASSUME NEW s, NEW d, Base(s, d), Alive(s), NEW n, n = Len(s.ci), Idle(s, n),
         NEW t, NEW g, Alters(s, t, n, g), Idle(t, n)
  PROVE  Same(s, t)
<1>1. Turns(s, t, n, g)
  BY AltersTurns
<1> QED  BY <1>1, TurnsSame

(* A frame that keeps all its fields is one that changes, too. *)
LEMMA GrewAlters ==
  ASSUME NEW s, NEW d, Base(s, d), NEW n, n = Len(s.ci), NEW u, Grew(s, u)
  PROVE  Alters(s, u, n, s.ci[n])
<1>1. u.ci = s.ci /\ u.tbclist = s.tbclist /\ Alive(u) /\ SameTries(s, u)
  BY DEF Grew
<1>2. n \in Nat /\ n \in 1..n
  <2>1. n \in Nat
    BY BaseType
  <2> QED  BY <2>1, RunningFrame
<1>3. /\ \A p \in 1..(s.ci[n].func - 1) : u.stack[p] = s.stack[p]
      /\ \A a \in 1..Len(s.tbclist) : u.stack[s.tbclist[a]] = s.stack[s.tbclist[a]]
  BY <1>2, GrewBelow
<1> QED  BY <1>1, <1>2, <1>3 DEF Alters

(* A C function that catches no error may be called. *)
LEMMA GrewPush ==
  ASSUME NEW s, NEW u, Grew(s, u), NEW e \in CFunction, e.t # "try", NEW w, w = PushC(u, e)
  PROVE  Grew(s, w)
<1> DEFINE k == Len(u.cs)
<1>1. u \in State /\ u.ci = s.ci /\ u.tbclist = s.tbclist /\ Alive(u) /\ SameTries(s, u)
      /\ Len(s.stack) <= Len(u.stack) /\ \A p \in 1..Len(s.stack) : u.stack[p] = s.stack[p]
  BY DEF Grew
<1>2. Pushed(u, w, e)
  BY <1>1, PushCIs
<1>3. /\ w \in State /\ w.ci = u.ci /\ w.stack = u.stack /\ w.tbclist = u.tbclist
      /\ w.status = u.status /\ Len(w.cs) = k + 1 /\ w.cs[k + 1] = e /\ \A j \in 1..k : w.cs[j] = u.cs[j]
  BY <1>2 DEF Pushed, SameCounts
<1>4. k \in Nat /\ Len(u.cs) = k
  BY <1>1, StateType
<1> HIDE DEF k
<1>5. k <= Len(u.cs) /\ k <= Len(w.cs) /\ Len(w.cs) \in Nat
      /\ (\A j \in (k + 1)..Len(u.cs) : FALSE) /\ \A j \in (k + 1)..Len(w.cs) : j = k + 1
  BY ONLY <1>3, <1>4
<1>6. SameTries(u, w)
  <2>1. \A j \in (k + 1)..Len(u.cs) : ~Try(u.cs[j], Protected)
    BY <1>5
  <2>2. \A j \in (k + 1)..Len(w.cs) : ~Try(w.cs[j], Protected)
    BY <1>3, <1>5 DEF Try
  <2> QED  BY ONLY <1>3, <1>4, <1>5, <2>1, <2>2, KeepsTries
<1>7. SameTries(s, w)
  BY <1>1, <1>6, TriesThrough
<1> QED  BY <1>1, <1>3, <1>7 DEF Grew, Alive

(* A coroutine that goes on. *)
LEMMA ContinuesGrown ==
  ASSUME NEW s, NEW c, NEW d, NEW n, NEW nargs \in {0, 1}, Continuing(s, c, d, n, nargs)
  PROVE  Grew(L, s) /\ Resting(L, d, n) /\ L.ci[n].kind = "C" /\ ~L.ci[n].ypcall
         /\ L.ci[n].recst = "ok"
<1>1. /\ L.cs = <<>> /\ L.status = "yield" /\ s.status = "ok" /\ L \in State /\ s \in State
      /\ s.ci = L.ci /\ s.tbclist = L.tbclist /\ Len(s.stack) = Len(L.stack) + nargs
      /\ Len(L.stack) \in Nat /\ Base(L, d) /\ n \in Nat /\ n > 1 /\ n = Len(L.ci)
      /\ (\A p \in 1..Len(L.stack) : s.stack[p] = L.stack[p])
      /\ L.ci[n] \in CallInfo /\ L.ci[n].kind = "C" /\ ~L.ci[n].ypcall /\ L.ci[n].recst = "ok"
      /\ ~L.ci[n].clsret /\ L.ci[n].pc \notin {"top", "return", "index", "add"}
      /\ Len(s.cs) = 2 /\ s.cs[1] = ResumeEntry /\ s.cs[2] = UnrollEntry
  BY DEF Continuing
<1>2. Alive(L) /\ Alive(s) /\ Len(L.cs) = 0
  BY <1>1 DEF Alive, ErrorStatus
<1>3. Len(L.stack) <= Len(s.stack)
  <2>1. \A x \in Nat, z \in {0, 1} : x <= x + z
    OBVIOUS
  <2> QED  BY <1>1, <2>1
<1>4. SameTries(L, s)
  <2>1. \A j \in 1..2 : j = 1 \/ j = 2
    OBVIOUS
  <2>2. \A j \in 1..Len(s.cs) : ~Try(s.cs[j], Protected)
    BY <1>1, <2>1 DEF Try, ResumeEntry, UnrollEntry, Protected
  <2> DEFINE k == 0
  <2>3. k = 0 /\ k \in Nat /\ \A j \in 1..k : FALSE
    OBVIOUS
  <2> HIDE DEF k
  <2>4. Len(L.cs) \in Nat /\ Len(s.cs) \in Nat /\ k <= Len(L.cs) /\ k <= Len(s.cs)
        /\ \A j \in (k + 1)..Len(L.cs) : FALSE
    BY <1>1, <1>2, <2>3
  <2>5. \A j \in (k + 1)..Len(s.cs) : j \in 1..Len(s.cs)
    BY <2>3, <2>4
  <2>6. \A j \in (k + 1)..Len(L.cs) : ~Try(L.cs[j], Protected)
    BY <2>4
  <2>7. \A j \in (k + 1)..Len(s.cs) : ~Try(s.cs[j], Protected)
    BY <2>2, <2>5
  <2>8. \A j \in 1..k : s.cs[j] = L.cs[j]
    BY <2>3
  <2> QED  BY ONLY <2>3, <2>4, <2>6, <2>7, <2>8, KeepsTries
<1>5. Grew(L, s)
  BY <1>1, <1>2, <1>3, <1>4 DEF Grew
<1>6. \A by : Handlers(L, by, n) = {}
  BY <1>2 DEF Handlers
<1>7. Idle(L, n)
  <2>1. FrameOk(L, n) /\ n \in 1..n
    BY <1>1, RunningFrame
  <2>2. L.ci[n].pc # "close"
    BY <1>1, <2>1 DEF FrameOk
  <2>3. L.ci[n].pc \in {"run", "call", "index", "add"}
    BY <1>1, <2>2, FrameType
  <2> QED  BY <1>1, <1>6, <2>3, RunningIsIdle
<1>8. Resting(L, d, n)
  <2>1. n \in 1..n
    BY <1>1
  <2> QED  BY <1>1, <1>2, <1>6, <1>7, <2>1 DEF Resting
<1> QED  BY <1>1, <1>5, <1>8

(* To go on after a yield means nothing, or that the activation on top leaves. *)
LEMMA ContinueMeans ==
  ASSUME CInv(L), ~NestedClose, NEW nargs \in {0, 1}, Continue(nargs)
  PROVE  Same(L, L') \/ LeaveMeant(L, L', Len(L.ci))
<1> DEFINE n == Len(L.ci)
           e == [t |-> "cfn"]
<1>1. PICK s, c, d : /\ Continuing(s, c, d, n, nargs)
                     /\ L' = IF CI.k THEN PushC(s, e) ELSE poscall(s, nargs)
  BY ContinuesFrom
<1>2. e \in CFunction /\ e.t = "cfn"
  BY DEF CFunction, PlainC
<1> HIDE DEF n, e
<1>3. /\ Grew(L, s) /\ Resting(L, d, n) /\ L.ci[n].kind = "C" /\ ~L.ci[n].ypcall
      /\ L.ci[n].recst = "ok"
  BY <1>1, ContinuesGrown
<1>4. Base(L, d) /\ Alive(L) /\ n = Len(L.ci) /\ Idle(L, n) /\ n \in Nat /\ n > 1
      /\ \A by \in Protected : Handlers(L, by, n) = {}
  BY <1>3 DEF Resting
<1>5. CASE CI.k
  <2>1. L' = PushC(s, e) /\ e.t # "try"
    BY <1>1, <1>2, <1>5
  <2>2. Grew(L, L')
    BY <1>2, <1>3, <2>1, GrewPush
  <2>3. Alters(L, L', n, L.ci[n])
    BY <1>4, <2>2, GrewAlters
  <2>4. Idle(L', n)
    <3>1. L'.ci[n] = L.ci[n] /\ SameTries(L, L')
      BY <2>3 DEF Alters
    <3>2. \A by \in Protected : Handlers(L', by, n) = {}
      <4> TAKE by \in Protected
      <4>1. n > 0
        BY <1>4
      <4> QED  BY <1>4, <3>1, <4>1, TriesKept
    <3>3. ~L.ci[n].clsret /\ L.ci[n].pc \in {"run", "call", "index", "add"}
      BY <1>4 DEF Idle
    <3>4. L'.ci[n].recst = "ok" /\ ~L'.ci[n].clsret /\ L'.ci[n].pc \in {"run", "call", "index", "add"}
      BY <1>3, <3>1, <3>3
    <3> QED  BY <3>2, <3>4, RunningIsIdle
  <2> DEFINE g == L.ci[n]
  <2>5. Alters(L, L', n, g)
    BY <2>3
  <2> HIDE DEF g
  <2> QED  BY ONLY <1>4, <2>4, <2>5, AltersSame
<1>6. CASE ~CI.k
  <2>1. L' = poscall(s, nargs)
    BY <1>1, <1>6
  <2> DEFINE q == 2
  <2>2. MayReturn(s, c, q, n, nargs)
    BY <1>1, ContinueReturns
  <2>3. PICK r \in Nat : JustUnder(n, r)
    BY <1>3, RunsUnder
  <2> DEFINE f == L.ci[r]
  <2>4. MayGoOn(s, q, f)
    <3>1. s.cs[2] = UnrollEntry
      BY <1>1 DEF Continuing
    <3>2. s.cs[q].t # "exec"
      BY <3>1 DEF UnrollEntry
    <3> QED  BY <3>2 DEF MayGoOn
  <2>5. f = L.ci[r]
    OBVIOUS
  <2> HIDE DEF q, f
  <2>6. LeaveMeant(L, poscall(s, nargs), n)
    BY ONLY <1>3, <2>2, <2>3, <2>4, <2>5, PoscallMeans
  <2> QED  BY <2>1, <2>6 DEF n
<1> QED  BY <1>5, <1>6

-----------------------------------------------------------------------------
(* Steps that mean nothing to LauScope: C functions, and lau_resume's unroll, go on
   after what they called. *)

(* Nothing but the C stack moves, and it keeps its handlers. *)
Still(s, t) == Grew(s, t) /\ t.stack = s.stack

(* A step of the C stack alone means nothing to LauScope. *)
LEMMA StillSame ==
  ASSUME NEW s, NEW d, Base(s, d), Alive(s), NEW t, Still(s, t)
  PROVE  Same(s, t)
<1> DEFINE n == Len(s.ci)
           g == s.ci[n]
           u == Unwinding(s, n)
<1>1. Grew(s, t) /\ t.stack = s.stack /\ n = Len(s.ci) /\ g = s.ci[n] /\ u = Unwinding(s, n)
  BY DEF Still
<1> HIDE DEF n, g, u
<1>2. Alters(s, t, n, s.ci[n])
  BY <1>1, GrewAlters
<1>3. Alters(s, t, n, g)
  BY <1>1, <1>2
<1>4. Under(s, t, n) /\ Pending(t) = Pending(s) /\ Skeleton(s, d) /\ n \in Nat /\ n > 0
  BY ONLY <1>1, <1>3, Base(s, d), AltersUnder
<1>5. Len(t.ci) = n /\ t.ci[n] = s.ci[n] /\ t.tbclist = s.tbclist /\ Alive(t) /\ SameTries(s, t)
  BY <1>2 DEF Alters
<1>6. SameHandlers(s, t, n)
  BY <1>5 DEF SameTries
<1>7. Handled(t, n, u) = Handled(s, n, u)
  <2>1. CallTop(t, n) = CallTop(s, n)
    <3>1. t.ci = s.ci
      BY <1>1 DEF Grew
    <3> QED  BY <1>1, <3>1 DEF CallTop
  <2> QED  BY <1>1, <2>1 DEF Handled
<1>8. ActivationOf(t, n) = ActivationOf(s, n)
  BY ONLY <1>1, <1>4, <1>5, <1>6, <1>7, SameHandled
<1>9. Activations(t) = Activations(s)
  BY ONLY Alive(s), <1>1, <1>4, <1>5, <1>8, ActsStay
<1> QED  BY <1>4, <1>9 DEF Same

(* The last function of the C stack ends. *)
Shorter(s, t, q) ==
  q \in Nat /\ Len(s.cs) = q + 1 /\ Len(t.cs) = q /\ \A j \in 1..q : t.cs[j] = s.cs[j]

(* A C function that catches no error takes no handler with it when it returns. *)
LEMMA ShorterTries ==
  ASSUME NEW s, NEW t, NEW q, Shorter(s, t, q), NEW m, m = Len(s.cs), ~Try(s.cs[m], Protected)
  PROVE  SameTries(s, t)
<1>1. q \in Nat /\ Len(s.cs) = q + 1 /\ Len(t.cs) = q /\ \A j \in 1..q : t.cs[j] = s.cs[j]
  BY DEF Shorter
<1>2. /\ Len(s.cs) \in Nat /\ Len(t.cs) \in Nat /\ q <= Len(s.cs) /\ q <= Len(t.cs)
      /\ (\A j \in (q + 1)..Len(t.cs) : FALSE) /\ \A j \in (q + 1)..Len(s.cs) : j = m
  BY ONLY <1>1, m = Len(s.cs)
<1>3. \A j \in (q + 1)..Len(s.cs) : ~Try(s.cs[j], Protected)
  BY <1>2
<1>4. \A j \in (q + 1)..Len(t.cs) : ~Try(t.cs[j], Protected)
  BY <1>2
<1> QED  BY ONLY <1>1, <1>2, <1>3, <1>4, KeepsTries

(* Its return is a step of the C stack alone. *)
LEMMA ShorterGrew ==
  ASSUME NEW s, NEW t, NEW q, Shorter(s, t, q), NEW m, m = Len(s.cs), ~Try(s.cs[m], Protected),
         s \in State, t \in State, t.ci = s.ci, t.tbclist = s.tbclist, t.stack = s.stack, Alive(t)
  PROVE  Still(s, t)
<1>1. SameTries(s, t)
  BY ShorterTries
<1>2. Len(s.stack) \in Nat
  BY StateType
<1>3. Len(s.stack) <= Len(t.stack)
  <2>1. \A x \in Nat : x <= x
    OBVIOUS
  <2> QED  BY <1>2, <2>1
<1> QED  BY <1>1, <1>3 DEF Still, Grew

(* A handler that returns leaves the other frames theirs. *)
LEMMA ShorterHandlers ==
  ASSUME NEW s, NEW t, NEW q, Shorter(s, t, q), NEW m, m = Len(s.cs), NEW r, ~(s.cs[m].ci \in 1..r)
  PROVE  SameHandlers(s, t, r)
<1>1. q \in Nat /\ Len(s.cs) = q + 1 /\ Len(t.cs) = q /\ \A j \in 1..q : t.cs[j] = s.cs[j]
  BY DEF Shorter
<1>2. /\ Len(s.cs) \in Nat /\ Len(t.cs) \in Nat /\ q <= Len(s.cs) /\ q <= Len(t.cs)
      /\ (\A j \in (q + 1)..Len(t.cs) : FALSE) /\ \A j \in (q + 1)..Len(s.cs) : j = m
  BY ONLY <1>1, m = Len(s.cs)
<1>3. \A j \in (q + 1)..Len(s.cs) : Try(s.cs[j], Protected) => ~(s.cs[j].ci \in 1..r)
  BY <1>2
<1>4. \A j \in (q + 1)..Len(t.cs) : Try(t.cs[j], Protected) => ~(t.cs[j].ci \in 1..r)
  BY <1>2
<1> QED  BY ONLY <1>1, <1>2, <1>3, <1>4, HandlersCut

(* What the frame of a function that has called another may be doing. *)
LEMMA CallerIdle ==
  ASSUME NEW s, NEW d, Base(s, d), NEW n, n = Len(s.ci), Handlers(s, "closep", n) = {},
         ~s.ci[n].ypcall \/ s.ci[n].recst = "ok", ~s.ci[n].clsret,
         s.ci[n].pc \notin {"close", "return", "top"}
  PROVE  Idle(s, n)
<1>1. n \in Nat
  BY BaseType
<1>2. s.ci[n] \in CallInfo
  BY <1>1, RunningFrame
<1>3. s.ci[n].pc \in {"run", "call", "index", "add"}
  BY <1>2, FrameType
<1>4. Unwinding(s, n) = NoUnwinding
  BY NotUnwinding
<1> QED  BY <1>3, <1>4 DEF Idle

(* A C function that was not closing goes on, whatever status its call left. *)
LEMMA GoesOnIdle ==
  ASSUME NEW t, NEW n, NEW f, NEW g, GoingOn(f, g), ~f.clsret, t.ci[n] = g,
         Handlers(t, "closep", n) = {}
  PROVE  Idle(t, n)
<1>1. g.pc = "run" /\ ~g.clsret /\ g.recst = "ok"
  BY DEF GoingOn
<1>2. Unwinding(t, n) = NoUnwinding
  BY <1>1, NotUnwinding
<1> QED  BY <1>1, <1>2 DEF Idle

(* The running frame changes, and the stack from position p on. *)
Reworked(u, t, n, g, p) ==
  /\ t \in State /\ Len(t.ci) = n /\ (\A i \in 1..(n - 1) : t.ci[i] = u.ci[i]) /\ t.ci[n] = g
  /\ t.cs = u.cs /\ t.tbclist = u.tbclist /\ t.status = u.status
  /\ \A x \in 1..(p - 1) : t.stack[x] = u.stack[x]

(* A frame whose fields and whose stack above p are changed, with no variable above p. *)
LEMMA Reworks ==
  ASSUME NEW s, NEW d, Base(s, d), NEW n, n = Len(s.ci), NEW u, Grew(s, u), NEW g, NEW p \in Nat,
         s.ci[n].func < p, ~TbcFrom(s, p), NEW t, Reworked(u, t, n, g, p),
         g.func = s.ci[n].func, g.args = s.ci[n].args
  PROVE  Alters(s, t, n, g)
<1>1. u \in State /\ u.ci = s.ci /\ u.tbclist = s.tbclist /\ Alive(u) /\ SameTries(s, u)
  BY DEF Grew
<1>2. n \in Nat /\ n > 0 /\ n \in 1..n
  <2>1. n \in Nat
    BY BaseType
  <2> QED  BY <2>1, RunningFrame
<1>3. s.ci[n].func \in Nat
  BY <1>2, RunningFrame
<1>4. /\ Len(t.ci) = n /\ (\A i \in 1..(n - 1) : t.ci[i] = s.ci[i]) /\ t.ci[n] = g
      /\ t.cs = u.cs /\ t.tbclist = s.tbclist /\ t.status = u.status
      /\ \A x \in 1..(p - 1) : t.stack[x] = u.stack[x]
  BY <1>1 DEF Reworked
<1>5. SameTries(s, t)
  <2>1. SameTries(u, t)
    BY <1>4 DEF SameTries, SameHandlers, Handlers
  <2> QED  BY <1>1, <2>1, TriesThrough
<1>6. /\ \A x \in 1..(s.ci[n].func - 1) : u.stack[x] = s.stack[x]
      /\ \A a \in 1..Len(s.tbclist) : u.stack[s.tbclist[a]] = s.stack[s.tbclist[a]]
  BY <1>2, GrewBelow
<1>7. \A x \in 1..(s.ci[n].func - 1) : t.stack[x] = s.stack[x]
  <2>1. \A x \in 1..(s.ci[n].func - 1) : x \in 1..(p - 1)
    BY <1>3
  <2> QED  BY ONLY <1>4, <1>6, <2>1
<1>8. \A a \in 1..Len(s.tbclist) : t.stack[s.tbclist[a]] = s.stack[s.tbclist[a]]
  <2> TAKE a \in 1..Len(s.tbclist)
  <2>1. s.tbclist[a] \in Nat /\ s.tbclist[a] > 1
    BY MarksAt
  <2>2. ~(s.tbclist[a] >= p)
    BY DEF TbcFrom
  <2>3. s.tbclist[a] \in 1..(p - 1)
    BY ONLY <2>1, <2>2, p \in Nat
  <2> QED  BY <1>4, <1>6, <2>3
<1>9. Alive(t)
  BY <1>1, <1>4 DEF Alive
<1> QED  BY <1>4, <1>5, <1>7, <1>8, <1>9 DEF Alters

(* No variable is marked above the stack. *)
LEMMA NoneAbove ==
  ASSUME NEW s, NEW d, Base(s, d), NEW p \in Nat, Len(s.stack) < p
  PROVE  ~TbcFrom(s, p)
<1>1. \A a \in 1..Len(s.tbclist) : s.tbclist[a] \in Nat /\ s.tbclist[a] <= Len(s.stack)
  BY MarksAt
<1>2. Len(s.stack) \in Nat
  BY MarksAt
<1>3. \A a \in 1..Len(s.tbclist) : ~(s.tbclist[a] >= p)
  BY ONLY <1>1, <1>2, p \in Nat, Len(s.stack) < p
<1> QED  BY <1>3 DEF TbcFrom

(* To change a frame and no slot is a special case of it. *)
LEMMA FramedReworks ==
  ASSUME NEW u \in State, NEW n \in Nat, n = Len(u.ci), n > 0, NEW g \in CallInfo,
         NEW t, Framed(u, t, g), NEW p
  PROVE  Reworked(u, t, n, g, p)
BY DEF Framed, SameCounts, Reworked

(* ... to go on with the next instruction or with the C function. *)
LEMMA RunsAgain ==
  ASSUME NEW u \in State, NEW n \in Nat, n = Len(u.ci), n > 0, NEW w, NEW p \in Nat,
         Cut(u, w, p) \/ Erred(u, w, p), NEW t, t = At(w, "run")
  PROVE  Reworked(u, t, n, AtRun(u.ci[n]), p)
<1>1. /\ w \in State /\ w.ci = u.ci /\ w.cs = u.cs /\ SameCounts(u, w)
      /\ \A x \in 1..(p - 1) : w.stack[x] = u.stack[x]
  BY DEF Cut, Erred
<1>2. u.ci[n] \in CallInfo /\ Last(w.ci) = u.ci[n]
  <2>1. n \in 1..n /\ u.ci \in Seq(CallInfo) /\ u.ci # <<>>
    BY StateType
  <2>2. u.ci[n] \in CallInfo
    BY <2>1
  <2> QED  BY <1>1, <2>1, <2>2, FrontLast
<1> DEFINE g == AtRun(u.ci[n])
<1>3. g \in CallInfo
  BY <1>2 DEF AtRun, CallInfo
<1>4. t = SetCI(w, g)
  BY <1>2 DEF At, AtRun
<1>5. g = AtRun(u.ci[n])
  OBVIOUS
<1> HIDE DEF g
<1>6. Framed(w, t, g)
  BY <1>1, <1>3, <1>4, SetCIIs
<1> QED  BY <1>1, <1>5, <1>6 DEF Framed, SameCounts, Reworked

-----------------------------------------------------------------------------
(* Calls that return *)

(* A call that ends takes one entry from the C stack. *)
LEMMA UncountedShorter ==
  ASSUME NEW s \in State, Len(s.cs) > 0, NEW y, NEW z
  PROVE  Shorter(s, Uncounted(s, y, z), Len(s.cs) - 1)
<1> DEFINE m == Len(s.cs)
           t == Uncounted(s, y, z)
<1>1. s.cs \in Seq(CFunction) /\ s.cs # <<>> /\ m \in Nat
  BY StateType
<1>2. t.cs = Front(s.cs)
  BY DEF Uncounted, PopC, State
<1>3. Len(Front(s.cs)) = m - 1 /\ \A j \in 1..(m - 1) : Front(s.cs)[j] = s.cs[j]
  BY <1>1, FrontLast
<1> HIDE DEF t
<1>4. Len(t.cs) = m - 1 /\ \A j \in 1..(m - 1) : t.cs[j] = s.cs[j]
  BY <1>2, <1>3
<1>5. m - 1 \in Nat /\ m = (m - 1) + 1
  BY <1>1
<1> QED  BY <1>4, <1>5 DEF Shorter, t

(* The return of ccall means nothing to LauScope. *)
LEMMA CcallReturnsMeans ==
  ASSUME CInv(L), ~NestedClose, CcallReturns
  PROVE  Same(L, L')
<1> DEFINE m == Len(L.cs)  n == Len(L.ci)  e == L.cs[m]  q == m - 1
           s == Uncounted(L, e.inc, e.y)
           g == [L.ci[n] EXCEPT !.pc = "run", !.ypcall = FALSE]
<1>1. L.cs # <<>>
  BY DEF CcallReturns, Control
<1>2. PICK d \in [Nat -> Nat] : Top(L, d) /\ InControl(L, d, m, n)
  BY <1>1, Controls
<1>3. L.cs[m].t = "ccall" /\ Last(L.cs) = L.cs[m] /\ CI = L.ci[n]
  BY <1>2 DEF CcallReturns, InControl, CI
<1>4. L' = CASE Control(s) = "cfn" -> SetCI(s, g)
             [] Control(s) = "exec" -> At(SetTop(s, Len(s.stack)), "run")
             [] OTHER -> s
  BY <1>3 DEF CcallReturns, Uncounted
<1>5. ReturnedTo(L, s, d, q, n)
  BY <1>2, <1>3, Uncounts
<1>6. /\ L \in State /\ Base(L, d) /\ L.status = "ok" /\ m > 0 /\ m = Len(L.cs) /\ n = Len(L.ci)
      /\ L.ci[n] \in CallInfo /\ L.ci[n].func \in Nat /\ Len(L.stack) \in Nat
      /\ L.ci[n].func <= Len(L.stack) /\ FrameOk(L, n)
  BY <1>2 DEF InControl
<1>7. Shorter(L, s, q)
  BY <1>6, UncountedShorter
<1> HIDE DEF s, q, g
<1>8. /\ Base(s, d) /\ s.status = "ok" /\ s \in State
      /\ q \in Nat /\ q > 0 /\ q = Len(s.cs) /\ n \in Nat /\ n > 0 /\ n = Len(s.ci) /\ d[q] = n
      /\ s.ci = L.ci /\ s.stack = L.stack /\ s.tbclist = L.tbclist
  BY <1>5 DEF ReturnedTo
<1>9. /\ s.cs[q].t \in {"exec", "cfn", "close"} \/ Try(s.cs[q], {"resume", "pcall"})
      /\ s.cs[q].t = "exec" => TakesResult(s.ci[n])
  BY <1>5 DEF ReturnedTo
<1>10. Control(s) = s.cs[q].t
  <2>1. s.cs # <<>> /\ s.cs \in Seq(CFunction)
    <3>1. s.cs \in Seq(CFunction)
      BY <1>8, StateType
    <3>2. s.cs = <<>> => Len(s.cs) = 0
      OBVIOUS
    <3> QED  BY <1>8, <3>1, <3>2
  <2> QED  BY <1>8, <2>1, FrontLast DEF Control
<1>11. m > 0 /\ (TakesResult(L.ci[n]) => L.ci[n].func < Len(L.stack) /\ ~TbcFrom(L, Len(L.stack)))
  BY <1>2 DEF Top, InControl
<1>12. Alive(L) /\ Alive(s)
  BY <1>6, <1>8 DEF Alive, ErrorStatus
<1>13. Still(L, s)
  <2>1. ~Try(L.cs[m], Protected)
    BY <1>3 DEF Try
  <2> QED  BY <1>6, <1>7, <1>8, <1>12, <2>1, ShorterGrew
<1>14. Grew(L, s)
  BY <1>13 DEF Still
<1>15. Skeleton(L, d) /\ Skeleton(s, d)
  BY <1>6, <1>8 DEF Base
<1> HIDE DEF m, n
<1>16. ASSUME s.cs[q].t \in {"cfn", "exec"}
       PROVE  /\ Handlers(s, "closep", n) = {} /\ Handlers(L, "closep", n) = {}
              /\ Idle(L, n) /\ OnFrame(L, s.cs[q], n)
  <2>1. s.cs[q].t # "try" /\ s.cs[q].t # "ccall" /\ ~Closing(s.cs[q], {"closep"})
    BY <1>16 DEF Closing
  <2>2. Handlers(s, "closep", n) = {}
    BY <1>8, <1>15, <2>1, NoHandlers
  <2> DEFINE by == "closep"
  <2>3. SameTries(L, s) /\ by \in Protected
    BY <1>14 DEF Grew, Protected
  <2>4. by = "closep"
    OBVIOUS
  <2> HIDE DEF by
  <2>5. Handlers(s, by, n) = Handlers(L, by, n)
    BY <1>8, <2>3, TriesKept
  <2>6. Handlers(L, "closep", n) = {}
    BY <2>2, <2>4, <2>5
  <2>7. q \in 1..m /\ q \in 1..q /\ q \in 1..(m - 1) /\ L.cs[q] = s.cs[q] /\ L.cs[q + 1] = L.cs[m]
    <3>1. q + 1 = m
      BY <1>6, <1>7 DEF Shorter
    <3>2. q \in 1..q
      BY ONLY <1>8
    <3>3. s.cs[q] = L.cs[q]
      BY <1>7, <3>2 DEF Shorter
    <3>a. q \in Nat /\ q > 0
      BY <1>8
    <3>4. q \in 1..m /\ q \in 1..(m - 1)
      BY ONLY <3>1, <3>a
    <3> QED  BY <3>1, <3>2, <3>3, <3>4
  <2>8. OnFrame(L, s.cs[q], n) /\ Deeper(L, d, q)
    <3>1. Depths(L, d)
      BY <1>15 DEF Skeleton
    <3>2. OnFrame(L, L.cs[q], d[q])
      BY <1>6, <2>7, <3>1 DEF Depths
    <3>3. Deeper(L, d, q)
      BY <1>6, <2>7, <3>1 DEF Depths
    <3> QED  BY <1>8, <2>7, <3>2, <3>3
  <2>9. s.cs[q].t = "cfn" => L.ci[n].kind = "C" /\ ~L.ci[n].clsret /\ L.ci[n].recst = "ok"
                             /\ L.ci[n].pc # "top"
    <3>1. Beneath(L, L.cs[q], L.cs[q + 1], n)
      BY <1>8, <2>8 DEF Deeper
    <3>2. s.cs[q].t = "cfn" => L.ci[n].pc # "top"
      BY <1>3, <2>7, <3>1 DEF Beneath
    <3>3. s.cs[q].t = "cfn" => L.ci[n].kind = "C" /\ ~L.ci[n].clsret /\ L.ci[n].recst = "ok"
      BY <2>8 DEF OnFrame
    <3> QED  BY <3>2, <3>3
  <2>10. s.cs[q].t = "exec" => L.ci[n].kind = "Lau" /\ TakesResult(L.ci[n])
    <3>1. s.cs[q].t = "exec" => L.ci[n].kind = "Lau"
      BY <2>8 DEF OnFrame
    <3> QED  BY <1>8, <1>9, <3>1
  <2>11. /\ ~L.ci[n].ypcall \/ L.ci[n].recst = "ok"
         /\ L.ci[n].pc \notin {"close", "return", "top"}
    <3>1. CASE s.cs[q].t = "cfn"
      <4>1. L.ci[n].pc # "close" /\ L.ci[n].pc # "return"
        BY <1>6, <2>9, <3>1 DEF FrameOk
      <4> QED  BY <2>9, <3>1, <4>1
    <3>2. CASE s.cs[q].t = "exec"
      <4>1. L.ci[n].pc \in {"index", "add"}
        BY <2>10, <3>2 DEF TakesResult
      <4>2. ~L.ci[n].ypcall
        BY <1>6, <2>10, <3>2 DEF FrameOk
      <4> QED  BY <4>1, <4>2
    <3> QED  BY <1>16, <3>1, <3>2
  <2>12. ~L.ci[n].clsret
    BY <1>6, <1>16, <2>9, <2>10 DEF FrameOk
  <2>13. Idle(L, n)
    BY <1>6, <2>6, <2>11, <2>12, CallerIdle
  <2> QED  BY <2>2, <2>6, <2>8, <2>13
<1>17. CASE s.cs[q].t = "cfn"
  <2>1. OnFrame(L, s.cs[q], n) /\ Idle(L, n) /\ Handlers(s, "closep", n) = {}
    BY <1>16, <1>17
  <2>2. L.ci[n].recst = "ok" /\ ~L.ci[n].clsret
    BY <1>17, <2>1 DEF OnFrame
  <2>3. GoingOn(L.ci[n], g)
    BY <1>6, <2>2 DEF GoingOn, CallInfo, g
  <2>4. g \in CallInfo /\ g.func = L.ci[n].func /\ g.args = L.ci[n].args
    BY <1>6, <2>3 DEF GoingOn, CallInfo, g
  <2>5. L' = SetCI(s, g)
    BY <1>4, <1>10, <1>17
  <2> DEFINE p == Len(L.stack) + 1
  <2>6. p \in Nat /\ L.ci[n].func < p /\ Len(L.stack) < p
    <3>1. L.ci[n].func \in Nat /\ Len(L.stack) \in Nat /\ L.ci[n].func <= Len(L.stack)
      BY <1>6
    <3>2. \A x, y \in Nat : x <= y => y + 1 \in Nat /\ x < y + 1 /\ y < y + 1
      OBVIOUS
    <3> QED  BY <3>1, <3>2
  <2> HIDE DEF p
  <2>7. Framed(s, L', g)
    BY <1>8, <2>4, <2>5, SetCIIs
  <2>8. Reworked(s, L', n, g, p)
    BY <1>8, <2>4, <2>7, FramedReworks
  <2>9. ~TbcFrom(L, p)
    BY <1>6, <2>6, NoneAbove
  <2>10. Alters(L, L', n, g)
    BY ONLY <1>6, <1>14, <2>4, <2>6, <2>8, <2>9, n = Len(L.ci), Reworks
  <2>11. Idle(L', n)
    <3>1. L'.ci[n] = g /\ L'.cs = s.cs
      BY <2>8 DEF Reworked
    <3>2. Handlers(L', "closep", n) = {}
      BY <2>1, <3>1 DEF Handlers
    <3> QED  BY <2>2, <2>3, <3>1, <3>2, GoesOnIdle
  <2> QED  BY ONLY <1>6, <1>12, <2>1, <2>10, <2>11, AltersSame
<1>18. CASE s.cs[q].t = "exec"
  <2>1. Idle(L, n) /\ Handlers(s, "closep", n) = {} /\ OnFrame(L, s.cs[q], n)
    BY <1>16, <1>18
  <2>2. L.ci[n].func < Len(L.stack) /\ ~TbcFrom(L, Len(L.stack))
    BY <1>8, <1>9, <1>11, <1>18
  <2> DEFINE p == Len(L.stack)
             w == SetTop(s, p)
             f == AtRun(L.ci[n])
  <2>3. L' = At(w, "run")
    BY <1>4, <1>8, <1>10, <1>18
  <2>4. p \in Nat /\ p \in 1..(Len(s.stack) + 1) /\ L.ci[n].func < p /\ ~TbcFrom(L, p)
    <3>a. L.ci[n].func \in Nat /\ p \in Nat /\ L.ci[n].func < p
      BY <1>6, <2>2
    <3> HIDE DEF p
    <3>1. p \in Nat /\ p > 0
      BY ONLY <3>a
    <3>2. p \in 1..(p + 1)
      BY ONLY <3>1
    <3>3. p = Len(L.stack)
      BY DEF p
    <3> QED  BY <1>8, <2>2, <3>1, <3>2, <3>3, <3>a
  <2>5. Cut(s, w, p)
    BY <1>8, <2>4, SetTopIs
  <2> HIDE DEF p, w
  <2>6. Reworked(s, L', n, f, p)
    <3>1. Reworked(s, L', n, AtRun(s.ci[n]), p)
      BY <1>8, <2>3, <2>4, <2>5, RunsAgain
    <3> QED  BY <1>8, <3>1
  <2>7. f.func = L.ci[n].func /\ f.args = L.ci[n].args /\ f.pc = "run" /\ f.clsret = L.ci[n].clsret
        /\ f.ypcall = L.ci[n].ypcall /\ f.recst = L.ci[n].recst
    BY <1>6 DEF AtRun, CallInfo
  <2> HIDE DEF f
  <2>8. Alters(L, L', n, f)
    BY ONLY <1>6, <1>14, <2>4, <2>6, <2>7, n = Len(L.ci), Reworks
  <2>9. Idle(L', n)
    <3>1. L'.ci[n] = f /\ L'.cs = s.cs
      BY <2>6 DEF Reworked
    <3>2. Handlers(L', "closep", n) = {}
      BY <2>1, <3>1 DEF Handlers
    <3>3. ~L.ci[n].ypcall /\ ~L.ci[n].clsret
      BY <1>6, <1>18, <2>1 DEF OnFrame, FrameOk
    <3>4. Unwinding(L', n) = NoUnwinding
      BY <2>7, <3>1, <3>2, <3>3, NotUnwinding
    <3> QED  BY <2>7, <3>1, <3>3, <3>4 DEF Idle
  <2> QED  BY ONLY <1>6, <1>12, <2>1, <2>8, <2>9, AltersSame
<1>19. CASE s.cs[q].t \notin {"cfn", "exec"}
  <2>1. L' = s
    BY <1>4, <1>10, <1>19
  <2> QED  BY <1>6, <1>12, <1>13, <2>1, StillSame
<1> QED  BY <1>17, <1>18, <1>19

-----------------------------------------------------------------------------
(* unroll *)

(* A C function that catches no error is called by a step of the C stack alone. *)
LEMMA StillPush ==
  ASSUME NEW s, NEW u, Still(s, u), NEW e \in CFunction, e.t # "try", NEW w, w = PushC(u, e)
  PROVE  Still(s, w)
<1>1. Grew(s, u) /\ u.stack = s.stack
  BY DEF Still
<1>2. Grew(s, w)
  BY <1>1, GrewPush
<1>3. u \in State
  BY <1>1 DEF Grew
<1>4. w.stack = u.stack
  BY <1>3, PushCIs DEF Pushed
<1> QED  BY <1>1, <1>2, <1>4 DEF Still

(* So is no step at all. *)
LEMMA StillSelf ==
  ASSUME NEW s, s \in State, Alive(s)
  PROVE  Still(s, s)
BY GrewSelf DEF Still

(* A frame that changes may also call such a function. *)
LEMMA AltersPush ==
  ASSUME NEW s, NEW t \in State, NEW n, NEW g, Alters(s, t, n, g), NEW e \in CFunction, e.t # "try",
         NEW w, w = PushC(t, e)
  PROVE  Alters(s, w, n, g)
<1>1. Alive(t) /\ SameTries(s, t)
  BY DEF Alters
<1>2. Still(t, t)
  BY <1>1, StillSelf
<1>3. Still(t, w)
  BY <1>2, StillPush
<1>4. /\ w.ci = t.ci /\ w.tbclist = t.tbclist /\ Alive(w) /\ SameTries(t, w) /\ w.stack = t.stack
  BY <1>3 DEF Still, Grew
<1>5. SameTries(s, w)
  BY <1>1, <1>4, TriesThrough
<1> QED  BY <1>4, <1>5 DEF Alters

(* A frame that changes gets no handler that closes variables. *)
LEMMA AltersHandlers ==
  ASSUME NEW s, NEW t, NEW n, NEW g, n \in Nat, n > 0, Alters(s, t, n, g),
         Handlers(s, "closep", n) = {}
  PROVE  Handlers(t, "closep", n) = {}
<1> DEFINE by == "closep"
<1>1. SameTries(s, t) /\ by \in Protected
  BY DEF Alters, Protected
<1>2. by = "closep"
  OBVIOUS
<1> HIDE DEF by
<1>3. Handlers(t, by, n) = Handlers(s, by, n)
  BY <1>1, TriesKept
<1> QED  BY <1>2, <1>3

(* What unroll finds: frames without handlers, since lau_resume has lost the C stack. *)
LEMMA UnrollerBare ==
  ASSUME NEW s, NEW d, NEW m, NEW n, Unroller(s, d, m, n)
  PROVE  /\ Base(s, d) /\ s \in State /\ s.status = "ok" /\ Alive(s) /\ m = 2 /\ m = Len(s.cs)
         /\ n \in Nat /\ n > 0 /\ n = Len(s.ci) /\ s.ci[n] \in CallInfo /\ FrameOk(s, n)
         /\ Last(s.ci) = s.ci[n] /\ Len(s.stack) \in Nat /\ s.ci[n].func \in Nat
         /\ s.ci[n].func <= Len(s.stack) /\ s.cs[m].t = "unroll" /\ s.ci[n].pc # "top"
         /\ (TakesResult(s.ci[n]) => s.ci[n].func < Len(s.stack) /\ ~TbcFrom(s, Len(s.stack)))
         /\ \A by \in Protected : Handlers(s, by, n) = {}
<1>1. /\ Base(s, d) /\ s \in State /\ s.status = "ok" /\ m = 2 /\ m = Len(s.cs) /\ m > 0
      /\ n \in Nat /\ n > 0 /\ n = Len(s.ci) /\ s.ci[n] \in CallInfo /\ FrameOk(s, n)
      /\ Last(s.ci) = s.ci[n] /\ Len(s.stack) \in Nat /\ s.ci[n].func \in Nat
      /\ s.ci[n].func <= Len(s.stack) /\ s.cs[m].t = "unroll" /\ Try(s.cs[1], {"resume", "recover"})
      /\ Top(s, d)
  BY DEF Unroller, InControl
<1>2. Alive(s)
  BY <1>1 DEF Alive, ErrorStatus
<1>3. /\ s.ci[n].pc # "top"
      /\ (TakesResult(s.ci[n]) => s.ci[n].func < Len(s.stack) /\ ~TbcFrom(s, Len(s.stack)))
  BY <1>1 DEF Top
<1>4. \A by \in Protected : Handlers(s, by, n) = {}
  <2>1. \A j \in 1..2 : j = 1 \/ j = 2
    OBVIOUS
  <2> QED  BY <1>1, <2>1 DEF Handlers, Try, Protected
<1> QED  BY <1>1, <1>2, <1>3, <1>4

(* The end of unroll means nothing to LauScope. *)
LEMMA UnrollEndsSame ==
  ASSUME NEW s, NEW d, NEW m, NEW n, Unroller(s, d, m, n)
  PROVE  Same(s, PopC(s))
<1> DEFINE t == PopC(s)
           q == 1
<1>1. /\ Base(s, d) /\ s \in State /\ s.status = "ok" /\ Alive(s) /\ m = 2 /\ m = Len(s.cs)
      /\ s.cs[m].t = "unroll"
  BY UnrollerBare
<1>2. Popped(s, t)
  <2>1. s.cs # <<>>
    <3>1. s.cs = <<>> => Len(s.cs) = 0
      OBVIOUS
    <3> QED  BY <1>1, <3>1
  <2> QED  BY <1>1, <2>1, PopCIs
<1> HIDE DEF t
<1>3. /\ t \in State /\ t.ci = s.ci /\ t.stack = s.stack /\ t.tbclist = s.tbclist /\ t.status = s.status
      /\ Len(t.cs) = 1 /\ \A j \in 1..Len(t.cs) : t.cs[j] = s.cs[j]
  BY <1>1, <1>2 DEF Popped, SameCounts
<1>4. Shorter(s, t, q)
  BY <1>1, <1>3 DEF Shorter
<1>5. Alive(t) /\ ~Try(s.cs[m], Protected)
  BY <1>1, <1>3 DEF Alive, Try
<1>6. Still(s, t)
  BY <1>1, <1>3, <1>4, <1>5, ShorterGrew
<1> QED  BY <1>1, <1>6, StillSame DEF t

(* finishCcall *)
LEMMA FinishesCSame ==
  ASSUME NEW s, NEW d, NEW m, NEW n, Unroller(s, d, m, n), n > 1, s.ci[n].kind = "C"
  PROVE  Same(s, finishCcall(s))
<1> DEFINE f == s.ci[n]  g == [f EXCEPT !.pc = "run", !.ypcall = FALSE]
           h == [f EXCEPT !.u2 = f.u2, !.clsret = TRUE]
           e == [t |-> "close", level |-> f.u2, status |-> f.recst, yy |-> TRUE, then |-> "pcallk"]
           c == [t |-> "cfn"]
           e2 == [t |-> "close", level |-> f.func, status |-> "ktop", yy |-> TRUE, then |-> "poscall"]
<1>1. /\ Base(s, d) /\ s \in State /\ Alive(s)
      /\ n \in Nat /\ n > 0 /\ n = Len(s.ci) /\ f \in CallInfo /\ FrameOk(s, n)
      /\ Last(s.ci) = f /\ Len(s.stack) \in Nat /\ f.func \in Nat
      /\ f.func <= Len(s.stack) /\ f.pc # "top"
      /\ \A by \in Protected : Handlers(s, by, n) = {}
  BY UnrollerBare
<1>2. finishCcall(s) = IF f.clsret THEN poscall(s, f.u2)
                       ELSE IF f.ypcall /\ f.recst # "ok" THEN PushC(s, e)
                       ELSE PushC(SetCI(s, g), c)
  BY <1>1 DEF finishCcall, lauF_close
<1>3. Still(s, s)
  BY <1>1, StillSelf
<1>4. f = s.ci[n] /\ f.level \in Nat /\ f.u2 \in Nat /\ f.recst \in ErrorStatus \cup {"ok"}
  BY <1>1, FrameType
<1>5. CASE f.clsret
  <2>1. f.tbc
    BY <1>1, <1>5 DEF FrameOk
  <2>2. poscall(s, f.u2) = PushC(SetCI(s, h), e2)
    BY <1>1, <2>1 DEF poscall, lauF_close
  <2>3. h = f
    BY <1>1, <1>5 DEF CallInfo
  <2>4. e2 \in CFunction /\ e2.t # "try"
    BY <1>1 DEF CFunction, CloseC
  <2> HIDE DEF f, h, e2
  <2>5. SetCI(s, h) = s
    <3>1. SetCI(s, h) = [s EXCEPT !.ci = [s.ci EXCEPT ![n] = s.ci[n]]]
      BY <1>1, <1>4, <2>3 DEF SetCI
    <3>2. [s.ci EXCEPT ![n] = s.ci[n]] = s.ci
      <4>1. s.ci \in Seq(CallInfo)
        BY <1>1, StateType
      <4> QED  BY <4>1
    <3>3. [s EXCEPT !.ci = s.ci] = s
      BY <1>1 DEF State
    <3> QED  BY <3>1, <3>2, <3>3
  <2>6. finishCcall(s) = PushC(s, e2)
    BY <1>2, <1>5, <2>2, <2>5
  <2>7. Still(s, finishCcall(s))
    BY <1>3, <2>4, <2>6, StillPush
  <2> QED  BY <1>1, <2>7, StillSame
<1>6. CASE ~f.clsret /\ f.ypcall /\ f.recst # "ok"
  <2>1. e \in CFunction /\ e.t # "try"
    BY <1>4 DEF CFunction, CloseC
  <2>2. finishCcall(s) = PushC(s, e)
    BY <1>2, <1>6
  <2> HIDE DEF e
  <2>3. Still(s, finishCcall(s))
    BY <1>3, <2>1, <2>2, StillPush
  <2> QED  BY <1>1, <2>3, StillSame
<1>7. CASE ~f.clsret /\ ~(f.ypcall /\ f.recst # "ok")
  <2>1. f.recst = "ok"
    BY <1>1, <1>7 DEF FrameOk
  <2>2. GoingOn(f, g) /\ g \in CallInfo /\ g.func = f.func /\ g.args = f.args
    BY <1>1, <2>1 DEF GoingOn, CallInfo
  <2>3. c \in CFunction /\ c.t # "try"
    BY DEF CFunction, PlainC
  <2> DEFINE p == Len(s.stack) + 1
             u == SetCI(s, g)
             w == PushC(u, c)
  <2>4. p \in Nat /\ f.func < p /\ Len(s.stack) < p
    <3>1. f.func \in Nat /\ Len(s.stack) \in Nat /\ f.func <= Len(s.stack)
      BY <1>1
    <3>2. \A x, y \in Nat : x <= y => y + 1 \in Nat /\ x < y + 1 /\ y < y + 1
      OBVIOUS
    <3> QED  BY <3>1, <3>2
  <2>5. finishCcall(s) = w /\ w = PushC(u, c)
    BY <1>2, <1>7
  <2>6. Framed(s, u, g)
    BY <1>1, <2>2, SetCIIs
  <2> HIDE DEF p, u, w, c, g
  <2>7. Reworked(s, u, n, g, p)
    BY <1>1, <2>2, <2>6, FramedReworks
  <2>8. ~TbcFrom(s, p)
    BY <1>1, <2>4, NoneAbove
  <2>9. Grew(s, s)
    BY <1>3 DEF Still
  <2>10. Alters(s, u, n, g)
    BY <1>1, <2>2, <2>4, <2>7, <2>8, <2>9, Reworks
  <2>11. u \in State
    BY <2>6 DEF Framed
  <2>12. Alters(s, w, n, g)
    BY ONLY <2>3, <2>5, <2>10, <2>11, AltersPush
  <2>13. Handlers(s, "closep", n) = {}
    BY <1>1 DEF Protected
  <2>14. Handlers(w, "closep", n) = {} /\ w.ci[n] = g
    BY <1>1, <2>12, <2>13, AltersHandlers DEF Alters
  <2>15. Idle(w, n)
    BY <1>7, <2>2, <2>14, GoesOnIdle
  <2>16. Idle(s, n)
    <3>1. s.ci[n].pc # "close" /\ s.ci[n].pc # "return"
      BY <1>1 DEF FrameOk
    <3> QED  BY <1>1, <1>7, <2>1, <2>13, <3>1, CallerIdle
  <2>17. Same(s, w)
    BY ONLY <1>1, <2>12, <2>15, <2>16, AltersSame
  <2> QED  BY <2>5, <2>17
<1> QED  BY <1>5, <1>6, <1>7

(* lauV_finishOp and lauV_execute *)
LEMMA FinishesLauSame ==
  ASSUME NEW s, NEW d, NEW m, NEW n, Unroller(s, d, m, n), n > 1, s.ci[n].kind # "C"
  PROVE  Same(s, finishOp(s))
<1> DEFINE f == s.ci[n]
           x == [t |-> "exec"]
           u == PushC(s, x)
           e == [t |-> "close", level |-> f.level, status |-> "ok", yy |-> TRUE, then |-> "close"]
           e2 == [t |-> "close", level |-> f.func + 1, status |-> "ktop", yy |-> TRUE,
                  then |-> "return"]
<1>1. /\ Base(s, d) /\ s \in State /\ Alive(s)
      /\ n \in Nat /\ n > 0 /\ n = Len(s.ci) /\ f \in CallInfo /\ FrameOk(s, n)
      /\ Last(s.ci) = f /\ Len(s.stack) \in Nat /\ f.func \in Nat
      /\ f.func <= Len(s.stack) /\ f.pc # "top"
      /\ (TakesResult(f) => f.func < Len(s.stack) /\ ~TbcFrom(s, Len(s.stack)))
      /\ \A by \in Protected : Handlers(s, by, n) = {}
  BY UnrollerBare
<1>2. x \in CFunction /\ x.t # "try"
  BY DEF CFunction, PlainC
<1>3. Still(s, s)
  BY <1>1, StillSelf
<1>4. f = s.ci[n] /\ f.level \in Nat /\ u = PushC(s, x)
  BY <1>1, FrameType
<1>5. finishOp(s) = CASE f.pc = "index" -> At(SetTop(u, Len(s.stack)), "run")
                      [] f.pc = "close" -> PushC(u, e)
                      [] f.pc = "return" -> PushC(u, e2)
                      [] OTHER -> At(u, "run")
  BY <1>1 DEF finishOp, lauF_close
<1> HIDE DEF x, u
<1>6. Still(s, u)
  BY <1>2, <1>3, <1>4, StillPush
<1>7. Grew(s, u) /\ u.stack = s.stack /\ u \in State /\ u.ci = s.ci
  BY <1>6 DEF Still, Grew
<1>8. ~f.ypcall /\ ~f.clsret /\ Handlers(s, "closep", n) = {}
  BY <1>1 DEF FrameOk, Protected
<1>9. CASE f.pc \in {"close", "return"}
  <2>1. e \in CFunction /\ e.t # "try"
    BY <1>4 DEF CFunction, CloseC
  <2>2. e2 \in CFunction /\ e2.t # "try"
    <3>1. f.func + 1 \in Nat
      BY <1>1
    <3> QED  BY <3>1 DEF CFunction, CloseC
  <2>3. finishOp(s) = PushC(u, e) \/ finishOp(s) = PushC(u, e2)
    BY <1>5, <1>9
  <2> HIDE DEF e, e2
  <2>4. Still(s, finishOp(s))
    BY <1>6, <2>1, <2>2, <2>3, StillPush
  <2> QED  BY <1>1, <2>4, StillSame
<1>10. CASE f.pc \notin {"close", "return"}
  <2> DEFINE g == AtRun(f)
             t == finishOp(s)
  <2>1. g.func = f.func /\ g.args = f.args /\ g.pc = "run" /\ ~g.clsret /\ ~g.ypcall /\ g \in CallInfo
    BY <1>1, <1>8 DEF AtRun, CallInfo
  <2>2. \E p \in Nat : f.func < p /\ ~TbcFrom(s, p) /\ Reworked(u, t, n, g, p)
    <3>1. CASE f.pc = "index"
      <4> DEFINE p == Len(s.stack)
                 w == SetTop(u, p)
      <4>1. TakesResult(f)
        BY <3>1 DEF TakesResult
      <4>2. p \in Nat /\ f.func < p /\ ~TbcFrom(s, p) /\ f.func \in Nat
        BY <1>1, <4>1
      <4>3. t = At(w, "run")
        BY <1>5, <3>1
      <4>4. p \in 1..(Len(u.stack) + 1)
        <5>1. Len(u.stack) = p
          BY <1>7
        <5> HIDE DEF p
        <5>2. p > 0
          BY ONLY <4>2
        <5>3. p \in 1..(p + 1)
          BY ONLY <4>2, <5>2
        <5> QED  BY <5>1, <5>3
      <4>5. Cut(u, w, p)
        BY <1>7, <4>4, SetTopIs
      <4> HIDE DEF p, w, t, g
      <4>6. Reworked(u, t, n, AtRun(u.ci[n]), p)
        BY <1>1, <1>7, <4>2, <4>3, <4>5, RunsAgain
      <4>7. g = AtRun(u.ci[n])
        BY <1>7 DEF g
      <4>8. Reworked(u, t, n, g, p)
        BY <4>6, <4>7
      <4> QED  BY <4>2, <4>8
    <3>2. CASE f.pc # "index"
      <4> DEFINE p == Len(s.stack) + 1
      <4>1. p \in Nat /\ f.func < p /\ Len(s.stack) < p
        <5>1. f.func \in Nat /\ Len(s.stack) \in Nat /\ f.func <= Len(s.stack)
          BY <1>1
        <5>2. \A y, z \in Nat : y <= z => z + 1 \in Nat /\ y < z + 1 /\ z < z + 1
          OBVIOUS
        <5> QED  BY <5>1, <5>2
      <4>2. t = At(u, "run")
        BY <1>5, <1>10, <3>2
      <4>3. t = SetCI(u, g)
        BY <1>1, <1>7, <4>2 DEF At, AtRun
      <4> HIDE DEF p, g, t
      <4>4. Framed(u, t, g)
        BY <1>1, <1>7, <2>1, <4>3, SetCIIs
      <4>5. Reworked(u, t, n, g, p)
        BY <1>1, <1>7, <2>1, <4>4, FramedReworks
      <4>6. ~TbcFrom(s, p)
        BY <1>1, <4>1, NoneAbove
      <4> QED  BY <4>1, <4>5, <4>6
    <3> QED  BY <3>1, <3>2
  <2> HIDE DEF g, t
  <2>3. PICK p \in Nat : f.func < p /\ ~TbcFrom(s, p) /\ Reworked(u, t, n, g, p)
    BY <2>2
  <2>4. Alters(s, t, n, g)
    BY <1>1, <1>7, <2>1, <2>3, Reworks
  <2>5. Handlers(t, "closep", n) = {} /\ t.ci[n] = g
    BY <1>1, <1>8, <2>4, AltersHandlers DEF Alters
  <2>6. Idle(t, n)
    <3>1. Unwinding(t, n) = NoUnwinding
      BY <2>1, <2>5, NotUnwinding
    <3> QED  BY <2>1, <2>5, <3>1 DEF Idle
  <2>7. Idle(s, n)
    <3>1. s.ci[n].pc \notin {"close", "return", "top"}
      BY <1>1, <1>10
    <3> QED  BY <1>1, <1>8, <3>1, CallerIdle
  <2>8. Same(s, t)
    BY ONLY <1>1, <2>4, <2>6, <2>7, AltersSame
  <2> QED  BY <2>8 DEF t
<1> QED  BY <1>9, <1>10

(* What unroll does means nothing to LauScope. *)
LEMMA unrollMeans ==
  ASSUME CInv(L), unroll
  PROVE  Same(L, L')
<1> DEFINE m == Len(L.cs)  n == Len(L.ci)
<1>1. L.cs # <<>>
  BY DEF unroll, Control
<1>2. PICK d \in [Nat -> Nat] : Top(L, d) /\ InControl(L, d, m, n)
  BY <1>1, Controls
<1>3. L.cs[m].t = "unroll" /\ CI = L.ci[n] /\ n \in Nat /\ n > 0
  BY <1>2 DEF unroll, InControl, CI
<1>4. Unroller(L, d, m, n)
  BY <1>2, <1>3, UnrollerIs
<1>5. L' = IF n = 1 THEN PopC(L) ELSE IF L.ci[n].kind = "C" THEN finishCcall(L) ELSE finishOp(L)
  BY <1>3 DEF unroll
<1> HIDE DEF m, n
<1>6. CASE n = 1
  BY <1>4, <1>5, <1>6, UnrollEndsSame
<1>7. CASE n # 1
  <2>1. n > 1
    <3>1. \A x \in Nat : x > 0 /\ x # 1 => x > 1
      OBVIOUS
    <3> QED  BY <1>3, <1>7, <3>1
  <2> QED  BY <1>4, <1>5, <1>7, <2>1, FinishesCSame, FinishesLauSame
<1> QED  BY <1>6, <1>7

-----------------------------------------------------------------------------
(* lauD_rawrunprotected returns: nothing happens to LauScope, or the closing that
   followed an error or a reset has ended. *)

(* The activation n closes variables, and has closed them all. *)
Finished(s, n) ==
  /\ Len(Activations(s)) = n /\ Last(Activations(s)) = ActivationOf(s, n)
  /\ ActivationOf(s, n).phase \in {"block", "leave", "caught"}
  /\ Len(Pending(s)) = ActivationOf(s, n).keep
ClosedMeant(s, t, n) ==
  /\ Finished(s, n)
  /\ \/ ActivationOf(s, n).phase # "leave" /\ AlterMeant(s, t, n, "run", 0)
     \/ /\ ActivationOf(s, n).phase = "leave"
        /\ Activations(t) = Front(Activations(s)) /\ Pending(t) = Pending(s)
     \/ /\ n = 1 /\ ActivationOf(s, n).err # <<>>
        /\ Activations(t) = Scope!Host("dead", ActivationOf(s, n).err) /\ Pending(t) = Pending(s)

(* An activation that has caught an error has finished when no variable is left to it. *)
LEMMA CaughtFinished ==
  ASSUME NEW s, NEW d, Base(s, d), Alive(s), NEW n, n = Len(s.ci), NEW u, u = Unwinding(s, n),
         u # NoUnwinding, ~TbcFrom(s, u.level)
  PROVE  Finished(s, n) /\ ActivationOf(s, n).phase = "caught"
<1> DEFINE a == ActivationOf(s, n)
<1>1. n \in Nat
  BY BaseType
<1>2. n > 0 /\ n \in 1..n /\ Skeleton(s, d)
  BY <1>1, RunningFrame
<1>3. Len(Activations(s)) = n /\ Last(Activations(s)) = ActivationOf(s, n)
  BY <1>1, <1>2, ActsAre
<1>4. u.level \in Nat
  BY <1>2, UnwindingIs
<1>5. Sorted(s) /\ Len(s.tbclist) \in Nat
  BY MarksAt
<1>6. Older(s, u.level) = Len(s.tbclist)
  BY <1>4, <1>5, OlderAll
<1>7. Len(Pending(s)) = Len(s.tbclist)
  BY <1>5, PendingIs
<1>8. a.phase = "caught" <=> u # NoUnwinding
  BY ActFields
<1>9. a.phase = "caught" => a.keep = Older(s, u.level)
  BY ActFields
<1> QED  BY <1>3, <1>6, <1>7, <1>8, <1>9 DEF Finished

(* It then goes on as if nothing had happened. *)
LEMMA CaughtEnds ==
  ASSUME NEW s, NEW d, Base(s, d), Alive(s), NEW n, n = Len(s.ci), NEW u, u = Unwinding(s, n),
         u # NoUnwinding, ~TbcFrom(s, u.level),
         NEW t, NEW g, Turns(s, t, n, g), g.pc = "run", ~g.clsret, Unwinding(t, n) = NoUnwinding
  PROVE  ClosedMeant(s, t, n)
<1>1. Finished(s, n) /\ ActivationOf(s, n).phase = "caught"
  BY CaughtFinished
<1> DEFINE ph == Phase(g, NoUnwinding)
<1>2. ph = "run"
  BY DEF Phase
<1>3. ph = Phase(g, NoUnwinding)
  OBVIOUS
<1> HIDE DEF ph
<1>4. AlterMeant(s, t, n, ph, Keep(t, n, ph, NoUnwinding))
  BY <1>3, TurnMeans
<1>5. Keep(t, n, "run", NoUnwinding) = 0
  BY DEF Keep
<1>6. AlterMeant(s, t, n, "run", 0)
  BY ONLY <1>2, <1>4, <1>5
<1> QED  BY <1>1, <1>6 DEF ClosedMeant

(* Handlers above frame r have been left, and nothing else has changed. *)
Left(s, u, r) ==
  /\ u \in State /\ u.ci = s.ci /\ u.stack = s.stack /\ u.tbclist = s.tbclist /\ Alive(u)
  /\ SameHandlers(s, u, r)

(* A frame whose fields and whose stack above p are changed, when a handler returns. *)
LEMMA ReworksTurns ==
  ASSUME NEW s, NEW d, Base(s, d), NEW n, n = Len(s.ci), NEW u, Left(s, u, n - 1),
         NEW g, NEW p \in Nat, s.ci[n].func < p, ~TbcFrom(s, p),
         NEW t, Reworked(u, t, n, g, p), g.func = s.ci[n].func, g.args = s.ci[n].args
  PROVE  Turns(s, t, n, g)
<1>1. u.ci = s.ci /\ u.stack = s.stack /\ u.tbclist = s.tbclist /\ Alive(u) /\ SameHandlers(s, u, n - 1)
  BY DEF Left
<1>2. n \in Nat /\ n > 0 /\ n \in 1..n
  <2>1. n \in Nat
    BY BaseType
  <2> QED  BY <2>1, RunningFrame
<1>3. s.ci[n].func \in Nat
  BY <1>2, RunningFrame
<1>4. /\ Len(t.ci) = n /\ (\A i \in 1..(n - 1) : t.ci[i] = s.ci[i]) /\ t.ci[n] = g
      /\ t.cs = u.cs /\ t.tbclist = s.tbclist /\ t.status = u.status
      /\ \A x \in 1..(p - 1) : t.stack[x] = s.stack[x]
  BY <1>1 DEF Reworked
<1>5. SameHandlers(s, t, n - 1)
  <2>1. \A by, i : Handlers(t, by, i) = Handlers(u, by, i)
    BY ONLY <1>4 DEF Handlers
  <2> QED  BY ONLY <1>1, <1>4, <2>1 DEF SameHandlers
<1>7. \A x \in 1..(s.ci[n].func - 1) : t.stack[x] = s.stack[x]
  <2>1. \A x \in 1..(s.ci[n].func - 1) : x \in 1..(p - 1)
    BY <1>3
  <2> QED  BY ONLY <1>4, <2>1
<1>8. \A a \in 1..Len(s.tbclist) : t.stack[s.tbclist[a]] = s.stack[s.tbclist[a]]
  <2> TAKE a \in 1..Len(s.tbclist)
  <2>1. s.tbclist[a] \in Nat /\ s.tbclist[a] > 1
    BY MarksAt
  <2>2. ~(s.tbclist[a] >= p)
    BY DEF TbcFrom
  <2>3. s.tbclist[a] \in 1..(p - 1)
    BY ONLY <2>1, <2>2, p \in Nat
  <2> QED  BY <1>4, <2>3
<1>9. Alive(t)
  BY <1>1, <1>4 DEF Alive
<1> QED  BY <1>4, <1>5, <1>7, <1>8, <1>9 DEF Turns

(* The handler at the top of the C stack is the only one of its frame. *)
HandledBy(e, by, n) == e.t = "try" /\ e.by = by /\ e.ci = n

HandlerGone(s, t, m, n, by) ==
  /\ Handlers(s, by, n) = {m} /\ (\A b \in Protected : b # by => Handlers(s, b, n) = {})
  /\ \A b \in Protected : Handlers(t, b, n) = {}
  /\ SameHandlers(s, t, n - 1)

(* The handler on top of the C stack is the only one of its frame, and goes. *)
LEMMA TopHandler ==
  ASSUME NEW s, NEW d, Base(s, d), ~NestedClose, NEW m \in Nat, m = Len(s.cs), m > 0,
         NEW n, n = Len(s.ci), NEW by \in Protected, HandledBy(s.cs[m], by, n),
         NEW t, NEW q, Shorter(s, t, q)
  PROVE  HandlerGone(s, t, m, n, by)
<1>1. n \in Nat /\ Skeleton(s, d)
  BY BaseType DEF Base
<1>2. m \in 1..m /\ s.cs[m].t = "try" /\ s.cs[m].by = by /\ s.cs[m].ci = n
  BY DEF HandledBy
<1>3. m \in Handlers(s, by, n)
  BY <1>2 DEF Handlers
<1>4. Handlers(s, by, n) = {m}
  BY <1>1, <1>3, OneHandler
<1>5. \A b \in Protected : b # by => Handlers(s, b, n) = {}
  BY <1>1, <1>3, OneHandler
<1>6. q \in Nat /\ m = q + 1 /\ Len(t.cs) = q /\ \A j \in 1..q : t.cs[j] = s.cs[j]
  BY DEF Shorter
<1>7. \A j \in 1..q : j \in 1..m /\ j # m
  BY ONLY <1>6
<1>8. \A b \in Protected : Handlers(t, b, n) \subseteq Handlers(s, b, n) \ {m}
  BY <1>6, <1>7 DEF Handlers
<1>9. \A b \in Protected : Handlers(t, b, n) = {}
  BY <1>4, <1>5, <1>8
<1>10. ~(s.cs[m].ci \in 1..(n - 1))
  <2>1. \A x \in Nat : ~(x \in 1..(x - 1))
    OBVIOUS
  <2> QED  BY <1>1, <1>2, <2>1
<1>11. SameHandlers(s, t, n - 1)
  BY <1>10, ShorterHandlers
<1> QED  BY <1>4, <1>5, <1>9, <1>11 DEF HandlerGone

ClosedBy(s, n, m) ==
  /\ m \in Nat /\ Handlers(s, "closep", n) = {m} /\ ~s.ci[n].ypcall
  /\ s.cs[m].status \in ErrorStatus \cup {"ok"}

(* A frame with a handler of lauD_closeprotected unwinds with what that has saved. *)
LEMMA ClosepUnwinds ==
  ASSUME NEW s, NEW n, NEW m, ClosedBy(s, n, m), NEW u, u = Unwinding(s, n)
  PROVE  /\ u = [level |-> s.cs[m].level, status |-> s.cs[m].status] /\ u # NoUnwinding
         /\ u.level = s.cs[m].level /\ u.status = s.cs[m].status
<1> USE DEF ClosedBy
<1>1. Max({m}) = m
  <2>1. \A x \in {m} : m >= x
    OBVIOUS
  <2> QED  BY <2>1, MaxOf
<1>2. u = [level |-> s.cs[m].level, status |-> s.cs[m].status]
  BY <1>1 DEF Unwinding
<1>3. "none" \notin ErrorStatus \cup {"ok"}
  BY DEF ErrorStatus
<1> QED  BY <1>2, <1>3 DEF NoUnwinding

-----------------------------------------------------------------------------
(* lauE_resetthread ends *)

(* A reset is the only C function, or is above the handler of the base level only. *)
LEMMA ResetBase ==
  ASSUME NEW cs, CFunctions(cs), ~NestedClose, NEW q \in Nat, q = Len(cs), q > 0, cs[q].t = "reset"
  PROVE  /\ cs[q].self => q = 2 /\ Try(cs[1], Unprotected)
         /\ ~cs[q].self => q = 1
<1>1. q \in 1..q /\ 1 \in 1..q
  OBVIOUS
<1>2. EntryOk(cs, q) /\ EntryOk(cs, 1)
  BY <1>1 DEF CFunctions
<1>3. q = 1 <=> ~cs[q].self
  BY <1>2 DEF EntryOk, Try
<1>4. q <= 3 /\ q # 3 /\ \A i \in 1..q : cs[i].t \in {"try", "reset"}
  BY <1>2 DEF EntryOk
<1>5. ASSUME cs[q].self
      PROVE  q = 2 /\ Try(cs[1], Unprotected)
  <2>1. q = 2
    <3>1. \A x \in Nat : x > 0 /\ x # 1 /\ x <= 3 /\ x # 3 => x = 2
      OBVIOUS
    <3> QED  BY <1>3, <1>4, <1>5, <3>1
  <2>2. Try(cs[1], Unprotected) \/ cs[1].t = "reset"
    BY <1>2 DEF EntryOk
  <2>3. CallsNext(cs[1], cs[2])
    <3>1. 1 \in 1..(Len(cs) - 1)
      BY <2>1
    <3>2. CallsNext(cs[1], cs[1 + 1])
      BY <3>1 DEF CFunctions
    <3>3. 1 + 1 = 2
      OBVIOUS
    <3> QED  BY <3>2, <3>3
  <2>4. cs[1].t # "reset"
    <3>1. cs[2].t = "reset"
      BY <2>1
    <3> QED  BY <2>3, <3>1 DEF CallsNext, Try
  <2> QED  BY <2>1, <2>2, <2>4
<1> QED  BY <1>3, <1>5

(* Nothing is left on the C stack but perhaps the handler of lau_resume. *)
Bared(t, k) ==
  /\ Len(t.ci) = 1 /\ t.ci[1] = BaseCI /\ Alive(t) /\ Len(t.cs) \in {0, 1}
  /\ Len(t.cs) = 1 => Try(t.cs[1], Unprotected)
  /\ k = Len(t.cs)

(* A reset that is done leaves the frame of the host, in its initial state. *)
LEMMA BareTurns ==
  ASSUME NEW s, NEW d, Base(s, d), Len(s.ci) = 1, ~TbcFrom(s, 2),
         NEW t, NEW k, Bared(t, k), t.tbclist = s.tbclist
  PROVE  Turns(s, t, 1, BaseCI) /\ Unwinding(t, 1) = NoUnwinding
<1>1. s.ci[1] = BaseCI /\ s.ci[1].func = 1 /\ Frames(s)
  BY RunningFrame, BaseFrame DEF Frames
<1>2. SameHandlers(s, t, 1 - 1)
  <2>1. \A i \in 1..(1 - 1) : FALSE
    OBVIOUS
  <2> QED  BY <2>1 DEF SameHandlers
<1>3. \A p \in 1..(s.ci[1].func - 1) : t.stack[p] = s.stack[p]
  <2>1. \A p \in 1..(1 - 1) : FALSE
    OBVIOUS
  <2> QED  BY <1>1, <2>1
<1>4. \A a \in 1..Len(s.tbclist) : t.stack[s.tbclist[a]] = s.stack[s.tbclist[a]]
  <2>1. \A a \in 1..Len(s.tbclist) : s.tbclist[a] \in Nat /\ s.tbclist[a] > 1
    BY MarksAt
  <2>2. \A a \in 1..Len(s.tbclist) : ~(s.tbclist[a] >= 2)
    BY DEF TbcFrom
  <2> QED  BY <2>1, <2>2
<1>5. \A i \in 1..(1 - 1) : t.ci[i] = s.ci[i]
  OBVIOUS
<1>6. Turns(s, t, 1, BaseCI)
  BY <1>1, <1>2, <1>3, <1>4, <1>5 DEF Turns, Bared
<1>7. Handlers(t, "closep", 1) = {}
  <2>1. \A j \in 1..Len(t.cs) : Try(t.cs[j], Unprotected)
    BY DEF Bared
  <2> QED  BY <2>1 DEF Handlers, Try, Unprotected
<1>8. ~t.ci[1].ypcall
  BY BaseFrame DEF Bared
<1> QED  BY <1>6, <1>7, <1>8, NotUnwinding

(* For LauScope the host has closed all variables. *)
LEMMA BareEnds ==
  ASSUME NEW s, NEW d, Base(s, d), Alive(s), Len(s.ci) = 1, NEW u, u = Unwinding(s, 1),
         u # NoUnwinding, u.level = 2, ~TbcFrom(s, 2),
         NEW t, NEW k, Bared(t, k), t.tbclist = s.tbclist
  PROVE  ClosedMeant(s, t, 1)
<1> DEFINE n == 1  g == BaseCI
<1>1. Turns(s, t, n, g) /\ Unwinding(t, n) = NoUnwinding
  BY BareTurns
<1>2. g.pc = "run" /\ ~g.clsret
  BY DEF BaseCI, Frame
<1>3. n = Len(s.ci) /\ u = Unwinding(s, n) /\ ~TbcFrom(s, u.level) /\ n = 1
  OBVIOUS
<1> HIDE DEF n, g
<1>4. ClosedMeant(s, t, n)
  BY <1>1, <1>2, <1>3, CaughtEnds
<1> QED  BY <1>3, <1>4

(* ... and with an error the coroutine that resets itself is dead. *)
LEMMA BareDies ==
  ASSUME NEW s, NEW d, Base(s, d), Alive(s), Len(s.ci) = 1, NEW u, u = Unwinding(s, 1),
         u # NoUnwinding, u.level = 2, ~TbcFrom(s, 2), u.status \in ErrorStatus,
         NEW t, t.tbclist = s.tbclist, t.status = u.status,
         Last(t.stack) = ErrorObject(s, u.status)
  PROVE  ClosedMeant(s, t, 1)
<1>1. Finished(s, 1) /\ ActivationOf(s, 1).phase = "caught"
  <2> DEFINE n == 1
  <2>1. n = Len(s.ci) /\ u = Unwinding(s, n) /\ ~TbcFrom(s, u.level) /\ n = 1
    OBVIOUS
  <2> HIDE DEF n
  <2>2. Finished(s, n) /\ ActivationOf(s, n).phase = "caught"
    BY <2>1, CaughtFinished
  <2> QED  BY <2>1, <2>2
<1>2. Sorted(s) /\ Len(s.stack) \in Nat /\ Len(s.tbclist) \in Nat
  BY MarksAt
<1>3. Len(s.stack) > 0 /\ CallTop(s, 1) = Len(s.stack) + 1
  <2> DEFINE n == 1
  <2>1. n = Len(s.ci) /\ n \in Nat /\ n = 1
    OBVIOUS
  <2> HIDE DEF n
  <2>2. Len(s.stack) > 0 /\ CallTop(s, n) = Len(s.stack) + 1
    BY <2>1, RunningFrame
  <2> QED  BY <2>1, <2>2
<1>4. ActivationOf(s, 1).err = <<ErrorObject(s, u.status)>>
  <2>1. ActivationOf(s, 1).err = Handled(s, 1, u)
    BY ActFields
  <2>2. CallTop(s, 1) - 1 = Len(s.stack)
    BY <1>2, <1>3
  <2>3. Last(s.stack) = s.stack[Len(s.stack)]
    BY DEF Last
  <2>4. u.status \notin {"none", "ok"}
    BY DEF ErrorStatus
  <2> QED  BY <2>1, <2>2, <2>3, <2>4 DEF Handled, ErrorObject
<1>5. ActivationOf(s, 1).err # <<>>
  <2>1. \A x : <<x>> # <<>>
    OBVIOUS
  <2> QED  BY <1>4, <2>1
<1>6. Activations(t) = Scope!Host("dead", ActivationOf(s, 1).err)
  BY <1>4 DEF Activations, Scope!Host
<1>7. Pending(t) = Pending(s)
  <2>1. \A a \in 1..Len(s.tbclist) : s.tbclist[a] \in Nat /\ s.tbclist[a] > 1
    BY MarksAt
  <2>2. \A a \in 1..Len(s.tbclist) : ~(s.tbclist[a] >= 2)
    BY DEF TbcFrom
  <2>3. \A a \in 1..Len(s.tbclist) : t.stack[s.tbclist[a]] = s.stack[s.tbclist[a]]
    BY <2>1, <2>2
  <2> QED  BY <1>2, <2>3, PendingStays
<1> QED  BY <1>1, <1>5, <1>6, <1>7 DEF ClosedMeant


(* A status that is thrown to the base level kills the coroutine, unless it is ok. *)
LEMMA BaseThrows ==
  ASSUME NEW w, NEW d, Base(w, d), w.status = "ok", Len(w.cs) = 1, Try(w.cs[1], Unprotected),
         Len(w.ci) = 1, NEW status \in ErrorStatus \cup {"ok"}
  PROVE  IF status = "ok" THEN throwbaselevel(w, status) = w
                          ELSE Died(w, throwbaselevel(w, status), status)
<1>1. w \in State /\ Frames(w) /\ w.cs \in Seq(CFunction)
  <2>1. Len(w.ci) \in Nat
    BY BaseType
  <2> QED  BY <2>1, RunningFrame, StateType
<1>2. Tries(w) = {1}
  <2>1. w.cs[1].t = "try" /\ \A i : i \in 1..1 <=> i = 1
    BY DEF Try
  <2> QED  BY <2>1 DEF Tries
<1>3. BaseTry(w) = 1
  <2>1. {1} \in SUBSET Nat /\ {1} # {}
    OBVIOUS
  <2>2. Min({1}) = 1
    BY <2>1, MinOf
  <2> QED  BY <1>2, <2>2 DEF BaseTry
<1>4. [w EXCEPT !.cs = SubSeq(@, 1, 1)] = w
  <2>1. SubSeq(w.cs, 1, 1) = w.cs
    BY <1>1
  <2> QED  BY <1>1, <2>1 DEF State
<1>5. throwbaselevel(w, status) = IF status = "ok" THEN w ELSE throw(w, status)
  BY <1>3, <1>4 DEF throwbaselevel
<1>6. ASSUME status # "ok"
      PROVE  Died(w, throw(w, status), status)
  <2>1. w.cs[Len(w.cs)].t # "reset" /\ Len(w.cs) > 0
    BY DEF Try
  <2>2. ThrownTo(w, throw(w, status), status)
    BY <1>6, <2>1, ThrowIs
  <2>3. \A j \in 1..Len(w.cs) : ~Try(w.cs[j], Protected)
    BY DEF Try, Protected, Unprotected
  <2>4. {i \in 1..Len(w.ci) : w.ci[i].ypcall} = {}
    <3>1. w.ci[1] = BaseCI
      BY <1>1 DEF Frames
    <3>2. ~w.ci[1].ypcall
      BY <3>1, BaseFrame
    <3> QED  BY <3>2
  <2> QED  BY <2>2, <2>3, <2>4 DEF ThrownTo
<1> QED  BY <1>5, <1>6

(* lauE_resetthread ends: all variables are closed, and the host has the status. *)
LEMMA resetdoneMeans ==
  ASSUME NEW s, NEW d, Base(s, d), ~NestedClose, Alive(s), Len(s.ci) = 1,
         NEW u, u = Unwinding(s, 1), u # NoUnwinding, u.level = 2,
         NEW status, status = u.status,
         NEW r, NEW c, NEW q, ResetEnds(r, c, q, status),
         r.stack = s.stack, r.tbclist = s.tbclist, r.ci = s.ci
  PROVE  ClosedMeant(s, resetdone(r, status), 1)
<1> DEFINE t == IF status = "ok" THEN SetTop(r, 2) ELSE seterrorobj(r, status, 2)
           w == PopC(t)
           ret == IF status = "ok" THEN <<"ok">> ELSE <<status, Last(t.stack)>>
           v == [w EXCEPT !.ret = ret]
<1>1. /\ Base(r, c) /\ r.status = "ok" /\ r \in State
      /\ q \in Nat /\ q > 0 /\ q = Len(r.cs) /\ r.cs[q].t = "reset" /\ Len(r.ci) = 1 /\ c[q] = 1
      /\ ~TbcFrom(r, 2) /\ status \in ErrorStatus \cup {"ok"}
  BY DEF ResetEnds
<1>2. Frames(r) /\ CFunctions(r.cs) /\ r.cs \in Seq(CFunction) /\ Len(r.stack) > 0
  <2>1. Len(r.ci) \in Nat
    BY <1>1, BaseType
  <2> QED  BY <1>1, <2>1, RunningFrame, StateType
<1>3. r.ci[1] = BaseCI
  BY <1>2 DEF Frames
<1>4. /\ Base(t, c) /\ t \in State /\ t.ci = r.ci /\ t.cs = r.cs /\ t.tbclist = r.tbclist
         /\ t.status = "ok"
  BY Cleans
<1>5. resetdone(r, status) = IF Last(r.cs).self THEN throwbaselevel(w, status) ELSE v
  BY DEF resetdone
<1>6. Last(r.cs) = r.cs[q]
  <2>1. r.cs # <<>>
    BY <1>1
  <2> QED  BY <1>1, <1>2, <2>1, FrontLast
<1>7. status = "mem" \/ status = "run" => Last(t.stack) = ErrorObject(s, status)
  <2>1. 2 \in 1..(Len(r.stack) + 1)
    <3>1. Len(r.stack) \in Nat
      BY <1>1, MarksAt
    <3> QED  BY <1>2, <3>1
  <2>2. Last(seterrorobj(r, status, 2).stack) = IF status = "mem" THEN "mem" ELSE Last(r.stack)
    BY <1>1, <1>2, <2>1, SetErrorLast
  <2> QED  BY <2>2 DEF ErrorObject
<1>8. Popped(t, w)
  <2>1. t.cs # <<>>
    BY <1>1, <1>4
  <2> HIDE DEF t
  <2> QED  BY <1>4, <2>1, PopCIs
<1>9. v = [w EXCEPT !.ret = ret]
  OBVIOUS
<1> HIDE DEF t, w, v, ret
<1>10. Base(w, c)
  <2>1. t.cs[q].t # "cfn" /\ ~Try(t.cs[q], {"closep"}) /\ q = Len(t.cs)
    BY <1>1, <1>4 DEF Try
  <2> QED  BY <1>1, <1>4, <1>8, <2>1, PopEntry
<1>11. /\ w \in State /\ w.ci = r.ci /\ w.stack = t.stack /\ w.tbclist = s.tbclist
       /\ w.status = "ok" /\ Len(w.cs) = q - 1 /\ \A j \in 1..(q - 1) : w.cs[j] = r.cs[j]
  BY <1>1, <1>4, <1>8 DEF Popped, SameCounts
<1>12. ~TbcFrom(s, 2)
  BY <1>1 DEF TbcFrom
<1>13. CASE ~r.cs[q].self
  <2>1. q = 1
    BY <1>1, <1>2, <1>13, ResetBase
  <2>2. v.ci = w.ci /\ v.cs = w.cs /\ v.tbclist = w.tbclist /\ v.status = w.status
    BY <1>9, <1>11 DEF State
  <2>3. Len(v.cs) = 0
    BY <1>11, <2>1, <2>2
  <2> DEFINE k == Len(v.cs)
  <2>4. Bared(v, k)
    BY <1>1, <1>3, <1>11, <2>2, <2>3 DEF Bared, Alive, ErrorStatus
  <2> HIDE DEF k
  <2>5. v.tbclist = s.tbclist
    BY <1>11, <2>2
  <2>6. ClosedMeant(s, v, 1)
    BY <1>12, <2>4, <2>5, BareEnds
  <2> QED  BY <1>5, <1>6, <1>13, <2>6
<1>14. CASE r.cs[q].self
  <2>1. q = 2 /\ Try(r.cs[1], Unprotected)
    BY <1>1, <1>2, <1>14, ResetBase
  <2>2. Len(w.cs) = 1 /\ Try(w.cs[1], Unprotected) /\ Len(w.ci) = 1
    <3>1. Len(w.cs) = 1 /\ 1 \in 1..(q - 1)
      BY <1>11, <2>1
    <3> QED  BY <1>1, <1>11, <2>1, <3>1
  <2>3. IF status = "ok" THEN throwbaselevel(w, status) = w
                         ELSE Died(w, throwbaselevel(w, status), status)
    BY <1>1, <1>10, <1>11, <2>2, BaseThrows
  <2>4. CASE status = "ok"
    <3> DEFINE k == Len(w.cs)
    <3>1. Bared(w, k)
      BY <1>1, <1>3, <1>11, <2>2 DEF Bared, Alive, ErrorStatus
    <3> HIDE DEF k
    <3>2. ClosedMeant(s, w, 1)
      BY <1>11, <1>12, <3>1, BareEnds
    <3> QED  BY <1>5, <1>6, <1>14, <2>3, <2>4, <3>2
  <2>5. CASE status # "ok"
    <3> DEFINE x == throwbaselevel(w, status)
    <3>1. Died(w, x, status)
      BY <2>3, <2>5
    <3>2. resetdone(r, status) = x
      BY <1>5, <1>6, <1>14
    <3> HIDE DEF x
    <3>3. x.tbclist = s.tbclist /\ x.status = u.status
      BY <1>11, <3>1 DEF Died
    <3>4. status = "mem" \/ status = "run"
      BY <1>1, <2>5 DEF ErrorStatus
    <3>5. Last(x.stack) = IF status = "mem" THEN "mem" ELSE Last(w.stack)
      BY <3>1 DEF Died
    <3>6. Last(x.stack) = ErrorObject(s, u.status)
      BY <1>7, <1>11, <3>4, <3>5 DEF ErrorObject
    <3>7. u.status \in ErrorStatus
      BY <1>1, <2>5
    <3>8. ClosedMeant(s, x, 1)
      BY <1>12, <3>3, <3>6, <3>7, BareDies
    <3> QED  BY <3>2, <3>8
  <2> QED  BY <2>4, <2>5
<1> QED  BY <1>13, <1>14


-----------------------------------------------------------------------------
(* lauD_rawrunprotected returns *)

(* To go on running is a change of one frame. *)
LEMMA AtReworks ==
  ASSUME NEW u \in State, NEW n \in Nat, n = Len(u.ci), n > 0, NEW t, t = At(u, "run"), NEW p
  PROVE  Reworked(u, t, n, AtRun(u.ci[n]), p)
<1>1. u.ci[n] \in CallInfo /\ Last(u.ci) = u.ci[n]
  <2>1. n \in 1..n /\ u.ci \in Seq(CallInfo) /\ u.ci # <<>>
    BY StateType
  <2>2. u.ci[n] \in CallInfo
    BY <2>1
  <2> QED  BY <2>1, <2>2, FrontLast
<1> DEFINE g == AtRun(u.ci[n])
<1>2. g \in CallInfo
  BY <1>1 DEF AtRun, CallInfo
<1>3. t = SetCI(u, g)
  BY <1>1 DEF At, AtRun
<1>4. g = AtRun(u.ci[n])
  OBVIOUS
<1> HIDE DEF g
<1>5. Framed(u, t, g)
  BY <1>2, <1>3, SetCIIs
<1>6. Reworked(u, t, n, g, p)
  BY <1>2, <1>5, FramedReworks
<1> QED  BY <1>4, <1>6


(* The return of lauD_rawrunprotected means nothing, or the end of a closing. *)
LEMMA TryReturnsMeans ==
  ASSUME CInv(L), ~NestedClose, TryReturns
  PROVE  Same(L, L') \/ ClosedMeant(L, L', Len(L.ci))
<1> DEFINE m == Len(L.cs)  n == Len(L.ci)  try == L.cs[m]  q == m - 1
           s == Unprotect(L, m)
<1>1. L.cs # <<>>
  BY DEF TryReturns, Control
<1>2. PICK d \in [Nat -> Nat] : Top(L, d) /\ InControl(L, d, m, n)
  BY <1>1, Controls
<1>3. try.t = "try" /\ Last(L.cs) = try
  BY <1>2 DEF TryReturns, InControl
<1>4. L' = CASE try.by \in {"resume", "recover"} -> [s EXCEPT !.ret = <<"ok">>]
             [] try.by = "pcall" -> At(s, "run")
             [] try.by = "closep"
             /\ Control(s) = "cfn" -> At(seterrorobj(s, try.status, try.level), "run")
             [] try.by = "closep" /\ Control(s) = "reset" -> resetdone(s, try.status)
  BY <1>3 DEF TryReturns
<1>5. /\ m \in Nat /\ m > 0 /\ n \in Nat /\ Base(L, d) /\ d[m] = n /\ n > 0 /\ m = Len(L.cs)
         /\ n = Len(L.ci)
      /\ L \in State /\ m \in 1..m /\ L.status = "ok"
  BY <1>2, <1>3 DEF InControl
<1>6. Try(try, {"closep"}) => ~TbcFrom(L, try.level)
  BY <1>2, <1>5 DEF Top
<1>7. Untried(L, s, d, q, n)
  BY <1>2, <1>3, <1>6, Untries
<1>8. q = m - 1 /\ try = L.cs[m]
  OBVIOUS
<1>9. BackTo(L, s, m)
  BY <1>3, <1>5, UnprotectIs
<1> HIDE DEF s, q
<1>10. /\ Base(s, d) /\ s.status = "ok" /\ s \in State /\ q \in Nat /\ q = Len(s.cs)
          /\ n = Len(s.ci)
       /\ s.nc < MaxCcalls /\ s.nny <= s.nc /\ s.ci = L.ci /\ s.stack = L.stack
          /\ s.tbclist = L.tbclist
  BY <1>7 DEF Untried
<1>a. Shorter(L, s, q)
  <2>1. Len(s.cs) = m - 1 /\ \A j \in 1..(m - 1) : s.cs[j] = L.cs[j]
    BY <1>9 DEF BackTo
  <2>2. m = q + 1
    BY <1>5, <1>8
  <2> QED  BY <1>5, <1>8, <1>10, <2>1, <2>2 DEF Shorter
<1>b. Alive(L) /\ Alive(s)
  BY <1>5, <1>10 DEF Alive, ErrorStatus
<1>11. /\ Depths(L, d) /\ Frames(L) /\ CFunctions(L.cs) /\ Len(L.stack) \in Nat /\ Len(L.stack) > 0
          /\ L.ci[n] \in CallInfo /\ FrameOk(L, n) /\ L.ci[n].func \in Nat
       /\ CallTop(L, n) = Len(L.stack) + 1 /\ L.ci[n].func <= Len(L.stack)
  BY <1>5, RunningFrame
<1>12. OnFrame(L, try, n) /\ try \in TryC
  <2>1. try \in CFunction
    BY <1>5, StateType
  <2> QED  BY <1>3, <1>5, <1>11, <2>1, EntryType DEF Depths
<1> HIDE DEF m, n, try
<1>13. CASE try.by \in Unprotected
  <2> DEFINE v == [s EXCEPT !.ret = <<"ok">>]
  <2>1. ~Try(L.cs[m], Protected)
    BY <1>8, <1>13 DEF Try, Unprotected, Protected
  <2>2. Still(L, s)
    BY <1>5, <1>10, <1>a, <1>b, <2>1, ShorterGrew
  <2>3. L' = v
    BY <1>4, <1>13 DEF Unprotected
  <2>4. <<"ok">> \in Seq(Status \cup StackValue)
    BY DEF Status
  <2>5. v \in State /\ v.ci = s.ci /\ v.stack = s.stack /\ v.cs = s.cs /\ v.tbclist = s.tbclist
        /\ v.status = s.status
    BY <1>10, <2>4 DEF State
  <2> HIDE DEF v
  <2>6. Still(L, v)
    <3>1. /\ s.ci = L.ci /\ s.tbclist = L.tbclist /\ Alive(s) /\ SameTries(L, s) /\ s.stack = L.stack
          /\ Len(L.stack) <= Len(s.stack)
      BY <2>2 DEF Still, Grew
    <3>2. SameTries(L, v)
      BY <2>5, <3>1 DEF SameTries, SameHandlers, Handlers
    <3>3. Alive(v)
      BY <2>5, <3>1 DEF Alive
    <3> QED  BY <2>5, <3>1, <3>2, <3>3 DEF Still, Grew
  <2>7. Same(L, v)
    BY <1>5, <1>b, <2>6, StillSame
  <2> QED  BY <2>3, <2>7
<1>14. CASE try.by \in Protected
  <2>1. Try(try, Protected)
    BY <1>3, <1>14 DEF Try
  <2>2. /\ try.ci = n /\ L.ci[n].kind = "C" /\ ~L.ci[n].ypcall /\ ~L.ci[n].clsret
        /\ L.ci[n].func < try.level /\ try.level <= Len(L.stack) + 1
    BY <1>11, <1>12, <2>1 DEF OnFrame
  <2>3. m # 1
    <3>1. ~Try(try, Unprotected) /\ try.t # "reset"
      BY <1>3, <1>14 DEF Try, Unprotected, Protected
    <3>2. EntryOk(L.cs, m)
      BY <1>5, <1>11 DEF CFunctions
    <3> QED  BY <1>8, <3>1, <3>2 DEF EntryOk
  <2>4. m > 1
    <3>1. \A x \in Nat : x > 0 /\ x # 1 => x > 1
      OBVIOUS
    <3> QED  BY <1>5, <2>3, <3>1
  <2>5. q > 0 /\ q + 1 = m /\ q \in 1..q /\ q \in 1..(m - 1)
    BY <1>5, <1>8, <2>4, LessOne
  <2>6. CallsNext(L.cs[q], try) /\ Deeper(L, d, q) /\ d[q] \in 1..n /\ OnFrame(L, L.cs[q], d[q])
    <3>1. q \in 1..m
      BY <1>5, <2>5
    <3> QED  BY <1>5, <1>8, <1>11, <2>5, <3>1 DEF CFunctions, Depths
  <2>7. s.cs[q] = L.cs[q]
    BY <1>a, <2>5 DEF Shorter
  <2>8. Control(s) = s.cs[q].t
    <3>1. s.cs \in Seq(CFunction) /\ s.cs # <<>>
      <4>1. s.cs = <<>> => Len(s.cs) = 0
        OBVIOUS
      <4> QED  BY <1>10, <2>5, <4>1, StateType
    <3> QED  BY <1>10, <3>1, FrontLast DEF Control
  <2>9. \/ s.cs[q].t = "cfn"
        \/ try.by = "closep" /\ s.cs[q].t = "reset" /\ try.level = 2
    BY <1>3, <1>14, <2>6, <2>7 DEF CallsNext, Try, Closing, Protected
  <2>10. d[q] = n
    <3>1. L.cs[q].t \notin {"ccall", "unroll", "exec"}
      BY <2>7, <2>9
    <3> QED  BY <1>5, <2>5, <2>6, <3>1 DEF Deeper
  <2>11. L.ci[n].recst = "ok"
    BY <1>11, <2>2 DEF FrameOk
  <2>12. ASSUME s.cs[q].t = "cfn"
         PROVE  L.ci[n].pc \notin {"close", "return", "top"}
    <3>1. Beneath(L, L.cs[q], L.cs[q + 1], d[q])
      BY <2>6 DEF Deeper
    <3>2. L.cs[q].t = "cfn" /\ L.cs[q + 1].t # "close" /\ d[q] = n
      BY <1>3, <1>8, <2>5, <2>7, <2>10, <2>12
    <3>3. L.ci[n].pc # "top"
      BY <3>1, <3>2 DEF Beneath
    <3> QED  BY <1>11, <2>2, <3>3 DEF FrameOk
  <2> DEFINE g == AtRun(L.ci[n])
  <2>14. g = AtRun(s.ci[n])
    BY <1>10
  <2>b. g = AtRun(L.ci[n])
    OBVIOUS
  <2> HIDE DEF g
  <2>13. g.func = L.ci[n].func /\ g.args = L.ci[n].args /\ g.pc = "run" /\ ~g.clsret /\ ~g.ypcall
    <3>1. L.ci[n] \in CallInfo
      BY <1>11
    <3> QED  BY <2>2, <2>b, <3>1 DEF AtRun, CallInfo
  <2>15. CASE try.by = "pcall"
    <3> DEFINE by == "pcall"  other == "closep"  t == At(s, "run")  p == Len(L.stack) + 1
    <3>1. by \in Protected /\ HandledBy(L.cs[m], by, n) /\ other \in Protected /\ other # by
      BY <1>3, <1>8, <2>2, <2>15 DEF HandledBy, Protected
    <3>2. other = "closep" /\ t = At(s, "run")
      OBVIOUS
    <3>3. p \in Nat /\ L.ci[n].func < p /\ Len(L.stack) < p
      <4>1. L.ci[n].func \in Nat /\ Len(L.stack) \in Nat /\ L.ci[n].func <= Len(L.stack)
        BY <1>11
      <4>2. \A x, y \in Nat : x <= y => y + 1 \in Nat /\ x < y + 1 /\ y < y + 1
        OBVIOUS
      <4> QED  BY <4>1, <4>2
    <3> HIDE DEF by, other, t, p
    <3>4. /\ (\A b \in Protected : b # by => Handlers(L, b, n) = {})
          /\ (\A b \in Protected : Handlers(s, b, n) = {})
          /\ SameHandlers(L, s, n - 1)
      <4>1. HandlerGone(L, s, m, n, by)
        BY ONLY ~NestedClose, <1>5, <1>a, <3>1, TopHandler
      <4> QED  BY <4>1 DEF HandlerGone
    <3>5. Handlers(L, "closep", n) = {} /\ Handlers(s, "closep", n) = {}
      BY <3>1, <3>2, <3>4
    <3>6. Idle(L, n)
      <4>1. s.cs[q].t = "cfn"
        BY <2>9, <2>15
      <4> QED  BY <1>5, <2>2, <2>12, <3>5, <4>1, CallerIdle
    <3>7. Reworked(s, t, n, AtRun(s.ci[n]), p)
      BY <1>5, <1>10, <3>2, AtReworks
    <3>8. Left(L, s, n - 1)
      BY <1>10, <1>b, <3>4 DEF Left
    <3>9. ~TbcFrom(L, p)
      BY <1>5, <3>3, NoneAbove
    <3>10. Turns(L, t, n, g)
      BY <1>5, <2>13, <2>14, <3>3, <3>7, <3>8, <3>9, ReworksTurns
    <3>11. Idle(t, n)
      <4>1. t.ci[n] = g /\ t.cs = s.cs
        BY <2>14, <3>7 DEF Reworked
      <4>2. Handlers(t, "closep", n) = {}
        BY <3>5, <4>1 DEF Handlers
      <4>3. Unwinding(t, n) = NoUnwinding
        BY <2>13, <4>1, <4>2, NotUnwinding
      <4> QED  BY <2>13, <4>1, <4>3 DEF Idle
    <3>12. Same(L, t)
      BY ONLY <1>5, <1>b, <3>6, <3>10, <3>11, TurnsSame
    <3>13. L' = t
      BY <1>4, <2>15, <3>2
    <3> QED  BY <3>12, <3>13
  <2>16. CASE try.by = "closep"
    <3> DEFINE by == "closep"
    <3>1. by \in Protected /\ HandledBy(L.cs[m], by, n) /\ by = "closep"
      BY <1>3, <1>8, <2>2, <2>16 DEF HandledBy, Protected
    <3>a. by \in Protected /\ HandledBy(L.cs[m], by, n)
      BY <3>1
    <3> HIDE DEF by
    <3>2. /\ Handlers(L, by, n) = {m}
          /\ (\A b \in Protected : Handlers(s, b, n) = {})
          /\ SameHandlers(L, s, n - 1)
      <4>1. HandlerGone(L, s, m, n, by)
        BY ONLY ~NestedClose, <1>5, <1>a, <3>a, TopHandler
      <4> QED  BY <4>1 DEF HandlerGone
    <3>3. Handlers(L, "closep", n) = {m} /\ Handlers(s, "closep", n) = {}
      BY <3>1, <3>2
    <3>4. try.status \in ErrorStatus \cup {"ok"} /\ try.level \in Nat
      BY <1>12 DEF TryC
    <3> DEFINE u == Unwinding(L, n)
    <3>6. u = Unwinding(L, n)
      OBVIOUS
    <3> HIDE DEF u
    <3>5. u # NoUnwinding /\ u.level = try.level /\ u.status = try.status
      <4>1. ClosedBy(L, n, m)
        BY <1>5, <1>8, <2>2, <3>3, <3>4 DEF ClosedBy
      <4>2. u # NoUnwinding /\ u.level = L.cs[m].level /\ u.status = L.cs[m].status
        BY ONLY <3>6, <4>1, ClosepUnwinds
      <4> QED  BY <1>8, <4>2
    <3>7. ~TbcFrom(L, try.level)
      BY <1>3, <1>6, <2>16 DEF Try
    <3>8. CASE s.cs[q].t = "cfn"
      <4> DEFINE w == seterrorobj(s, try.status, try.level)
                 t == At(w, "run")
      <4>1. try.level \in 1..(Len(s.stack) + 1)
        <5>2. \A x, y, z \in Nat : x < y /\ y <= z + 1 => y \in 1..(z + 1)
          OBVIOUS
        <5> QED  BY <1>10, <1>11, <2>2, <3>4, <5>2
      <4>2. Erred(s, w, try.level)
        BY <1>10, <1>11, <4>1, SetErrorIs
      <4>3. t = At(w, "run")
        OBVIOUS
      <4> HIDE DEF w, t
      <4>4. Reworked(s, t, n, AtRun(s.ci[n]), try.level)
        BY <1>5, <1>10, <3>4, <4>2, <4>3, RunsAgain
      <4>5. Left(L, s, n - 1)
        BY <1>10, <1>b, <3>2 DEF Left
      <4>6. Turns(L, t, n, g)
        BY <1>5, <2>2, <2>13, <2>14, <3>4, <3>7, <4>4, <4>5, ReworksTurns
      <4>7. Unwinding(t, n) = NoUnwinding
        <5>1. t.ci[n] = g /\ t.cs = s.cs
          BY <2>14, <4>4 DEF Reworked
        <5>2. Handlers(t, "closep", n) = {}
          BY <3>3, <5>1 DEF Handlers
        <5> QED  BY <2>13, <5>1, <5>2, NotUnwinding
      <4>8. ~TbcFrom(L, u.level)
        BY <3>5, <3>7
      <4>9. ClosedMeant(L, t, n)
        BY ONLY <1>5, <1>b, <2>13, <3>5, <3>6, <4>6, <4>7, <4>8, CaughtEnds
      <4>10. L' = t
        <5>1. try.by \notin {"resume", "recover"} /\ try.by # "pcall"
          BY <2>16
        <5> QED  BY <1>4, <2>8, <2>16, <3>8, <5>1 DEF t, w
      <4> QED  BY <1>5, <4>9, <4>10
    <3>9. CASE s.cs[q].t # "cfn"
      <4>1. s.cs[q].t = "reset" /\ try.level = 2
        BY <2>9, <3>9
      <4>2. n = 1
        BY <2>6, <2>7, <2>10, <4>1 DEF OnFrame
      <4>3. ~TbcFrom(s, 2)
        BY <1>10, <3>7, <4>1 DEF TbcFrom
      <4> DEFINE status == try.status
      <4>4. status = u.status /\ u.level = 2 /\ u = Unwinding(L, 1) /\ Len(L.ci) = 1
        BY <1>5, <3>5, <3>6, <4>1, <4>2
      <4>5. ResetEnds(s, d, q, status)
        BY <1>10, <2>5, <2>10, <3>4, <4>1, <4>2, <4>3 DEF ResetEnds
      <4>6. L' = resetdone(s, status)
        <5>1. try.by \notin {"resume", "recover"} /\ try.by # "pcall" /\ Control(s) = "reset"
          BY <2>8, <2>16, <4>1
        <5> QED  BY <1>4, <2>16, <5>1
      <4> HIDE DEF status
      <4>7. ClosedMeant(L, resetdone(s, status), 1)
        BY ONLY ~NestedClose, <1>5, <1>10, <1>b, <3>5, <4>4, <4>5, resetdoneMeans
      <4> QED  BY <4>4, <4>6, <4>7
    <3> QED  BY <3>8, <3>9
  <2> QED  BY <1>14, <2>15, <2>16 DEF Protected
<1> QED  BY <1>12, <1>13, <1>14 DEF TryC, Unprotected, Protected

-----------------------------------------------------------------------------
(* The loop of lauF_close ends: the closing has ended for LauScope, or is left to the
   handler that lauD_closeprotected has put on the C stack. *)

(* The activation n closes variables for no error. *)
Scoped(s, d, m, n, e) ==
  /\ Closes(s, d, m, n, e) /\ Base(s, d) /\ Alive(s) /\ n \in Nat /\ n > 0 /\ n = Len(s.ci)
  /\ s.ci[n] \in CallInfo /\ FrameOk(s, n) /\ CloseOk(s, e, n) /\ e \in CloseC /\ m = Len(s.cs)
  /\ m \in Nat /\ m > 0 /\ s.cs[m] = e /\ e.t = "close" /\ ~TbcFrom(s, e.level) /\ e.level \in Nat
  /\ Len(s.stack) \in Nat /\ s.ci[n].func \in Nat /\ CallTop(s, n) = Len(s.stack) + 1

(* A loop of lauF_close that has no variable left is Scoped. *)
LEMMA ScopedIs ==
  ASSUME NEW s, NEW d, NEW m, NEW n, NEW e, Closes(s, d, m, n, e)
  PROVE  Scoped(s, d, m, n, e)
<1>1. InControl(s, d, m, n) /\ s.cs[m] = e /\ e.t = "close" /\ ~TbcFrom(s, e.level)
  BY DEF Closes
<1>2. /\ Base(s, d) /\ n \in Nat /\ n > 0 /\ n = Len(s.ci) /\ s.ci[n] \in CallInfo /\ FrameOk(s, n)
      /\ m = Len(s.cs) /\ m \in Nat /\ m > 0 /\ s.status = "ok" /\ Len(s.stack) \in Nat
      /\ s.ci[n].func \in Nat /\ CallTop(s, n) = Len(s.stack) + 1
  BY <1>1 DEF InControl
<1>3. Looping(s, d, m, n, s.cs[m])
  BY <1>1, LoopingIs
<1>4. CloseOk(s, e, n) /\ e \in CloseC
  BY <1>1, <1>3 DEF Looping
<1>5. e.level \in Nat
  BY <1>4 DEF CloseC
<1> QED  BY <1>1, <1>2, <1>4, <1>5 DEF Scoped, Alive, ErrorStatus

(* Its activation has closed all its variables, for no error. *)
LEMMA ScopeFinished ==
  ASSUME NEW s, NEW d, NEW m, NEW n, NEW e, Scoped(s, d, m, n, e), ~NestedClose,
         ~s.ci[n].ypcall, ~Closing(e, {"closep"}), NEW f, f = s.ci[n],
         NEW p \in Nat, ~TbcFrom(s, p),
         NEW ph \in {"block", "leave"}, ph = Phase(f, NoUnwinding),
         p = IF ph = "block" THEN f.level ELSE f.func
  PROVE  Finished(s, n) /\ ActivationOf(s, n).phase = ph /\ Handlers(s, "closep", n) = {}
<1>1. /\ Base(s, d) /\ Alive(s) /\ n \in Nat /\ n > 0 /\ n = Len(s.ci) /\ m = Len(s.cs)
      /\ m \in Nat /\ m > 0 /\ s.cs[m] = e /\ e.t = "close"
  BY DEF Scoped
<1>2. d[m] = n
  BY DEF Scoped, Closes, InControl
<1>3. Handlers(s, "closep", n) = {}
  <2>1. Skeleton(s, d)
    BY <1>1 DEF Base
  <2>2. s.cs[m].t # "try" /\ s.cs[m].t # "ccall" /\ ~Closing(s.cs[m], {"closep"})
    BY <1>1
  <2>3. Handlers(s, "closep", d[m]) = {}
    BY <1>1, <2>1, <2>2, NoHandlers
  <2> QED  BY <1>2, <2>3
<1> DEFINE u == Unwinding(s, n)
           a == ActivationOf(s, n)
<1>4. u = NoUnwinding
  BY <1>3, NotUnwinding
<1>5. u = Unwinding(s, n) /\ a = ActivationOf(s, n)
  OBVIOUS
<1> HIDE DEF u, a
<1>6. a.phase = Phase(s.ci[n], u) /\ a.keep = Keep(s, n, a.phase, u)
  BY <1>5, ActFields
<1>7. a.phase = ph
  BY <1>4, <1>6
<1>8. Sorted(s) /\ Len(s.tbclist) \in Nat
  BY <1>1, MarksAt
<1>9. Older(s, p) = Len(s.tbclist)
  BY <1>8, OlderAll
<1>10. a.keep = Len(s.tbclist)
  <2>1. CASE ph = "block"
    BY <1>6, <1>7, <1>9, <2>1 DEF Keep
  <2>2. CASE ph = "leave"
    BY <1>6, <1>7, <1>9, <2>2 DEF Keep
  <2> QED  BY <2>1, <2>2
<1>11. Len(Pending(s)) = Len(s.tbclist)
  BY <1>8, PendingIs
<1>12. Len(Activations(s)) = n /\ Last(Activations(s)) = ActivationOf(s, n)
  BY <1>1, ActsAre
<1> QED  BY <1>3, <1>5, <1>7, <1>10, <1>11, <1>12 DEF Finished

(* The return of the loop is a step of the C stack alone. *)
LEMMA ClosedGrew ==
  ASSUME NEW s, NEW d, NEW m, NEW n, NEW e, Scoped(s, d, m, n, e), NEW t, Popped(s, t)
  PROVE  Still(s, t)
<1>1. s \in State /\ Alive(s) /\ m = Len(s.cs) /\ s.cs[m].t # "try"
  BY DEF Scoped, Base, Skeleton
<1>2. Grew(s, s)
  BY <1>1, GrewSelf
<1>3. Grew(s, t)
  BY ONLY <1>1, <1>2, Popped(s, t), GrewPop
<1> QED  BY <1>3 DEF Still, Popped


(* ... at the end of a block, or in lau_settop *)
LEMMA EndsBlockMeans ==
  ASSUME NEW s, NEW d, NEW m, NEW n, NEW e, Scoped(s, d, m, n, e), ~NestedClose,
         e.then \in {"close", "top"}, NEW t, Popped(s, t), NEW x, x = At(SetTop(t, e.level), "run")
  PROVE  ClosedMeant(s, x, n)
<1> DEFINE f == s.ci[n]
           p == e.level
           w == SetTop(t, p)
           g == AtRun(f)
<1>1. /\ Base(s, d) /\ Alive(s) /\ n \in Nat /\ n > 0 /\ n = Len(s.ci)
      /\ f \in CallInfo /\ FrameOk(s, n) /\ CloseOk(s, e, n) /\ e \in CloseC
      /\ e.t = "close" /\ ~TbcFrom(s, p) /\ p \in Nat
      /\ Len(s.stack) \in Nat /\ f.func \in Nat /\ CallTop(s, n) = Len(s.stack) + 1
  BY DEF Scoped
<1>2. f.level = p /\ ~f.ypcall /\ ~f.clsret /\ f.pc \in {"close", "top"}
  <2>1. CASE e.then = "close"
    <3>1. f.pc = "close" /\ f.level = p
      BY <1>1, <2>1 DEF CloseOk
    <3> QED  BY <1>1, <3>1 DEF FrameOk
  <2>2. CASE e.then = "top"
    BY <1>1, <2>2 DEF CloseOk
  <2> QED  BY <2>1, <2>2
<1>3. f.func < p /\ p <= Len(s.stack) + 1
  BY <1>1 DEF CloseOk
<1>4. Still(s, t)
  BY ClosedGrew
<1>5. Grew(s, t) /\ t.stack = s.stack /\ t \in State /\ t.ci = s.ci
  BY <1>4 DEF Still, Grew
<1>6. p \in 1..(Len(t.stack) + 1)
  <2>1. \A y, z, a \in Nat : y < z /\ z <= a + 1 => z \in 1..(a + 1)
    OBVIOUS
  <2> QED  BY <1>1, <1>3, <1>5, <2>1
<1>7. f = s.ci[n] /\ x = At(w, "run") /\ g = AtRun(t.ci[n])
  BY <1>5
<1>a. p = e.level
  OBVIOUS
<1> HIDE DEF p
<1>8. Cut(t, w, p)
  BY <1>5, <1>6, SetTopIs
<1>9. g.func = f.func /\ g.args = f.args /\ g.pc = "run" /\ ~g.clsret /\ ~g.ypcall
  BY <1>1, <1>2 DEF AtRun, CallInfo
<1> HIDE DEF w, g, f
<1>10. n = Len(t.ci)
  BY <1>1, <1>5
<1>11. Reworked(t, x, n, AtRun(t.ci[n]), p)
  BY ONLY <1>1, <1>5, <1>7, <1>8, <1>10, RunsAgain
<1>12. Alters(s, x, n, g)
  <2>1. Reworked(t, x, n, g, p) /\ g.func = s.ci[n].func /\ g.args = s.ci[n].args /\ s.ci[n].func < p
    BY <1>3, <1>7, <1>9, <1>11
  <2> QED  BY ONLY <1>1, <1>5, <2>1, Reworks
<1>13. /\ Finished(s, n) /\ ActivationOf(s, n).phase = "block" /\ Handlers(s, "closep", n) = {}
  <2> DEFINE ph == "block"
  <2>1. ph \in {"block", "leave"} /\ ph = Phase(f, NoUnwinding) /\ p = (IF ph = "block" THEN f.level ELSE f.func)
    BY <1>2 DEF Phase
  <2>2. ~Closing(e, {"closep"}) /\ ~s.ci[n].ypcall
    BY <1>2, <1>7 DEF Closing
  <2>3. ph = "block"
    OBVIOUS
  <2> HIDE DEF ph
  <2>4. Finished(s, n) /\ ActivationOf(s, n).phase = ph /\ Handlers(s, "closep", n) = {}
    BY ONLY Scoped(s, d, m, n, e), ~NestedClose, <1>1, <1>7, <2>1, <2>2, ScopeFinished
  <2> QED  BY <2>3, <2>4
<1>14. Unwinding(x, n) = NoUnwinding
  <2>1. x.ci[n] = g
    BY <1>12 DEF Alters
  <2>2. Handlers(s, "closep", n) = {}
    BY <1>13
  <2>3. Handlers(x, "closep", n) = {}
    BY ONLY <1>1, <1>12, <2>2, AltersHandlers
  <2> QED  BY <1>9, <2>1, <2>3, NotUnwinding
<1> DEFINE ph == Phase(g, NoUnwinding)
<1>15. ph = "run"
  BY <1>9 DEF Phase
<1>16. ph = Phase(g, NoUnwinding)
  OBVIOUS
<1> HIDE DEF ph
<1>17. AlterMeant(s, x, n, ph, Keep(x, n, ph, NoUnwinding))
  BY <1>1, <1>12, <1>14, <1>16, AlterMeans
<1>18. Keep(x, n, "run", NoUnwinding) = 0
  BY DEF Keep
<1>19. AlterMeant(s, x, n, "run", 0)
  BY ONLY <1>15, <1>17, <1>18
<1> QED  BY <1>13, <1>19 DEF ClosedMeant

(* ... at a return *)
LEMMA LeaveFinished ==
  ASSUME NEW s, NEW d, NEW m, NEW n, NEW e, Scoped(s, d, m, n, e), ~NestedClose,
         e.then \in {"return", "poscall"}
  PROVE  /\ Finished(s, n) /\ ActivationOf(s, n).phase = "leave"
         /\ ~TbcFrom(s, s.ci[n].func) /\ s.ci[n].u2 \in {0, 1}
         /\ s.ci[n].func + s.ci[n].u2 <= Len(s.stack)
<1> DEFINE f == s.ci[n]
<1>1. /\ Base(s, d) /\ Alive(s) /\ n \in Nat /\ n > 0 /\ n = Len(s.ci)
      /\ f \in CallInfo /\ FrameOk(s, n) /\ CloseOk(s, e, n) /\ e \in CloseC
      /\ e.t = "close" /\ ~TbcFrom(s, e.level) /\ e.level \in Nat
      /\ Len(s.stack) \in Nat /\ f.func \in Nat /\ CallTop(s, n) = Len(s.stack) + 1
  BY DEF Scoped
<1>2. Returning(f) /\ ~f.ypcall /\ f.pc \notin {"close", "top"}
  <2>1. CASE e.then = "return"
    <3>1. f.pc = "return"
      BY <1>1, <2>1 DEF CloseOk
    <3> QED  BY <1>1, <3>1 DEF FrameOk, Returning
  <2>2. CASE e.then = "poscall"
    <3>1. f.clsret
      BY <1>1, <2>2 DEF CloseOk
    <3> QED  BY <1>1, <3>1 DEF FrameOk, Returning
  <2> QED  BY <2>1, <2>2
<1>3. ~TbcFrom(s, f.func)
  <2>1. CASE e.then = "poscall"
    BY <1>1, <2>1 DEF CloseOk
  <2>2. CASE e.then = "return"
    <3>1. e.level = f.func + 1
      BY <1>1, <2>2 DEF CloseOk
    <3>2. ASSUME NEW a \in 1..Len(s.tbclist), s.tbclist[a] >= f.func PROVE FALSE
      <4>1. s.tbclist[a] \in Nat /\ s.tbclist[a] # f.func
        <5>1. s \in State /\ n \in 1..n /\ Variables(s)
          BY <1>1, RunningFrame DEF Base
        <5>2. VariableOk(s, s.tbclist[a])
          BY <5>1 DEF Variables
        <5>3. s.tbclist[a] \in Nat
          BY <1>1, MarksAt
        <5> QED  BY <1>1, <5>1, <5>2, <5>3 DEF VariableOk
      <4>2. ~(s.tbclist[a] >= f.func + 1)
        BY <1>1, <3>1 DEF TbcFrom
      <4>3. \A x, y \in Nat : x >= y /\ x # y => x >= y + 1
        OBVIOUS
      <4> HIDE DEF f
      <4> QED  BY <1>1, <3>2, <4>1, <4>2, <4>3
    <3> QED  BY <3>2 DEF TbcFrom
  <2> QED  BY <2>1, <2>2
<1>4. f.u2 \in {0, 1} /\ f.func + f.u2 <= Len(s.stack)
  <2>1. f.u2 \in 0..1 /\ f.func + f.u2 < Len(s.stack) + 1
    BY <1>1, <1>2 DEF FrameOk, Returning
  <2>2. \A x, y \in Nat, z \in 0..1 : x + z < y + 1 => x + z <= y /\ z \in {0, 1}
    OBVIOUS
  <2> QED  BY <1>1, <2>1, <2>2
<1> DEFINE ph == "leave"
           p == f.func
<1>5. ph \in {"block", "leave"} /\ ph = Phase(f, NoUnwinding) /\ p = (IF ph = "block" THEN f.level ELSE f.func)
  BY <1>2 DEF Phase, Returning
<1>6. ~Closing(e, {"closep"}) /\ ~s.ci[n].ypcall /\ f = s.ci[n] /\ p \in Nat /\ ~TbcFrom(s, p)
  BY <1>1, <1>2, <1>3 DEF Closing
<1>7. ph = "leave"
  OBVIOUS
<1> HIDE DEF ph, p, f
<1>8. Finished(s, n) /\ ActivationOf(s, n).phase = ph
  BY ONLY Scoped(s, d, m, n, e), ~NestedClose, <1>5, <1>6, ScopeFinished
<1> QED  BY <1>3, <1>4, <1>6, <1>7, <1>8

(* A function that returns is above another one. *)
LEMMA LeaverReturns ==
  ASSUME NEW s, NEW d, NEW m, NEW n, NEW e, Scoped(s, d, m, n, e), ~NestedClose,
         e.then \in {"return", "poscall"},
         NEW u, Grew(s, u), NEW c, NEW q, NEW nres, MayReturn(u, c, q, n, nres),
         u.cs[q].t = "exec" => u.ci[n - 1].pc \notin {"close", "return"},
         NEW x, x = moveresults(u, nres)
  PROVE  ClosedMeant(s, x, n)
<1>1. /\ Finished(s, n) /\ ActivationOf(s, n).phase = "leave" /\ ~TbcFrom(s, s.ci[n].func)
  BY LeaveFinished
<1>2. Base(s, d) /\ Alive(s) /\ n \in Nat /\ n = Len(s.ci)
  BY DEF Scoped
<1>3. n > 1 /\ u.ci = s.ci
  BY DEF MayReturn, Grew
<1> DEFINE r == n - 1
           f == s.ci[r]
<1>4. JustUnder(n, r)
  BY <1>2, <1>3 DEF JustUnder
<1>5. MayGoOn(u, q, f)
  BY <1>3 DEF MayGoOn
<1>6. f = s.ci[r]
  OBVIOUS
<1> HIDE DEF r, f
<1>7. ReturnMeant(s, x, n)
  BY ONLY <1>1, <1>2, <1>4, <1>5, <1>6, Grew(s, u), MayReturn(u, c, q, n, nres),
          x = moveresults(u, nres), ReturnMeans
<1> QED  BY <1>1, <1>7 DEF ClosedMeant, ReturnMeant

(* The loop of a Lau function that returns ends: the function leaves. *)
LEMMA EndsReturnMeans ==
  ASSUME NEW s, NEW d, NEW m, NEW n, NEW e, Scoped(s, d, m, n, e), ~NestedClose,
         e.then = "return", NEW t, NEW q, Closed(s, t, d, q, n, e),
         NEW x, x = leaveframe(t, s.ci[n].u2)
  PROVE  ClosedMeant(s, x, n)
<1> DEFINE nres == s.ci[n].u2
<1>1. /\ Base(t, d) /\ t.status = "ok" /\ q \in Nat /\ q > 0 /\ q = Len(t.cs) /\ n \in Nat
         /\ n = Len(t.ci) /\ t.nc < MaxCcalls /\ t.nny <= t.nc /\ Counts(t) /\ t.ci = s.ci
         /\ t.stack = s.stack /\ Popped(s, t)
      /\ e \in CloseC /\ CallsNext(t.cs[q], e)
  BY DEF Closed
<1>2. t.cs[q].t = "exec"
  <2>1. e.t = "close"
    BY <1>1 DEF CloseC
  <2> QED  BY <1>1, <2>1 DEF CallsNext, Closing, Try
<1>3. d[q] = n
  BY <1>2 DEF Closed
<1>4. nres \in {0, 1} /\ t.ci[n].func + nres <= Len(t.stack)
  BY <1>1, LeaveFinished
<1>5. x = leaveframe(t, nres)
  OBVIOUS
<1> HIDE DEF nres
<1>6. PICK u, c, k : FrameLeft(t, u, c, k, n, nres)
  BY ONLY <1>1, <1>2, <1>3, <1>4, LeavesFrame
<1>7. /\ MayReturn(u, c, k, n, nres) /\ x = moveresults(u, nres)
      /\ u.cs[k].t = "exec" => u.ci[n - 1].pc \notin {"close", "return"}
  BY <1>5, <1>6 DEF FrameLeft
<1>8. Grew(s, t)
  BY <1>1, ClosedGrew DEF Still
<1>9. Grew(s, u)
  <2>1. CASE u = t
    BY <1>8, <2>1
  <2>2. CASE Popped(t, u)
    <3>1. t.cs[q].t # "try" /\ q = Len(t.cs)
      BY <1>1, <1>2
    <3> QED  BY <1>8, <2>2, <3>1, GrewPop
  <2> QED  BY <1>6, <2>1, <2>2 DEF FrameLeft
<1> QED  BY <1>7, <1>9, LeaverReturns

(* The loop of a C function that returns ends: the function leaves. *)
LEMMA EndsPoscallMeans ==
  ASSUME NEW s, NEW d, NEW m, NEW n, NEW e, Scoped(s, d, m, n, e), ~NestedClose,
         e.then = "poscall", NEW t, t = PopC(s), NEW x, x = moveresults(t, s.ci[n].u2)
  PROVE  ClosedMeant(s, x, n)
<1> DEFINE nres == s.ci[n].u2
           q == m - 1
<1>1. /\ Base(s, d) /\ s.status = "ok" /\ m \in Nat /\ m = Len(s.cs) /\ m > 0
      /\ n \in Nat /\ n = Len(s.ci) /\ d[m] = n /\ s.nc < MaxCcalls /\ s.nny <= s.nc /\ Counts(s)
      /\ s.cs[m] = e /\ e \in CloseC
  BY DEF Scoped, Closes, InControl
<1>2. Closing(s.cs[m], {"poscall"})
  BY <1>1 DEF CloseC, Closing
<1>3. nres \in {0, 1} /\ s.ci[n].func + nres <= Len(s.stack)
  BY LeaveFinished
<1> HIDE DEF nres
<1>4. /\ Popped(s, t) /\ MayReturn(t, d, m - 1, n, nres)
      /\ t.cs[m - 1].t = "exec" => t.ci[n - 1].pc \notin {"close", "return"}
  BY <1>1, <1>2, <1>3, Leaves
<1>5. x = moveresults(t, nres) /\ q = m - 1
  BY DEF nres
<1> HIDE DEF q
<1>6. MayReturn(t, d, q, n, nres) /\ (t.cs[q].t = "exec" => t.ci[n - 1].pc \notin {"close", "return"})
  BY <1>4, <1>5
<1>7. Grew(s, t)
  BY <1>4, ClosedGrew DEF Still
<1> QED  BY <1>5, <1>6, <1>7, LeaverReturns

(* ... in finishpcallk *)
LEMMA EndsPcallkMeans ==
  ASSUME NEW s, NEW d, NEW m, NEW n, NEW e, Scoped(s, d, m, n, e), ~NestedClose,
         e.then = "pcallk", NEW t, NEW q, Closed(s, t, d, q, n, e),
         NEW x, x = pcallkdone(t, e.status, e.level)
  PROVE  ClosedMeant(s, x, n)
<1> DEFINE f == s.ci[n]
           p == e.level
           u == seterrorobj(t, e.status, p)
           g == [f EXCEPT !.recst = "ok", !.ypcall = FALSE, !.pc = "run"]
           w == SetCI(u, g)
           c == [t |-> "cfn"]
<1>1. /\ Base(s, d) /\ Alive(s) /\ n \in Nat /\ n > 0 /\ n = Len(s.ci) /\ m = Len(s.cs)
      /\ m \in Nat /\ m > 0 /\ s.cs[m] = e /\ e.t = "close" /\ d[m] = n
      /\ f \in CallInfo /\ FrameOk(s, n) /\ CloseOk(s, e, n) /\ e \in CloseC
      /\ ~TbcFrom(s, p) /\ p \in Nat
      /\ Len(s.stack) \in Nat /\ f.func \in Nat /\ CallTop(s, n) = Len(s.stack) + 1
  BY DEF Scoped, Closes, InControl
<1>2. f.ypcall /\ p = f.u2 /\ f.func < p /\ p <= Len(s.stack) + 1 /\ f.recst # "ok"
  BY <1>1 DEF CloseOk
<1>3. f.kind = "C" /\ ~f.clsret
  BY <1>1, <1>2 DEF FrameOk
<1>4. Still(s, t)
  BY ClosedGrew DEF Closed
<1>5. Grew(s, t) /\ t \in State /\ t.ci = s.ci /\ t.stack = s.stack
  BY <1>4 DEF Still, Grew
<1>a. t.ci # <<>> /\ t.ci \in Seq(CallInfo) /\ n = Len(t.ci) /\ f = t.ci[n]
  BY <1>1, <1>5, StateType
<1>6. Last(t.ci) = f
  <2> HIDE DEF f
  <2> QED  BY ONLY <1>a, FrontLast
<1>7. x = PushC(w, c)
  BY <1>6 DEF pcallkdone
<1>8. /\ g \in CallInfo /\ g.func = f.func /\ g.args = f.args /\ g.pc = "run" /\ ~g.ypcall
      /\ ~g.clsret
  BY <1>1, <1>3 DEF CallInfo
<1>9. c \in CFunction /\ c.t # "try"
  BY DEF CFunction, PlainC
<1>10. f = s.ci[n] /\ w = SetCI(u, g) /\ p = e.level
  OBVIOUS
<1> HIDE DEF g, f, w, c, p
<1>11. Erred(t, u, p)
  <2>1. p \in 1..(Len(t.stack) + 1) /\ Len(t.stack) > 0
    <3>1. \A y, z, a \in Nat : y < z /\ z <= a + 1 => z \in 1..(a + 1)
      OBVIOUS
    <3>2. Len(s.stack) > 0
      BY <1>1, RunningFrame
    <3> QED  BY <1>1, <1>2, <1>5, <3>1, <3>2
  <2> QED  BY <1>5, <2>1, SetErrorIs DEF p
<1> HIDE DEF u
<1>12. u \in State /\ u.ci = t.ci /\ u.cs = t.cs /\ u.tbclist = t.tbclist /\ u.status = t.status
         /\ \A y \in 1..(p - 1) : u.stack[y] = t.stack[y]
  BY <1>11 DEF Erred, SameCounts
<1>13. Framed(u, w, g)
  <2>1. Len(u.ci) > 0
    BY <1>1, <1>5, <1>12
  <2> QED  BY <1>8, <1>10, <1>12, <2>1, SetCIIs
<1>14. Reworked(t, w, n, g, p) /\ w \in State
  <2>1. n = Len(u.ci)
    BY <1>1, <1>5, <1>12
  <2> QED  BY <1>12, <1>13, <2>1 DEF Framed, SameCounts, Reworked
<1>15. Alters(s, w, n, g)
  <2>1. g.func = s.ci[n].func /\ g.args = s.ci[n].args /\ s.ci[n].func < p
    BY <1>2, <1>8, <1>10
  <2>2. Reworked(t, w, n, g, p)
    BY <1>14
  <2> QED  BY ONLY <1>1, <1>5, <2>1, <2>2, Reworks
<1>16. Alters(s, x, n, g)
  BY <1>7, <1>9, <1>14, <1>15, AltersPush
<1>17. Turns(s, x, n, g)
  BY <1>16, AltersTurns
<1>18. Handlers(s, "closep", n) = {}
  <2>1. Skeleton(s, d)
    BY <1>1 DEF Base
  <2>2. s.cs[m].t # "try" /\ s.cs[m].t # "ccall" /\ ~Closing(s.cs[m], {"closep"})
    BY <1>1 DEF Closing
  <2>3. Handlers(s, "closep", d[m]) = {}
    BY <1>1, <2>1, <2>2, NoHandlers
  <2> QED  BY <1>1, <2>3
<1>19. Unwinding(x, n) = NoUnwinding
  <2>1. x.ci[n] = g
    BY <1>16 DEF Alters
  <2>2. Handlers(x, "closep", n) = {}
    BY ONLY <1>1, <1>16, <1>18, AltersHandlers
  <2> QED  BY <1>8, <2>1, <2>2, NotUnwinding
<1> DEFINE v == Unwinding(s, n)
<1>20. v = [level |-> s.ci[n].u2, status |-> s.ci[n].recst]
  BY <1>2, <1>10 DEF Unwinding
<1>21. v.level = p /\ v # NoUnwinding
  <2>1. v.level = s.ci[n].u2 /\ v.status = s.ci[n].recst
    BY <1>20
  <2>2. s.ci[n].recst \in ErrorStatus \cup {"ok"}
    BY <1>1, <1>10, FrameType
  <2>3. s.ci[n].recst # "none"
    BY <2>2 DEF ErrorStatus
  <2> HIDE DEF v
  <2> QED  BY <1>2, <1>10, <2>1, <2>3 DEF NoUnwinding
<1>22. v = Unwinding(s, n)
  OBVIOUS
<1> HIDE DEF v
<1>23. ~TbcFrom(s, v.level)
  BY <1>1, <1>21
<1> QED  BY ONLY <1>1, <1>8, <1>17, <1>19, <1>21, <1>22, <1>23, CaughtEnds

(* The end of lauF_close, in each of its callers. *)
LEMMA CloseEndsMeans ==
  ASSUME CInv(L), ~NestedClose, CloseEnds
  PROVE  Same(L, L') \/ ClosedMeant(L, L', Len(L.ci))
<1> DEFINE m == Len(L.cs)
           n == Len(L.ci)
           e == L.cs[m]
           q == m - 1
           s == PopC(L)
<1>1. L.cs # <<>>
  BY DEF CloseEnds, Control
<1>2. PICK d \in [Nat -> Nat] : Top(L, d) /\ InControl(L, d, m, n)
  BY <1>1, Controls
<1>3. e.t = "close" /\ Last(L.cs) = e /\ ~TbcFrom(L, e.level) /\ CI = L.ci[n]
  BY <1>2 DEF CloseEnds, InControl, CI
<1>4. Closes(L, d, m, n, e)
  BY <1>2, <1>3 DEF Closes
<1>5. Closed(L, s, d, q, n, e)
  BY <1>4, EndsLoop
<1>6. L' = CASE e.then \in {"close", "top"} -> At(SetTop(s, e.level), "run")
                [] e.then = "return" -> leaveframe(s, CI.u2)
                [] e.then = "poscall" -> moveresults(s, CI.u2)
                [] e.then = "pcallk" -> pcallkdone(s, e.status, e.level)
                [] e.then = "closep" -> s
  BY <1>3 DEF CloseEnds
<1>7. s = PopC(L) /\ n = Len(L.ci)
  OBVIOUS
<1> HIDE DEF m, n, e, q, s
<1>8. Scoped(L, d, m, n, e)
  BY <1>4, ScopedIs
<1>9. Popped(L, s) /\ e.then \in {"close", "return", "poscall", "top", "pcallk", "closep"}
  BY <1>5 DEF Closed, CloseC
<1>10. CASE e.then \in {"close", "top"}
  <2>1. L' = At(SetTop(s, e.level), "run")
    BY <1>6, <1>10
  <2>2. ClosedMeant(L, L', n)
    BY <1>8, <1>9, <1>10, <2>1, EndsBlockMeans
  <2> QED  BY <1>7, <2>2
<1>11. CASE e.then = "return"
  <2>1. L' = leaveframe(s, L.ci[n].u2)
    BY <1>3, <1>6, <1>11
  <2>2. ClosedMeant(L, L', n)
    BY <1>5, <1>8, <1>11, <2>1, EndsReturnMeans
  <2> QED  BY <1>7, <2>2
<1>12. CASE e.then = "poscall"
  <2>1. L' = moveresults(s, L.ci[n].u2)
    BY <1>3, <1>6, <1>12
  <2>2. ClosedMeant(L, L', n)
    BY <1>7, <1>8, <1>12, <2>1, EndsPoscallMeans
  <2> QED  BY <1>7, <2>2
<1>13. CASE e.then = "pcallk"
  <2>1. L' = pcallkdone(s, e.status, e.level)
    BY <1>6, <1>13
  <2>2. ClosedMeant(L, L', n)
    BY <1>5, <1>8, <1>13, <2>1, EndsPcallkMeans
  <2> QED  BY <1>7, <2>2
<1>14. CASE e.then = "closep"
  <2>1. L' = s
    BY <1>6, <1>14
  <2>2. Still(L, s)
    BY <1>8, <1>9, ClosedGrew
  <2>3. Base(L, d) /\ Alive(L)
    BY <1>8 DEF Scoped
  <2>4. Same(L, s)
    BY <2>2, <2>3, StillSame
  <2> QED  BY <2>1, <2>4
<1> QED  BY <1>9, <1>10, <1>11, <1>12, <1>13, <1>14

-----------------------------------------------------------------------------
(* lau_closethread: the reset of a coroutine, by its host or by itself *)

ResetMeant(s, t) ==
  LET a == Last(Activations(s)) IN
  /\ Activations(t) = Scope!Host("caught", IF a.phase = "dead" THEN a.err ELSE <<>>)
  /\ Pending(t) = Pending(s)

(* No variable is older than the base of the coroutine. *)
LEMMA NoneOlder ==
  ASSUME NEW s, NEW d, Base(s, d), NEW p \in Nat, p <= 2
  PROVE  Older(s, p) = 0
<1>1. \A a \in 1..Len(s.tbclist) : s.tbclist[a] \in Nat /\ s.tbclist[a] > 1
  BY MarksAt
<1>2. \A x \in Nat : x > 1 => ~(x < p)
  OBVIOUS
<1>3. {a \in 1..Len(s.tbclist) : s.tbclist[a] < p} = {}
  BY <1>1, <1>2
<1>4. Max({0}) = 0
  <2>1. \A x \in {0} : 0 >= x
    OBVIOUS
  <2> QED  BY <2>1, MaxOf
<1>5. {0} \cup {} = {0}
  OBVIOUS
<1> QED  BY ONLY <1>3, <1>4, <1>5 DEF Older

(* What lauE_resetthread keeps of the coroutine: the error that has killed it. *)
Resetter(t, m, status) ==
  /\ Alive(t) /\ t.status = "ok" /\ t.ci = <<BaseCI>> /\ m \in 1..Len(t.cs) /\ t.cs[m].t = "try"
  /\ t.cs[m].by = "closep" /\ t.cs[m].ci = 1 /\ t.cs[m].level = 2 /\ t.cs[m].status = status

(* What a reset leaves is the activation of the host, with the error that it caught. *)
LEMMA ResetterMeans ==
  ASSUME NEW t, NEW c, Base(t, c), ~NestedClose, NEW m, NEW status, Resetter(t, m, status)
  PROVE  Activations(t) = Scope!Host("caught", IF status = "ok" THEN <<>>
                                               ELSE <<ErrorObject(t, status)>>)
<1> DEFINE n == 1
           by == "closep"
           a == ActivationOf(t, n)
           u == Unwinding(t, n)
<1>1. Skeleton(t, c) /\ Len(t.ci) = 1 /\ t.ci[1] = BaseCI /\ Alive(t) /\ m \in Nat
  BY DEF Resetter, Base
<1>2. m \in Handlers(t, by, n) /\ by \in Protected
  BY DEF Resetter, Handlers, Protected
<1>3. n = 1 /\ by = "closep" /\ n \in Nat /\ a = ActivationOf(t, n) /\ u = Unwinding(t, n)
  OBVIOUS
<1> HIDE DEF n, by, a, u
<1>4. Handlers(t, by, n) = {m}
  BY ONLY <1>1, <1>2, ~NestedClose, OneHandler
<1>5. t.cs[m].status \in ErrorStatus \cup {"ok"}
  BY ONLY <1>1, <1>2, HandlerIs
<1>6. ~t.ci[n].ypcall
  BY <1>1, <1>3, BaseFrame
<1>7. ClosedBy(t, n, m)
  BY <1>1, <1>3, <1>4, <1>5, <1>6 DEF ClosedBy
<1>8. u.level = t.cs[m].level /\ u.status = t.cs[m].status /\ u # NoUnwinding
  BY <1>3, <1>7, ClosepUnwinds
<1>9. u.level = 2 /\ u.status = status
  BY <1>8 DEF Resetter
<1>10. /\ a.phase = "caught" /\ a.keep = Older(t, u.level) /\ a.err = Handled(t, n, u)
       /\ a.first = Older(t, t.ci[n].func)
  BY <1>3, <1>8, ActFields
<1>11. a.keep = 0
  <2> DEFINE p == 2
  <2>1. p \in Nat /\ p <= 2 /\ u.level = p
    BY <1>9
  <2> HIDE DEF p
  <2> QED  BY <1>10, <2>1, NoneOlder
<1>12. a.first = 0
  <2> DEFINE p == 1
  <2>1. p \in Nat /\ p <= 2 /\ t.ci[n].func = p
    BY <1>1, <1>3, BaseFrame
  <2> HIDE DEF p
  <2> QED  BY <1>10, <2>1, NoneOlder
<1>13. a.args = <<>>
  BY <1>1, <1>3 DEF ActivationOf, BaseCI, Frame
<1>14. a.protected = FALSE
  <2>1. a.protected = (n > 1 /\ ProtectedCall(t, n))
    BY <1>3 DEF ActivationOf
  <2>2. (n > 1 /\ ProtectedCall(t, n)) = FALSE
    BY <1>3
  <2> QED  BY <2>1, <2>2
<1>15. a.err = IF status = "ok" THEN <<>> ELSE <<ErrorObject(t, status)>>
  <2>1. n = Len(t.ci)
    BY <1>1, <1>3
  <2>2. CallTop(t, n) = Len(t.stack) + 1 /\ Len(t.stack) \in Nat
    BY <1>3, <2>1, RunningFrame
  <2>3. CallTop(t, n) - 1 = Len(t.stack)
    BY <2>2
  <2>4. Last(t.stack) = t.stack[Len(t.stack)]
    BY DEF Last
  <2>5. status # "none"
    BY <1>5 DEF Resetter, ErrorStatus
  <2> QED  BY <1>9, <1>10, <2>3, <2>4, <2>5 DEF Handled, ErrorObject
<1>16. a = [args |-> a.args, protected |-> a.protected, first |-> a.first, phase |-> a.phase,
            keep |-> a.keep, err |-> a.err]
  BY <1>3 DEF ActivationOf
<1>17. Activations(t) = <<a>>
  <2>1. n > 0 /\ n = Len(t.ci)
    BY <1>1, <1>3
  <2>2. IsList(Activations(t), n) /\ \A i \in 1..n : Activations(t)[i] = ActivationOf(t, i)
    BY <1>1, <1>3, <2>1, ActsAre
  <2>3. Activations(t) = [i \in 1..1 |-> ActivationOf(t, i)]
    BY <1>3, <2>2 DEF IsList
  <2>4. [i \in 1..1 |-> ActivationOf(t, i)] = <<ActivationOf(t, 1)>>
    OBVIOUS
  <2> QED  BY <1>3, <2>3, <2>4
<1>18. a = [args |-> <<>>, protected |-> FALSE, first |-> 0, phase |-> "caught", keep |-> 0,
            err |-> IF status = "ok" THEN <<>> ELSE <<ErrorObject(t, status)>>]
  BY <1>10, <1>11, <1>12, <1>13, <1>14, <1>15, <1>16
<1> QED  BY <1>17, <1>18 DEF Scope!Host

(* lauE_resetthread, up to its loop, of coroutine u *)
Unwound(u, s) == s \in State /\ s.stack = u.stack /\ s.tbclist = u.tbclist /\ s.status = u.status

(* lauE_resetthread leaves the base frame and its handler. *)
LEMMA ResetthreadIs ==
  ASSUME NEW u, NEW s, Unwound(u, s), NEW self \in BOOLEAN, NEW t, t = resetthread(s, self),
         NEW status, status = IF u.status = "yield" THEN "ok" ELSE u.status
  PROVE  \E m : /\ Resetter(t, m, status) /\ t.stack = u.stack /\ t.tbclist = u.tbclist
<1> DEFINE z == [s EXCEPT !.ci = <<BaseCI>>, !.nny = 0, !.status = "ok"]
           e == [t |-> "reset", self |-> self, nc |-> s.nc]
           v == PushC(z, e)
           f == CloseP(v, 2, status)
           g == LoopP(2, status)
           w == PushC(v, f)
<1>1. s \in State /\ s.stack = u.stack /\ s.tbclist = u.tbclist /\ s.status = u.status
  BY DEF Unwound
<1>2. s.nc \in Nat /\ status \in ErrorStatus \cup {"ok"}
  BY <1>1, StateType DEF Status, State
<1>3. <<BaseCI>> \in Seq(CallInfo)
  <2>1. <<>> \in Seq(StackValue)
    OBVIOUS
  <2>2. BaseCI \in CallInfo
    BY <2>1 DEF CallInfo, BaseCI, Frame
  <2> QED  BY <2>2
<1>4. /\ z \in State /\ z.ci = <<BaseCI>> /\ z.stack = u.stack /\ z.tbclist = u.tbclist
      /\ z.status = "ok" /\ z.nny = 0 /\ z.nc = s.nc
  BY <1>1, <1>3 DEF State, Status
<1>5. t = PushC(w, g)
  BY <1>1 DEF resetthread, closeprotected, lauF_close, rawrunprotected, CloseP, LoopP
<1>6. e \in CFunction
  BY <1>2 DEF CFunction, ResetC
<1>7. f = CloseP(v, 2, status) /\ g = LoopP(2, status) /\ v = PushC(z, e) /\ w = PushC(v, f)
  OBVIOUS
<1> HIDE DEF z, e, f, g, w, v
<1>8. Pushed(z, v, e)
  BY <1>4, <1>6, <1>7, PushCIs
<1>9. /\ v \in State /\ v.ci = <<BaseCI>> /\ v.stack = u.stack /\ v.tbclist = u.tbclist
      /\ v.status = "ok"
  BY <1>4, <1>8 DEF Pushed, SameCounts
<1>10. v.nc \in Nat /\ v.nny \in Nat
  BY <1>9, StateType
<1>11. f \in CFunction /\ g \in CFunction
  <2>1. f \in TryC
    BY <1>2, <1>7, <1>9, <1>10 DEF CloseP, TryC
  <2>2. g \in CloseC
    BY <1>2, <1>7 DEF LoopP, CloseC
  <2> QED  BY <2>1, <2>2 DEF CFunction
<1>12. f.t = "try" /\ f.by = "closep" /\ f.ci = 1 /\ f.level = 2 /\ f.status = status
  BY <1>7, <1>9 DEF CloseP
<1>13. Pushed(v, w, f)
  BY <1>7, <1>9, <1>11, PushCIs
<1>14. Pushed(w, t, g)
  <2>1. w \in State
    BY <1>13 DEF Pushed
  <2> QED  BY <1>5, <1>11, <2>1, PushCIs
<1> DEFINE m == Len(w.cs)
<1>15. m = Len(v.cs) + 1 /\ w.cs[m] = f
  BY <1>13 DEF Pushed
<1>16. Len(v.cs) \in Nat
  BY <1>9, StateType
<1>17. Len(t.cs) = m + 1 /\ \A j \in 1..m : t.cs[j] = w.cs[j]
  BY <1>14 DEF Pushed
<1> HIDE DEF m
<1>18. m \in 1..m /\ m \in 1..(m + 1)
  BY ONLY <1>15, <1>16
<1>19. t.cs[m] = f /\ m \in 1..Len(t.cs)
  BY <1>15, <1>17, <1>18
<1>20. /\ t.ci = <<BaseCI>> /\ t.stack = u.stack /\ t.tbclist = u.tbclist /\ t.status = "ok"
  BY <1>9, <1>13, <1>14 DEF Pushed, SameCounts
<1>21. Alive(t)
  BY <1>20 DEF Alive, ErrorStatus
<1> QED  BY <1>12, <1>19, <1>20, <1>21 DEF Resetter

(* lauE_resetthread means the reset of LauScope. *)
LEMMA ResetthreadMeans ==
  ASSUME NEW u, NEW d, Base(u, d), Top(u, d), ~NestedClose, NEW s, Unwound(u, s),
         NEW self \in BOOLEAN, NEW t, t = resetthread(s, self), CInv(t)
  PROVE  ResetMeant(u, t)
<1> DEFINE status == IF u.status = "yield" THEN "ok" ELSE u.status
           a == Last(Activations(u))
           n == Len(u.ci)
<1>1. PICK c \in [Nat -> Nat] : Base(t, c)
  BY DEF CInv
<1>2. status = IF u.status = "yield" THEN "ok" ELSE u.status
  OBVIOUS
<1>3. u.status \in Status
  BY DEF Unwound, State
<1> HIDE DEF status
<1>4. PICK m : Resetter(t, m, status) /\ t.stack = u.stack /\ t.tbclist = u.tbclist
  BY <1>2, ResetthreadIs
<1>5. Activations(t) = Scope!Host("caught", IF status = "ok" THEN <<>>
                                            ELSE <<ErrorObject(t, status)>>)
  BY <1>1, <1>4, ResetterMeans
<1>6. Pending(t) = Pending(u)
  <2>1. Sorted(u)
    BY MarksAt
  <2>2. \A x \in 1..Len(u.tbclist) : t.stack[u.tbclist[x]] = u.stack[u.tbclist[x]]
    BY <1>4
  <2> QED  BY <1>4, <2>1, <2>2, PendingStays
<1>7. CASE u.status \in ErrorStatus
  <2>1. status = u.status /\ status # "ok"
    BY <1>2, <1>7 DEF ErrorStatus
  <2>2. a = [args |-> <<>>, protected |-> FALSE, first |-> 0, phase |-> "dead", keep |-> 0,
             err |-> <<Last(u.stack)>>]
    BY <1>7 DEF Activations, Last
  <2>3. a.phase = "dead" /\ a.err = <<Last(u.stack)>>
    BY <2>2
  <2>4. ErrorObject(t, status) = Last(u.stack)
    <3>1. u.status = "mem" => Last(u.stack) = "mem"
      BY DEF Top
    <3> QED  BY <1>4, <2>1, <3>1 DEF ErrorObject
  <2>5. Activations(t) = Scope!Host("caught", a.err)
    BY <1>5, <2>1, <2>3, <2>4
  <2> QED  BY <1>6, <2>3, <2>5 DEF ResetMeant
<1>8. CASE u.status \notin ErrorStatus
  <2>1. status = "ok"
    BY <1>2, <1>3, <1>8 DEF Status
  <2>2. n \in Nat
    BY BaseType
  <2>3. n > 0 /\ n = Len(u.ci) /\ Alive(u)
    BY <1>8, <2>2, RunningFrame DEF Alive
  <2> HIDE DEF n
  <2>4. a = ActivationOf(u, n)
    BY <2>2, <2>3, ActsAre
  <2>5. a.phase = Phase(u.ci[n], Unwinding(u, n))
    BY <2>4, ActFields
  <2>6. a.phase # "dead"
    BY <2>5 DEF Phase
  <2>7. Activations(t) = Scope!Host("caught", <<>>)
    BY <1>5, <2>1
  <2> QED  BY <1>6, <2>6, <2>7 DEF ResetMeant
<1> QED  BY <1>7, <1>8

(* So does lau_closethread when the host calls it. *)
LEMMA closethreadMeans ==
  ASSUME CInv(L), ~NestedClose, closethread
  PROVE  ResetMeant(L, L')
<1>1. CInv(L')
  BY closethreadStep
<1>2. PICK d \in [Nat -> Nat] : Base(L, d) /\ Top(L, d)
  BY DEF CInv
<1>3. L \in State /\ L.cs \in Seq(CFunction)
  BY <1>2, StateType DEF Base, Skeleton
<1>4. ASSUME NEW s, Unwound(L, s), NEW self \in BOOLEAN, L' = resetthread(s, self)
      PROVE  ResetMeant(L, L')
  <2> DEFINE t == L'
  <2>1. t = resetthread(s, self) /\ CInv(t)
    BY <1>1, <1>4
  <2> HIDE DEF t
  <2>2. ResetMeant(L, t)
    BY ONLY <1>2, <1>4, <2>1, ~NestedClose, ResetthreadMeans
  <2> QED  BY <2>2 DEF t
<1>5. CASE Control(L) = "host" /\ L' = resetthread([L EXCEPT !.nc = 0, !.ret = <<"ok">>], FALSE)
  <2>1. <<"ok">> \in Seq(Status \cup StackValue)
    BY DEF Status
  <2>2. Unwound(L, [L EXCEPT !.nc = 0, !.ret = <<"ok">>])
    BY <1>3, <2>1 DEF State, Unwound
  <2> QED  BY <1>4, <1>5, <2>2
<1>6. CASE InC /\ L' = resetthread([L EXCEPT !.cs = SubSeq(@, 1, BaseTry(L))], TRUE)
  <2> DEFINE m == Len(L.cs)
             n == Len(L.ci)
             k == BaseTry(L)
  <2>1. PICK c \in [Nat -> Nat] : Running(L, c, m, n) /\ L.cs[m].t = "cfn"
    BY <1>6, InCRuns
  <2>2. Skeleton(L, c) /\ m \in Nat /\ m > 0 /\ m = Len(L.cs) /\ L.cs[m].t # "reset"
    BY <2>1 DEF Running, InControl, Base
  <2>3. k = BaseTry(L)
    OBVIOUS
  <2> HIDE DEF m, n, k
  <2>4. AtFirst(L, c, m, k)
    BY ONLY <2>2, <2>3, FirstHandler
  <2>5. k \in 0..Len(L.cs)
    <3>1. k \in 1..m
      BY <2>4 DEF AtFirst
    <3> QED  BY <2>2, <3>1
  <2>6. SubSeq(L.cs, 1, k) \in Seq(CFunction)
    BY <1>3, <2>5, Prefix
  <2>7. Unwound(L, [L EXCEPT !.cs = SubSeq(@, 1, k)])
    BY <1>3, <2>6 DEF State, Unwound
  <2> QED  BY <1>4, <1>6, <2>3, <2>7
<1> QED  BY <1>5, <1>6 DEF closethread

-----------------------------------------------------------------------------
(* The loop of lauF_close calls the method of the last variable, as LauScope does: with
   its value and with the error that the closing goes on with. *)

(* What the loop e says of its activation: what it closes, and for which error. *)
ClosesAs(s, n, e, ph, u) ==
  /\ u = Unwinding(s, n) /\ ph = Phase(s.ci[n], u) /\ ph \in {"block", "leave", "caught"}
  /\ s.ci[n].func <= e.level
  /\ ph = "caught" => u.level = e.level
  /\ ph = "block" => s.ci[n].level = e.level
  /\ Keep(s, n, ph, u) = Older(s, e.level)
  /\ e.status \in ErrorStatus => u.status = e.status
  /\ e.status \notin ErrorStatus => u.status \in {"none", "ok"}

(* A loop without a handler of lauD_closeprotected closes for no error. *)
LEMMA ClosesUnwound ==
  ASSUME NEW s, NEW d, NEW m, NEW n, NEW e, Looping(s, d, m, n, e), ~NestedClose,
         e.then # "closep", ~s.ci[n].ypcall
  PROVE  Unwinding(s, n) = NoUnwinding
<1>1. /\ Base(s, d) /\ m \in Nat /\ m = Len(s.cs) /\ m > 0 /\ s.cs[m] = e /\ e.t = "close"
      /\ d[m] = n /\ Skeleton(s, d)
  BY DEF Looping, InControl
<1>2. s.cs[m].t # "try" /\ s.cs[m].t # "ccall" /\ ~Closing(s.cs[m], {"closep"})
  BY <1>1 DEF Closing
<1>3. Handlers(s, "closep", d[m]) = {}
  BY <1>1, <1>2, NoHandlers
<1> QED  BY <1>1, <1>3, NotUnwinding

(* A loop closes what its activation says, for the error that it says. *)
LEMMA ClosingIs ==
  ASSUME NEW s, NEW d, NEW m, NEW n, NEW e, Looping(s, d, m, n, e), ~NestedClose,
         NEW u, u = Unwinding(s, n), NEW ph, ph = Phase(s.ci[n], u)
  PROVE  ClosesAs(s, n, e, ph, u)
<1> DEFINE f == s.ci[n]
<1>1. /\ Base(s, d) /\ s \in State /\ m \in Nat /\ m = Len(s.cs) /\ m > 0 /\ s.cs[m] = e
      /\ e.t = "close" /\ d[m] = n /\ Skeleton(s, d) /\ n \in Nat /\ n = Len(s.ci) /\ n \in 1..n
      /\ f \in CallInfo /\ FrameOk(s, n) /\ CloseOk(s, e, n) /\ e \in CloseC /\ f.func \in Nat
  BY DEF Looping, InControl
<1>2. e.level \in Nat /\ e.status \in ErrorStatus \cup {"ok", "ktop"}
      /\ e.then \in {"close", "return", "poscall", "top", "pcallk", "closep"}
  BY <1>1 DEF CloseC
<1>3. e.then # "closep" /\ ~f.ypcall => u = NoUnwinding
  BY ClosesUnwound
<1>4. f.func <= e.level
  <2>1. \A x, y \in Nat : x < y \/ x = y => x <= y
    OBVIOUS
  <2>2. f.func < e.level \/ f.func = e.level
    BY <1>1 DEF CloseOk
  <2> QED  BY <1>1, <1>2, <2>1, <2>2
<1>5. CASE e.then \in {"close", "top"}
  <2>1. f.pc \in {"close", "top"} /\ f.level = e.level /\ e.status \notin ErrorStatus
    BY <1>1, <1>5 DEF CloseOk, ErrorStatus
  <2>2. ~f.ypcall
    BY <1>1, <2>1 DEF FrameOk
  <2>3. u = NoUnwinding /\ u.status = "none"
    BY <1>3, <1>5, <2>2 DEF NoUnwinding
  <2>4. ph = "block"
    BY <2>1, <2>3 DEF Phase
  <2>5. Keep(s, n, ph, u) = Older(s, e.level)
    BY <2>1, <2>4 DEF Keep
  <2> QED  BY <1>4, <2>1, <2>3, <2>4, <2>5 DEF ClosesAs
<1>6. CASE e.then \in {"return", "poscall"}
  <2>1. Returning(f) /\ ~f.ypcall /\ f.pc \notin {"close", "top"}
    BY <1>1, <1>6 DEF CloseOk, FrameOk, Returning
  <2>2. e.status \notin ErrorStatus
    BY <1>1, <1>6 DEF CloseOk, ErrorStatus
  <2>3. u = NoUnwinding /\ u.status = "none"
    BY <1>3, <1>6, <2>1 DEF NoUnwinding
  <2>4. ph = "leave"
    BY <2>1, <2>3 DEF Phase, Returning
  <2>5. Older(s, e.level) = Older(s, f.func)
    <3>1. CASE e.level = f.func
      BY <3>1
    <3>2. CASE e.level = f.func + 1
      <4>1. \A a \in 1..Len(s.tbclist) : s.tbclist[a] # f.func
        <5>1. Variables(s)
          BY <1>1 DEF Base
        <5> QED  BY <1>1, <5>1 DEF Variables, VariableOk
      <4>2. Sorted(s)
        BY <1>1, MarksAt
      <4> HIDE DEF f
      <4>3. Older(s, f.func + 1) = Older(s, f.func)
        BY <1>1, <4>1, <4>2, OlderNext
      <4> QED  BY <3>2, <4>3
    <3> QED  BY <1>1, <1>6, <3>1, <3>2 DEF CloseOk
  <2>6. Keep(s, n, ph, u) = Older(s, e.level)
    BY <2>4, <2>5 DEF Keep
  <2> QED  BY <1>4, <2>2, <2>3, <2>4, <2>6 DEF ClosesAs
<1>7. CASE e.then \in {"pcallk", "closep"}
  <2>1. u # NoUnwinding /\ u.level = e.level /\ u.status = e.status
        /\ e.status \in ErrorStatus \cup {"ok"}
    <3>1. CASE e.then = "pcallk"
      <4>1. f.ypcall /\ e.level = f.u2 /\ e.status = f.recst /\ f.recst # "ok"
        BY <1>1, <3>1 DEF CloseOk
      <4>2. u = [level |-> f.u2, status |-> f.recst]
        BY <4>1 DEF Unwinding
      <4>3. u.level = f.u2 /\ u.status = f.recst
        BY <4>2
      <4>4. f.recst \in ErrorStatus \cup {"ok"}
        BY <1>1, FrameType
      <4>5. f.recst # "none"
        BY <4>4 DEF ErrorStatus
      <4>6. NoUnwinding.status = "none"
        BY DEF NoUnwinding
      <4> HIDE DEF f
      <4> QED  BY <4>1, <4>3, <4>4, <4>5, <4>6
    <3>2. CASE e.then = "closep"
      <4> DEFINE by == "closep"
                 q == m - 1
      <4>1. ClosesProtected(s, d, m, n, e)
        BY <3>2, ClosesFor
      <4>2. q \in 1..m /\ q \in Nat /\ Try(s.cs[q], {"closep"}) /\ d[q] = n
        BY <4>1 DEF ClosesProtected
      <4>3. CallsNext(s.cs[q], e)
        BY DEF Looping
      <4>4. s.cs[q].level = e.level /\ s.cs[q].status = e.status
        BY <1>1, <4>2, <4>3 DEF CallsNext, Closing, Try
      <4>5. s.cs[q].ci = n
        <5>1. OnFrame(s, s.cs[q], d[q])
          BY <1>1, <4>2 DEF Looping, Depths
        <5> QED  BY <4>2, <5>1 DEF OnFrame, Try, Protected
      <4>6. q \in Handlers(s, by, n) /\ by \in Protected
        BY <1>1, <4>2, <4>5 DEF Handlers, Try, Protected
      <4>7. by = "closep"
        OBVIOUS
      <4> HIDE DEF by, q
      <4>8. Handlers(s, by, n) = {q}
        BY ONLY <1>1, <4>6, ~NestedClose, OneHandler
      <4>9. s.cs[q].status \in ErrorStatus \cup {"ok"} /\ ~s.ci[n].ypcall
        BY ONLY <1>1, <4>6, HandlerIs
      <4>10. ClosedBy(s, n, q)
        BY <4>2, <4>7, <4>8, <4>9 DEF ClosedBy
      <4>11. u # NoUnwinding /\ u.level = s.cs[q].level /\ u.status = s.cs[q].status
        BY <4>10, ClosepUnwinds
      <4> QED  BY <4>4, <4>9, <4>11
    <3> QED  BY <1>7, <3>1, <3>2
  <2>2. ph = "caught"
    BY <2>1 DEF Phase
  <2>3. Keep(s, n, ph, u) = Older(s, e.level)
    BY <2>1, <2>2 DEF Keep
  <2> QED  BY <1>4, <2>1, <2>2, <2>3 DEF ClosesAs
<1> QED  BY <1>2, <1>5, <1>6, <1>7


(* The last two slots, or the last one, are what a function above them gets. *)
LEMMA ArgsTwo ==
  ASSUME NEW p \in State, NEW func \in Nat, Len(p.stack) = func + 2
  PROVE  ArgsAt(p, func) = <<p.stack[func + 1], p.stack[func + 2]>>
<1> DEFINE q == p.stack
<1>1. q \in Seq(StackValue) /\ Len(q) = func + 2
  BY StateType
<1> HIDE DEF q
<1>2. /\ func + 1 \in Nat /\ Len(q) \in Nat /\ Len(SubSeq(q, func + 1, Len(q))) = 2
      /\ SubSeq(q, func + 1, Len(q)) \in Seq(StackValue)
  BY <1>1
<1>3. SubSeq(q, func + 1, Len(q))[1] = q[func + 1]
  BY <1>1
<1>4. SubSeq(q, func + 1, Len(q))[2] = q[func + 2]
  BY <1>1
<1>5. SubSeq(q, func + 1, Len(q)) = <<q[func + 1], q[func + 2]>>
  <2> DEFINE r == SubSeq(q, func + 1, Len(q))
  <2>1. r \in Seq(StackValue) /\ Len(r) = 2 /\ r[1] = q[func + 1] /\ r[2] = q[func + 2]
    BY <1>2, <1>3, <1>4
  <2> HIDE DEF r
  <2>2. r = <<r[1], r[2]>>
    BY <2>1
  <2>3. r = <<q[func + 1], q[func + 2]>>
    BY <2>1, <2>2
  <2> QED  BY <2>3 DEF r
<1> QED  BY <1>5 DEF ArgsAt, q

(* A function called with one value. *)
LEMMA ArgsOne ==
  ASSUME NEW p \in State, NEW func \in Nat, Len(p.stack) = func + 1
  PROVE  ArgsAt(p, func) = <<p.stack[func + 1]>>
<1> DEFINE q == p.stack
<1>1. q \in Seq(StackValue) /\ Len(q) = func + 1
  BY StateType
<1> HIDE DEF q
<1>2. SubSeq(q, func + 1, Len(q)) = <<q[func + 1]>>
  <2> DEFINE r == SubSeq(q, func + 1, Len(q))
  <2>1. r \in Seq(StackValue) /\ Len(r) = 1 /\ r[1] = q[func + 1]
    BY <1>1
  <2> HIDE DEF r
  <2>2. r = <<r[1]>>
    BY <2>1
  <2>3. r = <<q[func + 1]>>
    BY <2>1, <2>2
  <2> QED  BY <2>3 DEF r
<1> QED  BY <1>2 DEF ArgsAt, q

(* The error that the loop gives to a method. *)
GivenError(s, e) == IF e.status \in ErrorStatus THEN <<ErrorObject(s, e.status)>> ELSE <<>>

GivesArgs(s, p, e, tbc, func) ==
  /\ ArgsAt(p, func) = <<s.stack[tbc]>> \o GivenError(s, e)
  /\ e.status \in ErrorStatus => p.stack[func - 1] = ErrorObject(s, e.status)

(* The error object is in the slot below the method. *)
LEMMA ErrorPrepared ==
  ASSUME NEW s, NEW d, NEW m, NEW n, NEW e, Looping(s, d, m, n, e), NEW tbc, LastMarked(s, e, tbc),
         e.status \in ErrorStatus,
         NEW t, t = prepcallclosemth([s EXCEPT !.tbclist = Front(@)], tbc, e.status)
  PROVE  Len(t.stack) = tbc + 1 /\ t.stack[tbc + 1] = ErrorObject(s, e.status)
<1> DEFINE l == [s EXCEPT !.tbclist = Front(@)]
           top == tbc + 1
<1>1. s \in State /\ Len(s.stack) \in Nat
  BY StateType DEF Looping, InControl
<1>2. tbc \in Nat /\ tbc > 0 /\ tbc <= Len(s.stack) /\ Front(s.tbclist) \in Seq(Nat)
  BY DEF LastMarked
<1>3. l \in State /\ l.stack = s.stack
  BY <1>1, <1>2 DEF State
<1>4. t = seterrorobj(l, e.status, top)
  BY DEF prepcallclosemth, ErrorStatus
<1>5. top \in 1..(Len(s.stack) + 1) /\ top \in Nat /\ top > 0 /\ Len(s.stack) > 0
  BY <1>1, <1>2
<1> HIDE DEF l, top
<1>6. top \in 1..(Len(l.stack) + 1) /\ Len(l.stack) > 0
  BY <1>3, <1>5
<1>7. Erred(l, seterrorobj(l, e.status, top), top)
  BY <1>3, <1>6, SetErrorIs
<1>8. Last(seterrorobj(l, e.status, top).stack) = IF e.status = "mem" THEN "mem" ELSE Last(l.stack)
  BY <1>3, <1>6, SetErrorLast
<1>9. Len(t.stack) = top /\ Last(t.stack) = ErrorObject(s, e.status)
  BY <1>3, <1>4, <1>7, <1>8 DEF Erred, ErrorObject
<1>10. t.stack[top] = ErrorObject(s, e.status)
  BY <1>9 DEF Last
<1> QED  BY <1>9, <1>10 DEF top

(* Two elements and one more. *)
LEMMA TwoAndOne ==
  ASSUME NEW S, NEW a \in S, NEW b \in S, NEW c \in S
  PROVE  <<a, b>> \o <<c>> = <<a, b, c>>
<1> DEFINE q == <<a, b>> \o <<c>>
<1>1. <<a, b>> \in Seq(S) /\ <<c>> \in Seq(S) /\ <<a, b, c>> \in Seq(S)
  OBVIOUS
<1>2. q \in Seq(S) /\ Len(q) = 3
  BY <1>1
<1>3. q[1] = a /\ q[2] = b /\ q[3] = c
  BY <1>1
<1> HIDE DEF q
<1>4. q = <<q[1], q[2], q[3]>>
  BY <1>2
<1> QED  BY <1>3, <1>4 DEF q

(* The method gets the value of the variable, and the error after it if there is one. *)
LEMMA MethodArgs ==
  ASSUME NEW s, NEW d, NEW m, NEW n, NEW e, Looping(s, d, m, n, e), NEW tbc, LastMarked(s, e, tbc),
         NEW t, t = prepcallclosemth([s EXCEPT !.tbclist = Front(@)], tbc, e.status),
         NEW err, err = IF e.status \in ErrorStatus THEN <<t.stack[tbc + 1]>> ELSE <<>>,
         NEW p, p = PushStack(t, <<"func", t.stack[tbc]>> \o err)
  PROVE  GivesArgs(s, p, e, tbc, Len(t.stack) + 1)
<1> DEFINE h == Len(t.stack)
           x == t.stack[tbc]
<1>1. Prepared(s, t, e, tbc)
  BY Prepares
<1>2. /\ s \in State /\ t \in State /\ h \in Nat /\ tbc \in Nat /\ tbc > 0 /\ tbc <= h
      /\ e.status \in ErrorStatus => tbc + 1 <= h
  BY <1>1 DEF Looping, InControl, LastMarked, Prepared
<1>3. \A i \in 1..h : t.stack[i] \in StackValue
  BY <1>2, StateType
<1>4. tbc \in 1..tbc /\ tbc \in 1..h
  BY <1>2
<1>5. x = s.stack[tbc] /\ x \in StackValue /\ "func" \in StackValue
  BY <1>1, <1>3, <1>4 DEF Prepared, StackValue
<1>6. CASE e.status \in ErrorStatus
  <2> DEFINE y == t.stack[tbc + 1]
             v == <<"func", x, y>>
  <2>1. h = tbc + 1 /\ y = ErrorObject(s, e.status)
    BY <1>6, ErrorPrepared
  <2>2. tbc + 1 \in 1..h /\ h \in 1..h
    BY <1>2, <2>1
  <2>3. y \in StackValue /\ y = t.stack[h]
    BY <1>3, <2>1, <2>2
  <2>4. err = <<y>>
    BY <1>6
  <2> HIDE DEF x, y
  <2>5. <<"func", x>> \o <<y>> = v /\ v \in Seq(StackValue) /\ Len(v) = 3 /\ v[2] = x /\ v[3] = y
    <3>1. \A a, b, c \in StackValue : <<a, b>> \o <<c>> = <<a, b, c>>
      BY TwoAndOne
    <3>2. \A a, b, c \in StackValue : <<a, b, c>> \in Seq(StackValue)
      OBVIOUS
    <3>3. v \in Seq(StackValue)
      BY <1>5, <2>3, <3>2
    <3>4. Len(v) = 3 /\ v[2] = x /\ v[3] = y
      OBVIOUS
    <3> QED  BY <1>5, <2>3, <3>1, <3>3, <3>4
  <2>6. p = PushStack(t, v)
    BY <2>4, <2>5 DEF x
  <2> HIDE DEF v
  <2>7. Grown(t, p, v)
    BY <1>2, <2>5, <2>6, PushStackIs
  <2>8. /\ p \in State /\ Len(p.stack) = Len(t.stack) + 3
        /\ \A i \in 1..Len(t.stack) : p.stack[i] = t.stack[i]
        /\ \A i \in 1..3 : p.stack[Len(t.stack) + i] = v[i]
    BY <2>5, <2>7 DEF Grown
  <2>9. p.stack[h] = t.stack[h] /\ p.stack[h + 2] = x /\ p.stack[h + 3] = y
    <3>1. 2 \in 1..3 /\ 3 \in 1..3
      OBVIOUS
    <3> QED  BY <2>2, <2>5, <2>8, <3>1
  <2> DEFINE func == h + 1
  <2>10. /\ func \in Nat /\ Len(p.stack) = func + 2 /\ p.stack[func + 1] = x /\ p.stack[func + 2] = y
         /\ func - 1 = h
    <3>1. Len(p.stack) = h + 3
      BY <2>8
    <3> HIDE DEF h
    <3>2. func + 1 = h + 2 /\ func + 2 = h + 3 /\ func \in Nat /\ func - 1 = h
      BY <1>2
    <3> QED  BY <2>9, <3>1, <3>2
  <2> HIDE DEF func
  <2>11. ArgsAt(p, func) = <<p.stack[func + 1], p.stack[func + 2]>>
    BY <2>8, <2>10, ArgsTwo
  <2>12. ArgsAt(p, func) = <<x, y>>
    BY <2>10, <2>11
  <2>13. <<x, y>> = <<x>> \o <<y>>
    OBVIOUS
  <2>14. GivenError(s, e) = <<y>>
    BY <1>6, <2>1 DEF GivenError
  <2>15. p.stack[func - 1] = ErrorObject(s, e.status)
    BY <2>1, <2>3, <2>9, <2>10
  <2>16. ArgsAt(p, func) = <<s.stack[tbc]>> \o GivenError(s, e)
    BY <1>5, <2>12, <2>13, <2>14 DEF x
  <2> QED  BY <2>15, <2>16 DEF GivesArgs, func
<1>7. CASE e.status \notin ErrorStatus
  <2> DEFINE v == <<"func", x>>
  <2>1. err = <<>>
    BY <1>7
  <2> HIDE DEF x
  <2>2. <<"func", x>> \o <<>> = v /\ v \in Seq(StackValue) /\ Len(v) = 2 /\ v[2] = x
    BY <1>5
  <2>3. p = PushStack(t, v)
    BY <2>1, <2>2 DEF x
  <2> HIDE DEF v
  <2>4. Grown(t, p, v)
    BY <1>2, <2>2, <2>3, PushStackIs
  <2>5. /\ p \in State /\ Len(p.stack) = Len(t.stack) + 2
        /\ \A i \in 1..2 : p.stack[Len(t.stack) + i] = v[i]
    BY <2>2, <2>4 DEF Grown
  <2>6. p.stack[h + 2] = x /\ Len(p.stack) = h + 2
    <3>1. 2 \in 1..2
      OBVIOUS
    <3> QED  BY <2>2, <2>5, <3>1
  <2> DEFINE func == h + 1
  <2>7. func \in Nat /\ Len(p.stack) = func + 1 /\ p.stack[func + 1] = x
    <3> HIDE DEF h
    <3>1. func + 1 = h + 2 /\ func \in Nat
      BY <1>2
    <3> QED  BY <2>6, <3>1
  <2> HIDE DEF func
  <2>8. ArgsAt(p, func) = <<p.stack[func + 1]>>
    BY <2>5, <2>7, ArgsOne
  <2>9. <<x>> = <<x>> \o <<>>
    OBVIOUS
  <2>10. GivenError(s, e) = <<>>
    BY <1>7 DEF GivenError
  <2>11. ArgsAt(p, func) = <<s.stack[tbc]>> \o GivenError(s, e)
    BY <1>5, <2>7, <2>8, <2>9, <2>10 DEF x
  <2> QED  BY <1>7, <2>11 DEF GivesArgs, func
<1> QED  BY <1>6, <1>7


(* In 't' the loop e of 's' still closes the variables of its activation. *)
StillCloses(s, t, n, e) ==
  /\ Under(s, t, n) /\ SameHandlers(s, t, n) /\ t.ci[n] = s.ci[n]
  /\ Older(t, e.level) = Older(s, e.level)

(* While the method runs, its caller stays in its phase, whatever the error is now. *)
LEMMA StillClosing ==
  ASSUME NEW s, NEW d, Skeleton(s, d), NEW t, NEW n, NEW e, StillCloses(s, t, n, e),
         NEW u, NEW ph, ClosesAs(s, n, e, ph, u), NEW a, a = ActivationOf(s, n)
  PROVE  /\ Unwinding(t, n) = u /\ a.phase = ph /\ a.keep = Older(s, e.level)
         /\ ActivationOf(t, n) = Became(a, a.phase, a.keep, Handled(t, n, u))
<1>1. Unwinding(t, n) = Unwinding(s, n)
  <2>1. n \in 1..n /\ Len(s.cs) \in Nat
    BY SkeletonType DEF StillCloses, Under
  <2> QED  BY <2>1, SameUnwinding DEF StillCloses
<1>2. u = Unwinding(s, n) /\ ph = Phase(s.ci[n], u) /\ ph \in {"block", "leave", "caught"}
      /\ Keep(s, n, ph, u) = Older(s, e.level)
  BY DEF ClosesAs
<1>3. a.phase = ph /\ a.keep = Older(s, e.level)
  BY <1>2, ActFields
<1>4. u = Unwinding(t, n) /\ ph = Phase(t.ci[n], u) /\ Under(s, t, n)
  BY <1>1, <1>2 DEF StillCloses
<1>5. ActivationOf(t, n) = Became(ActivationOf(s, n), ph, Keep(t, n, ph, u), Handled(t, n, u))
  BY <1>4, TopIs
<1>6. Keep(t, n, ph, u) = Older(s, e.level)
  <2>1. CASE ph = "caught"
    <3>1. u.level = e.level
      BY <2>1 DEF ClosesAs
    <3>2. Keep(t, n, ph, u) = Older(t, u.level)
      BY <2>1 DEF Keep
    <3> QED  BY <3>1, <3>2 DEF StillCloses
  <2>2. CASE ph = "block"
    <3>1. s.ci[n].level = e.level
      BY <2>2 DEF ClosesAs
    <3>2. Keep(t, n, ph, u) = Older(t, t.ci[n].level)
      BY <2>2 DEF Keep
    <3> QED  BY <3>1, <3>2 DEF StillCloses
  <2>3. CASE ph = "leave"
    <3>1. Keep(t, n, ph, u) = Older(t, t.ci[n].func) /\ Keep(s, n, ph, u) = Older(s, s.ci[n].func)
      BY <2>3 DEF Keep
    <3>2. Older(t, t.ci[n].func) = Older(s, s.ci[n].func)
      BY Below DEF StillCloses
    <3> QED  BY <1>2, <3>1, <3>2
  <2> QED  BY <1>2, <2>1, <2>2, <2>3
<1> QED  BY <1>1, <1>2, <1>3, <1>5, <1>6

(* The loop has pushed the method of variable 'tbc', the last one. *)
MethodAt(s, p, n, e, tbc, func) ==
  /\ StillCloses(s, p, n, e) /\ OneLess(s, p) /\ tbc = Last(s.tbclist)
  /\ p.cs = s.cs /\ p.ci = s.ci /\ p.status = s.status
  /\ Pending(p) = Front(Pending(s)) /\ Last(Pending(s)) = s.stack[tbc]
  /\ Len(Pending(s)) > Older(s, e.level)
  /\ Len(p.tbclist) = Len(Pending(s)) - 1

(* The method stands above the variables that are left, and above the error object. *)
LEMMA MethodStands ==
  ASSUME NEW s, NEW d, NEW m, NEW n, NEW e, Looping(s, d, m, n, e), NEW tbc, LastMarked(s, e, tbc),
         tbc = Last(s.tbclist), TbcFrom(s, e.level),
         NEW u, NEW ph, ClosesAs(s, n, e, ph, u), NEW p, NEW func, MethodPushed(s, p, e, tbc, func)
  PROVE  MethodAt(s, p, n, e, tbc, func)
<1> DEFINE f == s.ci[n]
<1>1. /\ Base(s, d) /\ Skeleton(s, d) /\ s \in State /\ n \in Nat /\ n = Len(s.ci) /\ n \in 1..n
      /\ f \in CallInfo /\ f.func \in Nat /\ e \in CloseC /\ f.func > 0
  BY DEF Looping, InControl
<1>2. /\ tbc \in Nat /\ s.tbclist # <<>> /\ e.level <= tbc /\ e.level \in Nat
      /\ \A a \in 1..Len(Front(s.tbclist)) : Front(s.tbclist)[a] = s.tbclist[a] /\ s.tbclist[a] < tbc
  BY <1>1 DEF LastMarked, CloseC
<1>3. f.func <= e.level
  BY DEF ClosesAs
<1>4. /\ p.ci = s.ci /\ p.cs = s.cs /\ p.status = s.status /\ p.tbclist = Front(s.tbclist)
      /\ \A x \in 1..tbc : p.stack[x] = s.stack[x]
  BY DEF MethodPushed
<1>5. OneLess(s, p)
  BY <1>2, <1>4 DEF OneLess
<1>6. /\ Sorted(s) /\ Len(s.tbclist) \in Nat /\ s.tbclist \in Seq(Nat)
      /\ \A a \in 1..Len(s.tbclist) : s.tbclist[a] \in Nat /\ s.tbclist[a] > 1
  BY <1>1, MarksAt
<1>7. \A x \in Nat : x <= tbc => Older(p, x) = Older(s, x)
  BY <1>5, <1>6, OlderFront
<1>8. SameHandlers(s, p, n) /\ SameHandlers(s, p, n - 1)
  BY <1>4 DEF SameHandlers, Handlers
<1> HIDE DEF f
<1>9. f.func <= tbc /\ \A x \in 1..(f.func - 1) : x \in 1..tbc
  <2>1. f.func \in Nat /\ e.level \in Nat /\ tbc \in Nat /\ f.func <= e.level /\ e.level <= tbc
    BY <1>1, <1>2, <1>3
  <2> QED  BY ONLY <2>1
<1>10. \A x \in Nat : x <= f.func => Older(p, x) = Older(s, x)
  <2>1. \A x \in Nat : x <= f.func => x <= tbc
    <3>1. f.func \in Nat /\ tbc \in Nat
      BY <1>1, <1>2
    <3> QED  BY ONLY <1>9, <3>1
  <2> QED  BY ONLY <1>7, <2>1
<1>11. \A x \in 1..(f.func - 1) : p.stack[x] = s.stack[x]
  BY ONLY <1>4, <1>9
<1>12. Under(s, p, n)
  BY <1>1, <1>4, <1>8, <1>10, <1>11 DEF Under, f
<1>13. StillCloses(s, p, n, e)
  BY <1>2, <1>4, <1>7, <1>8, <1>12 DEF StillCloses
<1> DEFINE k == Len(s.tbclist)
<1>14. k \in Nat /\ k > 0 /\ Len(p.tbclist) = k - 1
  <2>1. Len(Front(s.tbclist)) = Len(s.tbclist) - 1 /\ Len(s.tbclist) > 0
    BY <1>2, <1>6 DEF Front
  <2> QED  BY <1>4, <1>6, <2>1
<1>15. \A a \in 1..(k - 1) : p.stack[s.tbclist[a]] = s.stack[s.tbclist[a]]
  <2>1. Len(Front(s.tbclist)) = k - 1
    BY <1>4, <1>14
  <2>2. \A a \in 1..(k - 1) : s.tbclist[a] < tbc /\ a \in 1..k
    <3>1. \A a \in 1..(k - 1) : a \in 1..k
      BY ONLY <1>14
    <3> QED  BY <1>2, <2>1, <3>1
  <2>3. \A x \in Nat : x > 1 /\ x < tbc => x \in 1..tbc
    BY <1>2
  <2>4. \A a \in 1..(k - 1) : s.tbclist[a] \in 1..tbc
    BY <1>6, <2>2, <2>3
  <2> QED  BY ONLY <1>4, <2>4
<1>16. /\ Pending(p) = Front(Pending(s)) /\ Last(Pending(s)) = s.stack[Last(s.tbclist)]
  BY <1>5, <1>6, <1>15, PendingFront
<1>17. Len(Pending(s)) = k
  BY <1>6, PendingIs
<1>18. Older(s, e.level) < k
  <2>1. Older(s, e.level) <= k /\ ~(Older(s, e.level) = k) /\ k \in Nat
    BY <1>2, <1>6, OlderAll
  <2>2. Older(s, e.level) \in Nat
    BY <1>2, <1>6, OlderSplits
  <2> DEFINE o == Older(s, e.level)
  <2> HIDE DEF o, k
  <2>3. o < k
    BY ONLY <2>1, <2>2 DEF o
  <2> QED  BY <2>3 DEF o
<1> HIDE DEF k
<1>19. Len(Pending(s)) > Older(s, e.level)
  <2>1. Older(s, e.level) \in Nat
    BY <1>2, <1>6, OlderSplits
  <2> QED  BY ONLY <1>14, <1>17, <1>18, <2>1
<1>20. Len(p.tbclist) = Len(Pending(s)) - 1
  BY <1>14, <1>17
<1> QED  BY <1>4, <1>5, <1>13, <1>16, <1>19, <1>20 DEF MethodAt


(* A frame that closes variables protects no call. *)
LEMMA LoopUnprotecting ==
  ASSUME NEW s, NEW d, NEW m, NEW n, NEW e, Looping(s, d, m, n, e)
  PROVE  ~Protecting(s, n)
<1>1. Skeleton(s, d) /\ m = Len(s.cs)
  BY DEF Looping, InControl
<1>2. Handlers(s, "pcall", n) = {}
  <2> SUFFICES ASSUME NEW j \in Handlers(s, "pcall", n) PROVE FALSE
    OBVIOUS
  <2> DEFINE by == "pcall"
  <2>1. by \in Protected /\ j \in Handlers(s, by, n) /\ by = "pcall"
    BY DEF Protected
  <2> HIDE DEF by
  <2>2. j \in 1..Len(s.cs) /\ Try(s.cs[j], Protected) /\ s.cs[j].by = by /\ d[j] = n
    BY <1>1, <2>1, HandlerIs
  <2>3. Try(s.cs[j], {"pcall"})
    BY <2>1, <2>2 DEF Try
  <2> QED  BY <1>1, <2>2, <2>3, ClosesUnhandled
<1>3. ~(s.ci[n].ypcall /\ s.ci[n].recst = "ok")
  BY ClosesOther
<1> QED  BY <1>2, <1>3 DEF Protecting

(* Its activations are still those of 's', but for the error. *)
LEMMA MethodLike ==
  ASSUME NEW s, NEW d, NEW m, NEW n, NEW e, Looping(s, d, m, n, e), s.status = "ok",
         NEW u, NEW ph, ClosesAs(s, n, e, ph, u), NEW p, NEW tbc, NEW func,
         MethodAt(s, p, n, e, tbc, func)
  PROVE  Like(p, Activations(s), n)
<1> DEFINE al == Activations(s)
           a == ActivationOf(s, n)
           b == ActivationOf(p, n)
<1>1. /\ Skeleton(s, d) /\ n \in Nat /\ n > 0 /\ n \in 1..n /\ n = Len(s.ci)
  BY DEF Looping, InControl
<1>2. Alive(s)
  BY DEF Alive, ErrorStatus
<1>3. /\ IsList(al, n) /\ Len(al) = n /\ al[n] = a /\ \A i \in 1..(n - 1) : al[i] = ActivationOf(s, i)
  <2>1. IsList(al, n) /\ Len(al) = n /\ \A i \in 1..n : al[i] = ActivationOf(s, i)
    BY <1>1, <1>2, ActsAre
  <2>2. \A i \in 1..(n - 1) : i \in 1..n
    BY <1>1
  <2> QED  BY <1>1, <2>1, <2>2
<1>4. StillCloses(s, p, n, e) /\ p.ci = s.ci /\ p.cs = s.cs
  BY DEF MethodAt
<1>5. \A i \in 1..(n - 1) : ActivationOf(p, i) = ActivationOf(s, i)
  BY <1>1, <1>4, Below DEF StillCloses
<1>6. \E x : al[n] = Became(b, b.phase, b.keep, x)
  <2> DEFINE h == Handled(p, n, u)
  <2>1. a = ActivationOf(s, n)
    OBVIOUS
  <2>2. b = Became(a, a.phase, a.keep, h)
    <3> HIDE DEF a
    <3> QED  BY <1>1, <1>4, <2>1, StillClosing
  <2> HIDE DEF h
  <2>3. ButErr(a, b)
    BY <2>2, ErrOnly
  <2>4. \E x : a = Became(a, a.phase, a.keep, x)
    <3> HIDE DEF a
    <3> QED  BY <2>1, ActItself
  <2> HIDE DEF a, b
  <2>5. PICK x : a = Became(a, a.phase, a.keep, x)
    BY <2>4
  <2>6. a = Became(b, b.phase, b.keep, x)
    BY ONLY <2>3, <2>5 DEF ButErr
  <2> QED  BY <1>3, <2>6
<1>7. ~Protecting(p, n)
  <2>1. ~Protecting(s, n)
    BY LoopUnprotecting
  <2> QED  BY <1>4, <2>1 DEF Protecting, Handlers
<1>8. n = Len(p.ci) /\ IsList(al, Len(al)) /\ Len(al) \in Nat /\ n <= Len(al)
  BY <1>1, <1>3, <1>4
<1> HIDE DEF al, a
<1>9. \A i \in 1..(n - 1) : al[i] = ActivationOf(p, i)
  BY <1>3, <1>5
<1>10. Len(al) = IF Protecting(p, n) THEN n + 1 ELSE n
  BY <1>3, <1>7
<1>11. Like(p, al, n)
  BY <1>1, <1>6, <1>7, <1>8, <1>9, <1>10 DEF Like, b
<1> QED  BY <1>11 DEF al

(* The method of the last variable of an activation that closes them is called. *)
CallCloseMeant(s, t, n) ==
  LET a == ActivationOf(s, n)
  IN  /\ Len(Activations(s)) = n /\ Last(Activations(s)) = a /\ a.phase \in {"block", "leave", "caught"}
      /\ Len(Pending(s)) > a.keep /\ Pending(t) = Front(Pending(s))
      /\ \/ Activations(t) = Append(Activations(s),
              Act(<<Last(Pending(s))>> \o a.err, FALSE, Len(Pending(s)) - 1, "run", 0, <<>>))
         \/ Activations(t) = Scope!AfterError(Activations(s), message)

(* The error that the caller now goes on with is the one that the method was given. *)
LEMMA ErrorGiven ==
  ASSUME NEW s, NEW d, NEW m, NEW n, NEW e, Looping(s, d, m, n, e),
         NEW u, NEW ph, ClosesAs(s, n, e, ph, u), NEW t, NEW top, CallTop(t, n) = top,
         e.status \in ErrorStatus => t.stack[top - 1] = ErrorObject(s, e.status)
  PROVE  Handled(t, n, u) = GivenError(s, e)
<1>1. CASE e.status \in ErrorStatus
  <2>1. u.status = e.status /\ u.status \notin {"none", "ok"}
    BY <1>1 DEF ClosesAs, ErrorStatus
  <2>2. t.stack[top - 1] = ErrorObject(s, e.status)
    BY <1>1
  <2>3. Handled(t, n, u) = IF u.status = "mem" THEN <<"mem">> ELSE <<t.stack[top - 1]>>
    BY <2>1 DEF Handled
  <2> QED  BY <1>1, <2>1, <2>2, <2>3 DEF GivenError, ErrorObject
<1>2. CASE e.status \notin ErrorStatus
  <2>1. u.status \in {"none", "ok"}
    BY <1>2 DEF ClosesAs
  <2> QED  BY <1>2, <2>1 DEF Handled, GivenError
<1> QED  BY <1>1, <1>2

(* It is also the one that the caller had before. *)
LEMMA LoopError ==
  ASSUME NEW s, NEW d, NEW m, NEW n, NEW e, Looping(s, d, m, n, e),
         NEW u, NEW ph, ClosesAs(s, n, e, ph, u), NEW a, a = ActivationOf(s, n)
  PROVE  a.err = GivenError(s, e) /\ StillCloses(s, s, n, e)
<1>1. /\ Skeleton(s, d) /\ n \in Nat /\ n > 0 /\ n \in 1..n /\ n = Len(s.ci)
      /\ CallTop(s, n) = Len(s.stack) + 1 /\ Len(s.stack) \in Nat
  BY DEF Looping, InControl
<1>2. u = Unwinding(s, n)
  BY DEF ClosesAs
<1>3. a.err = Handled(s, n, u)
  BY <1>2, ActFields
<1>4. (Len(s.stack) + 1) - 1 = Len(s.stack)
  BY <1>1
<1> DEFINE top == Len(s.stack) + 1
<1>5. CallTop(s, n) = top
  BY <1>1
<1>6. e.status \in ErrorStatus => Last(s.stack) = s.stack[top - 1]
  BY <1>4 DEF Last
<1> HIDE DEF top
<1>7. CASE e.status \in ErrorStatus /\ e.status # "mem"
  <2>1. s.stack[top - 1] = ErrorObject(s, e.status)
    BY <1>6, <1>7 DEF ErrorObject
  <2>2. Handled(s, n, u) = GivenError(s, e)
    BY <1>5, <2>1, ErrorGiven
  <2> QED  BY <1>1, <1>3, <2>2 DEF StillCloses, Under, SameHandlers
<1>8. CASE e.status = "mem"
  <2>1. u.status = "mem"
    BY <1>8 DEF ClosesAs, ErrorStatus
  <2>2. Handled(s, n, u) = <<"mem">> /\ GivenError(s, e) = <<"mem">>
    BY <1>8, <2>1 DEF Handled, GivenError, ErrorObject, ErrorStatus
  <2> QED  BY <1>1, <1>3, <2>2 DEF StillCloses, Under, SameHandlers
<1>9. CASE e.status \notin ErrorStatus
  <2>1. u.status \in {"none", "ok"}
    BY <1>9 DEF ClosesAs
  <2>2. Handled(s, n, u) = <<>> /\ GivenError(s, e) = <<>>
    BY <1>9, <2>1 DEF Handled, GivenError
  <2> QED  BY <1>1, <1>3, <2>2 DEF StillCloses, Under, SameHandlers
<1> QED  BY <1>7, <1>8, <1>9


(* What is needed of the call of the method. *)
MethodCall(s, d, m, n, e, p, tbc, func, u, ph) ==
  /\ Looping(s, d, m, n, e) /\ s.status = "ok" /\ ClosesAs(s, n, e, ph, u)
  /\ MethodAt(s, p, n, e, tbc, func) /\ GivesArgs(s, p, e, tbc, func)
  /\ MayCall(p, d, m, n, func, 0)

(* The frame of the method is pushed. *)
LEMMA MethodEntered ==
  ASSUME NEW s, NEW d, NEW m, NEW n, NEW e, NEW p, NEW tbc, NEW func, NEW u, NEW ph,
         MethodCall(s, d, m, n, e, p, tbc, func, u, ph), NEW t, Called(p, t, n, func)
  PROVE  CallCloseMeant(s, t, n)
<1> DEFINE a == ActivationOf(s, n)
<1>1. /\ Looping(s, d, m, n, e) /\ ClosesAs(s, n, e, ph, u) /\ MethodAt(s, p, n, e, tbc, func)
      /\ GivesArgs(s, p, e, tbc, func) /\ MayCall(p, d, m, n, func, 0) /\ Alive(s)
  BY DEF MethodCall, Alive, ErrorStatus
<1>2. /\ Skeleton(s, d) /\ n \in Nat /\ n > 0 /\ n \in 1..n /\ n = Len(s.ci)
  BY <1>1 DEF Looping, InControl
<1>3. /\ t.stack = p.stack /\ t.tbclist = p.tbclist /\ t.status = "ok" /\ Len(t.ci) = n + 1
      /\ (\A i \in 1..n : t.ci[i] = p.ci[i]) /\ t.ci[n + 1].func = func
      /\ SameHandlers(p, t, n) /\ \A by \in Protected : Handlers(t, by, n + 1) = {}
  BY DEF Called
<1>4. /\ StillCloses(s, p, n, e) /\ p.ci = s.ci /\ p.cs = s.cs
  BY <1>1 DEF MethodAt
<1>5. StillCloses(s, t, n, e)
  <2>1. \A x : Older(t, x) = Older(p, x)
    BY <1>3, OlderSame
  <2>2. SameHandlers(s, t, n) /\ SameHandlers(s, t, n - 1)
    <3>1. SameHandlers(s, t, n)
      BY <1>3, <1>4 DEF SameHandlers, Handlers
    <3>2. \A i \in 1..(n - 1) : i \in 1..n
      BY <1>2
    <3> QED  BY <3>1, <3>2 DEF SameHandlers
  <2>3. (\A i \in 1..(n - 1) : t.ci[i] = s.ci[i]) /\ t.ci[n] = s.ci[n]
    <3>1. \A i \in 1..(n - 1) : i \in 1..n
      BY <1>2
    <3> QED  BY <1>2, <1>3, <1>4, <3>1
  <2>4. n \in 1..Len(s.ci) /\ n \in 1..Len(t.ci)
    BY <1>2, <1>3
  <2>5. Under(s, p, n) /\ Older(p, e.level) = Older(s, e.level)
    BY <1>4 DEF StillCloses
  <2>6. /\ \A x \in 1..(s.ci[n].func - 1) : t.stack[x] = s.stack[x]
        /\ \A x \in Nat : x <= s.ci[n].func => Older(t, x) = Older(s, x)
    BY <1>3, <2>1, <2>5 DEF Under
  <2>7. t.ci[n].func = s.ci[n].func /\ t.ci[n].args = s.ci[n].args
    BY <2>3
  <2>8. Under(s, t, n)
    BY <2>2, <2>3, <2>4, <2>6, <2>7 DEF Under
  <2> QED  BY <2>1, <2>2, <2>3, <2>5, <2>8 DEF StillCloses
<1>6. a.err = GivenError(s, e) /\ StillCloses(s, s, n, e)
  BY <1>1, LoopError
<1>7. Handled(t, n, u) = GivenError(s, e)
  <2>1. CallTop(t, n) = func
    <3>1. n < Len(t.ci)
      BY <1>2, <1>3
    <3> QED  BY <1>3, <3>1 DEF CallTop
  <2>2. e.status \in ErrorStatus => t.stack[func - 1] = ErrorObject(s, e.status)
    BY <1>1, <1>3 DEF GivesArgs
  <2> QED  BY <1>1, <2>1, <2>2, ErrorGiven
<1>8. a = ActivationOf(s, n)
  OBVIOUS
<1> HIDE DEF a
<1>9. /\ a.phase = ph /\ a.keep = Older(s, e.level)
      /\ ActivationOf(t, n) = Became(a, a.phase, a.keep, a.err)
  BY <1>1, <1>2, <1>5, <1>6, <1>7, <1>8, StillClosing
<1>10. a = Became(a, a.phase, a.keep, a.err)
  <2>1. ActivationOf(s, n) = Became(a, a.phase, a.keep, Handled(s, n, u))
    BY <1>1, <1>2, <1>6, <1>8, StillClosing
  <2>2. u = Unwinding(s, n)
    BY <1>1 DEF ClosesAs
  <2>3. a.err = Handled(s, n, u)
    BY <1>8, <2>2, ActFields
  <2> QED  BY <1>8, <2>1, <2>3
<1>11. ActivationOf(t, n) = ActivationOf(s, n)
  BY <1>8, <1>9, <1>10
<1>12. Activations(t) = Append(Activations(s), ActivationOf(t, n + 1))
  <2>1. Under(s, t, n)
    BY <1>5 DEF StillCloses
  <2>2. Alive(t)
    BY <1>3 DEF Alive, ErrorStatus
  <2> QED  BY <1>1, <1>2, <1>3, <1>11, <2>1, <2>2, ActsAppend
<1>13. /\ Pending(p) = Front(Pending(s)) /\ Last(Pending(s)) = s.stack[tbc]
       /\ Len(Pending(s)) > Older(s, e.level) /\ Len(p.tbclist) = Len(Pending(s)) - 1
  BY <1>1 DEF MethodAt
<1>14. Pending(t) = Front(Pending(s))
  BY <1>3, <1>13 DEF Pending
<1>15. ActivationOf(t, n + 1)
         = Act(<<Last(Pending(s))>> \o a.err, FALSE, Len(Pending(s)) - 1, "run", 0, <<>>)
  <2>1. Base(p, d) /\ n = Len(p.ci) /\ func \in Nat /\ \A x \in 1..Len(p.tbclist) : p.tbclist[x] < func
    BY <1>1 DEF MayCall
  <2>2. PICK q \in BOOLEAN : /\ q <=> Protecting(p, n)
          /\ ActivationOf(t, n + 1) = Act(ArgsAt(p, func), q, Len(p.tbclist), "run", 0, <<>>)
    BY <2>1, NewActivation
  <2>3. ~Protecting(p, n)
    <3>1. ~Protecting(s, n)
      BY <1>1, LoopUnprotecting
    <3> QED  BY <1>4, <3>1 DEF Protecting, Handlers
  <2>4. q = FALSE
    BY <2>2, <2>3
  <2>5. ArgsAt(p, func) = <<Last(Pending(s))>> \o a.err
    BY <1>1, <1>6, <1>13 DEF GivesArgs, a
  <2> QED  BY ONLY <1>13, <2>2, <2>4, <2>5
<1>16. Len(Activations(s)) = n /\ Last(Activations(s)) = a
  BY <1>1, <1>2, <1>8, ActsAre
<1>17. a.phase \in {"block", "leave", "caught"}
  BY <1>1, <1>9 DEF ClosesAs
<1> QED  BY <1>8, <1>9, <1>12, <1>13, <1>14, <1>15, <1>16, <1>17 DEF CallCloseMeant

(* There was no room to call it. *)
LEMMA MethodFails ==
  ASSUME NEW s, NEW d, NEW m, NEW n, NEW e, NEW p, NEW tbc, NEW func, NEW u, NEW ph,
         MethodCall(s, d, m, n, e, p, tbc, func, u, ph), NEW t,
         ErrorMeant(p, t, Activations(s), message)
  PROVE  CallCloseMeant(s, t, n)
<1> DEFINE a == ActivationOf(s, n)
<1>1. /\ Looping(s, d, m, n, e) /\ ClosesAs(s, n, e, ph, u) /\ MethodAt(s, p, n, e, tbc, func)
      /\ Alive(s)
  BY DEF MethodCall, Alive, ErrorStatus
<1>2. /\ Skeleton(s, d) /\ n \in Nat /\ n > 0 /\ n \in 1..n /\ n = Len(s.ci)
  BY <1>1 DEF Looping, InControl
<1>3. Activations(t) = Scope!AfterError(Activations(s), message) /\ Pending(t) = Pending(p)
  BY DEF ErrorMeant
<1>4. a = ActivationOf(s, n) /\ Len(Activations(s)) = n /\ Last(Activations(s)) = a
  BY <1>1, <1>2, ActsAre
<1> HIDE DEF a
<1>5. StillCloses(s, s, n, e)
  BY <1>1, <1>4, LoopError
<1>6. a.phase = ph /\ a.keep = Older(s, e.level)
  BY <1>1, <1>2, <1>4, <1>5, StillClosing
<1>7. a.phase \in {"block", "leave", "caught"}
  BY <1>1, <1>6 DEF ClosesAs
<1>8. Pending(p) = Front(Pending(s)) /\ Len(Pending(s)) > Older(s, e.level)
  BY <1>1 DEF MethodAt
<1> QED  BY <1>3, <1>4, <1>6, <1>7, <1>8 DEF CallCloseMeant

(* The loop of lauF_close calls the next method. *)
LEMMA CloseVarMeans ==
  ASSUME CInv(L), ~NestedClose, NEW kind \in {"Lau", "C"}, CloseVar(kind)
  PROVE  CallCloseMeant(L, L', Len(L.ci))
<1> DEFINE m == Len(L.cs)
           n == Len(L.ci)
           e == Last(L.cs)
           tbc == Last(L.tbclist)
           t == prepcallclosemth([L EXCEPT !.tbclist = Front(@)], tbc, e.status)
           err == IF e.status \in ErrorStatus THEN <<t.stack[tbc + 1]>> ELSE <<>>
           p == PushStack(t, <<"func", t.stack[tbc]>> \o err)
           func == Len(t.stack) + 1
           y == IF e.yy THEN 0 ELSE 1
           al == Activations(L)
           u == Unwinding(L, n)
           ph == Phase(L.ci[n], u)
<1>1. Control(L) = "close" /\ TbcFrom(L, e.level) /\ L' = ccall(p, func, 0, 1, y, kind)
  BY DEF CloseVar
<1>2. L.cs # <<>>
  BY <1>1 DEF Control
<1>3. PICK d \in [Nat -> Nat] : InControl(L, d, m, n)
  BY <1>2, Controls
<1>4. L.cs[m].t = "close" /\ e = L.cs[m]
  BY <1>1, <1>3 DEF InControl
<1>5. Looping(L, d, m, n, e)
  BY <1>3, <1>4, LoopingIs
<1>6. LastMarked(L, e, tbc)
  BY <1>1, <1>5, MarkedLast
<1>7. Prepared(L, t, e, tbc)
  BY <1>5, <1>6, Prepares
<1>8. u = Unwinding(L, n) /\ ph = Phase(L.ci[n], u) /\ tbc = Last(L.tbclist)
      /\ t = prepcallclosemth([L EXCEPT !.tbclist = Front(@)], tbc, e.status)
      /\ err = (IF e.status \in ErrorStatus THEN <<t.stack[tbc + 1]>> ELSE <<>>)
      /\ p = PushStack(t, <<"func", t.stack[tbc]>> \o err) /\ func = Len(t.stack) + 1
  OBVIOUS
<1> HIDE DEF e, tbc, t, u, ph
<1>9. MethodPushed(L, p, e, tbc, func)
  BY <1>5, <1>6, <1>7, PushesMethod
<1> HIDE DEF err, p, func
<1>10. GivesArgs(L, p, e, tbc, func)
  BY <1>5, <1>6, <1>8, MethodArgs
<1>11. MayCall(p, d, m, n, func, 0)
  BY <1>5, <1>6, <1>9, CallsMethod
<1> HIDE DEF m, n
<1>12. ClosesAs(L, n, e, ph, u)
  BY <1>5, <1>8, ClosingIs
<1>13. MethodAt(L, p, n, e, tbc, func)
  BY <1>1, <1>5, <1>6, <1>8, <1>9, <1>12, MethodStands
<1>14. L.status = "ok"
  BY <1>5 DEF Looping, InControl
<1>15. MethodCall(L, d, m, n, e, p, tbc, func, u, ph)
  BY <1>5, <1>10, <1>11, <1>12, <1>13, <1>14 DEF MethodCall
<1>16. al = Activations(L)
  OBVIOUS
<1> HIDE DEF al
<1>17. Like(p, al, n)
  BY <1>5, <1>12, <1>13, <1>14, <1>16, MethodLike
<1>18. p.cs[m] = e /\ e.t = "close" /\ e.yy \in BOOLEAN
  BY <1>4, <1>5, <1>9 DEF MethodPushed, Looping, CloseC
<1>19. y \in {0, 1} /\ y <= 1 /\ (~e.yy => y = 1)
  BY <1>18
<1> DEFINE inc == 1
           want == 0
<1>23. L' = ccall(p, func, want, inc, y, kind)
  BY <1>1
<1>20. inc \in {0, 1} /\ y <= inc
  BY <1>19
<1>24. MayCall(p, d, m, n, func, want)
  BY <1>11
<1>25. inc = 1
  OBVIOUS
<1> HIDE DEF y, inc, want
<1>21. CallsNext(p.cs[m], [t |-> "ccall", inc |-> inc, y |-> y])
  BY <1>18, <1>19 DEF CallsNext
<1>22. p.cs[m].t # "exec" /\ p.cs[m].t # "cfn"
  BY <1>18
<1>26. y \in {0, 1}
  BY <1>19
<1>27. Called(p, ccall(p, func, want, inc, y, kind), n, func)
       \/ ErrorMeant(p, ccall(p, func, want, inc, y, kind), al, message)
  BY <1>17, <1>20, <1>21, <1>22, <1>24, <1>26, CcallMeans
<1>28. CASE Called(p, L', n, func)
  <2> DEFINE x == L'
  <2>1. Called(p, x, n, func) /\ x = L'
    BY <1>28
  <2> HIDE DEF x
  <2>2. CallCloseMeant(L, x, n)
    BY <1>15, <2>1, MethodEntered
  <2> QED  BY <2>1, <2>2 DEF n
<1>29. CASE ErrorMeant(p, L', al, message)
  <2> DEFINE x == L'
  <2>1. ErrorMeant(p, x, Activations(L), message) /\ x = L'
    BY <1>16, <1>29
  <2> HIDE DEF x
  <2>2. CallCloseMeant(L, x, n)
    BY <1>15, <2>1, MethodFails
  <2> QED  BY <2>1, <2>2 DEF n
<1> QED  BY <1>23, <1>27, <1>28, <1>29

-----------------------------------------------------------------------------
(* Every step of LauCall is a step of LauScope, or none. *)

(* A step that 'acts' and 'vars' follow. *)
Follows == Meant(L) /\ acts' = Activations(L') /\ vars' = Pending(L')

(* There are as many variables as marks. *)
LEMMA VarsAre ==
  ASSUME CInv(L), Meant(L)
  PROVE  Len(vars) = Len(L.tbclist) /\ Len(L.tbclist) \in Nat
<1>1. PICK d \in [Nat -> Nat] : Base(L, d)
  BY DEF CInv
<1>2. Len(L.tbclist) \in Nat
  BY <1>1, MarksAt
<1>3. Len(Pending(L)) = Len(L.tbclist)
  BY <1>2, PendingIs
<1> QED  BY <1>2, <1>3 DEF Meant

(* The top frame of the state closes nothing. *)
InFunction(n) == Scope!IsRunning /\ Last(acts) = ActivationOf(L, n) /\ Last(acts).phase = "run"

(* A frame that closes nothing runs, for LauScope. *)
LEMMA RestingRuns ==
  ASSUME NEW d, NEW n, Resting(L, d, n), Meant(L)
  PROVE  InFunction(n)
<1>1. Len(Activations(L)) = n /\ n > 1 /\ Last(Activations(L)) = ActivationOf(L, n)
      /\ ActivationOf(L, n).phase = "run"
  BY RestShown
<1>2. Len(acts) > 1 /\ Last(acts).phase = "run" /\ Last(acts) = ActivationOf(L, n)
  BY <1>1 DEF Meant
<1>3. Scope!Last(acts) = Last(acts)
  BY DEF Scope!Last, Last
<1> QED  BY <1>2, <1>3 DEF Scope!IsRunning, Scope!Current, InFunction

(* A function of the program is in control. *)
LEMMA FunctionRuns ==
  ASSUME CInv(L), ~NestedClose, InLau \/ InC, Meant(L)
  PROVE  InFunction(Len(L.ci))
<1> DEFINE m == Len(L.cs)
           n == Len(L.ci)
<1>1. PICK d \in [Nat -> Nat] : Running(L, d, m, n) /\ L.ci[n].pc = "run" /\ ~L.ci[n].ypcall
  BY RunsFunction
<1> HIDE DEF m, n
<1>2. Resting(L, d, n)
  BY <1>1, RunnerIs, RunnerRests
<1>3. InFunction(n)
  BY <1>2, RestingRuns
<1> QED  BY <1>3 DEF n

(* A coroutine that has not started closes nothing. *)
LEMMA StartRuns ==
  ASSUME CInv(L), NEW kind \in {"Lau", "C"}, Start(kind), Meant(L)
  PROVE  Last(acts).phase = "run"
<1> DEFINE n == 1
<1>1. PICK s, c : Starting(s, c)
  BY Starts
<1>2. L.status = "ok" /\ L.ci = <<BaseCI>> /\ L.cs = <<>> /\ n \in Nat /\ n > 0
  BY <1>1 DEF Starting
<1>3. L.ci[n] = BaseCI /\ Len(L.ci) = n
  BY <1>2
<1>4. Len(L.cs) = 0
  BY <1>2
<1> HIDE DEF n
<1>5. \A by : Handlers(L, by, n) = {}
  BY <1>4 DEF Handlers
<1>6. Idle(L, n)
  BY <1>3, <1>5 DEF Idle, Unwinding, BaseCI, Frame
<1>7. Alive(L)
  BY <1>2 DEF Alive, ErrorStatus
<1>8. Last(Activations(L)) = ActivationOf(L, n)
  BY <1>2, <1>3, <1>7, ActsAre
<1>9. ActivationOf(L, n).phase = "run"
  BY <1>6, IdleIs
<1> QED  BY <1>8, <1>9 DEF Meant

(* A function is called. *)
LEMMA EnterScope ==
  ASSUME CInv(L), Follows, NEW p \in BOOLEAN, EnterMeant(L, L', p), Last(acts).phase = "run",
         Len(acts) = 1 => ~p
  PROVE  Scope!Next
<1>1. Meant(L) /\ acts' = Activations(L') /\ vars' = Pending(L')
  BY DEF Follows
<1>2. Len(vars) = Len(L.tbclist)
  BY <1>1, VarsAre
<1>3. Scope!Activation(<<>>, p) = Act(<<>>, p, Len(L.tbclist), "run", 0, <<>>)
  BY <1>2 DEF Scope!Activation, Act
<1>4. acts' = Append(acts, Scope!Activation(<<>>, p)) /\ vars' = vars
  BY <1>1, <1>3 DEF EnterMeant, Meant
<1>5. Scope!Current.phase = "run"
  BY DEF Scope!Current, Scope!Last, Last
<1>6. Scope!Enter(p)
  BY <1>4, <1>5 DEF Scope!Enter
<1> QED  BY <1>6 DEF Scope!Next

(* An error in a function, or in a protected call that it makes. *)
LEMMA FailScope ==
  ASSUME CInv(L), Follows, Scope!IsRunning, NEW p \in BOOLEAN, NEW e \in ErrorValue,
         ErrorMeant(L, L', AttemptIf(L, p), e)
  PROVE  Scope!Next
<1>1. Meant(L) /\ acts' = Activations(L') /\ vars' = Pending(L')
  BY DEF Follows
<1>2. Len(vars) = Len(L.tbclist)
  BY <1>1, VarsAre
<1>3. Scope!Activation(<<>>, TRUE) = Act(<<>>, TRUE, Len(L.tbclist), "run", 0, <<>>)
  BY <1>2 DEF Scope!Activation, Act
<1>4. acts' = Scope!AfterError(AttemptIf(L, p), e) /\ vars' = vars
  BY <1>1 DEF ErrorMeant, Meant
<1>5. CASE p
  <2>1. AttemptIf(L, p) = Append(acts, Scope!Activation(<<>>, TRUE))
    BY <1>1, <1>3, <1>5 DEF AttemptIf, Attempt, Meant
  <2>2. Scope!Fail(e)
    BY <1>4, <2>1 DEF Scope!Fail
  <2> QED  BY <2>2 DEF Scope!Next
<1>6. CASE ~p
  <2>1. AttemptIf(L, p) = acts
    BY <1>1, <1>6 DEF AttemptIf, Meant
  <2>2. Scope!Fail(e)
    BY <1>4, <2>1 DEF Scope!Fail
  <2> QED  BY <2>2 DEF Scope!Next
<1> QED  BY <1>5, <1>6

(* An error is a step of LauScope. *)
LEMMA ErrorScope ==
  ASSUME CInv(L), Follows, Scope!IsRunning, NEW e \in ErrorValue, ErrorMeant(L, L', Activations(L), e)
  PROVE  Scope!Next
<1> DEFINE p == FALSE
<1>1. p \in BOOLEAN /\ AttemptIf(L, p) = Activations(L)
  BY DEF AttemptIf
<1> HIDE DEF p
<1>2. ErrorMeant(L, L', AttemptIf(L, p), e)
  BY <1>1
<1> QED  BY <1>1, <1>2, FailScope

(* So is a call, protected or not; *)
LEMMA CallScope ==
  ASSUME CInv(L), Follows, Scope!IsRunning, NEW p \in BOOLEAN, CallShown(L, L', p)
  PROVE  Scope!Next
<1>1. Last(acts).phase = "run" /\ Len(acts) > 1
  BY DEF Scope!IsRunning, Scope!Current, Scope!Last, Last
<1>2. CASE EnterMeant(L, L', p)
  <2>1. Len(acts) # 1
    <3> DEFINE k == Len(acts)
    <3>1. k > 1
      BY <1>1
    <3> HIDE DEF k
    <3>2. ~(1 > 1)
      OBVIOUS
    <3>3. k # 1
      BY ONLY <3>1, <3>2
    <3> QED  BY <3>3 DEF k
  <2> QED  BY <1>1, <1>2, <2>1, EnterScope
<1>3. CASE ErrorMeant(L, L', AttemptIf(L, p), message)
  <2>1. message \in ErrorValue
    BY Bounds DEF ErrorValue
  <2> QED  BY <1>3, <2>1, FailScope
<1> QED  BY <1>2, <1>3 DEF CallShown

(* what does not show is none; *)
LEMMA SameScope ==
  ASSUME Follows, Same(L, L')
  PROVE  UNCHANGED <<acts, vars>>
BY DEF Follows, Meant, Same


(* The steps of an activation, as LauScope has them. *)
LEMMA AlterScope ==
  ASSUME Follows, NEW n, NEW ph, NEW k, AlterMeant(L, L', n, ph, k)
  PROVE  Scope!Alter(ph, k) /\ Len(acts) = n /\ Scope!Current = ActivationOf(L, n)
<1>1. Meant(L) /\ acts' = Activations(L') /\ vars' = Pending(L')
  BY DEF Follows
<1>2. /\ acts' = [acts EXCEPT ![n] = Became(ActivationOf(L, n), ph, k, <<>>)] /\ vars' = vars
      /\ Len(acts) = n /\ Last(acts) = ActivationOf(L, n)
  BY <1>1 DEF AlterMeant, Meant
<1>3. Scope!Current = ActivationOf(L, n)
  BY <1>2 DEF Scope!Current, Scope!Last, Last
<1> QED  BY <1>2, <1>3 DEF Scope!Alter, Became

(* the end of a block is one; *)
LEMMA EndBlockScope ==
  ASSUME CInv(L), Follows, NEW k, EndBlockMeant(L, L', Len(L.ci), k)
  PROVE  Scope!Next
<1> DEFINE n == Len(L.ci)
<1>1. /\ n > 1 /\ ActivationOf(L, n).phase = "run" /\ ActivationOf(L, n).first <= k
      /\ k \in 0..Len(Pending(L)) /\ k < Len(Pending(L)) /\ AlterMeant(L, L', n, "block", k)
  BY DEF EndBlockMeant
<1> HIDE DEF n
<1>2. Scope!Alter("block", k) /\ Len(acts) = n /\ Scope!Current = ActivationOf(L, n)
  BY <1>1, AlterScope
<1>3. Pending(L) = vars
  BY DEF Follows, Meant
<1>4. Scope!IsRunning
  BY <1>1, <1>2 DEF Scope!IsRunning
<1>5. Scope!EndBlock(k)
  BY <1>1, <1>2, <1>3, <1>4 DEF Scope!EndBlock
<1> QED  BY <1>1, <1>3, <1>5 DEF Scope!Next

(* so is the declaration of a variable; *)
LEMMA DeclareScope ==
  ASSUME Follows, Scope!IsRunning, NEW v \in Var, DeclareMeant(L, L', v)
  PROVE  Scope!Next
<1>1. acts' = acts /\ vars' = Append(vars, v)
  BY DEF Follows, Meant, DeclareMeant
<1>2. Scope!Declare(v)
  BY <1>1 DEF Scope!Declare
<1> QED  BY <1>2 DEF Scope!Next

(* 'al' without its last element, the same in both modules. *)
LEMMA ScopeFront == \A al : Scope!Front(al) = Front(al) /\ Scope!Last(al) = Last(al)
BY DEF Scope!Front, Front, Scope!Last, Last

(* so is a function that starts to leave, or leaves; *)
LEMMA LeaveScope ==
  ASSUME CInv(L), Follows, Scope!IsRunning, LeaveMeant(L, L', Len(L.ci)),
         Last(acts) = ActivationOf(L, Len(L.ci))
  PROVE  Scope!Next
<1> DEFINE n == Len(L.ci)
<1> HIDE DEF n
<1>1. Scope!Current = ActivationOf(L, n)
  BY ScopeFront DEF Scope!Current, n
<1>2. CASE AlterMeant(L, L', n, "leave", ActivationOf(L, n).first)
  <2>1. Scope!Alter("leave", ActivationOf(L, n).first)
    BY <1>2, AlterScope
  <2>2. Scope!Leave
    BY <1>1, <2>1 DEF Scope!Leave
  <2> QED  BY <2>2 DEF Scope!Next
<1>3. CASE ReturnMeant(L, L', n)
  <2>1. Len(vars) = ActivationOf(L, n).first /\ acts' = Front(acts) /\ vars' = vars
    BY <1>3 DEF Follows, Meant, ReturnMeant
  <2>2. acts' = Scope!Front(acts)
    BY <2>1, ScopeFront
  <2>3. Scope!Leave
    BY <1>1, <2>1, <2>2 DEF Scope!Leave
  <2> QED  BY <2>3 DEF Scope!Next
<1> QED  BY <1>2, <1>3 DEF LeaveMeant, n

(* so is the end of a closing; *)
LEMMA ClosedScope ==
  ASSUME CInv(L), Follows, ClosedMeant(L, L', Len(L.ci))
  PROVE  Scope!Next
<1> DEFINE n == Len(L.ci)
           a == ActivationOf(L, n)
<1>1. /\ Finished(L, n)
      /\ \/ a.phase # "leave" /\ AlterMeant(L, L', n, "run", 0)
         \/ a.phase = "leave" /\ Activations(L') = Front(Activations(L)) /\ Pending(L') = Pending(L)
         \/ /\ n = 1 /\ a.err # <<>>
            /\ Activations(L') = Scope!Host("dead", a.err) /\ Pending(L') = Pending(L)
  BY DEF ClosedMeant
<1>2. a = ActivationOf(L, n)
  OBVIOUS
<1> HIDE DEF n, a
<1>3. acts = Activations(L) /\ vars = Pending(L) /\ acts' = Activations(L') /\ vars' = Pending(L')
  BY DEF Follows, Meant
<1>4. /\ Len(acts) = n /\ Last(acts) = a /\ a.phase \in {"block", "leave", "caught"}
      /\ Len(vars) = a.keep
  BY <1>1, <1>2, <1>3 DEF Finished
<1>5. Scope!Current = a
  BY <1>4, ScopeFront DEF Scope!Current
<1>6. Scope!Closing
  BY <1>4, <1>5 DEF Scope!Closing
<1>7. CASE a.phase # "leave" /\ AlterMeant(L, L', n, "run", 0)
  <2>1. Scope!Alter("run", 0)
    BY <1>7, AlterScope
  <2>2. Scope!Closed
    BY <1>4, <1>5, <1>6, <1>7, <2>1 DEF Scope!Closed
  <2> QED  BY <2>2 DEF Scope!Next
<1>8. CASE a.phase = "leave" /\ Activations(L') = Front(Activations(L)) /\ Pending(L') = Pending(L)
  <2>1. acts' = Scope!Front(acts) /\ vars' = vars
    BY <1>3, <1>8, ScopeFront
  <2>2. Scope!Closed
    BY <1>4, <1>5, <1>6, <1>8, <2>1 DEF Scope!Closed
  <2> QED  BY <2>2 DEF Scope!Next
<1>9. CASE /\ n = 1 /\ a.err # <<>>
           /\ Activations(L') = Scope!Host("dead", a.err) /\ Pending(L') = Pending(L)
  <2>1. acts' = Scope!Host("dead", a.err) /\ vars' = vars /\ Len(acts) = 1
    BY <1>3, <1>4, <1>9
  <2>2. Scope!Closed
    BY <1>4, <1>5, <1>6, <1>9, <2>1 DEF Scope!Closed
  <2> QED  BY <2>2 DEF Scope!Next
<1> QED  BY <1>1, <1>7, <1>8, <1>9

(* so is a reset; *)
LEMMA ResetScope ==
  ASSUME Follows, ResetMeant(L, L')
  PROVE  Scope!Next
<1>1. acts = Activations(L) /\ vars = Pending(L) /\ acts' = Activations(L') /\ vars' = Pending(L')
  BY DEF Follows, Meant
<1>2. Scope!Current = Last(Activations(L))
  BY <1>1, ScopeFront DEF Scope!Current
<1> DEFINE a == Last(Activations(L))
<1>3. /\ Activations(L') = Scope!Host("caught", IF a.phase = "dead" THEN a.err ELSE <<>>)
      /\ Pending(L') = Pending(L)
  BY DEF ResetMeant
<1> HIDE DEF a
<1>4. Scope!Reset
  BY <1>1, <1>2, <1>3 DEF Scope!Reset, a
<1> QED  BY <1>4 DEF Scope!Next

(* and so is the call of a close method. *)
LEMMA CallCloseScope ==
  ASSUME Follows, CallCloseMeant(L, L', Len(L.ci))
  PROVE  Scope!Next
<1> DEFINE n == Len(L.ci)
           a == ActivationOf(L, n)
<1>1. acts = Activations(L) /\ vars = Pending(L) /\ acts' = Activations(L') /\ vars' = Pending(L')
  BY DEF Follows, Meant
<1>2. /\ Last(acts) = a /\ a.phase \in {"block", "leave", "caught"}
      /\ Len(vars) > a.keep /\ vars' = Front(vars)
      /\ \/ acts' = Append(acts, Act(<<Last(vars)>> \o a.err, FALSE, Len(vars) - 1, "run", 0, <<>>))
         \/ acts' = Scope!AfterError(acts, message)
  BY <1>1 DEF CallCloseMeant
<1> HIDE DEF n, a
<1>3. Scope!Current = a
  BY <1>2, ScopeFront DEF Scope!Current
<1>4. Scope!Closing /\ Len(vars) > Scope!Current.keep /\ vars' = Scope!Front(vars)
  BY <1>2, <1>3, ScopeFront DEF Scope!Closing
<1>5. Scope!Method = Act(<<Last(vars)>> \o a.err, FALSE, Len(vars) - 1, "run", 0, <<>>)
  <2> DEFINE x == <<Last(vars)>> \o a.err
             k == Len(vars) - 1
             b == Scope!Activation(x, FALSE)
  <2>1. Scope!Last(vars) = Last(vars)
    BY ScopeFront
  <2>2. Scope!Method = [b EXCEPT !.first = k]
    BY <1>3, <2>1 DEF Scope!Method
  <2>3. b = Act(x, FALSE, Len(vars), "run", 0, <<>>)
    BY DEF Scope!Activation, Act
  <2> HIDE DEF x, k, b
  <2>4. [b EXCEPT !.first = k] = Act(x, FALSE, k, "run", 0, <<>>)
    <3> DEFINE v == Len(vars)
               no == FALSE
    <3>1. b = Act(x, no, v, "run", 0, <<>>)
      BY <2>3
    <3> HIDE DEF v, no
    <3>2. \A xx, vv, kk, pp : [Act(xx, pp, vv, "run", 0, <<>>) EXCEPT !.first = kk]
                                = Act(xx, pp, kk, "run", 0, <<>>)
      BY DEF Act
    <3>3. [Act(x, no, v, "run", 0, <<>>) EXCEPT !.first = k] = Act(x, no, k, "run", 0, <<>>)
      BY ONLY <3>2
    <3>4. [b EXCEPT !.first = k] = Act(x, no, k, "run", 0, <<>>)
      BY ONLY <3>1, <3>3
    <3> QED  BY <3>4 DEF no
  <2> QED  BY <2>2, <2>4 DEF x, k
<1>6. message \in ErrorValue
  BY Bounds DEF ErrorValue
<1>7. Scope!CallClose
  BY <1>2, <1>4, <1>5, <1>6 DEF Scope!CallClose
<1> QED  BY <1>7 DEF Scope!Next


(* To go on after a yield is a step of LauScope, or none. *)
LEMMA ContinueScope ==
  ASSUME CInv(L), ~NestedClose, Follows, NEW nargs \in {0, 1}, Continue(nargs)
  PROVE  Scope!Next \/ UNCHANGED <<acts, vars>>
<1> DEFINE n == Len(L.ci)
<1>1. PICK s, c, d : Continuing(s, c, d, n, nargs)
  BY ContinuesFrom
<1> HIDE DEF n
<1>2. Resting(L, d, n) /\ Meant(L)
  BY <1>1, ContinuesGrown DEF Follows
<1>3. InFunction(n)
  BY <1>2, RestingRuns
<1>4. Same(L, L') \/ LeaveMeant(L, L', n)
  BY ContinueMeans DEF n
<1> QED  BY <1>3, <1>4, SameScope, LeaveScope DEF InFunction, n

(* Every step means a step of LauScope or none. *)
LEMMA NextScope ==
  ASSUME CInv(L), ~NestedClose, Follows, Next
  PROVE  Scope!Next \/ UNCHANGED <<acts, vars>>
<1> DEFINE n == Len(L.ci)
<1>1. Meant(L)
  BY DEF Follows
<1>2. InLau \/ InC => Scope!IsRunning /\ Last(acts).phase = "run" /\ Last(acts) = ActivationOf(L, n)
  BY <1>1, FunctionRuns DEF InFunction
<1>4. message \in ErrorValue /\ "mem" \in ErrorValue /\ Error \subseteq ErrorValue
  BY Bounds DEF ErrorValue
<1>5. CASE \E kind \in {"Lau", "C"} : Start(kind)
  <2>1. PICK kind \in {"Lau", "C"} : Start(kind)
    BY <1>5
  <2> DEFINE p == FALSE
  <2>2. EnterMeant(L, L', p)
    BY <2>1, StartMeans
  <2>3. Last(acts).phase = "run"
    BY <1>1, <2>1, StartRuns
  <2>4. p \in BOOLEAN /\ ~p
    OBVIOUS
  <2> HIDE DEF p
  <2> QED  BY <2>2, <2>3, <2>4, EnterScope
<1>6. CASE \E kind \in {"Lau", "C"} : \/ OpCall(kind) \/ \E op \in {"index", "add"} : OpMeta(kind, op)
                                      \/ \E k \in BOOLEAN : callk(kind, k)
  <2> DEFINE p == FALSE
  <2>1. CallShown(L, L', p) /\ (InLau \/ InC)
    <3>1. CallShown(L, L', FALSE)
      BY <1>6, OpCallMeans, OpMetaMeans, callkMeans
    <3> QED  BY <1>6, <3>1 DEF OpCall, OpMeta, callk
  <2>2. p \in BOOLEAN
    OBVIOUS
  <2> HIDE DEF p
  <2> QED  BY <1>2, <2>1, <2>2, CallScope
<1>7. CASE \E kind \in {"Lau", "C"} : \E k \in BOOLEAN : pcallk(kind, k)
  <2> DEFINE p == TRUE
  <2>1. CallShown(L, L', p) /\ (InLau \/ InC)
    <3>1. CallShown(L, L', TRUE)
      BY <1>7, pcallkMeans
    <3> QED  BY <1>7, <3>1 DEF pcallk
  <2>2. p \in BOOLEAN
    OBVIOUS
  <2> HIDE DEF p
  <2> QED  BY <1>2, <2>1, <2>2, CallScope
<1>8. CASE \E kind \in {"Lau", "C"} : CloseVar(kind)
  BY <1>8, CloseVarMeans, CallCloseScope
<1>9. CASE \E v \in Var \ ToSet(L.stack) : ToClose(v)
  <2>1. PICK v \in Var : ToClose(v)
    BY <1>9
  <2>2. InLau \/ InC
    BY <2>1 DEF ToClose
  <2> QED  BY <1>2, <2>1, <2>2, ToCloseMeans, DeclareScope
<1>10. CASE \E i \in 1..Len(L.tbclist) : OpClose(L.tbclist[i])
  BY <1>10, OpCloseMeans, EndBlockScope
<1>11. CASE \E newtop \in 1..Len(L.stack) : settop(newtop)
  BY <1>11, settopMeans, EndBlockScope, SameScope
<1>12. CASE \E r \in {0, 1} : OpReturn(r) \/ CReturn(r)
  <2>1. LeaveMeant(L, L', Len(L.ci))
    BY <1>12, OpReturnMeans, CReturnMeans
  <2>2. InLau \/ InC
    BY <1>12 DEF OpReturn, CReturn
  <2> QED  BY <1>2, <2>1, <2>2, LeaveScope
<1>13. CASE \E r \in {0, 1} : Continue(r)
  BY <1>1, <1>13, ContinueScope
<1>14. CASE \E e \in Error : RaiseError(e)
  <2>1. PICK e \in Error : RaiseError(e)
    BY <1>14
  <2>2. InLau \/ InC
    BY <2>1 DEF RaiseError
  <2> QED  BY <1>2, <1>4, <2>1, <2>2, RaiseMeans, ErrorScope
<1>15. CASE MemoryError
  <2>1. InLau \/ InC
    BY <1>15 DEF MemoryError
  <2> QED  BY <1>2, <1>4, <1>15, <2>1, MemoryErrorMeans, ErrorScope
<1>16. CASE \E k \in BOOLEAN : yieldk(k)
  <2>1. Same(L, L') \/ ErrorMeant(L, L', Activations(L), message)
    BY <1>16, yieldkMeans
  <2>2. InLau \/ InC
    BY <1>16 DEF yieldk
  <2> QED  BY <1>2, <1>4, <2>1, <2>2, SameScope, ErrorScope
<1>17. CASE closethread
  BY <1>17, closethreadMeans, ResetScope
<1>18. CASE CloseEnds \/ TryReturns
  BY <1>18, CloseEndsMeans, TryReturnsMeans, ClosedScope, SameScope
<1>19. CASE CcallReturns \/ unroll
  BY <1>19, CcallReturnsMeans, unrollMeans, SameScope
<1>20. 0..1 = {0, 1}
  OBVIOUS
<1> QED  BY <1>5, <1>6, <1>7, <1>8, <1>9, <1>10, <1>11, <1>12, <1>13, <1>14, <1>15, <1>16, <1>17,
            <1>18, <1>19, <1>20 DEF Next


(* A new coroutine is the host alone. *)
LEMMA InitScope ==
  ASSUME ScopeInit
  PROVE  Scope!Init
<1> DEFINE n == 1
<1>1. /\ L.ci = <<BaseCI>> /\ L.stack = <<"nil">> /\ L.tbclist = <<>> /\ L.status = "ok"
      /\ L.cs = <<>> /\ Meant(L) /\ CInv(L)
  BY InitInvariant DEF ScopeInit, Init
<1>2. /\ L.ci[n] = BaseCI /\ Len(L.ci) = n /\ Len(L.cs) = 0 /\ Len(L.tbclist) = 0 /\ n \in Nat
      /\ n > 0 /\ n = 1
  BY <1>1
<1>3. PICK d \in [Nat -> Nat] : Base(L, d)
  BY <1>1 DEF CInv
<1>4. Alive(L)
  BY <1>1 DEF Alive, ErrorStatus
<1> HIDE DEF n
<1>5. \A by : Handlers(L, by, n) = {}
  BY <1>2 DEF Handlers
<1>6. Idle(L, n)
  BY <1>2, <1>5 DEF Idle, Unwinding, BaseCI, Frame
<1>7. ActivationOf(L, n) = Act(<<>>, FALSE, 0, "run", 0, <<>>)
  <2> DEFINE a == ActivationOf(L, n)
  <2>1. a = ActivationOf(L, n)
    OBVIOUS
  <2>2. Unwinding(L, n) = NoUnwinding
    BY <1>6 DEF Idle
  <2>3. Phase(L.ci[n], NoUnwinding) = "run"
    BY <1>2 DEF Phase, BaseCI, Frame
  <2>4. Keep(L, n, "run", NoUnwinding) = 0 /\ Handled(L, n, NoUnwinding) = <<>>
    BY DEF Keep, Handled, NoUnwinding
  <2>5. L.ci[n].args = <<>> /\ L.ci[n].func = 1
    BY <1>2 DEF BaseCI, Frame
  <2>6. Older(L, L.ci[n].func) = 0
    BY <1>3, <2>5, NoneOlder
  <2>7. (n > 1 /\ ProtectedCall(L, n)) = FALSE
    BY <1>2
  <2> QED  BY <2>2, <2>3, <2>4, <2>5, <2>6, <2>7 DEF ActivationOf, Act
<1>8. Activations(L) = Scope!Host("run", <<>>)
  <2> DEFINE g == Scope!Host("run", <<>>)
  <2>1. g = <<Act(<<>>, FALSE, 0, "run", 0, <<>>)>>
    BY DEF Scope!Host, Act
  <2>2. Activations(L) = [i \in 1..n |-> ActivationOf(L, i)]
    BY <1>2, <1>4 DEF Activations, Alive
  <2>3. \A i \in 1..n : i = n
    BY <1>2
  <2>4. Activations(L) = <<ActivationOf(L, n)>>
    BY <1>2, <2>2, <2>3
  <2> QED  BY <1>7, <2>1, <2>4
<1>9. Pending(L) = <<>>
  BY <1>2 DEF Pending
<1> QED  BY <1>1, <1>8, <1>9 DEF Meant, Scope!Init

(* Calls, errors, yields and to-be-closed variables behave as LauScope says, when
   no coroutine closes itself while the host closes it. *)
THEOREM CallsImplementScope ==
  ASSUME ~NestedClose
  PROVE  ScopeSpec => ImplementsScope
<1>1. ScopeInit => CInv(L) /\ Meant(L) /\ Scope!Init
  BY InitInvariant, InitScope DEF ScopeInit
<1>2. CInv(L) /\ Meant(L) /\ [ScopeNext]_<<L, acts, vars>> => CInv(L)' /\ Meant(L)'
  <2> SUFFICES ASSUME CInv(L), Meant(L), [ScopeNext]_<<L, acts, vars>>
               PROVE  CInv(L)' /\ Meant(L)'
    OBVIOUS
  <2>1. CASE ScopeNext
    <3>1. Next /\ acts' = Activations(L') /\ vars' = Pending(L')
      BY <2>1 DEF ScopeNext
    <3>2. CInv(L')
      BY <3>1, NextInvariant
    <3> QED  BY <3>1, <3>2 DEF Meant
  <2>2. CASE UNCHANGED <<L, acts, vars>>
    BY <2>2 DEF Meant
  <2> QED  BY <2>1, <2>2
<1>3. CInv(L) /\ Meant(L) /\ [ScopeNext]_<<L, acts, vars>>
        => [Scope!Next]_<<acts, vars>>
  <2> SUFFICES ASSUME CInv(L), Meant(L), ScopeNext
               PROVE  Scope!Next \/ UNCHANGED <<acts, vars>>
    OBVIOUS
  <2>1. Next /\ Follows
    BY DEF ScopeNext, Follows
  <2> QED  BY <2>1, NextScope
<1> QED  BY <1>1, <1>2, <1>3, PTL DEF ScopeSpec, ImplementsScope, Scope!Spec

=============================================================================
