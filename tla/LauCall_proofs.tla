--------------------------- MODULE LauCall_proofs ---------------------------
(***************************************************************************)
(* The theorems about LauCall.  The last steps are those of unroll and of the*)
(* loop of lauF_close; then the invariant of LauCallInv holds in every state of*)
(* every instance, and the properties that the runs check follow from it.  *)
(***************************************************************************)
EXTENDS LauCall_steps

(* unroll calls a continuation. *)
LEMMA Continuation ==
  ASSUME NEW s, NEW d, Base(s, d), s.status = "ok", NEW m \in Nat, m = Len(s.cs), m > 0,
         s.cs[m].t = "unroll",
         NEW n \in Nat, n = Len(s.ci), n > 1, d[m] <= n, s.nc < MaxCcalls, s.nny <= s.nc, Counts(s),
         s.ci[n].kind = "C", ~s.ci[n].clsret, s.ci[n].recst = "ok"
  PROVE  CInv(PushC(s, [t |-> "cfn"]))
<1> DEFINE e == [t |-> "cfn"]
<1>1. e \in CFunction /\ e.t = "cfn"
  BY DEF CFunction, PlainC
<1> HIDE DEF e
<1>2. FrameOk(s, n)
  BY RunningFrame
<1>3. ~Returning(s.ci[n]) /\ ~TakesResult(s.ci[n])
  BY <1>2 DEF FrameOk, Returning, TakesResult
<1>4. OnFrame(s, e, n)
  BY <1>1 DEF OnFrame, Try
<1>5. CallsNext(s.cs[m], e)
  BY <1>1 DEF CallsNext
<1>6. \A t, b : t.ci = s.ci /\ t.cs[m] = s.cs[m] /\ t.cs[m + 1] = e /\ b[m] = d[m]
        /\ b[m + 1] = n => Deeper(t, b, m)
  <2> TAKE t, b
  <2> HAVE t.ci = s.ci /\ t.cs[m] = s.cs[m] /\ t.cs[m + 1] = e /\ b[m] = d[m] /\ b[m + 1] = n
  <2>1. Beneath(t, t.cs[m], t.cs[m + 1], b[m])
    BY DEF Beneath, Try
  <2> QED  BY <2>1 DEF Deeper
<1>7. MayEnter(s, d, m, n, e)
  BY <1>1, <1>4, <1>5, <1>6 DEF MayEnter
<1>8. ResultOf(s, n)
  BY <1>3 DEF ResultOf
<1>9. CInv(PushC(s, e))
  BY <1>3, <1>7, <1>8, EnterTop
<1> QED  BY <1>9 DEF e

(* The same after the stack is cut at p, above all variables. *)
LEMMA Continues ==
  ASSUME NEW s, NEW d, Base(s, d), s.status = "ok", NEW m \in Nat, m = Len(s.cs), m > 0,
         s.cs[m].t = "unroll",
         NEW n \in Nat, n = Len(s.ci), n > 1, s.nc < MaxCcalls, s.nny <= s.nc, Counts(s),
         s.ci[n].kind = "C", ~s.ci[n].clsret, NEW g, GoingOn(s.ci[n], g),
         NEW u \in State, u.ci = s.ci, u.cs = s.cs, SameCounts(s, u),
         NEW p \in Nat, s.ci[n].func < p, ~TbcFrom(s, p), p <= Len(u.stack) + 1,
         s.ci[n].recst # "ok" => p <= s.ci[n].u2,
         \A q \in 1..(p - 1) : u.stack[q] = s.stack[q]
  PROVE  CInv(PushC(SetCI(u, g), [t |-> "cfn"]))
<1> DEFINE t == SetCI(u, g)  f == s.ci[n]
<1>1. /\ s \in State /\ n \in 1..n /\ f \in CallInfo /\ Skeleton(s, d) /\ Depths(s, d)
         /\ CFunctions(s.cs)
      /\ Len(s.stack) \in Nat /\ CallTop(s, n) = Len(s.stack) + 1 /\ f.func \in Nat /\ f.func > 0
         /\ Variables(s)
      /\ Len(u.stack) \in Nat /\ m \in 1..m
  <2>1. Variables(s)
    BY DEF Base
  <2>2. m \in 1..m
    OBVIOUS
  <2> QED  BY <2>1, <2>2, RunningFrame, StateType
<1>2. m = 2 /\ d[2] = 1 /\ d[1] = 1
  <2>1. EntryOk(s.cs, m) /\ OnFrame(s, s.cs[m], d[m])
    BY <1>1 DEF CFunctions, Depths
  <2>2. m = 2 /\ d[m] = 1
    BY <2>1 DEF EntryOk, OnFrame
  <2>3. 1 \in 1..2 /\ 2 \in 1..2 /\ 1 < 2
    OBVIOUS
  <2>4. d[1] <= d[2] /\ d[1] \in 1..n
    BY <1>1, <2>2, <2>3 DEF Depths
  <2>5. \A x \in 1..n : x <= 1 => x = 1
    OBVIOUS
  <2> QED  BY <2>2, <2>4, <2>5
<1>3. g \in CallInfo /\ g.func = f.func /\ g.kind = "C" /\ g.want = f.want /\ g.fresh = f.fresh
      /\ g.tbc = f.tbc /\ ~g.clsret /\ ~g.ypcall /\ g.pc = "run" /\ g.recst = "ok"
  BY DEF GoingOn
<1> HIDE DEF t, f
<1>4. Framed(u, t, g)
  <2>1. Len(u.ci) > 0
    BY <1>1
  <2> QED  BY <1>3, <2>1, SetCIIs DEF t
<1>5. /\ t \in State /\ t.stack = u.stack /\ t.cs = s.cs /\ t.tbclist = s.tbclist /\ t.status = "ok"
         /\ t.nc = s.nc
      /\ t.nny = s.nny /\ Len(t.ci) = n /\ t.ci[n] = g /\ \A i \in 1..(n - 1) : t.ci[i] = s.ci[i]
  BY <1>4 DEF Framed, SameCounts
<1>6. \A a \in 1..Len(s.tbclist) : /\ s.tbclist[a] \in Nat /\ s.tbclist[a] > 1 /\ s.tbclist[a] < p
        /\ s.tbclist[a] \in 1..(p - 1)
                                   /\ s.tbclist[a] <= Len(s.stack) /\ s.tbclist[a] <= Len(u.stack)
  <2> TAKE a \in 1..Len(s.tbclist)
  <2>1. s.tbclist[a] \in Nat /\ s.tbclist[a] > 1 /\ s.tbclist[a] <= Len(s.stack)
    BY <1>1, VariablesBelow
  <2>2. ~(s.tbclist[a] >= p)
    BY DEF TbcFrom
  <2>3. \A x, y, z \in Nat : x > 1 /\ ~(x >= y) /\ y <= z + 1 => x < y /\ x \in 1..(y - 1) /\ x <= z
    OBVIOUS
  <2> QED  BY <1>1, <2>1, <2>2, <2>3
<1>7. TopOnly(s, t)
  <2>1. f.func <= Len(t.stack)
    <3>1. \A x, y, z \in Nat : x < y /\ y <= z + 1 => x <= z
      OBVIOUS
    <3> QED  BY <1>1, <1>5, <3>1 DEF f
  <2>2. \A q \in 1..(f.func - 1) : t.stack[q] = s.stack[q]
    <3>1. \A x, y \in Nat : x < y => \A q \in 1..(x - 1) : q \in 1..(y - 1)
      OBVIOUS
    <3> QED  BY <1>1, <1>5, <3>1 DEF f
  <2>3. f = s.ci[n]
    BY DEF f
  <2> QED  BY <1>3, <1>5, <2>1, <2>2, <2>3 DEF TopOnly
<1>8. FrameOk(t, n)
  BY <1>3, <1>5 DEF FrameOk, Returning
<1>9. \A j \in 1..Len(s.cs) : d[j] = n => OnFrame(t, s.cs[j], d[j])
        /\ (j = Len(s.cs) \/ t.ci[Len(s.ci)] = s.ci[Len(s.ci)])
  <2>1. \A j \in 1..2 : j = 1 \/ j = 2
    OBVIOUS
  <2> QED  BY <1>2, <2>1
<1>10. \A a \in 1..Len(t.tbclist) :
           /\ t.tbclist[a] = s.tbclist[a]
           /\ t.tbclist[a] <= Len(t.stack) /\ t.stack[t.tbclist[a]] = s.stack[t.tbclist[a]]
           /\ s.ci[n].kind = "C" /\ s.ci[n].func < t.tbclist[a] => Accounted(t, t.tbclist[a], n)
  <2> TAKE a \in 1..Len(t.tbclist)
  <2> DEFINE x == s.tbclist[a]
  <2>1. a \in 1..Len(s.tbclist) /\ t.tbclist[a] = x /\ s.tbclist[a] = x
    BY <1>5
  <2>2. x \in Nat /\ x < p /\ x \in 1..(p - 1) /\ x <= Len(s.stack) /\ x <= Len(u.stack)
          /\ VariableOk(s, x)
    BY <1>1, <1>6, <2>1 DEF Variables
  <2> HIDE DEF x
  <2>3. t.stack[x] = s.stack[x] /\ x <= Len(t.stack)
    BY <1>5, <2>2
  <2>4. ASSUME s.ci[n].func < x PROVE Accounted(t, x, n)
    <3>1. x < CallTop(s, n)
      <4>1. \A y, z \in Nat : y <= z => y < z + 1
        OBVIOUS
      <4> QED  BY <1>1, <2>2, <4>1
    <3>2. Accounted(s, x, n)
      BY <1>1, <2>2, <2>4, <3>1 DEF VariableOk
    <3>3. ~(s.ci[n].recst # "ok" /\ x >= s.ci[n].u2)
      <4>1. s.ci[n].u2 \in Nat
        BY <1>1, FrameType DEF f
      <4>2. \A y, z, b \in Nat : y < z /\ z <= b => ~(y >= b)
        OBVIOUS
      <4> QED  BY <2>2, <4>1, <4>2
    <3>4. CASE s.ci[n].tbc
      BY <1>3, <1>5, <3>4 DEF Accounted, f
    <3>5. CASE ~s.ci[n].tbc
      <4>1. \E j \in 1..Len(s.cs) : Try(s.cs[j], {"closep"}) /\ s.cs[j].ci = n /\ x >= s.cs[j].level
        BY <3>2, <3>3, <3>5 DEF Accounted
      <4> QED  BY <1>5, <4>1 DEF Accounted
    <3> QED  BY <3>4, <3>5
  <2> QED  BY <2>1, <2>3, <2>4
<1>11. Base(t, d)
  <2>1. Len(t.tbclist) <= Len(s.tbclist)
    <3>1. Len(s.tbclist) \in Nat
      BY <1>1, StateType
    <3>2. \A x \in Nat : x <= x
      OBVIOUS
    <3> QED  BY <1>5, <3>1, <3>2
  <2>2. ~t.ci[Len(s.ci)].ypcall
    BY <1>3, <1>5
  <2> QED  BY <1>5, <1>7, <1>8, <1>9, <1>10, <2>1, <2>2, Local
<1>12. Counts(t)
  BY <1>5 DEF Counts
<1>13. d[m] <= n
  BY <1>2
<1>14. CInv(PushC(t, [t |-> "cfn"]))
  BY <1>3, <1>5, <1>11, <1>12, <1>13, Continuation
<1> QED  BY <1>14 DEF t

(* The loop of lauF_close is left *)

Closes(s, d, m, n, e) ==
  /\ InControl(s, d, m, n) /\ Top(s, d) /\ s.cs[m] = e /\ e.t = "close" /\ ~TbcFrom(s, e.level)

Closed(s, t, d, q, n, e) ==
  /\ Base(t, d) /\ t.status = "ok" /\ t \in State /\ Popped(s, t) /\ Base(s, d) /\ s.status = "ok"
  /\ q \in Nat /\ q > 0 /\ q = Len(t.cs) /\ q + 1 = Len(s.cs) /\ n \in Nat /\ n > 0 /\ n = Len(t.ci)
     /\ n = Len(s.ci)
  /\ t.nc < MaxCcalls /\ t.nny <= t.nc /\ Counts(t) /\ s.nc < MaxCcalls /\ s.nny <= s.nc
     /\ Counts(s)
  /\ t.ci = s.ci /\ t.stack = s.stack /\ t.tbclist = s.tbclist /\ ~TbcFrom(t, e.level)
  /\ e \in CloseC /\ s.cs[q + 1] = e /\ CallsNext(t.cs[q], e) /\ CloseOk(t, e, n) /\ d[q + 1] = n
  /\ e.then # "poscall" /\ t.cs[q].t # "unroll" => d[q] = n
  /\ t.cs[q].t = "unroll" => d[q] = 1 /\ n > 1
  /\ t.cs[q].t \in {"exec", "cfn", "unroll"} \/ Try(t.cs[q], {"closep"}) \/ e.then = "poscall"
  /\ ResultOf(t, n) /\ (TakesResult(t.ci[n]) => t.ci[n].func < Len(t.stack) /\ ~TbcFrom(t,
     Len(t.stack)))

(* What holds when the loop has closed its variables. *)
LEMMA EndsLoop ==
  ASSUME NEW s, NEW d, NEW m, NEW n, NEW e, Closes(s, d, m, n, e)
  PROVE  Closed(s, PopC(s), d, m - 1, n, e)
<1> DEFINE t == PopC(s)  q == m - 1
<1>1. /\ Base(s, d) /\ s \in State /\ s.status = "ok" /\ m \in Nat /\ m = Len(s.cs) /\ m > 0
         /\ m \in 1..m
      /\ n \in Nat /\ n = Len(s.ci) /\ n > 0 /\ n \in 1..n /\ Counts(s) /\ d[m] = n
         /\ s.nc < MaxCcalls /\ s.nny <= s.nc
      /\ s.cs[m] = e /\ e.t = "close" /\ ~TbcFrom(s, e.level) /\ Top(s, d)
  BY DEF InControl, Closes
<1>2. CFunctions(s.cs) /\ Depths(s, d) /\ s.cs \in Seq(CFunction)
  BY <1>1, RunningFrame, StateType
<1>3. e \in CloseC
  <2>1. e \in CFunction
    BY <1>1, StateType
  <2> QED  BY <1>1, <2>1, EntryType
<1>4. m > 1
  <2>1. EntryOk(s.cs, m)
    BY <1>1, <1>2 DEF CFunctions
  <2>2. m # 1
    BY <1>1, <2>1 DEF EntryOk, Try
  <2>3. \A x \in Nat : x > 0 /\ x # 1 => x > 1
    OBVIOUS
  <2> QED  BY <1>1, <2>2, <2>3
<1>5. q \in Nat /\ q > 0 /\ q + 1 = m /\ q \in 1..q /\ q \in 1..(m - 1) /\ q \in 1..m
  <2>1. q = m - 1
    OBVIOUS
  <2> HIDE DEF q
  <2> QED  BY <1>1, <1>4, <2>1, LessOne
<1>6. Popped(s, t)
  <2>1. s.cs # <<>>
    BY <1>1
  <2> QED  BY <1>1, <2>1, PopCIs
<1> HIDE DEF t
<1>7. Base(t, d)
  <2>1. s.cs[m].t # "cfn" /\ ~Try(s.cs[m], {"closep"})
    BY <1>1 DEF Try
  <2> QED  BY <1>1, <1>6, <2>1, PopEntry
<1>8. Counts(t)
  <2>1. s.cs[Len(s.cs)].t \notin {"ccall", "reset"}
    BY <1>1
  <2> QED  BY <1>1, <1>6, <2>1, CountsPop
<1>9. Len(t.cs) = q
  BY <1>1, <1>6 DEF Popped
<1> HIDE DEF q
<1>10. /\ t \in State /\ t.ci = s.ci /\ t.stack = s.stack /\ t.tbclist = s.tbclist
          /\ t.status = "ok" /\ t.nc = s.nc /\ t.nny = s.nny
       /\ t.cs[q] = s.cs[q]
  BY <1>1, <1>5, <1>6, <1>9 DEF Popped, SameCounts
<1>11. CallsNext(s.cs[q], e) /\ Deeper(s, d, q) /\ OnFrame(s, e, n)
  BY <1>1, <1>2, <1>5 DEF CFunctions, Depths
<1>12. CloseOk(s, e, n)
  BY <1>1, <1>11 DEF OnFrame
<1>13. CloseOk(t, e, n)
  BY <1>10, <1>12 DEF CloseOk, CallTop
<1>14. s.cs[q].t \in {"exec", "cfn", "unroll"} \/ Try(s.cs[q], {"closep"}) \/ e.then = "poscall"
  BY <1>1, <1>11 DEF CallsNext, Closing, Try
<1>15. e.then # "poscall" /\ s.cs[q].t # "unroll" => d[q] = n
  <2> SUFFICES ASSUME e.then # "poscall", s.cs[q].t # "unroll" PROVE d[q] = n
    OBVIOUS
  <2>1. s.cs[q + 1] = e /\ d[q + 1] = n /\ s.cs[q].t # "ccall"
    BY <1>1, <1>5, <1>14 DEF Try
  <2>2. CASE s.cs[q].t = "exec"
    BY <1>1, <1>11, <2>1, <2>2 DEF Deeper, Closing
  <2>3. CASE s.cs[q].t # "exec"
    BY <1>11, <2>1, <2>3 DEF Deeper
  <2> QED  BY <2>2, <2>3
<1>16. s.cs[q].t = "unroll" => d[q] = 1 /\ n > 1
  <2>1. OnFrame(s, s.cs[q], d[q])
    BY <1>1, <1>2, <1>5 DEF Depths
  <2> QED  BY <1>1, <1>5, <1>11, <2>1 DEF OnFrame, Deeper
<1>17. ResultOf(t, n)
         /\ (TakesResult(t.ci[n]) => t.ci[n].func < Len(t.stack) /\ ~TbcFrom(t, Len(t.stack)))
  <2>1. ResultOf(s, n)
          /\ (TakesResult(s.ci[n]) => s.ci[n].func < Len(s.stack) /\ ~TbcFrom(s, Len(s.stack)))
    <3>1. s.status \notin ErrorStatus
      BY <1>1 DEF ErrorStatus
    <3> QED  BY <1>1, <3>1 DEF Top
  <2> QED  BY <1>10, <2>1 DEF ResultOf, CallTop, TbcFrom
<1>18. ~TbcFrom(t, e.level)
  BY <1>1, <1>10 DEF TbcFrom
<1>19. Closed(s, t, d, q, n, e)
  BY <1>1, <1>3, <1>5, <1>6, <1>7, <1>8, <1>9, <1>10, <1>11, <1>13, <1>14, <1>15, <1>16, <1>17,
     <1>18 DEF Closed
<1> QED  BY <1>19 DEF t, q

(* at the end of a block, of an instruction or of lau_settop *)
LEMMA EndsBlock ==
  ASSUME NEW s, NEW t, NEW d, NEW q, NEW n, NEW e, Closed(s, t, d, q, n, e),
         e.then \in {"close", "top"}
  PROVE  CInv(At(SetTop(t, e.level), "run"))
<1> DEFINE p == e.level  u == SetTop(t, p)
<1>1. /\ Base(t, d) /\ t.status = "ok" /\ t \in State
      /\ q \in Nat /\ q > 0 /\ q = Len(t.cs) /\ n \in Nat /\ n > 0 /\ n = Len(t.ci)
      /\ t.nc < MaxCcalls /\ t.nny <= t.nc /\ Counts(t) /\ ~TbcFrom(t, e.level)
      /\ e \in CloseC /\ CallsNext(t.cs[q], e) /\ CloseOk(t, e, n)
  BY DEF Closed
<1>2. p \in Nat /\ e.t = "close"
  BY <1>1 DEF CloseC
<1>3. (e.then = "close" /\ t.cs[q].t = "exec") \/ (e.then = "top" /\ t.cs[q].t = "cfn")
  BY <1>1, <1>2 DEF CallsNext, Closing, Try
<1>4. d[q] = n
  BY <1>3 DEF Closed
<1>5. /\ Skeleton(t, d) /\ FrameOk(t, n) /\ Len(t.stack) \in Nat /\ CallTop(t, n) = Len(t.stack) + 1
      /\ t.ci[n].func \in Nat
  BY <1>1, RunningFrame
<1>6. t.ci[n].func < p /\ p <= Len(t.stack) + 1
  BY <1>1, <1>3, <1>5 DEF CloseOk
<1>7. p \in 1..(Len(t.stack) + 1)
  <2>1. \A x, y, z \in Nat : x < y /\ y <= z + 1 => y \in 1..(z + 1)
    OBVIOUS
  <2> QED  BY <1>2, <1>5, <1>6, <2>1
<1> HIDE DEF p
<1>8. Cut(t, u, p)
  BY <1>1, <1>7, SetTopIs
<1> HIDE DEF u
<1>9. /\ u \in State /\ u.ci = t.ci /\ u.cs = t.cs /\ u.tbclist = t.tbclist /\ u.status = "ok"
         /\ u.nc = t.nc /\ u.nny = t.nny
      /\ p <= Len(u.stack) + 1 /\ \A x \in 1..(p - 1) : u.stack[x] = t.stack[x]
  <2>1. \A x \in Nat : x <= (x - 1) + 1
    OBVIOUS
  <2> QED  BY <1>1, <1>2, <1>8, <2>1 DEF Cut, SameCounts
<1>10. Counts(u)
  BY <1>1, <1>9 DEF Counts
<1>11. ~TbcFrom(t, p)
  BY <1>1 DEF p
<1>12. CASE e.then = "close"
  <2>1. t.cs[q].t = "exec"
    BY <1>3, <1>12
  <2>2. t.ci[n].pc = "close" /\ t.ci[n].level = p
    BY <1>1, <1>12 DEF CloseOk, p
  <2>3. t.ci[n].kind = "Lau" /\ ~t.ci[n].ypcall /\ ~Returning(t.ci[n])
    BY <1>5, <2>2 DEF FrameOk, Returning
  <2>4. \A j \in 1..q : d[j] = n => j = q
    BY <1>1, <1>4, <1>5, <2>1, OnTop
  <2>5. Above(t, d, n, p)
    <3>1. p <= p
      BY <1>2
    <3> QED  BY <1>1, <1>6, <2>1, <2>2, <2>3, <2>4, <3>1 DEF Above, Try
  <2>6. Base(u, d)
    BY <1>1, <1>2, <1>9, <1>11, <2>5, TrimsStack
  <2>7. CInv(At(u, "run"))
    BY <1>1, <1>4, <1>9, <1>10, <2>1, <2>6, NextInstruction
  <2> QED  BY <2>7 DEF u, p
<1>13. CASE e.then = "top"
  <2>1. t.cs[q].t = "cfn"
    BY <1>3, <1>13
  <2>2. ~t.ci[n].ypcall /\ t.ci[n].kind = "C" /\ ~t.ci[n].clsret /\ t.ci[n].pc = "top"
        /\ t.ci[n].level = p
    BY <1>1, <1>13 DEF CloseOk, p
  <2>5. ~Returning(t.ci[n])
    BY <2>2 DEF Returning
  <2>6. \A j \in 1..q : d[j] = n => j = q
    BY <1>1, <1>4, <1>5, <2>1, OnTop
  <2>7. Above(t, d, n, p)
    <3>1. p <= p
      BY <1>2
    <3> QED  BY <1>1, <1>6, <2>1, <2>2, <2>5, <2>6, <3>1 DEF Above, Try
  <2>3. Base(u, d)
    BY <1>1, <1>2, <1>9, <1>11, <2>7, TrimsStack
  <2>4. CInv(At(u, "run"))
    BY <1>1, <1>4, <1>9, <1>10, <2>1, <2>2, <2>3, AtC
  <2> QED  BY <2>4 DEF u, p
<1> QED  BY <1>12, <1>13

(* at a return instruction *)
LEMMA EndsReturn ==
  ASSUME NEW s, NEW t, NEW d, NEW q, NEW n, NEW e, Closed(s, t, d, q, n, e), e.then = "return"
  PROVE  CInv(leaveframe(t, t.ci[n].u2))
<1> DEFINE f == t.ci[n]
<1>1. /\ Base(t, d) /\ t.status = "ok" /\ t \in State
      /\ q \in Nat /\ q > 0 /\ q = Len(t.cs) /\ n \in Nat /\ n > 0 /\ n = Len(t.ci)
      /\ t.nc < MaxCcalls /\ t.nny <= t.nc /\ Counts(t) /\ ~TbcFrom(t, e.level)
      /\ e \in CloseC /\ CallsNext(t.cs[q], e) /\ CloseOk(t, e, n)
  BY DEF Closed
<1>2. t.cs[q].t = "exec"
  <2>1. e.t = "close"
    BY <1>1 DEF CloseC
  <2> QED  BY <1>1, <2>1 DEF CallsNext, Closing, Try
<1>3. d[q] = n
  BY <1>2 DEF Closed
<1>4. /\ FrameOk(t, n) /\ Len(t.stack) \in Nat /\ CallTop(t, n) = Len(t.stack) + 1
      /\ f.func \in Nat /\ f.func <= Len(t.stack) /\ n \in 1..n /\ Variables(t)
  BY <1>1, RunningFrame DEF Base
<1>5. f.pc = "return" /\ e.level = f.func + 1
  BY <1>1 DEF CloseOk
<1>6. f.u2 \in {0, 1} /\ f.func + f.u2 <= Len(t.stack)
  <2>1. f.u2 \in 0..1 /\ f.func + f.u2 < Len(t.stack) + 1
    BY <1>4, <1>5 DEF FrameOk, Returning
  <2>2. \A x, y \in Nat, z \in 0..1 : x + z < y + 1 => x + z <= y /\ z \in {0, 1}
    OBVIOUS
  <2> QED  BY <1>4, <2>1, <2>2
<1>7. ~TbcFrom(t, f.func)
  <2> SUFFICES ASSUME NEW a \in 1..Len(t.tbclist), t.tbclist[a] >= f.func PROVE FALSE
    BY DEF TbcFrom
  <2>1. t.tbclist[a] \in Nat /\ t.tbclist[a] # f.func
    BY <1>1, <1>4, VariablesBelow DEF Variables, VariableOk
  <2>2. ~(t.tbclist[a] >= f.func + 1)
    BY <1>1, <1>5 DEF TbcFrom
  <2>3. \A x, y \in Nat : x >= y /\ x # y => x >= y + 1
    OBVIOUS
  <2> HIDE DEF f
  <2> QED  BY <1>4, <2>1, <2>2, <2>3
<1> HIDE DEF f
<1>8. CInv(leaveframe(t, f.u2))
  BY <1>1, <1>2, <1>3, <1>6, <1>7, Leaveframe DEF f
<1> QED  BY <1>8 DEF f

(* in lauD_poscall *)
LEMMA EndsPoscall ==
  ASSUME NEW s, NEW d, NEW q, NEW n, NEW e, Closed(s, PopC(s), d, q, n, e), e.then = "poscall"
  PROVE  CInv(moveresults(PopC(s), PopC(s).ci[n].u2))
<1> DEFINE t == PopC(s)  f == t.ci[n]  m == q + 1
<1>1. /\ Base(t, d) /\ Base(s, d) /\ s.status = "ok" /\ q \in Nat /\ m = Len(s.cs) /\ n \in Nat
         /\ n > 0 /\ n = Len(s.ci) /\ n = Len(t.ci)
      /\ s.nc < MaxCcalls /\ s.nny <= s.nc /\ Counts(s) /\ ~TbcFrom(t, e.level) /\ s.ci = t.ci
         /\ s.stack = t.stack
      /\ e \in CloseC /\ CloseOk(t, e, n) /\ s.cs[m] = e /\ d[m] = n
  BY DEF Closed
<1>2. Closing(s.cs[m], {"poscall"})
  BY <1>1 DEF CloseC, Closing
<1>3. /\ FrameOk(t, n) /\ Len(t.stack) \in Nat /\ CallTop(t, n) = Len(t.stack) + 1 /\ f.func \in Nat
  BY <1>1, RunningFrame
<1>4. f.clsret /\ e.level = f.func
  BY <1>1 DEF CloseOk
<1>5. f.u2 \in {0, 1} /\ f.func + f.u2 <= Len(t.stack)
  <2>1. f.u2 \in 0..1 /\ f.func + f.u2 < Len(t.stack) + 1
    BY <1>3, <1>4 DEF FrameOk, Returning
  <2>2. \A x, y \in Nat, z \in 0..1 : x + z < y + 1 => x + z <= y /\ z \in {0, 1}
    OBVIOUS
  <2> QED  BY <1>3, <2>1, <2>2
<1>6. m \in Nat /\ m > 0 /\ m - 1 = q
  BY <1>1
<1> HIDE DEF m, t, f
<1>7. MayReturn(t, d, m - 1, n, f.u2)
  <2>1. /\ d[m] = n /\ (s.cs[m].t = "cfn" \/ Closing(s.cs[m], {"poscall"}))
        /\ s.ci[n].func + f.u2 <= Len(s.stack)
    BY <1>1, <1>2, <1>5 DEF f
  <2> QED  BY <1>1, <1>5, <1>6, <2>1, Leaves DEF t
<1>8. ~TbcFrom(t, t.ci[n].func)
  BY <1>1, <1>4 DEF f
<1>9. CInv(moveresults(t, f.u2))
  BY <1>7, <1>8, MoveResults
<1> QED  BY <1>9 DEF t, f

(* in finishpcallk *)
LEMMA EndsPcallk ==
  ASSUME NEW s, NEW t, NEW d, NEW q, NEW n, NEW e, Closed(s, t, d, q, n, e), e.then = "pcallk"
  PROVE  CInv(pcallkdone(t, e.status, e.level))
<1> DEFINE f == t.ci[n]  p == e.level  u == seterrorobj(t, e.status, p)
           g == [f EXCEPT !.recst = "ok", !.ypcall = FALSE, !.pc = "run"]
<1>1. /\ Base(t, d) /\ t.status = "ok" /\ t \in State
      /\ q \in Nat /\ q > 0 /\ q = Len(t.cs) /\ n \in Nat /\ n > 0 /\ n = Len(t.ci)
      /\ t.nc < MaxCcalls /\ t.nny <= t.nc /\ Counts(t) /\ ~TbcFrom(t, e.level)
      /\ e \in CloseC /\ CallsNext(t.cs[q], e) /\ CloseOk(t, e, n)
  BY DEF Closed
<1>2. t.cs[q].t = "unroll"
  <2>1. e.t = "close"
    BY <1>1 DEF CloseC
  <2> QED  BY <1>1, <2>1 DEF CallsNext, Closing, Try
<1>3. n > 1
  BY <1>2 DEF Closed
<1>4. /\ FrameOk(t, n) /\ Len(t.stack) \in Nat /\ Len(t.stack) > 0
         /\ CallTop(t, n) = Len(t.stack) + 1 /\ f.func \in Nat
      /\ f \in CallInfo
  BY <1>1, RunningFrame
<1>5. f.ypcall /\ p = f.u2 /\ f.func < p /\ p <= Len(t.stack) + 1
  BY <1>1, <1>4 DEF CloseOk
<1>6. f.kind = "C" /\ ~f.clsret
  BY <1>4, <1>5 DEF FrameOk
<1>7. p \in Nat
  BY <1>1 DEF CloseC
<1>8. Last(t.ci) = f
  <2>1. t.ci # <<>> /\ t.ci \in Seq(CallInfo)
    BY <1>1, StateType
  <2> QED  BY <1>1, <2>1, FrontLast
<1>9. pcallkdone(t, e.status, e.level) = PushC(SetCI(u, g), [t |-> "cfn"])
  BY <1>8 DEF pcallkdone
<1>10. GoingOn(f, g)
  BY <1>4, <1>6 DEF GoingOn, CallInfo
<1> HIDE DEF g, f, p
<1>11. Erred(t, u, p)
  <2>1. p \in 1..(Len(t.stack) + 1)
    <3>1. \A x, y, z \in Nat : x < y /\ y <= z + 1 => y \in 1..(z + 1)
      OBVIOUS
    <3> QED  BY <1>4, <1>5, <1>7, <3>1
  <2> QED  BY <1>1, <1>4, <2>1, SetErrorIs
<1> HIDE DEF u
<1>12. u \in State /\ u.ci = t.ci /\ u.cs = t.cs /\ SameCounts(t, u)
         /\ \A x \in 1..(p - 1) : u.stack[x] = t.stack[x]
  BY <1>11 DEF Erred
<1>13. p <= Len(u.stack) + 1
  <2>1. Len(u.stack) = p
    BY <1>11 DEF Erred
  <2>2. \A x \in Nat : x <= x + 1
    OBVIOUS
  <2> QED  BY <1>7, <2>1, <2>2
<1>14. t.ci[n].recst # "ok" => p <= t.ci[n].u2
  <2>1. p <= p
    BY <1>7
  <2> QED  BY <1>5, <2>1 DEF f
<1>15. ~TbcFrom(t, p) /\ t.ci[n].func < p /\ t.ci[n].kind = "C" /\ ~t.ci[n].clsret
         /\ GoingOn(t.ci[n], g)
  BY <1>1, <1>5, <1>6, <1>10 DEF p, f
<1>16. CInv(PushC(SetCI(u, g), [t |-> "cfn"]))
  BY <1>1, <1>2, <1>3, <1>7, <1>12, <1>13, <1>14, <1>15, Continues
<1> QED  BY <1>9, <1>16

(* in lauD_closeprotected *)
LEMMA EndsClosep ==
  ASSUME NEW s, NEW t, NEW d, NEW q, NEW n, NEW e, Closed(s, t, d, q, n, e), e.then = "closep"
  PROVE  CInv(t)
<1>1. /\ Base(t, d) /\ t.status = "ok" /\ t \in State
      /\ q \in Nat /\ q > 0 /\ q = Len(t.cs) /\ n \in Nat /\ n > 0 /\ n = Len(t.ci)
      /\ t.nc < MaxCcalls /\ t.nny <= t.nc /\ Counts(t) /\ ~TbcFrom(t, e.level)
      /\ e \in CloseC /\ CallsNext(t.cs[q], e)
      /\ ResultOf(t, n) /\ (TakesResult(t.ci[n]) => t.ci[n].func < Len(t.stack) /\ ~TbcFrom(t,
         Len(t.stack)))
  BY DEF Closed
<1>2. Try(t.cs[q], {"closep"}) /\ t.cs[q].level = e.level
  <2>1. e.t = "close"
    BY <1>1 DEF CloseC
  <2> QED  BY <1>1, <2>1 DEF CallsNext, Closing, Try
<1>3. d[q] = n
  <2>1. t.cs[q].t # "unroll"
    BY <1>2 DEF Try
  <2> QED  BY <2>1 DEF Closed
<1>4. Top(t, d)
  <2>1. t.cs[q].t \notin {"reset", "unroll"} /\ t.status # "yield" /\ t.status # "mem"
    BY <1>1, <1>2 DEF Try
  <2> QED  BY <1>1, <1>2, <1>3, <2>1 DEF Top
<1>5. d \in [Nat -> Nat]
  BY <1>1 DEF Base, Skeleton
<1> QED  BY <1>1, <1>4, <1>5 DEF CInv

(* The end of lauF_close, in each of its callers, keeps the invariant. *)
LEMMA CloseEndsStep ==
  ASSUME CInv(L), CloseEnds
  PROVE  CInv(L')
<1> DEFINE m == Len(L.cs)  n == Len(L.ci)  e == L.cs[m]  q == m - 1
           s == PopC(L)
<1>1. L.cs # <<>>
  BY DEF CloseEnds, Control
<1>2. PICK d \in [Nat -> Nat] : Top(L, d) /\ InControl(L, d, m, n)
  BY <1>1, Controls
<1>3. e.t = "close" /\ Last(L.cs) = e /\ ~TbcFrom(L, e.level) /\ CI = L.ci[n]
  BY <1>2 DEF CloseEnds, InControl, CI
<1>4. Closes(L, d, m, n, e)
  BY <1>2, <1>3 DEF Closes
<1>5. Closed(L, s, d, q, n, e)
  BY <1>4, EndsLoop
<1>6. L' = CASE e.then \in {"close", "top"} -> At(SetTop(s, e.level), "run")
                [] e.then = "return" -> leaveframe(s, CI.u2)
                [] e.then = "poscall" -> moveresults(s, CI.u2)
                [] e.then = "pcallk" -> pcallkdone(s, e.status, e.level)
                [] e.then = "closep" -> s
  BY <1>3 DEF CloseEnds
<1> HIDE DEF m, n, e, q
<1>7. s.ci[n] = CI /\ e.then \in {"close", "return", "poscall", "top", "pcallk", "closep"}
  BY <1>3, <1>5 DEF Closed, CloseC
<1>8. CASE e.then \in {"close", "top"}
  <2>1. CInv(At(SetTop(s, e.level), "run"))
    BY <1>5, <1>8, EndsBlock
  <2> QED  BY <1>6, <1>8, <2>1
<1>9. CASE e.then = "return"
  <2>1. CInv(leaveframe(s, CI.u2))
    BY <1>5, <1>7, <1>9, EndsReturn
  <2> QED  BY <1>6, <1>9, <2>1
<1>10. CASE e.then = "poscall"
  <2>1. CInv(moveresults(s, CI.u2))
    BY <1>5, <1>7, <1>10, EndsPoscall
  <2> QED  BY <1>6, <1>10, <2>1
<1>11. CASE e.then = "pcallk"
  <2>1. CInv(pcallkdone(s, e.status, e.level))
    BY <1>5, <1>11, EndsPcallk
  <2> QED  BY <1>6, <1>11, <2>1
<1>12. CASE e.then = "closep"
  <2>1. CInv(s)
    BY <1>5, <1>12, EndsClosep
  <2> QED  BY <1>6, <1>12, <2>1
<1> QED  BY <1>7, <1>8, <1>9, <1>10, <1>11, <1>12

(* unroll *)

Unroller(s, d, m, n) ==
  /\ InControl(s, d, m, n) /\ Top(s, d) /\ s.cs[m].t = "unroll"
  /\ m = 2 /\ d[1] = 1 /\ d[2] = 1 /\ Counts(s)
  /\ Try(s.cs[1], {"resume", "recover"})

(* unroll is called by the handler of lau_resume or of precover. *)
LEMMA UnrollerIs ==
  ASSUME NEW s, NEW d, NEW m, NEW n, InControl(s, d, m, n), Top(s, d), s.cs[m].t = "unroll"
  PROVE  Unroller(s, d, m, n)
<1>1. /\ Base(s, d) /\ m \in Nat /\ m = Len(s.cs) /\ m \in 1..m /\ n \in Nat /\ n = Len(s.ci)
         /\ Counts(s)
  BY DEF InControl
<1>2. CFunctions(s.cs) /\ Depths(s, d)
  BY <1>1, RunningFrame
<1>3. EntryOk(s.cs, m) /\ OnFrame(s, s.cs[m], d[m])
  BY <1>1, <1>2 DEF CFunctions, Depths
<1>4. m = 2 /\ d[m] = 1
  BY <1>3 DEF EntryOk, OnFrame
<1>5. 1 \in 1..2 /\ 2 \in 1..2 /\ 1 < 2 /\ 1 \in 1..(2 - 1) /\ 1 + 1 = 2
  OBVIOUS
<1>6. d[1] = 1
  <2>1. d[1] <= d[2] /\ d[1] \in 1..n
    BY <1>1, <1>2, <1>4, <1>5 DEF Depths
  <2>2. \A x \in 1..n : x <= 1 => x = 1
    OBVIOUS
  <2> QED  BY <1>4, <2>1, <2>2
<1>7. CallsNext(s.cs[1], s.cs[2])
  BY <1>1, <1>2, <1>4, <1>5 DEF CFunctions
<1>8. Try(s.cs[1], {"resume", "recover"})
  BY <1>4, <1>7 DEF CallsNext, Try, Closing
<1> QED  BY <1>1, <1>4, <1>6, <1>8 DEF Unroller

(* It returns at the base frame. *)
LEMMA UnrollEnds ==
  ASSUME NEW s, NEW d, NEW m, NEW n, Unroller(s, d, m, n), n = 1
  PROVE  CInv(PopC(s))
<1> DEFINE t == PopC(s)
<1>1. /\ Base(s, d) /\ s \in State /\ d \in [Nat -> Nat] /\ s.status = "ok" /\ m = 2
         /\ Len(s.cs) = 2 /\ Len(s.ci) = 1
      /\ d[1] = 1 /\ s.cs[2].t = "unroll" /\ Try(s.cs[1], {"resume", "recover"}) /\ Counts(s)
         /\ s.nc < MaxCcalls /\ s.nny <= s.nc
  BY DEF Unroller, InControl
<1>2. Popped(s, t)
  <2>1. s.cs # <<>>
    BY <1>1
  <2> QED  BY <1>1, <2>1, PopCIs
<1> HIDE DEF t
<1>3. Base(t, d)
  <2>1. s.cs[2].t # "cfn" /\ ~Try(s.cs[2], {"closep"}) /\ 2 \in Nat
    BY <1>1 DEF Try
  <2> QED  BY <1>1, <1>2, <2>1, PopEntry
<1>4. Len(t.cs) = 1 /\ t.cs[1] = s.cs[1]
  <2>1. Len(t.cs) = 2 - 1
    BY <1>1, <1>2 DEF Popped
  <2>2. 2 - 1 = 1 /\ 1 \in 1..1
    OBVIOUS
  <2> QED  BY <1>2, <2>1, <2>2 DEF Popped
<1>5. t.ci = s.ci /\ t.status = "ok" /\ t.nc = s.nc /\ t.nny = s.nny
  BY <1>1, <1>2 DEF Popped, SameCounts
<1>6. s.ci[1] = BaseCI
  BY <1>1 DEF Base, Skeleton, Frames
<1>7. ResultOf(t, 1) /\ ~TakesResult(t.ci[1])
  BY <1>5, <1>6, BaseFrame
<1>8. t.cs[1].t = "try" /\ ~Try(t.cs[1], {"closep"})
  BY <1>1, <1>4 DEF Try
<1>9. Top(t, d)
  BY <1>1, <1>4, <1>5, <1>7, <1>8 DEF Top
<1>10. CInv(t)
  BY <1>1, <1>3, <1>9 DEF CInv
<1> QED  BY <1>10 DEF t

(* It finishes a C function. *)
LEMMA FinishesC ==
  ASSUME NEW s, NEW d, NEW m, NEW n, Unroller(s, d, m, n), n > 1, s.ci[n].kind = "C"
  PROVE  CInv(finishCcall(s))
<1> DEFINE f == s.ci[n]  g == [f EXCEPT !.pc = "run", !.ypcall = FALSE]
           e == [t |-> "close", level |-> f.u2, status |-> f.recst, yy |-> TRUE, then |-> "pcallk"]
<1>1. /\ Base(s, d) /\ s \in State /\ s.status = "ok" /\ m = 2 /\ m \in Nat /\ m > 0
         /\ m = Len(s.cs) /\ n \in Nat /\ n = Len(s.ci)
      /\ d[1] = 1 /\ d[2] = 1 /\ s.cs[m].t = "unroll" /\ Counts(s) /\ s.nc < MaxCcalls
         /\ s.nny <= s.nc
      /\ f \in CallInfo /\ FrameOk(s, n) /\ ResultOf(s, n) /\ Last(s.ci) = f
      /\ f.func \in Nat /\ f.func > 0 /\ f.func <= Len(s.stack) /\ Len(s.stack) \in Nat
         /\ CallTop(s, n) = Len(s.stack) + 1
  BY DEF Unroller, InControl
<1>2. finishCcall(s) = IF f.clsret THEN poscall(s, f.u2)
                       ELSE IF f.ypcall /\ f.recst # "ok" THEN PushC(s, e)
                       ELSE PushC(SetCI(s, g), [t |-> "cfn"])
  BY <1>1 DEF finishCcall, lauF_close
<1>3. d[m] <= n /\ \A j \in 1..m : d[j] < n
  <2>1. \A j \in 1..2 : j = 1 \/ j = 2
    OBVIOUS
  <2>2. 1 <= n
    BY <1>1
  <2> QED  BY <1>1, <2>1, <2>2
<1>4. CASE f.clsret
  <2>1. f.u2 \in {0, 1} /\ f.func + f.u2 <= Len(s.stack) /\ ~f.ypcall
    <3>1. f.u2 \in 0..1 /\ f.func + f.u2 < Len(s.stack) + 1 /\ ~f.ypcall
      BY <1>1, <1>4 DEF FrameOk, Returning
    <3>2. \A x, y \in Nat, z \in 0..1 : x + z < y + 1 => x + z <= y /\ z \in {0, 1}
      OBVIOUS
    <3> QED  BY <1>1, <3>1, <3>2
  <2>2. MayReturn(s, d, m, n, f.u2)
    BY <1>1, <1>3, <2>1 DEF MayReturn
  <2>3. f.u2 = 1 => s.stack[Len(s.stack)] = "res"
    <3>1. CallTop(s, n) - 1 = Len(s.stack)
      BY <1>1
    <3> QED  BY <1>1, <1>4, <3>1 DEF ResultOf, Returning
  <2> HIDE DEF f
  <2>4. CInv(poscall(s, f.u2))
    <3>1. s.ci[n].kind = "C" /\ ~s.ci[n].ypcall /\ s.ci[n].pc # "top"
      BY <1>1, <1>4, <2>1 DEF FrameOk, f
    <3>2. s.cs[m].t = "exec" => s.ci[n - 1].pc \notin {"close", "return"}
      BY <1>1
    <3> QED  BY ONLY <2>2, <2>3, <3>1, <3>2, Poscall
  <2> QED  BY <1>2, <1>4, <2>4
<1>5. CASE ~f.clsret /\ f.ypcall /\ f.recst # "ok"
  <2>1. e \in CloseC /\ e.t = "close" /\ e.level = f.u2 /\ e.then = "pcallk" /\ e.status = f.recst
    BY <1>1, <1>5 DEF CloseC, CallInfo
  <2>2. f.func < f.u2 /\ f.u2 <= CallTop(s, n) /\ f.pc = "call"
    BY <1>1, <1>5 DEF FrameOk
  <2> HIDE DEF e
  <2>3. OnFrame(s, e, n)
    BY <1>5, <2>1, <2>2 DEF OnFrame, CloseOk, Try
  <2>4. CallsNext(s.cs[m], e)
    BY <1>1, <2>1 DEF CallsNext, Closing
  <2>5. \A t, b : t.ci = s.ci /\ t.cs[m] = s.cs[m] /\ t.cs[m + 1] = e /\ b[m] = d[m]
          /\ b[m + 1] = n => Deeper(t, b, m)
    <3> TAKE t, b
    <3> HAVE t.ci = s.ci /\ t.cs[m] = s.cs[m] /\ t.cs[m + 1] = e /\ b[m] = d[m] /\ b[m + 1] = n
    <3>1. t.cs[m].t = "unroll" /\ b[m + 1] > 1
      BY <1>1
    <3>2. Beneath(t, t.cs[m], t.cs[m + 1], b[m])
      BY <3>1 DEF Beneath, Try
    <3> QED  BY <3>1, <3>2 DEF Deeper
  <2>6. e \in CFunction
    BY <2>1 DEF CFunction
  <2>7. MayEnter(s, d, m, n, e)
    BY <1>1, <1>3, <2>1, <2>3, <2>4, <2>5, <2>6 DEF MayEnter
  <2>8. ~TakesResult(s.ci[n])
    BY <2>2 DEF TakesResult
  <2>9. CInv(PushC(s, e))
    BY <1>1, <2>7, <2>8, EnterTop
  <2> QED  BY <1>2, <1>5, <2>9
<1>6. CASE ~f.clsret /\ ~(f.ypcall /\ f.recst # "ok")
  <2>1. f.recst = "ok"
    BY <1>1, <1>6 DEF FrameOk
  <2>2. GoingOn(f, g)
    BY <1>1, <2>1 DEF GoingOn, CallInfo
  <2> DEFINE p == Len(s.stack) + 1
  <2>3. p \in Nat /\ f.func < p /\ p <= Len(s.stack) + 1
    <3>1. \A x, y \in Nat : x <= y => x < y + 1 /\ y + 1 <= y + 1 /\ y + 1 \in Nat
      OBVIOUS
    <3> QED  BY <1>1, <3>1
  <2>4. ~TbcFrom(s, p)
    <3> SUFFICES ASSUME NEW a \in 1..Len(s.tbclist), s.tbclist[a] >= p PROVE FALSE
      BY DEF TbcFrom
    <3>1. s.tbclist[a] \in Nat /\ s.tbclist[a] <= Len(s.stack)
      BY <1>1, VariablesBelow DEF Base
    <3>2. \A x, y \in Nat : x <= y => ~(x >= y + 1)
      OBVIOUS
    <3> QED  BY <1>1, <3>1, <3>2
  <2>5. SameCounts(s, s)
    BY DEF SameCounts
  <2> HIDE DEF p, g, f
  <2>6. s.ci[n].func < p /\ ~s.ci[n].clsret /\ s.ci[n].recst = "ok" /\ GoingOn(s.ci[n], g)
    BY <1>6, <2>1, <2>2, <2>3 DEF f
  <2>7. CInv(PushC(SetCI(s, g), [t |-> "cfn"]))
    <3>1. /\ s.ci = s.ci /\ s.cs = s.cs /\ (s.ci[n].recst # "ok" => p <= s.ci[n].u2)
          /\ \A q \in 1..(p - 1) : s.stack[q] = s.stack[q]
      BY <2>6
    <3> QED  BY <1>1, <2>3, <2>4, <2>5, <2>6, <3>1, Continues
  <2> QED  BY <1>2, <1>6, <2>7
<1> QED  BY <1>4, <1>5, <1>6

(* It goes on with an interrupted instruction. *)
LEMMA FinishesLau ==
  ASSUME NEW s, NEW d, NEW m, NEW n, Unroller(s, d, m, n), n > 1, s.ci[n].kind # "C"
  PROVE  CInv(finishOp(s))
<1> DEFINE f == s.ci[n]  x == [t |-> "exec"]  t == PushC(s, x)  k == m + 1
<1>1. /\ Base(s, d) /\ s \in State /\ s.status = "ok" /\ m = 2 /\ m \in Nat /\ m > 0
         /\ m = Len(s.cs) /\ n \in Nat /\ n = Len(s.ci)
      /\ d[1] = 1 /\ d[2] = 1 /\ s.cs[m].t = "unroll" /\ Counts(s) /\ s.nc < MaxCcalls
         /\ s.nny <= s.nc
      /\ f \in CallInfo /\ FrameOk(s, n) /\ ResultOf(s, n) /\ Last(s.ci) = f /\ Top(s, d) /\ n > 0
      /\ f.func \in Nat /\ f.func > 0 /\ f.func <= Len(s.stack) /\ Len(s.stack) \in Nat
         /\ CallTop(s, n) = Len(s.stack) + 1
  BY DEF Unroller, InControl
<1>2. f.kind = "Lau"
  BY <1>1, FrameType
<1>3. x \in CFunction /\ x.t = "exec"
  BY DEF CFunction, PlainC
<1> HIDE DEF x
<1>4. MayEnter(s, d, m, n, x)
  <2>1. OnFrame(s, x, n)
    BY <1>2, <1>3 DEF OnFrame, Try
  <2>2. CallsNext(s.cs[m], x)
    BY <1>1, <1>3 DEF CallsNext
  <2>3. \A u, b : u.ci = s.ci /\ u.cs[m] = s.cs[m] /\ u.cs[m + 1] = x /\ b[m] = d[m]
          /\ b[m + 1] = n => Deeper(u, b, m)
    <3> TAKE u, b
    <3> HAVE u.ci = s.ci /\ u.cs[m] = s.cs[m] /\ u.cs[m + 1] = x /\ b[m] = d[m] /\ b[m + 1] = n
    <3>1. u.cs[m].t = "unroll" /\ b[m + 1] > 1
      BY <1>1
    <3>2. Beneath(u, u.cs[m], u.cs[m + 1], b[m])
      BY <3>1 DEF Beneath, Try
    <3> QED  BY <3>1, <3>2 DEF Deeper
  <2>4. d[m] <= n
    BY <1>1
  <2> QED  BY <1>1, <1>3, <2>1, <2>2, <2>3, <2>4 DEF MayEnter
<1>5. PICK c : Entered(s, t, x, c, n)
  BY <1>4, Enter
<1> HIDE DEF t, f
<1>6. /\ Base(t, c) /\ c[k] = n /\ Counts(t) /\ Len(t.cs) = k /\ t.cs[k].t = "exec"
      /\ t \in State /\ t.ci = s.ci /\ t.stack = s.stack /\ t.tbclist = s.tbclist /\ t.status = "ok"
         /\ t.nc = s.nc /\ t.nny = s.nny
  <2>1. Len(t.cs) = k
    BY <1>1, <1>5 DEF Entered, Pushed
  <2> HIDE DEF k
  <2> QED  BY <1>1, <1>3, <1>5, <2>1 DEF Entered, Pushed, SameCounts
<1>7. k \in Nat /\ k > 0
  BY <1>1
<1> HIDE DEF k
<1>8. finishOp(s) =
        CASE f.pc = "index" -> At(SetTop(t, Len(s.stack)), "run")
          [] f.pc = "close" -> lauF_close(t, f.level, "ok", TRUE, "close")
          [] f.pc = "return" -> lauF_close(t, f.func + 1, "ktop", TRUE, "return")
          [] OTHER -> At(t, "run")
  BY <1>1 DEF finishOp, t, x
<1>9. t.ci[n] = f /\ n = Len(t.ci) /\ CallTop(t, n) = Len(s.stack) + 1 /\ ResultOf(t, n)
        /\ FrameOk(t, n)
  <2>1. CallTop(t, n) = CallTop(s, n)
    BY <1>6 DEF CallTop
  <2>2. ResultOf(t, n)
    BY <1>1, <1>6, <2>1 DEF ResultOf
  <2>3. n = Len(t.ci)
    BY <1>1, <1>6
  <2>4. FrameOk(t, n)
    BY <1>1, <1>6, <2>3, RunningFrame
  <2> QED  BY <1>1, <1>6, <2>1, <2>2, <2>3, <2>4 DEF f
<1>10. CASE f.pc = "index"
  <2>1. TakesResult(t.ci[n]) /\ t.ci[n].func < Len(t.stack) /\ ~TbcFrom(t, Len(t.stack))
    <3>1. TakesResult(f)
      BY <1>10 DEF TakesResult
    <3>2. f.func < Len(s.stack) /\ ~TbcFrom(s, Len(s.stack))
      BY <1>1, <3>1 DEF Top, f
    <3> QED  BY <1>6, <1>9, <3>1, <3>2 DEF TbcFrom
  <2>2. CInv(At(SetTop(t, Len(t.stack)), "run"))
    BY <1>1, <1>6, <1>7, <1>9, <2>1, TakesIt
  <2> QED  BY <1>6, <1>8, <1>10, <2>2
<1>11. CASE f.pc = "close"
  <2> DEFINE e == [t |-> "close", level |-> f.level, status |-> "ok", yy |-> TRUE, then |-> "close"]
  <2>1. e \in CloseC /\ e.t = "close" /\ e.level = f.level /\ e.then = "close" /\ e.status = "ok"
    BY <1>1 DEF CloseC, CallInfo
  <2>2. lauF_close(t, f.level, "ok", TRUE, "close") = PushC(t, e)
    BY DEF lauF_close
  <2> HIDE DEF e
  <2>3. f.func < f.level /\ f.level <= CallTop(t, n) /\ ~TakesResult(f)
    BY <1>9, <1>11 DEF FrameOk, TakesResult
  <2>4. OnFrame(t, e, n)
    BY <1>9, <1>11, <2>1, <2>3 DEF OnFrame, CloseOk, Try
  <2>5. CallsNext(t.cs[k], e)
    BY <1>6, <2>1 DEF CallsNext, Closing
  <2>6. CInv(PushC(t, e))
    BY <1>1, <1>6, <1>7, <1>9, <2>1, <2>3, <2>4, <2>5, StartsClosing
  <2> QED  BY <1>8, <1>11, <2>2, <2>6
<1>12. CASE f.pc = "return"
  <2> DEFINE e == [t |-> "close", level |-> f.func + 1, status |-> "ktop", yy |-> TRUE,
        then |-> "return"]
  <2>1. e \in CloseC /\ e.t = "close" /\ e.level = f.func + 1 /\ e.then = "return"
          /\ e.status = "ktop"
    <3>1. f.func + 1 \in Nat
      BY <1>1
    <3> QED  BY <3>1 DEF CloseC
  <2>2. lauF_close(t, f.func + 1, "ktop", TRUE, "return") = PushC(t, e)
    BY DEF lauF_close
  <2> HIDE DEF e
  <2>3. f.func < f.func + 1 /\ f.func + 1 <= CallTop(t, n) /\ ~TakesResult(f)
    <3>1. \A y, z \in Nat : y <= z => y < y + 1 /\ y + 1 <= z + 1
      OBVIOUS
    <3>2. f.func < f.func + 1 /\ f.func + 1 <= CallTop(t, n)
      BY <1>1, <1>9, <3>1
    <3> QED  BY <1>12, <3>2 DEF TakesResult
  <2>4. OnFrame(t, e, n)
    BY <1>9, <1>12, <2>1, <2>3 DEF OnFrame, CloseOk, Try
  <2>5. CallsNext(t.cs[k], e)
    BY <1>6, <2>1 DEF CallsNext, Closing
  <2>6. CInv(PushC(t, e))
    BY <1>1, <1>6, <1>7, <1>9, <2>1, <2>3, <2>4, <2>5, StartsClosing
  <2> QED  BY <1>8, <1>12, <2>2, <2>6
<1>13. CASE f.pc \notin {"index", "close", "return"}
  <2>1. CInv(At(t, "run"))
    BY <1>1, <1>6, <1>7, <1>9, NextInstruction
  <2> QED  BY <1>8, <1>13, <2>1
<1> QED  BY <1>10, <1>11, <1>12, <1>13

(* unroll keeps the invariant. *)
LEMMA unrollStep ==
  ASSUME CInv(L), unroll
  PROVE  CInv(L')
<1> DEFINE m == Len(L.cs)  n == Len(L.ci)
<1>1. L.cs # <<>>
  BY DEF unroll, Control
<1>2. PICK d \in [Nat -> Nat] : Top(L, d) /\ InControl(L, d, m, n)
  BY <1>1, Controls
<1>3. L.cs[m].t = "unroll" /\ CI = L.ci[n] /\ n \in Nat /\ n > 0
  BY <1>2 DEF unroll, InControl, CI
<1>4. Unroller(L, d, m, n)
  BY <1>2, <1>3, UnrollerIs
<1>5. L' = IF n = 1 THEN PopC(L) ELSE IF L.ci[n].kind = "C" THEN finishCcall(L) ELSE finishOp(L)
  BY <1>3 DEF unroll
<1> HIDE DEF m, n
<1>6. CASE n = 1
  BY <1>4, <1>5, <1>6, UnrollEnds
<1>7. CASE n # 1
  <2>1. n > 1
    <3>1. \A x \in Nat : x > 0 /\ x # 1 => x > 1
      OBVIOUS
    <3> QED  BY <1>3, <1>7, <3>1
  <2> QED  BY <1>4, <1>5, <1>7, <2>1, FinishesC, FinishesLau
<1> QED  BY <1>6, <1>7

(* The loop of lauF_close calls a method *)

Looping(s, d, m, n, e) ==
  /\ InControl(s, d, m, n) /\ s.cs[m] = e /\ e.t = "close"
  /\ e \in CloseC /\ CloseOk(s, e, n) /\ d[m] = n /\ Counts(s)
  /\ m > 1 /\ m - 1 \in Nat /\ m - 1 > 0 /\ m - 1 \in 1..m /\ CallsNext(s.cs[m - 1], e)
     /\ Deeper(s, d, m - 1)
  /\ Depths(s, d) /\ CFunctions(s.cs) /\ Skeleton(s, d)

(* What holds while the loop of lauF_close is in control. *)
LEMMA LoopingIs ==
  ASSUME NEW s, NEW d, NEW m, NEW n, InControl(s, d, m, n), s.cs[m].t = "close"
  PROVE  Looping(s, d, m, n, s.cs[m])
<1> DEFINE e == s.cs[m]
<1>1. /\ Base(s, d) /\ s \in State /\ m \in Nat /\ m = Len(s.cs) /\ m > 0 /\ m \in 1..m
      /\ n \in Nat /\ n = Len(s.ci) /\ Counts(s) /\ d[m] = n
  BY DEF InControl
<1>2. CFunctions(s.cs) /\ Depths(s, d) /\ Skeleton(s, d)
  BY <1>1, RunningFrame
<1>3. e \in CloseC
  <2>1. e \in CFunction
    BY <1>1, StateType
  <2> QED  BY <2>1, EntryType
<1>4. m > 1
  <2>1. EntryOk(s.cs, m)
    BY <1>1, <1>2 DEF CFunctions
  <2>2. m # 1
    BY <1>1, <2>1 DEF EntryOk, Try
  <2>3. \A x \in Nat : x > 0 /\ x # 1 => x > 1
    OBVIOUS
  <2> QED  BY <1>1, <2>2, <2>3
<1>5. m - 1 \in Nat /\ m - 1 > 0 /\ (m - 1) + 1 = m /\ m - 1 \in 1..(m - 1) /\ m - 1 \in 1..m
  BY <1>1, <1>4, LessOne
<1>6. CallsNext(s.cs[m - 1], e) /\ Deeper(s, d, m - 1)
  BY <1>1, <1>2, <1>5 DEF CFunctions, Depths
<1>7. CloseOk(s, e, n)
  BY <1>1, <1>2 DEF Depths, OnFrame
<1> HIDE DEF e
<1>8. e.t = "close" /\ s.cs[m] = e
  BY DEF e
<1>9. Looping(s, d, m, n, e)
  BY <1>1, <1>2, <1>3, <1>4, <1>5, <1>6, <1>7, <1>8 DEF Looping
<1> QED  BY <1>9 DEF e

(* What the loop says of the frame that runs. *)
LEMMA LoopFrame ==
  ASSUME NEW s, NEW d, NEW m, NEW n, NEW e, Looping(s, d, m, n, e), NEW f, f = s.ci[n]
  PROVE  /\ ~TakesResult(f)
         /\ e.status # "ktop" => /\ ~Returning(f) /\ e.then \in {"close", "pcallk", "closep"}
            /\ f.func < e.level
                                 /\ (f.ypcall => f.u2 = e.level)
                                    /\ (f.pc = "close" => f.level = e.level)
<1>1. /\ CloseOk(s, e, n) /\ e \in CloseC /\ FrameOk(s, n)
  BY DEF Looping, InControl
<1>2. e.then \in {"close", "return", "poscall", "top", "pcallk", "closep"}
  BY <1>1 DEF CloseC
<1>3. CASE e.then = "close"
  <2>1. f.pc = "close" /\ f.level = e.level /\ f.func < e.level
    BY <1>1, <1>3 DEF CloseOk
  <2>2. f.kind = "Lau" /\ ~f.clsret /\ ~f.ypcall
    BY <1>1, <2>1 DEF FrameOk
  <2> QED  BY <1>3, <2>1, <2>2 DEF Returning, TakesResult
<1>4. CASE e.then = "return"
  BY <1>1, <1>4 DEF CloseOk, TakesResult
<1>5. CASE e.then = "poscall"
  BY <1>1, <1>5 DEF CloseOk, FrameOk, TakesResult
<1>6. CASE e.then = "top"
  BY <1>1, <1>6 DEF CloseOk, FrameOk, TakesResult
<1>7. CASE e.then = "pcallk"
  <2>1. f.ypcall /\ f.u2 = e.level /\ f.func < e.level
    BY <1>1, <1>7 DEF CloseOk
  <2>2. f.pc = "call" /\ ~f.clsret
    BY <1>1, <2>1 DEF FrameOk
  <2> QED  BY <1>7, <2>1, <2>2 DEF Returning, TakesResult
<1>8. CASE e.then = "closep"
  <2>1. ~f.ypcall /\ f.kind = "C" /\ ~f.clsret /\ f.func < e.level
    BY <1>1, <1>8 DEF CloseOk
  <2>2. f.pc \notin {"close", "return", "index", "add"}
    BY <1>1, <2>1 DEF FrameOk
  <2> QED  BY <1>8, <2>1, <2>2 DEF Returning, TakesResult
<1> QED  BY <1>2, <1>3, <1>4, <1>5, <1>6, <1>7, <1>8

(* lauD_closeprotected runs it for a C function or for a reset. *)
ClosesProtected(s, d, m, n, e) ==
  LET q == m - 1 IN
  /\ q \in Nat /\ q > 1 /\ q \in 1..m /\ q - 1 \in 1..m /\ q - 1 \in Nat /\ d[q] = n /\ d[q - 1] = n
  /\ s.cs[q].level = e.level /\ Try(s.cs[q], {"closep"})
  /\ s.cs[q - 1].t = "cfn" \/ (s.cs[q - 1].t = "reset" /\ e.level = 2 /\ n = 1)
  /\ s.ci[n].pc # "top"

(* Below the loop of lauD_closeprotected there is its handler. *)
LEMMA ClosesFor ==
  ASSUME NEW s, NEW d, NEW m, NEW n, NEW e, Looping(s, d, m, n, e), e.then = "closep"
  PROVE  ClosesProtected(s, d, m, n, e)
<1> DEFINE q == m - 1
<1>1. /\ m \in Nat /\ m = Len(s.cs) /\ m > 1 /\ n \in Nat /\ n = Len(s.ci) /\ s.cs[m] = e
         /\ e.t = "close" /\ d[m] = n
      /\ q \in Nat /\ q > 0 /\ q \in 1..m /\ CallsNext(s.cs[q], e) /\ Deeper(s, d, q)
         /\ Depths(s, d) /\ CFunctions(s.cs)
  BY DEF Looping, InControl
<1>2. q + 1 = m
  BY <1>1
<1> HIDE DEF q
<1>3. Try(s.cs[q], {"closep"}) /\ s.cs[q].level = e.level
  BY <1>1 DEF CallsNext, Closing, Try
<1>4. d[q] = n
  BY <1>1, <1>2, <1>3 DEF Deeper, Try
<1>5. q > 1
  <2>1. EntryOk(s.cs, q)
    BY <1>1 DEF CFunctions
  <2>2. q # 1
    BY <1>3, <2>1 DEF EntryOk, Try, Unprotected
  <2>3. \A x \in Nat : x > 0 /\ x # 1 => x > 1
    OBVIOUS
  <2> QED  BY <1>1, <2>2, <2>3
<1>6. /\ q - 1 \in Nat /\ q - 1 > 0 /\ (q - 1) + 1 = q /\ q - 1 \in 1..(m - 1) /\ q - 1 \in 1..m
  <2>1. \A x, y \in Nat : x > 1 /\ x + 1 = y =>
          x - 1 \in Nat /\ x - 1 > 0 /\ (x - 1) + 1 = x /\ x - 1 \in 1..(y - 1) /\ x - 1 \in 1..y
    OBVIOUS
  <2> QED  BY <1>1, <1>2, <1>5, <2>1
<1>7. CallsNext(s.cs[q - 1], s.cs[q]) /\ Deeper(s, d, q - 1) /\ OnFrame(s, s.cs[q - 1], d[q - 1])
  BY <1>1, <1>6 DEF CFunctions, Depths
<1>8. s.cs[q - 1].t = "cfn" \/ (s.cs[q - 1].t = "reset" /\ e.level = 2)
  BY <1>3, <1>7 DEF CallsNext, Closing, Try, Protected
<1>9. d[q - 1] = n
  <2>1. s.cs[q - 1].t \notin {"ccall", "unroll", "exec"}
    BY <1>8
  <2> QED  BY <1>4, <1>6, <1>7, <2>1 DEF Deeper
<1>10. s.cs[q - 1].t = "reset" => n = 1
  BY <1>7, <1>9 DEF OnFrame
<1>11. s.ci[n].pc # "top"
  <2>1. CASE s.cs[q - 1].t = "cfn"
    <3>1. Beneath(s, s.cs[q - 1], s.cs[(q - 1) + 1], d[q - 1])
      BY <1>7 DEF Deeper
    <3>2. s.cs[q].t # "close"
      BY <1>3 DEF Try
    <3> QED  BY <1>6, <1>9, <2>1, <3>1, <3>2 DEF Beneath
  <2>2. CASE s.cs[q - 1].t = "reset"
    <3>1. s.ci[1] = BaseCI
      BY DEF Looping, Skeleton, Frames
    <3> QED  BY <1>10, <2>2, <3>1, BaseFrame
  <2> QED  BY <1>8, <2>1, <2>2
<1> QED  BY <1>1, <1>3, <1>4, <1>5, <1>6, <1>8, <1>9, <1>10, <1>11 DEF ClosesProtected, q

(* No other C function of the frame that runs keeps a higher level. *)
LEMMA LevelsBelow ==
  ASSUME NEW s, NEW d, NEW m, NEW n, NEW e, Looping(s, d, m, n, e),
         e.then \in {"close", "pcallk", "closep"},
         NEW j \in 1..m, d[j] = n, Try(s.cs[j], Protected) \/ s.cs[j].t = "close"
  PROVE  s.cs[j].level <= e.level
<1> DEFINE q == m - 1
<1>1. /\ m \in Nat /\ m = Len(s.cs) /\ m > 1 /\ n \in Nat /\ n = Len(s.ci) /\ s.cs[m] = e
         /\ e.t = "close" /\ d[m] = n
      /\ q \in Nat /\ q > 0 /\ q \in 1..m /\ CallsNext(s.cs[q], e) /\ Deeper(s, d, q)
         /\ Depths(s, d) /\ CFunctions(s.cs)
      /\ Skeleton(s, d) /\ e.level \in Nat
  BY DEF Looping, InControl, CloseC
<1>2. q + 1 = m
  BY <1>1
<1> HIDE DEF q
<1>3. ASSUME NEW k \in 1..m, s.cs[k].t \in {"exec", "cfn"}, NEW i \in 1..m, i < k
      PROVE  d[i] < d[k]
  <2>1. k > 1 /\ k - 1 \in 1..m /\ d[k - 1] \in Nat /\ d[k] \in Nat /\ d[k - 1] < d[k]
    BY <1>1, <1>3, Runs
  <2>2. i = k - 1 \/ i < k - 1
    BY <1>3, <2>1
  <2>3. d[i] <= d[k - 1] /\ d[i] \in Nat
    <3>1. d[i] \in 1..n
      BY <1>1 DEF Depths
    <3>2. d[i] \in Nat
      BY <1>1, <3>1
    <3>3. CASE i = k - 1
      <4>1. d[k - 1] <= d[k - 1]
        BY <2>1
      <4> QED  BY <3>2, <3>3, <4>1
    <3>4. CASE i < k - 1
      BY <1>1, <2>1, <3>2, <3>4 DEF Depths
    <3> QED  BY <2>2, <3>3, <3>4
  <2>4. \A x, y, z \in Nat : x <= y /\ y < z => x < z
    OBVIOUS
  <2> QED  BY <2>1, <2>3, <2>4
<1>4. e.level <= e.level
  BY <1>1
<1>5. j = m \/ j = q \/ j < q
  <2>1. \A x, y \in Nat : x + 1 = y => \A i \in 1..y : i = y \/ i = x \/ i < x
    OBVIOUS
  <2> QED  BY <1>1, <1>2, <2>1
<1>6. ~(n < n)
  BY <1>1
<1>7. CASE e.then = "close"
  <2>1. s.cs[q].t = "exec"
    BY <1>1, <1>7 DEF CallsNext, Closing, Try
  <2>2. d[q] = n
    BY <1>1, <1>2, <1>7, <2>1 DEF Deeper, Closing
  <2>3. j # q
    BY <2>1 DEF Try
  <2>4. ~(j < q)
    BY <1>1, <1>3, <1>6, <2>1, <2>2
  <2> QED  BY <1>1, <1>4, <1>5, <2>3, <2>4
<1>8. CASE e.then = "pcallk"
  <2>1. s.cs[q].t = "unroll"
    BY <1>1, <1>8 DEF CallsNext, Closing, Try
  <2>2. d[q] = 1 /\ n > 1
    BY <1>1, <1>2, <2>1 DEF Depths, OnFrame, Deeper
  <2>3. j # q
    BY <1>1, <2>2
  <2>4. ~(j < q)
    <3>1. j < q => d[j] <= d[q]
      BY <1>1 DEF Depths
    <3> QED  BY <1>1, <2>2, <3>1
  <2> QED  BY <1>1, <1>4, <1>5, <2>3, <2>4
<1>9. CASE e.then = "closep"
  <2> DEFINE k == q - 1
  <2>1. ClosesProtected(s, d, m, n, e)
    BY <1>9, ClosesFor
  <2>2. /\ k \in Nat /\ k \in 1..m /\ d[k] = n /\ s.cs[q].level = e.level
        /\ s.cs[k].t = "cfn" \/ (s.cs[k].t = "reset" /\ e.level = 2 /\ n = 1)
    BY <2>1 DEF ClosesProtected, q
  <2>3. k + 1 = q
    BY <1>1
  <2> HIDE DEF k
  <2>4. j = m \/ j = q \/ j = k \/ j < k
    <3>1. \A x, y \in Nat : x + 1 = y => \A i \in 1..m : i < y => i = x \/ i < x
      OBVIOUS
    <3> QED  BY <1>1, <1>5, <2>2, <2>3, <3>1
  <2>5. CASE s.cs[k].t = "cfn"
    <3>1. j # k
      BY <2>5 DEF Try
    <3>2. ~(j < k)
      BY <1>3, <1>6, <2>2, <2>5
    <3> QED  BY <1>1, <1>4, <2>2, <2>4, <3>1, <3>2
  <2>6. CASE s.cs[k].t = "reset"
    <3>1. e.level = 2 /\ n = 1
      BY <2>2, <2>6
    <3>2. \A i \in 1..k : s.cs[i].t \in {"try", "reset"}
      <4>1. EntryOk(s.cs, k)
        BY <1>1, <2>2 DEF CFunctions
      <4> QED  BY <2>6, <4>1 DEF EntryOk
    <3>3. CASE j \in 1..k
      <4>1. Try(s.cs[j], Protected)
        BY <3>2, <3>3
      <4>2. OnFrame(s, s.cs[j], d[j])
        BY <1>1 DEF Depths
      <4>3. s.cs[j].level = 2
        BY <3>1, <4>1, <4>2 DEF OnFrame
      <4> QED  BY <1>4, <3>1, <4>3
    <3>4. CASE j \notin 1..k
      <4>1. j = m \/ j = q
        BY <2>2, <2>4, <3>4
      <4> QED  BY <1>1, <1>4, <2>2, <4>1
    <3> QED  BY <3>3, <3>4
  <2> QED  BY <2>2, <2>5, <2>6
<1> QED  BY <1>7, <1>8, <1>9

(* No protected call of the frame is in progress, and no cut of the stack by an error. *)
LEMMA ClosesOther ==
  ASSUME NEW s, NEW d, NEW m, NEW n, NEW e, Looping(s, d, m, n, e)
  PROVE  ~(s.ci[n].ypcall /\ s.ci[n].recst = "ok") /\ (e.status # "ktop" => s.ci[n].pc # "top")
<1>1. CloseOk(s, e, n) /\ FrameOk(s, n) /\ e \in CloseC
  BY DEF Looping, InControl
<1>2. e.then \in {"close", "return", "poscall", "top", "pcallk", "closep"}
  BY <1>1 DEF CloseC
<1>3. ~(s.ci[n].ypcall /\ s.ci[n].recst = "ok")
  BY <1>1, <1>2 DEF CloseOk, FrameOk
<1>4. ASSUME e.status # "ktop" PROVE s.ci[n].pc # "top"
  <2>1. CASE e.then = "closep"
    BY <2>1, ClosesFor DEF ClosesProtected
  <2>2. CASE e.then # "closep"
    BY <1>1, <1>2, <1>4, <2>2 DEF CloseOk, FrameOk
  <2> QED  BY <2>1, <2>2
<1> QED  BY <1>3, <1>4

(* No handler of lau_pcallk is right below the loop. *)
LEMMA ClosesUnhandled ==
  ASSUME NEW s, NEW d, NEW m, NEW n, NEW e, Looping(s, d, m, n, e)
  PROVE  \A j \in 1..m : d[j] = n => ~Try(s.cs[j], {"pcall"})
<1> SUFFICES ASSUME NEW j \in 1..m, d[j] = n, Try(s.cs[j], {"pcall"}) PROVE FALSE
  OBVIOUS
<1>1. /\ m \in Nat /\ m = Len(s.cs) /\ n \in Nat /\ s.cs[m] = e /\ e.t = "close" /\ d[m] = n
      /\ Depths(s, d) /\ CFunctions(s.cs)
  BY DEF Looping, InControl
<1> DEFINE k == j + 1  l == k + 1
<1>2. j # m
  BY <1>1 DEF Try
<1>3. j \in 1..(m - 1) /\ k \in 1..m /\ k \in Nat
  BY <1>1, <1>2
<1>4. Deeper(s, d, j) /\ CallsNext(s.cs[j], s.cs[k])
  BY <1>1, <1>3 DEF Depths, CFunctions
<1>5. s.cs[k].t = "ccall" /\ d[k] = n
  BY <1>4 DEF CallsNext, Deeper, Try
<1> HIDE DEF k
<1>6. k # m
  BY <1>1, <1>5
<1>7. k \in 1..(m - 1) /\ l \in 1..m /\ l <= m /\ l \in Nat
  BY <1>1, <1>3, <1>6
<1>8. Deeper(s, d, k)
  BY <1>1, <1>7 DEF Depths
<1> HIDE DEF l
<1>9. d[k] < d[l]
  BY <1>5, <1>8 DEF Deeper, l
<1>10. d[l] \in Nat /\ d[l] <= n
  <2>1. l < m \/ l = m
    BY <1>1, <1>7
  <2>2. m \in 1..m /\ d[l] \in 1..Len(s.ci)
    BY <1>1, <1>7 DEF Depths
  <2>3. l < m => d[l] <= d[m]
    BY <1>1, <1>7, <2>2 DEF Depths
  <2> QED  BY <1>1, <2>1, <2>2, <2>3
<1> QED  BY <1>1, <1>5, <1>9, <1>10

(* The C function that closes variables is on the C stack or can be skipped. *)
LEMMA TopWaits ==
  ASSUME NEW s, NEW d, NEW m, NEW n, NEW e, Looping(s, d, m, n, e)
  PROVE  n > 1 => MayBeSkipped(s.ci[n]) \/ \E j \in 1..m : s.cs[j].t = "cfn" /\ d[j] = n
<1> DEFINE q == m - 1  f == s.ci[n]
<1> SUFFICES ASSUME n > 1, f.kind = "C", (~f.k /\ ~f.clsret) \/ f.pc = "top"
             PROVE  \E j \in 1..m : s.cs[j].t = "cfn" /\ d[j] = n
  BY DEF MayBeSkipped
<1>1. /\ m \in Nat /\ m = Len(s.cs) /\ m > 1 /\ n \in Nat /\ s.cs[m] = e /\ e.t = "close"
         /\ d[m] = n /\ e \in CloseC
      /\ q \in Nat /\ q > 0 /\ q \in 1..m /\ CallsNext(s.cs[q], e) /\ Deeper(s, d, q)
         /\ CloseOk(s, e, n) /\ FrameOk(s, n)
  BY DEF Looping, InControl
<1>2. q + 1 = m
  BY <1>1
<1> HIDE DEF q
<1>3. e.then \in {"top", "closep"}
  <2>1. f.pc \notin {"close", "return"}
    BY <1>1 DEF FrameOk
  <2>2. ~f.ypcall /\ ~f.clsret
    BY <1>1 DEF FrameOk
  <2>3. e.then \in {"close", "return", "poscall", "top", "pcallk", "closep"}
    BY <1>1 DEF CloseC
  <2> QED  BY <1>1, <2>1, <2>2, <2>3 DEF CloseOk
<1>4. CASE e.then = "top"
  <2>1. s.cs[q].t = "cfn"
    BY <1>1, <1>4 DEF CallsNext, Closing, Try
  <2>2. d[q] = n
    BY <1>1, <1>2, <2>1 DEF Deeper
  <2> QED  BY <1>1, <2>1, <2>2
<1>5. CASE e.then = "closep"
  <2>1. ClosesProtected(s, d, m, n, e)
    BY <1>5, ClosesFor
  <2>2. s.cs[q - 1].t = "cfn" /\ d[q - 1] = n /\ q - 1 \in 1..m
    BY <2>1 DEF ClosesProtected, q
  <2> QED  BY <2>2
<1> QED  BY <1>3, <1>4, <1>5

(* The last variable marked: the loop closes it. *)
LastMarked(s, e, tbc) ==
  LET q == Front(s.tbclist) IN
  /\ s.tbclist # <<>> /\ tbc \in Nat /\ tbc > 0 /\ e.level <= tbc /\ tbc <= Len(s.stack)
     /\ s.stack[tbc] \in Var
  /\ q \in Seq(Nat) /\ Len(q) \in Nat /\ Len(q) <= Len(s.tbclist) /\ Len(q) <= MaxVars
  /\ \A a \in 1..Len(q) : a \in 1..Len(s.tbclist) /\ q[a] = s.tbclist[a] /\ q[a] < tbc

(* The last variable of the list is at or above the level of the loop. *)
LEMMA MarkedLast ==
  ASSUME NEW s, NEW d, NEW m, NEW n, NEW e, Looping(s, d, m, n, e), TbcFrom(s, e.level)
  PROVE  LastMarked(s, e, Last(s.tbclist))
<1> DEFINE k == Len(s.tbclist)  tbc == Last(s.tbclist)  q == Front(s.tbclist)
<1>1. /\ s \in State /\ Base(s, d) /\ Variables(s) /\ e \in CloseC
  BY DEF Looping, InControl, Base
<1>2. /\ s.tbclist \in Seq(Nat) /\ k \in Nat /\ e.level \in Nat
  BY <1>1, StateType DEF CloseC
<1>3. PICK i \in 1..k : s.tbclist[i] >= e.level
  BY DEF TbcFrom
<1>4. s.tbclist # <<>>
  <2>1. k > 0
    BY <1>2, <1>3
  <2>2. Len(<<>>) = 0
    OBVIOUS
  <2> QED  BY <2>1, <2>2
<1>5. /\ k > 0 /\ tbc = s.tbclist[k] /\ q \in Seq(Nat) /\ Len(q) = k - 1
      /\ \A a \in 1..(k - 1) : q[a] = s.tbclist[a]
  BY <1>2, <1>4, FrontLast
<1>6. k \in 1..k /\ \A a \in 1..(k - 1) : a \in 1..k /\ a < k
  <2>1. \A x \in Nat : x > 0 => x \in 1..x /\ \A a \in 1..(x - 1) : a \in 1..x /\ a < x
    OBVIOUS
  <2> HIDE DEF k
  <2> QED  BY ONLY <1>2, <1>5, <2>1
<1>7. /\ tbc \in Nat /\ tbc > 0 /\ tbc <= Len(s.stack) /\ s.stack[tbc] \in Var
  <2>1. s.tbclist[k] \in Nat /\ s.tbclist[k] > 1 /\ s.tbclist[k] <= Len(s.stack)
    BY <1>1, <1>6, VariablesBelow
  <2>2. s.stack[s.tbclist[k]] \in Var
    BY <1>1, <1>6 DEF Variables, VariableOk
  <2>3. \A x \in Nat : x > 1 => x > 0
    OBVIOUS
  <2> QED  BY <1>5, <2>1, <2>2, <2>3
<1>8. e.level <= tbc
  <2>1. CASE i = k
    BY <1>2, <1>3, <1>5, <1>7, <2>1
  <2>2. CASE i # k
    <3>1. i < k
      BY <1>2, <1>3, <2>2
    <3>2. s.tbclist[i] < s.tbclist[k] /\ s.tbclist[i] \in Nat
      BY <1>1, <1>2, <1>3, <1>6, <3>1 DEF Variables
    <3>3. \A x, y, z \in Nat : x >= y /\ x < z => y <= z
      OBVIOUS
    <3> QED  BY <1>2, <1>3, <1>5, <1>7, <3>2, <3>3
  <2> QED  BY <2>1, <2>2
<1>9. \A a \in 1..(k - 1) : s.tbclist[a] < tbc
  BY <1>1, <1>5, <1>6 DEF Variables
<1>10. k <= MaxVars
  BY <1>1 DEF Variables
<1>11. Len(q) \in Nat /\ Len(q) <= k /\ Len(q) <= MaxVars
  <2>1. \A x, y \in Nat : x > 0 /\ x <= y => x - 1 \in Nat /\ x - 1 <= x /\ x - 1 <= y
    OBVIOUS
  <2>2. Len(q) = k - 1 /\ k \in Nat /\ k > 0 /\ MaxVars \in Nat
    BY <1>2, <1>5, Bounds
  <2> HIDE DEF k, q
  <2> QED  BY ONLY <1>10, <2>1, <2>2
<1>12. \A a \in 1..Len(q) : a \in 1..k /\ q[a] = s.tbclist[a] /\ q[a] < tbc
  BY <1>5, <1>6, <1>9
<1> QED  BY <1>4, <1>5, <1>7, <1>8, <1>11, <1>12 DEF LastMarked

(* The method of the variable at tbc is pushed at 'func'. *)
MethodPushed(s, p, e, tbc, func) ==
  /\ p \in State /\ p.ci = s.ci /\ p.cs = s.cs /\ p.status = s.status /\ p.nc = s.nc
     /\ p.nny = s.nny
  /\ p.tbclist = Front(s.tbclist)
  /\ func \in Nat /\ tbc < func /\ func <= Len(p.stack)
  /\ \A x \in 1..tbc : p.stack[x] = s.stack[x]
  /\ e.status = "ktop" => func = Len(s.stack) + 1
     /\ \A x \in 1..Len(s.stack) : p.stack[x] = s.stack[x]

Prepared(s, t, e, tbc) ==
  /\ t \in State /\ t.ci = s.ci /\ t.cs = s.cs /\ t.status = s.status /\ t.nc = s.nc
     /\ t.nny = s.nny
  /\ t.tbclist = Front(s.tbclist)
  /\ Len(t.stack) \in Nat /\ tbc <= Len(t.stack)
  /\ \A x \in 1..tbc : t.stack[x] = s.stack[x]
  /\ e.status = "ktop" => t.stack = s.stack
  /\ e.status \in ErrorStatus => tbc + 1 <= Len(t.stack)

(* prepcallclosemth keeps the stack up to the variable, and all of it for CLOSEKTOP. *)
LEMMA Prepares ==
  ASSUME NEW s, NEW d, NEW m, NEW n, NEW e, Looping(s, d, m, n, e), NEW tbc, LastMarked(s, e, tbc)
  PROVE  Prepared(s, prepcallclosemth([s EXCEPT !.tbclist = Front(@)], tbc, e.status), e, tbc)
<1> DEFINE l == [s EXCEPT !.tbclist = Front(@)]
           t == prepcallclosemth(l, tbc, e.status)
<1> SUFFICES Prepared(s, t, e, tbc)
  OBVIOUS
<1>1. /\ s \in State /\ e \in CloseC
  BY DEF Looping, InControl
<1>2. /\ tbc \in Nat /\ tbc > 0 /\ tbc <= Len(s.stack) /\ Front(s.tbclist) \in Seq(Nat)
         /\ Len(s.stack) \in Nat
  BY <1>1, StateType DEF LastMarked
<1>3. /\ l \in State /\ l.ci = s.ci /\ l.cs = s.cs /\ l.status = s.status /\ l.nc = s.nc
         /\ l.nny = s.nny
      /\ l.stack = s.stack /\ l.tbclist = Front(s.tbclist)
  BY <1>1, <1>2 DEF State
<1>4. t = prepcallclosemth(l, tbc, e.status)
  OBVIOUS
<1> HIDE DEF l, t
<1>5. e.status \in {"run", "mem", "ok", "ktop"}
  BY <1>1 DEF CloseC, ErrorStatus
<1>6. tbc + 1 \in 1..(Len(s.stack) + 1) /\ (tbc + 1) - 1 = tbc /\ tbc <= tbc /\ tbc <= tbc + 1
        /\ tbc + 1 \in Nat /\ tbc + 1 <= tbc + 1
  BY <1>2
<1>7. CASE e.status = "ktop"
  <2>1. t = l
    BY <1>4, <1>7 DEF prepcallclosemth
  <2>2. e.status \notin ErrorStatus
    BY <1>7 DEF ErrorStatus
  <2>3. /\ t \in State /\ t.ci = s.ci /\ t.cs = s.cs /\ t.status = s.status /\ t.nc = s.nc
           /\ t.nny = s.nny
        /\ t.stack = s.stack /\ t.tbclist = Front(s.tbclist)
    BY <1>3, <2>1
  <2> QED  BY <1>2, <2>2, <2>3 DEF Prepared
<1>8. CASE e.status = "ok"
  <2>1. t = SetTop(l, tbc + 1)
    BY <1>4, <1>8 DEF prepcallclosemth
  <2>2. Cut(l, SetTop(l, tbc + 1), tbc + 1)
    BY <1>3, <1>6, SetTopIs
  <2>3. Cut(l, t, tbc + 1)
    BY <2>1, <2>2
  <2>4. e.status \notin ErrorStatus /\ e.status # "ktop"
    BY <1>8 DEF ErrorStatus
  <2>5. Len(t.stack) = tbc /\ \A x \in 1..tbc : t.stack[x] = s.stack[x]
    BY <1>3, <1>6, <2>3 DEF Cut
  <2>6. /\ t \in State /\ t.ci = s.ci /\ t.cs = s.cs /\ t.status = s.status /\ t.nc = s.nc
           /\ t.nny = s.nny
        /\ t.tbclist = Front(s.tbclist)
    BY <1>3, <2>3 DEF Cut, SameCounts
  <2> QED  BY <1>2, <1>6, <2>4, <2>5, <2>6 DEF Prepared
<1>9. CASE e.status \in ErrorStatus
  <2>1. t = seterrorobj(l, e.status, tbc + 1)
    BY <1>4, <1>9 DEF prepcallclosemth, ErrorStatus
  <2>2. Erred(l, seterrorobj(l, e.status, tbc + 1), tbc + 1)
    <3>1. Len(l.stack) > 0
      BY <1>2, <1>3
    <3> QED  BY <1>3, <1>6, <3>1, SetErrorIs
  <2>3. Erred(l, t, tbc + 1)
    BY <2>1, <2>2
  <2>4. e.status # "ktop"
    BY <1>9 DEF ErrorStatus
  <2>5. Len(t.stack) = tbc + 1 /\ \A x \in 1..tbc : t.stack[x] = s.stack[x]
    BY <1>3, <1>6, <2>3 DEF Erred
  <2>6. /\ t \in State /\ t.ci = s.ci /\ t.cs = s.cs /\ t.status = s.status /\ t.nc = s.nc
           /\ t.nny = s.nny
        /\ t.tbclist = Front(s.tbclist)
    BY <1>3, <2>3 DEF Erred, SameCounts
  <2> QED  BY <1>2, <1>6, <2>4, <2>5, <2>6 DEF Prepared
<1> QED  BY <1>5, <1>7, <1>8, <1>9 DEF ErrorStatus

(* callclosemethod pushes the method, the variable and the error object, if any. *)
LEMMA PushesMethod ==
  ASSUME NEW s, NEW d, NEW m, NEW n, NEW e, Looping(s, d, m, n, e), NEW tbc, LastMarked(s, e, tbc),
         NEW t, Prepared(s, t, e, tbc), NEW err,
         err = IF e.status \in ErrorStatus THEN <<t.stack[tbc + 1]>> ELSE <<>>
  PROVE  MethodPushed(s, PushStack(t, <<"func", t.stack[tbc]>> \o err), e, tbc, Len(t.stack) + 1)
<1> DEFINE v == <<"func", t.stack[tbc]>> \o err  p == PushStack(t,
      v)  h == Len(t.stack)  func == h + 1
<1>1. /\ s \in State /\ t \in State /\ h \in Nat /\ tbc \in Nat /\ tbc > 0 /\ tbc <= h
         /\ tbc <= Len(s.stack)
  BY DEF Looping, InControl, LastMarked, Prepared
<1>2. \A i \in 1..h : t.stack[i] \in StackValue
  BY <1>1, StateType
<1>3. t.stack[tbc] \in StackValue
  BY <1>1, <1>2
<1>4. err \in Seq(StackValue) /\ Len(err) \in {0, 1}
  <2>1. CASE e.status \in ErrorStatus
    <3>1. tbc + 1 \in 1..h
      BY <1>1, <2>1 DEF Prepared
    <3>2. t.stack[tbc + 1] \in StackValue
      BY <1>2, <3>1
    <3> QED  BY <2>1, <3>2
  <2>2. CASE e.status \notin ErrorStatus
    BY <2>2
  <2> QED  BY <2>1, <2>2
<1>5. "func" \in StackValue
  BY DEF StackValue
<1>6. <<"func", t.stack[tbc]>> \in Seq(StackValue) /\ Len(<<"func", t.stack[tbc]>>) = 2
  BY <1>3, <1>5
<1>7. v \in Seq(StackValue) /\ Len(v) \in Nat /\ Len(v) > 0
  BY <1>4, <1>6
<1> HIDE DEF v
<1>8. Grown(t, p, v)
  BY <1>1, <1>7, PushStackIs
<1>9. Len(p.stack) = h + Len(v) /\ \A x \in 1..h : p.stack[x] = t.stack[x]
  BY <1>8 DEF Grown
<1> HIDE DEF p
<1> DEFINE w == Len(v)  g == Len(p.stack)
<1>10. w \in Nat /\ w > 0 /\ g = h + w
  BY <1>7, <1>9
<1> HIDE DEF w, g, h
<1>11. func \in Nat /\ tbc < func /\ func <= g
  BY <1>1, <1>10
<1>12. \A x \in 1..tbc : p.stack[x] = s.stack[x]
  <2>1. \A x \in 1..tbc : x \in 1..h /\ t.stack[x] = s.stack[x]
    BY <1>1 DEF Prepared
  <2> QED  BY <1>9, <2>1 DEF h
<1>13. e.status = "ktop" => func = Len(s.stack) + 1
         /\ \A x \in 1..Len(s.stack) : p.stack[x] = s.stack[x]
  BY <1>9 DEF Prepared, h
<1>14. /\ p \in State /\ p.ci = s.ci /\ p.cs = s.cs /\ p.status = s.status /\ p.nc = s.nc
          /\ p.nny = s.nny
       /\ p.tbclist = Front(s.tbclist)
  BY <1>8 DEF Grown, SameCounts, Prepared
<1>15. MethodPushed(s, p, e, tbc, func)
  BY <1>11, <1>12, <1>13, <1>14 DEF MethodPushed, g
<1> QED  BY <1>15 DEF p, v, h

(* No C function of the frame that runs keeps a level above 'func'. *)
LEMMA LevelsBelowFunc ==
  ASSUME NEW s, NEW d, NEW m, NEW n, NEW e, Looping(s, d, m, n, e), NEW tbc, LastMarked(s, e, tbc),
         NEW p, NEW func, MethodPushed(s, p, e, tbc, func),
         NEW j \in 1..m, d[j] = n, Try(s.cs[j], Protected) \/ s.cs[j].t = "close"
  PROVE  s.cs[j].level \in Nat /\ s.cs[j].level <= func
<1>1. /\ s \in State /\ m = Len(s.cs) /\ Depths(s, d) /\ CallTop(s, n) = Len(s.stack) + 1
         /\ e \in CloseC
      /\ func \in Nat /\ tbc \in Nat /\ e.level <= tbc /\ tbc < func
  BY DEF Looping, InControl, LastMarked, MethodPushed
<1>2. e.level \in Nat
  BY <1>1 DEF CloseC
<1>3. s.cs[j].level \in Nat
  <2>1. s.cs[j] \in CFunction
    BY <1>1, StateType
  <2>2. s.cs[j].t = "try" => s.cs[j] \in TryC
    BY <2>1, EntryType
  <2>3. s.cs[j].t = "close" => s.cs[j] \in CloseC
    BY <2>1, EntryType
  <2> QED  BY <2>2, <2>3 DEF Try, TryC, CloseC
<1>4. CASE e.status = "ktop"
  <2>1. OnFrame(s, s.cs[j], d[j])
    BY <1>1 DEF Depths
  <2>2. s.cs[j].level <= CallTop(s, n)
    BY <2>1 DEF OnFrame, CloseOk
  <2> QED  BY <1>1, <1>3, <1>4, <2>2 DEF MethodPushed
<1>5. CASE e.status # "ktop"
  <2>1. e.then \in {"close", "pcallk", "closep"}
    BY <1>5, LoopFrame
  <2>2. s.cs[j].level <= e.level
    BY <2>1, LevelsBelow
  <2>3. \A w, x, y, z \in Nat : w <= x /\ x <= y /\ y < z => w <= z
    OBVIOUS
  <2> QED  BY <1>1, <1>2, <1>3, <2>2, <2>3
<1> QED  BY <1>4, <1>5

(* The results of the running frame that wait are below the method. *)
LEMMA MethodFrame ==
  ASSUME NEW s, NEW d, NEW m, NEW n, NEW e, Looping(s, d, m, n, e), NEW tbc, LastMarked(s, e, tbc),
         NEW p, NEW func, MethodPushed(s, p, e, tbc, func)
  PROVE  /\ TopOnly(s, p) /\ FrameOk(p, n) /\ Calling(p, n, func, 0)
         /\ CallTop(p, n) \in Nat /\ func <= CallTop(p, n)
<1> DEFINE f == s.ci[n]
<1>1. /\ s \in State /\ n \in Nat /\ n > 0 /\ n \in 1..n /\ n = Len(s.ci) /\ e \in CloseC
         /\ f \in CallInfo /\ FrameOk(s, n)
      /\ ResultOf(s, n) /\ CallTop(s, n) = Len(s.stack) + 1 /\ Len(s.stack) \in Nat
         /\ f.func \in Nat /\ f.func > 0 /\ f.func <= Len(s.stack)
  BY DEF Looping, InControl
<1>2. /\ p \in State /\ p.ci = s.ci /\ func \in Nat /\ tbc \in Nat /\ tbc < func
         /\ func <= Len(p.stack) /\ e.level <= tbc
      /\ tbc <= Len(s.stack) /\ \A x \in 1..tbc : p.stack[x] = s.stack[x]
  BY DEF LastMarked, MethodPushed
<1>3. e.level \in Nat /\ f.u2 \in Nat /\ f.level \in Nat /\ Len(p.stack) \in Nat
  BY <1>1, <1>2, StateType DEF CloseC, CallInfo
<1>4. CallTop(p, n) = Len(p.stack) + 1
  BY <1>1, <1>2 DEF CallTop
<1>5. CallTop(p, n) \in Nat /\ func <= CallTop(p, n) /\ func < CallTop(p, n)
  <2>1. \A x, y \in Nat : x <= y => y + 1 \in Nat /\ x <= y + 1 /\ x < y + 1
    OBVIOUS
  <2> QED  BY <1>2, <1>3, <1>4, <2>1
<1>6. ~TakesResult(f)
  BY LoopFrame
<1>9. ~(f.ypcall /\ f.recst = "ok") /\ (e.status # "ktop" => f.pc # "top")
  BY ClosesOther
<1>7. CASE e.status = "ktop"
  <2>1. func = Len(s.stack) + 1 /\ \A x \in 1..Len(s.stack) : p.stack[x] = s.stack[x]
    BY <1>7 DEF MethodPushed
  <2>2. func = CallTop(s, n) /\ func - 1 = Len(s.stack)
    BY <1>1, <2>1
  <2>3. CallTop(s, n) \in Nat /\ CallTop(s, n) <= CallTop(p, n)
    BY <1>2, <1>5, <2>2
  <2>4. FrameOk(p, n)
    BY <1>1, <1>2, <1>5, <2>3, FrameOkKept
  <2>5. TopOnly(s, p)
    <3>1. f.func <= Len(p.stack)
      BY <1>1, <1>2, <1>3, <2>1
    <3>2. \A x \in 1..(f.func - 1) : p.stack[x] = s.stack[x]
      <4>1. \A x \in 1..(f.func - 1) : x \in 1..Len(s.stack)
        BY <1>1
      <4> QED  BY <2>1, <4>1
    <3> QED  BY <1>1, <1>2, <3>1, <3>2 DEF TopOnly
  <2>6. f.func < func
    BY <1>1, <2>1
  <2>7. /\ f.ypcall => f.u2 <= func
        /\ f.pc \in {"close", "top"} => f.level <= func
        /\ Returning(f) => f.func + f.u2 < func
    BY <1>1, <2>2 DEF FrameOk
  <2>8. Returning(f) /\ f.u2 = 1 => p.stack[func - 1] = "res"
    <3>1. Returning(f) /\ f.u2 = 1 => s.stack[Len(s.stack)] = "res"
      BY <1>1, <2>2 DEF ResultOf
    <3>2. Len(s.stack) \in 1..Len(s.stack)
      BY <1>1
    <3>3. p.stack[Len(s.stack)] = s.stack[Len(s.stack)]
      BY <2>1, <3>2
    <3> QED  BY <2>2, <3>1, <3>3
  <2>9. Calling(p, n, func, 0)
    BY <1>2, <1>6, <1>9, <2>6, <2>7, <2>8 DEF Calling
  <2> QED  BY <1>5, <2>4, <2>5, <2>9
<1>8. CASE e.status # "ktop"
  <2>1. /\ ~Returning(f) /\ f.func < e.level /\ (f.ypcall => f.u2 = e.level)
           /\ (f.pc = "close" => f.level = e.level)
    BY <1>8, LoopFrame
  <2>2. \A w, x, y, z \in Nat : w <= x /\ x < y /\ y < z => w <= y /\ w <= z
    OBVIOUS
  <2>3. e.level <= func /\ e.level <= CallTop(p, n)
    BY <1>2, <1>3, <1>5, <2>2
  <2>4. f.func < func /\ f.func <= Len(p.stack) /\ f.func < tbc
    <3>1. \A u, v, w, x, y \in Nat : u < v /\ v <= w /\ w < x /\ x <= y => u < x /\ u <= y /\ u < w
      OBVIOUS
    <3> QED  BY <1>1, <1>2, <1>3, <2>1, <3>1
  <2>5. FrameOk(p, n)
    <3>1. /\ f.ypcall => /\ f.kind = "C" /\ f.k /\ f.pc = "call" /\ ~f.clsret /\ f.func < f.u2
          /\ ~f.ypcall => f.recst = "ok"
          /\ f.clsret => f.kind = "C" /\ f.tbc /\ f.u2 \in 0..1
          /\ f.pc = "return" => f.kind = "Lau" /\ f.u2 \in 0..1
          /\ f.pc = "close" => f.kind = "Lau" /\ f.func < f.level
          /\ f.pc \in {"index", "add"} => f.kind = "Lau"
      BY <1>1 DEF FrameOk
    <3>2. f.ypcall => f.u2 <= CallTop(p, n)
      BY <2>1, <2>3
    <3>3. f.pc = "close" => f.level <= CallTop(p, n)
      BY <2>1, <2>3
    <3>4. p.ci[n] = f
      BY <1>2
    <3>5. f.pc # "top"
      BY <1>8, <1>9
    <3> HIDE DEF f
    <3> QED  BY <2>1, <3>1, <3>2, <3>3, <3>4, <3>5 DEF FrameOk
  <2>6. TopOnly(s, p)
    <3>1. \A x \in 1..(f.func - 1) : x \in 1..tbc
      BY <1>1, <1>2, <2>4
    <3>2. \A x \in 1..(f.func - 1) : p.stack[x] = s.stack[x]
      BY <1>2, <3>1
    <3> QED  BY <1>1, <1>2, <2>4, <3>2 DEF TopOnly
  <2>7. f.ypcall => f.u2 <= func
    BY <2>1, <2>3
  <2>8. f.pc \in {"close", "top"} => f.level <= func
    BY <1>8, <1>9, <2>1, <2>3
  <2>9. Calling(p, n, func, 0)
    BY <1>2, <1>6, <1>9, <2>1, <2>4, <2>7, <2>8 DEF Calling
  <2> QED  BY <1>5, <2>5, <2>6, <2>9
<1> QED  BY <1>7, <1>8

(* The loop may call the method. *)
LEMMA CallsMethod ==
  ASSUME NEW s, NEW d, NEW m, NEW n, NEW e, Looping(s, d, m, n, e), NEW tbc, LastMarked(s, e, tbc),
         NEW p, NEW func, MethodPushed(s, p, e, tbc, func)
  PROVE  MayCall(p, d, m, n, func, 0)
<1> DEFINE f == s.ci[n]
<1>1. /\ Base(s, d) /\ s \in State /\ s.status = "ok" /\ n \in Nat /\ n > 0 /\ n \in 1..n
         /\ n = Len(s.ci) /\ m \in Nat /\ m = Len(s.cs) /\ m > 0
      /\ e \in CloseC /\ CallTop(s, n) = Len(s.stack) + 1 /\ Len(s.stack) \in Nat /\ d[m] = n
         /\ Counts(s) /\ s.nc < MaxCcalls /\ s.nny <= s.nc
      /\ Depths(s, d) /\ Skeleton(s, d) /\ Frames(s) /\ Variables(s)
  BY DEF Looping, InControl, Base, Skeleton
<1>2. /\ p \in State /\ p.ci = s.ci /\ p.cs = s.cs /\ p.status = s.status /\ p.nc = s.nc
         /\ p.nny = s.nny
      /\ p.tbclist = Front(s.tbclist) /\ func \in Nat /\ tbc \in Nat /\ tbc < func
         /\ func <= Len(p.stack) /\ tbc <= Len(s.stack)
      /\ \A x \in 1..tbc : p.stack[x] = s.stack[x]
  BY DEF LastMarked, MethodPushed
<1>3. TopOnly(s, p) /\ FrameOk(p, n) /\ Calling(p, n, func, 0) /\ CallTop(p, n) \in Nat
        /\ func <= CallTop(p, n)
  BY MethodFrame
<1>4. \A j \in 1..m : d[j] = n /\ (Try(s.cs[j], Protected) \/ s.cs[j].t = "close")
        => s.cs[j].level \in Nat /\ s.cs[j].level <= func
  BY LevelsBelowFunc
<1>5. \A j \in 1..m : d[j] = n /\ (Try(s.cs[j], Protected) \/ s.cs[j].t = "close")
        => s.cs[j].level <= CallTop(p, n)
  <2>1. \A x, y, z \in Nat : x <= y /\ y <= z => x <= z
    OBVIOUS
  <2> QED  BY <1>2, <1>3, <1>4, <2>1
<1>6. \A j \in 1..m : d[j] = n => OnFrame(p, s.cs[j], n)
  <2> TAKE j \in 1..m
  <2> HAVE d[j] = n
  <2>1. OnFrame(s, s.cs[j], n)
    BY <1>1 DEF Depths
  <2>2. Try(s.cs[j], Protected) \/ s.cs[j].t = "close" => s.cs[j].level <= CallTop(p, n)
    BY <1>5
  <2>3. s.cs[j].t = "close" => CloseOk(p, s.cs[j], n)
    BY <1>2, <2>1, <2>2 DEF OnFrame, CloseOk
  <2> QED  BY <1>2, <2>1, <2>2, <2>3 DEF OnFrame
<1>7. f.ypcall => \A i \in 2..(n - 1) : MayBeSkipped(s.ci[i])
  <2>1. CASE n = 1
    BY <2>1
  <2>2. CASE n > 1
    <3>1. n \in 2..n /\ \A i \in 2..(n - 1) : i \in 2..n /\ i < n
      BY <1>1, <2>2
    <3> QED  BY <1>1, <3>1 DEF Frames
  <2>3. n = 1 \/ n > 1
    <3>1. \A x \in Nat : x > 0 => x = 1 \/ x > 1
      OBVIOUS
    <3> QED  BY <1>1, <3>1
  <2> QED  BY <2>1, <2>2, <2>3
<1> DEFINE q == Front(s.tbclist)
<1>8. /\ Len(q) \in Nat /\ Len(q) <= Len(s.tbclist)
      /\ \A a \in 1..Len(q) : a \in 1..Len(s.tbclist) /\ q[a] = s.tbclist[a] /\ q[a] < tbc
  BY DEF LastMarked
<1>9. \A a \in 1..Len(q) : s.tbclist[a] \in Nat /\ s.tbclist[a] > 1 /\ s.tbclist[a] <= Len(s.stack)
  BY <1>1, <1>8, VariablesBelow
<1>10. p.tbclist = q
  BY <1>2
<1> HIDE DEF q
<1>11. Len(p.stack) \in Nat
  BY <1>2, StateType
<1>12. \A a \in 1..Len(q) : q[a] \in Nat /\ q[a] > 1 /\ q[a] < func /\ q[a] <= Len(p.stack)
         /\ q[a] \in 1..tbc
  <2>1. \A v, w, x, y \in Nat : v > 1 /\ v < w /\ w < x /\ x <= y => v < x /\ v <= y /\ v \in 1..w
    OBVIOUS
  <2> QED  BY <1>2, <1>8, <1>9, <1>11, <2>1
<1>13. \A a \in 1..Len(q) : f.kind = "C" /\ f.func < q[a] => Accounted(p, q[a], n)
  <2> TAKE a \in 1..Len(q)
  <2> HAVE f.kind = "C" /\ f.func < q[a]
  <2>1. q[a] < CallTop(s, n)
    <3>1. \A x, y \in Nat : x <= y => x < y + 1
      OBVIOUS
    <3> QED  BY <1>1, <1>8, <1>9, <3>1
  <2>2. VariableOk(s, q[a])
    BY <1>1, <1>8 DEF Variables
  <2>3. Accounted(s, q[a], n)
    BY <1>1, <2>1, <2>2 DEF VariableOk
  <2> QED  BY <1>2, <2>3 DEF Accounted
<1>14. Base(p, d)
  <2>1. \A a \in 1..Len(p.tbclist) :
           /\ p.tbclist[a] = s.tbclist[a]
           /\ p.tbclist[a] <= Len(p.stack) /\ p.stack[p.tbclist[a]] = s.stack[p.tbclist[a]]
           /\ s.ci[Len(s.ci)].kind = "C" /\ s.ci[Len(s.ci)].func < p.tbclist[a]
                => Accounted(p, p.tbclist[a], Len(s.ci))
    BY <1>1, <1>2, <1>8, <1>10, <1>12, <1>13
  <2>2. \A j \in 1..Len(s.cs) : d[j] = Len(s.ci) =>
           OnFrame(p, s.cs[j], d[j]) /\ (j = Len(s.cs) \/ p.ci[Len(s.ci)] = s.ci[Len(s.ci)])
    BY <1>1, <1>2, <1>6
  <2>3. FrameOk(p, Len(s.ci))
          /\ (p.ci[Len(s.ci)].ypcall => s.ci[Len(s.ci)].ypcall \/ AllYieldable(s))
          /\ (p.ci[Len(s.ci)].ypcall => \A i \in 2..(Len(s.ci) - 1) : MayBeSkipped(s.ci[i]))
    BY <1>1, <1>2, <1>3, <1>7
  <2>4. Len(p.tbclist) <= Len(s.tbclist)
    BY <1>8, <1>10
  <2>5. p \in State /\ TopOnly(s, p) /\ p.cs = s.cs /\ p.status = s.status
    BY <1>2, <1>3
  <2> QED  BY <1>1, <2>1, <2>2, <2>3, <2>4, <2>5, Local
<1>15. Counts(p)
  BY <1>1, <1>2 DEF Counts
<1>16. n > 1 => MayBeSkipped(p.ci[n]) \/ \E j \in 1..m : p.cs[j].t = "cfn" /\ d[j] = n
  BY <1>2, TopWaits
<1>17. \A a \in 1..Len(p.tbclist) : p.tbclist[a] < func
  BY <1>10, <1>12
<1>18. \A j \in 1..m : d[j] = n /\ (Try(p.cs[j], Protected) \/ p.cs[j].t = "close")
         => p.cs[j].level <= func
  BY <1>2, <1>4
<1>19. /\ p.status = "ok" /\ m = Len(p.cs) /\ n = Len(p.ci) /\ p.nc < MaxCcalls /\ p.nny <= p.nc
  BY <1>1, <1>2
<1>20. \A j \in 1..m : d[j] = n => /\ (Try(p.cs[j], {"pcall"}) => func = p.cs[j].level)
                                /\ (Try(p.cs[j], {"closep"}) => 0 = 0)
  BY <1>2, ClosesUnhandled
<1> QED  BY <1>1, <1>2, <1>3, <1>14, <1>15, <1>16, <1>17, <1>18, <1>19, <1>20 DEF MayCall

(* The loop of lauF_close keeps the invariant. *)
LEMMA CloseVarStep ==
  ASSUME CInv(L), NEW kind \in {"Lau", "C"}, CloseVar(kind)
  PROVE  CInv(L')
<1> DEFINE m == Len(L.cs)
           n == Len(L.ci)
           e == Last(L.cs)
           tbc == Last(L.tbclist)
           t == prepcallclosemth([L EXCEPT !.tbclist = Front(@)], tbc, e.status)
           err == IF e.status \in ErrorStatus THEN <<t.stack[tbc + 1]>> ELSE <<>>
           p == PushStack(t, <<"func", t.stack[tbc]>> \o err)
           func == Len(t.stack) + 1
           y == IF e.yy THEN 0 ELSE 1
<1>1. Control(L) = "close" /\ TbcFrom(L, e.level) /\ L' = ccall(p, func, 0, 1, y, kind)
  BY DEF CloseVar
<1>2. L.cs # <<>>
  BY <1>1 DEF Control
<1>3. PICK d \in [Nat -> Nat] : InControl(L, d, m, n)
  BY <1>2, Controls
<1>4. L.cs[m].t = "close" /\ e = L.cs[m]
  BY <1>1, <1>3 DEF InControl
<1>5. Looping(L, d, m, n, e)
  BY <1>3, <1>4, LoopingIs
<1>6. LastMarked(L, e, tbc)
  BY <1>1, <1>5, MarkedLast
<1>7. Prepared(L, t, e, tbc)
  BY <1>5, <1>6, Prepares
<1> HIDE DEF e, tbc, t
<1>8. MethodPushed(L, p, e, tbc, func)
  BY <1>5, <1>6, <1>7, PushesMethod
<1> HIDE DEF p, func
<1>9. MayCall(p, d, m, n, func, 0)
  BY <1>5, <1>6, <1>8, CallsMethod
<1>10. p.cs[m] = e
  BY <1>4, <1>8 DEF MethodPushed
<1>11. e.t = "close" /\ e.yy \in BOOLEAN
  BY <1>5 DEF Looping, CloseC
<1>12. y \in {0, 1} /\ y <= 1 /\ (~e.yy => y = 1)
  BY <1>11
<1> HIDE DEF y
<1>13. CallsNext(p.cs[m], [t |-> "ccall", inc |-> 1, y |-> y])
  BY <1>10, <1>11, <1>12 DEF CallsNext
<1>14. p.cs[m].t # "exec" /\ p.cs[m].t # "cfn"
  BY <1>10, <1>11
<1>15. 1 \in {0, 1}
  OBVIOUS
<1>16. CInv(ccall(p, func, 0, 1, y, kind))
  BY <1>9, <1>12, <1>13, <1>14, <1>15, Ccall
<1> QED  BY <1>1, <1>16

(* The invariant holds of a new coroutine. *)
LEMMA InitInvariant ==
  ASSUME Init
  PROVE  CInv(L)
<1> DEFINE d == [j \in Nat |-> 1]
<1>1. d \in [Nat -> Nat]
  OBVIOUS
<1>2. /\ L.ci = <<BaseCI>> /\ L.stack = <<"nil">> /\ L.tbclist = <<>> /\ L.status = "ok" /\ L.nc = 0
         /\ L.nny = 0
      /\ L.cs = <<>> /\ L.ret = <<"ok">>
  BY DEF Init
<1>3. L \in State
  <2>1. BaseCI \in CallInfo
    BY DEF BaseCI, Frame, CallInfo, MULTRET
  <2>2. <<BaseCI>> \in Seq(CallInfo)
    BY <2>1
  <2>3. "nil" \in StackValue /\ "ok" \in Status
    BY DEF StackValue, Status
  <2>4. <<"nil">> \in Seq(StackValue) /\ <<"ok">> \in Seq(Status \cup StackValue)
    BY <2>3
  <2>5. <<>> \in Seq(Nat) /\ <<>> \in Seq(CFunction) /\ 0 \in Nat
    OBVIOUS
  <2> HIDE DEF d
  <2> QED  BY <2>2, <2>3, <2>4, <2>5 DEF Init, State
<1> HIDE DEF d
<1>4. Len(L.stack) > 0 /\ Len(L.cs) = 0 /\ Len(L.tbclist) = 0 /\ Len(L.ci) = 1
  BY <1>2
<1>5. Skeleton(L, d)
  BY <1>1, <1>2, <1>3, <1>4, Bare
<1>6. Variables(L)
  BY <1>4, Bounds DEF Variables
<1>7. L.ci[1] = BaseCI
  BY <1>2
<1>8. ResultOf(L, 1)
  BY <1>7, BaseFrame
<1>9. Top(L, d)
  BY <1>2, <1>4, <1>8, Bounds DEF Top
<1> QED  BY <1>1, <1>5, <1>6, <1>9 DEF CInv, Base

(* Every step keeps the invariant. *)
LEMMA NextInvariant ==
  ASSUME CInv(L), Next
  PROVE  CInv(L')
<1>1. 0..1 = {0, 1}
  OBVIOUS
<1>2. CASE \E kind \in {"Lau", "C"} : \/ Start(kind) \/ OpCall(kind) \/ CloseVar(kind)
                                      \/ \E op \in {"index", "add"} : OpMeta(kind, op)
                                      \/ \E k \in BOOLEAN : callk(kind, k) \/ pcallk(kind, k)
  BY <1>2, StartStep, OpCallStep, CloseVarStep, OpMetaStep, callkStep, pcallkStep
<1>3. CASE \E v \in Var \ ToSet(L.stack) : ToClose(v)
  BY <1>3, ToCloseStep
<1>4. CASE \E i \in 1..Len(L.tbclist) : OpClose(L.tbclist[i])
  BY <1>4, OpCloseStep
<1>5. CASE \E newtop \in 1..Len(L.stack) : settop(newtop)
  BY <1>5, settopStep
<1>6. CASE \E n \in 0..1 : OpReturn(n) \/ CReturn(n) \/ Continue(n)
  BY <1>1, <1>6, OpReturnStep, CReturnStep, ContinueStep
<1>7. CASE \/ \E e \in Error : RaiseError(e)
           \/ MemoryError
  BY <1>7, ErrorSteps
<1>8. CASE \E k \in BOOLEAN : yieldk(k)
  BY <1>8, yieldkStep
<1>9. CASE closethread \/ CloseEnds \/ CcallReturns \/ TryReturns \/ unroll
  BY <1>9, closethreadStep, CloseEndsStep, CcallReturnsStep, TryReturnsStep, unrollStep
<1> QED  BY <1>2, <1>3, <1>4, <1>5, <1>6, <1>7, <1>8, <1>9 DEF Next

(* The frames, the C stack and the to-be-closed variables of a coroutine belong
   together at every step, after every error, yield and reset. *)
THEOREM Invariant == Spec => []CInv(L)
<1>1. Init => CInv(L)
  BY InitInvariant
<1>2. CInv(L) /\ [Next]_L => CInv(L)'
  <2>1. CASE Next
    BY <2>1, NextInvariant
  <2>2. CASE L' = L
    BY <2>2
  <2> QED  BY <2>1, <2>2
<1> QED  BY <1>1, <1>2, PTL DEF Spec

(* The state has its type in every instance: the stack never has more frames than
   fit, nCcalls never passes its limit, and all positions are inside the stack. *)
THEOREM TypeCorrect == Spec => []TypeOK
<1>1. CInv(L) => TypeOK
  <2> SUFFICES ASSUME CInv(L) PROVE TypeOK
    OBVIOUS
  <2>1. PICK d \in [Nat -> Nat] : Base(L, d) /\ Top(L, d)
    BY DEF CInv
  <2>2. /\ L \in State /\ Frames(L) /\ Variables(L) /\ L.nc < MaxCcalls /\ L.nny <= L.nc
    BY <2>1 DEF Base, Skeleton, Top
  <2>3. /\ L.status \in Status /\ L.nc \in Nat /\ L.nny \in Nat /\ L.stack \in Seq(StackValue)
           /\ L.cs \in Seq(CFunction)
        /\ Len(L.stack) \in Nat
    BY <2>2, StateType
  <2>4. {L.nc, L.nny} \subseteq 0..MaxCcalls
    <3>1. \A x, y, z \in Nat : x < z /\ y <= x => x \in 0..z /\ y \in 0..z
      OBVIOUS
    <3>2. MaxCcalls \in Nat
      BY Bounds
    <3>3. L.nc \in 0..MaxCcalls /\ L.nny \in 0..MaxCcalls
      BY <2>2, <2>3, <3>1, <3>2
    <3> QED  BY <3>3
  <2>5. L.ci[1] = BaseCI /\ Len(L.ci) <= MaxFrames /\ Len(L.tbclist) <= MaxVars
    BY <2>2 DEF Frames, Variables
  <2>6. ASSUME NEW i \in 2..Len(L.ci)
        PROVE  L.ci[i] \in
       [kind : {"Lau", "C"}, func : 2..Len(L.stack), want : {0, 1, MULTRET}, fresh : BOOLEAN,
        args : Seq(StackValue), pc : {"run", "call", "index", "add", "close", "return", "top"},
        level : Nat, k : BOOLEAN, ypcall : BOOLEAN, recst : Status, tbc : BOOLEAN,
        clsret : BOOLEAN, u2 : Nat]
    <3>1. i \in 1..Len(L.ci) /\ i > 1
      BY <2>1, BaseType
    <3>2. L.ci[i] \in CallInfo /\ L.ci[i].func \in 1..Len(L.stack) /\ L.ci[i].func > 1
      BY <2>1, <3>1, BaseType
    <3>3. L.ci[i].func \in 2..Len(L.stack)
      <4>1. \A k \in Nat : \A x \in 1..k : x > 1 => x \in 2..k
        OBVIOUS
      <4> QED  BY <2>3, <3>2, <4>1
    <3>4. ErrorStatus \cup {"ok"} \subseteq Status
      BY DEF Status
    <3> QED  BY <3>2, <3>3, <3>4 DEF CallInfo
  <2>7. \A i \in 1..Len(L.cs) :
          L.cs[i].t \in {"try", "ccall", "exec", "cfn", "unroll", "close", "reset"}
    BY <2>3, EntryType
  <2> QED  BY <2>3, <2>4, <2>5, <2>6, <2>7 DEF TypeOK
<1> QED  BY <1>1, Invariant, PTL

(* Neither results, nor an error object, nor the call of a close method overwrites
   the slot of a variable that is still to be closed, and the list stays in order. *)
THEOREM SlotsAreKept == Spec => []SlotsKept
<1>1. CInv(L) => SlotsKept
  <2> SUFFICES ASSUME CInv(L), NEW i \in 1..Len(L.tbclist)
               PROVE  /\ L.tbclist[i] <= Len(L.stack) /\ L.stack[L.tbclist[i]] \in Var
                      /\ i > 1 => L.tbclist[i - 1] < L.tbclist[i]
    BY DEF SlotsKept
  <2>1. PICK d \in [Nat -> Nat] : Base(L, d)
    BY DEF CInv
  <2>2. Variables(L) /\ Len(L.tbclist) \in Nat
    BY <2>1, BaseType DEF Base
  <2>3. i > 1 => i - 1 \in 1..Len(L.tbclist) /\ i - 1 < i
    BY <2>2
  <2> QED  BY <2>2, <2>3 DEF Variables, VariableOk
<1> QED  BY <1>1, Invariant, PTL

(* The results of a function wait on top of its frame until its variables are closed,
   even if a close method yields or fails. *)
THEOREM ResultsDoWait == Spec => []ResultsWait
<1>1. CInv(L) => ResultsWait
  <2> SUFFICES ASSUME CInv(L), L.status \notin ErrorStatus, NEW i \in 2..Len(L.ci),
                      L.ci[i].clsret \/ L.ci[i].pc = "return", L.ci[i].u2 = 1
               PROVE  L.stack[CallTop(L, i) - 1] = "res"
    BY DEF ResultsWait
  <2>1. PICK d \in [Nat -> Nat] : Base(L, d) /\ Top(L, d)
    BY DEF CInv
  <2>2. Frames(L) /\ Len(L.ci) \in Nat /\ ResultOf(L, Len(L.ci))
    BY <2>1, BaseType DEF Base, Skeleton, Top
  <2>3. i = Len(L.ci) \/ i \in 1..(Len(L.ci) - 1)
    BY <2>2
  <2>4. ResultOf(L, i)
    BY <2>2, <2>3 DEF Frames, CallerOk
  <2> QED  BY <2>4 DEF ResultOf, Returning
<1> QED  BY <1>1, Invariant, PTL

(* lauV_execute returns without leaving the C function only to a Lau function: a Lau
   frame that is not fresh was called by another (CIST_FRESH). *)
THEOREM FreshFramesOnly == Spec => []FreshFrames
<1>1. CInv(L) => FreshFrames
  <2> SUFFICES ASSUME CInv(L), NEW i \in 2..Len(L.ci), L.ci[i].kind = "Lau", ~L.ci[i].fresh
               PROVE  L.ci[i - 1].kind = "Lau"
    BY DEF FreshFrames
  <2>1. PICK d \in [Nat -> Nat] : Base(L, d)
    BY DEF CInv
  <2>2. Frames(L) /\ Len(L.ci) \in Nat
    BY <2>1, BaseType DEF Base, Skeleton
  <2>3. i - 1 \in 1..(Len(L.ci) - 1) /\ (i - 1) + 1 = i
    BY <2>2
  <2>4. CallerOk(L, i - 1)
    BY <2>2, <2>3 DEF Frames
  <2> QED  BY <2>3, <2>4 DEF CallerOk
<1> QED  BY <1>1, Invariant, PTL

(* nCcalls is the number of C calls under way, and of non-yieldable ones among them,
   whatever errors and resets have cut the C stack. *)
THEOREM CallsAreCounted == Spec => []CallsCounted
<1>1. CInv(L) => CallsCounted
  <2> DEFINE m == Len(L.cs)
             reset == LastReset(L)
             calls == {i \in (reset + 1)..m : L.cs[i].t = "ccall"}
             before == IF reset > 0 THEN L.cs[reset].nc ELSE 1
  <2> SUFFICES ASSUME CInv(L), Control(L) \notin {"host", "try"}
               PROVE  /\ L.nc = before + Cardinality({i \in calls : L.cs[i].inc = 1})
                      /\ L.nny = Cardinality({i \in calls : L.cs[i].y = 1})
    BY DEF CallsCounted
  <2>1. L.cs # <<>>
    BY DEF Control
  <2>2. PICK d \in [Nat -> Nat] : Top(L, d) /\ InControl(L, d, m, Len(L.ci))
    BY <2>1, Controls
  <2>3. Counts(L) /\ m \in Nat /\ Base(L, d)
    BY <2>2 DEF InControl
  <2>4. reset = ResetBelow(L.cs, m) /\ before = Before(L.cs, m)
    BY DEF LastReset, ResetBelow, Before
  <2>5. reset \in 0..m /\ (reset > 0 => L.cs[reset].t = "reset")
    BY <2>3, <2>4, ResetBelowIs
  <2>6. \A i \in 1..reset : L.cs[i].t # "ccall"
    <3>1. CASE reset > 0
      <4>1. EntryOk(L.cs, reset)
        BY <2>3, <2>5, <3>1 DEF Base, Skeleton, CFunctions
      <4>2. \A i \in 1..reset : L.cs[i].t \in {"try", "reset"}
        BY <2>5, <3>1, <4>1 DEF EntryOk
      <4> QED  BY <4>2
    <3>2. CASE reset = 0
      BY <3>2
    <3>3. \A x \in 0..m : x > 0 \/ x = 0
      BY <2>3
    <3> HIDE DEF reset, calls, before
    <3> QED  BY <2>5, <3>1, <3>2, <3>3
  <2> HIDE DEF reset, before
  <2>7. \A i : i \in calls <=> i \in 1..m /\ L.cs[i].t = "ccall"
    <3>1. \A i \in 1..m : i \in 1..reset \/ i \in (reset + 1)..m
      BY <2>3, <2>5
    <3>2. (reset + 1)..m \subseteq 1..m
      <4>1. \A x, y \in Nat : x <= y => (x + 1)..y \subseteq 1..y
        OBVIOUS
      <4> HIDE DEF m
      <4>2. reset \in Nat /\ reset <= m /\ m \in Nat
        BY ONLY <2>3, <2>5
      <4> QED  BY ONLY <4>1, <4>2
    <3> QED  BY <2>6, <3>1, <3>2
  <2> HIDE DEF calls
  <2>8. {i \in calls : L.cs[i].inc = 1} = Counted(L.cs, m)
    BY <2>7 DEF Counted
  <2>9. {i \in calls : L.cs[i].y = 1} = NonYieldable(L.cs, m)
    BY <2>7 DEF NonYieldable
  <2> QED  BY <2>3, <2>4, <2>8, <2>9 DEF Counts, CcallsAt, NonYieldableAt
<1> QED  BY <1>1, Invariant, PTL

(* Where a function may yield, no C function on the C stack waits for a result: every
   handler belongs to lau_resume or precover, and every C frame below can be skipped. *)
THEOREM YieldsAreSafe == Spec => []YieldIsSafe
<1>1. CInv(L) => YieldIsSafe
  <2> DEFINE m == Len(L.cs)  n == Len(L.ci)
  <2> SUFFICES ASSUME CInv(L), Control(L) \in {"cfn", "exec"}, yieldable(L)
               PROVE  /\ \A i \in Tries(L) : L.cs[i].by \in {"resume", "recover"}
                      /\ \A i \in 2..(n - 1) : L.ci[i].kind = "C" => L.ci[i].k \/ L.ci[i].clsret
    BY DEF YieldIsSafe
  <2>1. L.cs # <<>>
    BY DEF Control
  <2>2. PICK d \in [Nat -> Nat] : InControl(L, d, m, n)
    BY <2>1, Controls
  <2>3. L.cs[m].t \in {"exec", "cfn"} /\ L.cs \in Seq(CFunction)
    BY <2>2, StateType DEF InControl
  <2>4. Running(L, d, m, n)
    BY <2>2, <2>3, RunsInFrame
  <2>5. /\ \A j \in 1..m : ~Try(L.cs[j], Protected)
        /\ \A i \in 2..(n - 1) : MayBeSkipped(L.ci[i])
    BY <2>4, NoBarrier DEF yieldable
  <2>6. ASSUME NEW i \in Tries(L)
        PROVE  L.cs[i].by \in {"resume", "recover"}
    <3>1. i \in 1..m /\ L.cs[i].t = "try"
      BY DEF Tries
    <3>2. L.cs[i] \in TryC
      <4>1. L.cs[i] \in CFunction
        BY <2>3, <3>1
      <4> QED  BY <3>1, <4>1, EntryType
    <3> QED  BY <2>5, <3>1, <3>2 DEF TryC, Try, Protected
  <2> QED  BY <2>5, <2>6 DEF MayBeSkipped
<1> QED  BY <1>1, Invariant, PTL
=============================================================================
