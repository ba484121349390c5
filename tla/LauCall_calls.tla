--------------------------- MODULE LauCall_calls ----------------------------
(***************************************************************************)
(* What ldo.c does keeps the invariant of LauCallInv: errors and the handlers*)
(* they go to, calls of functions in C and in Lau, returns, and what holds *)
(* while a function of the program is in control.                          *)
(***************************************************************************)
EXTENDS LauCall_lemmas

-----------------------------------------------------------------------------
(* Errors *)

(* The C functions of lauD_closeprotected. *)
CloseP(s, level, status) ==
  [t |-> "try", by |-> "closep", ci |-> Len(s.ci), level |-> level, status |-> status,
   nc |-> s.nc, nny |-> s.nny]

LoopP(level, status) ==
  [t |-> "close", level |-> level, status |-> status, yy |-> FALSE, then |-> "closep"]

ProtectedClosing(s, t, level, status) ==
  /\ t \in State /\ t.ci = s.ci /\ t.stack = s.stack /\ SameCounts(s, t)
  /\ Len(t.cs) = Len(s.cs) + 2 /\ t.cs[Len(s.cs) + 1] = CloseP(s, level, status)
  /\ t.cs[Len(s.cs) + 2] = LoopP(level, status)
  /\ \A j \in 1..Len(s.cs) : t.cs[j] = s.cs[j]

(* lauD_closeprotected starts its loop, from a C function or from a reset. *)
LEMMA Closeprotected ==
  ASSUME NEW s, NEW d, Skeleton(s, d), s.status = "ok", NEW n \in Nat, n = Len(s.ci),
         NEW m \in Nat, m = Len(s.cs), m > 0, d[m] = n,
         NEW level \in Nat, NEW status \in ErrorStatus \cup {"ok"},
         \/ s.cs[m].t = "cfn" /\ s.ci[n].pc # "top"
         \/ s.cs[m].t = "reset" /\ level = 2,
         s.ci[n].kind = "C", ~s.ci[n].ypcall, ~s.ci[n].clsret, s.ci[n].func < level,
         level <= CallTop(s, n),
         n = 1 => level = 2,
         Counts(s), s.nc < MaxCcalls, s.nny <= s.nc
  PROVE  LET t == closeprotected(s, level, status) IN
         /\ ProtectedClosing(s, t, level, status)
         /\ \E c \in [Nat -> Nat] : Skeleton(t, c) /\ Top(t, c)
<1> DEFINE e == CloseP(s, level, status)
           f == LoopP(level, status)
           u == PushC(s, e)
           t == PushC(u, f)
           k == m + 1
           b == [d EXCEPT ![k] = n]
           c == [b EXCEPT ![k + 1] = n]
<1>1. k \in Nat /\ k = m + 1 /\ k > 1 /\ n \in 1..n /\ n \in Nat
  <2>1. n > 0
    BY Bases
  <2> QED  BY <2>1
<1>2. e \in CFunction /\ f \in CFunction
  <2>1. s.nc \in Nat /\ s.nny \in Nat
    BY SkeletonType, StateType
  <2>2. e \in TryC
    BY <2>1 DEF CloseP, TryC
  <2>3. f \in CloseC
    BY DEF LoopP, CloseC
  <2> QED  BY <2>2, <2>3 DEF CFunction
<1>3. t = closeprotected(s, level, status)
  BY DEF closeprotected, lauF_close, rawrunprotected, CloseP, LoopP
<1>4. Pushed(s, u, e)
  BY <1>2, SkeletonType, PushCIs
<1> HIDE DEF u
<1>5. Pushed(u, t, f)
  BY <1>2, <1>4, PushCIs DEF Pushed
<1> HIDE DEF t
<1>6. /\ Len(u.cs) = k /\ u.cs[k] = e /\ \A j \in 1..m : u.cs[j] = s.cs[j]
      /\ u \in State /\ u.ci = s.ci /\ u.stack = s.stack /\ SameCounts(s, u)
  BY <1>4 DEF Pushed
<1>7. /\ Len(t.cs) = k + 1 /\ t.cs[k + 1] = f /\ \A j \in 1..k : t.cs[j] = u.cs[j]
      /\ t \in State /\ t.ci = u.ci /\ t.stack = u.stack /\ SameCounts(u, t)
  BY <1>5, <1>6 DEF Pushed
<1>8. /\ e.t = "try" /\ e.by = "closep" /\ e.ci = n /\ e.level = level /\ e.status = status
      /\ e.nc = s.nc /\ e.nny = s.nny
      /\ f.t = "close" /\ f.then = "closep" /\ f.level = level /\ f.status = status /\ f.yy = FALSE
  BY DEF CloseP, LoopP
<1> HIDE DEF e, f
<1>9. ProtectedClosing(s, t, level, status)
  <2>1. SameCounts(s, t)
    BY <1>6, <1>7 DEF SameCounts
  <2>2. \A j \in 1..m : t.cs[j] = s.cs[j]
    <3>1. \A j \in 1..m : j \in 1..k
      BY <1>1
    <3> QED  BY <1>6, <1>7, <3>1
  <2>3. t.cs[k] = e /\ k + 1 = m + 2
    <3>1. k + 1 = m + 2 /\ k \in 1..k
      BY <1>1
    <3>2. t.cs[k] = u.cs[k]
      BY <1>7, <3>1
    <3> QED  BY <1>6, <3>1, <3>2
  <2> QED  BY <1>6, <1>7, <2>1, <2>2, <2>3 DEF ProtectedClosing, e, f
<1>10. b \in [Nat -> Nat] /\ b[m] = n /\ b[k] = n
  <2>1. d \in [Nat -> Nat]
    BY DEF Skeleton
  <2> QED  BY <1>1, <2>1
<1>11. c \in [Nat -> Nat] /\ c[k] = n /\ c[k + 1] = n
  <2>1. k + 1 \in Nat /\ k # k + 1
    BY <1>1
  <2> HIDE DEF b, k
  <2> QED  BY <1>1, <1>10, <2>1, Changed
<1>12. Skeleton(u, b)
  <2>1. EntryOk(u.cs, k)
    BY <1>1, <1>6, <1>8 DEF EntryOk, Try, Unprotected
  <2>2. OnFrame(s, e, n)
    BY <1>8 DEF OnFrame, Try, Unprotected
  <2>3. e.nc = CcallsAt(s.cs, m) /\ e.nny = NonYieldableAt(s.cs, m)
    BY <1>8 DEF Counts
  <2>4. CallsNext(s.cs[m], e)
    BY <1>8 DEF CallsNext, Try, Protected
  <2>5. Deeper(u, b, m)
    <3>1. u.cs[m] = s.cs[m] /\ u.cs[m + 1] = e
      <4>1. m \in 1..m /\ k = m + 1
        BY ONLY m \in Nat, m > 0, <1>1
      <4>2. u.cs[m] = s.cs[m] /\ u.cs[k] = e
        BY ONLY <1>6, <4>1
      <4> QED  BY ONLY <4>1, <4>2
    <3>2. Beneath(u, s.cs[m], e, n)
      BY <1>6, <1>8, BeneathLast DEF Closing
    <3> QED  BY <1>1, <1>8, <1>10, <3>1, <3>2 DEF Deeper
  <2>6. d[m] <= n
    BY <1>1
  <2> QED  BY <1>1, <1>2, <1>4, <2>1, <2>2, <2>3, <2>4, <2>5, <2>6, PushEntry
<1> HIDE DEF b
<1>13. Skeleton(t, c)
  <2>1. EntryOk(t.cs, k + 1)
    <3>1. k + 1 # 1
      BY <1>1
    <3> QED  BY <1>7, <1>8, <3>1 DEF EntryOk, Try, Unprotected
  <2>2. OnFrame(u, f, n)
    <3>1. CallTop(u, n) = CallTop(s, n) /\ u.ci[n] = s.ci[n]
      BY <1>6 DEF CallTop
    <3> QED  BY <1>8, <3>1 DEF OnFrame, CloseOk, Try, Unprotected, Protected
  <2>3. CallsNext(u.cs[k], f)
    BY <1>6, <1>8 DEF CallsNext, Try, Closing
  <2>4. Deeper(t, c, k)
    <3>1. t.cs[k] = e /\ t.cs[k + 1] = f
      <4>1. k \in 1..k
        BY ONLY <1>1
      <4>2. t.cs[k] = u.cs[k]
        BY ONLY <1>7, <4>1
      <4> QED  BY ONLY <1>6, <1>7, <4>2
    <3>2. Beneath(t, e, f, n)
      BY <1>6, <1>7, <1>8, BeneathLast
    <3> QED  BY <1>8, <1>11, <3>1, <3>2 DEF Deeper
  <2>5. u.status = "ok" /\ k = Len(u.cs) /\ n \in 1..Len(u.ci) /\ k + 1 \in Nat
    BY <1>1, <1>6 DEF SameCounts
  <2>6. b[k] <= n
    BY <1>1, <1>10
  <2> QED  BY <1>1, <1>2, <1>5, <1>8, <1>12, <2>1, <2>2, <2>3, <2>4, <2>5, <2>6, PushEntry
<1>14. Top(t, c)
  <2> DEFINE z == k + 1
  <2>1. Len(t.cs) = z /\ t.cs[z] = f /\ z > 0 /\ c[z] = n /\ Len(t.ci) = n /\ t.ci[n] = s.ci[n]
          /\ t.status = "ok"
    BY <1>1, <1>6, <1>7, <1>11 DEF SameCounts
  <2> HIDE DEF z
  <2>2. ~TakesResult(s.ci[n]) /\ ~Returning(s.ci[n])
    <3>1. FrameOk(s, n)
      BY <1>1 DEF Skeleton, Frames
    <3> QED  BY <3>1 DEF FrameOk, TakesResult, Returning
  <2>3. ResultOf(t, n)
    BY <2>1, <2>2 DEF ResultOf
  <2>4. t.nc = s.nc /\ t.nny = s.nny
    BY <1>6, <1>7 DEF SameCounts
  <2>5. Counts(t)
    <3>1. CcallsAt(t.cs, k + 1) = CcallsAt(t.cs, k)
            /\ NonYieldableAt(t.cs, k + 1) = NonYieldableAt(t.cs, k)
      <4>1. k + 1 \in 1..Len(t.cs) /\ k + 1 - 1 = k /\ t.cs \in Seq(CFunction)
        BY <1>1, <1>7, StateType
      <4>2. t.cs[k + 1].t \notin {"ccall", "reset"}
        BY <1>7, <1>8
      <4> QED  BY <4>1, <4>2, CountStep
    <3>2. CcallsAt(u.cs, k) = CcallsAt(u.cs, m) /\ NonYieldableAt(u.cs, k) = NonYieldableAt(u.cs, m)
      <4>1. k \in 1..Len(u.cs) /\ k - 1 = m /\ u.cs \in Seq(CFunction)
        BY <1>1, <1>6, StateType
      <4>2. u.cs[k].t \notin {"ccall", "reset"}
        BY <1>6, <1>8
      <4> QED  BY <4>1, <4>2, CountStep
    <3>3. CcallsAt(t.cs, k) = CcallsAt(u.cs, k) /\ NonYieldableAt(t.cs, k) = NonYieldableAt(u.cs, k)
      <4>1. \A i \in 1..k : t.cs[i] = u.cs[i]
        BY ONLY <1>7
      <4>2. k \in Nat
        BY ONLY <1>1
      <4> QED  BY ONLY <4>1, <4>2, SameCount
    <3>4. CcallsAt(u.cs, m) = CcallsAt(s.cs, m) /\ NonYieldableAt(u.cs, m) = NonYieldableAt(s.cs, m)
      BY <1>6, SameCount
    <3> QED  BY <1>7, <2>4, <3>1, <3>2, <3>3, <3>4 DEF Counts
  <2> QED  BY <1>8, <2>1, <2>2, <2>3, <2>4, <2>5 DEF Top, Try
<1> QED  BY <1>3, <1>9, <1>11, <1>13, <1>14

(* The end of rawrunprotected, at position i of the C stack. *)
BackTo(s, t, i) ==
  /\ t \in State /\ t.ci = s.ci /\ t.stack = s.stack /\ t.tbclist = s.tbclist
  /\ t.status = s.status /\ t.ret = s.ret
  /\ t.nc = s.cs[i].nc /\ t.nny = s.cs[i].nny
  /\ Len(t.cs) = i - 1 /\ \A j \in 1..(i - 1) : t.cs[j] = s.cs[j]

(* Unprotect drops the C functions from the handler on and restores its counts. *)
LEMMA UnprotectIs ==
  ASSUME NEW s \in State, NEW i \in 1..Len(s.cs), s.cs[i].t = "try"
  PROVE  BackTo(s, Unprotect(s, i), i)
<1> DEFINE t == Unprotect(s, i)
           q == SubSeq(s.cs, 1, i - 1)
<1>1. s.cs \in Seq(CFunction) /\ i - 1 \in 0..Len(s.cs)
  BY StateType
<1>2. q \in Seq(CFunction) /\ Len(q) = i - 1 /\ \A j \in 1..(i - 1) : q[j] = s.cs[j]
  BY <1>1, Prefix
<1>3. s.cs[i].nc \in Nat /\ s.cs[i].nny \in Nat
  <2>1. s.cs[i] \in CFunction
    BY StateType
  <2> QED  BY <2>1, EntryType DEF TryC
<1>4. t = [s EXCEPT !.cs = q, !.nc = s.cs[i].nc, !.nny = s.cs[i].nny]
  BY DEF Unprotect
<1> HIDE DEF t, q
<1>5. /\ t \in State /\ t.ci = s.ci /\ t.stack = s.stack /\ t.tbclist = s.tbclist
      /\ t.status = s.status /\ t.ret = s.ret /\ t.nc = s.cs[i].nc /\ t.nny = s.cs[i].nny
         /\ t.cs = q
  BY <1>2, <1>3, <1>4 DEF State
<1> QED  BY <1>2, <1>5 DEF BackTo, t

(* The handlers on the C stack. *)
LEMMA HandlersOf ==
  ASSUME NEW s, NEW d, Skeleton(s, d), NEW m \in Nat, m = Len(s.cs), m > 0, s.cs[m].t # "reset"
  PROVE  /\ Max(Tries(s)) \in 1..m /\ s.cs[Max(Tries(s))].t = "try"
         /\ \A j \in 1..m : s.cs[j].t = "try" => j <= Max(Tries(s))
         /\ Min(Tries(s)) \in 1..m /\ s.cs[Min(Tries(s))].t = "try"
         /\ \A j \in 1..m : s.cs[j].t = "try" => Min(Tries(s)) <= j
<1>1. Tries(s) \in SUBSET (0..m) /\ Tries(s) \in SUBSET Nat /\ \A i \in Tries(s) : i \in 1..m
        /\ s.cs[i].t = "try"
  BY DEF Tries
<1>2. Tries(s) # {}
  <2>1. EntryOk(s.cs, 1)
    BY DEF Skeleton, CFunctions
  <2>2. s.cs[1].t = "try" \/ s.cs[1].t = "reset"
    BY <2>1 DEF EntryOk, Try
  <2>3. CASE s.cs[1].t = "try"
    BY <2>3 DEF Tries
  <2>4. CASE s.cs[1].t = "reset"
    <3>1. m # 1
      BY <2>4
    <3>2. 1 \in 1..(m - 1) /\ 2 \in 1..m
      <4>1. \A q \in Nat : q > 0 /\ q # 1 => 1 \in 1..(q - 1) /\ 2 \in 1..q
        OBVIOUS
      <4> QED  BY <3>1, <4>1, Zenon
    <3>3. CallsNext(s.cs[1], s.cs[1 + 1])
      BY <3>2 DEF Skeleton, CFunctions
    <3>4. s.cs[2].t = "try"
      BY <2>4, <3>3 DEF CallsNext, Try, Closing
    <3> QED  BY <3>2, <3>4 DEF Tries
  <2> QED  BY <2>2, <2>3, <2>4
<1>3. Max(Tries(s)) \in Tries(s) /\ \A y \in Tries(s) : Max(Tries(s)) >= y
  BY <1>1, <1>2, MaxOf
<1>4. Min(Tries(s)) \in Tries(s) /\ \A y \in Tries(s) : Min(Tries(s)) <= y
  BY <1>1, <1>2, MinOf
<1>5. \A j \in 1..m : s.cs[j].t = "try" => j \in Tries(s)
  BY DEF Tries
<1>6. \A y \in Tries(s) : Max(Tries(s)) >= y => y <= Max(Tries(s))
  BY <1>1, <1>3
<1> QED  BY <1>1, <1>3, <1>4, <1>5, <1>6

(* A coroutine that dies of an error. *)
LEMMA Dies ==
  ASSUME NEW s, NEW d, Base(s, d), NEW m \in Nat, m = Len(s.cs), m > 0,
         \A j \in 1..m : s.cs[j].t = "try" <=> j = 1,
         NEW b, BackTo(s, b, 1), NEW status \in ErrorStatus
  PROVE  LET dead == seterrorobj(b, status, Len(b.stack) + 1)
         IN  CInv([dead EXCEPT !.status = status, !.ret = <<status, Last(dead.stack)>>])
<1> DEFINE w == Len(b.stack)
           dead == seterrorobj(b, status, w + 1)
           t == [dead EXCEPT !.status = status, !.ret = <<status, Last(dead.stack)>>]
           n == Len(s.ci)
<1>1. /\ b \in State /\ b.ci = s.ci /\ b.stack = s.stack /\ b.tbclist = s.tbclist
      /\ b.nc = s.cs[1].nc /\ b.nny = s.cs[1].nny /\ Len(b.cs) = 0
  BY DEF BackTo
<1>2. w \in Nat /\ w > 0 /\ w + 1 \in 1..(Len(b.stack) + 1)
  BY <1>1, BaseType
<1>3. Erred(b, dead, w + 1)
  BY <1>1, <1>2, SetErrorIs
<1>16. status = "mem" => Last(dead.stack) = "mem"
  BY <1>1, <1>2, SetErrorLast
<1> HIDE DEF dead
<1>4. /\ dead \in State /\ dead.ci = b.ci /\ dead.cs = b.cs /\ SameCounts(b, dead)
      /\ Len(dead.stack) = w + 1
      /\ \A p \in 1..w : dead.stack[p] = b.stack[p]
  BY <1>2, <1>3 DEF Erred
<1>5. Last(dead.stack) \in StackValue
  BY <1>2, <1>4, StateType, EmptySeq, FrontLast
<1>6. <<status, Last(dead.stack)>> \in Seq(Status \cup StackValue) /\ status \in Status
  BY <1>5 DEF Status
<1>7. t \in State /\ t.status = status
  BY <1>4, <1>6 DEF State
<1>8. /\ t.ci = s.ci /\ t.tbclist = s.tbclist /\ t.nc = s.cs[1].nc /\ t.nny = s.cs[1].nny
      /\ t.cs = b.cs /\ t.stack = dead.stack
  BY <1>1, <1>4 DEF SameCounts, State
<1> HIDE DEF t
<1>9. n \in Nat /\ n > 0 /\ n = Len(s.ci) /\ n \in 1..n
  BY BaseType
<1>10. w = Len(s.stack) /\ Len(t.stack) = w + 1 /\ (\A p \in 1..w : t.stack[p] = s.stack[p])
         /\ Len(t.cs) = 0
  BY <1>1, <1>4, <1>8
<1> HIDE DEF n, w
<1>11. s.ci[n].func \in Nat /\ s.ci[n].func <= w /\ CallTop(s, n) = w + 1
  BY <1>9, <1>10, Bases DEF Base
<1>12. Skeleton(t, d)
  <2>1. CutTo(s, d, t, n, 0)
    <3>1. n \in 1..Len(s.ci) /\ 0 \in 0..Len(s.cs)
      BY <1>9
    <3>2. Len(t.stack) + 1 >= CallTop(s, n)
      BY <1>2, <1>10, <1>11
    <3>3. \A p \in 1..(s.ci[n].func - 1) : t.stack[p] = s.stack[p]
      <4>1. \A p \in 1..(s.ci[n].func - 1) : p \in 1..w
        BY <1>2, <1>11
      <4> QED  BY <1>10, <4>1
    <3>4. Len(t.ci) = n /\ (\A i \in 1..n : t.ci[i] = s.ci[i]) /\ \A j \in 1..0 : t.cs[j] = s.cs[j]
            /\ d[j] <= n
      BY <1>8, <1>9
    <3> QED  BY <1>7, <1>10, <3>1, <3>2, <3>3, <3>4 DEF CutTo
  <2>2. Skeleton(s, d) /\ 0 \in Nat
    BY DEF Base
  <2> QED  BY <1>7, <1>9, <2>1, <2>2, SkeletonCut
<1>13. Variables(t)
  <2>1. \A j \in 1..m : ~Try(s.cs[j], {"closep"})
    <3> SUFFICES ASSUME NEW j \in 1..m, Try(s.cs[j], {"closep"}) PROVE FALSE
      OBVIOUS
    <3>1. j = 1
      BY DEF Try
    <3>2. EntryOk(s.cs, 1)
      BY DEF Base, Skeleton, CFunctions
    <3> QED  BY <3>1, <3>2 DEF EntryOk, Try, Unprotected
  <2>2. ASSUME NEW a \in 1..Len(s.tbclist)
        PROVE  /\ s.tbclist[a] <= Len(t.stack) /\ t.stack[s.tbclist[a]] = s.stack[s.tbclist[a]]
               /\ s.ci[n].kind = "C" /\ s.ci[n].func < s.tbclist[a] => Accounted(t, s.tbclist[a], n)
    <3> DEFINE p == s.tbclist[a]
    <3>1. VariableOk(s, p) /\ p \in Nat
      BY StateType, BaseType DEF Base, Variables
    <3> HIDE DEF p
    <3>2. p \in 1..w /\ p <= w + 1 /\ p < CallTop(s, n)
      BY <1>2, <1>10, <1>11, <3>1 DEF VariableOk
    <3>3. s.ci[n].kind = "C" /\ s.ci[n].func < p => Accounted(s, p, n)
      BY <1>9, <3>1, <3>2 DEF VariableOk
    <3>4. Accounted(s, p, n) => Accounted(t, p, n)
      BY <1>8, <2>1 DEF Accounted
    <3> QED  BY <1>10, <3>2, <3>3, <3>4 DEF p
  <2>3. Len(t.tbclist) <= Len(s.tbclist)
    BY <1>8, BaseType
  <2>4. Len(t.ci) = n /\ t.ci[n].func = s.ci[n].func /\ t.ci[n].kind = s.ci[n].kind
          /\ \A i \in 1..(n - 1) : t.ci[i] = s.ci[i]
    BY <1>8, <1>9
  <2>5. n \in 1..Len(s.ci)
    BY <1>9
  <2>6. \A a \in 1..Len(t.tbclist) :
          /\ t.tbclist[a] = s.tbclist[a]
          /\ t.tbclist[a] <= Len(t.stack) /\ t.stack[t.tbclist[a]] = s.stack[t.tbclist[a]]
          /\ s.ci[n].kind = "C" /\ s.ci[n].func < t.tbclist[a] => Accounted(t, t.tbclist[a], n)
    BY <1>8, <2>2
  <2>7. \A j \in 1..Len(s.cs) :
          Try(s.cs[j], {"closep"}) /\ s.cs[j].ci < n => j \in 1..Len(t.cs) /\ t.cs[j] = s.cs[j]
    BY <2>1
  <2> QED  BY <1>7, <2>3, <2>4, <2>5, <2>6, <2>7, VariablesKept
<1>14. Top(t, d)
  <2>1. s.cs[1].nc < MaxCcalls /\ s.cs[1].nny <= s.cs[1].nc
    <3>1. 1 \in 1..m /\ CFunctions(s.cs)
      BY DEF Base, Skeleton
    <3>2. EntryOk(s.cs, 1) /\ s.cs[1].t = "try"
      BY <3>1 DEF CFunctions
    <3> QED  BY <3>2 DEF EntryOk
  <2>2. t.status # "yield" /\ t.status \in ErrorStatus
    BY <1>7 DEF ErrorStatus
  <2>3. t.status = "mem" => Last(t.stack) = "mem"
    BY <1>7, <1>8, <1>16
  <2> QED  BY <1>8, <1>10, <2>1, <2>2, <2>3 DEF Top
<1>15. d \in [Nat -> Nat]
  BY DEF Base, Skeleton
<1> QED  BY <1>12, <1>13, <1>14, <1>15 DEF CInv, Base, t, dead, w

(* An error that precover takes to a lau_pcallk with a continuation. *)
LEMMA Recovers ==
  ASSUME NEW s, NEW d, Base(s, d), s.status = "ok", NEW m \in Nat, m = Len(s.cs), m > 0,
         \A j \in 1..m : s.cs[j].t = "try" <=> j = 1,
         NEW b, BackTo(s, b, 1), NEW status \in ErrorStatus,
         NEW r \in 1..Len(s.ci), s.ci[r].ypcall
  PROVE  CInv(PushC(rawrunprotected([b EXCEPT !.ci = Append(SubSeq(@, 1, r - 1),
                                                            [@[r] EXCEPT !.recst = status])],
                                    "recover", 0, 0, "ok"),
                    [t |-> "unroll"]))
<1> DEFINE n == Len(s.ci)
           f == [s.ci[r] EXCEPT !.recst = status]
           q == SubSeq(s.ci, 1, r - 1)
           u == [b EXCEPT !.ci = SubSeq(s.ci, 1, r)]
           v == [b EXCEPT !.ci = Append(q, f)]
           e == [t |-> "try", by |-> "recover", ci |-> 0, level |-> 0, status |-> "ok", nc |-> v.nc,
           nny |-> v.nny]
           g == [t |-> "unroll"]
           x == PushC(v, e)
           t == PushC(x, g)
           b1 == [d EXCEPT ![1] = 1]
           c == [b1 EXCEPT ![2] = 1]
<1>1. /\ b \in State /\ b.ci = s.ci /\ b.stack = s.stack /\ b.tbclist = s.tbclist /\ b.status = "ok"
      /\ b.nc = s.cs[1].nc /\ b.nny = s.cs[1].nny /\ Len(b.cs) = 0
  BY DEF BackTo
<1>2. t = PushC(rawrunprotected([b EXCEPT !.ci = Append(SubSeq(@, 1, r - 1),
        [@[r] EXCEPT !.recst = status])],
                                "recover", 0, 0, "ok"), [t |-> "unroll"])
  BY <1>1 DEF rawrunprotected
<1>3. n \in Nat /\ n > 0 /\ n = Len(s.ci) /\ r \in 1..n /\ r \in Nat /\ r > 0 /\ r \in 1..r
  BY BaseType
<1> HIDE DEF n
<1>4. s.ci \in Seq(CallInfo) /\ s.ci[r] \in CallInfo
  BY <1>3, BaseType, StateType
<1>5. f \in CallInfo /\ f.recst = status /\ f.func = s.ci[r].func /\ f.kind = s.ci[r].kind
        /\ f.want = s.ci[r].want
      /\ f.fresh = s.ci[r].fresh /\ f.ypcall = s.ci[r].ypcall /\ f.k = s.ci[r].k
         /\ f.pc = s.ci[r].pc
      /\ f.clsret = s.ci[r].clsret /\ f.u2 = s.ci[r].u2 /\ f.tbc = s.ci[r].tbc
         /\ f.level = s.ci[r].level
  <2>1. s.ci[r] \in CallInfo /\ status \in ErrorStatus \cup {"ok"}
    BY <1>4
  <2> QED  BY <2>1 DEF CallInfo
<1> HIDE DEF f
<1>6. q \in Seq(CallInfo) /\ Len(q) = r - 1 /\ \A i \in 1..(r - 1) : q[i] = s.ci[i]
  <2>1. r - 1 \in 0..Len(s.ci)
    BY <1>3
  <2> QED  BY <2>1, <1>4, Prefix
<1>7. SubSeq(s.ci, 1, r) \in Seq(CallInfo) /\ Len(SubSeq(s.ci, 1, r)) = r
        /\ \A i \in 1..r : SubSeq(s.ci, 1, r)[i] = s.ci[i]
  <2>1. r \in 0..Len(s.ci)
    BY <1>3
  <2> QED  BY <2>1, <1>4, Prefix
<1> HIDE DEF q
<1>8. /\ u \in State /\ u.stack = s.stack /\ u.tbclist = s.tbclist /\ u.status = "ok" /\ u.cs = b.cs
      /\ Len(u.ci) = r /\ \A i \in 1..r : u.ci[i] = s.ci[i]
  BY <1>1, <1>7 DEF State
<1>9. Append(q, f) \in Seq(CallInfo) /\ Len(Append(q, f)) = r /\ Append(q, f)[r] = f
      /\ \A i \in 1..(r - 1) : Append(q, f)[i] = s.ci[i]
  <2>1. r - 1 + 1 = r
    BY <1>3
  <2> QED  BY <1>5, <1>6, <2>1, AppendProperties
<1>10. /\ v \in State /\ v.stack = s.stack /\ v.tbclist = s.tbclist /\ v.status = "ok"
          /\ v.cs = b.cs
       /\ v.nc = s.cs[1].nc /\ v.nny = s.cs[1].nny
       /\ Len(v.ci) = r /\ v.ci[r] = f /\ \A i \in 1..(r - 1) : v.ci[i] = s.ci[i]
  BY <1>1, <1>9 DEF State
<1> HIDE DEF u, v
<1>11. Skeleton(s, d) /\ Frames(s) /\ CFunctions(s.cs) /\ Saved(s.cs) /\ Depths(s, d)
  BY DEF Base, Skeleton
<1>12. /\ s.ci[r].kind = "C" /\ s.ci[r].k /\ s.ci[r].pc = "call" /\ ~s.ci[r].clsret
       /\ s.ci[r].func < s.ci[r].u2 /\ s.ci[r].u2 <= CallTop(s, r) /\ r # 1
  <2>1. FrameOk(s, r)
    BY <1>3, <1>11 DEF Frames
  <2>2. s.ci[1].ypcall = FALSE
    BY <1>11 DEF Frames, BaseCI, Frame
  <2> QED  BY <2>1, <2>2 DEF FrameOk
<1>13. /\ s.ci[r].func \in Nat /\ s.ci[r].func <= Len(s.stack) /\ CallTop(s, r) \in Nat
       /\ CallTop(s, r) <= Len(s.stack) + 1 /\ Len(s.stack) \in Nat /\ s.ci[r].u2 \in Nat
  <2>1. /\ s.ci[r].func \in Nat /\ s.ci[r].func <= Len(s.stack) /\ CallTop(s, r) \in Nat
           /\ Len(s.stack) \in Nat
        /\ CallTop(s, n) = Len(s.stack) + 1 /\ (r < n => CallTop(s, r) <= s.ci[n].func)
           /\ n \in 1..n
        /\ s.ci[n].func <= Len(s.stack) /\ s.ci[n].func \in Nat
    <3>1. n \in 1..n
      BY <1>3
    <3>2. /\ CallTop(s, n) = Len(s.stack) + 1 /\ Len(s.stack) \in Nat
          /\ \A i \in 1..n : s.ci[i].func \in Nat /\ s.ci[i].func <= Len(s.stack)
             /\ CallTop(s, i) \in Nat
          /\ \A i, j \in 1..n : i < j => CallTop(s, i) <= s.ci[j].func
      BY <1>3, <1>11, Bases
    <3> QED  BY <1>3, <3>1, <3>2
  <2>2. r = n \/ r < n
    BY <1>3
  <2>3. CallTop(s, r) <= Len(s.stack) + 1
    <3>1. CASE r = n
      BY <2>1, <3>1
    <3>2. CASE r < n
      BY <2>1, <3>2
    <3> QED  BY <2>2, <3>1, <3>2
  <2>4. s.ci[r].u2 \in Nat
    BY <1>4, FrameType
  <2> QED  BY <2>1, <2>3, <2>4
<1>14. Skeleton(u, d)
  <2>1. CutTo(s, d, u, r, 0)
    <3>1. r \in 1..Len(s.ci) /\ 0 \in 0..Len(s.cs)
      BY <1>3
    <3>2. ASSUME NEW j \in (0 + 1)..Len(s.cs), s.cs[j].t = "cfn"
          PROVE  d[j] >= r \/ MayBeSkipped(s.ci[d[j]])
      <4> DEFINE y == d[j]
      <4>1. j \in 1..Len(s.cs)
        BY <3>2
      <4>2. y \in 1..n /\ OnFrame(s, s.cs[j], y)
        BY <1>3, <1>11, <4>1 DEF Depths
      <4>3. y = d[j]
        OBVIOUS
      <4> HIDE DEF y
      <4>4. y > 1
        BY <3>2, <4>2 DEF OnFrame
      <4>5. y < r => MayBeSkipped(s.ci[y])
        <5>1. y < r => y \in 2..n /\ r \in 2..n
          BY <1>3, <1>12, <4>2, <4>4
        <5> QED  BY <1>3, <1>11, <5>1 DEF Frames
      <4>6. y < r \/ y >= r
        BY <1>3, <4>2
      <4> QED  BY <4>3, <4>5, <4>6
    <3>3. Len(u.stack) + 1 >= CallTop(s, r)
            /\ \A p \in 1..(s.ci[r].func - 1) : u.stack[p] = s.stack[p]
      BY <1>8, <1>13
    <3>4. Len(u.cs) = 0 /\ \A j \in 1..0 : u.cs[j] = s.cs[j] /\ d[j] <= r
      BY <1>1, <1>8
    <3>5. s.status \notin ErrorStatus
      BY DEF ErrorStatus
    <3> QED  BY <1>8, <3>1, <3>2, <3>3, <3>4, <3>5 DEF CutTo
  <2>2. 0 \in Nat
    OBVIOUS
  <2> QED  BY <1>3, <1>8, <1>11, <2>1, <2>2, SkeletonCut
<1>15. Skeleton(v, d)
  <2>1. TopOnly(u, v)
    BY <1>3, <1>5, <1>8, <1>10, <1>12, <1>13 DEF TopOnly
  <2>2. FrameOk(v, r)
    <3>1. ~(r < r)
      BY <1>3
    <3>2. CallTop(v, r) = Len(s.stack) + 1
      BY <1>10, <3>1 DEF CallTop
    <3>3. /\ f.ypcall /\ f.k /\ ~f.clsret /\ f.kind = "C" /\ f.pc = "call" /\ f.func < f.u2
          /\ f.u2 <= Len(s.stack) + 1
      BY <1>5, <1>12, <1>13
    <3> QED  BY <1>10, <3>2, <3>3 DEF FrameOk, Returning
  <2>3. \A i \in 2..(r - 1) : MayBeSkipped(u.ci[i])
    <3>1. \A i \in 2..(r - 1) : i \in 2..n /\ i < r /\ i \in 1..r
      BY <1>3
    <3>2. r \in 2..n
      BY <1>3, <1>12
    <3> QED  BY <1>3, <1>8, <1>11, <3>1, <3>2 DEF Frames
  <2>4. \A j \in 1..Len(u.cs) : FALSE
    BY <1>1, <1>8
  <2>5. v.cs = u.cs /\ v.status = u.status /\ r = Len(u.ci)
    BY <1>8, <1>10
  <2>6. v.ci[r].ypcall => u.ci[r].ypcall \/ AllYieldable(u)
    BY <2>4 DEF AllYieldable
  <2> QED  BY <1>10, <1>14, <2>1, <2>2, <2>3, <2>4, <2>5, <2>6, LocalSkeleton
<1>16. e.t = "try" /\ e.by = "recover" /\ e.nc = v.nc /\ e.nny = v.nny /\ g.t = "unroll"
  OBVIOUS
<1>17. e \in CFunction /\ g \in CFunction
  <2>1. v.nc \in Nat /\ v.nny \in Nat
    BY <1>10, StateType
  <2>2. e \in TryC
    BY <2>1 DEF TryC
  <2>3. g \in PlainC
    BY DEF PlainC
  <2> QED  BY <2>2, <2>3 DEF CFunction
<1> HIDE DEF e, g
<1>18. Pushed(v, x, e)
  BY <1>10, <1>17, PushCIs
<1> HIDE DEF x
<1>19. /\ x \in State /\ x.ci = v.ci /\ x.stack = v.stack /\ SameCounts(v, x) /\ Len(x.cs) = 1
          /\ x.cs[1] = e
  BY <1>1, <1>10, <1>18 DEF Pushed
<1>20. Pushed(x, t, g)
  BY <1>17, <1>19, PushCIs
<1> HIDE DEF t
<1>21. /\ t \in State /\ t.ci = x.ci /\ t.stack = x.stack /\ SameCounts(x, t) /\ Len(t.cs) = 2
       /\ t.cs[1] = e /\ t.cs[2] = g
  BY <1>19, <1>20 DEF Pushed
<1>22. b1 \in [Nat -> Nat] /\ b1[1] = 1
  <2>1. d \in [Nat -> Nat] /\ 1 \in Nat
    BY <1>11 DEF Skeleton
  <2> QED  BY ONLY <2>1, Changed, Zenon
<1>23. c \in [Nat -> Nat] /\ c[1] = 1 /\ c[2] = 1
  <2>1. 2 \in Nat /\ 1 \in Nat /\ 1 # 2
    OBVIOUS
  <2>2. /\ c \in [Nat -> Nat] /\ c[2] = 1 /\ \A j \in Nat : j # 2 => c[j] = b1[j]
    <3> HIDE DEF b1
    <3> QED
      <4>1. b1 \in [Nat -> Nat]
        BY <1>22
      <4> QED
        <5>1. c \in [Nat -> Nat]
          BY ONLY <4>1, <2>1
        <5>2. c[2] = 1
          BY ONLY <4>1, <2>1
        <5>3. \A j \in Nat : j # 2 => c[j] = b1[j]
          BY ONLY <4>1, <2>1
        <5> QED  BY ONLY <5>1, <5>2, <5>3
  <2> HIDE DEF b1, c
  <2> QED  BY <1>22, <2>1, <2>2
<1>24. e.nc < MaxCcalls /\ e.nny <= e.nc /\ e.nc = CcallsAt(v.cs, 0)
         /\ e.nny = NonYieldableAt(v.cs, 0)
  <2>1. 1 \in 1..Len(s.cs) /\ s.cs[1].t = "try"
    OBVIOUS
  <2>2. EntryOk(s.cs, 1)
    BY <1>11, <2>1 DEF CFunctions
  <2>3. s.cs[1].nc = CcallsAt(s.cs, 0) /\ s.cs[1].nny = NonYieldableAt(s.cs, 0)
    <3>1. 1 - 1 = 0
      OBVIOUS
    <3> QED  BY <1>11, <2>1, <3>1 DEF Saved
  <2>4. CcallsAt(v.cs, 0) = CcallsAt(s.cs, 0) /\ NonYieldableAt(v.cs, 0) = NonYieldableAt(s.cs, 0)
    <3>1. \A i \in 1..0 : v.cs[i] = s.cs[i]
      OBVIOUS
    <3> QED  BY <3>1, SameCount
  <2> QED  BY <1>10, <1>16, <2>1, <2>2, <2>3, <2>4 DEF EntryOk
<1>25. Skeleton(x, b1)
  <2>1. EntryOk(x.cs, 1)
    BY <1>16, <1>19, <1>24 DEF EntryOk, Try, Unprotected
  <2>2. OnFrame(v, e, 1)
    BY <1>16 DEF OnFrame, Try, Unprotected, Protected
  <2>3. 0 \in Nat /\ 0 = Len(v.cs) /\ 1 \in 1..Len(v.ci) /\ ~(0 > 0) /\ 1 \in Nat /\ 1 = 0 + 1
    BY <1>1, <1>3, <1>10
  <2> QED  BY <1>10, <1>15, <1>17, <1>18, <1>24, <2>1, <2>2, <2>3, PushEntry
<1> HIDE DEF b1
<1>26. Skeleton(t, c)
  <2>1. EntryOk(t.cs, 2)
    BY <1>16, <1>21 DEF EntryOk, Try, Unprotected
  <2>2. OnFrame(x, g, 1)
    BY <1>16 DEF OnFrame, Try
  <2>3. 1 \in Nat /\ 1 = Len(x.cs) /\ 1 \in 1..Len(x.ci) /\ x.status = "ok" /\ 2 \in Nat
          /\ 2 = 1 + 1
    BY <1>3, <1>10, <1>19 DEF SameCounts
  <2>4. CallsNext(x.cs[1], g)
    BY <1>16, <1>19 DEF CallsNext, Try
  <2>5. Deeper(t, c, 1)
    <3>1. t.cs[1] = e /\ t.cs[1 + 1] = g /\ c[1 + 1] = 1
      <4>1. 1 + 1 = 2
        OBVIOUS
      <4> QED  BY <4>1, <1>21, <1>23
    <3>2. Beneath(t, e, g, 1)
      BY <1>16 DEF Beneath, Try
    <3> QED  BY <1>16, <1>23, <3>1, <3>2 DEF Deeper
  <2>6. b1[1] <= 1
    BY <1>22
  <2> QED  BY <1>16, <1>17, <1>20, <1>25, <2>1, <2>2, <2>3, <2>4, <2>5, <2>6, PushEntry
<1>27. t.stack = s.stack /\ t.tbclist = s.tbclist /\ t.status = "ok" /\ t.ci = v.ci /\ t.nc = v.nc
         /\ t.nny = v.nny
  BY <1>10, <1>19, <1>21 DEF SameCounts
<1>28. \A j \in 1..m : ~Try(s.cs[j], {"closep"})
  <2> SUFFICES ASSUME NEW j \in 1..m, Try(s.cs[j], {"closep"}) PROVE FALSE
    OBVIOUS
  <2>1. j = 1
    BY DEF Try
  <2>2. EntryOk(s.cs, 1)
    BY <1>11 DEF CFunctions
  <2> QED  BY <2>1, <2>2 DEF EntryOk, Try, Unprotected
<1>29. Variables(t)
  <2>1. ASSUME NEW a \in 1..Len(s.tbclist)
        PROVE  /\ s.tbclist[a] <= Len(t.stack)
               /\ s.ci[r].kind = "C" /\ s.ci[r].func < s.tbclist[a] => Accounted(t, s.tbclist[a], r)
    <3> DEFINE p == s.tbclist[a]
    <3>1. VariableOk(s, p) /\ p \in Nat
      BY StateType, BaseType DEF Base, Variables
    <3> HIDE DEF p
    <3>2. p <= Len(s.stack)
      BY <3>1 DEF VariableOk
    <3>3. s.ci[r].func < p => Accounted(t, p, r)
      <4>1. CASE p >= s.ci[r].u2
        <5>1. t.ci[r].recst # "ok" /\ t.ci[r].u2 = s.ci[r].u2
          BY <1>5, <1>10, <1>27 DEF ErrorStatus
        <5> QED  BY <4>1, <5>1 DEF Accounted
      <4>2. CASE ~(p >= s.ci[r].u2)
        <5>1. p < CallTop(s, r)
          BY <1>12, <1>13, <3>1, <4>2
        <5>2. s.ci[r].func < p => Accounted(s, p, r)
          BY <1>3, <1>12, <3>1, <5>1 DEF VariableOk
        <5>3. Accounted(s, p, r) => s.ci[r].tbc
          BY <1>28, <4>2 DEF Accounted
        <5>4. t.ci[r].tbc = s.ci[r].tbc
          BY <1>5, <1>10, <1>27
        <5> QED  BY <5>2, <5>3, <5>4 DEF Accounted
      <4> QED  BY <4>1, <4>2
    <3> QED  BY <1>27, <3>2, <3>3 DEF p
  <2>2. Len(t.tbclist) <= Len(s.tbclist)
    BY <1>27, BaseType
  <2>3. Len(t.ci) = r /\ t.ci[r].func = s.ci[r].func /\ t.ci[r].kind = s.ci[r].kind
          /\ \A i \in 1..(r - 1) : t.ci[i] = s.ci[i]
    BY <1>5, <1>10, <1>27
  <2>4. \A a \in 1..Len(t.tbclist) :
          /\ t.tbclist[a] = s.tbclist[a]
          /\ t.tbclist[a] <= Len(t.stack) /\ t.stack[t.tbclist[a]] = s.stack[t.tbclist[a]]
          /\ s.ci[r].kind = "C" /\ s.ci[r].func < t.tbclist[a] => Accounted(t, t.tbclist[a], r)
    BY <1>27, <2>1
  <2>5. \A j \in 1..Len(s.cs) :
          Try(s.cs[j], {"closep"}) /\ s.cs[j].ci < r => j \in 1..Len(t.cs) /\ t.cs[j] = s.cs[j]
    BY <1>28
  <2>6. t \in State /\ r \in 1..Len(s.ci)
    BY <1>21
  <2> QED
    <3>1. Base(s, d)
      OBVIOUS
    <3>2. t.ci[r].func = s.ci[r].func /\ t.ci[r].kind = s.ci[r].kind /\ Len(t.ci) = r
      BY <2>3
    <3>3. \A i \in 1..(r - 1) : t.ci[i] = s.ci[i]
      BY <2>3
    <3> QED  BY ONLY <2>2, <2>4, <2>5, <2>6, <3>1, <3>2, <3>3, VariablesKept
<1>30. Top(t, c)
  <2>1. Len(t.cs) = 2 /\ t.cs[2] = g /\ Len(t.ci) = r /\ t.ci[r] = f /\ t.status = "ok"
    BY <1>10, <1>21, <1>27
  <2>2. ~TakesResult(f) /\ ~Returning(f) /\ f.pc # "top"
    BY <1>5, <1>12 DEF TakesResult, Returning
  <2>3. ResultOf(t, r)
    BY <2>1, <2>2 DEF ResultOf
  <2>4. Counts(t)
    <3>1. t.cs \in Seq(CFunction)
      BY <1>21, StateType
    <3>2. CcallsAt(t.cs, 2) = CcallsAt(t.cs, 1) /\ NonYieldableAt(t.cs, 2) = NonYieldableAt(t.cs, 1)
      <4>1. 2 \in 1..Len(t.cs) /\ 2 - 1 = 1 /\ t.cs[2].t \notin {"ccall", "reset"}
        BY <1>16, <1>21
      <4> QED  BY <3>1, <4>1, CountStep
    <3>3. CcallsAt(t.cs, 1) = CcallsAt(t.cs, 0) /\ NonYieldableAt(t.cs, 1) = NonYieldableAt(t.cs, 0)
      <4>1. 1 \in 1..Len(t.cs) /\ 1 - 1 = 0 /\ t.cs[1].t \notin {"ccall", "reset"}
        BY <1>16, <1>21
      <4> QED  BY <3>1, <4>1, CountStep
    <3>4. CcallsAt(t.cs, 0) = CcallsAt(v.cs, 0) /\ NonYieldableAt(t.cs, 0) = NonYieldableAt(v.cs, 0)
      <4>1. \A i \in 1..0 : t.cs[i] = v.cs[i]
        OBVIOUS
      <4> QED  BY <4>1, SameCount
    <3> QED
      <4>1. CcallsAt(t.cs, 2) = e.nc /\ NonYieldableAt(t.cs, 2) = e.nny
        BY ONLY <1>24, <3>2, <3>3, <3>4
      <4>2. t.nc = e.nc /\ t.nny = e.nny
        BY <1>16, <1>27
      <4> QED  BY <1>16, <1>21, <1>27, <4>1, <4>2 DEF Counts
  <2>5. t.nc < MaxCcalls /\ t.nny <= t.nc
    BY <1>16, <1>24, <1>27
  <2> QED  BY <1>16, <2>1, <2>2, <2>3, <2>4, <2>5 DEF Top, Try
<1> QED  BY <1>2, <1>23, <1>26, <1>29, <1>30 DEF CInv, Base

(* An error that lauD_pcall or lauD_closeprotected catches. *)
LEMMA Catches ==
  ASSUME NEW s, NEW d, Base(s, d), s.status = "ok", NEW m \in Nat, m = Len(s.cs),
         NEW j \in 1..m, Try(s.cs[j], Protected), \A i \in 1..m : s.cs[i].t = "try" => i <= j,
         NEW b, BackTo(s, b, j), NEW status \in ErrorStatus
  PROVE  CInv(closeprotected([b EXCEPT !.ci = SubSeq(@, 1, s.cs[j].ci)], s.cs[j].level, status))
<1> DEFINE n == Len(s.ci)
           x == s.cs[j].ci
           level == s.cs[j].level
           u == [b EXCEPT !.ci = SubSeq(@, 1, x)]
           k == j - 1
           t == closeprotected(u, level, status)
<1>1. n \in Nat /\ n > 0 /\ n = Len(s.ci)
  BY BaseType
<1>2. Skeleton(s, d) /\ Frames(s) /\ CFunctions(s.cs) /\ Saved(s.cs) /\ Depths(s, d)
      /\ (\A i \in 1..m : s.cs[i] \in CFunction) /\ d \in [Nat -> Nat]
  BY BaseType DEF Base, Skeleton
<1>3. s.cs[j].t = "try" /\ s.cs[j].by \in Protected /\ s.cs[j].by \in {"pcall", "closep"}
  BY DEF Try, Protected
<1>4. k \in Nat /\ j = k + 1 /\ k > 0 /\ k \in 1..m /\ k \in 1..(m - 1)
  <2>1. EntryOk(s.cs, j)
    BY <1>2 DEF CFunctions
  <2>2. j # 1
    BY <1>3, <2>1 DEF EntryOk, Try, Unprotected
  <2> QED  BY <2>2
<1>5. level \in Nat /\ x \in Nat
  BY <1>2, <1>3, EntryType DEF TryC
<1>6. /\ d[j] = x /\ x \in 1..n /\ s.ci[x].kind = "C" /\ ~s.ci[x].ypcall /\ ~s.ci[x].clsret
      /\ s.ci[x].func < level /\ level <= CallTop(s, x) /\ (x = 1 => level = 2)
  <2>1. OnFrame(s, s.cs[j], d[j]) /\ d[j] \in 1..Len(s.ci)
    BY <1>2 DEF Depths
  <2>2. x = d[j]
    BY <2>1 DEF OnFrame
  <2> QED  BY <1>1, <2>1, <2>2 DEF OnFrame
<1>7. CallsNext(s.cs[k], s.cs[j]) /\ Deeper(s, d, k)
  BY <1>2, <1>4 DEF CFunctions, Depths
<1>8. (s.cs[k].t = "cfn" \/ (s.cs[k].t = "reset" /\ level = 2 /\ Try(s.cs[j], {"closep"})))
  BY <1>3, <1>7 DEF CallsNext, Try, Protected, Closing
<1>9. d[k] = x
  <2>1. d[k + 1] = d[k]
    BY <1>7, <1>8 DEF Deeper
  <2> QED  BY <1>4, <1>6, <2>1
<1> HIDE DEF x, level, k, n
<1>10. /\ b \in State /\ b.ci = s.ci /\ b.stack = s.stack /\ b.tbclist = s.tbclist /\ b.status = "ok"
       /\ b.nc = s.cs[j].nc /\ b.nny = s.cs[j].nny /\ Len(b.cs) = k
          /\ \A i \in 1..k : b.cs[i] = s.cs[i]
  BY <1>4 DEF BackTo, k
<1>11. SubSeq(s.ci, 1, x) \in Seq(CallInfo) /\ Len(SubSeq(s.ci, 1, x)) = x
         /\ \A i \in 1..x : SubSeq(s.ci, 1, x)[i] = s.ci[i]
  <2>1. x \in 0..Len(s.ci) /\ s.ci \in Seq(CallInfo)
    BY <1>1, <1>6, BaseType, StateType
  <2> QED  BY <2>1, Prefix
<1>12. /\ u \in State /\ u.stack = s.stack /\ u.tbclist = s.tbclist /\ u.status = "ok"
       /\ u.nc = s.cs[j].nc /\ u.nny = s.cs[j].nny /\ Len(u.cs) = k
          /\ (\A i \in 1..k : u.cs[i] = s.cs[i])
       /\ Len(u.ci) = x /\ \A i \in 1..x : u.ci[i] = s.ci[i]
  BY <1>10, <1>11 DEF State
<1> HIDE DEF u
<1>13. /\ CallTop(s, x) <= Len(s.stack) + 1 /\ Len(s.stack) \in Nat /\ CallTop(s, x) \in Nat
       /\ s.ci[x].func \in Nat /\ s.ci[x].func <= Len(s.stack)
  <2>1. n \in 1..n
    BY <1>1
  <2>2. /\ CallTop(s, n) = Len(s.stack) + 1 /\ Len(s.stack) \in Nat
        /\ \A i \in 1..n : s.ci[i].func \in Nat /\ s.ci[i].func <= Len(s.stack)
           /\ CallTop(s, i) \in Nat
        /\ \A i, y \in 1..n : i < y => CallTop(s, i) <= s.ci[y].func
    BY <1>1, <1>2, Bases
  <2>3. x = n \/ x < n
    BY <1>1, <1>6
  <2>4. CASE x = n
    BY <1>6, <2>1, <2>2, <2>4
  <2>5. CASE x < n
    <3>1. CallTop(s, x) <= s.ci[n].func /\ s.ci[n].func <= Len(s.stack) /\ s.ci[n].func \in Nat
      BY <1>6, <2>1, <2>2, <2>5
    <3> QED  BY <1>6, <2>2, <3>1
  <2> QED  BY <2>3, <2>4, <2>5
<1>14. Skeleton(u, d)
  <2>1. CutTo(s, d, u, x, k)
    <3>1. x \in 1..Len(s.ci) /\ k \in 0..Len(s.cs)
      BY <1>1, <1>4, <1>6
    <3>2. \A i \in 1..m : d[i] \in Nat
      BY SkeletonType, <1>2
    <3>3. \A i, y \in 1..m : i < y => d[i] <= d[y]
      BY <1>2 DEF Depths
    <3>4. \A i \in 1..k : u.cs[i] = s.cs[i] /\ d[i] <= x
      <4>1. \A i \in 1..k : i \in 1..m /\ i < j
        BY <1>4
      <4> QED  BY <1>6, <1>12, <3>3, <4>1
    <3>5. \A i \in (k + 1)..m : d[i] >= x
      <4>1. \A i \in (k + 1)..m : i \in 1..m /\ (i = j \/ j < i)
        BY <1>4
      <4> QED  BY <1>6, <3>2, <3>3, <4>1
    <3>6. Len(u.stack) + 1 >= CallTop(s, x)
            /\ \A p \in 1..(s.ci[x].func - 1) : u.stack[p] = s.stack[p]
      BY <1>12, <1>13
    <3>7. s.status \notin ErrorStatus
      BY DEF ErrorStatus
    <3> QED  BY <1>12, <3>1, <3>4, <3>5, <3>6, <3>7 DEF CutTo
  <2> QED  BY <1>2, <1>4, <1>5, <1>12, <2>1, SkeletonCut
<1>15. Counts(u) /\ u.nc < MaxCcalls /\ u.nny <= u.nc
  <2>1. s.cs[j].nc = CcallsAt(s.cs, k) /\ s.cs[j].nny = NonYieldableAt(s.cs, k)
    BY <1>2, <1>3 DEF Saved, k
  <2>2. CcallsAt(u.cs, k) = CcallsAt(s.cs, k) /\ NonYieldableAt(u.cs, k) = NonYieldableAt(s.cs, k)
    <3>1. \A i \in 1..k : u.cs[i] = s.cs[i]
      BY ONLY <1>12
    <3>2. k \in Nat
      BY ONLY <1>4
    <3> QED  BY ONLY <3>1, <3>2, SameCount
  <2>3. EntryOk(s.cs, j)
    BY <1>2 DEF CFunctions
  <2> QED  BY <1>3, <1>12, <2>1, <2>2, <2>3 DEF Counts, EntryOk
<1>16. x \in 1..x
  BY <1>6
<1>17. /\ ProtectedClosing(u, t, level, status)
       /\ \E c \in [Nat -> Nat] : Skeleton(t, c) /\ Top(t, c)
  <2>1. u.cs[k] = s.cs[k] /\ u.ci[x] = s.ci[x]
    BY <1>4, <1>12, <1>16
  <2>2. (u.cs[k].t = "cfn" /\ u.ci[x].pc # "top") \/ (u.cs[k].t = "reset" /\ level = 2)
    <3>1. s.cs[k].t = "cfn" => s.ci[x].pc # "top"
      <4>1. Beneath(s, s.cs[k], s.cs[k + 1], d[k]) /\ s.cs[k + 1].t = "try"
        BY <1>3, <1>4, <1>7 DEF Deeper, Try
      <4> QED  BY <1>9, <4>1 DEF Beneath
    <3> QED  BY <1>8, <2>1, <3>1
  <2>3. CallTop(u, x) = Len(s.stack) + 1
    <3>1. ~(x < x)
      BY <1>5
    <3> QED  BY <1>12, <3>1 DEF CallTop
  <2>4. level <= CallTop(u, x)
    BY <1>5, <1>6, <1>13, <2>3
  <2>5. status \in ErrorStatus \cup {"ok"} /\ k = Len(u.cs) /\ x = Len(u.ci)
    BY <1>12
  <2>6. /\ u.ci[x].kind = "C" /\ ~u.ci[x].ypcall /\ ~u.ci[x].clsret /\ u.ci[x].func < level
        /\ (x = 1 => level = 2) /\ u.status = "ok" /\ d[k] = x /\ k \in Nat /\ x \in Nat
           /\ level \in Nat /\ k > 0
    BY <1>4, <1>5, <1>6, <1>9, <1>12, <2>1
  <2> HIDE DEF t
  <2>7. t = closeprotected(u, level, status)
    BY DEF t
  <2> QED  BY <1>14, <1>15, <2>2, <2>4, <2>5, <2>6, <2>7, Closeprotected
<1> HIDE DEF t
<1>18. /\ t \in State /\ t.ci = u.ci /\ t.stack = s.stack /\ t.tbclist = s.tbclist
       /\ Len(t.cs) = k + 2 /\ t.cs[k + 1] = CloseP(u, level, status)
          /\ \A i \in 1..k : t.cs[i] = s.cs[i]
  BY <1>4, <1>12, <1>17 DEF ProtectedClosing, SameCounts
<1>19. Variables(t)
  <2>1. ASSUME NEW i \in 1..m, Try(s.cs[i], {"closep"})
        PROVE  s.cs[i].ci = d[i] /\ (i \in 1..k \/ i = j)
    <3>1. OnFrame(s, s.cs[i], d[i])
      BY <1>2 DEF Depths
    <3>2. i <= j
      BY <2>1 DEF Try
    <3> QED  BY <1>4, <2>1, <3>1, <3>2 DEF OnFrame, Try, Protected
  <2>2. ASSUME NEW a \in 1..Len(s.tbclist)
        PROVE  /\ s.tbclist[a] <= Len(t.stack)
               /\ s.ci[x].kind = "C" /\ s.ci[x].func < s.tbclist[a] => Accounted(t, s.tbclist[a], x)
    <3> DEFINE p == s.tbclist[a]
    <3>1. VariableOk(s, p) /\ p \in Nat
      BY StateType, BaseType DEF Base, Variables
    <3> HIDE DEF p
    <3>2. p <= Len(s.stack)
      BY <3>1 DEF VariableOk
    <3>3. s.ci[x].func < p => Accounted(t, p, x)
      <4>1. CASE p >= level
        <5>1. Try(t.cs[k + 1], {"closep"}) /\ t.cs[k + 1].ci = x /\ p >= t.cs[k + 1].level
                /\ k + 1 \in 1..Len(t.cs)
          BY <1>4, <1>12, <1>18, <4>1 DEF CloseP, Try
        <5> QED  BY <5>1 DEF Accounted
      <4>2. CASE ~(p >= level)
        <5>1. p < CallTop(s, x)
          BY <1>5, <1>6, <1>13, <3>1, <4>2
        <5>2. s.ci[x].func < p => Accounted(s, p, x)
          BY <1>1, <1>6, <3>1, <5>1 DEF VariableOk
        <5>3. t.ci[x] = s.ci[x]
          BY <1>12, <1>16, <1>18
        <5>4. ASSUME NEW i \in 1..m, Try(s.cs[i], {"closep"}), s.cs[i].ci = x, p >= s.cs[i].level
              PROVE  i \in 1..Len(t.cs) /\ t.cs[i] = s.cs[i]
          <6>1. i # j
            BY <4>2, <5>4 DEF level
          <6>2. i \in 1..k
            BY <2>1, <5>4, <6>1
          <6> QED  BY <1>4, <1>18, <6>2
        <5> QED  BY <5>2, <5>3, <5>4 DEF Accounted
      <4> QED  BY <4>1, <4>2
    <3> QED  BY <1>18, <3>2, <3>3 DEF p
  <2>3. Len(t.tbclist) <= Len(s.tbclist)
    BY <1>18, BaseType
  <2>4. Len(t.ci) = x /\ t.ci[x].func = s.ci[x].func /\ t.ci[x].kind = s.ci[x].kind
          /\ \A i \in 1..(x - 1) : t.ci[i] = s.ci[i]
    <3>1. \A i \in 1..(x - 1) : i \in 1..x
      BY <1>5
    <3> QED  BY <1>12, <1>16, <1>18, <3>1
  <2>5. \A a \in 1..Len(t.tbclist) :
          /\ t.tbclist[a] = s.tbclist[a]
          /\ t.tbclist[a] <= Len(t.stack) /\ t.stack[t.tbclist[a]] = s.stack[t.tbclist[a]]
          /\ s.ci[x].kind = "C" /\ s.ci[x].func < t.tbclist[a] => Accounted(t, t.tbclist[a], x)
    BY <1>18, <2>2
  <2>6. ASSUME NEW i \in 1..Len(s.cs), Try(s.cs[i], {"closep"}), s.cs[i].ci < x
        PROVE  i \in 1..Len(t.cs) /\ t.cs[i] = s.cs[i]
    <3>1. s.cs[i].ci = d[i] /\ (i \in 1..k \/ i = j)
      BY <2>1, <2>6
    <3>2. i # j
      BY <1>5, <1>6, <2>6, <3>1
    <3>3. i \in 1..k
      BY <3>1, <3>2
    <3> QED  BY <1>4, <1>18, <3>3
  <2>7. t \in State /\ x \in 1..Len(s.ci)
    BY <1>1, <1>6, <1>18
  <2> QED  BY <2>3, <2>4, <2>5, <2>6, <2>7, VariablesKept
<1>20. \E c \in [Nat -> Nat] : Base(t, c) /\ Top(t, c)
  BY <1>17, <1>19 DEF Base
<1> QED  BY <1>20 DEF CInv, t, u, x, level

(* lauD_throw: an error goes to the last handler on the C stack. *)
LEMMA Throw ==
  ASSUME NEW s, NEW d, Base(s, d), s.status = "ok", Len(s.cs) > 0, s.cs[Len(s.cs)].t # "reset",
         NEW status \in ErrorStatus
  PROVE  CInv(throw(s, status))
<1> DEFINE m == Len(s.cs)
           j == Max(Tries(s))
           b == Unprotect(s, j)
           try == s.cs[j]
<1>1. m \in Nat /\ m = Len(s.cs) /\ m > 0 /\ Skeleton(s, d) /\ s \in State
  BY BaseType DEF Base
<1>2. j \in 1..m /\ s.cs[j].t = "try" /\ \A i \in 1..m : s.cs[i].t = "try" => i <= j
  BY <1>1, HandlersOf
<1>3. BackTo(s, b, j)
  BY <1>1, <1>2, UnprotectIs
<1>4. throw(s, status) = IF try.by \in {"resume", "recover"} THEN precover(b, status)
                         ELSE closeprotected([b EXCEPT !.ci = SubSeq(@, 1, try.ci)], try.level,
                         status)
  BY DEF throw
<1> HIDE DEF m, j, b
<1>5. EntryOk(s.cs, j) /\ s.cs[j] \in CFunction
  BY <1>1, <1>2, SkeletonType DEF Skeleton, CFunctions
<1>6. CASE try.by \in {"resume", "recover"}
  <2>1. j = 1
    BY <1>2, <1>5, <1>6 DEF EntryOk, Try, Unprotected
  <2>2. \A i \in 1..m : s.cs[i].t = "try" <=> i = 1
    <3> TAKE i \in 1..m
    <3>1. s.cs[i].t = "try" => i <= 1
      BY <1>2, <2>1
    <3> QED  BY <1>2, <2>1, <3>1
  <2> DEFINE pcalls == {i \in 1..Len(b.ci) : b.ci[i].ypcall}
             dead == seterrorobj(b, status, Len(b.stack) + 1)
  <2>3. status # "yield"
    BY DEF ErrorStatus
  <2>4. BackTo(s, b, 1)
    BY <1>3, <2>1
  <2>5. CASE pcalls = {}
    <3>1. precover(b, status) = [dead EXCEPT !.status = status, !.ret = <<status,
            Last(dead.stack)>>]
      BY <2>3, <2>5 DEF precover
    <3>2. CInv([dead EXCEPT !.status = status, !.ret = <<status, Last(dead.stack)>>])
      BY <1>1, <2>2, <2>4, Dies
    <3> QED  BY <1>4, <1>6, <3>1, <3>2
  <2>6. CASE pcalls # {}
    <3> DEFINE r == Max(pcalls)
    <3>1. r \in pcalls
      <4>1. Len(b.ci) \in Nat /\ pcalls \in SUBSET (0..Len(b.ci))
        BY <2>4, StateType DEF BackTo
      <4> HIDE DEF pcalls
      <4> QED  BY <2>6, <4>1, MaxOf
    <3>2. r \in 1..Len(s.ci) /\ s.ci[r].ypcall
      BY <2>4, <3>1 DEF BackTo
    <3>3. precover(b, status)
            = PushC(rawrunprotected([b EXCEPT !.ci = Append(SubSeq(@, 1, r - 1),
                                                            [@[r] EXCEPT !.recst = status])],
                                    "recover", 0, 0, "ok"),
                    [t |-> "unroll"])
      BY <2>3, <2>6 DEF precover
    <3> HIDE DEF r
    <3>4. CInv(PushC(rawrunprotected([b EXCEPT !.ci = Append(SubSeq(@, 1, r - 1),
                                                            [@[r] EXCEPT !.recst = status])],
                                    "recover", 0, 0, "ok"),
                    [t |-> "unroll"]))
      BY <1>1, <2>2, <2>4, <3>2, Recovers
    <3> QED  BY <1>4, <1>6, <3>3, <3>4
  <2> QED  BY <2>5, <2>6
<1>7. CASE try.by \notin {"resume", "recover"}
  <2>1. Try(s.cs[j], Protected)
    BY <1>2, <1>5, <1>7, EntryType DEF TryC, Try, Protected
  <2>2. CInv(closeprotected([b EXCEPT !.ci = SubSeq(@, 1, s.cs[j].ci)], s.cs[j].level, status))
    BY <1>1, <1>2, <1>3, <2>1, Catches
  <2> QED  BY <1>4, <1>7, <2>2
<1> QED  BY <1>6, <1>7

(* Values pushed, and counts changed, before an error. *)
LEMMA Runerror ==
  ASSUME NEW s, NEW d, Base(s, d), s.status = "ok", Len(s.cs) > 0, s.cs[Len(s.cs)].t # "reset",
         NEW e \in Error
  PROVE  CInv(runerror(s, e))
<1> DEFINE t == PushStack(s, <<e>>)
<1>1. <<e>> \in Seq(StackValue) /\ s \in State
  BY BaseType DEF StackValue, ErrorValue
<1>2. Grown(s, t, <<e>>)
  BY <1>1, PushStackIs
<1>3. runerror(s, e) = throw(t, "run") /\ "run" \in ErrorStatus
  BY DEF runerror, ErrorStatus
<1> HIDE DEF t
<1>4. /\ t \in State /\ t.ci = s.ci /\ t.cs = s.cs /\ t.status = s.status /\ t.tbclist = s.tbclist
      /\ Len(t.stack) >= Len(s.stack) /\ \A p \in 1..Len(s.stack) : t.stack[p] = s.stack[p]
  <2>1. Len(s.stack) \in Nat /\ Len(<<e>>) \in Nat
    BY BaseType
  <2> QED  BY <1>2, <2>1 DEF Grown, SameCounts
<1>5. Base(t, d)
  BY <1>4, Grow
<1> QED  BY <1>3, <1>4, <1>5, Throw

-----------------------------------------------------------------------------
(* Calls *)

(* A C function more does not disturb the variables. *)
LEMMA VariablesPush ==
  ASSUME NEW s, NEW t, NEW e, s \in State, Variables(s), Pushed(s, t, e)
  PROVE  Variables(t)
<1>1. /\ t.ci = s.ci /\ t.stack = s.stack /\ t.tbclist = s.tbclist
      /\ \A j \in 1..Len(s.cs) : t.cs[j] = s.cs[j] /\ j \in 1..Len(t.cs)
  <2>1. Len(s.cs) \in Nat
    BY StateType
  <2> QED  BY <2>1 DEF Pushed, SameCounts
<1>2. ASSUME NEW p, NEW i, Accounted(s, p, i)
      PROVE  Accounted(t, p, i)
  BY <1>1, <1>2 DEF Accounted
<1>3. \A i : CallTop(t, i) = CallTop(s, i)
  BY <1>1 DEF CallTop
<1>4. ASSUME NEW p, VariableOk(s, p)
      PROVE  VariableOk(t, p)
  BY <1>1, <1>2, <1>3, <1>4 DEF VariableOk
<1> QED  BY <1>1, <1>4 DEF Variables

(* A C function that neither calls nor resets does not change the counts. *)
LEMMA CountsPush ==
  ASSUME NEW s, NEW t, NEW e, s \in State, Counts(s), Pushed(s, t, e), e.t \notin {"ccall", "reset"}
  PROVE  Counts(t)
<1> DEFINE m == Len(s.cs)
<1>1. m \in Nat
  BY StateType
<1>2. /\ t \in State /\ t.nc = s.nc /\ t.nny = s.nny /\ Len(t.cs) = m + 1 /\ t.cs[m + 1] = e
      /\ \A j \in 1..m : t.cs[j] = s.cs[j]
  BY DEF Pushed, SameCounts
<1>3. m = Len(s.cs)
  OBVIOUS
<1> HIDE DEF m
<1> DEFINE k == m + 1
<1>4. k = m + 1 /\ k - 1 = m /\ k \in Nat /\ k > 0
  BY <1>1
<1> HIDE DEF k
<1>5. CcallsAt(t.cs, k) = CcallsAt(t.cs, m) /\ NonYieldableAt(t.cs, k) = NonYieldableAt(t.cs, m)
  <2>1. k = Len(t.cs) /\ t.cs \in Seq(CFunction)
    BY <1>2, <1>4, StateType
  <2>2. k \in 1..Len(t.cs)
    BY <1>4, <2>1
  <2>3. t.cs[k].t \notin {"ccall", "reset"}
    BY <1>2, <1>4
  <2>4. CcallsAt(t.cs, k) = CcallsAt(t.cs, k - 1)
          /\ NonYieldableAt(t.cs, k) = NonYieldableAt(t.cs, k - 1)
    BY <2>1, <2>2, <2>3, CountStep
  <2> QED  BY <1>4, <2>4
<1>6. CcallsAt(t.cs, m) = CcallsAt(s.cs, m) /\ NonYieldableAt(t.cs, m) = NonYieldableAt(s.cs, m)
  BY <1>1, <1>2, SameCount
<1> QED  BY <1>2, <1>3, <1>5, <1>6, <1>4 DEF Counts

(* The same when one is left. *)
LEMMA CountsPop ==
  ASSUME NEW s, NEW t, s \in State, Counts(s), Popped(s, t),
         s.cs[Len(s.cs)].t \notin {"ccall", "reset"}
  PROVE  Counts(t)
<1> DEFINE m == Len(s.cs)
           k == Len(t.cs)
<1>1. /\ t \in State /\ t.nc = s.nc /\ t.nny = s.nny /\ m > 0 /\ k = m - 1 /\ m \in Nat
      /\ \A j \in 1..k : t.cs[j] = s.cs[j]
  BY StateType DEF Popped, SameCounts
<1>2. m = Len(s.cs) /\ k = Len(t.cs) /\ s.cs \in Seq(CFunction)
  BY StateType
<1> HIDE DEF m, k
<1>3. CcallsAt(s.cs, m) = CcallsAt(s.cs, k) /\ NonYieldableAt(s.cs, m) = NonYieldableAt(s.cs, k)
  <2>1. m \in 1..Len(s.cs) /\ m - 1 = k
    BY <1>1, <1>2
  <2> QED  BY <1>2, <2>1, CountStep
<1>4. CcallsAt(t.cs, k) = CcallsAt(s.cs, k) /\ NonYieldableAt(t.cs, k) = NonYieldableAt(s.cs, k)
  <2>1. k \in Nat
    BY <1>1
  <2> QED  BY <1>1, <2>1, SameCount
<1> QED  BY <1>1, <1>2, <1>3, <1>4 DEF Counts

(* The frame that calls the function at 'func'. *)
Calling(s, n, func, want) ==
  LET f == s.ci[n] IN
  /\ f.func < func
  /\ f.ypcall => f.u2 <= func /\ (f.recst = "ok" => func = f.u2)
  /\ f.pc \in {"close", "top"} => f.level <= func
  /\ f.recst # "ok" => want = 0
  /\ Returning(f) => want = 0 /\ f.func + f.u2 < func
  /\ TakesResult(f) => want = 1
  /\ Returning(f) /\ f.u2 = 1 => s.stack[func - 1] = "res"

(* The function in control, of the running frame, may call the function at 'func'. *)
MayCall(s, d, m, n, func, want) ==
  /\ Base(s, d) /\ s.status = "ok"
  /\ m \in Nat /\ m = Len(s.cs) /\ m > 0 /\ n \in Nat /\ n = Len(s.ci) /\ d[m] = n
  /\ s.nc < MaxCcalls /\ s.nny <= s.nc /\ Counts(s)
  /\ func \in Nat /\ func <= Len(s.stack) /\ \A a \in 1..Len(s.tbclist) : s.tbclist[a] < func
  /\ want \in {0, 1, MULTRET} /\ Calling(s, n, func, want)
  /\ \A j \in 1..m : d[j] = n /\ (Try(s.cs[j], Protected) \/ s.cs[j].t = "close")
     => s.cs[j].level <= func
  /\ \A j \in 1..m : d[j] = n => /\ (Try(s.cs[j], {"pcall"}) => func = s.cs[j].level)
                                /\ (Try(s.cs[j], {"closep"}) => want = 0)
  /\ n > 1 => MayBeSkipped(s.ci[n]) \/ \E j \in 1..m : s.cs[j].t = "cfn" /\ d[j] = n

(* lauD_precall of a function in C or in Lau keeps the invariant. *)
LEMMA Precall ==
  ASSUME NEW s, NEW d, NEW m, NEW n, NEW func, NEW want, MayCall(s, d, m, n, func, want),
         NEW kind \in {"Lau", "C"}, NEW fresh \in BOOLEAN,
         \/ s.cs[m].t = "exec" /\ fresh = FALSE /\ s.ci[n].pc \notin {"close", "return"}
         \/ s.cs[m].t = "ccall" /\ (fresh <=> kind = "Lau")
  PROVE  CInv(precall(s, func, want, kind, fresh))
<1> DEFINE args == SubSeq(s.stack, func + 1, Len(s.stack))
           g == Frame(kind, func, want, fresh, args)
           t == [s EXCEPT !.ci = Append(@, g)]
           k == m + 1
           r == n + 1
<1> USE DEF MayCall
<1>1. /\ Skeleton(s, d) /\ d \in [Nat -> Nat] /\ s \in State /\ n > 0 /\ n \in 1..n /\ k \in Nat
         /\ k = m + 1
      /\ m \in 1..m /\ r \in Nat /\ r = n + 1 /\ n \in 1..r /\ r \in 1..r
      /\ n < r /\ r > 1 /\ r - 1 = n /\ m # k /\ k # 1 /\ k > 0 /\ n <= r /\ m \in 1..k
  <2>1. Skeleton(s, d) /\ d \in [Nat -> Nat] /\ s \in State
    BY DEF Base, Skeleton
  <2>2. n > 0
    BY <2>1, Bases
  <2>3. \A q, p \in Nat : q > 0 /\ p = q + 1 =>
                              /\ q \in 1..q /\ q \in 1..p /\ p \in 1..p
                              /\ q < p /\ p > 1 /\ p - 1 = q /\ q # p /\ p # 1
                              /\ p > 0 /\ q <= p
    OBVIOUS
  <2>4. k \in Nat /\ r \in Nat
    OBVIOUS
  <2>5. m > 0 /\ m \in Nat /\ n \in Nat
    OBVIOUS
  <2>6. k = m + 1 /\ r = n + 1
    OBVIOUS
  <2> HIDE DEF k, r
  <2>7. /\ n \in 1..n /\ r \in Nat /\ n \in 1..r /\ r \in 1..r /\ n < r /\ r > 1 /\ r - 1 = n
           /\ n <= r
    BY <2>2, <2>3, <2>5, <2>6, <2>4, Zenon
  <2>8. /\ m \in 1..m /\ k \in Nat /\ m # k /\ k # 1 /\ k > 0 /\ m \in 1..k
    BY <2>3, <2>5, <2>6, <2>4, Zenon
  <2> QED  BY <2>1, <2>2, <2>6, <2>7, <2>8, Zenon
<1>2. precall(s, func, want, kind, fresh)
        = IF n = MaxFrames THEN runerror(s, message)
          ELSE IF kind = "C" THEN PushC(t, [t |-> "cfn"])
          ELSE IF fresh THEN PushC(t, [t |-> "exec"])
          ELSE t
  BY DEF precall
<1>3. s.cs[m].t # "reset"
  OBVIOUS
<1>4. CASE n = MaxFrames
  <2>1. message \in Error
    BY Bounds
  <2>2. CInv(runerror(s, message))
    BY <1>3, <2>1, Runerror
  <2> QED  BY <1>2, <1>4, <2>2
<1>5. CASE n # MaxFrames
  <2>1. n < MaxFrames
    <3>1. Len(s.ci) \in 1..MaxFrames
      BY <1>1 DEF Skeleton, Frames
    <3>2. n \in 1..MaxFrames /\ MaxFrames \in Nat
      BY <3>1, Bounds, Zenon
    <3>3. \A q \in Nat : \A i \in 1..q : i # q => i < q
      OBVIOUS
    <3> QED  BY <1>5, <3>2, <3>3, Zenon
  <2>2. args \in Seq(StackValue)
    <3>1. s.stack \in Seq(StackValue) /\ Len(s.stack) \in Nat
            /\ \A i \in 1..Len(s.stack) : s.stack[i] \in StackValue
      BY <1>1, StateType
    <3>2. \A i \in (func + 1)..Len(s.stack) : s.stack[i] \in StackValue
      <4>1. \A i \in (func + 1)..Len(s.stack) : i \in 1..Len(s.stack)
        BY <3>1
      <4> QED  BY <3>1, <4>1
    <3>3. func + 1 \in Nat \ {0}
      OBVIOUS
    <3>4. func + 1 \in 1..(Len(s.stack) + 1) /\ Len(s.stack) \in func..Len(s.stack)
      BY <3>1
    <3> QED  BY <3>1, <3>4, SubSeqProperties
  <2> HIDE DEF args
  <2>3. /\ g \in CallInfo /\ FreshlyCalled(g) /\ g.func = func /\ g.want = want /\ g.kind = kind
        /\ g.fresh = fresh /\ g.pc = "run" /\ g.recst = "ok" /\ ~g.clsret /\ ~TakesResult(g)
           /\ ~Returning(g)
    BY <2>2 DEF Frame, CallInfo, FreshlyCalled, TakesResult, Returning
  <2> HIDE DEF g
  <2>4. NewFrame(s, t, g)
    <3>1. s.ci \in Seq(CallInfo)
      BY <1>1, StateType
    <3>2. /\ Append(s.ci, g) \in Seq(CallInfo) /\ Len(Append(s.ci, g)) = n + 1
             /\ Append(s.ci, g)[n + 1] = g
          /\ \A i \in 1..n : Append(s.ci, g)[i] = s.ci[i]
      BY <2>3, <3>1, AppendProperties
    <3>3. /\ t \in State /\ t.ci = Append(s.ci, g) /\ t.stack = s.stack /\ t.cs = s.cs
             /\ SameCounts(s, t)
      BY <1>1, <3>2 DEF State, SameCounts
    <3> QED  BY <3>2, <3>3 DEF NewFrame
  <2> HIDE DEF t
  <2>5. /\ t \in State /\ t.stack = s.stack /\ t.cs = s.cs /\ t.tbclist = s.tbclist
           /\ t.status = "ok"
        /\ t.nc = s.nc /\ t.nny = s.nny
        /\ Len(t.ci) = r /\ t.ci[r] = g /\ \A i \in 1..n : t.ci[i] = s.ci[i]
    BY <2>4 DEF NewFrame, SameCounts
  <2> HIDE DEF r, k
  <2>6. CallTop(t, n) = func
    <3>1. n < r
      BY <1>1
    <3> QED  BY <1>1, <2>3, <2>5, <3>1 DEF CallTop
  <2>7. FrameOk(s, n) /\ t.ci[n] = s.ci[n]
    BY <1>1, <2>5 DEF Skeleton, Frames
  <2>8. FrameOk(t, n)
    <3> DEFINE f == s.ci[n]
    <3>1. FrameOk(s, n) /\ t.ci[n] = f /\ CallTop(t, n) = func
      BY <2>6, <2>7
    <3>2. /\ f.ypcall => f.u2 <= func
          /\ f.pc = "close" => f.level <= func
          /\ f.pc = "top" => f.level <= func
          /\ Returning(f) => f.func + f.u2 < func
      BY DEF Calling
    <3>3. f = s.ci[n]
      OBVIOUS
    <3> HIDE DEF f
    <3> QED  BY <3>1, <3>2, <3>3 DEF FrameOk
  <2>9. OnFrame(s, s.cs[m], n)
    BY <1>1 DEF Skeleton, Depths
  <2>10. CallerOk(t, n)
    <3>1. g.kind = "Lau" /\ ~g.fresh => s.ci[n].kind = "Lau"
      BY <2>3, <2>9 DEF OnFrame
    <3>2. ResultOf(t, n)
      BY <2>5, <2>6, <2>7 DEF ResultOf, Calling
    <3>3. /\ Returning(s.ci[n]) => g.want = 0
          /\ TakesResult(s.ci[n]) => g.want = 1
          /\ s.ci[n].recst # "ok" => g.want = 0
          /\ s.ci[n].ypcall /\ s.ci[n].recst = "ok" => g.func = s.ci[n].u2
      BY <2>3 DEF Calling
    <3>4. s.ci[n].pc \in {"close", "return"} => g.kind = "C" \/ g.fresh
      BY <2>3
    <3> QED  BY <1>1, <2>3, <2>5, <2>7, <3>1, <3>2, <3>3, <3>4 DEF CallerOk
  <2>11. \A j \in 1..Len(s.cs) : d[j] = n => OnFrame(t, s.cs[j], n)
    <3> SUFFICES ASSUME NEW j \in 1..m, d[j] = n PROVE OnFrame(t, s.cs[j], n)
      OBVIOUS
    <3>1. OnFrame(s, s.cs[j], n)
      BY <1>1 DEF Skeleton, Depths
    <3>2. Try(s.cs[j], Protected) \/ s.cs[j].t = "close" => s.cs[j].level <= func
      OBVIOUS
    <3> QED  BY <2>6, <2>7, <3>1, <3>2 DEF OnFrame, CloseOk, Try
  <2>12. Base(t, d)
    <3>1. n > 1 => MayBeSkipped(s.ci[n]) \/ \E j \in 1..Len(s.cs) : s.cs[j].t = "cfn" /\ d[j] = n
      OBVIOUS
    <3>2. s.ci[n].func < g.func /\ g.func <= Len(s.stack)
            /\ \A a \in 1..Len(s.tbclist) : s.tbclist[a] < g.func
      BY <2>3 DEF Calling
    <3>3. CalledUnder(s, d, n, g)
      BY <2>3 DEF CalledUnder
    <3> QED  BY <2>1, <2>3, <2>4, <2>8, <2>10, <2>11, <3>1, <3>2, <3>3, PushFrame
  <2>13. Counts(t)
    BY <2>5 DEF Counts
  <2>14. ResultOf(t, r)
    BY <2>3, <2>5 DEF ResultOf
  <2>15. ASSUME NEW e \in CFunction, (e.t = "cfn" /\ kind = "C")
                \/ (e.t = "exec" /\ kind = "Lau" /\ fresh = TRUE)
         PROVE  CInv(PushC(t, e))
    <3> DEFINE x == PushC(t, e)
               c == [d EXCEPT ![k] = r]
    <3>1. Pushed(t, x, e)
      BY <2>5, PushCIs
    <3> HIDE DEF x
    <3>2. /\ x \in State /\ x.ci = t.ci /\ x.stack = t.stack /\ SameCounts(t, x) /\ Len(x.cs) = k
          /\ x.cs[k] = e /\ \A j \in 1..m : x.cs[j] = s.cs[j]
      BY <1>1, <2>5, <3>1 DEF Pushed
    <3>3. c \in [Nat -> Nat] /\ c[k] = r /\ c[m] = n
      <4> QED  BY <1>1, Changed
    <3>4. Skeleton(x, c)
      <4>1. EntryOk(x.cs, k)
        <5>1. k # 1
          BY <1>1, Zenon
        <5> QED  BY <2>15, <3>2, <5>1 DEF EntryOk, Try
      <4>2. OnFrame(t, e, r)
        <5>1. r > 1
          BY <1>1
        <5> QED  BY <2>3, <2>5, <2>15, <5>1 DEF OnFrame, Try
      <4>3. CallsNext(t.cs[m], e)
        BY <2>5, <2>15 DEF CallsNext
      <4>4. Deeper(x, c, m)
        <5>1. x.cs[m] = s.cs[m] /\ x.cs[m + 1] = e /\ c[m + 1] = n + 1 /\ c[m] = n
          BY <1>1, <3>2, <3>3
        <5>2. n < n + 1
          OBVIOUS
        <5>3. \A i \in (n + 2)..(n + 1) : FALSE
          OBVIOUS
        <5>4. x.ci[n + 1] = g
          BY <1>1, <2>5, <3>2
        <5>7. Beneath(x, s.cs[m], e, n)
          <6>1. x.ci[n] = s.ci[n]
            BY <1>1, <2>5, <3>2
          <6>2. \A i \in (n + 1)..Len(x.ci) : ~x.ci[i].ypcall
            <7>1. Len(x.ci) = n + 1 /\ \A i \in (n + 1)..(n + 1) : i = n + 1
              BY <1>1, <2>5, <3>2
            <7> QED  BY <2>3, <5>4, <7>1 DEF FreshlyCalled
          <6>3. s.cs[m].t = "exec" => x.ci[n].pc \notin {"close", "return"}
            BY <6>1
          <6>4. s.cs[m].t \in {"exec", "ccall"}
            OBVIOUS
          <6> QED  BY <6>2, <6>3, <6>4 DEF Beneath, Try
        <5>5. CASE e.t = "cfn"
          BY <5>1, <5>2, <5>5, <5>7 DEF Deeper, Closing
        <5>6. CASE e.t = "exec" /\ fresh = TRUE
          <6>1. s.cs[m].t = "ccall"
            BY <5>6
          <6> QED  BY <2>3, <5>1, <5>2, <5>3, <5>4, <5>6, <5>7, <6>1 DEF Deeper
        <5> QED  BY <2>15, <5>5, <5>6
      <4>5. /\ m = Len(t.cs) /\ r \in 1..Len(t.ci) /\ d[m] <= r /\ e.t # "try"
        <5>1. m = Len(t.cs) /\ e.t # "try"
          BY <2>5, <2>15
        <5>2. d[m] <= r
          BY <1>1
        <5>3. r \in 1..Len(t.ci)
          BY <1>1, <2>5
        <5> QED  BY <5>1, <5>2, <5>3
      <4>6. Skeleton(t, d)
        BY <2>12 DEF Base
      <4> QED  BY <1>1, <2>5, <3>1, <4>1, <4>2, <4>3, <4>4, <4>5, <4>6, PushEntry
    <3>5. Variables(x)
      BY <2>5, <2>12, <3>1, VariablesPush DEF Base
    <3>6. Top(x, c)
      <4>1. Counts(x)
        BY <2>5, <2>13, <2>15, <3>1, CountsPush
      <4>2. ResultOf(x, r)
        BY <2>3, <2>5, <3>2 DEF ResultOf
      <4>3. x.nc < MaxCcalls /\ x.nny <= x.nc /\ Len(x.ci) = r /\ x.ci[r] = g /\ x.status = "ok"
              /\ k > 0
        <5>1. x.nc = t.nc /\ x.nny = t.nny /\ x.status = t.status /\ x.ci = t.ci
          BY <3>2 DEF SameCounts
        <5>2. x.nc < MaxCcalls /\ x.nny <= x.nc
          BY <2>5, <5>1
        <5> QED  BY <1>1, <2>5, <5>1, <5>2
      <4> QED  BY <2>3, <2>15, <3>2, <3>3, <4>1, <4>2, <4>3 DEF Top, Try
    <3> QED  BY <3>3, <3>4, <3>5, <3>6 DEF CInv, Base, x
  <2>16. CASE kind = "C"
    <3> DEFINE e == [t |-> "cfn"]
    <3>1. e \in CFunction /\ e.t = "cfn"
      BY DEF CFunction, PlainC
    <3>2. precall(s, func, want, kind, fresh) = PushC(t, e)
      BY <1>2, <1>5, <2>16
    <3> HIDE DEF e
    <3>3. CInv(PushC(t, e))
      BY <2>15, <2>16, <3>1
    <3> QED  BY <3>2, <3>3
  <2>17. CASE kind = "Lau" /\ fresh
    <3>1. [t |-> "exec"] \in CFunction /\ [t |-> "exec"].t = "exec"
      BY DEF CFunction, PlainC
    <3>2. CInv(PushC(t, [t |-> "exec"]))
      BY <2>15, <2>17, <3>1
    <3> QED  BY <1>2, <1>5, <2>17, <3>2
  <2>18. CASE kind = "Lau" /\ ~fresh
    <3> DEFINE c == [d EXCEPT ![m] = r]
    <3>1. Skeleton(t, c)
      <4>1. Skeleton(t, d)
        BY <2>12 DEF Base
      <4>2. r > 1 /\ d[m] = r - 1 /\ m = Len(t.cs) /\ r = Len(t.ci) /\ t.cs[m].t = "exec"
        BY <1>1, <2>5, <2>18
      <4>3. t.ci[r].kind = "Lau" /\ ~t.ci[r].fresh
        BY <2>3, <2>5, <2>18
      <4> QED  BY <1>1, <4>1, <4>2, <4>3, ExecUp
    <3>2. Variables(t)
      BY <2>12 DEF Base
    <3>3. c \in [Nat -> Nat] /\ c[m] = r
      BY <1>1, Changed
    <3>4. Top(t, c)
      <4>1. s.cs[m].t = "exec"
        BY <2>18
      <4> QED  BY <2>3, <2>5, <2>13, <2>14, <3>3, <4>1 DEF Top, Try
    <3>5. CInv(t)
      BY <3>1, <3>2, <3>3, <3>4 DEF CInv, Base
    <3> QED  BY <1>2, <1>5, <2>18, <3>5
  <2> QED  BY <2>16, <2>17, <2>18
<1> QED  BY <1>4, <1>5

-----------------------------------------------------------------------------
(* ccall counts a call and goes on under it. *)
CallCounted(s, t, c, m, n, func, want, e) ==
  /\ Base(t, c) /\ c \in [Nat -> Nat] /\ c[m + 1] = n
  /\ t \in State /\ t.ci = s.ci /\ t.stack = s.stack /\ t.tbclist = s.tbclist /\ t.status = "ok"
  /\ Len(t.cs) = m + 1 /\ t.cs[m + 1] = e /\ \A j \in 1..m : t.cs[j] = s.cs[j]
  /\ t.nc # MaxCcalls => MayCall(t, c, m + 1, n, func, want)

(* The function in control may still call. *)
LEMMA CountsCall ==
  ASSUME NEW s, NEW d, NEW m, NEW n, NEW func, NEW want, MayCall(s, d, m, n, func, want),
         NEW inc \in {0, 1}, NEW y \in {0, 1}, y <= inc,
         NEW e, e = [t |-> "ccall", inc |-> inc, y |-> y], CallsNext(s.cs[m], e),
         s.cs[m].t = "exec" => TakesResult(s.ci[n]),
         s.cs[m].t = "cfn" => (y = 1 \/ s.ci[n].k) /\ s.ci[n].pc # "top"
  PROVE  \E c : CallCounted(s, PushC([s EXCEPT !.nc = @ + inc, !.nny = @ + y], e), c, m, n, func,
                            want, e)
<1> DEFINE b == [s EXCEPT !.nc = @ + inc, !.nny = @ + y]
           t == PushC(b, e)
           k == m + 1
           c == [d EXCEPT ![k] = n]
<1> USE DEF MayCall
<1>1. /\ s \in State /\ Skeleton(s, d) /\ d \in [Nat -> Nat] /\ s.nc \in Nat /\ s.nny \in Nat
         /\ n > 0
      /\ k \in Nat /\ k > 0 /\ k # 1 /\ m # k /\ m \in 1..m /\ m \in 1..k /\ k \in 1..k /\ k = m + 1
         /\ k - 1 = m
      /\ \A j \in 1..k : j \in 1..m \/ j = k
      /\ \A j \in 1..m : j \in Nat /\ j # k /\ j \in 1..k
      /\ n \in 1..n
  <2>1. Skeleton(s, d) /\ d \in [Nat -> Nat] /\ s \in State
    BY DEF Base, Skeleton
  <2>2. n > 0 /\ s.nc \in Nat /\ s.nny \in Nat
    BY <2>1, Bases, StateType
  <2>3. m > 0 /\ m \in Nat /\ k \in Nat /\ n \in Nat
    OBVIOUS
  <2>4. k = m + 1
    OBVIOUS
  <2> HIDE DEF k, MayCall
  <2>5. /\ k > 0 /\ k # 1 /\ m # k /\ m \in 1..m /\ m \in 1..k /\ k \in 1..k /\ k = m + 1
           /\ k - 1 = m
        /\ \A j \in 1..k : j \in 1..m \/ j = k
        /\ \A j \in 1..m : j \in Nat /\ j # k /\ j \in 1..k
    BY <2>3, <2>4, Successor, Zenon
  <2>6. n \in 1..n
    <3>1. \A q \in Nat : q > 0 => q \in 1..q
      OBVIOUS
    <3> QED  BY <2>2, <2>3, <3>1, Zenon
  <2> QED  BY <2>1, <2>2, <2>3, <2>5, <2>6, Zenon
<1>3. e \in CFunction /\ e.t = "ccall" /\ e.inc = inc /\ e.y = y
  BY DEF CFunction, CallC
<1>4. /\ b \in State /\ b.ci = s.ci /\ b.cs = s.cs /\ b.status = "ok" /\ b.tbclist = s.tbclist
         /\ b.stack = s.stack
      /\ b.nc = s.nc + inc /\ b.nny = s.nny + y
  <2>1. s.nc + inc \in Nat /\ s.nny + y \in Nat
    <3>1. \A p \in Nat : p + inc \in Nat /\ p + y \in Nat
      OBVIOUS
    <3> QED  BY <1>1, <3>1, Zenon
  <2>2. b = [s EXCEPT !.nc = s.nc + inc, !.nny = s.nny + y]
    BY <1>1 DEF State
  <2> DEFINE p == s.nc + inc
             q == s.nny + y
  <2> HIDE DEF b, p, q
  <2>3. b = [s EXCEPT !.nc = p, !.nny = q] /\ p \in Nat /\ q \in Nat
    BY <2>1, <2>2 DEF p, q
  <2>4. b \in State /\ b.ci = s.ci /\ b.cs = s.cs /\ b.status = s.status /\ b.tbclist = s.tbclist
          /\ b.stack = s.stack
        /\ b.nc = p /\ b.nny = q
    BY <1>1, <2>3 DEF State
  <2> QED  BY <2>4 DEF p, q
<1> HIDE DEF b
<1>5. Pushed(b, t, e)
  BY <1>3, <1>4, PushCIs
<1> HIDE DEF t, k
<1>6. /\ t \in State /\ t.ci = s.ci /\ t.stack = s.stack /\ t.tbclist = s.tbclist /\ t.status = "ok"
      /\ t.nc = s.nc + inc /\ t.nny = s.nny + y /\ Len(t.cs) = k /\ t.cs[k] = e
         /\ \A j \in 1..m : t.cs[j] = s.cs[j]
  BY <1>1, <1>4, <1>5 DEF Pushed, SameCounts
<1>7. Base(b, d)
  <2>1. Len(b.stack) >= Len(s.stack) /\ \A p \in 1..Len(s.stack) : b.stack[p] = s.stack[p]
    BY <1>1, <1>4, StateType
  <2>2. b.status = s.status
    BY <1>4
  <2> QED  BY <1>4, <2>1, <2>2, Grow
<1>8. c \in [Nat -> Nat] /\ c[k] = n /\ c[m] = n /\ \A j \in 1..m : c[j] = d[j]
  BY <1>1, Changed
<1>9. Skeleton(t, c)
  <2>1. EntryOk(t.cs, k)
    BY <1>1, <1>3, <1>6 DEF EntryOk, Try
  <2>2. OnFrame(b, e, n)
    BY <1>3 DEF OnFrame, Try
  <2>3. CallsNext(b.cs[m], e)
    BY <1>4
  <2>4. Deeper(t, c, m)
    <3>1. t.cs[m] = s.cs[m] /\ t.cs[m + 1] = e /\ c[m + 1] = n /\ c[m] = n /\ t.ci[n] = s.ci[n]
      BY <1>1, <1>6, <1>8
    <3>2. s.cs[m].t \notin {"ccall", "unroll"}
      BY <1>3, <1>4, <2>3 DEF CallsNext, Closing, Try
    <3>3. Beneath(t, s.cs[m], e, n)
      <4>1. n \in Nat /\ n = Len(t.ci)
        BY <1>6
      <4> QED  BY <1>3, <3>1, <4>1, BeneathLast DEF Closing
    <3> QED  BY <1>3, <3>1, <3>2, <3>3 DEF Deeper, Closing
  <2>5. n \in 1..Len(b.ci)
    <3>1. n = Len(b.ci)
      BY <1>4
    <3> QED  BY <1>1, <3>1
  <2>6. Skeleton(b, d) /\ b.status = "ok" /\ m = Len(b.cs) /\ e.t # "try"
    BY <1>3, <1>4, <1>7 DEF Base
  <2>7. d[m] <= n
    OBVIOUS
  <2> QED  BY <1>1, <1>3, <1>5, <2>1, <2>2, <2>3, <2>4, <2>5, <2>6, <2>7, PushEntry
<1>10. Variables(t)
  BY <1>4, <1>5, <1>7, VariablesPush DEF Base
<1>11. Base(t, c)
  BY <1>9, <1>10 DEF Base
<1> HIDE DEF c
<1>12. ASSUME t.nc # MaxCcalls  PROVE MayCall(t, c, k, n, func, want)
  <2>1. t.nc < MaxCcalls /\ t.nny <= t.nc
    <3>1. \A p, q, M \in Nat : p < M /\ q <= p /\ p + inc # M => p + inc < M /\ q + y <= p + inc
      OBVIOUS
    <3>2. MaxCcalls \in Nat /\ s.nc \in Nat /\ s.nny \in Nat /\ s.nc < MaxCcalls /\ s.nny <= s.nc
            /\ s.nc + inc # MaxCcalls
      BY <1>1, <1>6, <1>12, Bounds
    <3>3. s.nc + inc < MaxCcalls /\ s.nny + y <= s.nc + inc
      BY <3>1, <3>2, Zenon
    <3> QED  BY <1>6, <3>3
  <2>2. Counts(t)
    <3>1. s.nc = CcallsAt(s.cs, m) /\ s.nny = NonYieldableAt(s.cs, m)
      BY DEF Counts
    <3>2. CcallsAt(t.cs, m) = CcallsAt(s.cs, m) /\ NonYieldableAt(t.cs, m) = NonYieldableAt(s.cs, m)
      <4>1. \A j \in 1..m : t.cs[j] = s.cs[j]
        BY ONLY <1>6
      <4>2. m \in Nat
        BY DEF MayCall
      <4> QED  BY ONLY <4>1, <4>2, SameCount
    <3>3. t.cs \in Seq(CFunction) /\ k \in 1..Len(t.cs)
      BY <1>1, <1>6, StateType
    <3>4. CcallsAt(t.cs, k) = CcallsAt(t.cs, k - 1) + inc
            /\ NonYieldableAt(t.cs, k) = NonYieldableAt(t.cs, k - 1) + y
      <4>1. t.cs[k].t = "ccall" /\ t.cs[k].inc = inc /\ t.cs[k].y = y
        BY <1>3, <1>6
      <4> QED  BY ONLY <3>3, <4>1, CountStep
    <3>5. CcallsAt(t.cs, k) = s.nc + inc /\ NonYieldableAt(t.cs, k) = s.nny + y
      BY <1>1, <3>1, <3>2, <3>4
    <3> QED  BY <1>6, <3>5 DEF Counts
  <2>3. Calling(t, n, func, want)
    BY <1>6 DEF Calling
  <2>4. \A j \in 1..k : c[j] = n /\ (Try(t.cs[j], Protected) \/ t.cs[j].t = "close")
          => t.cs[j].level <= func
    <3> SUFFICES ASSUME NEW j \in 1..k, c[j] = n, Try(t.cs[j], Protected)
                        \/ t.cs[j].t = "close" PROVE t.cs[j].level <= func
      OBVIOUS
    <3>1. j # k
      BY <1>3, <1>6 DEF Try
    <3>2. j \in 1..m
      BY <1>1, <3>1
    <3> QED  BY <1>6, <1>8, <3>2
  <2>10. \A j \in 1..k : c[j] = n => /\ (Try(t.cs[j], {"pcall"}) => func = t.cs[j].level)
                                  /\ (Try(t.cs[j], {"closep"}) => want = 0)
    <3> SUFFICES ASSUME NEW j \in 1..k, c[j] = n, t.cs[j].t = "try"
                 PROVE  /\ (Try(t.cs[j], {"pcall"}) => func = t.cs[j].level)
                        /\ (Try(t.cs[j], {"closep"}) => want = 0)
      BY DEF Try
    <3>1. j # k
      BY <1>3, <1>6
    <3>2. j \in 1..m
      BY <1>1, <3>1
    <3> QED  BY <1>6, <1>8, <3>2
  <2>5. n > 1 => MayBeSkipped(t.ci[n]) \/ \E j \in 1..k : t.cs[j].t = "cfn" /\ c[j] = n
    <3> SUFFICES ASSUME n > 1, ~MayBeSkipped(s.ci[n]) PROVE \E j \in 1..k : t.cs[j].t = "cfn"
                        /\ c[j] = n
      BY <1>6
    <3>1. PICK j \in 1..m : s.cs[j].t = "cfn" /\ d[j] = n
      OBVIOUS
    <3>2. j \in 1..k
      BY <1>1, <3>1
    <3> QED  BY <1>6, <1>8, <3>1, <3>2
  <2>6. /\ k = Len(t.cs) /\ n = Len(t.ci) /\ c[k] = n /\ t.cs[k].t = "ccall"
        /\ func <= Len(t.stack) /\ \A a \in 1..Len(t.tbclist) : t.tbclist[a] < func
    BY <1>3, <1>6, <1>8
  <2>8. k \in Nat /\ k > 0 /\ t.status = "ok"
    BY <1>1, <1>6
  <2> QED  BY <1>11, <2>1, <2>2, <2>3, <2>4, <2>5, <2>6, <2>8, <2>10
<1> HIDE DEF MayCall
<1>13. CallCounted(s, t, c, m, n, func, want, e)
  <2>1. k = m + 1
    BY <1>1
  <2> QED  BY <1>6, <1>8, <1>11, <1>12, <2>1 DEF CallCounted
<1> QED  BY <1>13 DEF t, b

(* ccall, by the function in control of the running frame. *)
LEMMA Ccall ==
  ASSUME NEW s, NEW d, NEW m, NEW n, NEW func, NEW want, MayCall(s, d, m, n, func, want),
         NEW kind \in {"Lau", "C"}, NEW inc \in {0, 1}, NEW y \in {0, 1}, y <= inc,
         CallsNext(s.cs[m], [t |-> "ccall", inc |-> inc, y |-> y]),
         s.cs[m].t = "exec" => TakesResult(s.ci[n]),
         s.cs[m].t = "cfn" => (y = 1 \/ s.ci[n].k) /\ s.ci[n].pc # "top"
  PROVE  CInv(ccall(s, func, want, inc, y, kind))
<1> DEFINE e == [t |-> "ccall", inc |-> inc, y |-> y]
           t == PushC([s EXCEPT !.nc = @ + inc, !.nny = @ + y], e)
           k == m + 1
           fresh == (kind = "Lau")
<1>1. ccall(s, func, want, inc, y, kind)
        = IF t.nc = MaxCcalls THEN runerror(t, message) ELSE precall(t, func, want, kind, fresh)
  BY DEF ccall
<1>2. e = [t |-> "ccall", inc |-> inc, y |-> y] /\ e.t = "ccall" /\ CallsNext(s.cs[m], e)
  OBVIOUS
<1> HIDE DEF e
<1>3. \E c : CallCounted(s, t, c, m, n, func, want, e)
  BY <1>2, CountsCall
<1> HIDE DEF t
<1>4. PICK c : CallCounted(s, t, c, m, n, func, want, e)
  BY <1>3
<1>5. /\ Base(t, c) /\ t.status = "ok" /\ Len(t.cs) = k /\ t.cs[k] = e
      /\ t.nc # MaxCcalls => MayCall(t, c, k, n, func, want)
      /\ k > 0 /\ fresh \in BOOLEAN
  <2>1. k > 0
    BY DEF MayCall
  <2> QED  BY <1>4, <2>1 DEF CallCounted
<1> HIDE DEF k
<1>6. CASE t.nc = MaxCcalls
  <2>1. message \in Error
    BY Bounds
  <2>2. t.cs[Len(t.cs)].t # "reset" /\ Len(t.cs) > 0
    BY <1>2, <1>5
  <2>3. CInv(runerror(t, message))
    BY <1>5, <2>1, <2>2, Runerror
  <2> QED  BY <1>1, <1>6, <2>3
<1>7. CASE t.nc # MaxCcalls
  <2>1. MayCall(t, c, k, n, func, want) /\ t.cs[k].t = "ccall" /\ (fresh <=> kind = "Lau")
    BY <1>2, <1>5, <1>7
  <2> HIDE DEF fresh
  <2>2. CInv(precall(t, func, want, kind, fresh))
    BY <1>5, <2>1, Precall
  <2> QED  BY <1>1, <1>7, <2>2 DEF fresh
<1> QED  BY <1>6, <1>7

-----------------------------------------------------------------------------
(* Returns *)

(* The function in control leaves the C stack. *)
LEMMA PopEntry ==
  ASSUME NEW s, NEW d, Base(s, d), NEW t, Popped(s, t), NEW m \in Nat, m = Len(s.cs),
         s.cs[m].t = "cfn" => d[m] = Len(s.ci),
         Try(s.cs[m], {"closep"}) => ~TbcFrom(s, s.cs[m].level)
  PROVE  Base(t, d)
<1> DEFINE n == Len(s.ci)
           k == Len(t.cs)
<1>1. /\ Skeleton(s, d) /\ s \in State /\ n \in Nat /\ n > 0 /\ Variables(s) /\ k \in Nat
      /\ n \in 1..n /\ k = m - 1 /\ k + 1 = m /\ k < m /\ m > 0
      /\ \A j \in 1..k : j \in 1..m
  <2>1. Skeleton(s, d) /\ Variables(s) /\ s \in State /\ n \in Nat /\ n > 0
    BY BaseType DEF Base
  <2>2. k = m - 1 /\ m > 0
    BY DEF Popped
  <2> HIDE DEF n, k
  <2> QED  BY <2>1, <2>2
<1>2. /\ t \in State /\ t.ci = s.ci /\ t.stack = s.stack /\ t.tbclist = s.tbclist
         /\ t.status = s.status
      /\ \A j \in 1..k : t.cs[j] = s.cs[j]
  BY DEF Popped, SameCounts
<1>3. n = Len(s.ci) /\ n = Len(t.ci) /\ k = Len(t.cs)
  BY <1>2
<1> HIDE DEF n, k
<1>4. CutTo(s, d, t, n, k)
  <2>1. n \in 1..Len(s.ci) /\ k \in 0..Len(s.cs)
    BY <1>1, <1>3
  <2>2. \A j \in 1..k : d[j] <= n
    <3>1. \A j \in 1..m : d[j] \in 1..n
      BY <1>1, <1>3 DEF Skeleton, Depths
    <3> QED  BY <1>1, <3>1
  <2>3. Len(t.stack) + 1 >= CallTop(s, n)
    BY <1>1, <1>2, <1>3, StateType DEF CallTop
  <2>4. k > 0 => t.status = "ok"
    BY <1>1, <1>2 DEF Skeleton
  <2>5. \A j \in (k + 1)..Len(s.cs) : s.cs[j].t = "cfn" => d[j] >= n
    <3> SUFFICES ASSUME NEW j \in (k + 1)..Len(s.cs), s.cs[j].t = "cfn" PROVE d[j] >= n
      OBVIOUS
    <3>1. j = m
      BY <1>1
    <3>2. d[m] = n
      BY <1>3, <3>1
    <3> QED  BY <1>1, <3>1, <3>2
  <2> QED  BY <1>2, <1>3, <2>1, <2>2, <2>3, <2>4, <2>5 DEF CutTo
<1>5. Skeleton(t, d)
  BY <1>1, <1>2, <1>4, SkeletonCut
<1>6. Variables(t)
  <2>1. \A i : CallTop(t, i) = CallTop(s, i)
    BY <1>2 DEF CallTop
  <2>2. ASSUME NEW a \in 1..Len(s.tbclist)
        PROVE  VariableOk(t, s.tbclist[a])
    <3> DEFINE p == s.tbclist[a]
    <3>1. VariableOk(s, p) /\ p \in Nat
      BY <1>1, StateType DEF Variables
    <3>2. ~(Try(s.cs[m], {"closep"}) /\ p >= s.cs[m].level)
      BY DEF TbcFrom
    <3> HIDE DEF p
    <3>3. ASSUME NEW i, Accounted(s, p, i)
          PROVE  Accounted(t, p, i)
      <4>1. ASSUME NEW j \in 1..m, Try(s.cs[j], {"closep"}), s.cs[j].ci = i, p >= s.cs[j].level
            PROVE  j \in 1..k /\ t.cs[j] = s.cs[j]
        <5>1. j # m
          BY <3>2, <4>1
        <5> QED  BY <1>1, <1>2, <5>1
      <4> QED  BY <1>2, <1>3, <3>3, <4>1 DEF Accounted
    <3>4. \A i : Accounted(s, p, i) => Accounted(t, p, i)
      BY <3>3
    <3>5. VariableOk(t, p)
      BY <1>2, <2>1, <3>1, <3>4 DEF VariableOk
    <3> QED  BY <3>5 DEF p
  <2> QED  BY <1>1, <1>2, <2>2 DEF Variables
<1> QED  BY <1>5, <1>6 DEF Base

(* The C functions that are left all belong to frames below the running one,
   which goes away with nres results. *)
MayReturn(s, d, m, n, nres) ==
  /\ Base(s, d) /\ s.status = "ok"
  /\ m \in Nat /\ m = Len(s.cs) /\ m > 0 /\ n \in Nat /\ n = Len(s.ci) /\ n > 1
  /\ \A j \in 1..m : d[j] < n
  /\ s.cs[m].t \in {"ccall", "exec", "unroll"}
  /\ s.cs[m].t # "unroll" => d[m] = n - 1
  /\ s.nc < MaxCcalls /\ s.nny <= s.nc /\ Counts(s)
  /\ nres \in {0, 1} /\ s.ci[n].func + nres <= Len(s.stack)

(* The stack when the frame is gone, before its results v are in place. *)
Returned(s, t, v, n, nres) ==
  LET frame == s.ci[n]  back == PushStack(t, v) IN
  /\ moveresults(s, nres) = IF Control(back) = "exec" THEN At(back, "run") ELSE back
  /\ frame.want \in {0, 1} => Len(v) = frame.want
  /\ t \in State /\ Len(t.ci) = n - 1 /\ \A i \in 1..(n - 1) : t.ci[i] = s.ci[i]
  /\ Len(t.stack) = frame.func - 1 /\ \A p \in 1..(frame.func - 1) : t.stack[p] = s.stack[p]
  /\ t.cs = s.cs /\ SameCounts(s, t)

(* moveresults as a cut of the frame and a push of its results. *)
LEMMA ResultsIn ==
  ASSUME NEW s \in State, NEW n \in Nat, n = Len(s.ci), n > 1, NEW nres \in {0, 1},
         s.ci[n].func + nres <= Len(s.stack), s.ci[n].func > 0
  PROVE  \E t : \E v \in Seq(StackValue) : Returned(s, t, v, n, nres)
<1> DEFINE frame == s.ci[n]
           first == Len(s.stack) - nres
           wanted == IF frame.want = MULTRET THEN nres ELSE frame.want
           v == [i \in 1..wanted |-> IF i <= nres THEN s.stack[first + i] ELSE "nil"]
           t == [s EXCEPT !.ci = Front(@), !.stack = SubSeq(@, 1, frame.func - 1)]
<1>1. n > 0 /\ n \in 1..n /\ frame \in CallInfo
  <2>1. n > 0 /\ n \in 1..n
    OBVIOUS
  <2> QED  BY <2>1, StateType
<1>2. Last(s.ci) = frame /\ Front(s.ci) \in Seq(CallInfo) /\ Len(Front(s.ci)) = n - 1
      /\ \A i \in 1..(n - 1) : Front(s.ci)[i] = s.ci[i]
  <2>1. s.ci \in Seq(CallInfo) /\ s.ci # <<>>
    BY StateType
  <2> QED  BY <2>1, FrontLast
<1>3. wanted \in {0, 1} /\ (frame.want \in {0, 1} => wanted = frame.want)
  BY <1>1, FrameType DEF MULTRET
<1>4. v \in Seq(StackValue) /\ Len(v) = wanted
  <2>1. ASSUME NEW i \in 1..wanted, i <= nres PROVE s.stack[first + i] \in StackValue
    <3>1. nres = 1 /\ i = 1
      BY <1>3, <2>1
    <3>2. first + i = Len(s.stack) /\ Len(s.stack) \in 1..Len(s.stack)
      BY <1>1, <3>1, FrameType, StateType
    <3> QED  BY <3>2, StateType
  <2>2. "nil" \in StackValue
    BY DEF StackValue
  <2> HIDE DEF first, wanted
  <2>3. v \in [1..wanted -> StackValue]
    BY <2>1, <2>2
  <2>4. wanted \in Nat
    BY <1>3
  <2> QED  BY <2>3, <2>4
<1>5. /\ SubSeq(s.stack, 1, frame.func - 1) \in Seq(StackValue)
      /\ Len(SubSeq(s.stack, 1, frame.func - 1)) = frame.func - 1
      /\ \A p \in 1..(frame.func - 1) : SubSeq(s.stack, 1, frame.func - 1)[p] = s.stack[p]
  <2>1. frame.func - 1 \in 0..Len(s.stack) /\ s.stack \in Seq(StackValue)
    BY <1>1, FrameType, StateType
  <2> QED  BY <2>1, Prefix
<1>6. /\ t \in State /\ t.ci = Front(s.ci) /\ t.stack = SubSeq(s.stack, 1, frame.func - 1)
      /\ t.cs = s.cs /\ SameCounts(s, t)
  BY <1>2, <1>5 DEF State, SameCounts
<1>7. moveresults(s, nres) = LET back == PushStack(t, v) IN
                               IF Control(back) = "exec" THEN At(back, "run") ELSE back
  <2>1. SetTop([s EXCEPT !.ci = Front(@)], frame.func) = t
    BY <1>2 DEF SetTop, State
  <2> QED  BY <1>2, <2>1 DEF moveresults
<1> HIDE DEF t, v, wanted, first
<1>8. Returned(s, t, v, n, nres)
  BY <1>2, <1>3, <1>4, <1>5, <1>6, <1>7 DEF Returned
<1> QED  BY <1>4, <1>8

(* A number and the one before it. *)
LEMMA LessOne ==
  ASSUME NEW q \in Nat, q > 1, NEW p, p = q - 1
  PROVE  /\ p \in Nat /\ p > 0 /\ p < q /\ p <= q /\ p + 1 = q /\ q > 0
         /\ q \in 1..q /\ p \in 1..q /\ p \in 1..p /\ p \in 1..(q - 1)
         /\ \A j \in Nat : j < q => j <= p
         /\ \A j \in 1..p : j \in 1..q /\ j < q
OBVIOUS

(* Another CallInfo for the frame that runs. *)
LEMMA SetFrame ==
  ASSUME NEW s, NEW d, Base(s, d), NEW m \in Nat, m = Len(s.cs), m > 0,
         s.cs[m].t \in {"exec", "cfn"},
         NEW n \in Nat, n = Len(s.ci), d[m] = n, NEW f \in CallInfo, NEW t, Framed(s, t, f),
         f.func = s.ci[n].func, f.kind = s.ci[n].kind, f.want = s.ci[n].want,
         f.fresh = s.ci[n].fresh,
         s.ci[n].tbc => f.tbc,
         FrameOk(t, n), f.ypcall => AllYieldable(s) /\ \A i \in 2..(n - 1) : MayBeSkipped(s.ci[i]),
         OnFrame(t, s.cs[m], n)
  PROVE  Base(t, d)
<1>1. Skeleton(s, d) /\ s \in State /\ n > 0 /\ s.ci[n].func <= Len(s.stack) /\ s.ci[n] \in CallInfo
  <2>1. Skeleton(s, d) /\ s \in State /\ n > 0
    BY BaseType DEF Base
  <2>2. n \in 1..n
    BY <2>1
  <2> QED  BY <2>1, <2>2, Bases
<1>2. /\ t \in State /\ t.stack = s.stack /\ t.cs = s.cs /\ t.tbclist = s.tbclist
         /\ t.status = s.status
      /\ Len(t.ci) = n /\ t.ci[n] = f /\ \A i \in 1..(n - 1) : t.ci[i] = s.ci[i]
  BY DEF Framed, SameCounts
<1>3. \A j \in 1..m : d[j] = n => j = m
  BY <1>1, OnTop
<1>4. OnFrame(s, s.cs[m], n) /\ m \in 1..m
  <2>1. m \in 1..m
    OBVIOUS
  <2> QED  BY <1>1, <2>1 DEF Skeleton, Depths
<1>5. n # 1
  <2>1. CASE s.cs[m].t = "cfn"
    BY <1>4, <2>1 DEF OnFrame
  <2>2. CASE s.cs[m].t = "exec"
    <3>1. s.ci[n].kind = "Lau"
      BY <1>4, <2>2 DEF OnFrame
    <3>2. s.ci[1] = BaseCI
      BY <1>1 DEF Skeleton, Frames
    <3> QED  BY <3>1, <3>2 DEF BaseCI, Frame
  <2> QED  BY <2>1, <2>2
<1>6. TopOnly(s, t)
  <2>1. /\ t.ci[n].func = s.ci[n].func /\ t.ci[n].kind = s.ci[n].kind
        /\ t.ci[n].want = s.ci[n].want /\ t.ci[n].fresh = s.ci[n].fresh
    BY <1>2
  <2>2. n = Len(s.ci)
    OBVIOUS
  <2> QED  BY <1>1, <1>2, <1>5, <2>1, <2>2, Zenon DEF TopOnly
<1>7. \A a \in 1..Len(s.tbclist) :
        /\ s.tbclist[a] <= Len(t.stack) /\ t.stack[s.tbclist[a]] = s.stack[s.tbclist[a]]
        /\ s.ci[n].kind = "C" /\ s.ci[n].func < s.tbclist[a] => Accounted(t, s.tbclist[a], n)
  <2> TAKE a \in 1..Len(s.tbclist)
  <2> DEFINE p == s.tbclist[a]
  <2>1. VariableOk(s, p) /\ p \in Nat
    BY <1>1, StateType DEF Base, Variables
  <2>2. p <= Len(s.stack)
    BY <2>1 DEF VariableOk
  <2> HIDE DEF p
  <2>3. p < CallTop(s, n)
    BY <1>1, <2>1, <2>2, Bases
  <2>4. n \in 1..Len(s.ci)
    BY <1>1
  <2>5. s.ci[n].kind = "C" /\ s.ci[n].func < p => Accounted(t, p, n)
    <3> SUFFICES ASSUME s.ci[n].kind = "C", s.ci[n].func < p PROVE f.tbc
      BY <1>2 DEF Accounted
    <3>1. Accounted(s, p, n)
      BY <2>1, <2>3, <2>4 DEF VariableOk
    <3>2. s.ci[n].recst = "ok" /\ s.cs[m].t = "cfn"
      BY <1>4 DEF OnFrame
    <3>3. \A j \in 1..Len(s.cs) : ~(Try(s.cs[j], {"closep"}) /\ s.cs[j].ci = n)
      <4> SUFFICES ASSUME NEW j \in 1..m, Try(s.cs[j], {"closep"}), s.cs[j].ci = n PROVE FALSE
        OBVIOUS
      <4>1. OnFrame(s, s.cs[j], d[j])
        BY <1>1 DEF Skeleton, Depths
      <4>2. d[j] = n
        BY <4>1 DEF OnFrame, Try, Protected
      <4> QED  BY <1>3, <3>2, <4>2 DEF Try
    <3> QED  BY <3>1, <3>2, <3>3 DEF Accounted
  <2> QED  BY <1>2, <2>2, <2>5 DEF p
<1>8. \A j \in 1..Len(s.cs) : d[j] = Len(s.ci) => OnFrame(t, s.cs[j], d[j])
        /\ (j = Len(s.cs) \/ t.ci[Len(s.ci)] = s.ci[Len(s.ci)])
  BY <1>3
<1>9. FrameOk(t, Len(s.ci))
        /\ (t.ci[Len(s.ci)].ypcall => s.ci[Len(s.ci)].ypcall \/ AllYieldable(s))
        /\ (t.ci[Len(s.ci)].ypcall => \A i \in 2..(Len(s.ci) - 1) : MayBeSkipped(s.ci[i]))
  BY <1>2
<1>10. Len(t.tbclist) <= Len(s.tbclist)
  BY <1>1, <1>2, StateType
<1>11. \A a \in 1..Len(t.tbclist) :
           /\ t.tbclist[a] = s.tbclist[a]
           /\ t.tbclist[a] <= Len(t.stack) /\ t.stack[t.tbclist[a]] = s.stack[t.tbclist[a]]
           /\ s.ci[Len(s.ci)].kind = "C" /\ s.ci[Len(s.ci)].func < t.tbclist[a]
                => Accounted(t, t.tbclist[a], Len(s.ci))
  BY <1>2, <1>7
<1> QED  BY <1>2, <1>6, <1>8, <1>9, <1>10, <1>11, Local

(* 'At' in a Lau function that is in control: it runs its next instruction. *)
LEMMA NextInstruction ==
  ASSUME NEW s, NEW d, Base(s, d), s.status = "ok", NEW m \in Nat, m = Len(s.cs), m > 0,
         s.cs[m].t = "exec",
         NEW n \in Nat, n = Len(s.ci), d[m] = n,
         s.nc < MaxCcalls, s.nny <= s.nc, Counts(s)
  PROVE  CInv(At(s, "run"))
<1> DEFINE f == [s.ci[n] EXCEPT !.pc = "run", !.level = 0]
           t == At(s, "run")
<1>1. Skeleton(s, d) /\ s \in State /\ n > 0 /\ n \in 1..n /\ s.ci[n] \in CallInfo
        /\ d \in [Nat -> Nat] /\ m \in 1..m
  <2>1. Skeleton(s, d) /\ s \in State /\ n > 0 /\ d \in [Nat -> Nat]
    BY BaseType DEF Base, Skeleton
  <2>2. n \in 1..n /\ m \in 1..m
    <3>1. \A x \in Nat : x > 0 => x \in 1..x
      OBVIOUS
    <3> QED  BY ONLY n \in Nat, m \in Nat, m > 0, <2>1, <3>1
  <2> QED  BY <2>1, <2>2, StateType
<1>2. s.ci[n].kind = "Lau" /\ FrameOk(s, n)
  <2>1. OnFrame(s, s.cs[m], n) /\ FrameOk(s, n)
    BY <1>1 DEF Skeleton, Depths, Frames
  <2> QED  BY <2>1 DEF OnFrame
<1>3. /\ f \in CallInfo /\ f.func = s.ci[n].func /\ f.kind = "Lau" /\ f.want = s.ci[n].want
         /\ f.fresh = s.ci[n].fresh
      /\ f.pc = "run" /\ ~f.ypcall /\ f.recst = "ok" /\ ~f.clsret /\ f.tbc = s.ci[n].tbc
  BY <1>1, <1>2 DEF CallInfo, FrameOk
<1>4. t = SetCI(s, f)
  <2>1. s.ci # <<>> /\ s.ci \in Seq(CallInfo)
    BY <1>1, StateType
  <2>2. Last(s.ci) = s.ci[n]
    BY <2>1, FrontLast
  <2> QED  BY <2>2 DEF At
<1> HIDE DEF t, f
<1>5. Framed(s, t, f)
  BY <1>1, <1>3, <1>4, SetCIIs
<1>6. /\ t \in State /\ t.cs = s.cs /\ t.status = s.status
      /\ t.nc = s.nc /\ t.nny = s.nny /\ n = Len(t.ci) /\ t.ci[n] = f
  BY <1>5 DEF Framed, SameCounts
<1>7. FrameOk(t, n)
  BY <1>3, <1>6 DEF FrameOk, Returning
<1>8. OnFrame(t, s.cs[m], n)
  BY <1>3, <1>6 DEF OnFrame, Try
<1>9. Base(t, d)
  BY <1>2, <1>3, <1>5, <1>7, <1>8, SetFrame
<1>10. Top(t, d)
  <2>1. Counts(t)
    BY <1>6 DEF Counts
  <2>2. ResultOf(t, n) /\ ~TakesResult(f)
    BY <1>3, <1>6 DEF ResultOf, Returning, TakesResult
  <2> QED  BY <1>6, <2>1, <2>2 DEF Top, Try
<1> QED  BY <1>1, <1>9, <1>10 DEF CInv, t

(* The frames below the one that unroll has come to do not shorten their stack. *)
LEMMA UnrollsTo ==
  ASSUME NEW s, NEW d, Skeleton(s, d), s.status = "ok", NEW m \in Nat, m = Len(s.cs), m > 0,
         s.cs[m].t = "unroll", NEW i \in 1..(Len(s.ci) - 1)
  PROVE  s.ci[i].pc # "top"
<1>1. m = 2 /\ s.cs[1].t = "try"
  <2>1. m \in 1..Len(s.cs) /\ 1 \in 1..Len(s.cs) /\ CFunctions(s.cs)
    <3>1. \A q \in Nat : q > 0 => q \in 1..q /\ 1 \in 1..q
      OBVIOUS
    <3>2. m \in 1..m /\ 1 \in 1..m
      BY ONLY m \in Nat, m > 0, <3>1
    <3>3. CFunctions(s.cs)
      BY DEF Skeleton
    <3> QED  BY <3>2, <3>3
  <2>2. EntryOk(s.cs, m) /\ EntryOk(s.cs, 1)
    BY <2>1 DEF CFunctions
  <2>3. m = 2
    BY <2>2 DEF EntryOk
  <2>4. CallsNext(s.cs[1], s.cs[2])
    BY <2>1, <2>3 DEF CFunctions
  <2>5. s.cs[1].t \in {"try", "reset"}
    BY <2>2 DEF EntryOk, Try
  <2> QED  BY <2>3, <2>4, <2>5 DEF CallsNext, Try, Closing
<1>2. Len(s.ci) \in Nat /\ s.ci[1] = BaseCI /\ i \in 1..Len(s.ci) /\ FrameOk(s, i)
  <2>1. Len(s.ci) \in Nat /\ Frames(s)
    BY SkeletonType DEF Skeleton
  <2>2. i \in 1..Len(s.ci)
    BY <2>1
  <2> QED  BY <2>1, <2>2 DEF Frames
<1>3. i = 1 \/ i \in 2..(Len(s.ci) - 1)
  BY <1>2
<1>4. CASE i = 1
  BY <1>2, <1>4 DEF BaseCI, Frame
<1>5. CASE i \in 2..(Len(s.ci) - 1)
  <2>1. MayBeSkipped(s.ci[i]) \/ \E j \in 1..Len(s.cs) : s.cs[j].t = "cfn" /\ d[j] = i
    BY <1>5 DEF Skeleton, Waiting, ErrorStatus
  <2>2. \A j \in 1..Len(s.cs) : s.cs[j].t # "cfn"
    BY <1>1
  <2>3. MayBeSkipped(s.ci[i])
    BY <2>1, <2>2
  <2> QED  BY <1>2, <2>3 DEF MayBeSkipped, FrameOk
<1> QED  BY <1>3, <1>4, <1>5

(* moveresults and the return to the previous frame keep the invariant. *)
LEMMA MoveResults ==
  ASSUME NEW s, NEW d, NEW m, NEW n, NEW nres, MayReturn(s, d, m, n, nres),
         ~TbcFrom(s, s.ci[n].func)
  PROVE  CInv(moveresults(s, nres))
<1> DEFINE frame == s.ci[n]
           r == n - 1
<1>1. \E t : \E v \in Seq(StackValue) : Returned(s, t, v, n, nres)
  <2>1. /\ s \in State /\ n \in Nat /\ n = Len(s.ci) /\ n > 1 /\ nres \in {0, 1}
        /\ s.ci[n].func + nres <= Len(s.stack) /\ Skeleton(s, d)
    BY DEF MayReturn, Base, Skeleton
  <2>2. s.ci[n].func > 0
    <3>1. n \in 1..n
      BY <2>1
    <3> QED  BY <2>1, <3>1, Bases
  <2> QED  BY <2>1, <2>2, ResultsIn
<1>2. /\ Base(s, d) /\ Skeleton(s, d) /\ Variables(s) /\ s \in State /\ d \in [Nat -> Nat]
         /\ s.status = "ok"
      /\ m \in Nat /\ m = Len(s.cs) /\ m > 0 /\ n \in Nat /\ n = Len(s.ci) /\ n > 1
      /\ s.cs[m].t \in {"ccall", "exec", "unroll"} /\ (s.cs[m].t # "unroll" => d[m] = r)
      /\ s.nc < MaxCcalls /\ s.nny <= s.nc /\ Counts(s) /\ \A j \in 1..m : d[j] < n
      /\ nres \in {0, 1} /\ frame.func + nres <= Len(s.stack)
  BY DEF MayReturn, Base, Skeleton
<1> HIDE DEF r, frame
<1>3. /\ r \in Nat /\ r > 0 /\ r < n /\ r <= n /\ r + 1 = n /\ n \in 1..n /\ r \in 1..n
         /\ r \in 1..r /\ r \in 1..(n - 1)
      /\ \A j \in Nat : j < n => j <= r
      /\ \A j \in 1..r : j \in 1..n /\ j < n
  <2>1. r = n - 1
    BY DEF r
  <2>2. n \in Nat /\ n > 1
    BY <1>2
  <2> QED  BY <2>1, <2>2, LessOne, Zenon
<1>4. n - 1 = r /\ m \in 1..m
  <2>1. \A q \in Nat : q > 0 => q \in 1..q
    OBVIOUS
  <2> QED  BY <1>2, <2>1, Zenon DEF r
<1>5. frame.func \in Nat /\ frame.func > 1 /\ Len(s.stack) \in Nat /\ frame.func > 0
        /\ CallTop(s, r) = frame.func
      /\ s.ci[r].func \in Nat /\ s.ci[r].func < frame.func
  <2>1. n \in Nat /\ n = Len(s.ci) /\ n > 1 /\ Skeleton(s, d)
    BY <1>2
  <2>2. s.ci[n].func \in Nat /\ s.ci[n].func > 1 /\ CallTop(s, r) = s.ci[r + 1].func
          /\ Len(s.stack) \in Nat
        /\ s.ci[r].func \in Nat /\ s.ci[r].func < s.ci[n].func
    BY <1>3, <2>1, Bases
  <2>3. \A q \in Nat : q > 1 => q > 0
    OBVIOUS
  <2> QED  BY <1>3, <2>2, <2>3, Zenon DEF frame
<1>6. PICK t : \E v \in Seq(StackValue) : Returned(s, t, v, n, nres)
  BY <1>1
<1>7. PICK v \in Seq(StackValue) : Returned(s, t, v, n, nres)
  BY <1>6
<1> DEFINE back == PushStack(t, v)
<1>8. moveresults(s, nres) = IF Control(back) = "exec" THEN At(back, "run") ELSE back
  BY <1>7 DEF Returned
<1>9. /\ frame.want \in {0, 1} => Len(v) = frame.want
      /\ t \in State /\ Len(t.ci) = r /\ \A i \in 1..r : t.ci[i] = s.ci[i]
      /\ Len(t.stack) = frame.func - 1 /\ \A p \in 1..(frame.func - 1) : t.stack[p] = s.stack[p]
      /\ t.cs = s.cs /\ SameCounts(s, t)
  BY <1>4, <1>7 DEF Returned, frame
<1>10. /\ t \in State /\ r = Len(t.ci) /\ \A i \in 1..r : t.ci[i] = s.ci[i]
       /\ Len(t.stack) = frame.func - 1 /\ \A p \in 1..(frame.func - 1) : t.stack[p] = s.stack[p]
       /\ t.cs = s.cs /\ t.tbclist = s.tbclist /\ t.status = "ok" /\ t.nc = s.nc /\ t.nny = s.nny
  BY <1>2, <1>9 DEF SameCounts
<1>11. Skeleton(t, d)
  <2>1. \A j \in 1..m : d[j] <= r
    <3>1. \A j \in 1..m : d[j] \in 1..n /\ d[j] < n
      BY <1>2 DEF Skeleton, Depths
    <3>2. \A j \in 1..m : d[j] \in Nat
      <4> QED  BY ONLY <1>2, <3>1
    <3> QED  BY <1>3, <3>1, <3>2, Zenon
  <2>2. Len(t.stack) + 1 >= CallTop(s, r)
          /\ \A p \in 1..(s.ci[r].func - 1) : t.stack[p] = s.stack[p]
    <3>1. Len(t.stack) + 1 >= CallTop(s, r)
      <4>1. \A q \in Nat : q - 1 + 1 >= q
        OBVIOUS
      <4> QED  BY <1>10, <1>5, <4>1
    <3>2. \A p \in 1..(s.ci[r].func - 1) : p \in 1..(frame.func - 1)
      <4>1. \A q, q2 \in Nat : q < q2 => \A p \in 1..(q - 1) : p \in 1..(q2 - 1)
        OBVIOUS
      <4> QED  BY <1>5, <4>1, Zenon
    <3> QED  BY <1>10, <3>1, <3>2, Zenon
  <2>3. \A j \in (m + 1)..m : FALSE
    <3>1. m \in Nat
      BY <1>2
    <3> QED  BY <3>1
  <2>4. r \in 1..Len(s.ci) /\ m \in 0..m /\ Len(t.cs) = m /\ m = Len(s.cs)
    <3>1. m \in Nat
      BY <1>2
    <3>2. m \in 0..m
      BY <3>1
    <3> QED  BY <1>2, <1>10, <1>3, <3>2, Zenon
  <2>5. s.status \notin ErrorStatus
    BY <1>2 DEF ErrorStatus
  <2>6. CutTo(s, d, t, r, m)
    BY <1>2, <1>10, <2>1, <2>2, <2>3, <2>4, <2>5 DEF CutTo
  <2>7. Skeleton(s, d) /\ t \in State /\ r \in Nat /\ m \in Nat
    BY <1>2, <1>10, <1>3
  <2> QED  BY <2>6, <2>7, SkeletonCut, Zenon
<1>12. \A a \in 1..Len(s.tbclist) : VariableOk(s, s.tbclist[a]) /\ s.tbclist[a] \in Nat
         /\ s.tbclist[a] < frame.func
  <2> TAKE a \in 1..Len(s.tbclist)
  <2>1. s.tbclist[a] \in Nat /\ VariableOk(s, s.tbclist[a])
    BY <1>2, StateType DEF Variables
  <2>2. ~(s.tbclist[a] >= frame.func)
    BY DEF TbcFrom, frame
  <2>3. \A p, q \in Nat : ~(p >= q) => p < q
    OBVIOUS
  <2> QED  BY <1>5, <2>1, <2>2, <2>3, Zenon
<1>13. Variables(t)
  <2>1. r \in 1..Len(s.ci) /\ Len(t.ci) = r /\ \A i \in 1..(r - 1) : t.ci[i] = s.ci[i]
    <3>1. \A i \in 1..(r - 1) : i \in 1..r
      BY <1>3
    <3> QED  BY <1>2, <1>10, <1>3, <3>1, Zenon
  <2>2. t.ci[r].func = s.ci[r].func /\ t.ci[r].kind = s.ci[r].kind
    BY <1>10, <1>3
  <2>3. Len(t.tbclist) <= Len(s.tbclist)
    BY <1>2, <1>10, StateType
  <2>4. \A a \in 1..Len(t.tbclist) :
           /\ t.tbclist[a] = s.tbclist[a]
           /\ t.tbclist[a] <= Len(t.stack) /\ t.stack[t.tbclist[a]] = s.stack[t.tbclist[a]]
           /\ s.ci[r].kind = "C" /\ s.ci[r].func < t.tbclist[a] => Accounted(t, t.tbclist[a], r)
    <3> SUFFICES ASSUME NEW a \in 1..Len(s.tbclist)
                 PROVE  /\ s.tbclist[a] <= Len(t.stack)
                        /\ t.stack[s.tbclist[a]] = s.stack[s.tbclist[a]]
                        /\ s.ci[r].kind = "C"
                           /\ s.ci[r].func < s.tbclist[a] => Accounted(t, s.tbclist[a], r)
      BY <1>10
    <3> DEFINE p == s.tbclist[a]
    <3>1. VariableOk(s, p) /\ p \in Nat /\ p < frame.func
      BY <1>12
    <3>2. 1 < p
      BY <3>1 DEF VariableOk
    <3> HIDE DEF p
    <3>3. p <= Len(t.stack) /\ p \in 1..(frame.func - 1)
      <4>1. \A q, p0 \in Nat : 1 < p0 /\ p0 < q => p0 <= q - 1 /\ p0 \in 1..(q - 1)
        OBVIOUS
      <4>2. p <= frame.func - 1 /\ p \in 1..(frame.func - 1)
        BY <1>5, <3>1, <3>2, <4>1, Zenon
      <4> QED  BY <1>10, <4>2
    <3>4. s.ci[r].kind = "C" /\ s.ci[r].func < p => Accounted(s, p, r)
      <4>1. r \in 1..Len(s.ci) /\ p < CallTop(s, r)
        BY <1>2, <1>3, <1>5, <3>1
      <4> QED  BY <3>1, <4>1 DEF VariableOk
    <3>5. Accounted(s, p, r) => Accounted(t, p, r)
      <4>1. t.ci[r] = s.ci[r] /\ t.cs = s.cs
        BY <1>10, <1>3
      <4> QED  BY <4>1 DEF Accounted
    <3>6. p <= Len(t.stack) /\ t.stack[p] = s.stack[p]
            /\ (s.ci[r].kind = "C" /\ s.ci[r].func < p => Accounted(t, p, r))
      BY <1>10, <3>3, <3>4, <3>5
    <3> QED  BY <3>6 DEF p
  <2>5. \A j \in 1..Len(s.cs) :
           Try(s.cs[j], {"closep"}) /\ s.cs[j].ci < r => j \in 1..Len(t.cs) /\ t.cs[j] = s.cs[j]
    BY <1>10
  <2> QED  BY <1>2, <1>10, <2>1, <2>2, <2>3, <2>4, <2>5, VariablesKept
<1>14. Grown(t, back, v)
  BY <1>10, PushStackIs
<1> HIDE DEF back
<1>15. /\ back \in State /\ back.ci = t.ci /\ back.cs = s.cs /\ back.tbclist = s.tbclist
          /\ back.status = "ok"
       /\ back.nc = s.nc /\ back.nny = s.nny /\ Len(v) \in Nat
          /\ Len(back.stack) = frame.func - 1 + Len(v)
       /\ \A p \in 1..(frame.func - 1) : back.stack[p] = s.stack[p]
  BY <1>10, <1>14 DEF Grown, SameCounts
<1>16. Base(back, d)
  <2>1. Len(back.stack) >= Len(t.stack) /\ \A p \in 1..Len(t.stack) : back.stack[p] = t.stack[p]
    <3>1. Len(t.stack) \in Nat /\ Len(v) \in Nat /\ Len(back.stack) = Len(t.stack) + Len(v)
          /\ \A p \in 1..Len(t.stack) : back.stack[p] = t.stack[p]
      BY <1>10, <1>14, StateType DEF Grown
    <3>2. \A p, q \in Nat : p + q >= p
      OBVIOUS
    <3> QED  BY <3>1, <3>2
  <2>2. Base(t, d)
    BY <1>11, <1>13 DEF Base
  <2> QED  BY <1>10, <1>15, <2>1, <2>2, Grow
<1>17. r = Len(back.ci) /\ back.ci[r] = s.ci[r] /\ Counts(back) /\ m = Len(back.cs)
  <2>1. Counts(back)
    BY <1>2, <1>15 DEF Counts
  <2>2. r = Len(back.ci) /\ back.ci[r] = s.ci[r]
    BY <1>10, <1>15, <1>3
  <2>3. m = Len(back.cs)
    BY <1>2, <1>15
  <2> QED  BY <2>1, <2>2, <2>3
<1>18. Control(back) = s.cs[m].t
  <2>1. s.cs \in Seq(CFunction) /\ Len(s.cs) > 0
    BY <1>2, StateType
  <2>2. s.cs # <<>>
    BY <2>1
  <2>3. Last(s.cs) = s.cs[m]
    BY <1>2, <2>1, <2>2, FrontLast
  <2> QED  BY <1>15, <2>2, <2>3 DEF Control
<1>19. CASE s.cs[m].t = "exec"
  <2>1. CInv(At(back, "run"))
    <3>1. /\ back.cs[m].t = "exec" /\ d[m] = r /\ back.nc < MaxCcalls /\ back.nny <= back.nc
             /\ back.status = "ok"
          /\ m \in Nat /\ m > 0 /\ r \in Nat
      BY <1>2, <1>15, <1>19, <1>3
    <3>2. m = Len(back.cs) /\ r = Len(back.ci) /\ Counts(back)
      BY <1>17
    <3> QED  BY <1>16, <3>1, <3>2, NextInstruction
  <2> QED  BY <1>8, <1>18, <1>19, <2>1
<1>20. CASE s.cs[m].t # "exec"
  <2>1. CallerOk(s, r)
    <3>1. r \in 1..(Len(s.ci) - 1)
      BY <1>2, <1>3
    <3> QED  BY <1>2, <3>1 DEF Skeleton, Frames
  <2>2. Returning(s.ci[r]) => frame.want = 0
    BY <1>3, <2>1 DEF CallerOk, frame
  <2>3. TakesResult(s.ci[r]) => frame.want = 1
    BY <1>3, <2>1 DEF CallerOk, frame
  <2>4. ResultOf(back, r)
    <3> SUFFICES ASSUME Returning(s.ci[r]),
                        s.ci[r].u2 = 1 PROVE back.stack[CallTop(back, r) - 1] = "res"
      BY <1>17 DEF ResultOf
    <3>1. Len(v) = 0
      BY <1>9, <2>2
    <3>2. CallTop(back, r) = frame.func
      <4>1. Len(back.stack) + 1 = frame.func
        BY <1>15, <1>5, <3>1
      <4>2. ~(r < r)
        BY <1>3
      <4> QED  BY <1>17, <4>1, <4>2 DEF CallTop
    <3>3. s.stack[frame.func - 1] = "res"
      BY <1>5, <2>1 DEF CallerOk, ResultOf
    <3>4. frame.func - 1 \in 1..(frame.func - 1)
      BY <1>5
    <3> QED  BY <1>15, <3>2, <3>3, <3>4
  <2>5. TakesResult(s.ci[r]) => s.ci[r].func < Len(back.stack) /\ ~TbcFrom(back, Len(back.stack))
    <3> SUFFICES ASSUME TakesResult(s.ci[r]) PROVE s.ci[r].func < Len(back.stack)
                        /\ ~TbcFrom(back, Len(back.stack))
      OBVIOUS
    <3>1. Len(v) = 1
      BY <1>9, <2>3
    <3>2. Len(back.stack) = frame.func
      BY <1>15, <1>5, <3>1
    <3>3. \A a \in 1..Len(s.tbclist) : ~(s.tbclist[a] >= frame.func)
      BY <1>12, <1>5
    <3>4. ~TbcFrom(back, Len(back.stack))
      BY <1>15, <3>2, <3>3 DEF TbcFrom
    <3> QED  BY <1>5, <3>2, <3>4
  <2>6. Top(back, d)
    <3>1. ~Try(s.cs[m], {"closep"}) /\ s.cs[m].t # "reset" /\ s.cs[m].t # "try"
      BY <1>2 DEF Try
    <3>2. s.cs[m].t = "unroll" => s.ci[r].pc # "top"
      BY <1>2, <1>3, UnrollsTo
    <3> QED  BY <1>2, <1>15, <1>17, <2>4, <2>5, <3>1, <3>2 DEF Top
  <2>7. CInv(back)
    BY <1>2, <1>16, <2>6 DEF CInv
  <2> QED  BY <1>8, <1>18, <1>20, <2>7
<1> QED  BY <1>19, <1>20

-----------------------------------------------------------------------------
(* A function is called that goes on in the frame that runs. *)
MayEnter(s, d, m, n, e) ==
  /\ Base(s, d) /\ s.status = "ok"
  /\ m \in Nat /\ m = Len(s.cs) /\ m > 0 /\ n \in Nat /\ n = Len(s.ci)
  /\ s.nc < MaxCcalls /\ s.nny <= s.nc /\ Counts(s)
  /\ e \in CFunction /\ e.t \in {"close", "exec", "cfn"}
  /\ OnFrame(s, e, n) /\ CallsNext(s.cs[m], e) /\ d[m] <= n
  /\ \A t, c : t.ci = s.ci /\ t.cs[m] = s.cs[m] /\ t.cs[m + 1] = e /\ c[m] = d[m] /\ c[m + 1] = n
                 => Deeper(t, c, m)

Entered(s, t, e, c, n) ==
  /\ Base(t, c) /\ c \in [Nat -> Nat] /\ c[Len(t.cs)] = n /\ Counts(t) /\ Len(t.cs) > 0
     /\ t.cs[Len(t.cs)] = e
  /\ Pushed(s, t, e)

(* The function called is in control. *)
LEMMA Enter ==
  ASSUME NEW s, NEW d, NEW m, NEW n, NEW e, MayEnter(s, d, m, n, e)
  PROVE  \E c : Entered(s, PushC(s, e), e, c, n)
<1> DEFINE t == PushC(s, e)
           k == m + 1
           c == [d EXCEPT ![k] = n]
<1>1. /\ Base(s, d) /\ s.status = "ok" /\ Skeleton(s, d) /\ s \in State /\ d \in [Nat -> Nat]
      /\ m \in Nat /\ m = Len(s.cs) /\ m > 0 /\ n \in Nat /\ n = Len(s.ci)
      /\ Counts(s) /\ e \in CFunction /\ e.t \in {"close", "exec", "cfn"}
      /\ OnFrame(s, e, n) /\ CallsNext(s.cs[m], e) /\ d[m] <= n
  BY DEF MayEnter, Base, Skeleton
<1>2. \A t0, c0 : t0.ci = s.ci /\ t0.cs[m] = s.cs[m] /\ t0.cs[m + 1] = e /\ c0[m] = d[m]
        /\ c0[m + 1] = n
                    => Deeper(t0, c0, m)
  BY DEF MayEnter
<1>3. k = m + 1
  OBVIOUS
<1> HIDE DEF k
<1>4. k \in Nat /\ k > 0 /\ k # 1 /\ m # k /\ m \in 1..m
  <2>1. m \in Nat /\ m > 0
    BY <1>1
  <2> QED  BY ONLY <1>3, <2>1, Successor
<1>5. n > 0 /\ n \in 1..n
  <2>1. n > 0
    BY <1>1, Bases
  <2>2. \A q \in Nat : q > 0 => q \in 1..q
    OBVIOUS
  <2> QED  BY <1>1, <2>1, <2>2, Zenon
<1>6. Pushed(s, t, e)
  BY <1>1, PushCIs
<1> HIDE DEF t
<1>7. /\ t \in State /\ t.ci = s.ci /\ Len(t.cs) = k /\ t.cs[k] = e /\ t.cs[m] = s.cs[m]
  BY <1>1, <1>3, <1>4, <1>6 DEF Pushed
<1>8. c \in [Nat -> Nat] /\ c[k] = n /\ c[m] = d[m]
  BY <1>1, <1>4, Changed
<1>9. Deeper(t, c, m)
  <2>1. t.cs[m + 1] = e /\ c[m + 1] = n
    BY <1>3, <1>7, <1>8
  <2> QED  BY <1>2, <1>7, <1>8, <2>1
<1>10. Skeleton(t, c)
  <2>1. EntryOk(t.cs, k)
    BY <1>1, <1>4, <1>7 DEF EntryOk, Try
  <2>2. n \in 1..Len(s.ci) /\ e.t # "try"
    BY <1>1, <1>5
  <2> QED  BY <1>1, <1>3, <1>4, <1>6, <1>9, <2>1, <2>2, PushEntry
<1>11. Variables(t)
  BY <1>1, <1>6, VariablesPush DEF Base
<1>12. Counts(t)
  <2>1. e.t \notin {"ccall", "reset"}
    BY <1>1
  <2> QED  BY <1>1, <1>6, <2>1, CountsPush
<1>13. Entered(s, t, e, c, n)
  BY <1>4, <1>6, <1>7, <1>8, <1>10, <1>11, <1>12 DEF Entered, Base
<1> QED  BY <1>13 DEF t

(* A C function that goes on in the running frame keeps the invariant. *)
LEMMA EnterTop ==
  ASSUME NEW s, NEW d, NEW m, NEW n, NEW e, MayEnter(s, d, m, n, e), ResultOf(s, n),
         TakesResult(s.ci[n]) => s.ci[n].func < Len(s.stack) /\ ~TbcFrom(s, Len(s.stack))
  PROVE  CInv(PushC(s, e))
<1> DEFINE t == PushC(s, e)
<1>1. PICK c : Entered(s, t, e, c, n)
  BY Enter
<1> HIDE DEF t
<1>2. /\ Base(t, c) /\ c \in [Nat -> Nat] /\ c[Len(t.cs)] = n /\ Counts(t) /\ Len(t.cs) > 0
         /\ t.cs[Len(t.cs)] = e
      /\ t.ci = s.ci /\ t.stack = s.stack /\ t.tbclist = s.tbclist /\ t.nc = s.nc /\ t.nny = s.nny
         /\ t.status = s.status
  BY <1>1 DEF Entered, Pushed, SameCounts
<1>3. /\ e.t \in {"close", "exec", "cfn"} /\ n = Len(s.ci) /\ s.nc < MaxCcalls /\ s.nny <= s.nc
         /\ s.status = "ok"
  BY DEF MayEnter
<1>4. ResultOf(t, n)
  BY <1>2 DEF ResultOf, CallTop
<1>5. TakesResult(t.ci[n]) => t.ci[n].func < Len(t.stack) /\ ~TbcFrom(t, Len(t.stack))
  BY <1>2 DEF TbcFrom
<1>6. Top(t, c)
  BY <1>2, <1>3, <1>4, <1>5 DEF Top, Try
<1> QED  BY <1>2, <1>6 DEF CInv, t

(* A C function that has marked no variable (CIST_TBC) has none to close. *)
LEMMA NoneMarked ==
  ASSUME NEW s, NEW d, NEW m, NEW n, NEW nres, MayReturn(s, d, m, n, nres), ~s.ci[n].ypcall,
         s.ci[n].kind = "C", ~s.ci[n].tbc
  PROVE  ~TbcFrom(s, s.ci[n].func)
<1>1. /\ Base(s, d) /\ Skeleton(s, d) /\ Variables(s) /\ s \in State
      /\ m \in Nat /\ m = Len(s.cs) /\ m > 0 /\ n \in Nat /\ n = Len(s.ci) /\ n > 1
      /\ \A j \in 1..m : d[j] < n
  BY DEF MayReturn, Base, Skeleton
<1>2. n \in 1..n /\ n > 0
  BY <1>1
<1>3. FrameOk(s, n) /\ s.ci[n].func <= Len(s.stack) /\ s.ci[n].func \in Nat
      /\ CallTop(s, n) = Len(s.stack) + 1 /\ Len(s.stack) \in Nat
  <2>1. FrameOk(s, n)
    BY <1>1, <1>2 DEF Skeleton, Frames
  <2> QED  BY <1>1, <1>2, <2>1, Bases
<1>4. s.ci[n].recst = "ok"
  BY <1>3 DEF FrameOk
<1> SUFFICES ASSUME NEW a \in 1..Len(s.tbclist), s.tbclist[a] >= s.ci[n].func PROVE FALSE
  BY DEF TbcFrom
<1> DEFINE p == s.tbclist[a]
<1>11. VariableOk(s, p) /\ p \in Nat /\ p >= s.ci[n].func
  BY <1>1, StateType DEF Variables
<1> HIDE DEF p
<1>12. p <= Len(s.stack) /\ p # s.ci[n].func
  BY <1>1, <1>2, <1>11 DEF VariableOk
<1>13. s.ci[n].func < p /\ p < CallTop(s, n)
  BY <1>3, <1>11, <1>12
<1>14. Accounted(s, p, n)
  BY <1>1, <1>2, <1>11, <1>13 DEF VariableOk
<1>15. PICK j \in 1..m : Try(s.cs[j], {"closep"}) /\ s.cs[j].ci = n
  BY <1>1, <1>4, <1>14 DEF Accounted
<1>16. OnFrame(s, s.cs[j], d[j])
  BY <1>1 DEF Skeleton, Depths
<1>17. d[j] = n
  BY <1>15, <1>16 DEF OnFrame, Try, Protected
<1> QED  BY <1>1, <1>17

(* lauD_poscall, with or without variables to close first *)
LEMMA Poscall ==
  ASSUME NEW s, NEW d, NEW m, NEW n, NEW nres, MayReturn(s, d, m, n, nres),
         s.ci[n].kind = "C", ~s.ci[n].ypcall, nres = 1 => s.stack[Len(s.stack)] = "res",
         s.ci[n].pc # "top",
         s.cs[m].t = "exec" => s.ci[n - 1].pc \notin {"close", "return"}
  PROVE  CInv(poscall(s, nres))
<1> DEFINE f == [s.ci[n] EXCEPT !.u2 = nres, !.clsret = TRUE]
           b == SetCI(s, f)
           e == [t |-> "close", level |-> s.ci[n].func, status |-> "ktop", yy |-> TRUE,
           then |-> "poscall"]
<1>1. /\ Base(s, d) /\ Skeleton(s, d) /\ Variables(s) /\ s \in State /\ s.status = "ok"
      /\ m \in Nat /\ m = Len(s.cs) /\ m > 0 /\ n \in Nat /\ n = Len(s.ci) /\ n > 1
      /\ \A j \in 1..m : d[j] < n
      /\ s.cs[m].t \in {"ccall", "exec", "unroll"} /\ (s.cs[m].t # "unroll" => d[m] = n - 1)
      /\ s.nc < MaxCcalls /\ s.nny <= s.nc /\ Counts(s)
      /\ nres \in {0, 1}
  BY DEF MayReturn, Base, Skeleton
<1>2. n \in 1..n /\ n > 0 /\ m \in 1..m
  BY <1>1
<1>3. FrameOk(s, n) /\ s.ci[n] \in CallInfo /\ s.ci[n].func <= Len(s.stack)
        /\ s.ci[n].func < CallTop(s, n)
      /\ s.ci[n].func \in Nat /\ CallTop(s, n) = Len(s.stack) + 1 /\ Len(s.stack) \in Nat
         /\ CallTop(s, n) \in Nat
  <2>1. FrameOk(s, n)
    BY <1>1, <1>2 DEF Skeleton, Frames
  <2> QED  BY <1>1, <1>2, <2>1, Bases
<1>4. s.ci[n].recst = "ok"
  BY <1>3 DEF FrameOk
<1>5. Last(s.ci) = s.ci[n]
  <2>1. s.ci \in Seq(CallInfo) /\ s.ci # <<>>
    BY <1>1, StateType
  <2> QED  BY <1>1, <2>1, FrontLast
<1>6. CASE ~s.ci[n].tbc
  <2>1. ~TbcFrom(s, s.ci[n].func)
    BY <1>6, NoneMarked
  <2>2. poscall(s, nres) = moveresults(s, nres)
    BY <1>5, <1>6 DEF poscall
  <2>3. CInv(moveresults(s, nres))
    BY <2>1, MoveResults
  <2> QED  BY <2>2, <2>3
<1>7. CASE s.ci[n].tbc
  <2>1. poscall(s, nres) = PushC(b, e)
    BY <1>5, <1>7 DEF poscall, lauF_close
  <2>2. /\ f \in CallInfo /\ f.func = s.ci[n].func /\ f.kind = s.ci[n].kind /\ f.want = s.ci[n].want
        /\ f.fresh = s.ci[n].fresh /\ f.pc = s.ci[n].pc /\ ~f.ypcall /\ f.recst = "ok" /\ f.clsret
        /\ f.u2 = nres /\ f.tbc /\ f.kind = "C"
    <3>1. nres \in Nat
      BY <1>1
    <3>2. s.ci[n] \in CallInfo /\ s.ci[n].tbc = TRUE
      BY <1>3, <1>7, FrameType
    <3>3. f \in CallInfo
      BY <3>1, <3>2 DEF CallInfo
    <3>4. /\ f.func = s.ci[n].func /\ f.kind = s.ci[n].kind /\ f.want = s.ci[n].want
          /\ f.fresh = s.ci[n].fresh /\ f.pc = s.ci[n].pc /\ f.ypcall = s.ci[n].ypcall
          /\ f.recst = s.ci[n].recst /\ f.clsret = TRUE /\ f.u2 = nres /\ f.tbc = s.ci[n].tbc
      BY <3>2 DEF CallInfo
    <3> QED  BY <1>4, <3>2, <3>3, <3>4
  <2>3. /\ e \in CFunction /\ e.t = "close" /\ e.then = "poscall" /\ e.status = "ktop"
           /\ e.level = s.ci[n].func
        /\ e.yy = TRUE
    BY <1>3 DEF CFunction, CloseC
  <2> HIDE DEF f, e
  <2>4. Framed(s, b, f)
    BY <1>1, <1>2, <2>2, SetCIIs
  <2> HIDE DEF b
  <2>5. /\ b \in State /\ b.stack = s.stack /\ b.cs = s.cs /\ b.tbclist = s.tbclist
           /\ b.status = "ok"
        /\ b.nc = s.nc /\ b.nny = s.nny /\ Len(b.ci) = n /\ b.ci[n] = f
           /\ \A i \in 1..(n - 1) : b.ci[i] = s.ci[i]
    BY <1>1, <2>4 DEF Framed, SameCounts
  <2>6. FrameOk(b, n)
    <3>1. f.pc \notin {"return", "close", "index", "add"}
      BY <1>3, <2>2 DEF FrameOk
    <3>2. nres \in 0..1
      BY <1>1
    <3>3. f.func + f.u2 < CallTop(b, n)
      <4>1. CallTop(b, n) = Len(s.stack) + 1
        BY <1>1, <2>5 DEF CallTop
      <4> QED  BY <1>1, <1>3, <2>2, <4>1 DEF MayReturn
    <3>4. f.pc = "top" => f.func < f.level /\ f.level <= CallTop(b, n)
      <4>1. CallTop(b, n) = CallTop(s, n)
        BY <1>1, <2>5 DEF CallTop
      <4>2. f.level = s.ci[n].level
        BY <1>3 DEF f, CallInfo
      <4> QED  BY <1>3, <2>2, <4>1, <4>2 DEF FrameOk
    <3> QED  BY <2>2, <2>5, <3>1, <3>2, <3>3, <3>4 DEF FrameOk
  <2>7. TopOnly(s, b)
    <3>1. n # 1
      BY <1>1
    <3>2. n = Len(s.ci)
      BY <1>1
    <3> QED  BY <1>3, <2>2, <2>5, <3>1, <3>2, Zenon DEF TopOnly
  <2>8. Base(b, d)
    <3>1. \A j \in 1..Len(s.cs) : d[j] = Len(s.ci) => OnFrame(b, s.cs[j], d[j])
            /\ (j = Len(s.cs) \/ b.ci[Len(s.ci)] = s.ci[Len(s.ci)])
      <4>1. \A j \in 1..m : d[j] # n
        BY <1>1
      <4> QED  BY <1>1, <4>1
    <3>2. FrameOk(b, Len(s.ci)) /\ ~b.ci[Len(s.ci)].ypcall
      BY <1>1, <2>2, <2>5, <2>6
    <3>3. Len(b.tbclist) <= Len(s.tbclist)
      BY <1>1, <2>5, StateType
    <3>4. \A a \in 1..Len(b.tbclist) :
           /\ b.tbclist[a] = s.tbclist[a]
           /\ b.tbclist[a] <= Len(b.stack) /\ b.stack[b.tbclist[a]] = s.stack[b.tbclist[a]]
           /\ s.ci[Len(s.ci)].kind = "C" /\ s.ci[Len(s.ci)].func < b.tbclist[a]
                => Accounted(b, b.tbclist[a], Len(s.ci))
      BY <1>1, <2>2, <2>5 DEF Variables, VariableOk, Accounted
    <3>5. b.status = s.status
      BY <1>1, <2>5
    <3> QED  BY <1>1, <2>5, <2>7, <3>1, <3>2, <3>3, <3>4, <3>5, Local
  <2>9. MayEnter(b, d, m, n, e)
    <3>1. OnFrame(b, e, n)
      <4>1. CallTop(b, n) = CallTop(s, n)
        BY <1>1, <2>5 DEF CallTop
      <4>2. e.level <= CallTop(b, n)
        BY <1>3, <2>3, <4>1
      <4> QED  BY <2>2, <2>3, <2>5, <4>2 DEF OnFrame, CloseOk, Try
    <3>2. CallsNext(b.cs[m], e)
      BY <1>1, <2>3, <2>5 DEF CallsNext, Closing
    <3>3. d[m] < n /\ d[m] \in Nat /\ d[m] <= n
      <4>1. d[m] < n
        BY <1>1, <1>2
      <4>2. d[m] \in Nat
        BY <1>1 DEF Skeleton
      <4> QED  BY <1>1, <4>1, <4>2
    <3>4. \A t, c : t.ci = b.ci /\ t.cs[m] = b.cs[m] /\ t.cs[m + 1] = e /\ c[m] = d[m]
            /\ c[m + 1] = n => Deeper(t, c, m)
      <4> TAKE t, c
      <4> HAVE t.ci = b.ci /\ t.cs[m] = b.cs[m] /\ t.cs[m + 1] = e /\ c[m] = d[m] /\ c[m + 1] = n
      <4>1. s.cs[m].t # "unroll" => n = d[m] + 1
        BY <1>1, <3>3
      <4>2. t.cs[m] = s.cs[m]
        BY <2>5
      <4>3. Beneath(t, s.cs[m], e, d[m])
        <5>1. s.cs[m].t = "exec" => t.ci[d[m]].pc \notin {"close", "return"}
          <6> SUFFICES ASSUME s.cs[m].t = "exec" PROVE t.ci[d[m]].pc \notin {"close", "return"}
            OBVIOUS
          <6>1. d[m] = n - 1 /\ n - 1 \in 1..(n - 1)
            BY <1>1
          <6> QED  BY <2>5, <6>1
        <5>2. s.cs[m].t = "ccall" => \A x \in (d[m] + 1)..Len(t.ci) : ~t.ci[x].ypcall
          <6> SUFFICES ASSUME s.cs[m].t = "ccall", NEW x \in (d[m] + 1)..Len(t.ci)
                       PROVE  ~t.ci[x].ypcall
            OBVIOUS
          <6>1. x = n
            BY <1>1, <2>5
          <6> QED  BY <2>2, <2>5, <6>1
        <5> QED  BY <1>1, <5>1, <5>2 DEF Beneath, Try
      <4> QED  BY <1>1, <2>3, <3>3, <4>1, <4>2, <4>3 DEF Deeper, Closing
    <3>5. Counts(b)
      BY <1>1, <2>5 DEF Counts
    <3> QED  BY <1>1, <2>3, <2>5, <2>8, <3>1, <3>2, <3>3, <3>4, <3>5 DEF MayEnter
  <2>10. ResultOf(b, n)
    <3>1. CallTop(b, n) - 1 = Len(s.stack)
      <4>1. CallTop(b, n) = CallTop(s, n)
        BY <1>1, <2>5 DEF CallTop
      <4> QED  BY <1>3, <4>1
    <3> QED  BY <2>2, <2>5, <3>1 DEF ResultOf
  <2>11. ~TakesResult(b.ci[n])
    BY <2>2, <2>5, <2>6 DEF FrameOk, TakesResult
  <2>12. CInv(PushC(b, e))
    BY <2>9, <2>10, <2>11, EnterTop
  <2> QED  BY <2>1, <2>12
<1> QED  BY <1>6, <1>7

(* The state in which the results of the function that lauV_execute leaves are
   moved: it has returned to its caller if the frame is fresh. *)
FrameLeft(s, u, c, q, n, nres) ==
  /\ MayReturn(u, c, q, n, nres) /\ leaveframe(s, nres) = moveresults(u, nres)
  /\ u = s \/ Popped(s, u)
  /\ u.cs[q].t = "exec" => u.ci[n - 1].pc \notin {"close", "return"}

(* leaveframe takes a frame away as FrameLeft says. *)
LEMMA LeavesFrame ==
  ASSUME NEW s, NEW d, Base(s, d), s.status = "ok", NEW m \in Nat, m = Len(s.cs), m > 0,
         s.cs[m].t = "exec",
         NEW n \in Nat, n = Len(s.ci), d[m] = n,
         s.nc < MaxCcalls, s.nny <= s.nc, Counts(s),
         NEW nres \in {0, 1}, s.ci[n].func + nres <= Len(s.stack)
  PROVE  \E u, c, q : FrameLeft(s, u, c, q, n, nres)
<1>1. Skeleton(s, d) /\ s \in State /\ d \in [Nat -> Nat] /\ n > 0 /\ m \in 1..m /\ Variables(s)
  <2>1. Skeleton(s, d) /\ s \in State /\ d \in [Nat -> Nat] /\ n > 0 /\ Variables(s)
    BY BaseType DEF Base, Skeleton
  <2>2. m \in 1..m
    OBVIOUS
  <2> QED  BY <2>1, <2>2
<1>2. Last(s.ci) = s.ci[n]
  <2>1. s.ci \in Seq(CallInfo) /\ s.ci # <<>>
    BY <1>1, StateType
  <2> QED
    <3>1. s.ci \in Seq(CallInfo) /\ s.ci # <<>> /\ n = Len(s.ci)
      BY <2>1
    <3> QED  BY ONLY <3>1, FrontLast, Zenon
<1>3. CASE s.ci[n].fresh
  <2> DEFINE t == PopC(s)
             l == m - 1
  <2>1. leaveframe(s, nres) = moveresults(t, nres)
    BY <1>2, <1>3 DEF leaveframe
  <2>2. Popped(s, t)
    <3>1. s.cs # <<>>
      OBVIOUS
    <3> QED  BY <1>1, <3>1, PopCIs
  <2> HIDE DEF t
  <2>3. /\ t \in State /\ t.ci = s.ci /\ t.stack = s.stack /\ t.tbclist = s.tbclist
           /\ t.status = "ok"
        /\ t.nc = s.nc /\ t.nny = s.nny /\ l = Len(t.cs) /\ \A j \in 1..l : t.cs[j] = s.cs[j]
    BY <2>2 DEF Popped, SameCounts
  <2>4. Base(t, d)
    BY <2>2, PopEntry DEF Try
  <2>5. /\ m > 1 /\ s.cs[l].t \in {"ccall", "unroll"} /\ Deeper(s, d, l) /\ d[l] \in Nat /\ d[l] < n
    <3>1. /\ m > 1 /\ s.cs[m - 1].t \in {"ccall", "unroll"} /\ Deeper(s, d, m - 1)
             /\ d[m - 1] \in Nat /\ d[m - 1] < d[m]
      BY <1>1, Runs
    <3> QED  BY <3>1
  <2>6. l \in Nat /\ l > 0 /\ l \in 1..m /\ l \in 1..l /\ l < m /\ l + 1 = m
          /\ \A j \in 1..l : j \in 1..m /\ j < m
    <3>1. l = m - 1
      OBVIOUS
    <3> HIDE DEF l
    <3> QED  BY <2>5, <3>1, LessOne
  <2> HIDE DEF l
  <2>7. \A j \in 1..l : d[j] < n
    <3> TAKE j \in 1..l
    <3>1. j \in 1..m /\ j < m
      BY <2>6
    <3>2. d[j] \in 1..n
      BY <1>1, <3>1 DEF Skeleton, Depths
    <3>3. d[j] # n
      <4>1. \A i \in 1..m : d[i] = n => i = m
        BY <1>1, OnTop
      <4>2. j # m
        BY <3>1
      <4> QED  BY <3>1, <4>1, <4>2
    <3> QED  BY <3>2, <3>3
  <2>8. s.cs[l].t = "ccall" => d[l] = n - 1
    <3> SUFFICES ASSUME s.cs[l].t = "ccall" PROVE d[l] = n - 1
      OBVIOUS
    <3>1. s.cs[l + 1].t = "exec" /\ d[l + 1] = n
      BY <2>6
    <3>2. \A i \in (d[l] + 2)..n : ~s.ci[i].fresh
      BY <2>5, <3>1 DEF Deeper
    <3>3. ~(n \in (d[l] + 2)..n)
      BY <1>3, <3>2
    <3>4. \A q \in Nat : q < n /\ ~(n \in (q + 2)..n) => q = n - 1
      OBVIOUS
    <3> QED  BY <2>5, <3>3, <3>4
  <2>9. Counts(t)
    BY <1>1, <2>2, CountsPop
  <2>10. n > 1
    <3>1. \A q \in 1..n : q < n => n > 1
      OBVIOUS
    <3>2. d[l] \in 1..n /\ d[l] < n
      BY <1>1, <2>5, <2>6 DEF Skeleton, Depths
    <3> QED  BY <3>1, <3>2
  <2>11. MayReturn(t, d, l, n, nres)
    BY <2>3, <2>4, <2>5, <2>6, <2>7, <2>8, <2>9, <2>10 DEF MayReturn
  <2>12. t.cs[l].t # "exec"
    BY <2>3, <2>5, <2>6
  <2>13. FrameLeft(s, t, d, l, n, nres)
    BY <2>1, <2>2, <2>11, <2>12 DEF FrameLeft
  <2> QED  BY <2>13
<1>4. CASE ~s.ci[n].fresh
  <2> DEFINE c == [d EXCEPT ![m] = n - 1]
  <2>1. leaveframe(s, nres) = moveresults(s, nres)
    BY <1>2, <1>4 DEF leaveframe
  <2>2. n > 1 /\ Skeleton(s, c) /\ \A j \in 1..(m - 1) : d[j] < n
    BY <1>1, <1>4, ExecDown
  <2>3. n - 1 \in Nat
    BY <2>2
  <2>4. c \in [Nat -> Nat] /\ c[m] = n - 1 /\ \A j \in Nat : j # m => c[j] = d[j]
    BY <1>1, <2>3, Changed
  <2> HIDE DEF c
  <2>5. \A j \in 1..m : c[j] < n
    <3> TAKE j \in 1..m
    <3>1. CASE j = m
      <4>1. c[j] = n - 1
        BY <2>4, <3>1
      <4>2. n - 1 < n
        BY ONLY n \in Nat
      <4> QED  BY ONLY <4>1, <4>2
    <3>2. CASE j # m
      <4>1. j \in 1..(m - 1) /\ j \in Nat
        BY <3>2
      <4> QED  BY <2>2, <2>4, <3>2, <4>1
    <3> QED  BY <3>1, <3>2
  <2>6. Base(s, c)
    BY <1>1, <2>2 DEF Base
  <2>7. MayReturn(s, c, m, n, nres)
    BY <2>2, <2>4, <2>5, <2>6 DEF MayReturn
  <2>8. s.ci[n - 1].pc \notin {"close", "return"}
    <3> DEFINE r == n - 1
    <3>1. r \in 1..(n - 1) /\ r + 1 = n
      BY <2>2
    <3>2. s.ci[n].kind = "Lau"
      <4>1. OnFrame(s, s.cs[m], d[m])
        BY <1>1 DEF Skeleton, Depths
      <4> QED  BY <4>1 DEF OnFrame
    <3> HIDE DEF r
    <3>3. CallerOk(s, r)
      BY <1>1, <3>1 DEF Skeleton, Frames
    <3>4. s.ci[r].pc \in {"close", "return"} => s.ci[r + 1].kind = "C" \/ s.ci[r + 1].fresh
      BY <3>3 DEF CallerOk
    <3>5. s.ci[r].pc \notin {"close", "return"}
      BY <1>4, <3>1, <3>2, <3>4
    <3> QED  BY <3>5 DEF r
  <2>9. FrameLeft(s, s, c, m, n, nres)
    BY <2>1, <2>7, <2>8 DEF FrameLeft
  <2> QED  BY <2>9
<1> QED  BY <1>3, <1>4

(* lauV_execute leaves the frame that runs. *)
LEMMA Leaveframe ==
  ASSUME NEW s, NEW d, Base(s, d), s.status = "ok", NEW m \in Nat, m = Len(s.cs), m > 0,
         s.cs[m].t = "exec",
         NEW n \in Nat, n = Len(s.ci), d[m] = n,
         s.nc < MaxCcalls, s.nny <= s.nc, Counts(s),
         NEW nres \in {0, 1}, s.ci[n].func + nres <= Len(s.stack), ~TbcFrom(s, s.ci[n].func)
  PROVE  CInv(leaveframe(s, nres))
<1>1. PICK u, c, q : FrameLeft(s, u, c, q, n, nres)
  BY LeavesFrame
<1>2. MayReturn(u, c, q, n, nres) /\ leaveframe(s, nres) = moveresults(u, nres)
  BY <1>1 DEF FrameLeft
<1>3. u.ci = s.ci /\ u.tbclist = s.tbclist
  BY <1>1 DEF FrameLeft, Popped, SameCounts
<1>4. ~TbcFrom(u, u.ci[n].func)
  BY <1>3 DEF TbcFrom
<1> QED  BY <1>2, <1>4, MoveResults

-----------------------------------------------------------------------------
(* The function in control *)

(* What the invariant says while a C function is in control. *)
InControl(s, d, m, n) ==
  /\ Base(s, d) /\ s \in State /\ d \in [Nat -> Nat] /\ s.status = "ok"
  /\ m \in Nat /\ m = Len(s.cs) /\ m > 0 /\ m \in 1..m
  /\ n \in Nat /\ n = Len(s.ci) /\ n > 0 /\ n \in 1..n
  /\ Control(s) = s.cs[m].t /\ Last(s.cs) = s.cs[m] /\ Last(s.ci) = s.ci[n]
  /\ s.cs[m].t # "unroll" => d[m] = n
  /\ s.cs[m].t # "try" => Counts(s)
  /\ s.nc < MaxCcalls /\ s.nny <= s.nc /\ s.nc \in Nat /\ s.nny \in Nat
  /\ s.ci[n] \in CallInfo /\ FrameOk(s, n) /\ ResultOf(s, n)
  /\ s.ci[n].func \in Nat /\ s.ci[n].func > 0 /\ s.ci[n].func <= Len(s.stack)
     /\ Len(s.stack) \in Nat
  /\ CallTop(s, n) = Len(s.stack) + 1

(* The invariant of a running coroutine, in the form the steps use. *)
LEMMA Controls ==
  ASSUME NEW s, CInv(s), s.cs # <<>>
  PROVE  \E d \in [Nat -> Nat] : Top(s, d) /\ InControl(s, d, Len(s.cs), Len(s.ci))
<1>1. PICK d \in [Nat -> Nat] : Base(s, d) /\ Top(s, d)
  BY DEF CInv
<1> DEFINE m == Len(s.cs)
           n == Len(s.ci)
<1>2. Skeleton(s, d) /\ s \in State /\ s.status = "ok" /\ Frames(s)
  BY <1>1 DEF Base, Skeleton
<1>3. s.cs \in Seq(CFunction) /\ s.ci \in Seq(CallInfo) /\ m \in Nat /\ n \in Nat
        /\ Len(s.stack) \in Nat
      /\ s.nc \in Nat /\ s.nny \in Nat
  BY <1>2, StateType
<1>4. m > 0 /\ Last(s.cs) = s.cs[m] /\ Control(s) = s.cs[m].t
  <2>1. m > 0 /\ Last(s.cs) = s.cs[m]
    BY <1>3, FrontLast
  <2> QED  BY <2>1 DEF Control
<1>5. n > 0
  BY <1>1, BaseType
<1>6. Last(s.ci) = s.ci[n]
  <2>1. s.ci # <<>>
    BY <1>5
  <2> QED  BY <1>3, <2>1, FrontLast
<1>7. n = Len(s.ci) /\ m = Len(s.cs)
  OBVIOUS
<1> HIDE DEF m, n
<1>8. n \in 1..n /\ m \in 1..m
  BY <1>3, <1>4, <1>5
<1>9. /\ s.ci[n] \in CallInfo /\ s.ci[n].func \in Nat /\ s.ci[n].func > 0
         /\ s.ci[n].func <= Len(s.stack)
      /\ CallTop(s, n) = Len(s.stack) + 1
  BY <1>2, <1>3, <1>7, <1>8, Bases
<1>10. FrameOk(s, n)
  BY <1>2, <1>7, <1>8 DEF Frames
<1>11. ResultOf(s, n) /\ s.nc < MaxCcalls /\ s.nny <= s.nc /\ (s.cs[m].t # "unroll" => d[m] = n)
       /\ (s.cs[m].t # "try" => Counts(s))
  <2>1. s.status \notin ErrorStatus
    BY <1>2 DEF ErrorStatus
  <2> QED  BY <1>1, <1>4, <1>7, <2>1 DEF Top
<1>12. InControl(s, d, m, n)
  BY <1>1, <1>2, <1>3, <1>4, <1>5, <1>6, <1>7, <1>8, <1>9, <1>10, <1>11 DEF InControl
<1> QED  BY <1>1, <1>7, <1>12

(* A function of the program is in control of the frame on top. *)
Running(s, d, m, n) ==
  /\ InControl(s, d, m, n) /\ s.cs[m].t \in {"exec", "cfn"} /\ d[m] = n /\ n > 1 /\ Counts(s)
  /\ s.cs[m].t = "exec" => s.ci[n].kind = "Lau"
  /\ s.cs[m].t = "cfn" => s.ci[n].kind = "C"
  /\ ~s.ci[n].clsret /\ s.ci[n].recst = "ok"
  /\ \A j \in 1..m : d[j] = n => j = m

(* A function of the program that is in control has a frame of its own. *)
LEMMA RunsInFrame ==
  ASSUME NEW s, NEW d, NEW m, NEW n, InControl(s, d, m, n), s.cs[m].t \in {"exec", "cfn"}
  PROVE  Running(s, d, m, n)
<1>1. Skeleton(s, d) /\ d[m] = n /\ m \in 1..m /\ m \in Nat /\ m = Len(s.cs) /\ n = Len(s.ci)
        /\ n \in Nat /\ n > 0 /\ m > 0
      /\ FrameOk(s, n) /\ Counts(s)
  BY DEF InControl, Base
<1>2. OnFrame(s, s.cs[m], n)
  BY <1>1 DEF Skeleton, Depths
<1>3. n > 1
  <2>1. n # 1
    <3>1. CASE s.cs[m].t = "cfn"
      BY <1>2, <3>1 DEF OnFrame
    <3>2. CASE s.cs[m].t = "exec"
      <4>1. s.ci[n].kind = "Lau"
        BY <1>2, <3>2 DEF OnFrame
      <4>2. s.ci[1].kind = "C"
        BY <1>1 DEF Skeleton, Frames, BaseCI, Frame
      <4> QED  BY <4>1, <4>2
    <3> QED  BY <3>1, <3>2
  <2>2. \A q \in Nat : q > 0 /\ q # 1 => q > 1
    OBVIOUS
  <2> QED  BY <1>1, <2>1, <2>2, Zenon
<1>4. \A j \in 1..m : d[j] = n => j = m
  BY <1>1, OnTop
<1>5. /\ s.cs[m].t = "exec" => s.ci[n].kind = "Lau"
      /\ s.cs[m].t = "cfn" => s.ci[n].kind = "C"
      /\ ~s.ci[n].clsret /\ s.ci[n].recst = "ok"
  BY <1>1, <1>2 DEF OnFrame, FrameOk
<1> QED  BY <1>1, <1>3, <1>4, <1>5 DEF Running

(* Where a function may yield, no C function on the C stack waits for a result. *)
LEMMA NoBarrier ==
  ASSUME NEW s, NEW d, NEW m, NEW n, Running(s, d, m, n), s.nny = 0
  PROVE  /\ \A j \in 1..m : ~Try(s.cs[j], Protected)
         /\ \A i \in 2..(n - 1) : MayBeSkipped(s.ci[i])
         /\ AllYieldable(s)
<1>1. /\ Skeleton(s, d) /\ CFunctions(s.cs) /\ Depths(s, d) /\ Waiting(s, d) /\ d[m] = n
         /\ m \in 1..m
      /\ m \in Nat /\ m = Len(s.cs) /\ n = Len(s.ci) /\ n \in Nat /\ Counts(s)
         /\ s.cs[m].t \in {"exec", "cfn"}
      /\ s.status = "ok" /\ s \in State
  BY DEF Running, InControl, Base, Skeleton
<1>2. \A j \in 1..m : s.cs[j].t = "ccall" => s.cs[j].y # 1
  <2>1. Cardinality(NonYieldable(s.cs, m)) = 0 /\ IsFiniteSet(NonYieldable(s.cs, m))
    BY <1>1, CountedSets DEF Counts, NonYieldableAt
  <2>2. NonYieldable(s.cs, m) = {}
    BY <2>1, FS_EmptySet
  <2> QED  BY <2>2 DEF NonYieldable
<1>3. ASSUME NEW j \in 1..m, s.cs[j].t \notin {"exec", "cfn"}
      PROVE  j + 1 \in 1..m /\ j \in 1..(m - 1) /\ CallsNext(s.cs[j], s.cs[j + 1])
             /\ Deeper(s, d, j)
             /\ OnFrame(s, s.cs[j], d[j]) /\ OnFrame(s, s.cs[j + 1], d[j + 1])
  <2>1. j # m
    BY <1>1, <1>3
  <2>2. j + 1 \in 1..m /\ j \in 1..(m - 1)
    BY <1>1, <2>1
  <2> QED  BY <1>1, <2>2 DEF CFunctions, Depths
<1>4. ASSUME NEW j \in 1..m, s.cs[j].t = "close"
      PROVE  s.cs[j].yy
  <2>1. j + 1 \in 1..m /\ CallsNext(s.cs[j], s.cs[j + 1])
    BY <1>3, <1>4
  <2>2. s.cs[j + 1].t = "ccall" /\ (~s.cs[j].yy => s.cs[j + 1].y = 1)
    BY <1>4, <2>1 DEF CallsNext, Try, Closing
  <2> QED  BY <1>2, <2>1, <2>2
<1>5. ASSUME NEW j \in 1..m, Try(s.cs[j], Protected)
      PROVE  s.cs[j + 1].t = "reset" /\ j + 1 \in 1..m
  <2>1. s.cs[j].t = "try"
    BY <1>5 DEF Try
  <2>2. j + 1 \in 1..m /\ CallsNext(s.cs[j], s.cs[j + 1]) /\ OnFrame(s, s.cs[j + 1], d[j + 1])
    BY <1>3, <2>1
  <2>3. CASE s.cs[j + 1].t = "ccall"
    BY <1>2, <1>5, <2>1, <2>2, <2>3 DEF CallsNext, Try, Closing, Protected
  <2>4. CASE Closing(s.cs[j + 1], {"closep"})
    BY <1>4, <2>2, <2>4 DEF OnFrame, CloseOk, Closing
  <2> QED  BY <1>5, <2>1, <2>2, <2>3, <2>4 DEF CallsNext, Try, Protected
<1>6. ASSUME NEW j \in 1..m, Try(s.cs[j], Protected)
      PROVE  FALSE
  <2> DEFINE i == j + 1
             l == i + 1
  <2>1. s.cs[i].t = "reset" /\ i \in 1..m
    BY <1>5, <1>6
  <2>2. l \in 1..m /\ CallsNext(s.cs[i], s.cs[l])
    BY <1>3, <2>1
  <2>3. Try(s.cs[l], Protected)
    BY <2>1, <2>2 DEF CallsNext, Try, Closing, Protected
  <2>4. s.cs[l + 1].t = "reset" /\ l + 1 \in 1..m
    <3> HIDE DEF l
    <3> QED  BY <1>5, <2>2, <2>3
  <2>5. EntryOk(s.cs, l + 1)
    BY <1>1, <2>4 DEF CFunctions
  <2>6. l + 1 <= 3
    BY <2>4, <2>5 DEF EntryOk
  <2> QED  BY <2>6
<1>7. ASSUME NEW i \in 2..(n - 1), ~MayBeSkipped(s.ci[i])
      PROVE  FALSE
  <2>1. PICK j \in 1..m : s.cs[j].t = "cfn" /\ d[j] = i
    BY <1>1, <1>7 DEF Waiting, ErrorStatus
  <2>2. j # m
    BY <1>1, <2>1
  <2>3. j + 1 \in 1..m /\ j \in 1..(m - 1)
    BY <1>1, <2>2
  <2>4. CallsNext(s.cs[j], s.cs[j + 1]) /\ Deeper(s, d, j) /\ OnFrame(s, s.cs[j + 1], d[j + 1])
    BY <1>1, <2>3 DEF CFunctions, Depths
  <2>5. CASE s.cs[j + 1].t = "ccall"
    <3>1. s.cs[j + 1].y # 1
      BY <1>2, <2>3, <2>5
    <3>2. s.ci[i].k
      BY <2>1, <2>4, <2>5, <3>1 DEF Deeper
    <3>3. s.ci[i].pc # "top"
      BY <2>1, <2>4, <2>5 DEF Deeper, Beneath
    <3> QED  BY <1>7, <3>2, <3>3 DEF MayBeSkipped
  <2>6. CASE Closing(s.cs[j + 1], {"top"})
    BY <1>4, <2>3, <2>4, <2>6 DEF OnFrame, CloseOk, Closing
  <2>7. CASE Try(s.cs[j + 1], Protected)
    BY <1>6, <2>3, <2>7
  <2> QED  BY <2>1, <2>4, <2>5, <2>6, <2>7 DEF CallsNext, Try, Closing
<1>8. AllYieldable(s)
  <2> SUFFICES ASSUME NEW j \in 1..Len(s.cs), s.cs[j].t = "ccall" PROVE s.cs[j].y = 0
    BY DEF AllYieldable
  <2>1. s.cs[j] \in CFunction
    BY <1>1, StateType
  <2>2. s.cs[j].y \in {0, 1}
    BY <2>1, EntryType DEF CallC
  <2> QED  BY <1>1, <1>2, <2>2
<1> QED  BY <1>6, <1>7, <1>8
=============================================================================
