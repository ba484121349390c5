--------------------------- MODULE LauCall_lemmas ---------------------------
(***************************************************************************)
(* Lemmas for the proofs about LauCall: numbers and sequences, what the    *)
(* operators on states change, the counts in nCcalls, and how the invariant*)
(* of LauCallInv survives a change of the running frame, one C function or *)
(* one frame more or less, and a longjmp that cuts the C stack.            *)
(***************************************************************************)
EXTENDS LauCallInv, SequenceTheorems, FiniteSetTheorems, WellFoundedInduction, TLAPS

-----------------------------------------------------------------------------
(* Numbers, sets and sequences *)

(* A set of natural numbers has a least element. *)
LEMMA MinOf ==
  ASSUME NEW S \in SUBSET Nat, S # {}
  PROVE  Min(S) \in S /\ \A y \in S : Min(S) <= y
<1> DEFINE R == {ss \in Nat \X Nat : ss[1] < ss[2]}
<1>1. IsWellFoundedOn(R, Nat)
  BY NatLessThanWellFounded DEF OpToRel
<1>2. \E x \in S : \A y \in S : ~(<<y, x>> \in R)
  <2> HIDE DEF R
  <2> QED  BY <1>1, WFMin
<1>3. \A x, y \in Nat : y < x => <<y, x>> \in R
  OBVIOUS
<1> HIDE DEF R
<1>4. \E x \in S : \A y \in S : x <= y
  <2>1. PICK x \in S : \A y \in S : ~(<<y, x>> \in R)
    BY <1>2
  <2>2. \A y \in S : ~(y < x)
    BY <1>3, <2>1
  <2> QED  BY <2>2
<1> QED  BY <1>4 DEF Min

(* A bounded set of natural numbers has a greatest element. *)
LEMMA MaxOf ==
  ASSUME NEW k \in Nat, NEW S \in SUBSET (0..k), S # {}
  PROVE  Max(S) \in S /\ \A y \in S : Max(S) >= y
<1> DEFINE T == {k - x : x \in S}
<1>1. \A x \in S : k - x \in Nat
  OBVIOUS
<1>2. PICK z \in T : \A y \in T : z <= y
  <2>1. T \in SUBSET Nat /\ T # {}
    BY <1>1
  <2> HIDE DEF T
  <2> QED  BY <2>1, MinOf
<1>3. \E x \in S : \A y \in S : x >= y
  <2>1. z \in {k - x : x \in S} /\ \A y \in {k - x : x \in S} : z <= y
    BY <1>2
  <2>2. PICK x \in S : z = k - x
    BY <2>1
  <2>3. \A y \in S : k - y \in Nat /\ z <= k - y
    BY <2>1
  <2>4. \A y \in S : x >= y
    <3>1. \A a, b \in 0..k : k - a <= k - b => a >= b
      OBVIOUS
    <3> QED  BY <2>2, <2>3, <3>1
  <2> QED  BY <2>4
<1> QED  BY <1>3 DEF Max

(* The ends of a sequence. *)
LEMMA Prefix ==
  ASSUME NEW T, NEW q \in Seq(T), NEW k \in 0..Len(q)
  PROVE  /\ SubSeq(q, 1, k) \in Seq(T) /\ Len(SubSeq(q, 1, k)) = k
         /\ \A i \in 1..k : SubSeq(q, 1, k)[i] = q[i]
<1>1. \A i \in 1..k : q[i] \in T
  BY ElementOfSeq
<1> QED  BY <1>1, SubSeqProperties

(* What Front and Last return. *)
LEMMA FrontLast ==
  ASSUME NEW T, NEW q \in Seq(T), q # <<>>
  PROVE  /\ Len(q) > 0 /\ Last(q) = q[Len(q)] /\ Last(q) \in T
         /\ Front(q) \in Seq(T) /\ Len(Front(q)) = Len(q) - 1
         /\ \A i \in 1..(Len(q) - 1) : Front(q)[i] = q[i]
<1>1. Len(q) \in Nat /\ Len(q) > 0
  BY EmptySeq
<1>2. Len(q) - 1 \in 0..Len(q)
  BY <1>1
<1>3. Front(q) \in Seq(T) /\ Len(Front(q)) = Len(q) - 1
        /\ \A i \in 1..(Len(q) - 1) : Front(q)[i] = q[i]
  BY <1>2, Prefix DEF Front
<1> QED  BY <1>1, <1>3, ElementOfSeq DEF Last

(* A function changed at one argument. *)
LEMMA Changed ==
  ASSUME NEW d \in [Nat -> Nat], NEW k \in Nat, NEW x \in Nat
  PROVE  /\ [d EXCEPT ![k] = x] \in [Nat -> Nat] /\ [d EXCEPT ![k] = x][k] = x
         /\ \A j \in Nat : j # k => [d EXCEPT ![k] = x][j] = d[j]
OBVIOUS

(* Append is undone by Front and Last. *)
LEMMA LastAppend ==
  ASSUME NEW T, NEW q \in Seq(T), NEW e \in T
  PROVE  /\ Last(Append(q, e)) = e /\ Front(Append(q, e)) = q
BY AppendProperties DEF Front, Last

(* A number and the next one. *)
LEMMA Successor ==
  ASSUME NEW q \in Nat, q > 0, NEW p, p = q + 1
  PROVE  /\ p \in Nat /\ p > 0 /\ p # 1 /\ q # p /\ q < p /\ q <= p /\ p > 1 /\ p - 1 = q
         /\ q \in 1..q /\ q \in 1..p /\ p \in 1..p
         /\ \A j \in 1..p : j \in 1..q \/ j = p
         /\ \A j \in 1..q : j \in Nat /\ j # p /\ j \in 1..p
OBVIOUS

-----------------------------------------------------------------------------
(* The operators on states *)

(* The parts of a state have their types. *)
LEMMA StateType ==
  ASSUME NEW s \in State
  PROVE  /\ s.ci \in Seq(CallInfo) /\ s.stack \in Seq(StackValue) /\ s.tbclist \in Seq(Nat)
         /\ s.status \in Status /\ s.nc \in Nat /\ s.nny \in Nat /\ s.cs \in Seq(CFunction)
         /\ s.ret \in Seq(Status \cup StackValue)
         /\ Len(s.ci) \in Nat /\ Len(s.stack) \in Nat /\ Len(s.tbclist) \in Nat /\ Len(s.cs) \in Nat
         /\ \A i \in 1..Len(s.ci) : s.ci[i] \in CallInfo
         /\ \A i \in 1..Len(s.stack) : s.stack[i] \in StackValue
         /\ \A i \in 1..Len(s.tbclist) : s.tbclist[i] \in Nat
         /\ \A i \in 1..Len(s.cs) : s.cs[i] \in CFunction
<1>1. /\ s.ci \in Seq(CallInfo) /\ s.stack \in Seq(StackValue) /\ s.tbclist \in Seq(Nat)
      /\ s.status \in Status /\ s.nc \in Nat /\ s.nny \in Nat /\ s.cs \in Seq(CFunction)
      /\ s.ret \in Seq(Status \cup StackValue)
  BY DEF State
<1> QED  BY <1>1, ElementOfSeq, LenProperties

(* What the operators on states change. *)
SameCounts(s, t) ==
  t.tbclist = s.tbclist /\ t.status = s.status /\ t.nc = s.nc /\ t.nny = s.nny /\ t.ret = s.ret

Pushed(s, t, e) ==
  /\ t \in State /\ t.ci = s.ci /\ t.stack = s.stack /\ SameCounts(s, t)
  /\ Len(t.cs) = Len(s.cs) + 1 /\ t.cs[Len(s.cs) + 1] = e
  /\ \A j \in 1..Len(s.cs) : t.cs[j] = s.cs[j]

Popped(s, t) ==
  /\ t \in State /\ t.ci = s.ci /\ t.stack = s.stack /\ SameCounts(s, t)
  /\ Len(s.cs) > 0 /\ Len(t.cs) = Len(s.cs) - 1
  /\ \A j \in 1..Len(t.cs) : t.cs[j] = s.cs[j]

Grown(s, t, v) ==
  /\ t \in State /\ t.ci = s.ci /\ t.cs = s.cs /\ SameCounts(s, t)
  /\ Len(v) \in Nat /\ Len(t.stack) = Len(s.stack) + Len(v)
  /\ \A p \in 1..Len(s.stack) : t.stack[p] = s.stack[p]
  /\ \A p \in 1..Len(v) : t.stack[Len(s.stack) + p] = v[p]

Cut(s, t, top) ==
  /\ t \in State /\ t.ci = s.ci /\ t.cs = s.cs /\ SameCounts(s, t)
  /\ Len(t.stack) = top - 1
  /\ \A p \in 1..(top - 1) : t.stack[p] = s.stack[p]

Framed(s, t, f) ==
  /\ t \in State /\ t.stack = s.stack /\ t.cs = s.cs /\ SameCounts(s, t)
  /\ Len(t.ci) = Len(s.ci) /\ t.ci[Len(s.ci)] = f
  /\ \A i \in 1..(Len(s.ci) - 1) : t.ci[i] = s.ci[i]

Erred(s, t, top) ==
  /\ t \in State /\ t.ci = s.ci /\ t.cs = s.cs /\ SameCounts(s, t)
  /\ Len(t.stack) = top
  /\ \A p \in 1..(top - 1) : t.stack[p] = s.stack[p]

(* PushC adds one C function and changes nothing else. *)
LEMMA PushCIs ==
  ASSUME NEW s \in State, NEW e \in CFunction
  PROVE  Pushed(s, PushC(s, e), e)
<1> DEFINE t == PushC(s, e)
<1>1. Append(s.cs, e) \in Seq(CFunction)
  BY StateType, AppendProperties
<1>2. t \in State /\ t.cs = Append(s.cs, e)
  BY <1>1 DEF PushC, State
<1>3. t.ci = s.ci /\ t.stack = s.stack /\ SameCounts(s, t)
  BY DEF PushC, State, SameCounts
<1>4. /\ Len(t.cs) = Len(s.cs) + 1 /\ t.cs[Len(s.cs) + 1] = e
      /\ \A j \in 1..Len(s.cs) : t.cs[j] = s.cs[j]
  BY <1>2, StateType, AppendProperties
<1> QED  BY <1>2, <1>3, <1>4 DEF Pushed

(* PopC removes the last C function and changes nothing else. *)
LEMMA PopCIs ==
  ASSUME NEW s \in State, s.cs # <<>>
  PROVE  Popped(s, PopC(s))
<1> DEFINE t == PopC(s)
<1>1. Front(s.cs) \in Seq(CFunction)
  BY StateType, FrontLast
<1>2. t \in State /\ t.cs = Front(s.cs)
  BY <1>1 DEF PopC, State
<1>3. t.ci = s.ci /\ t.stack = s.stack /\ SameCounts(s, t)
  BY DEF PopC, State, SameCounts
<1>4. /\ Len(s.cs) > 0 /\ Len(Front(s.cs)) = Len(s.cs) - 1
      /\ \A j \in 1..(Len(s.cs) - 1) : Front(s.cs)[j] = s.cs[j]
  BY StateType, FrontLast
<1> QED  BY <1>2, <1>3, <1>4 DEF Popped

(* PushStack adds its values above those of the stack. *)
LEMMA PushStackIs ==
  ASSUME NEW s \in State, NEW v \in Seq(StackValue)
  PROVE  Grown(s, PushStack(s, v), v)
<1> DEFINE t == PushStack(s, v)
<1>1. s.stack \o v \in Seq(StackValue)
  BY StateType, ConcatProperties
<1>2. t \in State /\ t.stack = s.stack \o v
  BY <1>1 DEF PushStack, State
<1>3. t.ci = s.ci /\ t.cs = s.cs /\ SameCounts(s, t)
  BY DEF PushStack, State, SameCounts
<1>4. Len(v) \in Nat /\ Len(s.stack) \in Nat
  BY LenProperties, StateType
<1>5. /\ Len(t.stack) = Len(s.stack) + Len(v)
      /\ \A p \in 1..Len(s.stack) : t.stack[p] = s.stack[p]
      /\ \A p \in 1..Len(v) : t.stack[Len(s.stack) + p] = v[p]
  BY <1>2, <1>4, StateType, ConcatProperties
<1> QED  BY <1>2, <1>3, <1>4, <1>5 DEF Grown

(* SetTop keeps the values below the new top. *)
LEMMA SetTopIs ==
  ASSUME NEW s \in State, NEW p \in 1..(Len(s.stack) + 1)
  PROVE  Cut(s, SetTop(s, p), p)
<1> DEFINE t == SetTop(s, p)
<1>1. p - 1 \in 0..Len(s.stack)
  BY StateType
<1>2. SubSeq(s.stack, 1, p - 1) \in Seq(StackValue)
  BY <1>1, StateType, Prefix
<1>3. t \in State /\ t.stack = SubSeq(s.stack, 1, p - 1)
  BY <1>2 DEF SetTop, State
<1>4. t.ci = s.ci /\ t.cs = s.cs /\ SameCounts(s, t)
  BY DEF SetTop, State, SameCounts
<1>5. Len(t.stack) = p - 1 /\ \A i \in 1..(p - 1) : t.stack[i] = s.stack[i]
  BY <1>1, <1>3, StateType, Prefix
<1> QED  BY <1>3, <1>4, <1>5 DEF Cut

(* SetCI replaces the CallInfo of the running frame. *)
LEMMA SetCIIs ==
  ASSUME NEW s \in State, Len(s.ci) > 0, NEW f \in CallInfo
  PROVE  Framed(s, SetCI(s, f), f)
<1> DEFINE t == SetCI(s, f)
<1>1. Len(s.ci) \in 1..Len(s.ci)
  BY StateType
<1>2. [s.ci EXCEPT ![Len(s.ci)] = f] \in Seq(CallInfo)
  BY <1>1, StateType, ExceptSeq
<1>3. t \in State /\ t.ci = [s.ci EXCEPT ![Len(s.ci)] = f]
  BY <1>2 DEF SetCI, State
<1>4. t.stack = s.stack /\ t.cs = s.cs /\ SameCounts(s, t)
  BY DEF SetCI, State, SameCounts
<1>5. /\ Len(t.ci) = Len(s.ci) /\ t.ci[Len(s.ci)] = f
      /\ \A i \in 1..(Len(s.ci) - 1) : t.ci[i] = s.ci[i]
  BY <1>1, <1>3, StateType, ExceptSeq
<1> QED  BY <1>3, <1>4, <1>5 DEF Framed

(* seterrorobj cuts the stack and pushes one value. *)
LEMMA SetErrorIs ==
  ASSUME NEW s \in State, Len(s.stack) > 0, NEW p \in 1..(Len(s.stack) + 1), NEW status
  PROVE  Erred(s, seterrorobj(s, status, p), p)
<1> DEFINE v == IF status = "mem" THEN "mem" ELSE Last(s.stack)
           w == <<v>>
           u == SetTop(s, p)
           t == PushStack(u, w)
<1>1. v \in StackValue
  <2>1. Last(s.stack) \in StackValue
    BY StateType DEF Last
  <2> QED  BY <2>1 DEF StackValue, ErrorValue
<1>2. w \in Seq(StackValue) /\ Len(w) = 1
  BY <1>1
<1>3. t = seterrorobj(s, status, p)
  BY DEF seterrorobj
<1>4. Cut(s, u, p)
  BY SetTopIs
<1> HIDE DEF v, w, u
<1>5. Grown(u, t, w)
  BY <1>2, <1>4, PushStackIs DEF Cut
<1> HIDE DEF t
<1>6. Len(s.stack) \in Nat
  BY StateType
<1>7. Erred(s, t, p)
  BY <1>2, <1>4, <1>5, <1>6 DEF Cut, Grown, Erred, SameCounts
<1> QED  BY <1>3, <1>7

(* The error object. *)
LEMMA SetErrorLast ==
  ASSUME NEW s \in State, Len(s.stack) > 0, NEW status, NEW top \in 1..(Len(s.stack) + 1)
  PROVE  Last(seterrorobj(s, status, top).stack) = IF status = "mem" THEN "mem" ELSE Last(s.stack)
<1> DEFINE x == IF status = "mem" THEN "mem" ELSE Last(s.stack)
           q == SubSeq(s.stack, 1, top - 1)
<1>1. s.stack \in Seq(StackValue) /\ Len(s.stack) \in Nat
  BY StateType
<1>2. seterrorobj(s, status, top).stack = q \o <<x>>
  BY DEF seterrorobj, PushStack, SetTop, State
<1>3. q \in Seq(StackValue)
  <2>1. top - 1 \in 0..Len(s.stack)
    BY <1>1
  <2> QED  BY <1>1, <2>1, Prefix
<1>4. x \in StackValue
  <2>1. Last(s.stack) \in StackValue
    BY StateType DEF Last
  <2> QED  BY <2>1 DEF StackValue, ErrorValue
<1> HIDE DEF q, x
<1>5. q \o <<x>> = Append(q, x)
  BY <1>3, <1>4
<1>6. Last(Append(q, x)) = x
  BY <1>3, <1>4, LastAppend
<1> QED  BY <1>2, <1>5, <1>6 DEF x

-----------------------------------------------------------------------------
(* The counts in nCcalls *)

(* Each kind of C function has its own fields. *)
LEMMA EntryType ==
  ASSUME NEW e \in CFunction
  PROVE  /\ e.t \in {"try", "ccall", "exec", "cfn", "unroll", "close", "reset"}
         /\ e.t = "try" => e \in TryC
         /\ e.t = "ccall" => e \in CallC
         /\ e.t = "close" => e \in CloseC
         /\ e.t = "reset" => e \in ResetC
BY DEF CFunction, TryC, CallC, PlainC, CloseC, ResetC

(* The last reset among the first j C functions. *)
LEMMA ResetBelowIs ==
  ASSUME NEW cs, NEW j \in Nat
  PROVE  /\ ResetBelow(cs, j) \in 0..j
         /\ ResetBelow(cs, j) > 0 => cs[ResetBelow(cs, j)].t = "reset"
         /\ \A i \in 1..j : cs[i].t = "reset" => i <= ResetBelow(cs, j)
<1> DEFINE S == {0} \cup {i \in 1..j : cs[i].t = "reset"}
<1>1. S \in SUBSET (0..j) /\ S # {}
  OBVIOUS
<1>2. Max(S) \in S /\ \A y \in S : Max(S) >= y
  <2> HIDE DEF S
  <2> QED  BY <1>1, MaxOf
<1> QED  BY <1>2 DEF ResetBelow

(* The calls that nCcalls counts are finitely many. *)
LEMMA CountedSets ==
  ASSUME NEW cs, NEW j \in Nat
  PROVE  /\ Counted(cs, j) \subseteq 1..j /\ IsFiniteSet(Counted(cs, j))
         /\ NonYieldable(cs, j) \subseteq 1..j /\ IsFiniteSet(NonYieldable(cs, j))
         /\ Cardinality(Counted(cs, j)) \in Nat /\ Cardinality(NonYieldable(cs, j)) \in Nat
<1>1. Counted(cs, j) \subseteq 1..j /\ NonYieldable(cs, j) \subseteq 1..j
  BY DEF Counted, NonYieldable
<1>2. IsFiniteSet(1..j)
  BY FS_Interval
<1>3. IsFiniteSet(Counted(cs, j)) /\ IsFiniteSet(NonYieldable(cs, j))
  BY <1>1, <1>2, FS_Subset
<1> QED  BY <1>1, <1>3, FS_CardinalityType

(* The counts depend on no function above. *)
LEMMA SameCount ==
  ASSUME NEW cs, NEW q, NEW j \in Nat, \A i \in 1..j : cs[i] = q[i]
  PROVE  CcallsAt(cs, j) = CcallsAt(q, j) /\ NonYieldableAt(cs, j) = NonYieldableAt(q, j)
<1>1. ResetBelow(cs, j) = ResetBelow(q, j)
  <2>1. {i \in 1..j : cs[i].t = "reset"} = {i \in 1..j : q[i].t = "reset"}
    OBVIOUS
  <2> QED  BY <2>1 DEF ResetBelow
<1>2. Before(cs, j) = Before(q, j)
  BY <1>1, ResetBelowIs DEF Before
<1>3. Counted(cs, j) = Counted(q, j) /\ NonYieldable(cs, j) = NonYieldable(q, j)
  BY DEF Counted, NonYieldable
<1> QED  BY <1>2, <1>3 DEF CcallsAt, NonYieldableAt

(* The count that a reset leaves is a number. *)
LEMMA BeforeType ==
  ASSUME NEW cs \in Seq(CFunction), NEW j \in 0..Len(cs)
  PROVE  Before(cs, j) \in Nat
<1>1. j \in Nat /\ Len(cs) \in Nat
  BY LenProperties
<1>2. CASE ResetBelow(cs, j) > 0
  <2>1. ResetBelow(cs, j) \in 1..Len(cs) /\ cs[ResetBelow(cs, j)].t = "reset"
    BY <1>1, <1>2, ResetBelowIs
  <2>2. cs[ResetBelow(cs, j)] \in CFunction
    BY <2>1, ElementOfSeq
  <2> QED  BY <1>2, <2>1, <2>2, EntryType DEF Before, ResetC
<1>3. CASE ~(ResetBelow(cs, j) > 0)
  BY <1>3 DEF Before
<1> QED  BY <1>2, <1>3

(* What one function adds to them. *)
LEMMA CountStep ==
  ASSUME NEW cs \in Seq(CFunction), NEW j \in 1..Len(cs)
  PROVE  /\ cs[j].t = "ccall" =>
              /\ CcallsAt(cs, j) = CcallsAt(cs, j - 1) + cs[j].inc
              /\ NonYieldableAt(cs, j) = NonYieldableAt(cs, j - 1) + cs[j].y
         /\ cs[j].t \notin {"ccall", "reset"} =>
              /\ CcallsAt(cs, j) = CcallsAt(cs, j - 1)
              /\ NonYieldableAt(cs, j) = NonYieldableAt(cs, j - 1)
         /\ cs[j].t = "reset" /\ (\A i \in 1..j : cs[i].t # "ccall") =>
              /\ CcallsAt(cs, j) = cs[j].nc /\ NonYieldableAt(cs, j) = 0
<1>1. j \in Nat /\ j - 1 \in Nat /\ Len(cs) \in Nat /\ cs[j] \in CFunction
  BY LenProperties, ElementOfSeq
<1>2. ASSUME cs[j].t # "reset"
      PROVE  Before(cs, j) = Before(cs, j - 1)
  <2>1. {i \in 1..j : cs[i].t = "reset"} = {i \in 1..(j - 1) : cs[i].t = "reset"}
    BY <1>1, <1>2
  <2> QED  BY <2>1 DEF Before, ResetBelow
<1>3. ASSUME cs[j].t = "ccall"
      PROVE  /\ Cardinality(Counted(cs, j)) = Cardinality(Counted(cs, j - 1)) + cs[j].inc
             /\ NonYieldableAt(cs, j) = NonYieldableAt(cs, j - 1) + cs[j].y
  <2>1. cs[j].inc \in {0, 1} /\ cs[j].y \in {0, 1}
    BY <1>1, <1>3, EntryType DEF CallC
  <2>2. /\ cs[j].inc = 0 => Counted(cs, j) = Counted(cs, j - 1)
        /\ cs[j].inc = 1 => Counted(cs, j) = Counted(cs, j - 1) \cup {j}
    BY <1>1, <1>3 DEF Counted
  <2>3. /\ cs[j].y = 0 => NonYieldable(cs, j) = NonYieldable(cs, j - 1)
        /\ cs[j].y = 1 => NonYieldable(cs, j) = NonYieldable(cs, j - 1) \cup {j}
    BY <1>1, <1>3 DEF NonYieldable
  <2>4. j \notin Counted(cs, j - 1) /\ j \notin NonYieldable(cs, j - 1)
    BY <1>1 DEF Counted, NonYieldable
  <2>5. /\ Cardinality(Counted(cs, j - 1) \cup {j}) = Cardinality(Counted(cs, j - 1)) + 1
        /\ Cardinality(NonYieldable(cs, j - 1) \cup {j}) = Cardinality(NonYieldable(cs, j - 1)) + 1
    BY <1>1, <2>4, CountedSets, FS_AddElement
  <2>6. Cardinality(Counted(cs, j - 1)) \in Nat /\ Cardinality(NonYieldable(cs, j - 1)) \in Nat
    BY <1>1, CountedSets
  <2>7. Cardinality(Counted(cs, j)) = Cardinality(Counted(cs, j - 1)) + cs[j].inc
    <3>1. CASE cs[j].inc = 0
      BY <3>1, <2>2, <2>6
    <3>2. CASE cs[j].inc = 1
      BY <3>2, <2>2, <2>5
    <3> QED  BY <2>1, <3>1, <3>2
  <2>8. Cardinality(NonYieldable(cs, j)) = Cardinality(NonYieldable(cs, j - 1)) + cs[j].y
    <3>1. CASE cs[j].y = 0
      BY <3>1, <2>3, <2>6
    <3>2. CASE cs[j].y = 1
      BY <3>2, <2>3, <2>5
    <3> QED  BY <2>1, <3>1, <3>2
  <2> QED  BY <2>7, <2>8 DEF NonYieldableAt
<1>4. ASSUME cs[j].t # "ccall"
      PROVE  Counted(cs, j) = Counted(cs, j - 1) /\ NonYieldable(cs, j) = NonYieldable(cs, j - 1)
  BY <1>1, <1>4 DEF Counted, NonYieldable
<1>5. ASSUME cs[j].t = "reset", \A i \in 1..j : cs[i].t # "ccall"
      PROVE  CcallsAt(cs, j) = cs[j].nc /\ NonYieldableAt(cs, j) = 0
  <2>1. Counted(cs, j) = {} /\ NonYieldable(cs, j) = {}
    BY <1>5 DEF Counted, NonYieldable
  <2>2. ResetBelow(cs, j) = j
    BY <1>1, <1>5, ResetBelowIs
  <2>3. cs[j].nc \in Nat
    BY <1>1, <1>5, EntryType DEF ResetC
  <2> QED  BY <1>1, <2>1, <2>2, <2>3, FS_EmptySet DEF CcallsAt, NonYieldableAt, Before
<1>6. ASSUME cs[j].t = "ccall"
      PROVE  CcallsAt(cs, j) = CcallsAt(cs, j - 1) + cs[j].inc
  <2>1. cs[j].inc \in 0..1
    BY <1>1, <1>6, EntryType DEF CallC
  <2>2. Before(cs, j) = Before(cs, j - 1)
    BY <1>2, <1>6
  <2>3. Before(cs, j - 1) \in Nat
    BY <1>1, BeforeType
  <2> QED  BY <1>1, <1>3, <1>6, <2>1, <2>2, <2>3, CountedSets DEF CcallsAt
<1>7. ASSUME cs[j].t \notin {"ccall", "reset"}
      PROVE  CcallsAt(cs, j) = CcallsAt(cs, j - 1)
             /\ NonYieldableAt(cs, j) = NonYieldableAt(cs, j - 1)
  BY <1>2, <1>4, <1>7 DEF CcallsAt, NonYieldableAt
<1> QED  BY <1>3, <1>5, <1>6, <1>7

(* The counts are numbers. *)
LEMMA CountType ==
  ASSUME NEW cs \in Seq(CFunction), NEW j \in 0..Len(cs)
  PROVE  CcallsAt(cs, j) \in Nat /\ NonYieldableAt(cs, j) \in Nat
<1>1. j \in Nat /\ Len(cs) \in Nat
  BY LenProperties
<1>2. Before(cs, j) \in Nat
  BY BeforeType
<1> QED  BY <1>1, <1>2, CountedSets DEF CcallsAt, NonYieldableAt

(* Every non-yieldable call is a counted one. *)
LEMMA NonYieldableIsCounted ==
  ASSUME NEW cs \in Seq(CFunction), NEW j \in 0..Len(cs),
         \A i \in 1..j : cs[i].t = "ccall" => cs[i].y <= cs[i].inc
  PROVE  NonYieldableAt(cs, j) <= CcallsAt(cs, j)
<1>1. j \in Nat /\ Len(cs) \in Nat
  BY LenProperties
<1>2. NonYieldable(cs, j) \subseteq Counted(cs, j)
  <2> SUFFICES ASSUME NEW i \in 1..j, cs[i].t = "ccall", cs[i].y = 1
               PROVE  cs[i].inc = 1
    BY DEF NonYieldable, Counted
  <2>1. cs[i] \in CFunction
    BY <1>1, ElementOfSeq
  <2>2. cs[i].inc \in 0..1
    BY <2>1, EntryType DEF CallC
  <2> QED  BY <2>2
<1>3. Cardinality(NonYieldable(cs, j)) <= Cardinality(Counted(cs, j))
  BY <1>1, <1>2, CountedSets, FS_Subset
<1>4. CcallsAt(cs, j) \in Nat /\ Before(cs, j) + Cardinality(Counted(cs, j)) = CcallsAt(cs, j)
  BY CountType DEF CcallsAt
<1>5. Before(cs, j) \in Nat
  BY BeforeType
<1> QED  BY <1>1, <1>3, <1>4, <1>5, CountedSets DEF NonYieldableAt

-----------------------------------------------------------------------------
(* Changes of the running frame *)

(* The fields of a CallInfo have their types. *)
LEMMA FrameType ==
  ASSUME NEW f \in CallInfo
  PROVE  /\ f.kind \in {"Lau", "C"} /\ f.func \in Nat /\ f.want \in {0, 1, MULTRET}
         /\ f.fresh \in BOOLEAN /\ f.args \in Seq(StackValue)
         /\ f.pc \in {"run", "call", "index", "add", "close", "return", "top"}
         /\ f.level \in Nat /\ f.k \in BOOLEAN /\ f.ypcall \in BOOLEAN
         /\ f.recst \in ErrorStatus \cup {"ok"} /\ f.tbc \in BOOLEAN /\ f.clsret \in BOOLEAN
         /\ f.u2 \in Nat
BY DEF CallInfo

(* A frame stays sound when what is above it grows. *)
LEMMA FrameOkKept ==
  ASSUME NEW s, NEW t, NEW i, FrameOk(s, i), t.ci[i] = s.ci[i], s.ci[i] \in CallInfo,
         CallTop(s, i) \in Nat, CallTop(t, i) \in Nat, CallTop(s, i) <= CallTop(t, i)
  PROVE  FrameOk(t, i)
<1>1. s.ci[i].u2 \in Nat /\ s.ci[i].level \in Nat /\ s.ci[i].func \in Nat
  BY FrameType
<1>2. CASE Returning(s.ci[i])
  BY <1>1, <1>2 DEF FrameOk
<1>3. CASE ~Returning(s.ci[i])
  BY <1>1, <1>3 DEF FrameOk
<1> QED  BY <1>2, <1>3

(* t differs from s at most in the running frame and in what is above its base *)
TopOnly(s, t) ==
  LET n == Len(s.ci) IN
  /\ Len(t.ci) = n /\ \A i \in 1..(n - 1) : t.ci[i] = s.ci[i]
  /\ t.ci[n].func = s.ci[n].func /\ t.ci[n].kind = s.ci[n].kind
  /\ t.ci[n].want = s.ci[n].want /\ t.ci[n].fresh = s.ci[n].fresh
  /\ n = 1 => t.ci[n] = s.ci[n]
  /\ s.ci[n].func <= Len(t.stack)
  /\ \A p \in 1..(s.ci[n].func - 1) : t.stack[p] = s.stack[p]

(* The frames have their bases inside the stack. *)
LEMMA SkeletonType ==
  ASSUME NEW s, NEW d, Skeleton(s, d)
  PROVE  /\ s \in State /\ Len(s.ci) \in Nat /\ Len(s.ci) > 0 /\ Len(s.stack) \in Nat
         /\ Len(s.cs) \in Nat
         /\ Len(s.tbclist) \in Nat /\ Len(s.stack) > 0
         /\ \A i \in 1..Len(s.ci) : /\ s.ci[i] \in CallInfo /\ s.ci[i].func \in 1..Len(s.stack)
                                    /\ i > 1 => s.ci[i].func > 1
         /\ \A j \in 1..Len(s.cs) : s.cs[j] \in CFunction
         /\ \A j \in Nat : d[j] \in Nat
<1>1. s \in State /\ Frames(s) /\ d \in [Nat -> Nat]
  BY DEF Skeleton
<1>2. /\ Len(s.ci) \in Nat /\ Len(s.stack) \in Nat /\ Len(s.cs) \in Nat /\ Len(s.tbclist) \in Nat
      /\ \A i \in 1..Len(s.ci) : s.ci[i] \in CallInfo
      /\ \A j \in 1..Len(s.cs) : s.cs[j] \in CFunction
  BY <1>1, StateType
<1>3. Len(s.ci) > 0 /\ s.ci[1].func = 1
  BY <1>1 DEF Frames, BaseCI, Frame
<1>4. \A i \in 1..Len(s.ci) : s.ci[i].func \in Nat /\ s.ci[i].func <= Len(s.stack)
  BY <1>1, <1>2, FrameType DEF Frames
<1>5. \A i, j \in 1..Len(s.ci) : i < j => s.ci[i].func < s.ci[j].func
  BY <1>1 DEF Frames
<1>6. \A i \in 1..Len(s.ci) : i > 1 => s.ci[i].func > 1
  <2> TAKE i \in 1..Len(s.ci)
  <2>1. 1 \in 1..Len(s.ci)
    BY <1>2, <1>3
  <2>2. s.ci[1].func < s.ci[i].func \/ ~(i > 1)
    BY <1>2, <1>5, <2>1
  <2> QED  BY <1>3, <1>4, <2>1, <2>2
<1>7. \A i \in 1..Len(s.ci) : s.ci[i].func \in 1..Len(s.stack)
  <2> TAKE i \in 1..Len(s.ci)
  <2>1. i > 1 \/ i = 1
    BY <1>2
  <2> QED  BY <1>2, <1>3, <1>4, <1>6, <2>1
<1>8. Len(s.stack) > 0
  <2>1. 1 \in 1..Len(s.ci)
    BY <1>2, <1>3
  <2> QED  BY <1>2, <1>7, <2>1
<1>9. \A j \in Nat : d[j] \in Nat
  BY <1>1
<1> QED  BY <1>1, <1>2, <1>3, <1>6, <1>7, <1>8, <1>9

(* The same of a state with its variables. *)
LEMMA BaseType ==
  ASSUME NEW s, NEW d, Base(s, d)
  PROVE  /\ s \in State /\ Len(s.ci) \in Nat /\ Len(s.ci) > 0 /\ Len(s.stack) \in Nat
         /\ Len(s.cs) \in Nat
         /\ Len(s.tbclist) \in Nat /\ Len(s.stack) > 0
         /\ \A i \in 1..Len(s.ci) : /\ s.ci[i] \in CallInfo /\ s.ci[i].func \in 1..Len(s.stack)
                                    /\ i > 1 => s.ci[i].func > 1
         /\ \A j \in 1..Len(s.cs) : s.cs[j] \in CFunction
         /\ \A j \in Nat : d[j] \in Nat
BY SkeletonType DEF Base

(* The frames below the running one end where they did. *)
LEMMA CallTopSame ==
  ASSUME NEW s, NEW t, TopOnly(s, t), Len(s.ci) \in Nat, NEW i \in 1..(Len(s.ci) - 1)
  PROVE  t.ci[i] = s.ci[i] /\ CallTop(t, i) = CallTop(s, i) /\ CallTop(s, i) = s.ci[i + 1].func
<1>1. t.ci[i + 1].func = s.ci[i + 1].func
  <2>1. CASE i + 1 = Len(s.ci)
    BY <2>1 DEF TopOnly
  <2>2. CASE i + 1 # Len(s.ci)
    BY <2>2 DEF TopOnly
  <2> QED  BY <2>1, <2>2
<1> QED  BY <1>1 DEF CallTop, TopOnly

(* no C call under way is one that cannot be yielded across *)
AllYieldable(s) == \A j \in 1..Len(s.cs) : s.cs[j].t = "ccall" => s.cs[j].y = 0

(* A function waits as it did. *)
LEMMA BeneathKept ==
  ASSUME NEW s, NEW t, NEW e, NEW c, NEW i, i \in Nat, Len(s.ci) \in Nat, Len(t.ci) \in Nat,
         Beneath(s, e, c, i),
         t.ci[i].pc = s.ci[i].pc,
         e.t = "ccall" /\ e.y = 1 =>
           \A x \in (i + 1)..Len(t.ci) : t.ci[x].ypcall => x <= Len(s.ci) /\ s.ci[x].ypcall,
         Try(e, {"pcall", "closep"}) /\ i < Len(t.ci) =>
           /\ i < Len(s.ci) /\ t.ci[i + 1].func = s.ci[i + 1].func
           /\ t.ci[i + 1].want = s.ci[i + 1].want
  PROVE  Beneath(t, e, c, i)
<1>1. ASSUME e.t = "ccall", e.y = 1, NEW x \in (i + 1)..Len(t.ci), t.ci[x].ypcall
      PROVE  FALSE
  <2>1. x <= Len(s.ci) /\ s.ci[x].ypcall
    BY <1>1
  <2>2. x \in (i + 1)..Len(s.ci)
    BY <2>1
  <2> QED  BY <1>1, <2>1, <2>2 DEF Beneath
<1>2. Try(e, {"pcall"}) => Try(e, {"pcall", "closep"})
  BY DEF Try
<1>3. Try(e, {"closep"}) => Try(e, {"pcall", "closep"})
  BY DEF Try
<1> QED  BY <1>1, <1>2, <1>3 DEF Beneath

(* How the running frame waits. *)
LEMMA BeneathLast ==
  ASSUME NEW s, NEW e, NEW c, NEW i, i \in Nat, i = Len(s.ci),
         e.t = "exec" /\ (c.t = "cfn" \/ Closing(c, {"poscall"}))
           => s.ci[i].pc \notin {"close", "return"},
         e.t = "cfn" /\ c.t # "close" => s.ci[i].pc # "top"
  PROVE  Beneath(s, e, c, i)
<1>1. \A x \in (i + 1)..Len(s.ci) : FALSE
  OBVIOUS
<1>2. ~(i < Len(s.ci))
  OBVIOUS
<1> QED  BY <1>1, <1>2 DEF Beneath

(* The frames stay sound if the running one does. *)
LEMMA FramesTop ==
  ASSUME NEW s, NEW d, Skeleton(s, d), NEW t \in State, TopOnly(s, t),
         FrameOk(t, Len(s.ci)),
         t.ci[Len(s.ci)].ypcall => \A i \in 2..(Len(s.ci) - 1) : MayBeSkipped(s.ci[i])
  PROVE  Frames(t)
<1> DEFINE n == Len(s.ci)
<1>1. n \in Nat /\ n > 0
  BY SkeletonType
<1>2. n \in Nat /\ n > 0 /\ Frames(s) /\ n = Len(s.ci)
  BY SkeletonType DEF Skeleton
<1> HIDE DEF n
<1>3. Len(t.ci) = n /\ Len(t.ci) \in 1..MaxFrames /\ t.ci[1] = BaseCI
  <2>1. s.ci[1] = BaseCI /\ Len(s.ci) \in 1..MaxFrames
    BY <1>2 DEF Frames
  <2>2. t.ci[1] = s.ci[1]
    <3>1. CASE n = 1
      BY <1>2, <3>1 DEF TopOnly
    <3>2. CASE n > 1
      <4>1. 1 \in 1..(n - 1)
        BY <1>2, <3>2
      <4> QED  BY <1>2, <4>1 DEF TopOnly
    <3>3. n = 1 \/ n > 1
      BY <1>1
    <3> QED  BY <3>1, <3>2, <3>3
  <2>3. Len(t.ci) = n
    BY <1>2 DEF TopOnly
  <2> QED  BY <1>2, <2>1, <2>2, <2>3
<1>4. \A i \in 1..n : t.ci[i].func = s.ci[i].func /\ t.ci[i].kind = s.ci[i].kind /\
                      t.ci[i].want = s.ci[i].want /\ t.ci[i].fresh = s.ci[i].fresh
  <2> TAKE i \in 1..n
  <2>1. i \in 1..(n - 1) \/ i = n
    BY <1>2
  <2> QED  BY <1>2, <2>1 DEF TopOnly
<1>5. \A i, j \in 1..n : i < j => t.ci[i].func < t.ci[j].func
  BY <1>2, <1>4 DEF Frames
<1>6. \A i \in 1..n : t.ci[i].func <= Len(t.stack)
  <2> TAKE i \in 1..n
  <2>1. CASE i = n
    BY <1>2, <2>1, <1>4 DEF TopOnly
  <2>2. CASE i < n
    <3>1. t.ci[i].func < t.ci[n].func
      BY <1>2, <1>5, <2>2
    <3>2. t.ci[n].func <= Len(t.stack)
      BY <1>2, <1>4 DEF TopOnly
    <3>3. t.ci[i].func \in Nat /\ t.ci[n].func \in Nat /\ Len(t.stack) \in Nat
      BY <1>2, <1>3, StateType, FrameType
    <3> QED  BY <3>1, <3>2, <3>3
  <2> QED  BY <1>2, <2>1, <2>2
<1>7. \A i \in 1..n : FrameOk(t, i)
  <2> TAKE i \in 1..n
  <2>1. CASE i = n
    BY <1>2, <2>1
  <2>2. CASE i < n
    <3>1. i \in 1..(n - 1)
      BY <1>2, <2>2
    <3>2. t.ci[i] = s.ci[i] /\ CallTop(t, i) = CallTop(s, i)
      <4>1. i \in 1..(Len(s.ci) - 1) /\ Len(s.ci) \in Nat
        BY <1>2, <3>1
      <4> QED  BY <4>1, CallTopSame
    <3>3. FrameOk(s, i)
      BY <1>2 DEF Frames
    <3> QED  BY <3>2, <3>3 DEF FrameOk
  <2> QED  BY <1>2, <2>1, <2>2
<1>8. \A i \in 1..(n - 1) : CallerOk(t, i)
  <2> TAKE i \in 1..(n - 1)
  <2>1. t.ci[i] = s.ci[i] /\ CallTop(t, i) = CallTop(s, i) /\ CallTop(s, i) = s.ci[i + 1].func
    <3>1. i \in 1..(Len(s.ci) - 1) /\ Len(s.ci) \in Nat
      BY <1>2
    <3> QED  BY <3>1, CallTopSame
  <2>2. CallerOk(s, i)
    BY <1>2 DEF Frames
  <2>3. ResultOf(t, i)
    <3>1. CallTop(s, i) - 1 \in 1..(s.ci[n].func - 1)
      <4>1. s.ci[i + 1].func > 1 /\ s.ci[i + 1].func \in Nat /\ s.ci[n].func \in Nat
        BY <1>2, SkeletonType
      <4>2. s.ci[i + 1].func <= s.ci[n].func
        BY <1>2, <4>1 DEF Frames
      <4> QED
        <5>1. \A x, y \in Nat : x > 1 /\ x <= y => x - 1 \in 1..(y - 1)
          OBVIOUS
        <5> QED  BY <2>1, <4>1, <4>2, <5>1
    <3>2. t.stack[CallTop(s, i) - 1] = s.stack[CallTop(s, i) - 1]
      BY <1>2, <3>1 DEF TopOnly
    <3> QED  BY <2>1, <2>2, <3>2 DEF CallerOk, ResultOf
  <2>4. /\ t.ci[i + 1].want = s.ci[i + 1].want /\ t.ci[i + 1].kind = s.ci[i + 1].kind
        /\ t.ci[i + 1].fresh = s.ci[i + 1].fresh /\ t.ci[i + 1].func = s.ci[i + 1].func
    BY <1>2, <1>4
  <2> QED  BY <2>1, <2>2, <2>3, <2>4 DEF CallerOk
<1>9. \A i, j \in 2..n : i < j /\ t.ci[j].ypcall => MayBeSkipped(t.ci[i])
  <2> SUFFICES ASSUME NEW i \in 2..n, NEW j \in 2..n, i < j, t.ci[j].ypcall
               PROVE  MayBeSkipped(t.ci[i])
    OBVIOUS
  <2>1. t.ci[i] = s.ci[i]
    BY <1>2 DEF TopOnly
  <2>2. CASE j = n
    BY <1>2, <2>1, <2>2
  <2>3. CASE j < n
    <3>1. t.ci[j] = s.ci[j]
      BY <1>2, <2>3 DEF TopOnly
    <3> QED  BY <1>2, <2>1, <3>1 DEF Frames
  <2> QED  BY <1>2, <2>2, <2>3
<1> QED  BY <1>2, <1>3, <1>5, <1>6, <1>7, <1>8, <1>9 DEF Frames

(* Variables keep their slots if the stack does. *)
LEMMA VariablesTop ==
  ASSUME NEW s, NEW d, Base(s, d), NEW t \in State, TopOnly(s, t),
         Len(t.tbclist) <= Len(s.tbclist),
         \A a \in 1..Len(t.tbclist) :
           /\ t.tbclist[a] = s.tbclist[a]
           /\ t.tbclist[a] <= Len(t.stack) /\ t.stack[t.tbclist[a]] = s.stack[t.tbclist[a]]
           /\ s.ci[Len(s.ci)].kind = "C" /\ s.ci[Len(s.ci)].func < t.tbclist[a]
                => Accounted(t, t.tbclist[a], Len(s.ci)),
         \A j \in 1..Len(s.cs) :
           Try(s.cs[j], {"closep"}) /\ s.cs[j].ci # Len(s.ci) =>
             j \in 1..Len(t.cs) /\ t.cs[j] = s.cs[j]
  PROVE  Variables(t)
<1> DEFINE n == Len(s.ci)
<1>1. n \in Nat /\ n > 0
  BY BaseType
<1>2. n = Len(s.ci) /\ n = Len(t.ci) /\ Variables(s)
  BY DEF Base, Skeleton, TopOnly
<1> HIDE DEF n
<1>3. Len(t.tbclist) <= MaxVars
  <2>1. Len(t.tbclist) \in Nat /\ Len(s.tbclist) \in Nat /\ Len(s.tbclist) <= MaxVars
    BY <1>2, StateType, BaseType DEF Variables
  <2> QED  BY <2>1, Bounds
<1>4. \A a \in 1..Len(t.tbclist) : a \in 1..Len(s.tbclist)
  BY StateType, BaseType
<1>5. \A a, b \in 1..Len(t.tbclist) : a < b => t.tbclist[a] < t.tbclist[b]
  BY <1>2, <1>4 DEF Variables
<1>6. \A a \in 1..Len(t.tbclist) : VariableOk(t, t.tbclist[a])
  <2> TAKE a \in 1..Len(t.tbclist)
  <2> DEFINE p == t.tbclist[a]
  <2>1. p = s.tbclist[a] /\ VariableOk(s, p) /\ p <= Len(t.stack) /\ t.stack[p] = s.stack[p]
    BY <1>2, <1>4 DEF Variables
  <2>2. n = Len(s.ci) /\ (s.ci[n].kind = "C" /\ s.ci[n].func < p => Accounted(t, p, n))
    BY <1>2
  <2> HIDE DEF p
  <2> SUFFICES ASSUME NEW i \in 1..n
               PROVE  /\ p # t.ci[i].func
                      /\ t.ci[i].kind = "C" /\ t.ci[i].func < p
                         /\ p < CallTop(t, i) => Accounted(t, p, i)
    BY <1>2, <2>1 DEF VariableOk, p
  <2>3. p # s.ci[i].func /\
        (s.ci[i].kind = "C" /\ s.ci[i].func < p /\ p < CallTop(s, i) => Accounted(s, p, i))
    BY <1>2, <2>1 DEF VariableOk
  <2>4. CASE i = n
    BY <1>2, <2>2, <2>3, <2>4 DEF TopOnly
  <2>5. CASE i # n
    <3>1. i \in 1..(n - 1)
      BY <1>1, <2>5
    <3>2. t.ci[i] = s.ci[i] /\ CallTop(t, i) = CallTop(s, i)
      <4>1. Len(s.ci) \in Nat /\ i \in 1..(Len(s.ci) - 1)
        BY <1>1, <1>2, <3>1
      <4> QED  BY <4>1, CallTopSame
    <3>3. Accounted(s, p, i) => Accounted(t, p, i)
      BY <1>2, <2>5, <3>2 DEF Accounted, Try
    <3> QED  BY <2>3, <3>2, <3>3
  <2> QED  BY <2>4, <2>5
<1> QED  BY <1>3, <1>5, <1>6 DEF Variables

(* The C functions below keep their frames. *)
LEMMA DepthsTop ==
  ASSUME NEW s, NEW d, Skeleton(s, d), NEW t \in State, TopOnly(s, t), t.cs = s.cs,
         t.ci[Len(s.ci)].ypcall => s.ci[Len(s.ci)].ypcall \/ AllYieldable(s),
         \A j \in 1..Len(s.cs) : d[j] = Len(s.ci) =>
           OnFrame(t, s.cs[j], d[j]) /\ (j = Len(s.cs) \/ t.ci[Len(s.ci)] = s.ci[Len(s.ci)])
  PROVE  Depths(t, d)
<1> DEFINE n == Len(s.ci)
           m == Len(s.cs)
<1>1. n \in Nat /\ n > 0 /\ m \in Nat
  BY SkeletonType
<1>2. n = Len(s.ci) /\ n = Len(t.ci) /\ m = Len(s.cs) /\ m = Len(t.cs) /\ Depths(s, d)
  BY DEF Skeleton, TopOnly
<1> HIDE DEF n, m
<1>3. ASSUME NEW j \in 1..m
      PROVE  d[j] \in 1..n /\ OnFrame(t, t.cs[j], d[j])
  <2>1. d[j] \in 1..n /\ OnFrame(s, s.cs[j], d[j])
    BY <1>2 DEF Depths
  <2>2. CASE d[j] = n
    BY <1>2, <2>1, <2>2
  <2>3. CASE d[j] # n
    <3>1. d[j] \in 1..(n - 1)
      BY <1>1, <2>1, <2>3
    <3>2. t.ci[d[j]] = s.ci[d[j]] /\ CallTop(t, d[j]) = CallTop(s, d[j])
      <4>1. Len(s.ci) \in Nat /\ d[j] \in 1..(Len(s.ci) - 1)
        BY <1>1, <1>2, <3>1
      <4> QED  BY ONLY TopOnly(s, t), <4>1, CallTopSame
    <3>3. t.cs[j] = s.cs[j]
      OBVIOUS
    <3> QED
      <4> DEFINE i == d[j]  e == s.cs[j]
      <4>1. OnFrame(s, e, i) /\ t.ci[i] = s.ci[i] /\ CallTop(t, i) = CallTop(s, i)
        BY <2>1, <3>2
      <4>2. t.cs[j] = e
        BY <3>3
      <4> HIDE DEF i, e
      <4>3. e.t = "close" => CloseOk(t, e, i)
        BY <4>1 DEF OnFrame, CloseOk
      <4>4. OnFrame(t, e, i)
        BY <4>1, <4>3 DEF OnFrame
      <4> QED  BY <2>1, <4>2, <4>4 DEF i, e
  <2> QED  BY <2>2, <2>3
<1>4. ASSUME NEW j \in 1..(m - 1)
      PROVE  Deeper(t, d, j)
  <2>1. Deeper(s, d, j) /\ j \in 1..m /\ j + 1 \in 1..m /\ j # m
    BY <1>1, <1>2 DEF Depths
  <2>2. d[j] \in 1..n /\ d[j + 1] \in 1..n
    BY <1>2, <2>1 DEF Depths
  <2>3. t.ci[d[j]] = s.ci[d[j]]
    <3>1. CASE d[j] = n
      BY <1>2, <2>1, <3>1
    <3>2. CASE d[j] # n
      <4>1. d[j] \in 1..(n - 1)
        BY <1>1, <2>2, <3>2
      <4> QED  BY <1>2, <4>1 DEF TopOnly
    <3> QED  BY <3>1, <3>2
  <2>4. \A i \in 1..n : t.ci[i].fresh = s.ci[i].fresh
    <3> TAKE i \in 1..n
    <3>1. i \in 1..(n - 1) \/ i = n
      BY <1>1
    <3> QED  BY <1>2, <3>1 DEF TopOnly
  <2>5. \A i \in (d[j] + 2)..d[j + 1] : i \in 1..n
    BY <1>1, <2>2
  <2>6. s.cs[j].t = "ccall" => d[j] + 1 \in 1..n
    <3>1. s.cs[j].t = "ccall" => d[j] < d[j + 1]
      BY <2>1 DEF Deeper
    <3> QED  BY <1>1, <2>2, <3>1
  <2> DEFINE e == s.cs[j]
             c == s.cs[j + 1]
             x == d[j]
  <2>7. Beneath(s, e, c, x) /\ x \in 1..n /\ t.ci[x] = s.ci[x] /\ j \in 1..m /\ t.cs[j] = e
          /\ t.cs[j + 1] = c /\ e = s.cs[j] /\ x = d[j] /\ c = s.cs[j + 1]
    BY <1>2, <2>1, <2>2, <2>3 DEF Deeper
  <2> HIDE DEF e, c, x
  <2>8. Beneath(t, e, c, x)
    <3>1. e.t = "ccall" /\ e.y = 1 =>
            \A i \in (x + 1)..n : t.ci[i].ypcall => i <= n /\ s.ci[i].ypcall
      <4> SUFFICES ASSUME e.t = "ccall", e.y = 1, NEW i \in (x + 1)..n, t.ci[i].ypcall
                   PROVE  i <= n /\ s.ci[i].ypcall
        OBVIOUS
      <4>1. i <= n /\ (i = n \/ i \in 1..(n - 1))
        BY <1>1, <2>7
      <4>2. CASE i \in 1..(n - 1)
        <5>1. t.ci[i] = s.ci[i]
          BY <1>2, <4>2 DEF TopOnly
        <5> QED  BY <4>1, <5>1
      <4>3. CASE i = n
        <5>1. ~AllYieldable(s)
          BY <1>2, <2>7 DEF AllYieldable
        <5> QED  BY <1>2, <4>1, <4>3, <5>1
      <4> QED  BY <4>1, <4>2, <4>3
    <3>2. x < n => t.ci[x + 1].func = s.ci[x + 1].func /\ t.ci[x + 1].want = s.ci[x + 1].want
      <4>1. x < n => x + 1 \in 1..(n - 1) \/ x + 1 = n
        BY <1>1, <2>7
      <4> QED  BY <1>2, <4>1 DEF TopOnly
    <3>3. x \in Nat
      BY <2>7
    <3>4. Len(s.ci) \in Nat /\ Len(t.ci) \in Nat /\ Len(s.ci) = n /\ Len(t.ci) = n
      BY <1>1, <1>2
    <3>5. t.ci[x].pc = s.ci[x].pc /\ Beneath(s, e, c, x)
      BY <2>7
    <3> QED  BY <3>1, <3>2, <3>3, <3>4, <3>5, BeneathKept
  <2> QED  BY <2>1, <2>3, <2>4, <2>5, <2>6, <2>7, <2>8 DEF Deeper
<1>5. \A i, j \in 1..m : i < j => d[i] <= d[j]
  BY <1>2 DEF Depths
<1> QED  BY <1>2, <1>3, <1>4, <1>5 DEF Depths

(* The C functions that wait are the same. *)
LEMMA WaitingTop ==
  ASSUME NEW s, NEW d, Skeleton(s, d), NEW t \in State, TopOnly(s, t), t.cs = s.cs,
         t.status = s.status
  PROVE  Waiting(t, d)
<1>1. Len(t.ci) = Len(s.ci) /\ Len(s.ci) \in Nat
  BY SkeletonType DEF TopOnly
<1>2. \A i \in 2..(Len(s.ci) - 1) : t.ci[i] = s.ci[i]
  BY <1>1 DEF TopOnly
<1> QED  BY <1>1, <1>2 DEF Waiting, Skeleton

(* A change of the running frame, and of what is above its base, with the same C
   stack: nothing below is disturbed. *)
LEMMA LocalSkeleton ==
  ASSUME NEW s, NEW d, Skeleton(s, d), NEW t \in State, TopOnly(s, t), t.cs = s.cs,
         t.status = s.status,
         FrameOk(t, Len(s.ci)),
         t.ci[Len(s.ci)].ypcall => s.ci[Len(s.ci)].ypcall \/ AllYieldable(s),
         t.ci[Len(s.ci)].ypcall => \A i \in 2..(Len(s.ci) - 1) : MayBeSkipped(s.ci[i]),
         \A j \in 1..Len(s.cs) : d[j] = Len(s.ci) =>
           OnFrame(t, s.cs[j], d[j]) /\ (j = Len(s.cs) \/ t.ci[Len(s.ci)] = s.ci[Len(s.ci)])
  PROVE  Skeleton(t, d)
<1>1. Frames(t)
  BY FramesTop
<1>2. Depths(t, d)
  BY DepthsTop
<1>3. Waiting(t, d)
  BY WaitingTop
<1>4. CFunctions(t.cs) /\ Saved(t.cs) /\ d \in [Nat -> Nat] /\ (t.cs # <<>> => t.status = "ok")
  BY DEF Skeleton
<1> QED  BY <1>1, <1>2, <1>3, <1>4 DEF Skeleton

(* The same with the variables, which may become fewer. *)
LEMMA Local ==
  ASSUME NEW s, NEW d, Base(s, d), NEW t \in State, TopOnly(s, t), t.cs = s.cs, t.status = s.status,
         FrameOk(t, Len(s.ci)),
         t.ci[Len(s.ci)].ypcall => s.ci[Len(s.ci)].ypcall \/ AllYieldable(s),
         t.ci[Len(s.ci)].ypcall => \A i \in 2..(Len(s.ci) - 1) : MayBeSkipped(s.ci[i]),
         \A j \in 1..Len(s.cs) : d[j] = Len(s.ci) =>
           OnFrame(t, s.cs[j], d[j]) /\ (j = Len(s.cs) \/ t.ci[Len(s.ci)] = s.ci[Len(s.ci)]),
         Len(t.tbclist) <= Len(s.tbclist),
         \A a \in 1..Len(t.tbclist) :
           /\ t.tbclist[a] = s.tbclist[a]
           /\ t.tbclist[a] <= Len(t.stack) /\ t.stack[t.tbclist[a]] = s.stack[t.tbclist[a]]
           /\ s.ci[Len(s.ci)].kind = "C" /\ s.ci[Len(s.ci)].func < t.tbclist[a]
                => Accounted(t, t.tbclist[a], Len(s.ci))
  PROVE  Base(t, d)
<1>1. Skeleton(s, d)
  BY DEF Base
<1>2. Skeleton(t, d)
  BY <1>1, LocalSkeleton
<1>3. Variables(t)
  BY VariablesTop
<1> QED  BY <1>2, <1>3 DEF Base

(* The C functions below one that runs a function of the program belong to frames
   below. *)
LEMMA OnTop ==
  ASSUME NEW s, NEW d, Skeleton(s, d), NEW m \in Nat, m = Len(s.cs), m > 0,
         s.cs[m].t \in {"exec", "cfn"}, d[m] = Len(s.ci)
  PROVE  \A j \in 1..m : d[j] = Len(s.ci) => j = m
<1> DEFINE n == Len(s.ci)
<1>1. n \in Nat /\ n > 0
  BY SkeletonType
<1>2. n = Len(s.ci) /\ Depths(s, d) /\ CFunctions(s.cs)
  BY DEF Skeleton
<1> HIDE DEF n
<1>3. ASSUME NEW j \in 1..m, j # m, d[j] = n
      PROVE  FALSE
  <2>1. m - 1 \in 1..m /\ m - 1 + 1 = m /\ (j = m - 1 \/ j < m - 1) /\ m - 1 < m
          /\ m - 1 \in 1..(m - 1)
    BY <1>3
  <2> DEFINE i == m - 1
  <2>2. i \in 1..m /\ i + 1 = m /\ (j = i \/ j < i) /\ i < m /\ i \in 1..(m - 1)
    BY <2>1
  <2> HIDE DEF i
  <2>3. d[i] \in 1..n /\ d[m] = n /\ d[j] <= d[i]
    <3>1. d[i] \in 1..n /\ d[j] \in 1..n /\ d[m] = n
      BY <1>2, <2>2 DEF Depths
    <3>2. j < i => d[j] <= d[i]
      BY <1>2, <2>2 DEF Depths
    <3> QED  BY <1>1, <2>2, <3>1, <3>2
  <2>4. d[i] = n
    BY <1>1, <1>3, <2>3
  <2>5. Deeper(s, d, i) /\ CallsNext(s.cs[i], s.cs[m]) /\ OnFrame(s, s.cs[i], d[i])
    BY <1>2, <2>2 DEF Depths, CFunctions
  <2>6. s.cs[i].t \in {"ccall", "unroll"} \/ (s.cs[i].t = "exec" /\ s.cs[m].t = "cfn")
    BY <2>5 DEF CallsNext, Try, Closing
  <2>7. CASE s.cs[i].t = "ccall"
    BY <1>1, <2>2, <2>3, <2>4, <2>5, <2>7 DEF Deeper
  <2>8. CASE s.cs[i].t = "unroll"
    BY <1>1, <2>2, <2>3, <2>4, <2>5, <2>8 DEF Deeper, OnFrame
  <2>9. CASE s.cs[i].t = "exec" /\ s.cs[m].t = "cfn"
    BY <1>1, <2>2, <2>3, <2>4, <2>5, <2>9 DEF Deeper
  <2> QED  BY <2>6, <2>7, <2>8, <2>9
<1> QED  BY <1>2, <1>3

(* Values pushed on the stack disturb nothing. *)
LEMMA Grow ==
  ASSUME NEW s, NEW d, Base(s, d), NEW t \in State, t.ci = s.ci, t.cs = s.cs, t.status = s.status,
         t.tbclist = s.tbclist, Len(t.stack) >= Len(s.stack),
         \A p \in 1..Len(s.stack) : t.stack[p] = s.stack[p]
  PROVE  Base(t, d)
<1> DEFINE n == Len(s.ci)
<1>1. n \in Nat /\ n > 0 /\ Len(s.stack) \in Nat /\ Len(t.stack) \in Nat /\ Len(s.tbclist) \in Nat
  BY BaseType, StateType
<1>2. n = Len(s.ci) /\ Frames(s) /\ Variables(s) /\ Depths(s, d)
  BY DEF Base, Skeleton
<1> HIDE DEF n
<1>3. s.ci[n].func \in 1..Len(s.stack) /\ s.ci[n] \in CallInfo
  BY <1>1, <1>2, BaseType
<1>4. TopOnly(s, t)
  BY <1>1, <1>2, <1>3 DEF TopOnly
<1>5. CallTop(s, n) <= CallTop(t, n) /\ CallTop(s, n) \in Nat /\ CallTop(t, n) \in Nat
  BY <1>1, <1>2 DEF CallTop
<1>6. FrameOk(t, n)
  <2>1. FrameOk(s, n) /\ t.ci[n] = s.ci[n]
    BY <1>1, <1>2 DEF Frames
  <2> QED  BY <1>3, <1>5, <2>1, FrameOkKept
<1>7. t.ci[n].ypcall => \A i \in 2..(n - 1) : MayBeSkipped(s.ci[i])
  <2> SUFFICES ASSUME t.ci[n].ypcall, NEW i \in 2..(n - 1) PROVE MayBeSkipped(s.ci[i])
    OBVIOUS
  <2>1. i \in 2..n /\ n \in 2..n /\ i < n
    BY <1>1
  <2> QED  BY <1>2, <2>1 DEF Frames
<1>8. \A j \in 1..Len(s.cs) : d[j] = n => OnFrame(t, s.cs[j], d[j])
  <2> SUFFICES ASSUME NEW j \in 1..Len(s.cs), d[j] = n PROVE OnFrame(t, s.cs[j], n)
    OBVIOUS
  <2>1. OnFrame(s, s.cs[j], n)
    BY <1>2 DEF Depths
  <2>2. s.cs[j] \in CFunction
    BY BaseType
  <2>3. (s.cs[j].t \in {"try", "close"}) => s.cs[j].level \in Nat
    BY <2>2, EntryType DEF TryC, CloseC
  <2> QED  BY <1>5, <2>1, <2>3 DEF OnFrame, CloseOk, Try
<1>9. \A a \in 1..Len(s.tbclist) :
        /\ s.tbclist[a] <= Len(t.stack) /\ t.stack[s.tbclist[a]] = s.stack[s.tbclist[a]]
        /\ s.ci[n].kind = "C" /\ s.ci[n].func < s.tbclist[a] => Accounted(t, s.tbclist[a], n)
  <2> TAKE a \in 1..Len(s.tbclist)
  <2>1. VariableOk(s, s.tbclist[a]) /\ s.tbclist[a] \in Nat
    BY <1>2, BaseType, StateType DEF Variables
  <2>2. s.tbclist[a] \in 1..Len(s.stack)
    BY <2>1, <1>1 DEF VariableOk
  <2>3. s.tbclist[a] < CallTop(s, n)
    BY <1>1, <1>2, <2>2 DEF CallTop
  <2>4. s.ci[n].kind = "C" /\ s.ci[n].func < s.tbclist[a] => Accounted(s, s.tbclist[a], n)
    BY <1>1, <1>2, <2>1, <2>3 DEF VariableOk
  <2> QED
    <3>1. s.tbclist[a] <= Len(t.stack)
      <4>1. \A x, y \in Nat : \A p \in 1..x : y >= x => p <= y
        OBVIOUS
      <4> QED  BY <1>1, <2>2, <4>1
    <3>2. t.stack[s.tbclist[a]] = s.stack[s.tbclist[a]]
      BY <2>2
    <3>3. Accounted(s, s.tbclist[a], n) => Accounted(t, s.tbclist[a], n)
      BY DEF Accounted
    <3> QED  BY <2>4, <3>1, <3>2, <3>3
<1> QED
  <2>1. /\ t.cs = s.cs /\ t.status = s.status /\ FrameOk(t, Len(s.ci)) /\ TopOnly(s, t)
        /\ t.ci[Len(s.ci)].ypcall => \A i \in 2..(Len(s.ci) - 1) : MayBeSkipped(s.ci[i])
    BY <1>2, <1>4, <1>6, <1>7
  <2>2. \A j \in 1..Len(s.cs) : d[j] = Len(s.ci) =>
          OnFrame(t, s.cs[j], d[j]) /\ (j = Len(s.cs) \/ t.ci[Len(s.ci)] = s.ci[Len(s.ci)])
    BY <1>2, <1>8
  <2>3. Len(t.tbclist) <= Len(s.tbclist)
    BY <1>1
  <2>4. \A a \in 1..Len(t.tbclist) :
          /\ t.tbclist[a] = s.tbclist[a]
          /\ t.tbclist[a] <= Len(t.stack) /\ t.stack[t.tbclist[a]] = s.stack[t.tbclist[a]]
          /\ s.ci[Len(s.ci)].kind = "C" /\ s.ci[Len(s.ci)].func < t.tbclist[a]
               => Accounted(t, t.tbclist[a], Len(s.ci))
    BY <1>2, <1>9
  <2>5. t.ci[Len(s.ci)].ypcall => s.ci[Len(s.ci)].ypcall \/ AllYieldable(s)
    OBVIOUS
  <2> QED  BY <2>1, <2>2, <2>3, <2>4, <2>5, Local

-----------------------------------------------------------------------------
(* One C function more or less *)

(* One more C function, called by the one in control. *)
LEMMA PushEntry ==
  ASSUME NEW s, NEW d, Skeleton(s, d), NEW e \in CFunction, NEW t, Pushed(s, t, e), s.status = "ok",
         NEW m \in Nat, m = Len(s.cs), NEW k \in Nat, k = m + 1, NEW x \in 1..Len(s.ci),
         EntryOk(t.cs, k), OnFrame(s, e, x),
         e.t = "try" => e.nc = CcallsAt(s.cs, m) /\ e.nny = NonYieldableAt(s.cs, m),
         m > 0 => /\ d[m] <= x /\ CallsNext(s.cs[m], e)
                  /\ Deeper(t, [d EXCEPT ![k] = x], m)
  PROVE  Skeleton(t, [d EXCEPT ![k] = x])
<1> DEFINE n == Len(s.ci)
           c == [d EXCEPT ![k] = x]
<1>1. n \in Nat /\ n > 0 /\ k \in Nat /\ k > 0
  BY SkeletonType
<1>2. n = Len(s.ci) /\ Frames(s) /\ CFunctions(s.cs) /\ Saved(s.cs) /\ Depths(s, d) /\ Waiting(s, d)
  BY DEF Skeleton
<1>3. /\ t \in State /\ t.ci = s.ci /\ t.stack = s.stack /\ t.status = "ok"
      /\ Len(t.cs) = k /\ t.cs[k] = e /\ \A j \in 1..m : t.cs[j] = s.cs[j]
  BY DEF Pushed, SameCounts
<1>4. c \in [Nat -> Nat] /\ c[k] = x /\ \A j \in 1..m : c[j] = d[j]
  <2>1. d \in [Nat -> Nat]
    BY DEF Skeleton
  <2>2. x \in Nat
    BY <1>1
  <2>3. \A j \in 1..m : j \in Nat /\ j # k
    OBVIOUS
  <2>4. k \in Nat
    OBVIOUS
  <2> QED  BY <2>1, <2>2, <2>3, <2>4
<1>5. k = m + 1
  OBVIOUS
<1>6. m > 0 => d[m] <= x /\ CallsNext(s.cs[m], e) /\ Deeper(t, c, m)
  OBVIOUS
<1> HIDE DEF n, c
<1>7. Frames(t)
  <2>1. \A i : CallTop(t, i) = CallTop(s, i)
    BY <1>3 DEF CallTop
  <2>2. \A i : /\ FrameOk(s, i) => FrameOk(t, i)
               /\ CallerOk(s, i) => CallerOk(t, i)
    BY <1>3, <2>1 DEF FrameOk, CallerOk, ResultOf
  <2> QED  BY <1>2, <1>3, <2>2 DEF Frames
<1>8. CFunctions(t.cs)
  <2>1. ASSUME NEW j \in 1..k
        PROVE  EntryOk(t.cs, j)
    <3>1. CASE j = k
      BY <1>5, <3>1
    <3>2. CASE j # k
      <4>1. j \in 1..m
        BY <1>1, <1>5, <3>2
      <4>2. EntryOk(s.cs, j)
        BY <1>2, <4>1 DEF CFunctions
      <4>3. \A i \in 1..j : i \in 1..m
        BY <4>1
      <4> QED  BY <1>3, <4>1, <4>2, <4>3 DEF EntryOk, Try
    <3> QED  BY <3>1, <3>2
  <2>2. ASSUME NEW j \in 1..(k - 1)
        PROVE  CallsNext(t.cs[j], t.cs[j + 1])
    <3>1. j \in 1..m
      BY <1>5
    <3>2. CASE j = m
      BY <1>3, <1>5, <1>6, <3>1, <3>2
    <3>3. CASE j # m
      <4>1. j \in 1..(m - 1) /\ j + 1 \in 1..m
        BY <3>1, <3>3
      <4> QED  BY <1>2, <1>3, <3>1, <4>1 DEF CFunctions
    <3> QED  BY <3>2, <3>3
  <2> QED  BY <1>3, <2>1, <2>2 DEF CFunctions
<1>9. Saved(t.cs)
  <2> SUFFICES ASSUME NEW j \in 1..k, t.cs[j].t = "try"
               PROVE  t.cs[j].nc = CcallsAt(t.cs, j - 1)
                      /\ t.cs[j].nny = NonYieldableAt(t.cs, j - 1)
    BY <1>3 DEF Saved
  <2>1. j - 1 \in Nat /\ \A i \in 1..(j - 1) : i \in 1..m
    BY <1>5
  <2>2. \A i \in 1..(j - 1) : t.cs[i] = s.cs[i]
    BY <1>3, <2>1
  <2>3. CcallsAt(t.cs, j - 1) = CcallsAt(s.cs, j - 1)
          /\ NonYieldableAt(t.cs, j - 1) = NonYieldableAt(s.cs, j - 1)
    BY <2>1, <2>2, SameCount
  <2>4. CASE j = k
    <3>1. j - 1 = m
      BY <1>5, <2>4
    <3> QED  BY <1>3, <2>3, <2>4, <3>1
  <2>5. CASE j # k
    <3>1. j \in 1..m
      BY <1>5, <2>5
    <3> QED  BY <1>2, <1>3, <2>3, <3>1 DEF Saved
  <2> QED  BY <2>4, <2>5
<1>10. Depths(t, c)
  <2>1. ASSUME NEW j \in 1..k
        PROVE  c[j] \in 1..n /\ OnFrame(t, t.cs[j], c[j])
    <3>1. ASSUME NEW i \in 1..n, NEW g, OnFrame(s, g, i)
          PROVE  OnFrame(t, g, i)
      BY <1>3, <3>1 DEF OnFrame, CloseOk, CallTop
    <3>2. CASE j = k
      BY <1>2, <1>3, <1>4, <3>1, <3>2
    <3>3. CASE j # k
      <4>1. j \in 1..m
        BY <1>5, <3>3
      <4> QED  BY <1>2, <1>3, <1>4, <3>1, <4>1 DEF Depths
    <3> QED  BY <3>2, <3>3
  <2>2. ASSUME NEW i \in 1..k, NEW j \in 1..k, i < j
        PROVE  c[i] <= c[j]
    <3>1. i \in 1..m /\ (j \in 1..m \/ j = k)
      BY <1>5, <2>2
    <3>2. CASE j \in 1..m
      BY <1>2, <1>4, <2>2, <3>1, <3>2 DEF Depths
    <3>3. CASE j = k
      <4>1. d[i] <= d[m] /\ d[m] <= x
        <5>1. m > 0 /\ m \in 1..m
          BY <3>1
        <5>2. d[i] \in Nat
          BY <3>1, SkeletonType
        <5>3. i < m \/ i = m
          BY <3>1
        <5> QED  BY <1>2, <1>6, <3>1, <5>1, <5>2, <5>3 DEF Depths
      <4>2. d[i] \in Nat /\ d[m] \in Nat /\ x \in Nat
        <5>1. x \in Nat
          BY <1>1, <1>2
        <5> QED  BY <3>1, <5>1, SkeletonType
      <4>3. c[i] = d[i] /\ c[j] = x
        BY <1>4, <3>1, <3>3
      <4>4. d[i] <= x
        BY <4>1, <4>2
      <4> QED  BY <4>3, <4>4
    <3> QED  BY <3>1, <3>2, <3>3
  <2>3. ASSUME NEW j \in 1..(k - 1)
        PROVE  Deeper(t, c, j)
    <3>1. j \in 1..m
      BY <1>5
    <3>2. CASE j = m
      BY <1>6, <3>1, <3>2
    <3>3. CASE j # m
      <4>1. j \in 1..(m - 1) /\ j + 1 \in 1..m
        BY <3>1, <3>3
      <4>2. Deeper(s, d, j)
        BY <1>2, <4>1 DEF Depths
      <4>3. t.cs[j] = s.cs[j] /\ t.cs[j + 1] = s.cs[j + 1] /\ c[j] = d[j] /\ c[j + 1] = d[j + 1]
        BY <1>3, <1>4, <3>1, <4>1
      <4>4. Beneath(s, s.cs[j], s.cs[j + 1], d[j]) => Beneath(t, s.cs[j], s.cs[j + 1], d[j])
        BY <1>3 DEF Beneath
      <4> QED  BY <1>3, <4>2, <4>3, <4>4 DEF Deeper, TakesResult
    <3> QED  BY <3>2, <3>3
  <2> QED  BY <1>2, <1>3, <2>1, <2>2, <2>3 DEF Depths
<1>11. Waiting(t, c)
  <2>1. \A j \in 1..m : j \in 1..k
    BY <1>5
  <2>2. ASSUME NEW i \in 2..(n - 1)
        PROVE  MayBeSkipped(s.ci[i]) \/ \E j \in 1..k : t.cs[j].t = "cfn" /\ c[j] = i
    <3>1. "ok" \notin ErrorStatus
      BY DEF ErrorStatus
    <3>2. MayBeSkipped(s.ci[i]) \/ \E j \in 1..m : s.cs[j].t = "cfn" /\ d[j] = i
      BY <1>2, <3>1 DEF Waiting
    <3> QED  BY <1>3, <1>4, <2>1, <3>2
  <2> QED  BY <1>2, <1>3, <2>2 DEF Waiting
<1> QED  BY <1>3, <1>4, <1>7, <1>8, <1>9, <1>10, <1>11 DEF Skeleton, c

-----------------------------------------------------------------------------
(* Fewer C functions and fewer frames *)

(* The bases of the frames. *)
LEMMA Bases ==
  ASSUME NEW s, NEW d, Skeleton(s, d), NEW n \in Nat, n = Len(s.ci)
  PROVE  /\ n > 0 /\ CallTop(s, n) = Len(s.stack) + 1 /\ Len(s.stack) \in Nat
         /\ \A i \in 1..n : /\ s.ci[i] \in CallInfo /\ s.ci[i].func \in Nat /\ s.ci[i].func > 0
                            /\ s.ci[i].func <= Len(s.stack) /\ (i > 1 => s.ci[i].func > 1)
                            /\ CallTop(s, i) \in Nat /\ s.ci[i].func < CallTop(s, i)
         /\ \A i \in 1..(n - 1) : CallTop(s, i) = s.ci[i + 1].func
         /\ \A i, j \in 1..n : i < j => s.ci[i].func < s.ci[j].func /\ CallTop(s, i) <= s.ci[j].func
<1> DEFINE w == Len(s.stack)
<1>1. n > 0 /\ w \in Nat
  BY SkeletonType
<1>2. \A i \in 1..n : /\ s.ci[i] \in CallInfo /\ s.ci[i].func \in 1..w
        /\ (i > 1 => s.ci[i].func > 1)
  BY SkeletonType
<1>3. \A i, j \in 1..n : i < j => s.ci[i].func < s.ci[j].func
  BY DEF Skeleton, Frames
<1>4. CallTop(s, n) = w + 1 /\ \A i \in 1..(n - 1) : CallTop(s, i) = s.ci[i + 1].func
  BY <1>1 DEF CallTop
<1> HIDE DEF w
<1>5. \A i \in 1..n : /\ s.ci[i].func \in Nat /\ s.ci[i].func > 0 /\ s.ci[i].func <= w
  BY <1>1, <1>2
<1>6. ASSUME NEW i \in 1..n
      PROVE  CallTop(s, i) \in Nat /\ s.ci[i].func < CallTop(s, i)
  <2>1. CASE i = n
    BY <1>1, <1>4, <1>5, <2>1
  <2>2. CASE i # n
    <3>1. i \in 1..(n - 1) /\ i + 1 \in 1..n /\ i < i + 1
      BY <2>2
    <3> QED  BY <1>3, <1>4, <1>5, <3>1
  <2> QED  BY <2>1, <2>2
<1>7. ASSUME NEW i \in 1..n, NEW j \in 1..n, i < j
      PROVE  CallTop(s, i) <= s.ci[j].func
  <2>1. i \in 1..(n - 1) /\ i + 1 \in 1..n /\ (i + 1 < j \/ i + 1 = j)
    BY <1>7
  <2>2. s.ci[i + 1].func \in Nat /\ s.ci[j].func \in Nat
    BY <1>5, <2>1
  <2>3. s.ci[i + 1].func <= s.ci[j].func
    BY <1>3, <2>1, <2>2
  <2> QED  BY <1>4, <2>1, <2>3
<1> QED  BY <1>1, <1>2, <1>3, <1>4, <1>5, <1>6, <1>7 DEF w

(* t has the first r frames and the first k C functions of s *)
CutTo(s, d, t, r, k) ==
  /\ r \in 1..Len(s.ci) /\ k \in 0..Len(s.cs)
  /\ Len(t.ci) = r /\ \A i \in 1..r : t.ci[i] = s.ci[i]
  /\ Len(t.cs) = k /\ \A j \in 1..k : t.cs[j] = s.cs[j] /\ d[j] <= r
  /\ Len(t.stack) + 1 >= CallTop(s, r)
  /\ \A p \in 1..(s.ci[r].func - 1) : t.stack[p] = s.stack[p]
  /\ k > 0 => t.status = "ok"
  /\ t.status \notin ErrorStatus =>
       /\ s.status \notin ErrorStatus
       /\ \A j \in (k + 1)..Len(s.cs) :
            s.cs[j].t = "cfn" => d[j] >= r \/ MayBeSkipped(s.ci[d[j]])

(* What is left after a cut still belongs together. *)
LEMMA SkeletonCut ==
  ASSUME NEW s, NEW d, Skeleton(s, d), NEW t \in State,
         NEW r \in Nat, NEW k \in Nat, CutTo(s, d, t, r, k)
  PROVE  Skeleton(t, d)
<1> DEFINE n == Len(s.ci)
           m == Len(s.cs)
<1>1. n \in Nat /\ n > 0 /\ m \in Nat /\ r \in 1..n /\ r > 0 /\ k \in 0..m
  <2>1. n \in Nat /\ n > 0 /\ m \in Nat
    BY SkeletonType
  <2>2. r \in 1..n /\ k \in 0..m
    BY DEF CutTo
  <2> HIDE DEF n, m
  <2> QED  BY <2>1, <2>2
<1>2. n = Len(s.ci) /\ m = Len(s.cs) /\ Frames(s) /\ CFunctions(s.cs) /\ Saved(s.cs) /\ Depths(s, d)
        /\ Waiting(s, d)
      /\ d \in [Nat -> Nat]
  BY DEF Skeleton
<1> HIDE DEF n, m
<1>3. (\A i \in 1..r : i \in 1..n) /\ (\A j \in 1..k : j \in 1..m)
  BY <1>1
<1>4. /\ Len(t.ci) = r /\ \A i \in 1..r : t.ci[i] = s.ci[i]
      /\ Len(t.cs) = k /\ \A j \in 1..k : t.cs[j] = s.cs[j]
  BY DEF CutTo
<1>5. \A j \in 1..k : d[j] <= r
  BY DEF CutTo
<1>6. /\ Len(t.stack) + 1 >= CallTop(s, r)
      /\ \A p \in 1..(s.ci[r].func - 1) : t.stack[p] = s.stack[p]
  BY DEF CutTo
<1>7. \A i \in 1..n : /\ s.ci[i] \in CallInfo /\ s.ci[i].func \in Nat
                       /\ CallTop(s, i) \in Nat /\ s.ci[i].func < CallTop(s, i)
                       /\ (i > 1 => s.ci[i].func > 1)
  BY <1>1, <1>2, Bases
<1>8. \A i, j \in 1..n : i < j => s.ci[i].func < s.ci[j].func
  BY <1>2 DEF Frames
<1>9. \A i \in 1..(n - 1) : CallTop(s, i) = s.ci[i + 1].func
  BY <1>1, <1>2, Bases
<1>10. r \in 1..r
  BY <1>1
<1>11. \A i \in 1..r : s.ci[i].func <= s.ci[r].func
  <2> TAKE i \in 1..r
  <2>1. s.ci[i].func \in Nat /\ s.ci[r].func \in Nat
    BY <1>3, <1>7, <1>10
  <2>2. i = r \/ i < r
    OBVIOUS
  <2>3. i < r => s.ci[i].func < s.ci[r].func
    BY <1>3, <1>8, <1>10
  <2> QED  BY <2>1, <2>2, <2>3
<1>12. \A i \in 1..(r - 1) : CallTop(t, i) = CallTop(s, i) /\ i + 1 \in 1..r
  <2> TAKE i \in 1..(r - 1)
  <2>1. i + 1 \in 1..r /\ i < r /\ i < n
    BY <1>1
  <2>2. CallTop(s, i) = s.ci[i + 1].func
    BY <1>2, <2>1 DEF CallTop
  <2>3. CallTop(t, i) = t.ci[i + 1].func
    BY <1>4, <2>1 DEF CallTop
  <2> QED  BY <1>4, <2>1, <2>2, <2>3
<1> DEFINE z == Len(t.stack)
<1>13. CallTop(s, r) <= CallTop(t, r) /\ CallTop(t, r) = z + 1 /\ z \in Nat
  <2>1. z \in Nat
    BY StateType
  <2>2. ~(r < r)
    OBVIOUS
  <2>3. CallTop(t, r) = z + 1
    BY <1>4, <2>2 DEF CallTop
  <2>4. z + 1 >= CallTop(s, r)
    BY <1>6
  <2>5. CallTop(s, r) \in Nat
    BY <1>3, <1>7, <1>10
  <2> HIDE DEF z
  <2> QED  BY <2>1, <2>3, <2>4, <2>5
<1>14. z = Len(t.stack)
  OBVIOUS
<1> HIDE DEF z
<1>15. ASSUME NEW i \in 1..r
       PROVE  CallTop(s, i) <= CallTop(t, i) /\ CallTop(s, i) \in Nat /\ CallTop(t, i) \in Nat
  <2>1. CallTop(s, i) \in Nat
    BY <1>3, <1>7
  <2>2. CASE i = r
    BY <1>13, <2>1, <2>2
  <2>3. CASE i # r
    <3>1. i \in 1..(r - 1)
      BY <2>3
    <3>2. CallTop(t, i) = CallTop(s, i)
      BY <1>12, <3>1
    <3> QED  BY <2>1, <3>2
  <2> QED  BY <2>2, <2>3
<1>16. Frames(t)
  <2>1. r \in 1..MaxFrames /\ t.ci[1] = BaseCI
    <3>1. n \in 1..MaxFrames /\ s.ci[1] = BaseCI
      BY <1>2 DEF Frames
    <3>2. 1 \in 1..r
      BY <1>1
    <3> QED  BY <1>1, <1>4, <3>1, <3>2, Bounds
  <2>2. \A i, j \in 1..r : i < j => t.ci[i].func < t.ci[j].func
    BY <1>3, <1>8, <1>4
  <2>3. \A i \in 1..r : t.ci[i].func <= z
    <3> TAKE i \in 1..r
    <3>1. s.ci[i].func \in Nat /\ s.ci[r].func \in Nat /\ s.ci[i].func <= s.ci[r].func
          /\ s.ci[r].func < CallTop(s, r) /\ CallTop(s, r) \in Nat
      BY <1>11, <1>3, <1>7, <1>10
    <3>2. s.ci[i].func <= z
      BY <1>13, <3>1
    <3> QED  BY <1>4, <3>2
  <2>4. \A i \in 1..r : FrameOk(t, i)
    <3> TAKE i \in 1..r
    <3>1. FrameOk(s, i) /\ t.ci[i] = s.ci[i]
      BY <1>2, <1>3, <1>4 DEF Frames
    <3>2. s.ci[i] \in CallInfo
      BY <1>3, <1>7
    <3> QED  BY <1>15, <3>1, <3>2, FrameOkKept
  <2>5. \A i \in 1..(r - 1) : CallerOk(t, i)
    <3> TAKE i \in 1..(r - 1)
    <3>1. i \in 1..(n - 1) /\ i \in 1..r /\ i + 1 \in 1..r /\ i + 1 > 1
      BY <1>1
    <3>2. CallerOk(s, i)
      BY <1>2, <3>1 DEF Frames
    <3>3. CallTop(s, i) - 1 \in 1..(s.ci[r].func - 1)
      <4>1. s.ci[i + 1].func > 1 /\ s.ci[i + 1].func \in Nat /\ s.ci[r].func \in Nat
        BY <1>3, <1>7, <1>10, <3>1
      <4>2. s.ci[i + 1].func <= s.ci[r].func /\ CallTop(s, i) = s.ci[i + 1].func
        BY <1>11, <1>9, <3>1
      <4> QED  BY <4>1, <4>2
    <3>4. t.stack[CallTop(s, i) - 1] = s.stack[CallTop(s, i) - 1]
      BY <1>6, <3>3
    <3>5. CallTop(t, i) = CallTop(s, i) /\ t.ci[i] = s.ci[i] /\ t.ci[i + 1] = s.ci[i + 1]
      BY <1>12, <1>4, <3>1
    <3> QED  BY <3>2, <3>4, <3>5 DEF CallerOk, ResultOf
  <2>6. \A i, j \in 2..r : i < j /\ t.ci[j].ypcall => MayBeSkipped(t.ci[i])
    <3>1. \A i \in 2..r : i \in 2..n /\ i \in 1..r
      BY <1>1
    <3>2. \A i, j \in 2..n : i < j /\ s.ci[j].ypcall => MayBeSkipped(s.ci[i])
      BY <1>2 DEF Frames
    <3> QED  BY <1>4, <3>1, <3>2
  <2> QED  BY <1>4, <1>14, <2>1, <2>2, <2>3, <2>4, <2>5, <2>6 DEF Frames
<1>17. CFunctions(t.cs)
  <2>1. ASSUME NEW j \in 1..k PROVE EntryOk(t.cs, j)
    <3>1. EntryOk(s.cs, j) /\ \A i \in 1..j : i \in 1..k
      <4>1. j \in 1..m
        BY <1>3
      <4>2. \A x \in Nat : \A y \in 1..x : \A i \in 1..y : i \in 1..x
        OBVIOUS
      <4>3. k \in Nat
        BY <1>1
      <4> QED  BY <1>2, <4>1, <4>2, <4>3 DEF CFunctions
    <3> QED  BY <1>4, <3>1 DEF EntryOk, Try
  <2>2. ASSUME NEW j \in 1..(k - 1) PROVE CallsNext(t.cs[j], t.cs[j + 1])
    <3>1. j \in 1..(m - 1) /\ j \in 1..k /\ j + 1 \in 1..k
      BY <1>1
    <3> QED  BY <1>2, <1>4, <3>1 DEF CFunctions
  <2> QED  BY <1>4, <2>1, <2>2 DEF CFunctions
<1>18. Saved(t.cs)
  <2> SUFFICES ASSUME NEW j \in 1..k, t.cs[j].t = "try"
               PROVE  t.cs[j].nc = CcallsAt(t.cs, j - 1)
                      /\ t.cs[j].nny = NonYieldableAt(t.cs, j - 1)
    BY <1>4 DEF Saved
  <2>1. j - 1 \in Nat /\ \A i \in 1..(j - 1) : i \in 1..k
    BY <1>1
  <2>2. CcallsAt(t.cs, j - 1) = CcallsAt(s.cs, j - 1)
          /\ NonYieldableAt(t.cs, j - 1) = NonYieldableAt(s.cs, j - 1)
    BY <1>4, <2>1, SameCount
  <2>3. j \in 1..m
    BY <1>1
  <2> QED  BY <1>2, <1>4, <2>2, <2>3 DEF Saved
<1>19. Depths(t, d)
  <2>1. \A j \in 1..k : j \in 1..m
    BY <1>3
  <2>2. ASSUME NEW j \in 1..k PROVE d[j] \in 1..r /\ OnFrame(t, t.cs[j], d[j])
    <3> DEFINE x == d[j]
    <3>1. x = d[j]
      OBVIOUS
    <3>2. x \in 1..n /\ OnFrame(s, s.cs[j], x) /\ x <= r
      BY <1>2, <1>5, <2>1 DEF Depths
    <3> HIDE DEF x
    <3>3. x \in 1..r /\ (x \in 1..(r - 1) \/ x = r)
      BY <1>1, <3>2
    <3>4. CallTop(s, x) <= CallTop(t, x) /\ CallTop(s, x) \in Nat /\ CallTop(t, x) \in Nat
      BY <1>15, <3>3
    <3>5. (s.cs[j].t \in {"try", "close"}) => s.cs[j].level \in Nat
      <4>1. s.cs[j] \in CFunction
        BY <1>2, <2>1, SkeletonType
      <4> QED  BY <4>1, EntryType DEF TryC, CloseC
    <3>6. OnFrame(t, s.cs[j], x)
      <4>1. t.ci[x] = s.ci[x]
        BY <1>4, <3>3
      <4> QED  BY <3>2, <3>4, <3>5, <4>1 DEF OnFrame, CloseOk, Try
    <3> QED  BY <1>4, <3>1, <3>3, <3>6
  <2>3. ASSUME NEW i \in 1..k, NEW j \in 1..k, i < j PROVE d[i] <= d[j]
    <3>1. i \in 1..m /\ j \in 1..m
      BY <1>1
    <3> QED  BY <1>2, <2>3, <3>1 DEF Depths
  <2>4. ASSUME NEW j \in 1..(k - 1) PROVE Deeper(t, d, j)
    <3>1. j \in 1..(m - 1) /\ j \in 1..k /\ j + 1 \in 1..k
      BY <1>1
    <3>2. Deeper(s, d, j) /\ d[j] \in 1..r /\ d[j + 1] \in 1..r
      BY <1>2, <2>2, <3>1 DEF Depths
    <3>3. s.cs[j].t = "ccall" => d[j] + 1 \in 1..r
      BY <1>1, <3>2 DEF Deeper
    <3>4. \A i \in (d[j] + 2)..d[j + 1] : i \in 1..r
      BY <1>1, <3>2
    <3> DEFINE e == s.cs[j]
               c == s.cs[j + 1]
               x == d[j]
    <3>5. Beneath(s, e, c, x) /\ x \in 1..r
      BY <3>2 DEF Deeper
    <3> HIDE DEF e, c, x
    <3>6. Beneath(t, e, c, x)
      <4>1. x \in Nat /\ x \in 1..n /\ t.ci[x].pc = s.ci[x].pc
        BY <1>3, <1>4, <3>5
      <4>2. \A i \in (x + 1)..r : i \in 1..r /\ i <= n
        BY <1>1, <4>1
      <4>3. x < r => x + 1 \in 1..r /\ x < n
        BY <1>1, <4>1
      <4>4. \A i \in (x + 1)..r : t.ci[i].ypcall => i <= n /\ s.ci[i].ypcall
        BY <1>4, <4>2
      <4>5. x < r => x < n /\ t.ci[x + 1].func = s.ci[x + 1].func
                     /\ t.ci[x + 1].want = s.ci[x + 1].want
        BY <1>4, <4>3
      <4>6. Len(s.ci) \in Nat /\ Len(t.ci) \in Nat /\ Len(s.ci) = n /\ Len(t.ci) = r
        BY <1>1, <1>2, <1>4
      <4> QED  BY <3>5, <4>1, <4>4, <4>5, <4>6, BeneathKept
    <3>7. Beneath(t, s.cs[j], s.cs[j + 1], d[j])
      BY <3>6 DEF e, c, x
    <3> QED  BY <1>4, <3>1, <3>2, <3>3, <3>4, <3>7 DEF Deeper, TakesResult
  <2> QED  BY <1>4, <2>2, <2>3, <2>4 DEF Depths
<1>20. Waiting(t, d)
  <2> SUFFICES ASSUME t.status \notin ErrorStatus, NEW i \in 2..(r - 1)
               PROVE  MayBeSkipped(t.ci[i]) \/ \E j \in 1..k : t.cs[j].t = "cfn" /\ d[j] = i
    BY <1>4 DEF Waiting
  <2>1. i \in 2..(n - 1) /\ i \in 1..r /\ ~(i >= r)
    BY <1>1
  <2>2. MayBeSkipped(s.ci[i]) \/ \E j \in 1..m : s.cs[j].t = "cfn" /\ d[j] = i
    BY <1>2, <2>1 DEF Waiting, CutTo
  <2>3. \A j \in 1..m : j \in 1..k \/ j \in (k + 1)..m
    BY <1>1
  <2> QED  BY <1>2, <1>4, <2>1, <2>2, <2>3 DEF CutTo
<1>21. t.cs # <<>> => t.status = "ok"
  <2>1. t.cs # <<>> => Len(t.cs) # 0
    BY StateType, EmptySeq
  <2> QED  BY <1>1, <2>1 DEF CutTo
<1> QED  BY <1>2, <1>16, <1>17, <1>18, <1>19, <1>20, <1>21 DEF Skeleton

(* Variables keep their slots while the frames below theirs, and the handlers
   that account for them, stay. *)
LEMMA VariablesKept ==
  ASSUME NEW s, NEW d, Base(s, d), NEW t \in State,
         NEW r \in 1..Len(s.ci), Len(t.ci) = r,
         \A i \in 1..(r - 1) : t.ci[i] = s.ci[i],
         t.ci[r].func = s.ci[r].func, t.ci[r].kind = s.ci[r].kind,
         Len(t.tbclist) <= Len(s.tbclist),
         \A a \in 1..Len(t.tbclist) :
           /\ t.tbclist[a] = s.tbclist[a]
           /\ t.tbclist[a] <= Len(t.stack) /\ t.stack[t.tbclist[a]] = s.stack[t.tbclist[a]]
           /\ s.ci[r].kind = "C" /\ s.ci[r].func < t.tbclist[a] => Accounted(t, t.tbclist[a], r),
         \A j \in 1..Len(s.cs) :
           Try(s.cs[j], {"closep"}) /\ s.cs[j].ci < r => j \in 1..Len(t.cs) /\ t.cs[j] = s.cs[j]
  PROVE  Variables(t)
<1> DEFINE n == Len(s.ci)
<1>1. n \in Nat /\ n > 0 /\ r \in 1..n /\ r \in Nat
  BY BaseType
<1>2. n = Len(s.ci) /\ Variables(s)
  BY DEF Base
<1> HIDE DEF n
<1>3. Len(t.tbclist) <= MaxVars
  <2>1. Len(t.tbclist) \in Nat /\ Len(s.tbclist) \in Nat /\ Len(s.tbclist) <= MaxVars
    BY <1>2, StateType, BaseType DEF Variables
  <2> QED  BY <2>1, Bounds
<1>4. \A a \in 1..Len(t.tbclist) : a \in 1..Len(s.tbclist)
  BY StateType, BaseType
<1>5. \A a, b \in 1..Len(t.tbclist) : a < b => t.tbclist[a] < t.tbclist[b]
  BY <1>2, <1>4 DEF Variables
<1>6. \A a \in 1..Len(t.tbclist) : VariableOk(t, t.tbclist[a])
  <2> TAKE a \in 1..Len(t.tbclist)
  <2> DEFINE p == t.tbclist[a]
  <2>1. p = s.tbclist[a] /\ VariableOk(s, p) /\ p <= Len(t.stack) /\ t.stack[p] = s.stack[p]
    BY <1>2, <1>4 DEF Variables
  <2>2. s.ci[r].kind = "C" /\ s.ci[r].func < p => Accounted(t, p, r)
    OBVIOUS
  <2> HIDE DEF p
  <2> SUFFICES ASSUME NEW i \in 1..r
               PROVE  /\ p # t.ci[i].func
                      /\ t.ci[i].kind = "C" /\ t.ci[i].func < p
                         /\ p < CallTop(t, i) => Accounted(t, p, i)
    BY <1>2, <2>1 DEF VariableOk, p
  <2>3. p # s.ci[i].func /\
        (s.ci[i].kind = "C" /\ s.ci[i].func < p /\ p < CallTop(s, i) => Accounted(s, p, i))
    <3>1. i \in 1..n
      BY <1>1
    <3> QED  BY <1>2, <2>1, <3>1 DEF VariableOk
  <2>4. CASE i = r
    BY <2>2, <2>3, <2>4
  <2>5. CASE i # r
    <3>1. i \in 1..(r - 1) /\ i < r
      BY <1>1, <2>5
    <3>2. t.ci[i] = s.ci[i] /\ CallTop(t, i) = CallTop(s, i)
      <4>1. i + 1 \in 1..(r - 1) \/ i + 1 = r
        BY <1>1, <3>1
      <4>2. t.ci[i + 1].func = s.ci[i + 1].func
        BY <4>1
      <4>3. i < n
        BY <1>1, <3>1
      <4> QED  BY <1>2, <3>1, <4>2, <4>3 DEF CallTop
    <3>3. Accounted(s, p, i) => Accounted(t, p, i)
      <4> SUFFICES ASSUME Accounted(s, p, i) PROVE Accounted(t, p, i)
        OBVIOUS
      <4>1. CASE \E j \in 1..Len(s.cs) : Try(s.cs[j], {"closep"}) /\ s.cs[j].ci = i
              /\ p >= s.cs[j].level
        BY <3>1, <4>1 DEF Accounted
      <4>2. CASE s.ci[i].tbc \/ (s.ci[i].recst # "ok" /\ p >= s.ci[i].u2)
        BY <3>2, <4>2 DEF Accounted
      <4> QED  BY <4>1, <4>2 DEF Accounted
    <3> QED  BY <2>3, <3>2, <3>3
  <2> QED  BY <2>4, <2>5
<1> QED  BY <1>3, <1>5, <1>6 DEF Variables

-----------------------------------------------------------------------------
(* One frame more *)

NewFrame(s, t, g) ==
  /\ t \in State /\ t.stack = s.stack /\ t.cs = s.cs /\ SameCounts(s, t)
  /\ Len(t.ci) = Len(s.ci) + 1 /\ t.ci[Len(s.ci) + 1] = g
  /\ \A i \in 1..Len(s.ci) : t.ci[i] = s.ci[i]

FreshlyCalled(g) == g.pc = "run" /\ ~g.ypcall /\ ~g.clsret /\ g.recst = "ok"

(* g is called with the handlers of frame n as lau_pcallk and lauF_close call *)
CalledUnder(s, d, n, g) ==
  \A j \in 1..Len(s.cs) : d[j] = n => /\ (Try(s.cs[j], {"pcall"}) => g.func = s.cs[j].level)
                                     /\ (Try(s.cs[j], {"closep"}) => g.want = 0)

(* One more frame, for a function just called. *)
LEMMA PushFrame ==
  ASSUME NEW s, NEW d, Base(s, d), NEW n \in Nat, n = Len(s.ci), n < MaxFrames,
         NEW g \in CallInfo, NEW t, NewFrame(s, t, g), FreshlyCalled(g),
         s.ci[n].func < g.func, g.func <= Len(s.stack),
         \A a \in 1..Len(s.tbclist) : s.tbclist[a] < g.func,
         FrameOk(t, n), CallerOk(t, n),
         \A j \in 1..Len(s.cs) : d[j] = n => OnFrame(t, s.cs[j], n),
         CalledUnder(s, d, n, g),
         n > 1 => MayBeSkipped(s.ci[n]) \/ \E j \in 1..Len(s.cs) : s.cs[j].t = "cfn" /\ d[j] = n
  PROVE  Base(t, d)
<1> DEFINE m == Len(s.cs)
           k == n + 1
<1>1. n > 0 /\ m \in Nat /\ k \in Nat /\ k > 1
  BY BaseType
<1>2. m = Len(s.cs) /\ Frames(s) /\ CFunctions(s.cs) /\ Saved(s.cs) /\ Depths(s, d) /\ Waiting(s, d)
      /\ d \in [Nat -> Nat] /\ Variables(s) /\ (s.cs # <<>> => s.status = "ok")
  BY DEF Base, Skeleton
<1>3. k = n + 1
  OBVIOUS
<1>4. /\ t \in State /\ t.stack = s.stack /\ t.cs = s.cs /\ t.tbclist = s.tbclist
         /\ t.status = s.status
      /\ Len(t.ci) = k /\ t.ci[k] = g /\ \A i \in 1..n : t.ci[i] = s.ci[i]
  BY DEF NewFrame, SameCounts
<1> HIDE DEF m, k
<1>5. \A i \in 1..k : i \in 1..n \/ i = k
  BY <1>3
<1>6. \A i \in 1..n : i \in 1..k /\ i < k /\ i # k
  BY <1>3
<1>7. /\ \A i \in 1..n : /\ s.ci[i] \in CallInfo /\ s.ci[i].func \in Nat /\ CallTop(s, i) \in Nat
                         /\ s.ci[i].func <= Len(s.stack)
      /\ \A i \in 1..(n - 1) : CallTop(s, i) = s.ci[i + 1].func
      /\ \A i, j \in 1..n : i < j => s.ci[i].func < s.ci[j].func
      /\ CallTop(s, n) = Len(s.stack) + 1 /\ Len(s.stack) \in Nat
  BY Bases DEF Base
<1>8. n \in 1..n /\ g.func \in Nat
  BY <1>1, FrameType
<1>9. \A i \in 1..(n - 1) : CallTop(t, i) = CallTop(s, i) /\ i \in 1..n /\ i + 1 \in 1..n
  <2> TAKE i \in 1..(n - 1)
  <2>1. i \in 1..n /\ i + 1 \in 1..n /\ i < n /\ i < k
    BY <1>3
  <2> QED  BY <1>4, <2>1 DEF CallTop
<1>10. CallTop(t, n) = g.func /\ CallTop(t, k) = Len(s.stack) + 1
  <2>1. ~(k < k) /\ n < k
    BY <1>6, <1>8, <1>1
  <2> QED  BY <1>3, <1>4, <2>1 DEF CallTop
<1>11. \A i \in 1..n : s.ci[i].func < g.func
  <2> TAKE i \in 1..n
  <2>1. s.ci[i].func \in Nat /\ s.ci[n].func \in Nat /\ (i = n \/ s.ci[i].func < s.ci[n].func)
    <3>1. i = n \/ i < n
      OBVIOUS
    <3> QED  BY <1>7, <1>8, <3>1
  <2> QED  BY <1>8, <2>1
<1>12. Frames(t)
  <2>1. k \in 1..MaxFrames /\ t.ci[1] = BaseCI
    <3>1. s.ci[1] = BaseCI /\ 1 \in 1..n
      BY <1>1, <1>2 DEF Frames
    <3>2. MaxFrames \in Nat /\ k <= MaxFrames
      BY <1>3, Bounds
    <3> QED  BY <1>1, <1>4, <3>1, <3>2
  <2>2. ASSUME NEW i \in 1..k, NEW j \in 1..k, i < j PROVE t.ci[i].func < t.ci[j].func
    <3>1. i \in 1..n
      BY <1>3, <2>2
    <3>2. CASE j = k
      BY <1>4, <1>11, <3>1, <3>2
    <3>3. CASE j \in 1..n
      BY <1>4, <1>7, <2>2, <3>1, <3>3
    <3> QED  BY <1>5, <3>2, <3>3
  <2>3. \A i \in 1..k : t.ci[i].func <= Len(t.stack)
    BY <1>4, <1>5, <1>7
  <2>4. \A i \in 1..k : FrameOk(t, i)
    <3> TAKE i \in 1..k
    <3>1. CASE i = k
      BY <1>4, <3>1 DEF FrameOk, FreshlyCalled, Returning
    <3>2. CASE i = n
      BY <3>2
    <3>3. CASE i \in 1..(n - 1)
      <4>1. FrameOk(s, i)
        BY <1>2, <1>9, <3>3 DEF Frames
      <4> QED  BY <1>4, <1>9, <3>3, <4>1 DEF FrameOk
    <3>4. i = k \/ i = n \/ i \in 1..(n - 1)
      BY <1>3
    <3> QED  BY <3>1, <3>2, <3>3, <3>4
  <2>5. \A i \in 1..(k - 1) : CallerOk(t, i)
    <3> TAKE i \in 1..(k - 1)
    <3>1. CASE i = n
      BY <3>1
    <3>2. CASE i \in 1..(n - 1)
      <4>1. CallerOk(s, i)
        BY <1>2, <3>2 DEF Frames
      <4>2. t.ci[i] = s.ci[i] /\ t.ci[i + 1] = s.ci[i + 1] /\ CallTop(t, i) = CallTop(s, i)
              /\ t.stack = s.stack
        BY <1>4, <1>9, <3>2
      <4> QED  BY <4>1, <4>2 DEF CallerOk, ResultOf
    <3>3. i = n \/ i \in 1..(n - 1)
      BY <1>3
    <3> QED  BY <3>1, <3>2, <3>3
  <2>6. ASSUME NEW i \in 2..k, NEW j \in 2..k, i < j, t.ci[j].ypcall PROVE MayBeSkipped(t.ci[i])
    <3>1. j # k
      BY <1>4, <2>6 DEF FreshlyCalled
    <3>2. i \in 2..n /\ j \in 2..n /\ i \in 1..n /\ j \in 1..n
      BY <1>3, <2>6, <3>1
    <3> QED  BY <1>2, <1>4, <2>6, <3>2 DEF Frames
  <2> QED  BY <1>4, <2>1, <2>2, <2>3, <2>4, <2>5, <2>6 DEF Frames
<1>13. Variables(t)
  <2>1. ASSUME NEW a \in 1..Len(s.tbclist) PROVE VariableOk(t, s.tbclist[a])
    <3> DEFINE p == s.tbclist[a]
    <3>1. VariableOk(s, p) /\ p < g.func /\ p \in Nat
      BY <1>2, BaseType, StateType DEF Variables
    <3> HIDE DEF p
    <3>2. ASSUME NEW i, Accounted(s, p, i), i \in 1..n PROVE Accounted(t, p, i)
      BY <1>4, <3>2 DEF Accounted
    <3>3. ASSUME NEW i \in 1..k
          PROVE  /\ p # t.ci[i].func
                 /\ t.ci[i].kind = "C" /\ t.ci[i].func < p
                    /\ p < CallTop(t, i) => Accounted(t, p, i)
      <4>1. CASE i = k
        <5>1. p # g.func /\ ~(g.func < p)
          BY <1>8, <3>1
        <5> QED  BY <1>4, <4>1, <5>1
      <4>2. CASE i \in 1..n
        <5>1. p # s.ci[i].func
                /\ (s.ci[i].kind = "C" /\ s.ci[i].func < p /\ p < CallTop(s, i) => Accounted(s, p,
                i))
          BY <3>1, <4>2 DEF VariableOk
        <5>2. p < CallTop(t, i) => p < CallTop(s, i)
          <6>1. CASE i = n
            <7>1. p <= Len(s.stack)
              BY <3>1 DEF VariableOk
            <7> QED  BY <1>7, <3>1, <6>1, <7>1
          <6>2. CASE i \in 1..(n - 1)
            BY <1>9, <6>2
          <6>3. i = n \/ i \in 1..(n - 1)
            BY <4>2
          <6> QED  BY <6>1, <6>2, <6>3
        <5> QED  BY <1>4, <3>2, <4>2, <5>1, <5>2
      <4> QED  BY <1>5, <4>1, <4>2
    <3> QED  BY <1>4, <3>1, <3>3 DEF VariableOk, p
  <2> QED  BY <1>2, <1>4, <2>1 DEF Variables
<1>14. Depths(t, d)
  <2>1. ASSUME NEW j \in 1..m PROVE d[j] \in 1..k /\ OnFrame(t, s.cs[j], d[j])
    <3> DEFINE x == d[j]
    <3>1. x \in 1..n /\ OnFrame(s, s.cs[j], x)
      BY <1>2 DEF Depths
    <3>2. x = n => OnFrame(t, s.cs[j], x)
      BY <1>2
    <3>3. x = d[j]
      OBVIOUS
    <3> HIDE DEF x
    <3>4. x \in 1..(n - 1) => OnFrame(t, s.cs[j], x)
      BY <1>4, <1>9, <3>1 DEF OnFrame, CloseOk
    <3>5. x = n \/ x \in 1..(n - 1)
      BY <3>1
    <3>6. x \in 1..k
      BY <1>6, <3>1
    <3> QED  BY <3>2, <3>4, <3>5, <3>6, <3>3
  <2>2. ASSUME NEW i \in 1..m, NEW j \in 1..m, i < j PROVE d[i] <= d[j]
    BY <1>2, <2>2 DEF Depths
  <2>3. ASSUME NEW j \in 1..(m - 1) PROVE Deeper(t, d, j)
    <3> DEFINE x == d[j]
               y == d[j + 1]
    <3>1. j \in 1..m /\ j + 1 \in 1..m
      BY <1>1
    <3>2. Deeper(s, d, j) /\ x \in 1..n /\ y \in 1..n
      BY <1>2, <3>1 DEF Depths
    <3>3. s.cs[j].t = "ccall" => x < y
      BY <3>2 DEF Deeper
    <3> HIDE DEF x, y
    <3>4. (s.cs[j].t = "ccall" => x + 1 \in 1..n) /\ \A i \in (x + 2)..y : i \in 1..n
      BY <3>2, <3>3
    <3> QED
      <4> DEFINE e == s.cs[j]  c == s.cs[j + 1]
      <4>1. Deeper(s, d, j) /\ t.cs[j] = e /\ t.cs[j + 1] = c /\ x = d[j] /\ y = d[j + 1]
        BY <1>4, <3>2 DEF x, y
      <4>2. t.ci[x] = s.ci[x]
        BY <1>4, <3>2
      <4>3. e.t = "ccall" => t.ci[x + 1] = s.ci[x + 1]
        BY <1>4, <3>4
      <4>4. \A i \in (x + 2)..y : t.ci[i] = s.ci[i]
        BY <1>4, <3>4
      <4> HIDE DEF e, c
      <4>5. /\ e.t = "ccall" => x < y
            /\ e.t = "ccall" /\ c.t # "exec" => y = x + 1
            /\ e.t = "ccall" /\ c.t = "exec" =>
                 s.ci[x + 1].fresh /\ \A i \in (x + 2)..y : ~s.ci[i].fresh
            /\ e.t = "unroll" => y > 1
            /\ e.t = "exec" => IF c.t = "cfn" \/ Closing(c, {"poscall"}) THEN y = x + 1 ELSE y = x
            /\ e.t = "exec" /\ c.t = "ccall" => TakesResult(s.ci[x])
            /\ e.t = "cfn" /\ c.t = "ccall" => c.y = 1 \/ s.ci[x].k
            /\ e.t \notin {"ccall", "unroll", "exec"} => y = x
            /\ Beneath(s, e, c, x)
        BY <4>1 DEF Deeper, e, c
      <4>7. Beneath(t, e, c, x)
        <5>1. x = n => (Try(e, {"pcall"}) => g.func = e.level) /\ (Try(e, {"closep"}) => g.want = 0)
          BY <1>2, <3>1, <4>1 DEF e, CalledUnder
        <5>2. x # n => x + 1 \in 1..n /\ x < n
          BY <3>2
        <5>3. CASE x = n
          <6>1. ~g.ypcall
            BY DEF FreshlyCalled
          <6>2. \A i \in (x + 1)..Len(t.ci) : ~t.ci[i].ypcall
            <7>1. \A i \in (n + 1)..k : i = k
              BY <1>3
            <7> QED  BY <1>4, <5>3, <6>1, <7>1
          <6>3. t.ci[x + 1] = g
            BY <1>3, <1>4, <5>3
          <6> QED  BY <4>2, <4>5, <5>1, <5>3, <6>2, <6>3 DEF Beneath
        <5>4. CASE x # n
          <6>1. \A i \in (x + 1)..k : t.ci[i].ypcall => i <= n /\ s.ci[i].ypcall
            <7> SUFFICES ASSUME NEW i \in (x + 1)..k, t.ci[i].ypcall PROVE i <= n /\ s.ci[i].ypcall
              OBVIOUS
            <7>1. i # k
              BY <1>4 DEF FreshlyCalled
            <7>3. i \in 1..k
              BY <3>2
            <7>2. i \in 1..n
              BY <1>5, <7>1, <7>3
            <7> QED  BY <1>4, <7>2
          <6>2. t.ci[x + 1] = s.ci[x + 1] /\ x \in Nat
            BY <1>4, <3>2, <5>2, <5>4
          <6>3. Len(s.ci) \in Nat /\ Len(t.ci) \in Nat /\ Len(s.ci) = n /\ Len(t.ci) = k
            BY <1>1, <1>4
          <6>4. t.ci[x].pc = s.ci[x].pc /\ Beneath(s, e, c, x) /\ x < Len(s.ci)
            BY <4>2, <4>5, <5>2, <5>4
          <6> QED  BY <6>1, <6>2, <6>3, <6>4, BeneathKept
        <5> QED  BY <5>3, <5>4
      <4>6. /\ e.t = "ccall" /\ c.t = "exec" =>
                 t.ci[x + 1].fresh /\ \A i \in (x + 2)..y : ~t.ci[i].fresh
            /\ e.t = "exec" /\ c.t = "ccall" => TakesResult(t.ci[x])
            /\ e.t = "cfn" /\ c.t = "ccall" => c.y = 1 \/ t.ci[x].k
        BY <4>2, <4>3, <4>4, <4>5
      <4> QED  BY <4>1, <4>5, <4>6, <4>7 DEF Deeper
  <2> QED  BY <1>2, <1>4, <2>1, <2>2, <2>3 DEF Depths
<1>15. Waiting(t, d)
  <2> SUFFICES ASSUME t.status \notin ErrorStatus, NEW i \in 2..(k - 1)
               PROVE  MayBeSkipped(t.ci[i]) \/ \E j \in 1..m : t.cs[j].t = "cfn" /\ d[j] = i
    <3>1. Len(t.ci) - 1 = k - 1 /\ Len(t.cs) = m
      BY <1>2, <1>4
    <3> QED  BY <3>1 DEF Waiting
  <2>1. i \in 2..n /\ i \in 1..n
    BY <1>3
  <2>2. CASE i = n
    <3>1. n > 1
      BY <2>1, <2>2
    <3>2. MayBeSkipped(s.ci[n]) \/ \E j \in 1..m : s.cs[j].t = "cfn" /\ d[j] = n
      BY <1>2, <3>1
    <3>3. t.ci[i] = s.ci[n]
      BY <1>4, <2>1, <2>2
    <3> QED  BY <1>4, <2>2, <3>2, <3>3
  <2>3. CASE i # n
    <3>1. i \in 2..(n - 1)
      BY <2>1, <2>3
    <3> QED
      <4>1. i \in 2..(Len(s.ci) - 1) /\ s.status \notin ErrorStatus
        BY <1>4, <3>1
      <4>2. MayBeSkipped(s.ci[i]) \/ \E j \in 1..m : s.cs[j].t = "cfn" /\ d[j] = i
        BY <1>2, <4>1 DEF Waiting
      <4> QED  BY <1>4, <2>1, <4>2
  <2> QED  BY <2>2, <2>3
<1> QED  BY <1>2, <1>4, <1>12, <1>13, <1>14, <1>15 DEF Base, Skeleton

-----------------------------------------------------------------------------
(* lauV_execute goes from frame to frame *)

(* The C function in control may be taken to belong to another frame. *)
LEMMA MoveTop ==
  ASSUME NEW s, NEW d, Skeleton(s, d), NEW m \in Nat, m = Len(s.cs), m > 0, s.cs[m].t = "exec",
         NEW n \in Nat, n = Len(s.ci), NEW x \in 1..n, s.ci[x].kind = "Lau",
         m > 1 => d[m - 1] <= x /\ Deeper(s, [d EXCEPT ![m] = x], m - 1)
  PROVE  Skeleton(s, [d EXCEPT ![m] = x])
<1> DEFINE c == [d EXCEPT ![m] = x]
           k == m - 1
<1>1. k \in Nat /\ m = k + 1 /\ x \in Nat
  OBVIOUS
<1>2. Frames(s) /\ CFunctions(s.cs) /\ Saved(s.cs) /\ Depths(s, d) /\ Waiting(s, d)
      /\ d \in [Nat -> Nat] /\ (s.cs # <<>> => s.status = "ok") /\ s \in State
  BY DEF Skeleton
<1>3. c \in [Nat -> Nat] /\ c[m] = x /\ \A j \in 1..k : c[j] = d[j]
  <2>1. d \in [Nat -> Nat]
    BY <1>2
  <2>2. \A j \in 1..k : j \in Nat /\ j # m
    OBVIOUS
  <2>3. m \in Nat /\ x \in Nat
    OBVIOUS
  <2> QED  BY <2>1, <2>2, <2>3
<1>4. m > 1 => d[k] <= x /\ Deeper(s, c, k)
  OBVIOUS
<1> HIDE DEF c, k
<1>5. \A j \in 1..m : j \in 1..k \/ j = m
  BY <1>1
<1>6. \A j \in 1..k : j \in 1..m /\ j # m
  BY <1>1
<1>7. \A j \in 1..m : d[j] \in 1..n /\ OnFrame(s, s.cs[j], d[j])
  BY <1>2 DEF Depths
<1>8. Depths(s, c)
  <2>1. ASSUME NEW j \in 1..m PROVE c[j] \in 1..n /\ OnFrame(s, s.cs[j], c[j])
    <3>1. CASE j = m
      BY <1>3, <3>1 DEF OnFrame, Try
    <3>2. CASE j \in 1..k
      BY <1>3, <1>7, <3>2
    <3> QED  BY <1>5, <3>1, <3>2
  <2>2. ASSUME NEW i \in 1..m, NEW j \in 1..m, i < j PROVE c[i] <= c[j]
    <3>1. i \in 1..k
      BY <1>1, <2>2
    <3>2. CASE j \in 1..k
      BY <1>2, <1>3, <2>2, <3>1, <3>2 DEF Depths
    <3>3. CASE j = m
      <4>1. k \in 1..k /\ k \in 1..m /\ m > 1 /\ (i = k \/ i < k)
        BY <1>1, <3>1
      <4>2. d[i] \in Nat /\ d[k] \in Nat /\ (i < k => d[i] <= d[k])
        BY <1>2, <1>7, <4>1 DEF Depths
      <4>3. d[i] <= x
        BY <1>1, <1>4, <4>1, <4>2
      <4> QED  BY <1>3, <3>1, <3>3, <4>3
    <3> QED  BY <1>5, <3>2, <3>3
  <2>3. ASSUME NEW j \in 1..(m - 1) PROVE Deeper(s, c, j)
    <3>1. CASE j = k
      BY <1>1, <1>4, <3>1
    <3>2. CASE j # k
      <4>1. j \in 1..k /\ j + 1 \in 1..k
        BY <1>1, <3>2
      <4>2. Deeper(s, d, j) /\ c[j] = d[j] /\ c[j + 1] = d[j + 1]
        BY <1>2, <1>3, <4>1 DEF Depths
      <4> QED  BY <4>2 DEF Deeper
    <3> QED  BY <3>1, <3>2
  <2> QED  BY <2>1, <2>2, <2>3 DEF Depths
<1>9. Waiting(s, c)
  <2> SUFFICES ASSUME s.status \notin ErrorStatus, NEW i \in 2..(n - 1)
               PROVE  MayBeSkipped(s.ci[i]) \/ \E j \in 1..m : s.cs[j].t = "cfn" /\ c[j] = i
    BY DEF Waiting
  <2>1. MayBeSkipped(s.ci[i]) \/ \E j \in 1..m : s.cs[j].t = "cfn" /\ d[j] = i
    BY <1>2 DEF Waiting
  <2>2. ASSUME NEW j \in 1..m, s.cs[j].t = "cfn" PROVE c[j] = d[j]
    <3>1. j # m
      BY <2>2
    <3> QED  BY <1>3, <1>5, <3>1
  <2> QED  BY <2>1, <2>2
<1> QED  BY <1>2, <1>3, <1>8, <1>9 DEF Skeleton, c

(* What runs a function of the program. *)
LEMMA Runs ==
  ASSUME NEW s, NEW d, Skeleton(s, d), NEW m \in Nat, m = Len(s.cs), NEW j \in 1..m,
         s.cs[j].t \in {"exec", "cfn"}
  PROVE  /\ j > 1 /\ j - 1 \in 1..m
         /\ s.cs[j].t = "exec" => s.cs[j - 1].t \in {"ccall", "unroll"}
         /\ s.cs[j].t = "cfn" => s.cs[j - 1].t \in {"ccall", "unroll", "exec"}
         /\ d[j - 1] \in Nat /\ d[j] \in Nat
         /\ Deeper(s, d, j - 1) /\ d[j - 1] < d[j]
         /\ s.cs[j - 1].t = "unroll" => d[j - 1] = 1
<1> DEFINE k == j - 1
<1>1. CFunctions(s.cs) /\ Depths(s, d)
  BY DEF Skeleton
<1>2. j > 1
  <2>1. EntryOk(s.cs, j)
    BY <1>1 DEF CFunctions
  <2>2. ~(j = 1)
    BY <2>1 DEF EntryOk, Try
  <2> QED  BY <2>2
<1>3. k \in 1..m /\ k \in 1..(m - 1) /\ j = k + 1
  BY <1>2
<1> HIDE DEF k
<1>4. CallsNext(s.cs[k], s.cs[j]) /\ Deeper(s, d, k)
  BY <1>1, <1>3 DEF CFunctions, Depths
<1>5. d[k] \in Nat /\ d[j] \in Nat /\ OnFrame(s, s.cs[k], d[k])
  BY <1>1, <1>3, SkeletonType DEF Depths
<1>6. /\ s.cs[j].t = "exec" => s.cs[k].t \in {"ccall", "unroll"}
      /\ s.cs[j].t = "cfn" => s.cs[k].t \in {"ccall", "unroll", "exec"}
  BY <1>4 DEF CallsNext, Try, Closing
<1>7. s.cs[k].t = "unroll" => d[k] = 1
  BY <1>5 DEF OnFrame
<1>8. d[k] < d[j]
  <2>1. CASE s.cs[k].t = "ccall"
    BY <1>3, <1>4, <2>1 DEF Deeper
  <2>2. CASE s.cs[k].t = "unroll"
    <3>1. d[j] > 1
      BY <1>3, <1>4, <2>2 DEF Deeper
    <3> QED  BY <1>5, <1>7, <2>2, <3>1
  <2>3. CASE s.cs[k].t = "exec" /\ s.cs[j].t = "cfn"
    <3>1. d[j] = d[k] + 1
      BY <1>3, <1>4, <2>3 DEF Deeper
    <3> QED  BY <1>5, <3>1
  <2> QED  BY <1>6, <2>1, <2>2, <2>3
<1> QED  BY <1>2, <1>3, <1>4, <1>5, <1>6, <1>7, <1>8 DEF k

(* lauV_execute goes on with a Lau function that it has called itself, and back. *)
LEMMA ExecUp ==
  ASSUME NEW s, NEW d, Skeleton(s, d), NEW m \in Nat, m = Len(s.cs), m > 0, s.cs[m].t = "exec",
         NEW n \in Nat, n = Len(s.ci), n > 1, s.ci[n].kind = "Lau", ~s.ci[n].fresh, d[m] = n - 1
  PROVE  Skeleton(s, [d EXCEPT ![m] = n])
<1> DEFINE c == [d EXCEPT ![m] = n]
           k == m - 1
<1>1. m \in 1..m /\ n \in 1..n
  OBVIOUS
<1>2. /\ k \in Nat /\ m = k + 1 /\ k > 0 /\ d[k] \in Nat /\ d[k] < n - 1 /\ Deeper(s, d, k)
      /\ s.cs[k].t \in {"ccall", "unroll"}
  BY <1>1, Runs
<1>3. c[m] = n /\ c[k] = d[k]
  <2>1. d \in [Nat -> Nat]
    BY DEF Skeleton
  <2> QED  BY <1>2, <2>1
<1> HIDE DEF c, k
<1>4. Deeper(s, c, k)
  <2>1. CASE s.cs[k].t = "ccall"
    <3>1. s.ci[d[k] + 1].fresh /\ \A i \in (d[k] + 2)..(n - 1) : ~s.ci[i].fresh
      BY <1>2, <2>1 DEF Deeper
    <3>2. \A i \in (d[k] + 2)..n : i \in (d[k] + 2)..(n - 1) \/ i = n
      BY <1>2
    <3>3. \A i \in (d[k] + 2)..n : ~s.ci[i].fresh
      BY <3>1, <3>2
    <3>4. d[k] < n
      BY <1>2
    <3> QED  BY <1>2, <1>3, <2>1, <3>1, <3>3, <3>4 DEF Deeper
  <2>2. CASE s.cs[k].t = "unroll"
    BY <1>2, <1>3, <2>2 DEF Deeper
  <2> QED  BY <1>2, <2>1, <2>2
<1>5. d[k] <= n
  BY <1>2
<1> QED  BY <1>1, <1>4, <1>5, MoveTop DEF c, k

(* The same when such a function is left again. *)
LEMMA ExecDown ==
  ASSUME NEW s, NEW d, Skeleton(s, d), NEW m \in Nat, m = Len(s.cs), m > 0, s.cs[m].t = "exec",
         NEW n \in Nat, n = Len(s.ci), d[m] = n, ~s.ci[n].fresh
  PROVE  /\ n > 1 /\ s.ci[n - 1].kind = "Lau" /\ Skeleton(s, [d EXCEPT ![m] = n - 1])
         /\ \A j \in 1..(m - 1) : d[j] < n
<1> DEFINE r == n - 1
           c == [d EXCEPT ![m] = r]
           k == m - 1
<1>1. m \in 1..m /\ n > 0 /\ n \in 1..n
  BY Bases
<1>2. /\ k \in Nat /\ m = k + 1 /\ k > 0 /\ d[k] \in Nat /\ d[k] < n /\ Deeper(s, d, k)
      /\ s.cs[k].t \in {"ccall", "unroll"} /\ (s.cs[k].t = "unroll" => d[k] = 1) /\ k \in 1..m
  BY <1>1, Runs
<1>3. s.ci[n].kind = "Lau"
  <2>1. OnFrame(s, s.cs[m], n)
    BY <1>1 DEF Skeleton, Depths
  <2> QED  BY <2>1 DEF OnFrame
<1>4. n > 1
  <2>1. s.ci[1].kind = "C"
    BY DEF Skeleton, Frames, BaseCI, Frame
  <2>2. n # 1
    BY <1>3, <2>1
  <2>3. n > 0
    BY <1>1
  <2>4. \A q \in Nat : q > 0 /\ q # 1 => q > 1
    OBVIOUS
  <2> QED  BY <2>2, <2>3, <2>4, Zenon
<1>5. r \in 1..n /\ r \in 1..(n - 1) /\ n = r + 1 /\ r \in Nat
  BY <1>4
<1>6. c[m] = r /\ c[k] = d[k]
  <2>1. d \in [Nat -> Nat]
    BY DEF Skeleton
  <2> QED  BY <1>2, <1>5, <2>1
<1> HIDE DEF c, k, r
<1>7. s.ci[r].kind = "Lau"
  <2>1. CallerOk(s, r)
    BY <1>5 DEF Skeleton, Frames
  <2> QED  BY <1>3, <1>5, <2>1 DEF CallerOk
<1>8. r > 1
  <2>1. s.ci[1].kind = "C"
    BY DEF Skeleton, Frames, BaseCI, Frame
  <2>2. r # 1
    BY <1>7, <2>1
  <2> QED  BY <1>5, <2>2
<1>9. Deeper(s, c, k) /\ d[k] <= r
  <2>1. CASE s.cs[k].t = "ccall"
    <3>1. s.ci[d[k] + 1].fresh /\ \A i \in (d[k] + 2)..n : ~s.ci[i].fresh
      BY <1>2, <2>1 DEF Deeper
    <3>2. d[k] + 1 # n
      BY <3>1
    <3>3. d[k] < r /\ d[k] <= r
      BY <1>2, <1>5, <3>2
    <3>4. \A i \in (d[k] + 2)..r : i \in (d[k] + 2)..n
      BY <1>2, <1>5
    <3> QED  BY <1>2, <1>6, <2>1, <3>1, <3>3, <3>4 DEF Deeper
  <2>2. CASE s.cs[k].t = "unroll"
    <3>1. d[k] <= r
      BY <1>2, <1>8, <1>5, <2>2
    <3> QED  BY <1>2, <1>6, <1>8, <2>2, <3>1 DEF Deeper
  <2> QED  BY <1>2, <2>1, <2>2
<1>10. Skeleton(s, c)
  BY <1>5, <1>7, <1>9, MoveTop DEF c, k
<1>11. \A j \in 1..k : d[j] < n
  <2> TAKE j \in 1..k
  <2>1. j \in 1..m /\ (j = k \/ j < k)
    BY <1>2
  <2>2. d[j] \in Nat /\ (j < k => d[j] <= d[k])
    <3>1. Depths(s, d) /\ d[j] \in Nat
      BY SkeletonType DEF Skeleton
    <3>2. \A a, b \in 1..m : a < b => d[a] <= d[b]
      BY <3>1 DEF Depths
    <3> QED  BY <1>2, <2>1, <3>1, <3>2
  <2> QED  BY <1>2, <2>1, <2>2
<1> QED  BY <1>4, <1>7, <1>10, <1>11 DEF r, c, k
=============================================================================
