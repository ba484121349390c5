------------------------ MODULE LauCallScope_lemmas -------------------------
(***************************************************************************)
(* The state of LauCall as LauScope sees it: what the operators of LauCall *)
(* do to it, where an error goes, and what the steps of a function of the  *)
(* program mean to LauScope.                                               *)
(***************************************************************************)
EXTENDS LauCall_proofs, LauCallScope

-----------------------------------------------------------------------------
(* Sequences as functions *)

IsList(f, n) == f = [i \in 1..n |-> f[i]]

(* Such a function is a sequence. *)
LEMMA Lists ==
  ASSUME NEW n \in Nat, NEW f, IsList(f, n)
  PROVE  /\ f \in Seq({f[i] : i \in 1..n}) /\ Len(f) = n /\ DOMAIN f = 1..n
<1>1. f \in [1..n -> {f[i] : i \in 1..n}]
  BY DEF IsList
<1>2. DOMAIN f = 1..n
  BY DEF IsList
<1> QED  BY <1>1, <1>2, SeqDef, LenProperties

(* Two of them with the same elements are the same. *)
LEMMA SameList ==
  ASSUME NEW n \in Nat, NEW f, NEW g, IsList(f, n), IsList(g, n), \A i \in 1..n : f[i] = g[i]
  PROVE  f = g
BY DEF IsList

(* One element more. *)
LEMMA ListAppend ==
  ASSUME NEW n \in Nat, NEW f, NEW g, IsList(f, n), IsList(g, n + 1),
         \A i \in 1..n : g[i] = f[i]
  PROVE  g = Append(f, g[n + 1])
<1> DEFINE x == g[n + 1]
           T == {f[i] : i \in 1..n} \cup {x}
<1>1. f \in Seq(T) /\ Len(f) = n
  BY Lists, SeqDef DEF IsList
<1>2. x \in T
  OBVIOUS
<1> HIDE DEF T
<1>3. /\ Len(Append(f, x)) = n + 1 /\ \A i \in 1..n : Append(f, x)[i] = f[i]
      /\ Append(f, x)[n + 1] = x /\ Append(f, x) \in Seq(T)
  BY <1>1, <1>2, AppendProperties
<1>4. DOMAIN Append(f, x) = 1..(n + 1)
  BY <1>3, LenProperties
<1>5. Append(f, x) = [i \in 1..(n + 1) |-> Append(f, x)[i]]
  BY <1>3, <1>4, SeqDef
<1>6. IsList(Append(f, x), n + 1) /\ IsList(g, n + 1)
  BY <1>5 DEF IsList
<1>7. \A i \in 1..(n + 1) : Append(f, x)[i] = g[i]
  <2>1. \A i \in 1..(n + 1) : i \in 1..n \/ i = n + 1
    OBVIOUS
  <2> QED  BY <1>3, <2>1
<1> HIDE DEF x
<1>8. Append(f, x) = g
  <2>1. n + 1 \in Nat
    OBVIOUS
  <2> QED  BY <1>6, <1>7, <2>1, SameList
<1> QED  BY <1>8 DEF x

(* One element less. *)
LEMMA ListFront ==
  ASSUME NEW n \in Nat, n > 0, NEW f, NEW g, IsList(f, n), IsList(g, n - 1),
         \A i \in 1..(n - 1) : g[i] = f[i]
  PROVE  g = Front(f)
<1> DEFINE T == {f[i] : i \in 1..n}
<1>1. f \in Seq(T) /\ Len(f) = n
  BY Lists
<1> HIDE DEF T
<1>2. f # <<>>
  BY <1>1
<1>3. Front(f) \in Seq(T) /\ Len(Front(f)) = n - 1 /\ \A i \in 1..(n - 1) : Front(f)[i] = f[i]
  BY <1>1, <1>2, FrontLast
<1>4. Front(f) = [i \in 1..(n - 1) |-> Front(f)[i]]
  BY <1>3, SeqDef, LenProperties
<1>5. n - 1 \in Nat
  OBVIOUS
<1>6. IsList(Front(f), n - 1) /\ \A i \in 1..(n - 1) : Front(f)[i] = g[i]
  BY <1>3, <1>4 DEF IsList
<1> QED  BY <1>5, <1>6, SameList

(* The last element replaced, and what follows element r dropped. *)
LEMMA ListCut ==
  ASSUME NEW n \in Nat, NEW r \in 1..n, NEW f, NEW g, IsList(f, n), IsList(g, r),
         \A i \in 1..(r - 1) : g[i] = f[i]
  PROVE  g = Append(SubSeq(f, 1, r - 1), g[r])
<1> DEFINE T == {f[i] : i \in 1..n}
           h == SubSeq(f, 1, r - 1)
<1>0. r - 1 \in 0..n /\ r - 1 \in Nat /\ (r - 1) + 1 = r
  OBVIOUS
<1>1. f \in Seq(T) /\ Len(f) = n /\ r - 1 \in 0..n /\ r - 1 \in Nat /\ (r - 1) + 1 = r
  BY <1>0, Lists
<1> HIDE DEF T
<1>2. h \in Seq(T) /\ Len(h) = r - 1 /\ \A i \in 1..(r - 1) : h[i] = f[i]
  BY <1>1, Prefix
<1> HIDE DEF h
<1>3. IsList(h, r - 1)
  BY <1>1, <1>2, SeqDef, LenProperties DEF IsList
<1>4. IsList(g, (r - 1) + 1) /\ \A i \in 1..(r - 1) : g[i] = h[i]
  BY <1>1, <1>2
<1>5. g = Append(h, g[(r - 1) + 1])
  BY <1>1, <1>3, <1>4, ListAppend
<1> QED  BY <1>1, <1>5 DEF h

(* Only the last element replaced. *)
LEMMA ListAlter ==
  ASSUME NEW n \in Nat, n > 0, NEW f, NEW g, IsList(f, n), IsList(g, n),
         \A i \in 1..(n - 1) : g[i] = f[i]
  PROVE  g = [f EXCEPT ![n] = g[n]]
<1> DEFINE h == [f EXCEPT ![n] = g[n]]
<1>1. IsList(h, n)
  BY DEF IsList
<1>2. \A i \in 1..n : g[i] = h[i]
  <2> TAKE i \in 1..n
  <2>1. CASE i = n
    BY <2>1 DEF IsList
  <2>2. CASE i # n
    <3>1. i \in 1..(n - 1)
      BY <2>2
    <3> QED  BY <2>2, <3>1 DEF IsList
  <2> QED  BY <2>1, <2>2
<1> HIDE DEF h
<1> QED  BY <1>1, <1>2, SameList DEF h

-----------------------------------------------------------------------------
(* How many variables are older than a position *)

Sorted(s) ==
  /\ s.tbclist \in Seq(Nat)
  /\ \A a, b \in 1..Len(s.tbclist) : a < b => s.tbclist[a] < s.tbclist[b]

(* The variables of a state are in order. *)
LEMMA AreSorted ==
  ASSUME NEW s, NEW d, Base(s, d)
  PROVE  Sorted(s)
BY BaseType, StateType DEF Base, Variables, Sorted

OlderIs(s, p, o) ==
  /\ o \in 0..Len(s.tbclist)
  /\ \A a \in 1..Len(s.tbclist) : a <= o <=> s.tbclist[a] < p

(* The number is the one that splits the list. *)
LEMMA OlderSplits ==
  ASSUME NEW s, Sorted(s), NEW p \in Nat
  PROVE  OlderIs(s, p, Older(s, p)) /\ Older(s, p) \in Nat
<1> DEFINE q == s.tbclist
           n == Len(q)
           S == {0} \cup {a \in 1..n : q[a] < p}
<1>1. n \in Nat /\ \A a \in 1..n : q[a] \in Nat
  BY LenProperties, ElementOfSeq DEF Sorted
<1>2. \A a, b \in 1..n : a < b => q[a] < q[b]
  BY DEF Sorted
<1>3. Older(s, p) = Max(S)
  BY DEF Older
<1> HIDE DEF n, q
<1>4. S \subseteq 0..n /\ S \in SUBSET (0..n) /\ S # {}
  BY <1>1
<1>5. Max(S) \in S /\ \A y \in S : Max(S) >= y
  BY <1>1, <1>4, MaxOf
<1> DEFINE o == Max(S)
<1>6. o \in 0..n /\ o \in Nat
  BY <1>1, <1>4, <1>5
<1>7. ASSUME NEW a \in 1..n  PROVE a <= o <=> q[a] < p
  <2>1. q[a] < p => a <= o
    BY <1>1, <1>5, <1>6
  <2>2. ASSUME a <= o  PROVE q[a] < p
    <3>1. o \in 1..n /\ q[o] < p
      BY <1>1, <1>5, <1>6, <2>2
    <3>2. a = o \/ a < o
      BY <1>6, <2>2
    <3> QED  BY <1>1, <1>2, <3>1, <3>2
  <2> QED  BY <2>1, <2>2
<1> QED  BY <1>3, <1>6, <1>7 DEF OlderIs, n, q

(* There is only one. *)
LEMMA OlderUnique ==
  ASSUME NEW s, NEW p, NEW o, NEW r, OlderIs(s, p, o), OlderIs(s, p, r)
  PROVE  o = r
<1> DEFINE n == Len(s.tbclist)
           Q(a) == s.tbclist[a] < p
<1>1. o \in 0..n /\ r \in 0..n /\ \A a \in 1..n : (a <= o <=> Q(a)) /\ (a <= r <=> Q(a))
  BY DEF OlderIs
<1> HIDE DEF Q
<1>2. CASE n \in Nat
  <2> HIDE DEF n
  <2>1. \A x, y \in 0..n : x < y => y \in 1..n /\ y <= y /\ ~(y <= x)
    BY <1>2
  <2>2. o = r \/ o < r \/ r < o
    BY <1>1, <1>2
  <2> QED  BY <1>1, <2>1, <2>2
<1>3. CASE n \notin Nat
  BY <1>1, <1>3
<1> QED  BY <1>2, <1>3

(* So it is found by what it splits. *)
LEMMA OlderFound ==
  ASSUME NEW s, Sorted(s), NEW p \in Nat, NEW o, OlderIs(s, p, o)
  PROVE  Older(s, p) = o
BY OlderSplits, OlderUnique

(* All variables are older, or none from some level on. *)
LEMMA OlderAll ==
  ASSUME NEW s, Sorted(s), NEW p \in Nat
  PROVE  /\ Older(s, p) <= Len(s.tbclist) /\ Len(s.tbclist) \in Nat
         /\ Older(s, p) = Len(s.tbclist) <=> ~TbcFrom(s, p)
<1> DEFINE q == s.tbclist
           n == Len(q)
           o == Older(s, p)
<1>1. n \in Nat /\ \A a \in 1..n : q[a] \in Nat
  BY LenProperties, ElementOfSeq DEF Sorted
<1>2. o \in 0..n /\ \A a \in 1..n : a <= o <=> q[a] < p
  BY OlderSplits DEF OlderIs
<1>3. TbcFrom(s, p) <=> \E a \in 1..n : q[a] >= p
  BY DEF TbcFrom
<1> HIDE DEF n, q, o
<1>4. TbcFrom(s, p) <=> \E a \in 1..n : ~(a <= o)
  <2>1. \A a \in 1..n : q[a] >= p <=> ~(q[a] < p)
    BY <1>1
  <2> QED  BY <1>2, <1>3, <2>1
<1>5. (\E a \in 1..n : ~(a <= o)) <=> o # n
  BY <1>1, <1>2
<1> QED  BY <1>1, <1>2, <1>4, <1>5 DEF n, q, o

(* Higher positions have more variables below. *)
LEMMA OlderGrows ==
  ASSUME NEW s, Sorted(s), NEW p \in Nat, NEW r \in Nat, p <= r
  PROVE  Older(s, p) <= Older(s, r)
<1> DEFINE q == s.tbclist
           n == Len(q)
           o == Older(s, p)
           u == Older(s, r)
<1>1. n \in Nat /\ \A a \in 1..n : q[a] \in Nat
  BY LenProperties, ElementOfSeq DEF Sorted
<1>2. /\ o \in 0..n /\ \A a \in 1..n : a <= o <=> q[a] < p
      /\ u \in 0..n /\ \A a \in 1..n : a <= u <=> q[a] < r
  BY OlderSplits DEF OlderIs
<1> HIDE DEF n, q, o, u
<1>3. CASE o = 0
  <2>1. u >= 0
    BY <1>1, <1>2
  <2> QED  BY <1>3, <2>1 DEF o, u
<1>4. CASE o # 0
  <2>1. o \in 1..n /\ q[o] < p
    BY <1>1, <1>2, <1>4
  <2>2. q[o] < r
    BY <1>1, <2>1
  <2>3. o <= u
    BY <1>2, <2>1, <2>2
  <2> QED  BY <2>3 DEF o, u
<1> QED  BY <1>3, <1>4

(* The same list. *)
LEMMA OlderSame ==
  ASSUME NEW s, NEW t, t.tbclist = s.tbclist
  PROVE  \A p : Older(t, p) = Older(s, p) /\ (TbcFrom(t, p) <=> TbcFrom(s, p))
BY DEF Older, TbcFrom

(* No variable lies at the position itself. *)
LEMMA OlderNext ==
  ASSUME NEW s, Sorted(s), NEW p \in Nat, \A a \in 1..Len(s.tbclist) : s.tbclist[a] # p
  PROVE  Older(s, p + 1) = Older(s, p)
<1> DEFINE q == s.tbclist
           n == Len(q)
           o == Older(s, p)
<1>1. n \in Nat /\ \A a \in 1..n : q[a] \in Nat
  BY LenProperties, ElementOfSeq DEF Sorted
<1>2. o \in 0..n /\ \A a \in 1..n : a <= o <=> q[a] < p
  BY OlderSplits DEF OlderIs
<1>3. \A a \in 1..n : q[a] # p
  OBVIOUS
<1> HIDE DEF n, q
<1>4. \A a \in 1..n : q[a] < p <=> q[a] < p + 1
  BY <1>1, <1>3
<1>5. OlderIs(s, p + 1, o)
  BY <1>2, <1>4 DEF OlderIs, n, q
<1> QED  BY <1>5, OlderFound

(* t has one mark less than s, or one more. *)
OneLess(s, t) == s.tbclist # <<>> /\ t.tbclist = Front(s.tbclist)
OneMore(s, t, l) == t.tbclist = Append(s.tbclist, l)

(* The last variable is taken from the list. *)
LEMMA OlderFront ==
  ASSUME NEW s, Sorted(s), NEW t, OneLess(s, t),
         NEW p \in Nat, p <= Last(s.tbclist)
  PROVE  Sorted(t) /\ Older(t, p) = Older(s, p)
<1> DEFINE q == s.tbclist
           n == Len(q)
           o == Older(s, p)
<1>1. n \in Nat /\ n > 0 /\ (\A a \in 1..n : q[a] \in Nat) /\ Last(q) = q[n] /\ Front(q) \in Seq(Nat)
      /\ Len(Front(q)) = n - 1 /\ \A a \in 1..(n - 1) : Front(q)[a] = q[a]
  BY FrontLast, LenProperties, ElementOfSeq DEF Sorted, OneLess
<1>2. o \in 0..n /\ \A a \in 1..n : a <= o <=> q[a] < p
  BY OlderSplits DEF OlderIs
<1>3. \A a, b \in 1..n : a < b => q[a] < q[b]
  BY DEF Sorted
<1>4. t.tbclist = Front(q) /\ p <= Last(q)
  BY DEF OneLess
<1> HIDE DEF n, q, o
<1>5. ~(n <= o) /\ o \in 0..(n - 1)
  BY <1>1, <1>2, <1>4
<1>6. Sorted(t)
  <2>1. \A a \in 1..(n - 1) : a \in 1..n
    BY <1>1
  <2>2. \A a, b \in 1..(n - 1) : a < b => Front(q)[a] < Front(q)[b]
    BY <1>1, <1>3, <2>1
  <2> QED  BY <1>1, <1>4, <2>2 DEF Sorted
<1>7. OlderIs(t, p, o)
  BY <1>1, <1>2, <1>4, <1>5 DEF OlderIs
<1> QED  BY <1>6, <1>7, OlderFound DEF o

(* A variable is added to it. *)
LEMMA OlderAppend ==
  ASSUME NEW s, Sorted(s), NEW l \in Nat, \A a \in 1..Len(s.tbclist) : s.tbclist[a] < l,
         NEW t, OneMore(s, t, l), NEW p \in Nat, p <= l
  PROVE  Sorted(t) /\ Older(t, p) = Older(s, p)
<1> DEFINE q == s.tbclist
           n == Len(q)
           o == Older(s, p)
           r == Append(q, l)
<1>1. n \in Nat /\ (\A a \in 1..n : q[a] \in Nat) /\ r \in Seq(Nat)
      /\ Len(r) = n + 1 /\ (\A a \in 1..n : r[a] = q[a]) /\ r[n + 1] = l
  BY AppendProperties, LenProperties, ElementOfSeq DEF Sorted
<1>2. o \in 0..n /\ \A a \in 1..n : a <= o <=> q[a] < p
  BY OlderSplits DEF OlderIs
<1>3. \A a, b \in 1..n : a < b => q[a] < q[b]
  BY DEF Sorted
<1>4. t.tbclist = r /\ p <= l /\ \A a \in 1..n : q[a] < l
  BY DEF OneMore
<1> HIDE DEF n, q, o, r
<1>5. \A a \in 1..(n + 1) : a \in 1..n \/ a = n + 1
  BY <1>1
<1>6. Sorted(t)
  <2>1. \A a, b \in 1..(n + 1) : a < b => a \in 1..n
    BY <1>1
  <2>2. \A a, b \in 1..(n + 1) : a < b => r[a] < r[b]
    BY <1>1, <1>3, <1>4, <1>5, <2>1
  <2> QED  BY <1>1, <1>4, <2>2 DEF Sorted
<1>7. ~(n + 1 <= o) /\ ~(l < p) /\ o \in 0..(n + 1)
  BY <1>1, <1>2, <1>4
<1>8. OlderIs(t, p, o)
  BY <1>1, <1>2, <1>4, <1>5, <1>7 DEF OlderIs
<1> QED  BY <1>6, <1>8, OlderFound DEF o

-----------------------------------------------------------------------------
(* The handlers of a frame *)

(* A protected call and the C functions above it that belong to its frame: without
   a reset inside a reset, only what it runs and the call that this makes. *)
ItsOwn(cs, j, k) ==
  cs[k].t = "ccall" \/ (k = j + 1 /\ Try(cs[j], {"closep"}) /\ Closing(cs[k], {"closep"})
                        /\ cs[k].level = cs[j].level /\ cs[k].status = cs[j].status)

(* A protected call whose frame has another C function above it runs that one itself. *)
LEMMA Alone ==
  ASSUME NEW s, NEW d, Skeleton(s, d), ~NestedClose, NEW j \in 1..Len(s.cs), NEW k \in 1..Len(s.cs),
         j < k, d[j] = d[k], Try(s.cs[j], Protected)
  PROVE  ItsOwn(s.cs, j, k)
<1> DEFINE m == Len(s.cs)
<1>1. m \in Nat /\ \A i \in 1..m : d[i] \in Nat
  BY SkeletonType
<1>2. \A i \in 1..m : EntryOk(s.cs, i)
  <2>1. CFunctions(s.cs)
    BY DEF Skeleton
  <2> QED  BY <2>1 DEF CFunctions
<1>3. \A i \in 1..(m - 1) : CallsNext(s.cs[i], s.cs[i + 1])
  <2>1. CFunctions(s.cs)
    BY DEF Skeleton
  <2> QED  BY <2>1 DEF CFunctions
<1>4. /\ \A i \in 1..(m - 1) : Deeper(s, d, i)
      /\ \A x, y \in 1..m : x < y => d[x] <= d[y]
  <2>1. Depths(s, d)
    BY DEF Skeleton
  <2> QED  BY <2>1 DEF Depths
<1>5. \A i \in 1..(m - 1) : s.cs[i].t = "ccall" => d[i] < d[i + 1]
  BY <1>4 DEF Deeper
<1> HIDE DEF m
<1>6. j \in 1..m /\ k \in 1..m
  BY DEF m
<1>7. ASSUME NEW i \in 1..m, i < k, j <= i, s.cs[i].t = "ccall"  PROVE FALSE
  <2>1. i \in 1..(m - 1) /\ i + 1 \in 1..m /\ i + 1 <= k
    BY <1>1, <1>6, <1>7
  <2>2. d[i] < d[i + 1]
    BY <1>5, <1>7, <2>1
  <2>3. d[j] <= d[i]
    <3>1. j = i \/ j < i
      BY <1>6, <1>7
    <3> QED  BY <1>1, <1>4, <1>6, <3>1
  <2>4. d[i + 1] <= d[k]
    <3>1. i + 1 = k \/ i + 1 < k
      BY <1>6, <2>1
    <3> QED  BY <1>1, <1>4, <1>6, <2>1, <3>1
  <2> QED  BY <1>1, <1>6, <2>1, <2>2, <2>3, <2>4
<1>8. j + 1 \in 1..m /\ j \in 1..(m - 1) /\ j + 1 <= k
  BY <1>1, <1>6
<1>9. ASSUME s.cs[j + 1].t = "ccall"  PROVE ItsOwn(s.cs, j, k)
  <2>1. j <= j + 1 /\ (j + 1 = k \/ j + 1 < k)
    BY <1>6, <1>8
  <2>2. k = j + 1
    BY <1>7, <1>8, <1>9, <2>1
  <2> QED  BY <1>9, <2>2 DEF ItsOwn
<1>10. CASE s.cs[j].by = "pcall"
  <2>1. CallsNext(s.cs[j], s.cs[j + 1]) /\ s.cs[j].t = "try"
    BY <1>3, <1>8 DEF Try
  <2>2. s.cs[j + 1].t = "ccall"
    BY <1>10, <2>1 DEF CallsNext, Try
  <2> QED  BY <1>9, <2>2
<1>11. CASE s.cs[j].by # "pcall"
  <2>1. CallsNext(s.cs[j], s.cs[j + 1]) /\ s.cs[j].t = "try" /\ s.cs[j].by = "closep"
    BY <1>3, <1>8, <1>11 DEF Try, Protected
  <2>2. s.cs[j + 1].t # "reset"
    <3> SUFFICES ASSUME s.cs[j + 1].t = "reset" PROVE FALSE
      OBVIOUS
    <3>1. EntryOk(s.cs, j + 1) /\ EntryOk(s.cs, j)
      BY <1>2, <1>6, <1>8
    <3>2. j # 1
      BY <2>1, <3>1 DEF EntryOk, Try, Unprotected
    <3>3. j + 1 <= 3 /\ j + 1 # 3
      BY <3>1 DEF EntryOk
    <3> QED  BY <1>6, <3>2, <3>3
  <2>3. /\ Closing(s.cs[j + 1], {"closep"}) /\ s.cs[j + 1].level = s.cs[j].level
        /\ s.cs[j + 1].status = s.cs[j].status
    BY <2>1, <2>2 DEF CallsNext, Try
  <2>4. CASE k = j + 1
    BY <2>1, <2>3, <2>4 DEF ItsOwn, Try
  <2>5. CASE k # j + 1
    <3>1. j + 1 \in 1..(m - 1) /\ j + 2 \in 1..m /\ j + 2 <= k /\ (j + 1) + 1 = j + 2
      BY <1>1, <1>6, <1>8, <2>5
    <3>2. CallsNext(s.cs[j + 1], s.cs[j + 2])
      BY <1>3, <3>1
    <3>3. s.cs[j + 1].t = "close"
      BY <2>3 DEF Closing
    <3>4. s.cs[j + 2].t = "ccall"
      BY <3>2, <3>3 DEF CallsNext, Try
    <3>5. j + 2 = k \/ (j + 2 < k /\ j <= j + 2)
      BY <1>6, <3>1
    <3>6. k = j + 2
      BY <1>7, <3>1, <3>4, <3>5
    <3> QED  BY <3>4, <3>6 DEF ItsOwn
  <2> QED  BY <2>4, <2>5
<1> QED  BY <1>10, <1>11

(* What Handlers selects. *)
LEMMA HandlerIs ==
  ASSUME NEW s, NEW d, Skeleton(s, d), NEW by \in Protected, NEW i, NEW j \in Handlers(s, by, i)
  PROVE  /\ j \in 1..Len(s.cs) /\ Try(s.cs[j], Protected) /\ s.cs[j].by = by /\ s.cs[j].ci = i
         /\ d[j] = i /\ i \in 1..Len(s.ci) /\ s.ci[i].kind = "C" /\ ~s.ci[i].ypcall
         /\ ~s.ci[i].clsret /\ s.cs[j].level \in Nat /\ s.ci[i].func < s.cs[j].level
         /\ s.cs[j].level <= CallTop(s, i) /\ (i = 1 => s.cs[j].level = 2)
         /\ s.cs[j].status \in ErrorStatus \cup {"ok"}
<1>1. j \in 1..Len(s.cs) /\ s.cs[j].t = "try" /\ s.cs[j].by = by /\ s.cs[j].ci = i
  BY DEF Handlers
<1>2. Try(s.cs[j], Protected)
  BY <1>1 DEF Try
<1>3. OnFrame(s, s.cs[j], d[j]) /\ d[j] \in 1..Len(s.ci)
  <2>1. Depths(s, d)
    BY DEF Skeleton
  <2> QED  BY <1>1, <2>1 DEF Depths
<1>4. s.cs[j] \in TryC
  BY <1>1, SkeletonType, EntryType
<1>5. s.cs[j].level \in Nat /\ s.cs[j].status \in ErrorStatus \cup {"ok"}
  BY <1>4 DEF TryC
<1> QED  BY <1>1, <1>2, <1>3, <1>5 DEF OnFrame

(* No handler of a frame below a C function of that frame that is none of its own. *)
LEMMA NoHandlers ==
  ASSUME NEW s, NEW d, Skeleton(s, d), ~NestedClose, NEW m \in Nat, m = Len(s.cs), m > 0,
         s.cs[m].t # "try", s.cs[m].t # "ccall", ~Closing(s.cs[m], {"closep"})
  PROVE  Handlers(s, "closep", d[m]) = {} /\ Handlers(s, "pcall", d[m]) = {}
<1>1. ASSUME NEW by \in Protected, NEW j \in Handlers(s, by, d[m])  PROVE FALSE
  <2>1. j \in 1..m /\ Try(s.cs[j], Protected) /\ d[j] = d[m]
    BY <1>1, HandlerIs
  <2>2. j # m
    BY <2>1 DEF Try
  <2>3. j < m /\ m \in 1..m
    BY <2>1, <2>2
  <2>4. ItsOwn(s.cs, j, m)
    BY <2>1, <2>3, Alone
  <2> QED  BY <2>4 DEF ItsOwn
<1> QED  BY <1>1 DEF Protected

(* A frame has at most one handler. *)
LEMMA OneHandler ==
  ASSUME NEW s, NEW d, Skeleton(s, d), ~NestedClose, NEW by \in Protected, NEW i,
         NEW j \in Handlers(s, by, i)
  PROVE  /\ Handlers(s, by, i) = {j} /\ Max(Handlers(s, by, i)) = j
         /\ \A b \in Protected : b # by => Handlers(s, b, i) = {}
<1>1. ASSUME NEW b \in Protected, NEW k \in Handlers(s, b, i)  PROVE k = j
  <2>1. j \in 1..Len(s.cs) /\ Try(s.cs[j], Protected) /\ d[j] = i
    BY HandlerIs
  <2>2. k \in 1..Len(s.cs) /\ Try(s.cs[k], Protected) /\ d[k] = i
    BY <1>1, HandlerIs
  <2>3. ~(j < k)
    <3> SUFFICES ASSUME j < k PROVE FALSE
      OBVIOUS
    <3>1. ItsOwn(s.cs, j, k)
      BY <2>1, <2>2, Alone
    <3> QED  BY <2>2, <3>1 DEF ItsOwn, Try, Closing
  <2>4. ~(k < j)
    <3> SUFFICES ASSUME k < j PROVE FALSE
      OBVIOUS
    <3>1. ItsOwn(s.cs, k, j)
      BY <2>1, <2>2, Alone
    <3> QED  BY <2>1, <3>1 DEF ItsOwn, Try, Closing
  <2> QED  BY <2>1, <2>2, <2>3, <2>4
<1>2. Handlers(s, by, i) = {j}
  BY <1>1
<1>3. Max({j}) = j
  <2>1. j \in Nat
    BY HandlerIs
  <2>2. {j} \in SUBSET (0..j) /\ {j} # {}
    BY <2>1
  <2> QED  BY <2>1, <2>2, MaxOf
<1>4. ASSUME NEW b \in Protected, b # by  PROVE Handlers(s, b, i) = {}
  <2> SUFFICES ASSUME NEW k \in Handlers(s, b, i) PROVE FALSE
    OBVIOUS
  <2>1. k = j
    BY <1>1
  <2> QED  BY <1>4, <2>1 DEF Handlers
<1> QED  BY <1>2, <1>3, <1>4

(* The handlers of frames below r, if the C stacks differ only above position k. *)
SameHandlers(s, t, r) ==
  \A i \in 1..r : \A by \in Protected :
    /\ Handlers(t, by, i) = Handlers(s, by, i)
    /\ \A j \in Handlers(s, by, i) : t.cs[j] = s.cs[j]

(* A frame keeps its handlers where the two C stacks part above them. *)
LEMMA HandlersCut ==
  ASSUME NEW s, NEW t, NEW r, NEW k \in Nat, Len(s.cs) \in Nat, Len(t.cs) \in Nat,
         k <= Len(s.cs), k <= Len(t.cs),
         \A j \in 1..k : t.cs[j] = s.cs[j],
         \A j \in (k + 1)..Len(s.cs) : Try(s.cs[j], Protected) => ~(s.cs[j].ci \in 1..r),
         \A j \in (k + 1)..Len(t.cs) : Try(t.cs[j], Protected) => ~(t.cs[j].ci \in 1..r)
  PROVE  SameHandlers(s, t, r)
<1> DEFINE m == Len(s.cs)
           q == Len(t.cs)
<1>1. ASSUME NEW i \in 1..r, NEW by \in Protected  PROVE
        /\ Handlers(t, by, i) = Handlers(s, by, i)
        /\ \A j \in Handlers(s, by, i) : j \in 1..k
  <2>1. ASSUME NEW j \in Handlers(s, by, i)  PROVE j \in 1..k /\ j \in Handlers(t, by, i)
    <3>1. j \in 1..m /\ s.cs[j].t = "try" /\ s.cs[j].by = by /\ s.cs[j].ci = i
      BY <2>1 DEF Handlers
    <3>2. Try(s.cs[j], Protected)
      BY <3>1 DEF Try
    <3>3. ~(j \in (k + 1)..m)
      BY <3>1, <3>2
    <3>4. j \in 1..k /\ j \in 1..q
      BY <3>1, <3>3
    <3> QED  BY <3>1, <3>4 DEF Handlers
  <2>2. ASSUME NEW j \in Handlers(t, by, i)  PROVE j \in Handlers(s, by, i)
    <3>1. j \in 1..q /\ t.cs[j].t = "try" /\ t.cs[j].by = by /\ t.cs[j].ci = i
      BY <2>2 DEF Handlers
    <3>2. Try(t.cs[j], Protected)
      BY <3>1 DEF Try
    <3>3. ~(j \in (k + 1)..q)
      BY <3>1, <3>2
    <3>4. j \in 1..k /\ j \in 1..m
      BY <3>1, <3>3
    <3> QED  BY <3>1, <3>4 DEF Handlers
  <2> QED  BY <2>1, <2>2
<1> QED  BY <1>1 DEF SameHandlers

-----------------------------------------------------------------------------
(* Activations *)

(* The last handler of a frame. *)
LEMMA LastHandler ==
  ASSUME NEW s, Len(s.cs) \in Nat, NEW by, NEW i, Handlers(s, by, i) # {}
  PROVE  Max(Handlers(s, by, i)) \in Handlers(s, by, i)
<1>1. Handlers(s, by, i) \in SUBSET (0..Len(s.cs))
  BY DEF Handlers
<1> QED  BY <1>1, MaxOf

(* An unwinding closes what lies inside its frame. *)
LEMMA UnwindingIs ==
  ASSUME NEW s, NEW d, Skeleton(s, d), NEW i \in 1..Len(s.ci), NEW u, u = Unwinding(s, i),
         u # NoUnwinding
  PROVE  /\ u.level \in Nat /\ s.ci[i].func < u.level /\ u.level <= CallTop(s, i)
         /\ u.status \in ErrorStatus \cup {"ok"} /\ s.ci[i].kind = "C" /\ ~s.ci[i].clsret
         /\ u = [level |-> u.level, status |-> u.status]
<1>1. s.ci[i] \in CallInfo /\ Len(s.cs) \in Nat
  BY SkeletonType
<1>2. FrameOk(s, i)
  BY DEF Skeleton, Frames
<1>3. CASE s.ci[i].ypcall /\ s.ci[i].recst # "ok"
  <2>1. u = [level |-> s.ci[i].u2, status |-> s.ci[i].recst]
    BY <1>3 DEF Unwinding
  <2>2. s.ci[i].u2 \in Nat /\ s.ci[i].recst \in ErrorStatus \cup {"ok"}
    BY <1>1, FrameType
  <2> QED  BY <1>2, <1>3, <2>1, <2>2 DEF FrameOk
<1>4. CASE ~(s.ci[i].ypcall /\ s.ci[i].recst # "ok")
  <2> DEFINE j == Max(Handlers(s, "closep", i))
  <2>1. Handlers(s, "closep", i) # {}
    BY <1>4 DEF Unwinding
  <2>2. j \in Handlers(s, "closep", i)
    BY <1>1, <2>1, LastHandler
  <2>3. u = [level |-> s.cs[j].level, status |-> s.cs[j].status]
    BY <1>4, <2>1 DEF Unwinding
  <2> HIDE DEF j
  <2>4. "closep" \in Protected
    BY DEF Protected
  <2>5. /\ s.cs[j].level \in Nat /\ s.ci[i].func < s.cs[j].level /\ s.cs[j].level <= CallTop(s, i)
        /\ s.cs[j].status \in ErrorStatus \cup {"ok"} /\ s.ci[i].kind = "C" /\ ~s.ci[i].clsret
    BY <2>2, <2>4, HandlerIs
  <2> QED  BY <2>3, <2>5
<1> QED  BY <1>3, <1>4

(* t differs from s only above the base of frame r. *)
Under(s, t, r) ==
  /\ r \in 1..Len(s.ci) /\ r \in 1..Len(t.ci)
  /\ \A i \in 1..(r - 1) : t.ci[i] = s.ci[i]
  /\ t.ci[r].func = s.ci[r].func /\ t.ci[r].args = s.ci[r].args
  /\ SameHandlers(s, t, r - 1)
  /\ \A p \in 1..(s.ci[r].func - 1) : t.stack[p] = s.stack[p]
  /\ \A p \in Nat : p <= s.ci[r].func => Older(t, p) = Older(s, p)

(* The frames below unwind as they did. *)
LEMMA SameUnwinding ==
  ASSUME NEW s, NEW t, NEW r, SameHandlers(s, t, r), Len(s.cs) \in Nat, NEW i \in 1..r,
         t.ci[i] = s.ci[i]
  PROVE  Unwinding(t, i) = Unwinding(s, i)
<1>1. /\ Handlers(t, "closep", i) = Handlers(s, "closep", i)
      /\ \A j \in Handlers(s, "closep", i) : t.cs[j] = s.cs[j]
  BY DEF SameHandlers, Protected
<1>2. CASE Handlers(s, "closep", i) = {}
  BY <1>1, <1>2 DEF Unwinding
<1>3. CASE Handlers(s, "closep", i) # {}
  <2>1. t.cs[Max(Handlers(s, "closep", i))] = s.cs[Max(Handlers(s, "closep", i))]
    BY <1>1, <1>3, LastHandler
  <2> QED  BY <1>1, <2>1 DEF Unwinding
<1> QED  BY <1>2, <1>3

(* Their activations are the same. *)
LEMMA Below ==
  ASSUME NEW s, NEW d, Skeleton(s, d), NEW t, NEW r, Under(s, t, r)
  PROVE  /\ \A i \in 1..(r - 1) : ActivationOf(t, i) = ActivationOf(s, i)
         /\ r > 1 => (ProtectedCall(t, r) <=> ProtectedCall(s, r))
         /\ Older(t, t.ci[r].func) = Older(s, s.ci[r].func)
<1> DEFINE n == Len(s.ci)
<1>1. /\ n \in Nat /\ Len(s.cs) \in Nat /\ r \in 1..n /\ r \in Nat
      /\ \A i \in 1..n : s.ci[i] \in CallInfo /\ s.ci[i].func \in Nat
  BY SkeletonType DEF Under
<1>2. /\ \A i \in 1..(n - 1) : CallTop(s, i) = s.ci[i + 1].func
      /\ \A i, j \in 1..n : i < j => s.ci[i].func < s.ci[j].func /\ CallTop(s, i) <= s.ci[j].func
  BY Bases
<1>3. ASSUME NEW i \in 2..r  PROVE ProtectedCall(t, i) <=> ProtectedCall(s, i)
  <2>1. i - 1 \in 1..(r - 1)
    BY <1>1
  <2>2. t.ci[i - 1] = s.ci[i - 1] /\ Handlers(t, "pcall", i - 1) = Handlers(s, "pcall", i - 1)
    BY <2>1 DEF Under, SameHandlers, Protected
  <2> QED  BY <2>2 DEF ProtectedCall
<1>4. ASSUME NEW i \in 1..(r - 1)  PROVE ActivationOf(t, i) = ActivationOf(s, i)
  <2> DEFINE u == Unwinding(s, i)
             ph == Phase(s.ci[i], u)
  <2>1. i \in 1..n /\ i \in 1..(n - 1) /\ i + 1 \in 1..n /\ i < r /\ (i + 1 = r \/ i + 1 \in 1..(r - 1))
    BY <1>1
  <2>2. t.ci[i] = s.ci[i] /\ SameHandlers(s, t, r - 1)
    BY DEF Under
  <2>3. Unwinding(t, i) = u
    BY <1>1, <2>2, SameUnwinding
  <2>4. i > 1 => (ProtectedCall(t, i) <=> ProtectedCall(s, i))
    BY <1>1, <1>3
  <2>5. /\ s.ci[i].func \in Nat /\ s.ci[r].func \in Nat /\ s.ci[i + 1].func \in Nat
        /\ s.ci[i].func < s.ci[r].func
        /\ CallTop(s, i) <= s.ci[r].func /\ CallTop(s, i) = s.ci[i + 1].func
        /\ s.ci[i].func < CallTop(s, i)
    <3>1. r \in 1..n /\ i < i + 1
      BY <1>1
    <3> QED  BY <1>1, <1>2, <2>1, <3>1
  <2>6. \A p \in Nat : p <= s.ci[r].func => Older(t, p) = Older(s, p)
    BY DEF Under
  <2>7. Older(t, t.ci[i].func) = Older(s, s.ci[i].func)
    BY <2>2, <2>5, <2>6
  <2>8. CallTop(t, i) = CallTop(s, i)
    <3>1. i < Len(t.ci)
      BY <1>1, <2>1 DEF Under
    <3>2. t.ci[i + 1].func = s.ci[i + 1].func
      BY <2>1 DEF Under
    <3> QED  BY <2>5, <3>1, <3>2 DEF CallTop
  <2>9. t.stack[CallTop(s, i) - 1] = s.stack[CallTop(s, i) - 1]
    <3>1. CallTop(s, i) - 1 \in 1..(s.ci[r].func - 1)
      <4>1. s.ci[i].func > 0
        BY <2>1, SkeletonType
      <4> QED  BY <2>5, <4>1
    <3> QED  BY <3>1 DEF Under
  <2>10. Handled(t, i, u) = Handled(s, i, u)
    BY <2>8, <2>9 DEF Handled
  <2>11. Keep(t, i, ph, u) = Keep(s, i, ph, u)
    <3>1. CASE ph = "caught"
      <4>1. u # NoUnwinding
        BY <3>1 DEF Phase
      <4>2. u.level \in Nat /\ u.level <= CallTop(s, i)
        BY <2>1, <4>1, UnwindingIs
      <4>3. u.level <= s.ci[r].func
        BY <2>5, <4>2
      <4> QED  BY <2>6, <3>1, <4>2, <4>3 DEF Keep
    <3>2. CASE ph = "block"
      <4>1. s.ci[i].pc \in {"close", "top"}
        BY <3>2 DEF Phase
      <4>2. FrameOk(s, i) /\ s.ci[i].level \in Nat
        BY <1>1, <2>1, FrameType DEF Skeleton, Frames
      <4>3. s.ci[i].level <= CallTop(s, i)
        BY <4>1, <4>2 DEF FrameOk
      <4>4. Older(t, s.ci[i].level) = Older(s, s.ci[i].level)
        BY <2>5, <2>6, <4>2, <4>3
      <4> QED  BY <2>2, <3>2, <4>4 DEF Keep
    <3>3. CASE ph \in {"leave", "run"}
      BY <2>2, <2>7, <3>3 DEF Keep
    <3>4. ph \in {"caught", "block", "leave", "run"}
      BY DEF Phase
    <3> QED  BY <3>1, <3>2, <3>3, <3>4
  <2>12. Phase(t.ci[i], u) = ph
    BY <2>2
  <2> HIDE DEF u, ph
  <2>13. t.ci[i].args = s.ci[i].args
    BY <2>2
  <2>14. (i > 1 /\ ProtectedCall(t, i)) <=> (i > 1 /\ ProtectedCall(s, i))
    BY <2>4
  <2> QED  BY <2>3, <2>7, <2>10, <2>11, <2>12, <2>13, <2>14 DEF ActivationOf, u, ph
<1>5. r > 1 => r \in 2..r
  BY <1>1
<1>6. Older(t, t.ci[r].func) = Older(s, s.ci[r].func)
  BY <1>1 DEF Under
<1> QED  BY <1>3, <1>4, <1>5, <1>6

(* The fields of an activation, and a change of those that say what it closes. *)
Act(args, protected, first, phase, keep, err) ==
  [args |-> args, protected |-> protected, first |-> first, phase |-> phase, keep |-> keep,
   err |-> err]

Became(a, phase, keep, err) == [a EXCEPT !.phase = phase, !.keep = keep, !.err = err]

(* The fields of an activation, and one that goes on in another phase. *)
LEMMA ActExcept ==
  ASSUME NEW a, NEW b, NEW c, NEW x1, NEW y1, NEW z1, NEW x2, NEW y2, NEW z2
  PROVE  /\ Became(Act(a, b, c, x1, y1, z1), x2, y2, z2) = Act(a, b, c, x2, y2, z2)
         /\ Act(a, b, c, x1, y1, z1).args = a /\ Act(a, b, c, x1, y1, z1).protected = b
         /\ Act(a, b, c, x1, y1, z1).first = c /\ Act(a, b, c, x1, y1, z1).phase = x1
         /\ Act(a, b, c, x1, y1, z1).keep = y1 /\ Act(a, b, c, x1, y1, z1).err = z1
<1> DEFINE R == Act(a, b, c, x1, y1, z1)
           T == [R EXCEPT !.phase = x2, !.keep = y2, !.err = z2]
           U == Act(a, b, c, x2, y2, z2)
<1>1. /\ DOMAIN R = {"args", "protected", "first", "phase", "keep", "err"}
      /\ R = [i \in DOMAIN R |-> R[i]]
  BY DEF Act
<1>2. R.args = a /\ R.first = c /\ R.phase = x1 /\ R.keep = y1 /\ R.err = z1
  BY DEF Act
<1>3. R.protected = b
  BY DEF Act
<1> HIDE DEF R
<1>4. /\ T = [i \in DOMAIN R |-> T[i]] /\ T.args = R.args /\ T.protected = R.protected
      /\ T.first = R.first /\ T.phase = x2 /\ T.keep = y2 /\ T.err = z2
  BY <1>1
<1>5. /\ DOMAIN U = {"args", "protected", "first", "phase", "keep", "err"}
      /\ U = [i \in DOMAIN U |-> U[i]]
  BY DEF Act
<1>6. U.args = a /\ U.first = c /\ U.phase = x2 /\ U.keep = y2 /\ U.err = z2
  BY DEF Act
<1>7. U.protected = b
  BY DEF Act
<1> HIDE DEF T, U
<1>8. T = U
  BY <1>1, <1>2, <1>3, <1>4, <1>5, <1>6, <1>7
<1> QED  BY <1>2, <1>3, <1>8 DEF T, U, R, Became

(* Frame r itself differs at most in what it closes. *)
LEMMA TopIs ==
  ASSUME NEW s, NEW d, Skeleton(s, d), NEW t, NEW r, Under(s, t, r),
         NEW u, u = Unwinding(t, r), NEW ph, ph = Phase(t.ci[r], u)
  PROVE  ActivationOf(t, r) = Became(ActivationOf(s, r), ph, Keep(t, r, ph, u), Handled(t, r, u))
<1>1. (r > 1 /\ ProtectedCall(t, r)) <=> (r > 1 /\ ProtectedCall(s, r))
  BY Below
<1>2. Older(t, t.ci[r].func) = Older(s, s.ci[r].func)
  BY Below
<1>3. t.ci[r].args = s.ci[r].args
  BY DEF Under
<1> DEFINE P == r > 1 /\ ProtectedCall(t, r)
           Q == r > 1 /\ ProtectedCall(s, r)
<1>4. P = Q
  <2>1. P \in BOOLEAN /\ Q \in BOOLEAN /\ (P <=> Q)
    BY <1>1
  <2> HIDE DEF P, Q
  <2> QED  BY <2>1
<1>5. ActivationOf(t, r) = [args |-> t.ci[r].args, protected |-> P, first |-> Older(t, t.ci[r].func),
                            phase |-> ph, keep |-> Keep(t, r, ph, u), err |-> Handled(t, r, u)]
  BY DEF ActivationOf
<1>6. \E ph1, k1, e1 : ActivationOf(s, r) =
        [args |-> s.ci[r].args, protected |-> Q, first |-> Older(s, s.ci[r].func),
         phase |-> ph1, keep |-> k1, err |-> e1]
  BY DEF ActivationOf
<1> HIDE DEF P, Q
<1>7. PICK ph1, k1, e1 : ActivationOf(s, r) =
        [args |-> s.ci[r].args, protected |-> Q, first |-> Older(s, s.ci[r].func),
         phase |-> ph1, keep |-> k1, err |-> e1]
  BY <1>6
<1>8. ActivationOf(s, r) = Act(s.ci[r].args, Q, Older(s, s.ci[r].func), ph1, k1, e1)
  BY <1>7 DEF Act
<1>9. ActivationOf(t, r) = Act(s.ci[r].args, Q, Older(s, s.ci[r].func), ph, Keep(t, r, ph, u),
                               Handled(t, r, u))
  BY <1>2, <1>3, <1>4, <1>5 DEF Act
<1> DEFINE A == s.ci[r].args
           F == Older(s, s.ci[r].func)
           K == Keep(t, r, ph, u)
           H == Handled(t, r, u)
<1> HIDE DEF A, F, K, H
<1>10. Became(Act(A, Q, F, ph1, k1, e1), ph, K, H) = Act(A, Q, F, ph, K, H)
  BY ONLY ActExcept
<1> QED  BY ONLY <1>8, <1>9, <1>10 DEF A, F, K, H

-----------------------------------------------------------------------------
(* The two variables of LauScope *)

Alive(s) == s.status \notin ErrorStatus

(* The activations are those of the frames. *)
LEMMA ActsAre ==
  ASSUME NEW s, NEW n \in Nat, n = Len(s.ci), n > 0, Alive(s)
  PROVE  /\ IsList(Activations(s), n) /\ Len(Activations(s)) = n
         /\ \A i \in 1..n : Activations(s)[i] = ActivationOf(s, i)
         /\ Last(Activations(s)) = ActivationOf(s, n)
<1>1. Activations(s) = [i \in 1..n |-> ActivationOf(s, i)]
  BY DEF Activations, Alive
<1>2. \A i \in 1..n : Activations(s)[i] = ActivationOf(s, i)
  BY <1>1
<1>3. IsList(Activations(s), n)
  BY <1>1 DEF IsList
<1>4. Len(Activations(s)) = n
  BY <1>3, Lists
<1> QED  BY <1>2, <1>3, <1>4 DEF Last

(* The variables to close are the values of the marked slots. *)
LEMMA PendingIs ==
  ASSUME NEW s, Len(s.tbclist) \in Nat
  PROVE  /\ IsList(Pending(s), Len(s.tbclist)) /\ Len(Pending(s)) = Len(s.tbclist)
         /\ \A a \in 1..Len(s.tbclist) : Pending(s)[a] = s.stack[s.tbclist[a]]
<1>1. IsList(Pending(s), Len(s.tbclist))
  BY DEF IsList, Pending
<1> QED  BY <1>1, Lists DEF Pending

(* A step that changes no activation. *)
LEMMA ActsStay ==
  ASSUME NEW s, NEW d, Skeleton(s, d), NEW t, NEW n \in Nat, n = Len(s.ci), Len(t.ci) = n,
         Alive(s), Alive(t), Under(s, t, n), ActivationOf(t, n) = ActivationOf(s, n)
  PROVE  Activations(t) = Activations(s)
<1>1. n > 0
  BY SkeletonType
<1>2. /\ IsList(Activations(s), n) /\ \A i \in 1..n : Activations(s)[i] = ActivationOf(s, i)
      /\ IsList(Activations(t), n) /\ \A i \in 1..n : Activations(t)[i] = ActivationOf(t, i)
  BY <1>1, ActsAre
<1>3. \A i \in 1..n : i \in 1..(n - 1) \/ i = n
  OBVIOUS
<1>4. \A i \in 1..n : Activations(t)[i] = Activations(s)[i]
  BY <1>2, <1>3, Below
<1> QED  BY <1>2, <1>4, SameList

(* One that changes the last activation. *)
LEMMA ActsAlter ==
  ASSUME NEW s, NEW d, Skeleton(s, d), NEW t, NEW n \in Nat, n = Len(s.ci), Len(t.ci) = n,
         Alive(s), Alive(t), Under(s, t, n)
  PROVE  /\ Len(Activations(s)) = n /\ Last(Activations(s)) = ActivationOf(s, n)
         /\ Activations(t) = [Activations(s) EXCEPT ![n] = ActivationOf(t, n)]
<1>1. n > 0
  BY SkeletonType
<1>2. /\ IsList(Activations(s), n) /\ \A i \in 1..n : Activations(s)[i] = ActivationOf(s, i)
      /\ IsList(Activations(t), n) /\ \A i \in 1..n : Activations(t)[i] = ActivationOf(t, i)
      /\ Len(Activations(s)) = n /\ Last(Activations(s)) = ActivationOf(s, n)
  BY <1>1, ActsAre
<1>3. \A i \in 1..(n - 1) : i \in 1..n /\ Activations(t)[i] = Activations(s)[i]
  BY <1>2, Below
<1>4. Activations(t) = [Activations(s) EXCEPT ![n] = Activations(t)[n]]
  BY <1>1, <1>2, <1>3, ListAlter
<1>5. Activations(t)[n] = ActivationOf(t, n)
  BY <1>1, <1>2
<1> QED  BY <1>2, <1>4, <1>5

(* A call. *)
LEMMA ActsAppend ==
  ASSUME NEW s, NEW d, Skeleton(s, d), NEW t, NEW n \in Nat, n = Len(s.ci), Len(t.ci) = n + 1,
         Alive(s), Alive(t), Under(s, t, n), ActivationOf(t, n) = ActivationOf(s, n)
  PROVE  Activations(t) = Append(Activations(s), ActivationOf(t, n + 1))
<1>1. n > 0 /\ n + 1 \in Nat /\ n + 1 > 0 /\ n + 1 \in 1..(n + 1)
  BY SkeletonType
<1>2. /\ IsList(Activations(s), n) /\ \A i \in 1..n : Activations(s)[i] = ActivationOf(s, i)
      /\ IsList(Activations(t), n + 1)
      /\ \A i \in 1..(n + 1) : Activations(t)[i] = ActivationOf(t, i)
  BY <1>1, ActsAre
<1>3. \A i \in 1..n : i \in 1..(n + 1) /\ (i \in 1..(n - 1) \/ i = n)
  OBVIOUS
<1>4. \A i \in 1..n : Activations(t)[i] = Activations(s)[i]
  BY <1>2, <1>3, Below
<1>5. Activations(t) = Append(Activations(s), Activations(t)[n + 1])
  BY <1>2, <1>4, ListAppend
<1> QED  BY <1>1, <1>2, <1>5

(* An error goes to frame r, whose activation becomes a. *)
CutAt(al, r, a) == Append(SubSeq(al, 1, r - 1), a)

(* Where the frames above frame r go, so do the activations above its own. *)
LEMMA ActsCut ==
  ASSUME NEW s, NEW d, Skeleton(s, d), NEW t, NEW n \in Nat, n = Len(s.ci), NEW r \in 1..n,
         Len(t.ci) = r, Alive(t), Under(s, t, r), NEW al, IsList(al, Len(al)), Len(al) \in Nat,
         n <= Len(al),
         \A i \in 1..(n - 1) : al[i] = ActivationOf(s, i)
  PROVE  Activations(t) = CutAt(al, r, ActivationOf(t, r))
<1> DEFINE l == Len(al)
<1>1. r \in Nat /\ r > 0 /\ r \in 1..l /\ r \in 1..r
  <2>1. l \in Nat /\ n <= l
    OBVIOUS
  <2> HIDE DEF l
  <2> QED  BY <2>1
<1>2. IsList(Activations(t), r) /\ \A i \in 1..r : Activations(t)[i] = ActivationOf(t, i)
  BY <1>1, ActsAre
<1>3. \A i \in 1..(r - 1) : i \in 1..r /\ i \in 1..(n - 1)
  OBVIOUS
<1>6. \A i \in 1..(r - 1) : ActivationOf(t, i) = ActivationOf(s, i)
  BY Below
<1>7. \A i \in 1..(n - 1) : al[i] = ActivationOf(s, i)
  OBVIOUS
<1>4. \A i \in 1..(r - 1) : Activations(t)[i] = al[i]
  BY ONLY <1>2, <1>3, <1>6, <1>7
<1>5. Activations(t) = Append(SubSeq(al, 1, r - 1), Activations(t)[r])
  BY <1>1, <1>2, <1>4, ListCut
<1>8. ActivationOf(t, r) = Activations(t)[r]
  BY <1>1, <1>2
<1> QED  BY <1>5, <1>8 DEF CutAt

(* A return. *)
LEMMA ActsFront ==
  ASSUME NEW s, NEW d, Skeleton(s, d), NEW t, NEW n \in Nat, n = Len(s.ci), n > 1,
         Len(t.ci) = n - 1, Alive(s), Alive(t), Under(s, t, n - 1),
         ActivationOf(t, n - 1) = ActivationOf(s, n - 1)
  PROVE  Activations(t) = Front(Activations(s))
<1>1. n > 0 /\ n - 1 \in Nat /\ n - 1 > 0
  OBVIOUS
<1>2. /\ IsList(Activations(s), n) /\ \A i \in 1..n : Activations(s)[i] = ActivationOf(s, i)
      /\ IsList(Activations(t), n - 1)
      /\ \A i \in 1..(n - 1) : Activations(t)[i] = ActivationOf(t, i)
  BY <1>1, ActsAre
<1>3. \A i \in 1..(n - 1) : i \in 1..n /\ (i \in 1..((n - 1) - 1) \/ i = n - 1)
  OBVIOUS
<1>4. \A i \in 1..(n - 1) : Activations(t)[i] = Activations(s)[i]
  BY <1>2, <1>3, Below
<1> QED  BY <1>1, <1>2, <1>4, ListFront

(* No variable is added or closed. *)
LEMMA PendingStays ==
  ASSUME NEW s, NEW t, Sorted(s), t.tbclist = s.tbclist,
         \A a \in 1..Len(s.tbclist) : t.stack[s.tbclist[a]] = s.stack[s.tbclist[a]]
  PROVE  Pending(t) = Pending(s)
<1>1. Len(s.tbclist) \in Nat
  BY LenProperties DEF Sorted
<1> DEFINE n == Len(s.tbclist)
<1>2. IsList(Pending(s), n) /\ \A a \in 1..n : Pending(s)[a] = s.stack[s.tbclist[a]]
  BY <1>1, PendingIs
<1>3. Len(t.tbclist) = n
  OBVIOUS
<1>4. IsList(Pending(t), n) /\ \A a \in 1..n : Pending(t)[a] = t.stack[s.tbclist[a]]
  BY <1>1, <1>3, PendingIs
<1>5. \A a \in 1..n : Pending(t)[a] = Pending(s)[a]
  BY <1>2, <1>4
<1> HIDE DEF n
<1>6. n \in Nat
  BY <1>1 DEF n
<1> QED  BY <1>2, <1>4, <1>5, <1>6, SameList

(* A variable is marked. *)
LEMMA PendingAppend ==
  ASSUME NEW s, NEW t, Sorted(s), NEW l \in Nat, OneMore(s, t, l),
         \A a \in 1..Len(s.tbclist) : t.stack[s.tbclist[a]] = s.stack[s.tbclist[a]]
  PROVE  Pending(t) = Append(Pending(s), t.stack[l])
<1> DEFINE q == s.tbclist
           n == Len(q)
           r == Append(q, l)
<1>1. /\ n \in Nat /\ Len(r) = n + 1 /\ (\A a \in 1..n : r[a] = q[a]) /\ r[n + 1] = l
      /\ n + 1 \in Nat
  BY AppendProperties, LenProperties DEF Sorted
<1>2. IsList(Pending(s), n) /\ \A a \in 1..n : Pending(s)[a] = s.stack[q[a]]
  BY <1>1, PendingIs
<1>3. t.tbclist = r
  BY DEF OneMore
<1>4. \A a \in 1..n : t.stack[q[a]] = s.stack[q[a]]
  OBVIOUS
<1> HIDE DEF r
<1>5. IsList(Pending(t), n + 1) /\ \A a \in 1..(n + 1) : Pending(t)[a] = t.stack[r[a]]
  BY <1>1, <1>3, PendingIs
<1> HIDE DEF n, q
<1>6. \A a \in 1..n : Pending(t)[a] = Pending(s)[a]
  BY <1>1, <1>2, <1>4, <1>5
<1>7. n + 1 \in 1..(n + 1)
  BY <1>1
<1> DEFINE f == Pending(s)
           g == Pending(t)
<1>9. n \in Nat /\ IsList(f, n) /\ IsList(g, n + 1) /\ \A a \in 1..n : g[a] = f[a]
  BY <1>1, <1>2, <1>5, <1>6
<1> HIDE DEF f, g
<1>10. g = Append(f, g[n + 1])
  BY ONLY <1>9, ListAppend
<1>8. Pending(t) = Append(Pending(s), Pending(t)[n + 1])
  BY <1>10 DEF f, g
<1> QED  BY <1>1, <1>5, <1>7, <1>8

(* The last variable is closed. *)
LEMMA PendingFront ==
  ASSUME NEW s, NEW t, Sorted(s), OneLess(s, t),
         \A a \in 1..(Len(s.tbclist) - 1) : t.stack[s.tbclist[a]] = s.stack[s.tbclist[a]]
  PROVE  /\ Pending(t) = Front(Pending(s)) /\ Last(Pending(s)) = s.stack[Last(s.tbclist)]
         /\ Len(Pending(s)) > 0
<1> DEFINE q == s.tbclist
           n == Len(q)
           r == Front(q)
<1>1. /\ n \in Nat /\ n > 0 /\ Len(r) = n - 1 /\ (\A a \in 1..(n - 1) : r[a] = q[a]) /\ n - 1 \in Nat
      /\ Last(q) = q[n]
  BY FrontLast, LenProperties DEF Sorted, OneLess
<1>2. IsList(Pending(s), n) /\ (\A a \in 1..n : Pending(s)[a] = s.stack[q[a]]) /\ Len(Pending(s)) = n
  BY <1>1, PendingIs
<1>3. t.tbclist = r
  BY DEF OneLess
<1>4. \A a \in 1..(n - 1) : t.stack[q[a]] = s.stack[q[a]]
  OBVIOUS
<1> HIDE DEF r
<1> HIDE DEF n, q
<1>5. IsList(Pending(t), n - 1) /\ \A a \in 1..(n - 1) : Pending(t)[a] = t.stack[r[a]]
  <2>1. Len(t.tbclist) \in Nat /\ Len(t.tbclist) = n - 1
    BY <1>1, <1>3
  <2>2. /\ IsList(Pending(t), Len(t.tbclist))
        /\ \A a \in 1..Len(t.tbclist) : Pending(t)[a] = t.stack[t.tbclist[a]]
    BY <2>1, PendingIs
  <2> QED  BY <1>3, <2>1, <2>2
<1>6. \A a \in 1..(n - 1) : a \in 1..n /\ Pending(t)[a] = Pending(s)[a]
  BY <1>1, <1>2, <1>4, <1>5
<1>7. n \in 1..n
  BY <1>1
<1>8. Pending(t) = Front(Pending(s))
  BY <1>1, <1>2, <1>5, <1>6, ListFront
<1>9. Last(Pending(s)) = s.stack[q[n]]
  BY <1>2, <1>7 DEF Last
<1> QED  BY <1>1, <1>2, <1>8, <1>9 DEF q

-----------------------------------------------------------------------------
(* Where an error goes *)

(* caught by the handler at position j: its loop closes the variables *)
CaughtBy(s, t, j, status) ==
  /\ t.stack = s.stack /\ t.tbclist = s.tbclist /\ t.status = "ok"
  /\ Len(t.ci) = s.cs[j].ci /\ \A i \in 1..s.cs[j].ci : t.ci[i] = s.ci[i]
  /\ Len(t.cs) = j + 1 /\ \A i \in 1..(j - 1) : t.cs[i] = s.cs[i]
  /\ Try(t.cs[j], {"closep"}) /\ t.cs[j].ci = s.cs[j].ci /\ t.cs[j].level = s.cs[j].level
     /\ t.cs[j].status = status
  /\ t.cs[j + 1].t = "close"

(* taken by precover to the protected call of frame r *)
Recovered(s, t, r, status) ==
  /\ t.stack = s.stack /\ t.tbclist = s.tbclist /\ t.status = "ok"
  /\ Len(t.ci) = r /\ (\A i \in 1..(r - 1) : t.ci[i] = s.ci[i])
  /\ t.ci[r] = [s.ci[r] EXCEPT !.recst = status]
  /\ Len(t.cs) = 2 /\ Try(t.cs[1], {"recover"}) /\ t.cs[2].t = "unroll"

(* caught by nothing *)
Died(s, t, status) ==
  /\ t.tbclist = s.tbclist /\ t.status = status
  /\ Len(t.stack) = Len(s.stack) + 1 /\ (\A p \in 1..Len(s.stack) : t.stack[p] = s.stack[p])
  /\ Last(t.stack) = IF status = "mem" THEN "mem" ELSE Last(s.stack)

(* What a caught error leaves. *)
LEMMA CaughtIs ==
  ASSUME NEW s, NEW d, Base(s, d), s.status = "ok", NEW m \in Nat, m = Len(s.cs),
         NEW j \in 1..m, Try(s.cs[j], Protected),
         NEW b, BackTo(s, b, j), NEW status \in ErrorStatus
  PROVE  CaughtBy(s, closeprotected([b EXCEPT !.ci = SubSeq(@, 1, s.cs[j].ci)], s.cs[j].level,
                                    status), j, status)
<1> DEFINE x == s.cs[j].ci
           level == s.cs[j].level
           u == [b EXCEPT !.ci = SubSeq(@, 1, x)]
           e == CloseP(u, level, status)
           l == LoopP(level, status)
           v == PushC(u, e)
           t == PushC(v, l)
<1>1. /\ s \in State /\ s.cs[j] \in CFunction /\ s.cs[j].t = "try" /\ j \in Nat
      /\ Skeleton(s, d)
  BY BaseType DEF Base, Try
<1>2. x \in Nat /\ level \in Nat
  BY <1>1, EntryType DEF TryC
<1>3. x \in 1..Len(s.ci)
  <2>1. OnFrame(s, s.cs[j], d[j]) /\ d[j] \in 1..Len(s.ci)
    BY <1>1 DEF Skeleton, Depths
  <2> QED  BY <2>1 DEF OnFrame
<1>4. t = closeprotected(u, level, status)
  BY DEF closeprotected, lauF_close, rawrunprotected, CloseP, LoopP
<1>5. /\ b \in State /\ b.ci = s.ci /\ b.stack = s.stack /\ b.tbclist = s.tbclist /\ b.status = "ok"
      /\ Len(b.cs) = j - 1 /\ \A i \in 1..(j - 1) : b.cs[i] = s.cs[i]
  BY DEF BackTo
<1> HIDE DEF x, level
<1>6. SubSeq(s.ci, 1, x) \in Seq(CallInfo) /\ Len(SubSeq(s.ci, 1, x)) = x
        /\ \A i \in 1..x : SubSeq(s.ci, 1, x)[i] = s.ci[i]
  <2>1. x \in 0..Len(s.ci) /\ s.ci \in Seq(CallInfo)
    BY <1>1, <1>2, <1>3, StateType
  <2> QED  BY <2>1, Prefix
<1>7. /\ u \in State /\ u.stack = s.stack /\ u.tbclist = s.tbclist /\ u.status = "ok"
      /\ Len(u.cs) = j - 1 /\ (\A i \in 1..(j - 1) : u.cs[i] = s.cs[i])
      /\ Len(u.ci) = x /\ \A i \in 1..x : u.ci[i] = s.ci[i]
  BY <1>5, <1>6 DEF State
<1> HIDE DEF u
<1>8. e.t = "try" /\ e.by = "closep" /\ e.ci = x /\ e.level = level /\ e.status = status
  BY <1>7 DEF CloseP
<1>9. e \in CFunction /\ l \in CFunction /\ l.t = "close"
  <2>1. u.nc \in Nat /\ u.nny \in Nat
    BY <1>7, StateType
  <2>2. e \in TryC
    BY <1>2, <1>7, <2>1 DEF TryC, CloseP
  <2>3. l \in CloseC /\ l.t = "close"
    BY <1>2 DEF CloseC, LoopP
  <2> QED  BY <2>2, <2>3 DEF CFunction
<1> HIDE DEF e, l
<1>10. Pushed(u, v, e)
  BY <1>7, <1>9, PushCIs
<1> HIDE DEF v
<1>11. Len(u.cs) + 1 = j
  BY <1>1, <1>7
<1>12. /\ v \in State /\ v.ci = u.ci /\ v.stack = s.stack /\ v.tbclist = s.tbclist
       /\ v.status = "ok" /\ Len(v.cs) = j /\ v.cs[j] = e
       /\ \A i \in 1..(j - 1) : v.cs[i] = s.cs[i]
  BY <1>7, <1>10, <1>11 DEF Pushed, SameCounts
<1>13. Pushed(v, t, l)
  BY <1>9, <1>12, PushCIs
<1> HIDE DEF t
<1>14. /\ t.ci = u.ci /\ t.stack = s.stack /\ t.tbclist = s.tbclist
       /\ t.status = "ok" /\ Len(t.cs) = j + 1 /\ t.cs[j + 1] = l
       /\ \A i \in 1..j : t.cs[i] = v.cs[i]
  BY <1>12, <1>13 DEF Pushed, SameCounts
<1>15. t.cs[j] = e /\ \A i \in 1..(j - 1) : t.cs[i] = s.cs[i]
  <2>1. j \in 1..j /\ \A i \in 1..(j - 1) : i \in 1..j
    BY <1>1
  <2> QED  BY <1>12, <1>14, <2>1
<1>16. CaughtBy(s, t, j, status)
  BY <1>7, <1>8, <1>9, <1>14, <1>15 DEF CaughtBy, Try, x, level
<1> QED  BY <1>4, <1>16 DEF t, u, x, level

(* What precover leaves of a coroutine that goes on. *)
LEMMA RecoveredIs ==
  ASSUME NEW s, NEW d, Base(s, d), s.status = "ok",
         NEW b, BackTo(s, b, 1), NEW status \in ErrorStatus, NEW r \in 1..Len(s.ci)
  PROVE  Recovered(s, PushC(rawrunprotected([b EXCEPT !.ci = Append(SubSeq(@, 1, r - 1),
                                                            [@[r] EXCEPT !.recst = status])],
                                    "recover", 0, 0, "ok"),
                    [t |-> "unroll"]), r, status)
<1> DEFINE f == [s.ci[r] EXCEPT !.recst = status]
           q == SubSeq(s.ci, 1, r - 1)
           v == [b EXCEPT !.ci = Append(q, f)]
           e == [t |-> "try", by |-> "recover", ci |-> 0, level |-> 0, status |-> "ok", nc |-> v.nc,
                 nny |-> v.nny]
           g == [t |-> "unroll"]
           x == PushC(v, e)
           t == PushC(x, g)
<1>1. /\ b \in State /\ b.ci = s.ci /\ b.stack = s.stack /\ b.tbclist = s.tbclist /\ b.status = "ok"
      /\ Len(b.cs) = 0
  BY DEF BackTo
<1>2. t = PushC(rawrunprotected([b EXCEPT !.ci = Append(SubSeq(@, 1, r - 1),
            [@[r] EXCEPT !.recst = status])], "recover", 0, 0, "ok"), [t |-> "unroll"])
  BY <1>1 DEF rawrunprotected
<1>3. r \in Nat /\ r - 1 \in 0..Len(s.ci) /\ r - 1 + 1 = r /\ s.ci \in Seq(CallInfo)
      /\ s.ci[r] \in CallInfo
  BY BaseType, StateType
<1>4. f \in CallInfo
  <2>1. status \in ErrorStatus \cup {"ok"}
    OBVIOUS
  <2> QED  BY <1>3, <2>1 DEF CallInfo
<1>5. q \in Seq(CallInfo) /\ Len(q) = r - 1 /\ \A i \in 1..(r - 1) : q[i] = s.ci[i]
  BY <1>3, Prefix
<1> HIDE DEF q, f
<1>6. Append(q, f) \in Seq(CallInfo) /\ Len(Append(q, f)) = r /\ Append(q, f)[r] = f
      /\ \A i \in 1..(r - 1) : Append(q, f)[i] = s.ci[i]
  BY <1>3, <1>4, <1>5, AppendProperties
<1>7. /\ v \in State /\ v.stack = s.stack /\ v.tbclist = s.tbclist /\ v.status = "ok"
      /\ Len(v.cs) = 0 /\ Len(v.ci) = r /\ v.ci[r] = f /\ \A i \in 1..(r - 1) : v.ci[i] = s.ci[i]
  BY <1>1, <1>6 DEF State
<1> HIDE DEF v
<1>8. Try(e, {"recover"}) /\ g.t = "unroll"
  BY DEF Try
<1>9. e \in CFunction /\ g \in CFunction
  <2>1. v.nc \in Nat /\ v.nny \in Nat
    BY <1>7, StateType
  <2>2. e \in TryC /\ g \in PlainC
    BY <2>1 DEF TryC, PlainC
  <2> QED  BY <2>2 DEF CFunction
<1> HIDE DEF e, g
<1>10. Pushed(v, x, e)
  BY <1>7, <1>9, PushCIs
<1> HIDE DEF x
<1>11. /\ x \in State /\ x.ci = v.ci /\ x.stack = s.stack /\ x.tbclist = s.tbclist /\ x.status = "ok"
       /\ Len(x.cs) = 1 /\ x.cs[1] = e
  BY <1>7, <1>10 DEF Pushed, SameCounts
<1>12. Pushed(x, t, g)
  BY <1>9, <1>11, PushCIs
<1> HIDE DEF t
<1>13. /\ t.ci = v.ci /\ t.stack = s.stack /\ t.tbclist = s.tbclist /\ t.status = "ok"
       /\ Len(t.cs) = 2 /\ t.cs[1] = e /\ t.cs[2] = g
  BY <1>11, <1>12 DEF Pushed, SameCounts
<1>14. Recovered(s, t, r, status)
  BY <1>7, <1>8, <1>13 DEF Recovered, f
<1> QED  BY <1>2, <1>14

(* What an error that nothing catches leaves. *)
LEMMA DiedIs ==
  ASSUME NEW s, NEW d, Base(s, d), NEW b, BackTo(s, b, 1), NEW status \in ErrorStatus
  PROVE  LET dead == seterrorobj(b, status, Len(b.stack) + 1)
         IN  Died(s, [dead EXCEPT !.status = status, !.ret = <<status, Last(dead.stack)>>], status)
<1> DEFINE w == Len(b.stack)
           dead == seterrorobj(b, status, w + 1)
           t == [dead EXCEPT !.status = status, !.ret = <<status, Last(dead.stack)>>]
<1>1. /\ b \in State /\ b.stack = s.stack /\ b.tbclist = s.tbclist
  BY DEF BackTo
<1>2. w \in Nat /\ w > 0 /\ w + 1 \in 1..(Len(b.stack) + 1) /\ Len(b.stack) > 0
  BY <1>1, BaseType
<1>3. Erred(b, dead, w + 1)
  BY <1>1, <1>2, SetErrorIs
<1>4. Last(dead.stack) = IF status = "mem" THEN "mem" ELSE Last(b.stack)
  BY <1>1, <1>2, SetErrorLast
<1>5. w = Len(s.stack) /\ w = Len(b.stack)
  BY <1>1
<1> HIDE DEF dead, w
<1>6. /\ dead \in State /\ dead.tbclist = b.tbclist
      /\ Len(dead.stack) = w + 1 /\ \A p \in 1..w : dead.stack[p] = b.stack[p]
  BY <1>2, <1>3 DEF Erred, SameCounts
<1>7. t.tbclist = dead.tbclist /\ t.stack = dead.stack /\ t.status = status
  BY <1>6 DEF State
<1> HIDE DEF t
<1>8. Died(s, t, status)
  BY <1>1, <1>4, <1>5, <1>6, <1>7 DEF Died
<1> QED  BY <1>8 DEF t, dead, w

(* What lauD_throw does. *)
ThrownTo(s, t, status) ==
  LET m == Len(s.cs)
      pcalls == {i \in 1..Len(s.ci) : s.ci[i].ypcall}
  IN  \/ \E j \in 1..m : /\ Try(s.cs[j], Protected) /\ CaughtBy(s, t, j, status)
                         /\ \A i \in 1..m : s.cs[i].t = "try" => i <= j
      \/ /\ \A j \in 1..m : ~Try(s.cs[j], Protected)
         /\ \/ pcalls = {} /\ Died(s, t, status)
            \/ pcalls # {} /\ Max(pcalls) \in pcalls /\ (\A i \in pcalls : i <= Max(pcalls))
               /\ Recovered(s, t, Max(pcalls), status)

(* An error that is thrown goes where ThrownTo says. *)
LEMMA ThrowIs ==
  ASSUME NEW s, NEW d, Base(s, d), s.status = "ok", Len(s.cs) > 0, s.cs[Len(s.cs)].t # "reset",
         NEW status \in ErrorStatus
  PROVE  ThrownTo(s, throw(s, status), status)
<1> DEFINE m == Len(s.cs)
           j == Max(Tries(s))
           b == Unprotect(s, j)
           try == s.cs[j]
           t == throw(s, status)
<1>1. m \in Nat /\ m = Len(s.cs) /\ m > 0 /\ Skeleton(s, d) /\ s \in State
  BY BaseType DEF Base
<1>2. j \in 1..m /\ s.cs[j].t = "try" /\ \A i \in 1..m : s.cs[i].t = "try" => i <= j
  BY <1>1, HandlersOf
<1>3. BackTo(s, b, j)
  BY <1>1, <1>2, UnprotectIs
<1>4. t = IF try.by \in {"resume", "recover"} THEN precover(b, status)
          ELSE closeprotected([b EXCEPT !.ci = SubSeq(@, 1, try.ci)], try.level, status)
  BY DEF throw
<1> HIDE DEF m, j, b, t
<1>5. EntryOk(s.cs, j) /\ s.cs[j] \in CFunction
  BY <1>1, <1>2, SkeletonType DEF Skeleton, CFunctions
<1>6. CASE try.by \in {"resume", "recover"}
  <2>1. j = 1
    BY <1>2, <1>5, <1>6 DEF EntryOk, Try, Unprotected
  <2>2. \A i \in 1..m : ~Try(s.cs[i], Protected)
    <3> SUFFICES ASSUME NEW i \in 1..m, Try(s.cs[i], Protected) PROVE FALSE
      OBVIOUS
    <3>1. s.cs[i].t = "try" /\ s.cs[i].by \in Protected
      BY DEF Try
    <3>2. i = 1
      BY <1>2, <2>1, <3>1
    <3> QED  BY <1>6, <2>1, <3>1, <3>2 DEF Protected
  <2> DEFINE pcalls == {i \in 1..Len(b.ci) : b.ci[i].ypcall}
             dead == seterrorobj(b, status, Len(b.stack) + 1)
  <2>3. status # "yield"
    BY DEF ErrorStatus
  <2>4. BackTo(s, b, 1)
    BY <1>3, <2>1
  <2>5. pcalls = {i \in 1..Len(s.ci) : s.ci[i].ypcall}
    BY <2>4 DEF BackTo
  <2>6. CASE pcalls = {}
    <3>1. precover(b, status) = [dead EXCEPT !.status = status,
                                             !.ret = <<status, Last(dead.stack)>>]
      BY <2>3, <2>6 DEF precover
    <3>4. Died(s, [dead EXCEPT !.status = status, !.ret = <<status, Last(dead.stack)>>], status)
      BY <2>4, DiedIs
    <3>2. Died(s, precover(b, status), status)
      BY ONLY <3>1, <3>4
    <3>3. t = precover(b, status)
      BY <1>4, <1>6
    <3> QED  BY <2>2, <2>5, <2>6, <3>2, <3>3 DEF ThrownTo, t, m
  <2>7. CASE pcalls # {}
    <3> DEFINE r == Max(pcalls)
    <3>1. r \in pcalls /\ \A i \in pcalls : i <= r
      <4>1. Len(b.ci) \in Nat /\ pcalls \in SUBSET (0..Len(b.ci)) /\ pcalls \subseteq Nat
        BY <2>4, StateType DEF BackTo
      <4> HIDE DEF pcalls
      <4>2. r \in pcalls /\ \A i \in pcalls : r >= i
        BY <2>7, <4>1, MaxOf
      <4> HIDE DEF r
      <4> QED  BY <4>1, <4>2
    <3>2. r \in 1..Len(s.ci) /\ s.ci[r].ypcall
      BY <2>4, <3>1 DEF BackTo
    <3>3. precover(b, status)
            = PushC(rawrunprotected([b EXCEPT !.ci = Append(SubSeq(@, 1, r - 1),
                                                            [@[r] EXCEPT !.recst = status])],
                                    "recover", 0, 0, "ok"),
                    [t |-> "unroll"])
      BY <2>3, <2>7 DEF precover
    <3>5. r = Max({i \in 1..Len(s.ci) : s.ci[i].ypcall})
      BY <2>5
    <3> HIDE DEF r
    <3>7. Recovered(s, PushC(rawrunprotected([b EXCEPT !.ci = Append(SubSeq(@, 1, r - 1),
                                                            [@[r] EXCEPT !.recst = status])],
                                    "recover", 0, 0, "ok"),
                    [t |-> "unroll"]), r, status)
      BY <2>4, <3>2, RecoveredIs
    <3>4. Recovered(s, precover(b, status), r, status)
      BY ONLY <3>3, <3>7
    <3>6. t = precover(b, status)
      BY <1>4, <1>6
    <3> HIDE DEF pcalls
    <3> QED  BY <2>2, <2>5, <2>7, <3>1, <3>4, <3>5, <3>6 DEF ThrownTo, t, m
  <2> QED  BY <2>6, <2>7
<1>7. CASE try.by \notin {"resume", "recover"}
  <2>1. Try(s.cs[j], Protected)
    BY <1>2, <1>5, <1>7, EntryType DEF TryC, Try, Protected
  <2>2. CaughtBy(s, closeprotected([b EXCEPT !.ci = SubSeq(@, 1, s.cs[j].ci)], s.cs[j].level,
                                   status), j, status)
    BY <1>1, <1>2, <1>3, <2>1, CaughtIs
  <2>3. CaughtBy(s, t, j, status)
    BY <1>4, <1>7, <2>2
  <2> QED  BY <1>2, <2>1, <2>3 DEF ThrownTo, t, m
<1> QED  BY <1>6, <1>7

(* Above the frame of the last handler there is no other, and no protected call of
   lau_pcallk. *)
LEMMA NothingAbove ==
  ASSUME NEW s, NEW d, Base(s, d), ~NestedClose, NEW m \in Nat, m = Len(s.cs),
         d[m] = Len(s.ci),
         NEW j \in 1..m, Try(s.cs[j], Protected), \A i \in 1..m : s.cs[i].t = "try" => i <= j,
         NEW r, r = s.cs[j].ci
  PROVE  /\ d[j] = r /\ r \in 1..Len(s.ci)
         /\ \A i \in (r + 1)..Len(s.ci) : ~s.ci[i].ypcall
         /\ \A i \in (r + 1)..Len(s.ci) : \A by \in Protected : Handlers(s, by, i) = {}
         /\ s.cs[j].by = "pcall" /\ r < Len(s.ci) => s.ci[r + 1].func = s.cs[j].level
<1> DEFINE n == Len(s.ci)
<1>1. /\ Skeleton(s, d) /\ Depths(s, d) /\ CFunctions(s.cs) /\ n \in Nat
      /\ \A i \in 1..m : s.cs[i] \in CFunction
  BY BaseType DEF Base, Skeleton
<1>2. OnFrame(s, s.cs[j], d[j]) /\ d[j] \in 1..Len(s.ci)
  BY <1>1 DEF Depths
<1>3. d[j] = r /\ r \in 1..n
  BY <1>2 DEF OnFrame
<1>4. \A i, k \in 1..m : i < k => d[i] <= d[k]
  BY <1>1 DEF Depths
<1>5. \A i \in 1..m : d[i] \in 1..n /\ d[i] \in Nat
  BY <1>1 DEF Depths
<1>6. ASSUME NEW i \in (r + 1)..n, NEW by \in Protected  PROVE Handlers(s, by, i) = {}
  <2> SUFFICES ASSUME NEW k \in Handlers(s, by, i) PROVE FALSE
    OBVIOUS
  <2>1. k \in 1..m /\ s.cs[k].t = "try" /\ d[k] = i
    BY <1>1, HandlerIs DEF Try
  <2>2. k <= j
    BY <2>1
  <2>3. d[k] <= d[j]
    <3>1. k = j \/ k < j
      BY <2>1, <2>2
    <3> QED  BY <1>4, <1>5, <2>1, <3>1
  <2> QED  BY <1>3, <2>1, <2>3
<1> HIDE DEF n
<1>7. ASSUME r < n
      PROVE  /\ \A i \in (r + 1)..n : ~s.ci[i].ypcall
             /\ s.cs[j].by = "pcall" => s.ci[r + 1].func = s.cs[j].level
  <2>1. j # m
    BY <1>3, <1>7 DEF n
  <2>2. j \in 1..(m - 1) /\ j + 1 \in 1..m
    BY <2>1
  <2>3. CallsNext(s.cs[j], s.cs[j + 1]) /\ Deeper(s, d, j)
    BY <1>1, <2>2 DEF CFunctions, Depths
  <2>4. s.cs[j].t = "try" /\ s.cs[j].by \in {"pcall", "closep"}
    BY DEF Try, Protected
  <2>5. d[j + 1] = r
    BY <1>3, <2>3, <2>4 DEF Deeper
  <2>6. s.cs[j].by = "pcall" => s.ci[r + 1].func = s.cs[j].level
    <3>1. Beneath(s, s.cs[j], s.cs[j + 1], d[j])
      BY <2>3 DEF Deeper
    <3> QED  BY <1>3, <1>7, <2>4, <3>1 DEF Beneath, Try, n
  <2>7. ASSUME NEW k \in 1..m, s.cs[k].t = "ccall", s.cs[k].y = 1, d[k] = r
        PROVE  \A i \in (r + 1)..n : ~s.ci[i].ypcall
    <3>1. k # m
      BY <1>3, <1>7, <2>7 DEF n
    <3>2. Beneath(s, s.cs[k], s.cs[k + 1], d[k])
      <4>1. k \in 1..(m - 1)
        BY <3>1
      <4> QED  BY <1>1, <4>1 DEF Depths, Deeper
    <3> QED  BY <2>7, <3>2 DEF Beneath, n
  <2>8. CASE s.cs[j].by = "pcall"
    <3>1. s.cs[j + 1].t = "ccall" /\ s.cs[j + 1].y = 1
      BY <2>3, <2>4, <2>8 DEF CallsNext, Try
    <3> QED  BY <2>2, <2>5, <2>6, <2>7, <3>1
  <2>9. CASE s.cs[j].by = "closep"
    <3>1. ItsOwn(s.cs, j, j + 1)
      <4>1. j < j + 1 /\ d[j] = d[j + 1] /\ j \in 1..Len(s.cs) /\ j + 1 \in 1..Len(s.cs)
        BY <1>3, <2>2, <2>5
      <4> QED  BY <1>1, <4>1, Alone
    <3>2. Closing(s.cs[j + 1], {"closep"})
      BY <2>3, <2>4, <2>9, <3>1 DEF CallsNext, Try, ItsOwn
    <3>3. s.cs[j + 1].t = "close" /\ ~s.cs[j + 1].yy
      <4>1. OnFrame(s, s.cs[j + 1], d[j + 1])
        BY <1>1, <2>2 DEF Depths
      <4> QED  BY <3>2, <4>1 DEF OnFrame, CloseOk, Closing
    <3>4. j + 1 # m
      BY <1>3, <1>7, <2>5 DEF n
    <3>5. j + 1 \in 1..(m - 1) /\ j + 2 \in 1..m /\ j + 1 + 1 = j + 2
      BY <2>2, <3>4
    <3>6. CallsNext(s.cs[j + 1], s.cs[j + 2]) /\ Deeper(s, d, j + 1)
      BY <1>1, <3>5 DEF CFunctions, Depths
    <3>7. s.cs[j + 2].t = "ccall" /\ s.cs[j + 2].y = 1
      BY <3>3, <3>6 DEF CallsNext, Try
    <3>8. d[j + 2] = r
      BY <2>5, <3>3, <3>5, <3>6 DEF Deeper
    <3> QED  BY <2>6, <2>7, <3>5, <3>7, <3>8
  <2> QED  BY <2>4, <2>8, <2>9
<1>8. r = n \/ r < n
  BY <1>1, <1>3 DEF n
<1>9. r = n => \A i \in (r + 1)..n : FALSE
  BY <1>1, <1>3 DEF n
<1> QED  BY <1>3, <1>6, <1>7, <1>8, <1>9 DEF n

-----------------------------------------------------------------------------
(* What an error means *)

(* The choices of the community modules are the same inside the instance. *)
LEMMA ScopeMax == \A S : Scope!Max(S) = Max(S)
BY DEF Scope!Max, Max

(* The fields of an activation that say what it catches and closes. *)
LEMMA ActFields ==
  ASSUME NEW s, NEW i, NEW u, u = Unwinding(s, i), NEW a, a = ActivationOf(s, i)
  PROVE  /\ a.phase = "caught" <=> u # NoUnwinding
         /\ a.phase = "caught" => a.keep = Older(s, u.level)
         /\ a.protected <=> i > 1 /\ ProtectedCall(s, i)
         /\ a.first = Older(s, s.ci[i].func) /\ a.err = Handled(s, i, u)
         /\ a.phase = Phase(s.ci[i], u) /\ a.keep = Keep(s, i, a.phase, u)
<1>1. a.phase = "caught" <=> u # NoUnwinding
  BY DEF ActivationOf, Phase
<1>2. a.phase = Phase(s.ci[i], u) /\ a.keep = Keep(s, i, a.phase, u)
  BY DEF ActivationOf
<1>3. a.phase = "caught" => a.keep = Older(s, u.level)
  BY <1>2 DEF Keep
<1>4. /\ a.protected <=> i > 1 /\ ProtectedCall(s, i)
      /\ a.first = Older(s, s.ci[i].func) /\ a.err = Handled(s, i, u)
  BY DEF ActivationOf
<1> QED  BY ONLY <1>1, <1>2, <1>3, <1>4

(* b is activation a, but for the error that it handles *)
ButErr(a, b) ==
  /\ b.phase = a.phase /\ b.keep = a.keep /\ b.first = a.first /\ b.protected = a.protected
  /\ \A x, y, z : Became(b, x, y, z) = Became(a, x, y, z)

(* An activation that goes on with another error differs in that error only. *)
LEMMA ErrOnly ==
  ASSUME NEW s, NEW i, NEW a, a = ActivationOf(s, i), NEW e,
         NEW b, b = Became(a, a.phase, a.keep, e)
  PROVE  ButErr(a, b)
<1>5. \E a1, a2, a3, a4, a5, a6 : a = Act(a1, a2, a3, a4, a5, a6)
  BY DEF ActivationOf, Act
<1>6. PICK a1, a2, a3, a4, a5, a6 : a = Act(a1, a2, a3, a4, a5, a6)
  BY <1>5
<1>7. b = Act(a1, a2, a3, a4, a5, e)
  <2>1. a.phase = a4 /\ a.keep = a5
    BY <1>6, ActExcept
  <2>2. Became(Act(a1, a2, a3, a4, a5, a6), a4, a5, e) = Act(a1, a2, a3, a4, a5, e)
    BY ActExcept
  <2> QED  BY <1>6, <2>1, <2>2
<1>8. b.phase = a.phase /\ b.keep = a.keep /\ b.first = a.first /\ b.protected = a.protected
  BY <1>6, <1>7, ActExcept
<1>9. ASSUME NEW x, NEW y, NEW z
      PROVE  Became(b, x, y, z) = Became(a, x, y, z)
  <2>1. Became(Act(a1, a2, a3, a4, a5, e), x, y, z) = Act(a1, a2, a3, x, y, z)
    BY ActExcept
  <2>2. Became(Act(a1, a2, a3, a4, a5, a6), x, y, z) = Act(a1, a2, a3, x, y, z)
    BY ActExcept
  <2> QED  BY ONLY <1>6, <1>7, <2>1, <2>2
<1> QED  BY ONLY <1>8, <1>9 DEF ButErr

(* frame i calls under protection *)
Protecting(s, i) == (s.ci[i].ypcall /\ s.ci[i].recst = "ok") \/ Handlers(s, "pcall", i) # {}

(* 'al' are the activations of s, and the one that a protected call of its last
   frame is about to make; the error that this frame handles may be another *)
Like(s, al, n) ==
  /\ n = Len(s.ci) /\ n \in Nat /\ n > 0 /\ Len(al) \in Nat /\ IsList(al, Len(al)) /\ n <= Len(al)
  /\ \A i \in 1..(n - 1) : al[i] = ActivationOf(s, i)
  /\ \E e : al[n] = Became(ActivationOf(s, n), ActivationOf(s, n).phase, ActivationOf(s, n).keep, e)
  /\ Len(al) = IF Protecting(s, n) THEN n + 1 ELSE n
  /\ Protecting(s, n) => /\ al[n + 1].protected /\ al[n + 1].phase = "run"
                         /\ al[n + 1].first = Len(s.tbclist)
                         /\ s.ci[n].ypcall => ~TbcFrom(s, s.ci[n].u2)
                         /\ \A j \in Handlers(s, "pcall", n) : ~TbcFrom(s, s.cs[j].level)

(* Frame by frame they are those of s. *)
LEMMA LikeBut ==
  ASSUME NEW s, NEW al, NEW n, Like(s, al, n), NEW k \in 1..n
  PROVE  ButErr(ActivationOf(s, k), al[k])
<1>1. n \in Nat /\ n > 0
  BY DEF Like
<1>2. PICK e : al[n] = Became(ActivationOf(s, n), ActivationOf(s, n).phase, ActivationOf(s, n).keep, e)
  BY DEF Like
<1>3. CASE k = n
  BY <1>2, <1>3, ErrOnly
<1>4. CASE k # n
  <2>1. k \in 1..(n - 1)
    BY <1>1, <1>4
  <2>2. al[k] = ActivationOf(s, k)
    BY <2>1 DEF Like
  <2> QED  BY <2>2 DEF ButErr
<1> QED  BY <1>3, <1>4

(* What they say of frame i. *)
LEMMA LikeIs ==
  ASSUME NEW s, NEW al, NEW n, Like(s, al, n), NEW i \in 1..n,
         NEW u, u = Unwinding(s, i)
  PROVE  /\ al[i].phase = "caught" <=> u # NoUnwinding
         /\ al[i].phase = "caught" => al[i].keep = Older(s, u.level)
         /\ i < Len(al) /\ al[i + 1].protected <=> Protecting(s, i)
         /\ i < n => al[i + 1].first = Older(s, s.ci[i + 1].func)
<1> DEFINE l == Len(al)
           a == ActivationOf(s, i)
<1>1. n \in Nat /\ n > 0 /\ l \in Nat /\ n <= l /\ i \in Nat
  BY DEF Like
<1>3. ASSUME NEW k \in 1..n  PROVE ButErr(ActivationOf(s, k), al[k])
  BY LikeBut
<1>8. l = (IF Protecting(s, n) THEN n + 1 ELSE n) /\ (Protecting(s, n) => al[n + 1].protected)
  BY DEF Like
<1> HIDE DEF l
<1>9. /\ a.phase = "caught" <=> u # NoUnwinding
      /\ a.phase = "caught" => a.keep = Older(s, u.level)
  BY ActFields
<1>10. ButErr(a, al[i])
  BY <1>3
<1> HIDE DEF a
<1>4. al[i].phase = "caught" <=> u # NoUnwinding
  BY <1>9, <1>10 DEF ButErr
<1>5. al[i].phase = "caught" => al[i].keep = Older(s, u.level)
  BY <1>9, <1>10 DEF ButErr
<1>6. ASSUME i < n
      PROVE  /\ al[i + 1].protected <=> Protecting(s, i)
             /\ al[i + 1].first = Older(s, s.ci[i + 1].func)
  <2> DEFINE k == i + 1
             c == ActivationOf(s, k)
  <2>1. k \in 1..n /\ k > 1 /\ k - 1 = i
    BY <1>1, <1>6
  <2>2. ButErr(c, al[k])
    BY <1>3, <2>1
  <2> HIDE DEF k
  <2>3. (c.protected <=> k > 1 /\ ProtectedCall(s, k)) /\ c.first = Older(s, s.ci[k].func)
    BY ActFields
  <2>4. ProtectedCall(s, k) <=> Protecting(s, i)
    BY <2>1 DEF ProtectedCall, Protecting
  <2> HIDE DEF c
  <2>5. al[k].protected = c.protected /\ al[k].first = c.first
    BY <2>2 DEF ButErr
  <2>6. /\ al[k].protected <=> Protecting(s, i)
        /\ al[k].first = Older(s, s.ci[k].func)
    BY <2>1, <2>3, <2>4, <2>5
  <2> QED  BY <2>6 DEF k
<1>7. i < l /\ al[i + 1].protected <=> Protecting(s, i)
  <2>1. CASE i < n
    <3>1. i < l
      BY <1>1, <2>1
    <3> QED  BY <1>6, <2>1, <3>1
  <2>2. CASE ~(i < n)
    <3>1. i = n
      BY <1>1, <2>2
    <3>2. i < l <=> Protecting(s, i)
      BY <1>1, <1>8, <3>1
    <3>3. Protecting(s, i) => al[i + 1].protected
      BY <1>8, <3>1
    <3> QED  BY <3>2, <3>3
  <2> QED  BY <2>1, <2>2
<1> QED  BY <1>4, <1>5, <1>6, <1>7 DEF l, a

(* The frames that catch errors. *)
Catchers(s, n) == {i \in 1..n : Unwinding(s, i) # NoUnwinding \/ Protecting(s, i)}

(* The activations that LauScope lets catch an error are those of Catchers. *)
LEMMA CatchingIs ==
  ASSUME NEW s, NEW al, NEW n, Like(s, al, n)
  PROVE  Scope!Catching(al) = Catchers(s, n)
<1> DEFINE l == Len(al)
<1>1. n \in Nat /\ n > 0 /\ l \in Nat /\ n <= l /\ (l = n \/ l = n + 1)
      /\ (l = n + 1 => al[n + 1].phase = "run")
  <2>1. n \in Nat /\ n > 0 /\ l \in Nat
    BY DEF Like
  <2>2. l = (IF Protecting(s, n) THEN n + 1 ELSE n) /\ (Protecting(s, n) => al[n + 1].phase = "run")
    BY DEF Like
  <2> HIDE DEF l
  <2>3. n <= l /\ (l = n \/ l = n + 1) /\ (l = n + 1 => Protecting(s, n))
    BY ONLY <2>1, <2>2
  <2> QED  BY ONLY <2>1, <2>2, <2>3
<1>4. l = Len(al)
  OBVIOUS
<1> HIDE DEF l
<1>2. ASSUME NEW i \in 1..l
      PROVE  (al[i].phase = "caught" \/ (i < l /\ al[i + 1].protected)) <=> i \in Catchers(s, n)
  <2>1. CASE i \in 1..n
    <3>1. al[i].phase = "caught" <=> Unwinding(s, i) # NoUnwinding
      BY <2>1, LikeIs
    <3>2. i < l /\ al[i + 1].protected <=> Protecting(s, i)
      BY <1>4, <2>1, LikeIs
    <3> QED  BY <2>1, <3>1, <3>2 DEF Catchers
  <2>2. CASE i \notin 1..n
    <3>1. i = n + 1 /\ l = n + 1 /\ ~(i < l)
      BY <1>1, <2>2
    <3> QED  BY <1>1, <2>2, <3>1 DEF Catchers
  <2> QED  BY <2>1, <2>2
<1>3. Catchers(s, n) \subseteq 1..l
  BY <1>1 DEF Catchers
<1> QED  BY <1>2, <1>3, <1>4 DEF Scope!Catching

(* The greatest of them. *)
LEMMA CatcherIs ==
  ASSUME NEW s, NEW n \in Nat, NEW r \in Catchers(s, n), \A i \in Catchers(s, n) : i <= r
  PROVE  Max(Catchers(s, n)) = r
<1>1. Catchers(s, n) \in SUBSET (0..n) /\ Catchers(s, n) # {}
  BY DEF Catchers
<1> DEFINE S == Catchers(s, n)
           x == Max(S)
<1>2. r \in S /\ \A i \in S : i <= r
  OBVIOUS
<1>4. S \in SUBSET (0..n) /\ S # {}
  BY <1>1
<1> HIDE DEF S
<1>3. x \in S /\ \A y \in S : x >= y
  BY <1>4, MaxOf
<1> HIDE DEF x
<1>5. x \in 0..n /\ r \in 0..n
  BY <1>2, <1>3, <1>4
<1>6. x = r
  BY <1>2, <1>3, <1>5
<1> QED  BY <1>6 DEF x, S

(* An activation that catches an error. *)
LEMMA AfterErrorIs ==
  ASSUME NEW s, NEW al, NEW n, Like(s, al, n), NEW e, NEW r \in Catchers(s, n),
         \A i \in Catchers(s, n) : i <= r,
         NEW k, k = IF al[r].phase = "caught" THEN al[r].keep ELSE al[r + 1].first
  PROVE  Scope!AfterError(al, e)
           = CutAt(al, r, Became(ActivationOf(s, r), "caught", k, <<e>>))
<1>1. Scope!Catching(al) = Catchers(s, n) /\ Catchers(s, n) # {}
  BY CatchingIs
<1>2. Scope!Max(Catchers(s, n)) = r
  <2>1. n \in Nat
    BY DEF Like
  <2> QED  BY <2>1, ScopeMax, CatcherIs
<1>3. Scope!AfterError(al, e)
        = CutAt(al, r, [al[r] EXCEPT !.phase = "caught", !.keep = k, !.err = <<e>>])
  BY <1>1, <1>2 DEF Scope!AfterError, CutAt
<1>4. [al[r] EXCEPT !.phase = "caught", !.keep = k, !.err = <<e>>] = Became(al[r], "caught", k, <<e>>)
  BY DEF Became
<1>5. r \in 1..n
  BY DEF Catchers
<1>7. \A x, y, z : Became(al[r], x, y, z) = Became(ActivationOf(s, r), x, y, z)
  <2>1. ButErr(ActivationOf(s, r), al[r])
    BY <1>5, LikeBut
  <2> QED  BY ONLY <2>1 DEF ButErr
<1>6. Became(al[r], "caught", k, <<e>>) = Became(ActivationOf(s, r), "caught", k, <<e>>)
  BY ONLY <1>7
<1> QED  BY ONLY <1>3, <1>4, <1>6

(* t is what s becomes by an error with object e *)
ErrorMeant(s, t, al, e) ==
  Activations(t) = Scope!AfterError(al, e) /\ Pending(t) = Pending(s)

(* frame r catches the errors, and closes all variables from position l on *)
Innermost(s, al, n, r, l) ==
  /\ r \in Catchers(s, n) /\ \A i \in Catchers(s, n) : i <= r
  /\ Older(s, l) = IF al[r].phase = "caught" THEN al[r].keep ELSE al[r + 1].first

ErrorObject(s, status) == IF status = "mem" THEN "mem" ELSE Last(s.stack)

(* The variables are below the top of the stack. *)
LEMMA PendingKept ==
  ASSUME NEW s, NEW d, Base(s, d), NEW t, t.tbclist = s.tbclist,
         \A p \in 1..Len(s.stack) : t.stack[p] = s.stack[p]
  PROVE  Pending(t) = Pending(s)
<1>1. Sorted(s)
  BY AreSorted
<1>2. \A a \in 1..Len(s.tbclist) : s.tbclist[a] \in 1..Len(s.stack)
  <2>1. s \in State /\ Variables(s) /\ Len(s.stack) \in Nat
    BY BaseType DEF Base
  <2>2. \A a \in 1..Len(s.tbclist) : s.tbclist[a] \in Nat /\ s.tbclist[a] > 1
                                     /\ s.tbclist[a] <= Len(s.stack)
    BY <2>1, VariablesBelow
  <2> QED  BY <2>1, <2>2
<1> QED  BY <1>1, <1>2, PendingStays

(* the frame and the status of the error in what a handler left *)
Unwinds(s, t, r, l, status) ==
  /\ r \in 1..Len(s.ci) /\ Len(t.ci) = r /\ t.status = "ok" /\ Under(s, t, r)
  /\ t.stack = s.stack /\ t.tbclist = s.tbclist
  /\ Unwinding(t, r) = [level |-> l, status |-> status]

(* An error that is caught, if its frame is the greatest of those that catch errors. *)
LEMMA CaughtMeans ==
  ASSUME NEW s, NEW d, Base(s, d), NEW n, NEW al, Like(s, al, n), NEW status \in ErrorStatus,
         NEW t, NEW r, NEW l, Unwinds(s, t, r, l, status),
         Innermost(s, al, n, r, l)
  PROVE  ErrorMeant(s, t, al, ErrorObject(s, status))
<1> DEFINE u == [level |-> l, status |-> status]
           e == ErrorObject(s, status)
<1>0. /\ r \in Catchers(s, n) /\ \A i \in Catchers(s, n) : i <= r
      /\ Older(s, l) = IF al[r].phase = "caught" THEN al[r].keep ELSE al[r + 1].first
  BY DEF Innermost
<1>1. /\ n = Len(s.ci) /\ n \in Nat /\ IsList(al, Len(al)) /\ Len(al) \in Nat /\ n <= Len(al)
      /\ \A i \in 1..(n - 1) : al[i] = ActivationOf(s, i)
  BY DEF Like
<1>2. /\ r \in 1..n /\ Len(t.ci) = r /\ Alive(t) /\ Under(s, t, r) /\ Unwinding(t, r) = u
      /\ t.stack = s.stack /\ t.tbclist = s.tbclist
  BY <1>1 DEF Unwinds, Alive, ErrorStatus
<1>3. Skeleton(s, d) /\ Len(s.stack) \in Nat /\ Len(s.stack) > 0 /\ s.stack \in Seq(StackValue)
      /\ s.stack # <<>>
  BY BaseType, StateType, EmptySeq DEF Base
<1>4. u # NoUnwinding
  <2>1. u.status = status /\ NoUnwinding.status = "none"
    BY DEF NoUnwinding
  <2> QED  BY <2>1 DEF ErrorStatus
<1>5. Phase(t.ci[r], u) = "caught" /\ Keep(t, r, "caught", u) = Older(s, l)
  <2>1. Phase(t.ci[r], u) = "caught"
    BY <1>4 DEF Phase
  <2>2. Keep(t, r, "caught", u) = Older(t, l)
    BY DEF Keep
  <2>3. Older(t, l) = Older(s, l)
    BY <1>2, OlderSame
  <2> QED  BY <2>1, <2>2, <2>3
<1>6. Handled(t, r, u) = <<e>>
  <2>1. CallTop(t, r) = Len(s.stack) + 1
    <3>1. ~(r < Len(t.ci))
      BY <1>2
    <3> QED  BY <1>2, <3>1 DEF CallTop
  <2>2. t.stack[CallTop(t, r) - 1] = Last(s.stack)
    <3>1. CallTop(t, r) - 1 = Len(s.stack)
      BY <1>3, <2>1
    <3> QED  BY <1>2, <1>3, <3>1, FrontLast
  <2>3. u.status = status /\ status \notin {"none", "ok"}
    BY DEF ErrorStatus
  <2> QED  BY <2>2, <2>3 DEF Handled, ErrorObject
<1> HIDE DEF u, e
<1>7. ActivationOf(t, r) = Became(ActivationOf(s, r), "caught", Older(s, l), <<e>>)
  <2>1. \A y, ph : y = Unwinding(t, r) /\ ph = Phase(t.ci[r], y) =>
          ActivationOf(t, r) = Became(ActivationOf(s, r), ph, Keep(t, r, ph, y), Handled(t, r, y))
    BY <1>2, <1>3, TopIs
  <2>2. ActivationOf(t, r) = Became(ActivationOf(s, r), Phase(t.ci[r], u),
                                    Keep(t, r, Phase(t.ci[r], u), u), Handled(t, r, u))
    BY <1>2, <2>1
  <2> QED  BY ONLY <1>5, <1>6, <2>2
<1>8. Activations(t) = CutAt(al, r, ActivationOf(t, r))
  <2>1. Skeleton(s, d) /\ n \in Nat /\ n = Len(s.ci) /\ r \in 1..n
    BY <1>1, <1>2, <1>3
  <2>2. Len(t.ci) = r /\ Alive(t) /\ Under(s, t, r)
    BY <1>2
  <2>3. IsList(al, Len(al)) /\ Len(al) \in Nat /\ n <= Len(al)
    BY <1>1
  <2>4. \A i \in 1..(n - 1) : al[i] = ActivationOf(s, i)
    BY <1>1
  <2> QED  BY ONLY <2>1, <2>2, <2>3, <2>4, ActsCut
<1>9. Scope!AfterError(al, e)
        = CutAt(al, r, Became(ActivationOf(s, r), "caught", Older(s, l), <<e>>))
  <2> DEFINE k == Older(s, l)
  <2>1. k = IF al[r].phase = "caught" THEN al[r].keep ELSE al[r + 1].first
    BY <1>0
  <2>2. Like(s, al, n) /\ r \in Catchers(s, n) /\ \A i \in Catchers(s, n) : i <= r
    BY <1>0
  <2> HIDE DEF k
  <2>3. Scope!AfterError(al, e)
          = CutAt(al, r, Became(ActivationOf(s, r), "caught", k, <<e>>))
    BY ONLY <2>1, <2>2, AfterErrorIs
  <2> QED  BY ONLY <2>3 DEF k
<1>10. Activations(t) = Scope!AfterError(al, e)
  BY ONLY <1>7, <1>8, <1>9
<1>11. Pending(t) = Pending(s)
  BY <1>2, PendingKept
<1> QED  BY <1>10, <1>11 DEF ErrorMeant, e

(* Below the frame of a handler nothing changes. *)
LEMMA CaughtUnder ==
  ASSUME NEW s, NEW d, Base(s, d), ~NestedClose, NEW m \in Nat, m = Len(s.cs), m > 0,
         d[m] = Len(s.ci),
         NEW j \in 1..m, Try(s.cs[j], Protected), \A i \in 1..m : s.cs[i].t = "try" => i <= j,
         NEW r, r = s.cs[j].ci, NEW status \in ErrorStatus, NEW t, CaughtBy(s, t, j, status),
         CInv(t)
  PROVE  Unwinds(s, t, r, s.cs[j].level, status) /\ ~s.ci[r].ypcall
<1>1. /\ d[j] = r /\ r \in 1..Len(s.ci) /\ Skeleton(s, d) /\ Depths(s, d)
      /\ Len(s.cs) \in Nat /\ j \in Nat /\ Len(s.ci) \in Nat /\ r \in Nat /\ m \in Nat
  <2>1. d[j] = r /\ r \in 1..Len(s.ci)
    BY NothingAbove
  <2>2. Skeleton(s, d) /\ Depths(s, d) /\ Len(s.cs) \in Nat /\ Len(s.ci) \in Nat
    BY BaseType DEF Base, Skeleton
  <2> QED  BY <2>1, <2>2
<1>2. /\ t.stack = s.stack /\ t.tbclist = s.tbclist /\ t.status = "ok"
      /\ Len(t.ci) = r /\ (\A i \in 1..r : t.ci[i] = s.ci[i])
      /\ Len(t.cs) = j + 1 /\ (\A i \in 1..(j - 1) : t.cs[i] = s.cs[i])
      /\ Try(t.cs[j], {"closep"}) /\ t.cs[j].ci = r /\ t.cs[j].level = s.cs[j].level
      /\ t.cs[j].status = status /\ t.cs[j + 1].t = "close"
  BY DEF CaughtBy
<1>3. OnFrame(s, s.cs[j], r)
  BY <1>1 DEF Depths
<1>4. s.ci[r].kind = "C" /\ ~s.ci[r].ypcall
  BY <1>3 DEF OnFrame
<1>5. SameHandlers(s, t, r - 1)
  <2>0. m \in Nat /\ j \in 1..m /\ Len(s.cs) = m /\ Len(t.cs) = j + 1
    BY ONLY <1>2, m \in Nat, j \in 1..m, m = Len(s.cs)
  <2>a. j - 1 \in Nat /\ j - 1 <= m /\ j - 1 <= j + 1 /\ j + 1 \in Nat
    BY ONLY <2>0
  <2>1. j - 1 \in Nat /\ j - 1 <= Len(s.cs) /\ j - 1 <= Len(t.cs) /\ Len(t.cs) \in Nat
    BY ONLY <2>0, <2>a
  <2>2. ASSUME NEW i \in (j - 1 + 1)..Len(s.cs), Try(s.cs[i], Protected)
        PROVE  ~(s.cs[i].ci \in 1..(r - 1))
    <3>1. i = j
      <4>1. i <= j
        BY <1>1, <2>2 DEF Try
      <4> QED  BY <1>1, <4>1
    <3> QED  BY <1>1, <3>1
  <2>3. ASSUME NEW i \in (j - 1 + 1)..Len(t.cs), Try(t.cs[i], Protected)
        PROVE  ~(t.cs[i].ci \in 1..(r - 1))
    <3>1. i = j \/ i = j + 1
      BY <1>1, <1>2
    <3>2. i # j + 1
      BY <1>2, <2>3 DEF Try
    <3>3. t.cs[i].ci = r
      BY <1>2, <3>1, <3>2
    <3> QED  BY <1>1, <3>3
  <2> QED  BY <1>1, <1>2, <2>1, <2>2, <2>3, HandlersCut
<1>6. Under(s, t, r)
  <2>1. r \in 1..Len(t.ci) /\ r \in 1..r /\ \A i \in 1..(r - 1) : i \in 1..r
    BY <1>1, <1>2
  <2>2. t.ci[r].func = s.ci[r].func /\ t.ci[r].args = s.ci[r].args
        /\ \A i \in 1..(r - 1) : t.ci[i] = s.ci[i]
    BY <1>2, <2>1
  <2>3. \A p : Older(t, p) = Older(s, p)
    BY <1>2, OlderSame
  <2> QED  BY <1>1, <1>2, <1>5, <2>1, <2>2, <2>3 DEF Under
<1>7. Unwinding(t, r) = [level |-> s.cs[j].level, status |-> status]
  <2>1. PICK c \in [Nat -> Nat] : Base(t, c)
    BY DEF CInv
  <2>5. j \in 1..Len(t.cs) /\ r \in 1..r
    <3>1. Len(t.cs) = j + 1
      BY <1>2
    <3> QED  BY ONLY <1>1, <3>1
  <2>2. j \in Handlers(t, "closep", r)
    BY <1>2, <2>5 DEF Handlers, Try
  <2>3. Handlers(t, "closep", r) # {} /\ Max(Handlers(t, "closep", r)) = j
    <3>1. Skeleton(t, c) /\ "closep" \in Protected
      BY <2>1 DEF Base, Protected
    <3> QED  BY <2>2, <3>1, OneHandler
  <2>4. ~t.ci[r].ypcall
    BY <1>2, <1>4, <2>5
  <2> QED  BY <1>2, <2>3, <2>4 DEF Unwinding
<1> QED  BY <1>1, <1>2, <1>4, <1>6, <1>7 DEF Unwinds

(* The frame of the last handler is the greatest that catches errors. *)
LEMMA HandlerCatches ==
  ASSUME NEW s, NEW d, Base(s, d), ~NestedClose, NEW m \in Nat, m = Len(s.cs), m > 0,
         NEW n, n = Len(s.ci), d[m] = n,
         NEW j \in 1..m, Try(s.cs[j], Protected), \A i \in 1..m : s.cs[i].t = "try" => i <= j,
         NEW r, r = s.cs[j].ci, NEW al, Like(s, al, n)
  PROVE  Innermost(s, al, n, r, s.cs[j].level)
<1> DEFINE by == s.cs[j].by
           level == s.cs[j].level
<1>1. /\ d[j] = r /\ r \in 1..n /\ n \in Nat /\ r \in Nat
      /\ \A i \in (r + 1)..n : ~s.ci[i].ypcall
      /\ \A i \in (r + 1)..n : \A b \in Protected : Handlers(s, b, i) = {}
      /\ by = "pcall" /\ r < n => s.ci[r + 1].func = level
  <2>1. n \in Nat
    BY BaseType
  <2>2. /\ d[j] = r /\ r \in 1..n
        /\ \A i \in (r + 1)..n : ~s.ci[i].ypcall
        /\ \A i \in (r + 1)..n : \A b \in Protected : Handlers(s, b, i) = {}
        /\ by = "pcall" /\ r < n => s.ci[r + 1].func = level
    BY NothingAbove
  <2> QED  BY <2>1, <2>2
<1>2. by \in Protected /\ by \in {"pcall", "closep"} /\ s.cs[j].t = "try"
      /\ {"pcall", "closep"} \subseteq Protected
  BY DEF Try, Protected
<1>3. Skeleton(s, d) /\ OnFrame(s, s.cs[j], d[j])
  BY DEF Base, Skeleton, Depths
<1>4. s.ci[r].kind = "C" /\ ~s.ci[r].ypcall
  BY <1>1, <1>3 DEF OnFrame
<1>5. j \in Handlers(s, by, r)
  BY DEF Handlers, Try
<1>6. /\ Handlers(s, by, r) = {j} /\ Max(Handlers(s, by, r)) = j
      /\ \A b \in Protected : b # by => Handlers(s, b, r) = {}
  BY <1>2, <1>3, <1>5, OneHandler
<1>7. ASSUME NEW i \in Catchers(s, n)  PROVE i <= r
  <2> SUFFICES ASSUME ~(i <= r) PROVE FALSE
    OBVIOUS
  <2>1. i \in (r + 1)..n
    BY <1>1 DEF Catchers
  <2>2. ~s.ci[i].ypcall /\ Handlers(s, "pcall", i) = {} /\ Handlers(s, "closep", i) = {}
    BY <1>1, <1>2, <2>1
  <2>3. Unwinding(s, i) = NoUnwinding
    BY <2>2 DEF Unwinding
  <2> QED  BY <2>2, <2>3 DEF Catchers, Protecting
<1> DEFINE u == Unwinding(s, r)
<1>8. CASE by = "closep"
  <2>1. u = [level |-> level, status |-> s.cs[j].status]
    BY <1>4, <1>6, <1>8 DEF Unwinding
  <2>2. u # NoUnwinding /\ u.level = level
    <3>1. s.cs[j].status \in ErrorStatus \cup {"ok"}
      BY <1>2, <1>3, <1>5, HandlerIs
    <3>2. u.status # "none"
      BY <2>1, <3>1 DEF ErrorStatus
    <3> QED  BY <2>1, <3>2 DEF NoUnwinding
  <2> HIDE DEF u, level
  <2>3. al[r].phase = "caught" /\ al[r].keep = Older(s, level)
    <3>1. u = Unwinding(s, r)
      BY DEF u
    <3>2. /\ al[r].phase = "caught" <=> u # NoUnwinding
          /\ al[r].phase = "caught" => al[r].keep = Older(s, u.level)
      BY <1>1, <3>1, LikeIs
    <3> QED  BY <2>2, <3>2
  <2>4. r \in Catchers(s, n)
    BY <1>1, <2>2 DEF Catchers, u
  <2> QED  BY <1>7, <2>3, <2>4 DEF level, Innermost
<1>9. CASE by = "pcall"
  <2>1. Protecting(s, r)
    BY <1>6, <1>9 DEF Protecting
  <2>2. u = NoUnwinding
    <3>1. Handlers(s, "closep", r) = {}
      BY <1>2, <1>6, <1>9
    <3> QED  BY <1>4, <3>1 DEF Unwinding
  <2>3. r \in Catchers(s, n)
    BY <1>1, <2>1 DEF Catchers
  <2> HIDE DEF level
  <2>4. al[r].phase # "caught"
    BY <1>1, <2>2, LikeIs
  <2>5. al[r + 1].first = Older(s, level)
    <3>1. CASE r < n
      <4>1. al[r + 1].first = Older(s, s.ci[r + 1].func)
        <5>1. u = Unwinding(s, r)
          OBVIOUS
        <5> HIDE DEF u
        <5>2. r < n => al[r + 1].first = Older(s, s.ci[r + 1].func)
          BY <1>1, <5>1, LikeIs
        <5> QED  BY <3>1, <5>2
      <4> QED  BY <1>1, <1>9, <3>1, <4>1
    <3>2. CASE ~(r < n)
      <4>1. r = n
        BY <1>1, <3>2
      <4>2. al[n + 1].first = Len(s.tbclist) /\ ~TbcFrom(s, level)
        BY <1>6, <1>9, <2>1, <4>1 DEF Like, level
      <4>3. level \in Nat
        BY <1>2, <1>3, <1>5, HandlerIs DEF level
      <4>4. Older(s, level) = Len(s.tbclist)
        BY <4>2, <4>3, AreSorted, OlderAll
      <4> QED  BY <4>1, <4>2, <4>4
    <3> QED  BY <3>1, <3>2
  <2> QED  BY <1>7, <2>3, <2>4, <2>5 DEF level, Innermost
<1> QED  BY <1>2, <1>8, <1>9

(* Without handlers of protected calls on the C stack only lau_pcallk catches errors. *)
LEMMA YieldableCatches ==
  ASSUME NEW s, NEW n, n = Len(s.ci), \A j \in 1..Len(s.cs) : ~Try(s.cs[j], Protected),
         \A i \in 1..n : s.ci[i] \in CallInfo
  PROVE  /\ \A i : \A by \in Protected : Handlers(s, by, i) = {}
         /\ Catchers(s, n) = {i \in 1..Len(s.ci) : s.ci[i].ypcall}
         /\ \A i : Unwinding(s, i) = IF s.ci[i].ypcall /\ s.ci[i].recst # "ok"
                                     THEN [level |-> s.ci[i].u2, status |-> s.ci[i].recst]
                                     ELSE NoUnwinding
<1>1. ASSUME NEW i, NEW by \in Protected  PROVE Handlers(s, by, i) = {}
  BY DEF Handlers, Try
<1>2. ASSUME NEW i
      PROVE  Unwinding(s, i) = IF s.ci[i].ypcall /\ s.ci[i].recst # "ok"
                               THEN [level |-> s.ci[i].u2, status |-> s.ci[i].recst]
                               ELSE NoUnwinding
  <2>1. Handlers(s, "closep", i) = {}
    BY <1>1 DEF Protected
  <2> QED  BY <2>1 DEF Unwinding
<1>3. ASSUME NEW i \in 1..n
      PROVE  i \in Catchers(s, n) <=> s.ci[i].ypcall
  <2>1. Handlers(s, "pcall", i) = {}
    BY <1>1 DEF Protected
  <2>2. s.ci[i].ypcall /\ s.ci[i].recst # "ok" => Unwinding(s, i) # NoUnwinding
    <3> SUFFICES ASSUME s.ci[i].ypcall /\ s.ci[i].recst # "ok",
                        [level |-> s.ci[i].u2, status |-> s.ci[i].recst] = NoUnwinding
                 PROVE  FALSE
      BY <1>2
    <3>1. s.ci[i].recst = "none"
      BY DEF NoUnwinding
    <3>2. s.ci[i].recst \in ErrorStatus \cup {"ok"}
      BY FrameType
    <3> QED  BY <3>1, <3>2 DEF ErrorStatus
  <2> QED  BY <1>2, <2>1, <2>2 DEF Catchers, Protecting
<1> QED  BY <1>1, <1>2, <1>3 DEF Catchers

-----------------------------------------------------------------------------
(* Errors *)

(* An error goes to the lau_pcallk nearest below. *)
LEMMA PcallkCatches ==
  ASSUME NEW s, NEW d, Base(s, d), NEW n, NEW al, Like(s, al, n),
         \A j \in 1..Len(s.cs) : ~Try(s.cs[j], Protected),
         NEW pcalls, pcalls = {i \in 1..Len(s.ci) : s.ci[i].ypcall},
         NEW r \in pcalls, \A i \in pcalls : i <= r,
         NEW status \in ErrorStatus, NEW t, Recovered(s, t, r, status)
  PROVE  ErrorMeant(s, t, al, ErrorObject(s, status))
<1> DEFINE f == s.ci[r]
<1>1. /\ n = Len(s.ci) /\ n \in Nat /\ r \in 1..n /\ r \in Nat /\ f.ypcall
      /\ Skeleton(s, d) /\ Frames(s) /\ Len(s.cs) \in Nat /\ Sorted(s) /\ Len(s.tbclist) \in Nat
      /\ \A i \in 1..n : s.ci[i] \in CallInfo
  <2>1. Skeleton(s, d) /\ Frames(s) /\ Len(s.cs) \in Nat /\ Len(s.tbclist) \in Nat
        /\ \A i \in 1..Len(s.ci) : s.ci[i] \in CallInfo
    BY BaseType DEF Base, Skeleton
  <2>2. n = Len(s.ci) /\ n \in Nat
    BY DEF Like
  <2>3. Sorted(s)
    BY AreSorted
  <2> QED  BY <2>1, <2>2, <2>3
<1>2. /\ t.stack = s.stack /\ t.tbclist = s.tbclist /\ t.status = "ok"
      /\ Len(t.ci) = r /\ (\A i \in 1..(r - 1) : t.ci[i] = s.ci[i])
      /\ t.ci[r] = [f EXCEPT !.recst = status]
      /\ Len(t.cs) = 2 /\ Try(t.cs[1], {"recover"}) /\ t.cs[2].t = "unroll"
  BY DEF Recovered
<1>3. /\ \A i : \A by \in Protected : Handlers(s, by, i) = {}
      /\ Catchers(s, n) = pcalls
      /\ \A i : Unwinding(s, i) = IF s.ci[i].ypcall /\ s.ci[i].recst # "ok"
                                  THEN [level |-> s.ci[i].u2, status |-> s.ci[i].recst]
                                  ELSE NoUnwinding
  BY <1>1, YieldableCatches
<1>4. f \in CallInfo /\ f.func \in Nat /\ f.u2 \in Nat /\ f.recst \in ErrorStatus \cup {"ok"}
      /\ f.ypcall \in BOOLEAN
  BY <1>1, FrameType
<1>5. /\ t.ci[r].func = f.func /\ t.ci[r].args = f.args /\ t.ci[r].recst = status
      /\ t.ci[r].u2 = f.u2 /\ t.ci[r].ypcall
  <2>1. /\ t.ci[r].func = f.func /\ t.ci[r].args = f.args /\ t.ci[r].recst = status
        /\ t.ci[r].u2 = f.u2 /\ t.ci[r].ypcall = f.ypcall
    BY <1>2, <1>4 DEF CallInfo
  <2> QED  BY <1>1, <2>1
<1> HIDE DEF f
<1>6. Unwinds(s, t, r, f.u2, status)
  <2>1. SameHandlers(s, t, r - 1)
    <3>1. ASSUME NEW i \in (0 + 1)..Len(s.cs), Try(s.cs[i], Protected)
          PROVE  ~(s.cs[i].ci \in 1..(r - 1))
      BY <1>1, <3>1
    <3>2. ASSUME NEW i \in (0 + 1)..Len(t.cs), Try(t.cs[i], Protected)
          PROVE  ~(t.cs[i].ci \in 1..(r - 1))
      <4>1. i = 1 \/ i = 2
        BY <1>2
      <4> QED  BY <1>2, <3>2, <4>1 DEF Try, Protected
    <3>3. 0 \in Nat /\ 0 <= Len(s.cs) /\ 0 <= Len(t.cs) /\ Len(t.cs) \in Nat
          /\ \A j \in 1..0 : t.cs[j] = s.cs[j]
      BY <1>1, <1>2
    <3> QED  BY <1>1, <3>1, <3>2, <3>3, HandlersCut
  <2>2. Under(s, t, r)
    <3>1. r \in 1..Len(s.ci) /\ r \in 1..Len(t.ci)
      BY <1>1, <1>2
    <3>2. \A p \in Nat : p <= s.ci[r].func => Older(t, p) = Older(s, p)
      BY <1>2, OlderSame
    <3> QED  BY <1>2, <1>5, <2>1, <3>1, <3>2 DEF Under, f
  <2>3. Unwinding(t, r) = [level |-> f.u2, status |-> status]
    <3>1. status # "ok"
      BY DEF ErrorStatus
    <3> QED  BY <1>5, <3>1 DEF Unwinding
  <2> QED  BY <1>1, <1>2, <2>2, <2>3 DEF Unwinds
<1>7. Older(s, f.u2) = IF al[r].phase = "caught" THEN al[r].keep ELSE al[r + 1].first
  <2> DEFINE u == Unwinding(s, r)
  <2>1. /\ al[r].phase = "caught" <=> u # NoUnwinding
        /\ al[r].phase = "caught" => al[r].keep = Older(s, u.level)
        /\ r < n => al[r + 1].first = Older(s, s.ci[r + 1].func)
    <3>1. u = Unwinding(s, r)
      OBVIOUS
    <3> HIDE DEF u
    <3> QED  BY <1>1, <3>1, LikeIs
  <2>2. CASE f.recst # "ok"
    <3>1. u = [level |-> f.u2, status |-> f.recst]
      BY <1>1, <1>3, <2>2 DEF f
    <3>2. u.level = f.u2 /\ u.status = f.recst
      BY <3>1
    <3>3. u # NoUnwinding
      BY <1>4, <3>2 DEF NoUnwinding, ErrorStatus
    <3> QED  BY <2>1, <3>2, <3>3
  <2>3. CASE f.recst = "ok"
    <3>1. u = NoUnwinding
      BY <1>3, <2>3 DEF f
    <3>2. CASE r < n
      <4>1. r \in 1..(Len(s.ci) - 1)
        BY <1>1, <3>2
      <4>2. CallerOk(s, r)
        BY <1>1, <4>1 DEF Frames
      <4>3. s.ci[r + 1].func = f.u2
        BY <1>1, <2>3, <4>2 DEF CallerOk, f
      <4> QED  BY <2>1, <3>1, <3>2, <4>3
    <3>3. CASE ~(r < n)
      <4>1. r = n
        BY <1>1, <3>3
      <4>2. Protecting(s, n)
        BY <1>1, <2>3, <4>1 DEF Protecting, f
      <4>3. al[n + 1].first = Len(s.tbclist) /\ ~TbcFrom(s, f.u2)
        BY <1>1, <4>1, <4>2 DEF Like, f
      <4>4. Older(s, f.u2) = Len(s.tbclist)
        BY <1>1, <1>4, <4>3, OlderAll
      <4> QED  BY <2>1, <3>1, <4>1, <4>3, <4>4
    <3> QED  BY <3>2, <3>3
  <2> QED  BY <2>2, <2>3
<1>8. Innermost(s, al, n, r, f.u2)
  BY <1>3, <1>7 DEF Innermost
<1> QED  BY <1>6, <1>8, CaughtMeans

(* An error that nothing catches. *)
LEMMA DeathMeans ==
  ASSUME NEW s, NEW d, Base(s, d), NEW n, NEW al, Like(s, al, n),
         \A j \in 1..Len(s.cs) : ~Try(s.cs[j], Protected),
         {i \in 1..Len(s.ci) : s.ci[i].ypcall} = {},
         NEW status \in ErrorStatus, NEW t, Died(s, t, status)
  PROVE  ErrorMeant(s, t, al, ErrorObject(s, status))
<1> DEFINE e == ErrorObject(s, status)
<1>1. n = Len(s.ci) /\ \A i \in 1..n : s.ci[i] \in CallInfo
  BY BaseType DEF Like
<1>2. Catchers(s, n) = {}
  BY <1>1, YieldableCatches
<1>3. Scope!Catching(al) = {}
  BY <1>2, CatchingIs
<1>4. t.tbclist = s.tbclist /\ t.status = status /\ Last(t.stack) = e
      /\ (\A p \in 1..Len(s.stack) : t.stack[p] = s.stack[p])
  BY DEF Died, ErrorObject
<1> HIDE DEF e
<1>5. Activations(t) = <<[args |-> <<>>, protected |-> FALSE, first |-> 0, phase |-> "dead",
                          keep |-> 0, err |-> <<e>>]>>
  BY <1>4 DEF Activations
<1>6. Scope!AfterError(al, e) = Scope!Host("dead", <<e>>)
  BY <1>3 DEF Scope!AfterError
<1>7. Activations(t) = Scope!AfterError(al, e)
  BY <1>5, <1>6 DEF Scope!Host
<1>8. Pending(t) = Pending(s)
  BY <1>4, PendingKept
<1> QED  BY <1>7, <1>8 DEF ErrorMeant, e

(* lauD_throw does what LauScope says of errors. *)
LEMMA ErrorMeans ==
  ASSUME NEW s, NEW d, Base(s, d), ~NestedClose, s.status = "ok",
         NEW m \in Nat, m = Len(s.cs), m > 0, s.cs[m].t # "reset",
         NEW n, n = Len(s.ci), d[m] = n, NEW al, Like(s, al, n), NEW status \in ErrorStatus
  PROVE  ErrorMeant(s, throw(s, status), al, ErrorObject(s, status))
<1> DEFINE t == throw(s, status)
<1>1. CInv(t)
  BY Throw
<1>2. ThrownTo(s, t, status)
  BY ThrowIs
<1> HIDE DEF t
<1>3. ASSUME NEW j \in 1..m, Try(s.cs[j], Protected), CaughtBy(s, t, j, status),
             \A i \in 1..m : s.cs[i].t = "try" => i <= j
      PROVE  ErrorMeant(s, t, al, ErrorObject(s, status))
  <2> DEFINE r == s.cs[j].ci
             l == s.cs[j].level
  <2>1. Unwinds(s, t, r, l, status)
    BY <1>1, <1>3, CaughtUnder
  <2>2. Innermost(s, al, n, r, l)
    BY <1>3, HandlerCatches
  <2> HIDE DEF r, l
  <2> QED  BY <2>1, <2>2, CaughtMeans
<1> DEFINE pcalls == {i \in 1..Len(s.ci) : s.ci[i].ypcall}
<1>4. ASSUME \A j \in 1..m : ~Try(s.cs[j], Protected), pcalls = {}, Died(s, t, status)
      PROVE  ErrorMeant(s, t, al, ErrorObject(s, status))
  BY <1>4, DeathMeans
<1>5. ASSUME \A j \in 1..m : ~Try(s.cs[j], Protected), Max(pcalls) \in pcalls,
             \A i \in pcalls : i <= Max(pcalls), Recovered(s, t, Max(pcalls), status)
      PROVE  ErrorMeant(s, t, al, ErrorObject(s, status))
  <2> DEFINE r == Max(pcalls)
  <2>1. r \in pcalls /\ (\A i \in pcalls : i <= r) /\ Recovered(s, t, r, status)
    BY <1>5
  <2>2. \A j \in 1..Len(s.cs) : ~Try(s.cs[j], Protected)
    BY <1>5
  <2>3. pcalls = {i \in 1..Len(s.ci) : s.ci[i].ypcall}
    OBVIOUS
  <2> HIDE DEF r, pcalls
  <2> QED  BY <2>1, <2>2, <2>3, PcallkCatches
<1> QED  BY <1>2, <1>3, <1>4, <1>5 DEF ThrownTo, t

-----------------------------------------------------------------------------
(* What does not show *)

(* frame n runs: it closes nothing *)
Idle(s, n) ==
  /\ s.ci[n].pc \in {"run", "call", "index", "add"} /\ ~s.ci[n].clsret
  /\ Unwinding(s, n) = NoUnwinding

(* the activation of such a frame *)
LEMMA IdleIs ==
  ASSUME NEW s, NEW n, Idle(s, n), NEW a, a = ActivationOf(s, n)
  PROVE  a.phase = "run" /\ a.keep = 0 /\ a.err = <<>>
<1> DEFINE u == Unwinding(s, n)
<1>1. u = NoUnwinding
  BY DEF Idle
<1>2. Phase(s.ci[n], NoUnwinding) = "run" /\ Keep(s, n, "run", NoUnwinding) = 0
      /\ Handled(s, n, NoUnwinding) = <<>>
  BY DEF Idle, Phase, Keep, Handled, NoUnwinding
<1>3. u = Unwinding(s, n)
  OBVIOUS
<1> HIDE DEF u
<1>4. a.err = Handled(s, n, u) /\ a.phase = Phase(s.ci[n], u) /\ a.keep = Keep(s, n, a.phase, u)
  BY <1>3, ActFields
<1> QED  BY <1>1, <1>2, <1>4

(* If it goes on running, its activation is the same. *)
LEMMA IdleStays ==
  ASSUME NEW s, NEW d, Skeleton(s, d), NEW t, NEW n, Under(s, t, n), Idle(s, n), Idle(t, n)
  PROVE  ActivationOf(t, n) = ActivationOf(s, n)
<1>1. /\ Phase(t.ci[n], NoUnwinding) = "run" /\ Keep(t, n, "run", NoUnwinding) = 0
      /\ Handled(t, n, NoUnwinding) = <<>> /\ Unwinding(t, n) = NoUnwinding
  BY DEF Idle, Phase, Keep, Handled, NoUnwinding
<1>2. /\ Phase(s.ci[n], NoUnwinding) = "run" /\ Keep(s, n, "run", NoUnwinding) = 0
      /\ Handled(s, n, NoUnwinding) = <<>> /\ Unwinding(s, n) = NoUnwinding
  BY DEF Idle, Phase, Keep, Handled, NoUnwinding
<1>3. Under(s, s, n)
  BY DEF Under, SameHandlers
<1>4. \A x, u, ph : Under(s, x, n) /\ u = Unwinding(x, n) /\ ph = Phase(x.ci[n], u) =>
        ActivationOf(x, n) = Became(ActivationOf(s, n), ph, Keep(x, n, ph, u), Handled(x, n, u))
  BY TopIs
<1>5. ActivationOf(t, n) = Became(ActivationOf(s, n), "run", 0, <<>>)
  BY <1>1, <1>4
<1>6. ActivationOf(s, n) = Became(ActivationOf(s, n), "run", 0, <<>>)
  BY <1>2, <1>3, <1>4
<1> QED  BY ONLY <1>5, <1>6

(* A frame that closes variables may change only the error it hands on. *)
LEMMA OnlyErr ==
  ASSUME NEW s, NEW d, Skeleton(s, d), NEW t, NEW n, Under(s, t, n), SameHandlers(s, t, n),
         t.ci[n] = s.ci[n], t.tbclist = s.tbclist,
         NEW u, u = Unwinding(t, n), NEW a, a = ActivationOf(s, n)
  PROVE  ActivationOf(t, n) = Became(a, a.phase, a.keep, Handled(t, n, u))
<1>1. Unwinding(t, n) = Unwinding(s, n)
  <2>1. n \in 1..n /\ Len(s.cs) \in Nat
    BY SkeletonType DEF Under
  <2> QED  BY <2>1, SameUnwinding
<1>2. a.phase = Phase(s.ci[n], u) /\ a.keep = Keep(s, n, a.phase, u)
  BY <1>1, ActFields
<1> DEFINE ph == Phase(t.ci[n], u)
<1>3. ph = a.phase /\ ph = Phase(t.ci[n], u)
  BY <1>2
<1> HIDE DEF ph
<1>4. Keep(t, n, ph, u) = Keep(s, n, ph, u)
  <2>1. \A p : Older(t, p) = Older(s, p)
    BY OlderSame
  <2>2. t.ci[n] = s.ci[n]
    OBVIOUS
  <2>3. ph \in {"caught", "block", "leave", "run"}
    BY <1>3 DEF Phase
  <2> QED  BY ONLY <2>1, <2>2, <2>3 DEF Keep
<1>5. ActivationOf(t, n) = Became(ActivationOf(s, n), ph, Keep(t, n, ph, u), Handled(t, n, u))
  BY <1>3, TopIs
<1> QED  BY <1>2, <1>3, <1>4, <1>5

(* two states with the same meaning *)
Same(s, t) == Activations(t) = Activations(s) /\ Pending(t) = Pending(s)

(* A running frame goes on running, whatever it does above its base. *)
LEMMA SameMeaning ==
  ASSUME NEW s, NEW d, Base(s, d), NEW t, NEW n, n = Len(s.ci), Len(t.ci) = n,
         Alive(s), Alive(t), Under(s, t, n), Idle(s, n), Idle(t, n), t.tbclist = s.tbclist,
         \A a \in 1..Len(s.tbclist) : t.stack[s.tbclist[a]] = s.stack[s.tbclist[a]]
  PROVE  Same(s, t)
<1>1. Skeleton(s, d) /\ n \in Nat
  BY BaseType DEF Base
<1>2. ActivationOf(t, n) = ActivationOf(s, n)
  BY <1>1, IdleStays
<1>3. Activations(t) = Activations(s)
  BY <1>1, <1>2, ActsStay
<1>4. Pending(t) = Pending(s)
  BY AreSorted, PendingStays
<1> QED  BY <1>3, <1>4 DEF Same

(* An activation with its own phase. *)
LEMMA ActItself ==
  ASSUME NEW s, NEW n, NEW a, a = ActivationOf(s, n)
  PROVE  \E e : a = Became(a, a.phase, a.keep, e)
<1>1. \E x1, x2, x3, x4, x5, x6 : a = Act(x1, x2, x3, x4, x5, x6)
  <2> DEFINE v == Unwinding(s, n)
             ph == Phase(s.ci[n], v)
  <2>1. a = Act(s.ci[n].args, n > 1 /\ ProtectedCall(s, n), Older(s, s.ci[n].func), ph,
                Keep(s, n, ph, v), Handled(s, n, v))
    BY DEF ActivationOf, Act
  <2> HIDE DEF v, ph
  <2> QED  BY ONLY <2>1
<1>2. PICK x1, x2, x3, x4, x5, x6 : a = Act(x1, x2, x3, x4, x5, x6)
  BY <1>1
<1>3. /\ Became(Act(x1, x2, x3, x4, x5, x6), x4, x5, x6) = Act(x1, x2, x3, x4, x5, x6)
      /\ Act(x1, x2, x3, x4, x5, x6).phase = x4 /\ Act(x1, x2, x3, x4, x5, x6).keep = x5
      /\ Act(x1, x2, x3, x4, x5, x6).err = x6
  BY ONLY ActExcept
<1> QED  BY ONLY <1>2, <1>3

(* The activations of s are like themselves, if its last frame protects nothing. *)
LEMMA LikeSelf ==
  ASSUME NEW s, NEW n, n = Len(s.ci), n \in Nat, n > 0, Alive(s), ~Protecting(s, n)
  PROVE  Like(s, Activations(s), n)
<1> DEFINE al == Activations(s)
           a == ActivationOf(s, n)
<1>1. IsList(al, n) /\ Len(al) = n /\ \A i \in 1..n : al[i] = ActivationOf(s, i)
  BY ActsAre
<1>2. a = ActivationOf(s, n) /\ al[n] = a
  BY <1>1
<1> HIDE DEF al, a
<1>3. \E e : al[n] = Became(a, a.phase, a.keep, e)
  <2>1. \E e : a = Became(a, a.phase, a.keep, e)
    BY <1>2, ActItself
  <2> QED  BY <1>2, <2>1
<1> QED  BY <1>1, <1>3 DEF Like, al, a

(* Activations are like those of s if they are like those of a state below it. *)
LEMMA LikeKept ==
  ASSUME NEW s, NEW d, Skeleton(s, d), NEW al, NEW n, Like(s, al, n),
         NEW t, Len(t.ci) = n, Under(s, t, n), SameHandlers(s, t, n), t.ci[n] = s.ci[n],
         t.tbclist = s.tbclist
  PROVE  Like(t, al, n)
<1> DEFINE a == ActivationOf(s, n)
           b == ActivationOf(t, n)
<1>1. /\ n = Len(s.ci) /\ n \in Nat /\ n > 0 /\ Len(al) \in Nat /\ IsList(al, Len(al))
      /\ n <= Len(al) /\ \A i \in 1..(n - 1) : al[i] = ActivationOf(s, i)
      /\ \E e : al[n] = Became(a, a.phase, a.keep, e)
  BY DEF Like
<1>2. \A i \in 1..(n - 1) : ActivationOf(t, i) = ActivationOf(s, i)
  BY Below
<1>3. \E e : al[n] = Became(b, b.phase, b.keep, e)
  <2> DEFINE u == Unwinding(t, n)
             h == Handled(t, n, u)
  <2>1. b = Became(a, a.phase, a.keep, h)
    <3>1. u = Unwinding(t, n) /\ a = ActivationOf(s, n)
      OBVIOUS
    <3> HIDE DEF u, a
    <3> QED  BY <3>1, OnlyErr
  <2> HIDE DEF h
  <2>2. ButErr(a, b)
    BY <2>1, ErrOnly
  <2> HIDE DEF a, b
  <2>3. PICK e : al[n] = Became(a, a.phase, a.keep, e)
    BY <1>1
  <2>4. al[n] = Became(b, b.phase, b.keep, e)
    BY ONLY <2>2, <2>3 DEF ButErr
  <2> QED  BY <2>4
<1>4. Handlers(t, "pcall", n) = Handlers(s, "pcall", n)
      /\ \A j \in Handlers(s, "pcall", n) : t.cs[j] = s.cs[j]
  BY <1>1 DEF SameHandlers, Protected
<1>5. Protecting(t, n) <=> Protecting(s, n)
  BY <1>4 DEF Protecting
<1>6. \A p : TbcFrom(t, p) <=> TbcFrom(s, p)
  BY OlderSame
<1> HIDE DEF a, b
<1>7. Len(al) = IF Protecting(t, n) THEN n + 1 ELSE n
  BY <1>5 DEF Like
<1>8. Protecting(t, n) => /\ al[n + 1].protected /\ al[n + 1].phase = "run"
                          /\ al[n + 1].first = Len(t.tbclist)
                          /\ t.ci[n].ypcall => ~TbcFrom(t, t.ci[n].u2)
                          /\ \A j \in Handlers(t, "pcall", n) : ~TbcFrom(t, t.cs[j].level)
  BY <1>4, <1>5, <1>6 DEF Like
<1> QED  BY <1>1, <1>2, <1>3, <1>7, <1>8 DEF Like, b

-----------------------------------------------------------------------------
(* Calls *)

(* An error raised in a state, with its value pushed. *)
LEMMA FailMeans ==
  ASSUME NEW s, NEW d, Base(s, d), ~NestedClose, s.status = "ok",
         NEW m \in Nat, m = Len(s.cs), m > 0, s.cs[m].t # "reset",
         NEW n, n = Len(s.ci), d[m] = n, NEW al, Like(s, al, n), NEW e \in Error
  PROVE  ErrorMeant(s, runerror(s, e), al, e)
<1> DEFINE t == PushStack(s, <<e>>)
<1>1. s \in State /\ Len(s.stack) \in Nat /\ n \in Nat /\ n > 0 /\ Skeleton(s, d)
      /\ s.ci[n].func \in Nat /\ s.ci[n].func <= Len(s.stack) /\ s.tbclist \in Seq(Nat)
  <2>1. s \in State /\ Len(s.stack) \in Nat /\ n \in Nat /\ n > 0 /\ Skeleton(s, d)
        /\ \A i \in 1..Len(s.ci) : s.ci[i].func \in 1..Len(s.stack)
    BY BaseType DEF Base
  <2>2. n \in 1..Len(s.ci)
    BY <2>1
  <2> QED  BY <2>1, <2>2, StateType
<1>2. Grown(s, t, <<e>>)
  <2>1. <<e>> \in Seq(StackValue)
    BY DEF StackValue, ErrorValue
  <2> QED  BY <1>1, <2>1, PushStackIs
<1> HIDE DEF t
<1>3. /\ t \in State /\ t.ci = s.ci /\ t.cs = s.cs /\ t.tbclist = s.tbclist /\ t.status = "ok"
      /\ Len(t.stack) = Len(s.stack) + 1 /\ t.stack[Len(s.stack) + 1] = e
      /\ \A p \in 1..Len(s.stack) : t.stack[p] = s.stack[p]
  <2>1. /\ t \in State /\ t.ci = s.ci /\ t.cs = s.cs /\ t.tbclist = s.tbclist
        /\ t.status = s.status /\ Len(t.stack) = Len(s.stack) + Len(<<e>>)
        /\ (\A p \in 1..Len(s.stack) : t.stack[p] = s.stack[p])
        /\ \A p \in 1..Len(<<e>>) : t.stack[Len(s.stack) + p] = <<e>>[p]
    BY <1>2 DEF Grown, SameCounts
  <2> QED  BY <2>1
<1>4. Base(t, d)
  <2>1. Len(t.stack) >= Len(s.stack)
    BY <1>1, <1>3
  <2> QED  BY <1>3, <2>1, Grow
<1>5. Under(s, t, n) /\ SameHandlers(s, t, n) /\ SameHandlers(s, t, n - 1)
  <2>1. n \in 1..n /\ \A p \in 1..(s.ci[n].func - 1) : p \in 1..Len(s.stack)
    BY <1>1
  <2>2. \A i, by : Handlers(t, by, i) = Handlers(s, by, i)
    BY <1>3 DEF Handlers
  <2>3. SameHandlers(s, t, n) /\ SameHandlers(s, t, n - 1)
    BY <1>3, <2>2 DEF SameHandlers
  <2>4. \A p : Older(t, p) = Older(s, p)
    BY <1>3, OlderSame
  <2> QED  BY <1>3, <2>1, <2>3, <2>4 DEF Under
<1>6. Like(t, al, n)
  BY <1>1, <1>3, <1>5, LikeKept
<1>7. ErrorMeant(t, throw(t, "run"), al, ErrorObject(t, "run"))
  <2>1. "run" \in ErrorStatus /\ m = Len(t.cs) /\ t.cs[m].t # "reset" /\ n = Len(t.ci)
    BY <1>3 DEF ErrorStatus
  <2> QED  BY <1>3, <1>4, <1>6, <2>1, ErrorMeans
<1>8. ErrorObject(t, "run") = e
  <2>1. t.stack \in Seq(StackValue) /\ t.stack # <<>>
    BY <1>1, <1>3, StateType, EmptySeq
  <2>2. Last(t.stack) = t.stack[Len(t.stack)]
    BY <2>1, FrontLast
  <2> QED  BY <1>3, <2>2 DEF ErrorObject
<1>9. Pending(t) = Pending(s)
  BY <1>3, PendingKept
<1> QED  BY <1>7, <1>8, <1>9 DEF ErrorMeant, runerror, t

(* A memory error. *)
LEMMA NoMemoryMeans ==
  ASSUME NEW s, NEW d, Base(s, d), ~NestedClose, s.status = "ok",
         NEW m \in Nat, m = Len(s.cs), m > 0, s.cs[m].t # "reset",
         NEW n, n = Len(s.ci), d[m] = n, NEW al, Like(s, al, n)
  PROVE  ErrorMeant(s, throw(s, "mem"), al, "mem")
<1>1. "mem" \in ErrorStatus
  BY DEF ErrorStatus
<1>2. ErrorObject(s, "mem") = "mem"
  BY DEF ErrorObject
<1>3. ErrorMeant(s, throw(s, "mem"), al, ErrorObject(s, "mem"))
  BY <1>1, ErrorMeans
<1> QED  BY <1>2, <1>3

(* the arguments of the function at func *)
ArgsAt(s, func) == SubSeq(s.stack, func + 1, Len(s.stack))

(* t is s with one more frame, for the function at func *)
Called(s, t, n, func) ==
  /\ t.stack = s.stack /\ t.tbclist = s.tbclist /\ t.status = "ok"
  /\ Len(t.ci) = n + 1 /\ \A i \in 1..n : t.ci[i] = s.ci[i]
  /\ t.ci[n + 1].func = func /\ t.ci[n + 1].args = ArgsAt(s, func)
     /\ t.ci[n + 1].pc = "run" /\ ~t.ci[n + 1].clsret /\ ~t.ci[n + 1].ypcall
  /\ SameHandlers(s, t, n) /\ \A by \in Protected : Handlers(t, by, n + 1) = {}

(* More C functions that are no handlers. *)
LEMMA NotHandled ==
  ASSUME NEW s, NEW d, Skeleton(s, d), NEW t, Len(t.cs) \in Nat, Len(s.cs) <= Len(t.cs),
         \A j \in 1..Len(s.cs) : t.cs[j] = s.cs[j],
         \A j \in (Len(s.cs) + 1)..Len(t.cs) : t.cs[j].t # "try"
  PROVE  /\ SameHandlers(s, t, Len(s.ci))
         /\ \A by \in Protected : Handlers(t, by, Len(s.ci) + 1) = {}
<1> DEFINE k == Len(s.cs)
           n == Len(s.ci)
<1>1. k \in Nat /\ n \in Nat
  BY SkeletonType
<1>2. SameHandlers(s, t, n)
  <2>1. \A j \in (k + 1)..Len(s.cs) : Try(s.cs[j], Protected) => ~(s.cs[j].ci \in 1..n)
    BY <1>1
  <2>2. \A j \in (k + 1)..Len(t.cs) : Try(t.cs[j], Protected) => ~(t.cs[j].ci \in 1..n)
    BY DEF Try
  <2>3. Len(s.cs) \in Nat /\ k <= Len(s.cs) /\ k <= Len(t.cs) /\ \A j \in 1..k : t.cs[j] = s.cs[j]
    BY <1>1
  <2> HIDE DEF k, n
  <2> QED  BY <1>1, <2>1, <2>2, <2>3, HandlersCut
<1>3. ASSUME NEW by \in Protected, NEW j \in Handlers(t, by, n + 1)  PROVE FALSE
  <2>1. j \in 1..Len(t.cs) /\ t.cs[j].t = "try" /\ t.cs[j].by = by /\ t.cs[j].ci = n + 1
    BY <1>3 DEF Handlers
  <2>2. j \in 1..k
    BY <1>1, <2>1
  <2>3. j \in Handlers(s, by, n + 1)
    BY <2>1, <2>2 DEF Handlers
  <2>4. n + 1 \in 1..n
    BY <2>3, HandlerIs
  <2> QED  BY <1>1, <2>4
<1> QED  BY <1>2, <1>3

(* lauD_precall calls the function, or has no room to. *)
LEMMA PrecallMeans ==
  ASSUME NEW s, NEW d, NEW m, NEW n, NEW func, NEW want, MayCall(s, d, m, n, func, want),
         ~NestedClose, NEW kind \in {"Lau", "C"}, NEW fresh \in BOOLEAN, s.cs[m].t # "reset",
         NEW al, Like(s, al, n)
  PROVE  LET t == precall(s, func, want, kind, fresh)
         IN  Called(s, t, n, func) \/ (ErrorMeant(s, t, al, message) /\ n = MaxFrames)
<1> DEFINE g == Frame(kind, func, want, fresh, SubSeq(s.stack, func + 1, Len(s.stack)))
           c == [s EXCEPT !.ci = Append(@, g)]
           t == precall(s, func, want, kind, fresh)
<1>1. /\ Base(s, d) /\ Skeleton(s, d) /\ s.status = "ok" /\ m \in Nat /\ m = Len(s.cs) /\ m > 0
      /\ n \in Nat /\ n = Len(s.ci) /\ d[m] = n /\ s \in State /\ func \in Nat
      /\ func <= Len(s.stack) /\ want \in {0, 1, MULTRET}
  BY BaseType DEF MayCall, Base
<1>2. CASE n = MaxFrames
  <2>1. ErrorMeant(s, runerror(s, message), al, message)
    BY <1>1, Bounds, FailMeans
  <2>2. t = runerror(s, message)
    BY <1>1, <1>2 DEF precall
  <2> QED  BY <1>2, <2>1, <2>2
<1>3. CASE n # MaxFrames
  <2>1. \/ t = PushC(c, [t |-> "cfn"]) \/ t = PushC(c, [t |-> "exec"]) \/ t = c
    BY <1>1, <1>3 DEF precall
  <2>2. g.func = func /\ g.args = SubSeq(s.stack, func + 1, Len(s.stack))
        /\ g.pc = "run" /\ ~g.clsret /\ ~g.ypcall
    BY DEF Frame
  <2>3. g \in CallInfo
    <3>1. SubSeq(s.stack, func + 1, Len(s.stack)) \in Seq(StackValue)
      <4>1. s.stack \in Seq(StackValue) /\ Len(s.stack) \in Nat
            /\ \A i \in 1..Len(s.stack) : s.stack[i] \in StackValue
        BY <1>1, StateType
      <4>2. \A i \in (func + 1)..Len(s.stack) : i \in 1..Len(s.stack)
        BY <1>1, <4>1
      <4>3. \A i \in (func + 1)..Len(s.stack) : s.stack[i] \in StackValue
        BY <4>1, <4>2
      <4>4. func + 1 \in 1..(Len(s.stack) + 1) /\ Len(s.stack) \in func..Len(s.stack)
        BY <1>1, <4>1
      <4> QED  BY <4>1, <4>3, <4>4, SubSeqProperties
    <3> QED  BY <1>1, <3>1 DEF Frame, CallInfo
  <2> HIDE DEF g
  <2>4. /\ c \in State /\ c.ci = Append(s.ci, g) /\ c.stack = s.stack /\ c.cs = s.cs
        /\ c.tbclist = s.tbclist /\ c.status = "ok"
    <3>1. Append(s.ci, g) \in Seq(CallInfo)
      BY <1>1, <2>3, StateType, AppendProperties
    <3> QED  BY <1>1, <3>1 DEF State
  <2>5. Len(c.ci) = n + 1 /\ c.ci[n + 1] = g /\ \A i \in 1..n : c.ci[i] = s.ci[i]
    BY <1>1, <2>3, <2>4, StateType, AppendProperties
  <2> HIDE DEF c, t
  <2>6. /\ t.ci = c.ci /\ t.stack = c.stack /\ t.tbclist = c.tbclist /\ t.status = c.status
        /\ Len(t.cs) \in Nat /\ Len(c.cs) <= Len(t.cs)
        /\ (\A j \in 1..Len(c.cs) : t.cs[j] = c.cs[j])
        /\ \A j \in (Len(c.cs) + 1)..Len(t.cs) : t.cs[j].t # "try"
    <3>1. ASSUME NEW e \in PlainC, t = PushC(c, e)
          PROVE  /\ t.ci = c.ci /\ t.stack = c.stack /\ t.tbclist = c.tbclist
                 /\ t.status = c.status /\ Len(t.cs) = m + 1 /\ t.cs[m + 1] = e
                 /\ \A j \in 1..m : t.cs[j] = c.cs[j]
      <4>1. e \in CFunction
        BY DEF CFunction
      <4>2. Pushed(c, t, e)
        BY <2>4, <3>1, <4>1, PushCIs
      <4> QED  BY <1>1, <2>4, <4>2 DEF Pushed, SameCounts
    <3>2. ASSUME NEW e \in PlainC, t = PushC(c, e)
          PROVE  <2>6!:
      <4>1. e.t # "try"
        BY DEF PlainC
      <4> QED  BY <1>1, <2>4, <3>1, <3>2, <4>1
    <3>3. [t |-> "cfn"] \in PlainC /\ [t |-> "exec"] \in PlainC
      BY DEF PlainC
    <3>4. CASE t = c
      BY <1>1, <2>4, <3>4
    <3> QED  BY <2>1, <3>2, <3>3, <3>4
  <2>7. SameHandlers(s, t, n) /\ \A by \in Protected : Handlers(t, by, n + 1) = {}
    <3>1. /\ Len(t.cs) \in Nat /\ Len(s.cs) <= Len(t.cs)
          /\ \A j \in 1..Len(s.cs) : t.cs[j] = s.cs[j]
          /\ \A j \in (Len(s.cs) + 1)..Len(t.cs) : t.cs[j].t # "try"
      BY <2>4, <2>6
    <3> QED  BY <1>1, <3>1, NotHandled
  <2>8. Called(s, t, n, func)
    BY <2>2, <2>4, <2>5, <2>6, <2>7 DEF Called, ArgsAt
  <2> QED  BY <2>8 DEF t
<1> QED  BY <1>2, <1>3

(* ccall too. *)
LEMMA CcallMeans ==
  ASSUME NEW s, NEW d, NEW m, NEW n, NEW func, NEW want, MayCall(s, d, m, n, func, want),
         ~NestedClose, NEW kind \in {"Lau", "C"}, NEW inc \in {0, 1}, NEW y \in {0, 1}, y <= inc,
         CallsNext(s.cs[m], [t |-> "ccall", inc |-> inc, y |-> y]),
         s.cs[m].t = "exec" => TakesResult(s.ci[n]),
         s.cs[m].t = "cfn" => (y = 1 \/ s.ci[n].k) /\ s.ci[n].pc # "top",
         NEW al, Like(s, al, n)
  PROVE  LET t == ccall(s, func, want, inc, y, kind)
         IN  Called(s, t, n, func)
             \/ (ErrorMeant(s, t, al, message)
                 /\ (inc > 0 \/ n = MaxFrames \/ s.nc = MaxCcalls))
<1> DEFINE e == [t |-> "ccall", inc |-> inc, y |-> y]
           b == PushC([s EXCEPT !.nc = @ + inc, !.nny = @ + y], e)
           t == ccall(s, func, want, inc, y, kind)
           k == m + 1
           fresh == (kind = "Lau")
<1>1. t = IF b.nc = MaxCcalls THEN runerror(b, message) ELSE precall(b, func, want, kind, fresh)
  BY DEF ccall
<1>2. e = [t |-> "ccall", inc |-> inc, y |-> y] /\ e.t = "ccall" /\ CallsNext(s.cs[m], e)
      /\ fresh \in BOOLEAN
  OBVIOUS
<1> HIDE DEF e
<1>3. \E c : CallCounted(s, b, c, m, n, func, want, e)
  <2>1. e = [t |-> "ccall", inc |-> inc, y |-> y]
    BY ONLY <1>2
  <2>2. CallsNext(s.cs[m], e)
    BY ONLY <1>2
  <2>3. \E c : CallCounted(s, PushC([s EXCEPT !.nc = @ + inc, !.nny = @ + y], e), c, m, n, func,
                           want, e)
    BY <2>1, <2>2, CountsCall, ZenonT(30)
  <2> QED  BY ONLY <2>3 DEF b
<1> HIDE DEF b, t, fresh
<1>4. PICK c : CallCounted(s, b, c, m, n, func, want, e)
  BY <1>3
<1>5. /\ Base(b, c) /\ c[k] = n
      /\ b \in State /\ b.ci = s.ci /\ b.stack = s.stack /\ b.tbclist = s.tbclist /\ b.status = "ok"
      /\ Len(b.cs) = k /\ b.cs[k] = e /\ \A j \in 1..m : b.cs[j] = s.cs[j]
      /\ b.nc # MaxCcalls => MayCall(b, c, k, n, func, want)
  BY <1>4 DEF CallCounted
<1>6. /\ Base(s, d) /\ Skeleton(s, d) /\ s \in State /\ m \in Nat /\ m > 0 /\ m = Len(s.cs)
      /\ n \in Nat /\ n > 0 /\ n = Len(s.ci) /\ k \in Nat /\ k > 0 /\ k = m + 1
  <2>1. Base(s, d) /\ m \in Nat /\ m > 0 /\ m = Len(s.cs) /\ n = Len(s.ci)
    BY DEF MayCall
  <2>2. Skeleton(s, d) /\ s \in State /\ n \in Nat /\ n > 0
    BY <2>1, BaseType DEF Base
  <2> QED  BY <2>1, <2>2
<1> HIDE DEF k
<1>7. SameHandlers(s, b, n) /\ SameHandlers(s, b, n - 1)
  <2>1. /\ Len(b.cs) \in Nat /\ Len(s.cs) <= Len(b.cs) /\ \A j \in 1..Len(s.cs) : b.cs[j] = s.cs[j]
    BY <1>5, <1>6
  <2>2. \A j \in (Len(s.cs) + 1)..Len(b.cs) : b.cs[j].t # "try"
    <3>1. \A j \in (m + 1)..k : j = k
      BY <1>6
    <3> QED  BY <1>2, <1>5, <1>6, <3>1
  <2>3. SameHandlers(s, b, n)
    BY <1>6, <2>1, <2>2, NotHandled
  <2>4. \A i \in 1..(n - 1) : i \in 1..n
    BY <1>6
  <2> QED  BY <2>3, <2>4 DEF SameHandlers
<1>8. Like(b, al, n)
  <2>1. Under(s, b, n)
    <3>1. n \in 1..Len(s.ci) /\ \A p : Older(b, p) = Older(s, p)
      BY <1>5, <1>6, OlderSame
    <3> QED  BY <1>5, <1>7, <3>1 DEF Under
  <2>2. Len(b.ci) = n /\ b.ci[n] = s.ci[n]
    BY <1>5, <1>6
  <2> QED  BY <1>5, <1>6, <1>7, <2>1, <2>2, LikeKept
<1>9. Pending(b) = Pending(s)
  BY <1>5, <1>6, PendingKept
<1>10. b.nc = s.nc + inc
  <2>1. s.nc \in Nat
    BY <1>6, StateType
  <2> QED  BY <1>6, <2>1 DEF b, PushC, State
<1>11. CASE b.nc = MaxCcalls
  <2>1. b.cs[k].t # "reset" /\ n = Len(b.ci)
    BY <1>2, <1>5, <1>6
  <2>2. message \in Error /\ MaxCcalls \in Nat
    BY Bounds
  <2>3. ErrorMeant(b, runerror(b, message), al, message)
    BY <1>5, <1>6, <1>8, <2>1, <2>2, FailMeans
  <2>4. ErrorMeant(s, t, al, message)
    BY <1>1, <1>9, <1>11, <2>3 DEF ErrorMeant
  <2>5. inc > 0 \/ s.nc = MaxCcalls
    <3>1. s.nc \in Nat
      BY <1>6, StateType
    <3> QED  BY <1>10, <1>11, <3>1
  <2> QED  BY <2>4, <2>5 DEF t
<1>12. CASE b.nc # MaxCcalls
  <2>1. MayCall(b, c, k, n, func, want) /\ b.cs[k].t # "reset"
    BY <1>2, <1>5, <1>12
  <2>2. t = precall(b, func, want, kind, fresh)
    BY <1>1, <1>12
  <2>3. Called(b, t, n, func)
        \/ (ErrorMeant(b, t, al, message) /\ n = MaxFrames)
    <3>1. LET x == precall(b, func, want, kind, fresh)
          IN  Called(b, x, n, func) \/ (ErrorMeant(b, x, al, message) /\ n = MaxFrames)
      BY <1>2, <1>8, <2>1, PrecallMeans
    <3> QED  BY <2>2, <3>1
  <2>4. ASSUME Called(b, t, n, func)  PROVE Called(s, t, n, func)
    <3>1. SameHandlers(s, t, n)
      BY <1>7, <2>4 DEF SameHandlers, Called
    <3> QED  BY <1>5, <2>4, <3>1 DEF Called, ArgsAt
  <2>5. ErrorMeant(b, t, al, message) => ErrorMeant(s, t, al, message)
    BY <1>9 DEF ErrorMeant
  <2> QED  BY <2>3, <2>4, <2>5 DEF t
<1> QED  BY <1>11, <1>12

(* The activation of the function called. *)
LEMMA NewActivation ==
  ASSUME NEW s, NEW d, Base(s, d), NEW n, n = Len(s.ci), NEW func \in Nat,
         \A a \in 1..Len(s.tbclist) : s.tbclist[a] < func,
         NEW t, Called(s, t, n, func)
  PROVE  \E p \in BOOLEAN : /\ p <=> Protecting(s, n)
                            /\ ActivationOf(t, n + 1)
                                 = Act(ArgsAt(s, func), p, Len(s.tbclist), "run", 0, <<>>)
<1> DEFINE g == t.ci[n + 1]
           args == ArgsAt(s, func)
           P == n + 1 > 1 /\ ProtectedCall(t, n + 1)
<1>1. n \in Nat /\ n > 0 /\ Sorted(s) /\ n + 1 > 1 /\ n + 1 - 1 = n /\ n \in 1..n
      /\ Len(s.tbclist) \in Nat
  BY BaseType, AreSorted
<1>2. /\ t.stack = s.stack /\ t.tbclist = s.tbclist /\ t.status = "ok"
      /\ \A i \in 1..n : t.ci[i] = s.ci[i]
      /\ g.func = func /\ g.args = args /\ g.pc = "run" /\ ~g.clsret /\ ~g.ypcall
      /\ SameHandlers(s, t, n) /\ \A by \in Protected : Handlers(t, by, n + 1) = {}
  BY DEF Called
<1>3. P <=> Protecting(s, n)
  <2>1. t.ci[n] = s.ci[n] /\ Handlers(t, "pcall", n) = Handlers(s, "pcall", n)
    BY <1>1, <1>2 DEF SameHandlers, Protected
  <2> QED  BY <1>1, <2>1 DEF ProtectedCall, Protecting
<1>4. Unwinding(t, n + 1) = NoUnwinding
  BY <1>2 DEF Unwinding, Protected
<1>5. Phase(g, NoUnwinding) = "run"
  BY <1>2 DEF Phase
<1>6. Keep(t, n + 1, "run", NoUnwinding) = 0 /\ Handled(t, n + 1, NoUnwinding) = <<>>
  BY DEF Keep, Handled, NoUnwinding
<1>7. Older(t, func) = Len(s.tbclist)
  <2>1. ~TbcFrom(s, func)
    <3> SUFFICES ASSUME NEW i \in 1..Len(s.tbclist), s.tbclist[i] >= func  PROVE FALSE
      BY DEF TbcFrom
    <3>1. s.tbclist[i] < func /\ s.tbclist[i] \in Nat
      BY <1>1 DEF Sorted
    <3> QED  BY <3>1
  <2>2. Older(s, func) = Len(s.tbclist)
    BY <1>1, <2>1, OlderAll
  <2> QED  BY <1>2, <2>2, OlderSame
<1>8. ActivationOf(t, n + 1) = Act(args, P, Len(s.tbclist), "run", 0, <<>>)
  <2>1. ActivationOf(t, n + 1)
          = [args |-> g.args, protected |-> P, first |-> Older(t, g.func), phase |-> "run",
             keep |-> 0, err |-> <<>>]
    BY <1>4, <1>5, <1>6 DEF ActivationOf
  <2> QED  BY <1>2, <1>7, <2>1 DEF Act
<1>9. P \in BOOLEAN
  OBVIOUS
<1> HIDE DEF P
<1> QED  BY <1>3, <1>8, <1>9

(* A function that runs calls another one. *)
LEMMA IdleCalls ==
  ASSUME NEW s, NEW d, Base(s, d), NEW n, n = Len(s.ci), NEW func \in Nat, Alive(s), Idle(s, n),
         \A a \in 1..Len(s.tbclist) : s.tbclist[a] < func,
         NEW t, Called(s, t, n, func)
  PROVE  /\ Pending(t) = Pending(s)
         /\ \E p \in BOOLEAN : /\ p <=> Protecting(s, n)
                               /\ Activations(t) = Append(Activations(s),
                                                     Act(ArgsAt(s, func), p, Len(s.tbclist), "run", 0, <<>>))
<1>1. n \in Nat /\ n > 0 /\ Skeleton(s, d) /\ n \in 1..n /\ Sorted(s) /\ Len(s.cs) \in Nat
  BY BaseType, AreSorted DEF Base
<1>2. /\ t.stack = s.stack /\ t.tbclist = s.tbclist /\ t.status = "ok" /\ Len(t.ci) = n + 1
      /\ \A i \in 1..n : t.ci[i] = s.ci[i]
      /\ SameHandlers(s, t, n)
  BY DEF Called
<1>3. Under(s, t, n)
  <2>1. SameHandlers(s, t, n - 1)
    <3>1. \A i \in 1..(n - 1) : i \in 1..n
      BY <1>1
    <3> QED  BY <1>2, <3>1 DEF SameHandlers
  <2>2. n \in 1..Len(t.ci) /\ (\A p : Older(t, p) = Older(s, p))
        /\ \A i \in 1..(n - 1) : i \in 1..n
    BY <1>1, <1>2, OlderSame
  <2> QED  BY <1>1, <1>2, <2>1, <2>2 DEF Under
<1>4. Idle(t, n)
  <2>1. t.ci[n] = s.ci[n]
    BY <1>1, <1>2
  <2>2. Unwinding(t, n) = Unwinding(s, n)
    BY <1>1, <1>2, <2>1, SameUnwinding
  <2> QED  BY <2>1, <2>2 DEF Idle
<1>5. ActivationOf(t, n) = ActivationOf(s, n)
  BY <1>1, <1>3, <1>4, IdleStays
<1>6. Activations(t) = Append(Activations(s), ActivationOf(t, n + 1))
  <2>1. Alive(t)
    BY <1>2 DEF Alive, ErrorStatus
  <2> QED  BY <1>1, <1>2, <1>3, <1>5, <2>1, ActsAppend
<1>7. Pending(t) = Pending(s)
  BY <1>1, <1>2, PendingStays
<1>8. \E p \in BOOLEAN : /\ p <=> Protecting(s, n)
                         /\ ActivationOf(t, n + 1)
                              = Act(ArgsAt(s, func), p, Len(s.tbclist), "run", 0, <<>>)
  <2>1. Base(s, d) /\ n = Len(s.ci) /\ func \in Nat /\ Called(s, t, n, func)
        /\ \A a \in 1..Len(s.tbclist) : s.tbclist[a] < func
    OBVIOUS
  <2> QED  BY ONLY <2>1, NewActivation
<1> QED  BY <1>6, <1>7, <1>8

-----------------------------------------------------------------------------
(* Calls by a function of the program *)

(* No handler belongs to the frame of a function of the program that is in control. *)
LEMMA Unhandled ==
  ASSUME NEW s, NEW d, NEW m, NEW n, Running(s, d, m, n), ~NestedClose
  PROVE  /\ \A by \in Protected : Handlers(s, by, n) = {}
         /\ Base(s, d) /\ Skeleton(s, d) /\ s \in State /\ s.status = "ok" /\ Alive(s)
         /\ m \in Nat /\ m > 0 /\ m = Len(s.cs) /\ n \in Nat /\ n > 1 /\ n = Len(s.ci)
         /\ d[m] = n /\ n \in 1..n /\ s.ci[n] \in CallInfo /\ s.cs[m].t # "reset"
         /\ ~s.ci[n].clsret /\ s.ci[n].recst = "ok"
<1>1. /\ Base(s, d) /\ s \in State /\ s.status = "ok"
      /\ m \in Nat /\ m > 0 /\ m = Len(s.cs) /\ n \in Nat /\ n > 1 /\ n = Len(s.ci)
      /\ d[m] = n /\ n \in 1..n /\ s.ci[n] \in CallInfo
      /\ ~s.ci[n].clsret /\ s.ci[n].recst = "ok" /\ s.cs[m].t \in {"exec", "cfn"}
  BY DEF Running, InControl
<1>2. Skeleton(s, d) /\ Alive(s)
  BY <1>1 DEF Base, Alive, ErrorStatus
<1>3. s.cs[m].t # "try" /\ s.cs[m].t # "ccall" /\ ~Closing(s.cs[m], {"closep"})
  BY <1>1 DEF Closing
<1>4. Handlers(s, "closep", n) = {} /\ Handlers(s, "pcall", n) = {}
  BY <1>1, <1>2, <1>3, NoHandlers
<1> QED  BY <1>1, <1>2, <1>4 DEF Protected

(* Such a frame is idle while it runs or calls. *)
LEMMA RunningIsIdle ==
  ASSUME NEW s, NEW n, \A by \in Protected : Handlers(s, by, n) = {}, s.ci[n].recst = "ok",
         ~s.ci[n].clsret, s.ci[n].pc \in {"run", "call", "index", "add"}
  PROVE  Idle(s, n) /\ (Protecting(s, n) <=> s.ci[n].ypcall)
BY DEF Idle, Protecting, Unwinding, Protected

(* a function of the program has pushed the function that it calls *)
Pushing(s, t, d, m, n, g) ==
  /\ Same(s, t) /\ Base(t, d) /\ Idle(t, n) /\ (Protecting(t, n) <=> g.ypcall)
  /\ n = Len(t.ci) /\ n \in Nat /\ n > 1 /\ m = Len(t.cs) /\ m \in Nat /\ m > 0
  /\ t \in State /\ t.status = "ok" /\ Alive(t) /\ t.cs = s.cs /\ t.ci[n] = g
  /\ Len(s.tbclist) = Len(t.tbclist)
  /\ Len(t.stack) \in Nat /\ Len(t.stack) = Len(s.stack) + 1
  /\ \A a \in 1..Len(t.tbclist) : t.tbclist[a] < Len(t.stack)

(* A function that is going to call another pushes it, and nothing else shows. *)
LEMMA PushesIs ==
  ASSUME NEW s, NEW d, NEW m, NEW n, Running(s, d, m, n), ~NestedClose, s.ci[n].pc = "run",
         NEW g, NewInfo(s, n, g), g.pc \in {"call", "index", "add"}, g.args = s.ci[n].args,
         ~s.ci[n].ypcall
  PROVE  Pushing(s, PushStack(SetCI(s, g), <<"func">>), d, m, n, g)
<1> DEFINE b == SetCI(s, g)
           t == PushStack(b, <<"func">>)
<1>1. /\ \A by \in Protected : Handlers(s, by, n) = {}
      /\ Base(s, d) /\ Skeleton(s, d) /\ s \in State /\ s.status = "ok" /\ Alive(s)
      /\ m \in Nat /\ m > 0 /\ m = Len(s.cs) /\ n \in Nat /\ n > 1 /\ n = Len(s.ci)
      /\ n \in 1..n /\ ~s.ci[n].clsret /\ s.ci[n].recst = "ok"
  BY Unhandled
<1>2. Framed(s, b, g) /\ Base(b, d)
  BY SetRunning
<1>3. Grown(b, t, <<"func">>)
  <2>1. <<"func">> \in Seq(StackValue)
    BY DEF StackValue
  <2>2. b \in State
    BY <1>2 DEF Framed
  <2> QED  BY <2>1, <2>2, PushStackIs
<1> HIDE DEF t, b
<1>4. /\ t \in State /\ t.cs = s.cs /\ t.tbclist = s.tbclist /\ t.status = "ok"
      /\ Len(t.ci) = n /\ t.ci[n] = g /\ (\A i \in 1..(n - 1) : t.ci[i] = s.ci[i])
      /\ Len(t.stack) = Len(s.stack) + 1
      /\ \A p \in 1..Len(s.stack) : t.stack[p] = s.stack[p]
  <2>1. /\ t \in State /\ t.ci = b.ci /\ t.cs = b.cs /\ t.tbclist = b.tbclist /\ t.status = b.status
        /\ Len(t.stack) = Len(b.stack) + 1
        /\ \A p \in 1..Len(b.stack) : t.stack[p] = b.stack[p]
    BY <1>3 DEF Grown, SameCounts
  <2>2. /\ b.stack = s.stack /\ b.cs = s.cs /\ b.tbclist = s.tbclist /\ b.status = s.status
        /\ Len(b.ci) = n /\ b.ci[n] = g /\ \A i \in 1..(n - 1) : b.ci[i] = s.ci[i]
    BY <1>1, <1>2 DEF Framed, SameCounts
  <2> QED  BY <1>1, <2>1, <2>2
<1>5. Len(s.stack) \in Nat /\ s.ci[n].func \in 1..Len(s.stack)
  <2>1. Len(s.stack) \in Nat /\ \A i \in 1..Len(s.ci) : s.ci[i].func \in 1..Len(s.stack)
    BY <1>1, BaseType
  <2> QED  BY <1>1, <2>1
<1>6. Base(t, d)
  <2>1. t.ci = b.ci /\ t.cs = b.cs /\ t.tbclist = b.tbclist /\ t.status = b.status /\ t \in State
        /\ Len(t.stack) = Len(b.stack) + 1 /\ \A p \in 1..Len(b.stack) : t.stack[p] = b.stack[p]
    BY <1>3 DEF Grown, SameCounts
  <2>2. Len(t.stack) >= Len(b.stack)
    <3>1. Len(b.stack) \in Nat
      BY <1>2, BaseType
    <3> QED  BY <2>1, <3>1
  <2> QED  BY <1>2, <2>1, <2>2, Grow
<1>7. \A i, by : Handlers(t, by, i) = Handlers(s, by, i)
  BY <1>4 DEF Handlers
<1>8. g.recst = "ok" /\ ~g.clsret /\ g.func = s.ci[n].func /\ g.args = s.ci[n].args
  BY DEF NewInfo
<1>9. Idle(t, n) /\ (Protecting(t, n) <=> g.ypcall)
  BY <1>1, <1>4, <1>7, <1>8, RunningIsIdle
<1>10. Idle(s, n)
  BY <1>1, RunningIsIdle
<1>11. Under(s, t, n)
  <2>1. SameHandlers(s, t, n - 1)
    BY <1>4, <1>7 DEF SameHandlers
  <2>2. \A p : Older(t, p) = Older(s, p)
    BY <1>4, OlderSame
  <2>3. \A p \in 1..(s.ci[n].func - 1) : p \in 1..Len(s.stack)
    BY <1>5
  <2> QED  BY <1>1, <1>4, <1>8, <2>1, <2>2, <2>3 DEF Under
<1>12. \A a \in 1..Len(s.tbclist) : s.tbclist[a] \in Nat /\ s.tbclist[a] <= Len(s.stack)
  BY <1>1, VariablesBelow DEF Base
<1>13. Same(s, t)
  <2>1. \A a \in 1..Len(s.tbclist) : s.tbclist[a] \in 1..Len(s.stack)
    <3>1. \A a \in 1..Len(s.tbclist) : s.tbclist[a] > 1
      BY <1>1, VariablesBelow DEF Base
    <3> QED  BY <1>5, <1>12, <3>1
  <2>2. \A a \in 1..Len(s.tbclist) : t.stack[s.tbclist[a]] = s.stack[s.tbclist[a]]
    BY <1>4, <2>1
  <2>3. Alive(t)
    BY <1>4 DEF Alive, ErrorStatus
  <2> QED  BY <1>1, <1>4, <1>9, <1>10, <1>11, <2>2, <2>3, SameMeaning
<1>14. \A a \in 1..Len(t.tbclist) : t.tbclist[a] < Len(t.stack)
  <2>1. \A q \in Nat : q <= Len(s.stack) => q < Len(s.stack) + 1
    BY <1>5
  <2> QED  BY <1>4, <1>12, <2>1
<1>15. Len(t.stack) \in Nat /\ Alive(t)
  BY <1>4, <1>5 DEF Alive, ErrorStatus
<1> QED  BY <1>1, <1>4, <1>6, <1>9, <1>13, <1>14, <1>15 DEF Pushing, t, b

EnterMeant(s, t, p) ==
  /\ Activations(t) = Append(Activations(s), Act(<<>>, p, Len(s.tbclist), "run", 0, <<>>))
  /\ Pending(t) = Pending(s)

(* The function on top of the stack gets no arguments. *)
LEMMA NoArgs ==
  ASSUME NEW s \in State
  PROVE  ArgsAt(s, Len(s.stack)) = <<>>
<1>1. s.stack \in Seq(StackValue) /\ Len(s.stack) \in Nat
  BY StateType
<1> DEFINE l == Len(s.stack)
<1>2. Len(SubSeq(s.stack, l + 1, l)) = 0 /\ SubSeq(s.stack, l + 1, l) \in Seq(StackValue)
  <2>1. l + 1 \in 1..(Len(s.stack) + 1) /\ l \in (l + 1 - 1)..Len(s.stack)
    BY <1>1
  <2>2. \A i \in (l + 1)..l : s.stack[i] \in StackValue
    BY <1>1
  <2> QED  BY <1>1, <2>1, <2>2, SubSeqProperties
<1> QED  BY <1>2, EmptySeq DEF ArgsAt

(* t is s with all that a call needs in place *)
Poised(s, t, d, n, p) ==
  /\ Same(s, t) /\ Base(t, d) /\ Idle(t, n) /\ (Protecting(t, n) <=> p)
  /\ n = Len(t.ci) /\ n \in Nat /\ n > 0 /\ t \in State /\ Alive(t) /\ Len(s.tbclist) = Len(t.tbclist)
  /\ Len(t.stack) \in Nat /\ \A a \in 1..Len(t.tbclist) : t.tbclist[a] < Len(t.stack)

(* A call shows as one. *)
LEMMA CalledMeans ==
  ASSUME NEW s, NEW t, NEW d, NEW n, NEW p \in BOOLEAN, Poised(s, t, d, n, p), NEW x,
         Called(t, x, n, Len(t.stack))
  PROVE  EnterMeant(s, x, p)
<1> USE DEF Poised
<1>1. /\ Pending(x) = Pending(t)
      /\ \E q \in BOOLEAN : /\ q <=> Protecting(t, n)
                            /\ Activations(x) = Append(Activations(t),
                                 Act(ArgsAt(t, Len(t.stack)), q, Len(t.tbclist), "run", 0, <<>>))
  <2> DEFINE func == Len(t.stack)
  <2>1. /\ Base(t, d) /\ n = Len(t.ci) /\ func \in Nat /\ Alive(t) /\ Idle(t, n)
        /\ Called(t, x, n, func)
        /\ \A a \in 1..Len(t.tbclist) : t.tbclist[a] < func
    OBVIOUS
  <2> HIDE DEF func, Poised
  <2>2. /\ Pending(x) = Pending(t)
        /\ \E q \in BOOLEAN : /\ q <=> Protecting(t, n)
                              /\ Activations(x) = Append(Activations(t),
                                   Act(ArgsAt(t, func), q, Len(t.tbclist), "run", 0, <<>>))
    BY ONLY <2>1, IdleCalls
  <2> QED  BY <2>2 DEF func
<1>2. ArgsAt(t, Len(t.stack)) = <<>>
  BY NoArgs
<1>3. PICK q \in BOOLEAN : /\ q <=> Protecting(t, n)
                           /\ Activations(x) = Append(Activations(t),
                                Act(ArgsAt(t, Len(t.stack)), q, Len(t.tbclist), "run", 0, <<>>))
  BY <1>1
<1>4. q = p
  <2>1. (q <=> p) /\ p \in BOOLEAN /\ q \in BOOLEAN
    BY <1>3
  <2> QED  BY ONLY <2>1
<1> QED  BY <1>1, <1>2, <1>3, <1>4 DEF EnterMeant, Same

(* The call shows as one, or as an error. *)
LEMMA CallMeans ==
  ASSUME NEW s, NEW t, NEW d, NEW n, NEW p \in BOOLEAN, Poised(s, t, d, n, p), NEW x,
         NEW al, Called(t, x, n, Len(t.stack)) \/ ErrorMeant(t, x, al, message)
  PROVE  ErrorMeant(s, x, al, message) \/ EnterMeant(s, x, p)
<1>1. CASE ErrorMeant(t, x, al, message)
  BY <1>1 DEF ErrorMeant, Same, Poised
<1>2. CASE Called(t, x, n, Len(t.stack))
  BY <1>2, CalledMeans
<1> QED  BY <1>1, <1>2

-----------------------------------------------------------------------------
(* Functions of the program call others *)

(* the activations while a function is called under protection *)
Attempt(s) == Append(Activations(s), Act(<<>>, TRUE, Len(s.tbclist), "run", 0, <<>>))

(* While the function is called, the activations are those of before or, of a
   protected call, those and one more. *)
LEMMA LikeAttempt ==
  ASSUME NEW s, NEW n, n = Len(s.ci), n \in Nat, n > 0, Alive(s), Protecting(s, n),
         Len(s.tbclist) \in Nat,
         s.ci[n].ypcall => ~TbcFrom(s, s.ci[n].u2),
         \A j \in Handlers(s, "pcall", n) : ~TbcFrom(s, s.cs[j].level)
  PROVE  Like(s, Attempt(s), n)
<1> DEFINE al == Activations(s)
           at == Attempt(s)
           a == ActivationOf(s, n)
           x == Act(<<>>, TRUE, Len(s.tbclist), "run", 0, <<>>)
<1>1. IsList(al, n) /\ Len(al) = n /\ \A i \in 1..n : al[i] = ActivationOf(s, i)
  BY ActsAre
<1>2. at = Append(al, x)
  BY DEF Attempt
<1>3. x.protected /\ x.phase = "run" /\ x.first = Len(s.tbclist)
  BY DEF Act
<1> HIDE DEF al, at, a, x
<1>4. Len(at) = n + 1 /\ at[n + 1] = x /\ (\A i \in 1..n : at[i] = al[i]) /\ IsList(at, n + 1)
  <2>1. PICK S : al \in Seq(S) /\ x \in S
    <3>1. al \in Seq({al[i] : i \in 1..n})
      BY <1>1, Lists
    <3>2. \A i \in 1..Len(al) : al[i] \in {al[j] : j \in 1..n} \cup {x}
      BY <1>1
    <3>3. al \in Seq({al[j] : j \in 1..n} \cup {x})
      BY <3>1, <3>2, SeqDef
    <3> QED  BY <3>3
  <2>2. at \in Seq(S) /\ Len(at) = n + 1 /\ at[n + 1] = x /\ \A i \in 1..n : at[i] = al[i]
    BY <1>1, <1>2, <2>1, AppendProperties
  <2>3. IsList(at, n + 1)
    BY <2>2 DEF IsList
  <2> QED  BY <2>2, <2>3
<1>5. \E e : a = Became(a, a.phase, a.keep, e)
  BY ActItself DEF a
<1>6. at[n] = a
  <2>1. n \in 1..n
    OBVIOUS
  <2> QED  BY <1>1, <1>4, <2>1 DEF a
<1>7. n + 1 \in Nat /\ n <= n + 1 /\ \A i \in 1..(n - 1) : i \in 1..n
  OBVIOUS
<1>8. \A i \in 1..(n - 1) : at[i] = ActivationOf(s, i)
  BY <1>1, <1>4, <1>7
<1>9. \E e : at[n] = Became(a, a.phase, a.keep, e)
  BY <1>5, <1>6
<1>10. /\ Len(at) \in Nat /\ IsList(at, Len(at)) /\ n <= Len(at) /\ Len(at) = n + 1
       /\ at[n + 1].protected /\ at[n + 1].phase = "run" /\ at[n + 1].first = Len(s.tbclist)
  BY <1>3, <1>4, <1>7
<1> QED  BY <1>8, <1>9, <1>10 DEF Like, at, a

AttemptIf(s, p) == IF p THEN Attempt(s) ELSE Activations(s)
CallShown(s, t, p) == EnterMeant(s, t, p) \/ ErrorMeant(s, t, AttemptIf(s, p), message)

(* While the function that was pushed is called, the activations are these. *)
LEMMA PushedLike ==
  ASSUME NEW s, NEW t, NEW d, NEW m, NEW n, NEW g, Pushing(s, t, d, m, n, g),
         g.ypcall => g.u2 = Len(t.stack), Handlers(t, "pcall", n) = {}
  PROVE  Like(t, AttemptIf(s, g.ypcall), n)
<1>1. /\ Activations(t) = Activations(s) /\ Len(s.tbclist) = Len(t.tbclist)
      /\ Protecting(t, n) <=> g.ypcall
      /\ n = Len(t.ci) /\ n \in Nat /\ n > 0 /\ Alive(t) /\ t.ci[n] = g /\ Base(t, d)
  BY DEF Pushing, Same
<1>2. /\ \A a \in 1..Len(t.tbclist) : t.tbclist[a] < Len(t.stack)
      /\ Len(t.stack) \in Nat
  BY DEF Pushing
<1>3. ~TbcFrom(t, Len(t.stack)) /\ Len(t.tbclist) \in Nat
  <2>1. \A a \in 1..Len(t.tbclist) : t.tbclist[a] \in Nat
    BY <1>1, StateType, BaseType
  <2>2. Len(t.tbclist) \in Nat
    BY <1>1, BaseType
  <2>3. \A p, q \in Nat : p < q => ~(p >= q)
    OBVIOUS
  <2> QED  BY <1>2, <2>1, <2>2, <2>3 DEF TbcFrom
<1>4. CASE g.ypcall
  <2>1. Like(t, Attempt(t), n)
    <3>1. Protecting(t, n) /\ (t.ci[n].ypcall => ~TbcFrom(t, t.ci[n].u2))
          /\ \A j \in Handlers(t, "pcall", n) : ~TbcFrom(t, t.cs[j].level)
      BY <1>1, <1>3, <1>4
    <3> QED  BY ONLY <1>1, <1>3, <3>1, LikeAttempt
  <2>2. Attempt(t) = AttemptIf(s, g.ypcall)
    BY <1>1, <1>4 DEF Attempt, AttemptIf
  <2> QED  BY <2>1, <2>2
<1>5. CASE ~g.ypcall
  <2>1. ~Protecting(t, n)
    BY <1>1, <1>5
  <2>2. Like(t, Activations(t), n)
    BY ONLY <1>1, <2>1, LikeSelf
  <2> QED  BY <1>1, <1>5, <2>2 DEF AttemptIf
<1> QED  BY <1>4, <1>5

(* The call of the function that was pushed. *)
LEMMA PushedCall ==
  ASSUME NEW s, NEW t, NEW d, NEW m, NEW n, NEW g, Pushing(s, t, d, m, n, g), g.ypcall \in BOOLEAN,
         NEW x, Called(t, x, n, Len(t.stack))
                \/ ErrorMeant(t, x, AttemptIf(s, g.ypcall), message)
  PROVE  CallShown(s, x, g.ypcall)
<1> DEFINE al == AttemptIf(s, g.ypcall)
           p == g.ypcall
<1>1. Poised(s, t, d, n, p) /\ p \in BOOLEAN
  <2>1. \A k \in Nat : k > 1 => k > 0
    OBVIOUS
  <2> QED  BY <2>1 DEF Poised, Pushing
<1>2. Called(t, x, n, Len(t.stack)) \/ ErrorMeant(t, x, al, message)
  OBVIOUS
<1> HIDE DEF al, p
<1>3. ErrorMeant(s, x, al, message) \/ EnterMeant(s, x, p)
  BY <1>1, <1>2, CallMeans
<1> QED  BY <1>3 DEF CallShown, al, p

(* A function of the program pushes another and calls it, through ccall. *)
LEMMA FunctionCalled ==
  ASSUME NEW s, NEW d, NEW m, NEW n, Running(s, d, m, n), ~NestedClose, s.ci[n].pc = "run",
         ~s.ci[n].ypcall,
         NEW g, NewInfo(s, n, g), g.pc \in {"call", "index", "add"}, g.args = s.ci[n].args,
         NEW want \in {0, 1}, want = 1 <=> g.pc # "call",
         NEW t, t = PushStack(SetCI(s, g), <<"func">>)
  PROVE  /\ Pushing(s, t, d, m, n, g) /\ MayCall(t, d, m, n, Len(t.stack), want)
         /\ Like(t, AttemptIf(s, g.ypcall), n)
         /\ t.cs = s.cs /\ t.ci[n] = g /\ t.cs[m].t # "reset" /\ g.ypcall \in BOOLEAN
<1>1. Pushing(s, t, d, m, n, g)
  BY PushesIs
<1>2. MayCall(t, d, m, n, Len(t.stack), want) /\ t.cs = s.cs /\ t.ci[n] = g
      /\ Len(t.stack) = Len(s.stack) + 1
  BY PushesFunction
<1>3. s.cs[m].t # "reset" /\ \A by \in Protected : Handlers(s, by, n) = {}
  BY Unhandled
<1>4. Handlers(t, "pcall", n) = {}
  BY <1>2, <1>3 DEF Handlers, Protected
<1>5. g.ypcall \in BOOLEAN /\ (g.ypcall => g.u2 = Len(t.stack))
  BY <1>2 DEF NewInfo, CallInfo
<1>6. Like(t, AttemptIf(s, g.ypcall), n)
  BY <1>1, <1>4, <1>5, PushedLike
<1> QED  BY <1>1, <1>2, <1>3, <1>5, <1>6

(* A call instruction is a call. *)
LEMMA OpCallMeans ==
  ASSUME CInv(L), ~NestedClose, NEW kind \in {"Lau", "C"}, OpCall(kind)
  PROVE  CallShown(L, L', FALSE)
<1> DEFINE m == Len(L.cs)
           n == Len(L.ci)
           g == [CI EXCEPT !.pc = "call", !.level = 0]
           t == PushStack(SetCI(L, g), <<"func">>)
<1>1. PICK d \in [Nat -> Nat] : /\ Top(L, d) /\ Running(L, d, m, n) /\ L.cs[m].t = "exec"
        /\ CI = L.ci[n] /\ CI.pc = "run" /\ ~CI.ypcall
  BY InLauRuns DEF OpCall
<1>2. NewInfo(L, n, g) /\ g.pc = "call" /\ g.ypcall = FALSE /\ g.args = CI.args
  <2>1. CI \in CallInfo /\ ~CI.clsret /\ CI.recst = "ok" /\ CI.kind = "Lau" /\ CI.ypcall = FALSE
    BY <1>1 DEF Running, InControl, CallInfo
  <2>2. /\ g \in CallInfo /\ g.func = CI.func /\ g.kind = CI.kind /\ g.want = CI.want
           /\ g.fresh = CI.fresh /\ g.tbc = CI.tbc /\ g.args = CI.args
        /\ g.clsret = CI.clsret /\ g.recst = CI.recst /\ g.ypcall = CI.ypcall /\ g.pc = "call"
    BY <2>1 DEF CallInfo
  <2> QED  BY <1>1, <2>1, <2>2 DEF NewInfo
<1>3. L' = precall(t, Len(t.stack), 0, kind, FALSE)
  BY DEF OpCall, At, CI
<1>4. t = PushStack(SetCI(L, g), <<"func">>)
  OBVIOUS
<1> HIDE DEF g, m, n, t
<1>5. /\ Pushing(L, t, d, m, n, g) /\ MayCall(t, d, m, n, Len(t.stack), 0)
      /\ Like(t, AttemptIf(L, g.ypcall), n) /\ t.cs[m].t # "reset" /\ g.ypcall \in BOOLEAN
  <2>1. /\ Running(L, d, m, n) /\ ~NestedClose /\ L.ci[n].pc = "run" /\ ~L.ci[n].ypcall
        /\ NewInfo(L, n, g) /\ g.pc \in {"call", "index", "add"} /\ g.args = L.ci[n].args
        /\ 0 \in {0, 1} /\ (0 = 1 <=> g.pc # "call")
    BY <1>1, <1>2
  <2> QED  BY ONLY <1>4, <2>1, FunctionCalled
<1>6. Called(t, L', n, Len(t.stack)) \/ ErrorMeant(t, L', AttemptIf(L, g.ypcall), message)
  <2> DEFINE al == AttemptIf(L, g.ypcall)
             fresh == FALSE
             x == precall(t, Len(t.stack), 0, kind, fresh)
  <2>1. /\ MayCall(t, d, m, n, Len(t.stack), 0) /\ Like(t, al, n) /\ t.cs[m].t # "reset"
        /\ kind \in {"Lau", "C"} /\ fresh \in BOOLEAN /\ ~NestedClose
    BY <1>5
  <2>2. fresh = FALSE
    OBVIOUS
  <2> HIDE DEF al, fresh
  <2>3. Called(t, x, n, Len(t.stack)) \/ (ErrorMeant(t, x, al, message) /\ n = MaxFrames)
    BY ONLY <2>1, PrecallMeans
  <2> HIDE DEF x
  <2>4. L' = x
    BY <1>3, <2>2 DEF x
  <2> QED  BY <2>3, <2>4 DEF al
<1>7. CallShown(L, L', g.ypcall)
  BY ONLY <1>5, <1>6, PushedCall
<1> QED  BY <1>2, <1>7

(* ccall of the function that was pushed. *)
LEMMA CcallShown ==
  ASSUME NEW s, NEW d, NEW m, NEW n, Running(s, d, m, n), ~NestedClose, s.ci[n].pc = "run",
         ~s.ci[n].ypcall,
         NEW g, NewInfo(s, n, g), g.pc \in {"call", "index", "add"}, g.args = s.ci[n].args,
         NEW want \in {0, 1}, want = 1 <=> g.pc # "call",
         NEW kind \in {"Lau", "C"}, NEW y \in {0, 1},
         s.cs[m].t = "exec" => g.pc # "call",
         s.cs[m].t = "cfn" => (y = 1 \/ g.k),
         NEW t, t = PushStack(SetCI(s, g), <<"func">>)
  PROVE  CallShown(s, ccall(t, Len(t.stack), want, 1, y, kind), g.ypcall)
<1>1. /\ Pushing(s, t, d, m, n, g) /\ MayCall(t, d, m, n, Len(t.stack), want)
      /\ Like(t, AttemptIf(s, g.ypcall), n) /\ t.cs = s.cs /\ t.ci[n] = g /\ g.ypcall \in BOOLEAN
  BY FunctionCalled
<1>2. s.cs[m].t \in {"exec", "cfn"}
  BY DEF Running
<1> DEFINE al == AttemptIf(s, g.ypcall)
           x == ccall(t, Len(t.stack), want, 1, y, kind)
<1>3. /\ CallsNext(t.cs[m], [t |-> "ccall", inc |-> 1, y |-> y])
      /\ t.cs[m].t = "exec" => TakesResult(t.ci[n])
      /\ t.cs[m].t = "cfn" => (y = 1 \/ t.ci[n].k) /\ t.ci[n].pc # "top"
      /\ 1 \in {0, 1} /\ y <= 1
  <2>1. CallsNext(t.cs[m], [t |-> "ccall", inc |-> 1, y |-> y])
    BY <1>1, <1>2 DEF CallsNext
  <2> QED  BY <1>1, <2>1 DEF TakesResult
<1>4. Called(t, x, n, Len(t.stack)) \/ ErrorMeant(t, x, al, message)
  <2>1. /\ MayCall(t, d, m, n, Len(t.stack), want) /\ Like(t, al, n)
    BY <1>1
  <2> HIDE DEF al
  <2>2. \/ Called(t, x, n, Len(t.stack))
        \/ ErrorMeant(t, x, al, message) /\ (1 > 0 \/ n = MaxFrames \/ t.nc = MaxCcalls)
    BY <1>3, <2>1, CcallMeans
  <2> HIDE DEF x
  <2> QED  BY <2>2
<1> HIDE DEF x
<1>5. CallShown(s, x, g.ypcall)
  BY <1>1, <1>4, PushedCall DEF al
<1> QED  BY <1>5 DEF x

IsCall(pc) == pc \in {"call", "index", "add"}
CallingBy(f, pc) == [f EXCEPT !.pc = pc, !.level = 0]
ContinuingBy(f, u2, p) == [f EXCEPT !.pc = "call", !.k = TRUE, !.u2 = u2, !.ypcall = p]

(* The CallInfo while an instruction or an API function is under way. *)
LEMMA CallingInfo ==
  ASSUME NEW s, NEW d, NEW m, NEW n, Running(s, d, m, n), ~s.ci[n].ypcall,
         NEW pc, IsCall(pc), pc # "call" => s.ci[n].kind = "Lau",
         NEW g, g = CallingBy(s.ci[n], pc)
  PROVE  /\ NewInfo(s, n, g) /\ g.pc = pc /\ ~g.ypcall /\ g.args = s.ci[n].args
         /\ g.recst = "ok"
<1> DEFINE f == s.ci[n]
<1>1. f \in CallInfo /\ ~f.clsret /\ f.recst = "ok" /\ f.ypcall = FALSE
  BY DEF Running, InControl, CallInfo
<1>2. /\ g \in CallInfo /\ g.func = f.func /\ g.kind = f.kind /\ g.want = f.want
         /\ g.fresh = f.fresh /\ g.tbc = f.tbc /\ g.args = f.args
      /\ g.clsret = f.clsret /\ g.recst = f.recst /\ g.ypcall = f.ypcall /\ g.pc = pc
  BY <1>1 DEF CallInfo, CallingBy, IsCall
<1> QED  BY <1>1, <1>2 DEF NewInfo, IsCall

(* The CallInfo while a call with a continuation is under way. *)
LEMMA ContinuationInfo ==
  ASSUME NEW s, NEW d, NEW m, NEW n, Running(s, d, m, n), ~s.ci[n].ypcall, s.ci[n].kind = "C",
         NEW p \in BOOLEAN, p => s.nny = 0, NEW u2, u2 = IF p THEN Len(s.stack) + 1 ELSE s.ci[n].u2,
         NEW g, g = ContinuingBy(s.ci[n], u2, p)
  PROVE  NewInfo(s, n, g) /\ g.pc = "call" /\ g.ypcall = p /\ g.args = s.ci[n].args /\ g.k
<1> DEFINE f == s.ci[n]
<1>1. f \in CallInfo /\ ~f.clsret /\ f.recst = "ok" /\ f.u2 \in Nat /\ f.func \in Nat
      /\ Len(s.stack) \in Nat /\ f.func <= Len(s.stack)
  BY DEF Running, InControl, CallInfo
<1>2. u2 \in Nat /\ (p => f.func < u2 /\ u2 = Len(s.stack) + 1)
  BY <1>1
<1>3. /\ g \in CallInfo /\ g.func = f.func /\ g.kind = f.kind /\ g.want = f.want
         /\ g.fresh = f.fresh /\ g.tbc = f.tbc /\ g.args = f.args
      /\ g.clsret = f.clsret /\ g.recst = f.recst /\ g.ypcall = p /\ g.pc = "call"
      /\ g.u2 = u2 /\ g.k = TRUE
  BY <1>1, <1>2 DEF CallInfo, ContinuingBy
<1> QED  BY <1>1, <1>2, <1>3 DEF NewInfo

(* An instruction that calls a metamethod is a call. *)
LEMMA OpMetaMeans ==
  ASSUME CInv(L), ~NestedClose, NEW kind \in {"Lau", "C"}, NEW op \in {"index", "add"},
         OpMeta(kind, op)
  PROVE  CallShown(L, L', FALSE)
<1> DEFINE m == Len(L.cs)
           n == Len(L.ci)
           g == [CI EXCEPT !.pc = op, !.level = 0]
           t == PushStack(SetCI(L, g), <<"func">>)
<1>1. PICK d \in [Nat -> Nat] : /\ Top(L, d) /\ Running(L, d, m, n) /\ L.cs[m].t = "exec"
        /\ CI = L.ci[n] /\ CI.pc = "run" /\ ~CI.ypcall
  BY InLauRuns DEF OpMeta
<1>2. L' = ccall(t, Len(t.stack), 1, 1, 0, kind)
  BY DEF OpMeta, Call, At, CI
<1>3. g = [CI EXCEPT !.pc = op, !.level = 0] /\ t = PushStack(SetCI(L, g), <<"func">>)
  OBVIOUS
<1> HIDE DEF g, m, n, t
<1>4. L.ci[n].kind = "Lau"
  BY <1>1 DEF Running
<1>5. NewInfo(L, n, g) /\ g.pc = op /\ ~g.ypcall /\ g.args = L.ci[n].args
  <2>1. /\ Running(L, d, m, n) /\ ~L.ci[n].ypcall /\ IsCall(op)
        /\ op # "call" => L.ci[n].kind = "Lau"
        /\ g = CallingBy(L.ci[n], op)
    BY <1>1, <1>3, <1>4 DEF CallingBy, IsCall
  <2> QED  BY ONLY <2>1, CallingInfo
<1>6. CallShown(L, ccall(t, Len(t.stack), 1, 1, 0, kind), g.ypcall)
  <2>1. /\ Running(L, d, m, n) /\ L.ci[n].pc = "run" /\ ~L.ci[n].ypcall
        /\ NewInfo(L, n, g) /\ g.pc \in {"call", "index", "add"} /\ g.args = L.ci[n].args
        /\ 1 \in {0, 1} /\ (1 = 1 <=> g.pc # "call") /\ kind \in {"Lau", "C"} /\ 0 \in {0, 1}
        /\ L.cs[m].t = "exec" => g.pc # "call"
        /\ L.cs[m].t = "cfn" => (0 = 1 \/ g.k)
        /\ t = PushStack(SetCI(L, g), <<"func">>) /\ ~NestedClose
    BY <1>1, <1>3, <1>5
  <2> QED  BY ONLY <2>1, CcallShown
<1>7. g.ypcall = FALSE
  BY <1>5 DEF NewInfo, CallInfo
<1> QED  BY <1>2, <1>6, <1>7

(* A call by a C function, with or without a continuation. *)
LEMMA CallsFromC ==
  ASSUME NEW s, NEW d, NEW m, NEW n, Running(s, d, m, n), ~NestedClose, s.ci[n].pc = "run",
         ~s.ci[n].ypcall, s.cs[m].t = "cfn",
         NEW g, NewInfo(s, n, g), g.pc = "call", g.args = s.ci[n].args, NEW kind \in {"Lau", "C"},
         NEW y \in {0, 1}, y = 1 \/ g.k
  PROVE  CallShown(s, Call(SetCI(s, g), 0, y, kind), g.ypcall)
<1> DEFINE t == PushStack(SetCI(s, g), <<"func">>)
<1>1. t = PushStack(SetCI(s, g), <<"func">>) /\ Call(SetCI(s, g), 0, y, kind) = ccall(t, Len(t.stack), 0, 1, y, kind)
  BY DEF Call
<1> HIDE DEF t
<1>2. /\ Running(s, d, m, n) /\ s.ci[n].pc = "run" /\ ~s.ci[n].ypcall
      /\ NewInfo(s, n, g) /\ g.pc \in {"call", "index", "add"} /\ g.args = s.ci[n].args
      /\ 0 \in {0, 1} /\ (0 = 1 <=> g.pc # "call") /\ kind \in {"Lau", "C"} /\ y \in {0, 1}
      /\ s.cs[m].t = "exec" => g.pc # "call"
      /\ s.cs[m].t = "cfn" => (y = 1 \/ g.k)
      /\ t = PushStack(SetCI(s, g), <<"func">>) /\ ~NestedClose
  BY <1>1
<1>3. CallShown(s, ccall(t, Len(t.stack), 0, 1, y, kind), g.ypcall)
  BY ONLY <1>2, CcallShown
<1> QED  BY <1>1, <1>3

(* lau_callk is a call. *)
LEMMA callkMeans ==
  ASSUME CInv(L), ~NestedClose, NEW kind \in {"Lau", "C"}, NEW k \in BOOLEAN, callk(kind, k)
  PROVE  CallShown(L, L', FALSE)
<1> DEFINE m == Len(L.cs)
           n == Len(L.ci)
<1>1. PICK d \in [Nat -> Nat] : /\ Top(L, d) /\ Running(L, d, m, n) /\ L.cs[m].t = "cfn"
        /\ CI = L.ci[n] /\ CI.pc = "run" /\ ~CI.ypcall
  BY InCRuns DEF callk
<1>2. CI.kind = "C" /\ CI \in CallInfo /\ CI = Last(L.ci)
  BY <1>1 DEF Running, InControl, CI
<1> HIDE DEF m, n
<1>3. CASE k /\ yieldable(L)
  <2> DEFINE g == [CI EXCEPT !.pc = "call", !.k = TRUE]
             g2 == [CI EXCEPT !.pc = "call", !.k = TRUE, !.u2 = CI.u2, !.ypcall = FALSE]
  <2>1. L' = Call(SetCI(L, g), 0, 0, kind)
    BY <1>3 DEF callk
  <2>2. CI.ypcall = FALSE
    BY <1>1, <1>2 DEF CallInfo
  <2>3. g = g2
    BY <1>2, <2>2 DEF CallInfo
  <2>4. NewInfo(L, n, g2) /\ g2.pc = "call" /\ g2.ypcall = FALSE /\ g2.args = L.ci[n].args /\ g2.k
    <3> DEFINE p == FALSE
               u2 == CI.u2
    <3>1. p = FALSE /\ u2 = CI.u2 /\ g2 = ContinuingBy(L.ci[n], u2, p)
      BY <1>1 DEF ContinuingBy
    <3> HIDE DEF p, u2, g2
    <3>2. /\ Running(L, d, m, n) /\ ~L.ci[n].ypcall /\ L.ci[n].kind = "C" /\ p \in BOOLEAN
          /\ p => L.nny = 0
          /\ u2 = IF p THEN Len(L.stack) + 1 ELSE L.ci[n].u2
          /\ g2 = ContinuingBy(L.ci[n], u2, p)
      BY <1>1, <1>2, <3>1
    <3>3. NewInfo(L, n, g2) /\ g2.pc = "call" /\ g2.ypcall = p /\ g2.args = L.ci[n].args /\ g2.k
      BY ONLY <3>2, ContinuationInfo
    <3> QED  BY <3>1, <3>3
  <2> HIDE DEF g, g2
  <2>5. CallShown(L, Call(SetCI(L, g2), 0, 0, kind), g2.ypcall)
    <3>1. Running(L, d, m, n) /\ L.ci[n].pc = "run" /\ ~L.ci[n].ypcall /\ L.cs[m].t = "cfn"
          /\ 0 \in {0, 1} /\ (0 = 1 \/ g2.k) /\ kind \in {"Lau", "C"} /\ ~NestedClose
      BY <1>1, <2>4
    <3> QED  BY ONLY <2>4, <3>1, CallsFromC
  <2> QED  BY <2>1, <2>3, <2>4, <2>5
<1>4. CASE ~(k /\ yieldable(L))
  <2> DEFINE g == [CI EXCEPT !.pc = "call", !.level = 0]
  <2>1. L' = Call(SetCI(L, g), 0, 1, kind)
    BY <1>2, <1>4 DEF callk, At
  <2>2. NewInfo(L, n, g) /\ g.pc = "call" /\ g.ypcall = FALSE /\ g.args = L.ci[n].args
    <3> DEFINE pc == "call"
    <3>1. pc = "call" /\ g = CallingBy(L.ci[n], pc)
      BY <1>1 DEF CallingBy
    <3> HIDE DEF g, pc
    <3>2. /\ Running(L, d, m, n) /\ ~L.ci[n].ypcall /\ IsCall(pc)
          /\ pc # "call" => L.ci[n].kind = "Lau"
      BY <1>1, <3>1 DEF IsCall
    <3>3. NewInfo(L, n, g) /\ g.pc = pc /\ ~g.ypcall /\ g.args = L.ci[n].args
      BY ONLY <3>1, <3>2, CallingInfo
    <3> QED  BY <3>1, <3>3 DEF NewInfo, CallInfo
  <2> HIDE DEF g
  <2>5. CallShown(L, Call(SetCI(L, g), 0, 1, kind), g.ypcall)
    <3>1. Running(L, d, m, n) /\ L.ci[n].pc = "run" /\ ~L.ci[n].ypcall /\ L.cs[m].t = "cfn"
          /\ 1 \in {0, 1} /\ (1 = 1 \/ g.k) /\ kind \in {"Lau", "C"} /\ ~NestedClose
      BY <1>1, <2>2
    <3> QED  BY ONLY <2>2, <3>1, CallsFromC
  <2> QED  BY <2>1, <2>2, <2>5
<1> QED  BY <1>3, <1>4

(* lauD_pcall puts its handler on the C stack: the function pushed will be
   called under protection. *)
LEMMA Shielded ==
  ASSUME NEW s, NEW t, NEW d, NEW c, NEW m, NEW n, NEW g, Pushing(s, t, d, m, n, g),
         Handlers(t, "closep", n) = {}, Handlers(t, "pcall", n) = {}, ~g.ypcall, t.ci[n].recst = "ok",
         NEW r, r = rawrunprotected(t, "pcall", n, Len(t.stack), "ok"), MayCall(r, c, m + 1, n, Len(t.stack), 0),
         Try(r.cs[m + 1], {"pcall"})
  PROVE  Poised(s, r, c, n, TRUE) /\ Like(r, Attempt(s), n) /\ r.stack = t.stack
<1> DEFINE e == [t |-> "try", by |-> "pcall", ci |-> n, level |-> Len(t.stack), status |-> "ok",
                 nc |-> t.nc, nny |-> t.nny]
<1>1. /\ Same(s, t) /\ Base(t, d) /\ Idle(t, n) /\ t.ci[n] = g
      /\ n = Len(t.ci) /\ n \in Nat /\ n > 1 /\ m = Len(t.cs) /\ m \in Nat /\ m > 0
      /\ t \in State /\ Alive(t) /\ Len(s.tbclist) = Len(t.tbclist) /\ Len(t.stack) \in Nat
      /\ \A a \in 1..Len(t.tbclist) : t.tbclist[a] < Len(t.stack)
  BY DEF Pushing
<1>2. r = PushC(t, e)
  BY DEF rawrunprotected
<1>3. /\ r.ci = t.ci /\ r.stack = t.stack /\ r.tbclist = t.tbclist /\ r.status = t.status
      /\ r.cs = Append(t.cs, e)
  BY <1>1, <1>2 DEF PushC, State
<1>4. e.ci = n /\ e.level = Len(t.stack) /\ e.t = "try" /\ e.by = "pcall"
  OBVIOUS
<1> HIDE DEF e
<1>5. /\ Len(r.cs) = m + 1 /\ r.cs[m + 1] = e /\ \A j \in 1..m : r.cs[j] = t.cs[j]
  <2>1. t.cs \in Seq(CFunction \cup {e}) /\ e \in CFunction \cup {e}
    <3>1. t.cs \in Seq(CFunction) /\ \A j \in 1..Len(t.cs) : t.cs[j] \in CFunction \cup {e}
      BY <1>1, StateType
    <3> QED  BY <3>1, SeqDef
  <2> QED  BY <1>1, <1>3, <2>1, AppendProperties
<1>6. r \in State /\ Base(r, c)
  BY BaseType DEF MayCall
<1>7. m + 1 \in Nat /\ m <= m + 1 /\ n \in 1..n /\ ~(n \in 1..(n - 1)) /\ n > 0
      /\ (\A j \in 1..(m + 1) : j \in 1..m \/ j = m + 1) /\ (\A j \in (m + 1)..m : FALSE)
      /\ (\A j \in (m + 1)..(m + 1) : j = m + 1) /\ m + 1 \in 1..(m + 1) /\ (\A j \in 1..m : j \in 1..(m + 1))
      /\ m <= m
  BY <1>1
<1>8. Handlers(r, "closep", n) = {} /\ Handlers(r, "pcall", n) = {m + 1}
  <2>1. ASSUME NEW j \in 1..m, r.cs[j].t = "try", r.cs[j].ci = n
        PROVE  r.cs[j].by \notin {"pcall", "closep"}
    <3>1. j \in 1..Len(t.cs) /\ r.cs[j] = t.cs[j]
      BY <1>1, <1>5
    <3>2. ASSUME NEW by, t.cs[j].by = by PROVE j \in Handlers(t, by, n)
      BY ONLY <2>1, <3>1, <3>2 DEF Handlers
    <3>3. Handlers(t, "closep", n) = {} /\ Handlers(t, "pcall", n) = {}
      OBVIOUS
    <3> QED  BY ONLY <3>1, <3>2, <3>3
  <2>2. Handlers(r, "closep", n) = {}
    BY <1>4, <1>5, <1>7, <2>1 DEF Handlers
  <2>3. Handlers(r, "pcall", n) = {m + 1}
    BY <1>4, <1>5, <1>7, <2>1 DEF Handlers
  <2> QED  BY <2>2, <2>3
<1>9. SameHandlers(t, r, n - 1)
  <2>1. \A j \in (m + 1)..Len(t.cs) : Try(t.cs[j], Protected) => ~(t.cs[j].ci \in 1..(n - 1))
    BY <1>1, <1>7
  <2>2. \A j \in (m + 1)..Len(r.cs) : Try(r.cs[j], Protected) => ~(r.cs[j].ci \in 1..(n - 1))
    BY <1>4, <1>5, <1>7
  <2>3. Len(t.cs) \in Nat /\ Len(r.cs) \in Nat /\ m \in Nat /\ m <= Len(t.cs) /\ m <= Len(r.cs)
    BY <1>1, <1>5, <1>7
  <2> QED  BY <1>5, <2>1, <2>2, <2>3, HandlersCut
<1>10. Idle(r, n) /\ Protecting(r, n) /\ ~r.ci[n].ypcall
  <2>1. r.ci[n] = g /\ ~g.ypcall
    BY <1>1, <1>3
  <2>2. Unwinding(r, n) = NoUnwinding
    BY <1>8, <2>1 DEF Unwinding
  <2> QED  BY <1>1, <1>3, <1>7, <1>8, <2>1, <2>2 DEF Idle, Protecting
<1>11. \A p : Older(r, p) = Older(t, p) /\ (TbcFrom(r, p) <=> TbcFrom(t, p))
  BY <1>3, OlderSame
<1>12. Same(t, r)
  <2>1. Under(t, r, n)
    BY <1>1, <1>3, <1>7, <1>9, <1>11 DEF Under
  <2>2. Alive(r)
    BY <1>1, <1>3 DEF Alive
  <2>3. \A a \in 1..Len(t.tbclist) : r.stack[t.tbclist[a]] = t.stack[t.tbclist[a]]
    BY <1>3
  <2> QED  BY <1>1, <1>3, <1>10, <2>1, <2>2, <2>3, SameMeaning
<1>13. ~TbcFrom(r, Len(t.stack)) /\ Len(r.tbclist) \in Nat
  <2>1. \A a \in 1..Len(t.tbclist) : t.tbclist[a] \in Nat
    BY <1>1, StateType
  <2>2. Len(t.tbclist) \in Nat
    BY <1>1, BaseType
  <2>3. \A p, q \in Nat : p < q => ~(p >= q)
    OBVIOUS
  <2>4. ~TbcFrom(t, Len(t.stack))
    BY <1>1, <2>1, <2>3 DEF TbcFrom
  <2> QED  BY <1>3, <1>11, <2>2, <2>4
<1>14. Like(r, Attempt(r), n)
  <2>1. \A j \in Handlers(r, "pcall", n) : ~TbcFrom(r, r.cs[j].level)
    BY <1>4, <1>5, <1>8, <1>13
  <2>2. n = Len(r.ci) /\ Alive(r)
    BY <1>1, <1>3 DEF Alive
  <2> QED  BY <1>1, <1>7, <1>10, <1>13, <2>1, <2>2, LikeAttempt
<1>15. Attempt(r) = Attempt(s)
  BY <1>1, <1>3, <1>12 DEF Attempt, Same
<1>16. Same(s, r)
  BY <1>1, <1>12 DEF Same
<1>17. Alive(r)
  BY <1>1, <1>3 DEF Alive
<1> QED  BY <1>1, <1>3, <1>6, <1>7, <1>10, <1>14, <1>15, <1>16, <1>17 DEF Poised

(* lau_pcallk is a call under protection. *)
LEMMA pcallkMeans ==
  ASSUME CInv(L), ~NestedClose, NEW kind \in {"Lau", "C"}, NEW k \in BOOLEAN, pcallk(kind, k)
  PROVE  CallShown(L, L', TRUE)
<1> DEFINE m == Len(L.cs)
           n == Len(L.ci)
           func == Len(L.stack) + 1
<1>1. PICK d \in [Nat -> Nat] : /\ Top(L, d) /\ Running(L, d, m, n) /\ L.cs[m].t = "cfn"
        /\ CI = L.ci[n] /\ CI.pc = "run" /\ ~CI.ypcall
  BY InCRuns DEF pcallk
<1>2. CI.kind = "C" /\ CI \in CallInfo /\ CI = Last(L.ci) /\ L \in State /\ n > 0 /\ n = Len(L.ci)
  BY <1>1 DEF Running, InControl, CI
<1>3. CASE k /\ yieldable(L)
  <2> DEFINE p == TRUE
             g == [CI EXCEPT !.pc = "call", !.k = TRUE, !.u2 = func, !.ypcall = TRUE]
  <2>1. L' = Call(SetCI(L, g), 0, 0, kind)
    BY <1>3 DEF pcallk
  <2>2. p = TRUE /\ g = ContinuingBy(L.ci[n], func, p) /\ L.nny = 0
    BY <1>1, <1>3 DEF ContinuingBy, yieldable
  <2>3. func = IF p THEN Len(L.stack) + 1 ELSE L.ci[n].u2
    OBVIOUS
  <2> HIDE DEF p, g, func, m, n
  <2>4. NewInfo(L, n, g) /\ g.pc = "call" /\ g.ypcall = p /\ g.args = L.ci[n].args /\ g.k
    <3>1. /\ Running(L, d, m, n) /\ ~L.ci[n].ypcall /\ L.ci[n].kind = "C" /\ p \in BOOLEAN
          /\ p => L.nny = 0
          /\ g = ContinuingBy(L.ci[n], func, p)
      BY <1>1, <1>2, <2>2
    <3> QED  BY ONLY <2>3, <3>1, ContinuationInfo
  <2>5. CallShown(L, Call(SetCI(L, g), 0, 0, kind), g.ypcall)
    <3>1. Running(L, d, m, n) /\ L.ci[n].pc = "run" /\ ~L.ci[n].ypcall /\ L.cs[m].t = "cfn"
          /\ 0 \in {0, 1} /\ (0 = 1 \/ g.k) /\ kind \in {"Lau", "C"} /\ ~NestedClose
      BY <1>1, <2>4
    <3> QED  BY ONLY <2>4, <3>1, CallsFromC
  <2> QED  BY <2>1, <2>2, <2>4, <2>5
<1>4. CASE ~(k /\ yieldable(L))
  <2> DEFINE pc == "call"
             g == [CI EXCEPT !.pc = "call", !.level = 0]
             b == SetCI(L, g)
             s == PushStack(b, <<"func">>)
             t == rawrunprotected(s, "pcall", n, func, "ok")
             i == m + 1
  <2>1. L' = Call(rawrunprotected(b, "pcall", n, func, "ok"), 0, 1, kind)
    BY <1>4 DEF pcallk, At, CI
  <2>2. pc = "call" /\ g = CallingBy(L.ci[n], pc) /\ s = PushStack(SetCI(L, g), <<"func">>)
    BY <1>1 DEF CallingBy
  <2> HIDE DEF g, func, pc
  <2>3. NewInfo(L, n, g) /\ g.pc = "call" /\ ~g.ypcall /\ g.args = L.ci[n].args /\ g.recst = "ok"
    <3>1. /\ Running(L, d, m, n) /\ ~L.ci[n].ypcall /\ IsCall(pc)
          /\ pc # "call" => L.ci[n].kind = "Lau"
      BY <1>1, <2>2 DEF IsCall
    <3> HIDE DEF m, n
    <3>2. NewInfo(L, n, g) /\ g.pc = pc /\ ~g.ypcall /\ g.args = L.ci[n].args
      BY ONLY <2>2, <3>1, CallingInfo
    <3> QED  BY <2>2, <3>2 DEF NewInfo
  <2>4. Framed(L, b, g)
    BY <1>2, <2>3, SetCIIs DEF NewInfo
  <2> HIDE DEF b
  <2>5. b \in State /\ b.nc = L.nc /\ b.nny = L.nny /\ b.stack = L.stack
    BY <2>4 DEF Framed, SameCounts
  <2>6. PushStack(rawrunprotected(b, "pcall", n, func, "ok"), <<"func">>) = t
    BY <2>5 DEF rawrunprotected, PushC, PushStack, State
  <2>7. L' = ccall(t, Len(t.stack), 0, 1, 1, kind)
    BY <2>1, <2>6 DEF Call
  <2> HIDE DEF m, n
  <2>8. /\ Pushing(L, s, d, m, n, g) /\ MayCall(s, d, m, n, Len(s.stack), 0)
        /\ s.cs = L.cs /\ s.ci[n] = g
    <3>1. /\ Running(L, d, m, n) /\ ~NestedClose /\ L.ci[n].pc = "run" /\ ~L.ci[n].ypcall
          /\ NewInfo(L, n, g) /\ g.pc \in {"call", "index", "add"} /\ g.args = L.ci[n].args
          /\ 0 \in {0, 1} /\ (0 = 1 <=> g.pc # "call")
      BY <1>1, <2>3
    <3> HIDE DEF s
    <3> QED  BY ONLY <2>2, <3>1, FunctionCalled
  <2>9. \A by \in Protected : Handlers(L, by, n) = {}
    BY <1>1, Unhandled
  <2> HIDE DEF s
  <2>10. func = Len(s.stack)
    BY <2>8 DEF func, Pushing
  <2>11. t = rawrunprotected(s, "pcall", n, Len(s.stack), "ok")
    BY <2>10
  <2>12. PICK c : MayCall(t, c, i, n, func, 0) /\ Try(t.cs[i], {"pcall"}) /\ t.stack = s.stack
    <3>1. s.cs[m].t = "cfn" /\ s.ci[n].recst = "ok" /\ ~s.ci[n].ypcall /\ s.ci[n].pc # "top"
      BY <1>1, <2>3, <2>8
    <3>2. MayCall(s, d, m, n, func, 0)
      BY <2>8, <2>10
    <3> QED  BY ONLY <2>10, <3>1, <3>2, Protects, SMTT(20)
  <2>13. Poised(L, t, c, n, TRUE) /\ Like(t, Attempt(L), n)
    <3>1. Handlers(s, "closep", n) = {} /\ Handlers(s, "pcall", n) = {}
      BY <2>8, <2>9 DEF Handlers, Protected
    <3>2. s.ci[n].recst = "ok" /\ ~g.ypcall
      BY <2>3, <2>8
    <3>3. MayCall(t, c, m + 1, n, Len(s.stack), 0) /\ Try(t.cs[m + 1], {"pcall"})
      BY <2>10, <2>12
    <3>4. Pushing(L, s, d, m, n, g)
      BY <2>8
    <3> HIDE DEF t
    <3> QED  BY ONLY <2>11, <3>1, <3>2, <3>3, <3>4, Shielded
  <2> HIDE DEF t, i
  <2>14. CallsNext(t.cs[i], [t |-> "ccall", inc |-> 1, y |-> 1]) /\ t.cs[i].t = "try"
    BY <2>12 DEF CallsNext, Try
  <2> DEFINE x == ccall(t, func, 0, 1, 1, kind)
             al == Attempt(L)
  <2> HIDE DEF x, al
  <2>15. Called(t, x, n, func) \/ ErrorMeant(t, x, al, message)
    <3>1. 1 \in {0, 1} /\ 1 <= 1 /\ t.cs[i].t # "exec" /\ t.cs[i].t # "cfn" /\ Like(t, al, n)
      BY <2>13, <2>14 DEF al
    <3>2. \/ Called(t, x, n, func)
          \/ ErrorMeant(t, x, al, message) /\ (1 > 0 \/ n = MaxFrames \/ t.nc = MaxCcalls)
      BY <2>12, <2>14, <3>1, CcallMeans DEF x
    <3> QED  BY <3>2
  <2>16. L' = x
    BY <2>7, <2>10, <2>12 DEF x
  <2>17. Called(t, L', n, Len(t.stack)) \/ ErrorMeant(t, L', al, message)
    BY <2>10, <2>12, <2>15, <2>16
  <2>18. ErrorMeant(L, L', al, message) \/ EnterMeant(L, L', TRUE)
    <3> DEFINE p == TRUE
    <3>1. p \in BOOLEAN /\ Poised(L, t, c, n, p) /\ p = TRUE
      BY <2>13
    <3> HIDE DEF p
    <3>2. ErrorMeant(L, L', al, message) \/ EnterMeant(L, L', p)
      BY <2>17, <3>1, CallMeans
    <3> QED  BY <3>1, <3>2
  <2> QED  BY <2>18 DEF CallShown, AttemptIf, al
<1> QED  BY <1>3, <1>4

(* lau_resume of a new coroutine is a call, which has room. *)
LEMMA StartMeans ==
  ASSUME CInv(L), ~NestedClose, NEW kind \in {"Lau", "C"}, Start(kind)
  PROVE  EnterMeant(L, L', FALSE)
<1>1. PICK s, c : Starting(s, c) /\ L' = ccall(s, 2, MULTRET, 0, 0, kind)
  BY Starts
<1>2. PICK d \in [Nat -> Nat] : Base(L, d)
  BY DEF CInv
<1>3. /\ MayCall(s, c, 1, 1, 2, MULTRET) /\ Base(s, c) /\ s \in State /\ s.status = "ok"
      /\ CallsNext(s.cs[1], [t |-> "ccall", inc |-> 0, y |-> 0]) /\ s.cs[1] = ResumeEntry
      /\ s.nc = 1 /\ Len(s.tbclist) = 0 /\ s.ci = <<BaseCI>> /\ Len(s.stack) = 2 /\ Len(s.cs) = 1
      /\ L.status = "ok" /\ L.tbclist = s.tbclist /\ L.ci = s.ci /\ L.cs = <<>>
  BY <1>1, BaseType DEF Starting, MayCall
<1>4. s.ci[1] = BaseCI /\ Len(s.ci) = 1 /\ L.ci[1] = BaseCI /\ Len(L.ci) = 1 /\ Len(L.cs) = 0
  BY <1>3
<1>5. /\ BaseCI.func = 1 /\ ~BaseCI.clsret /\ ~BaseCI.ypcall /\ BaseCI.pc = "run"
  BY DEF BaseCI, Frame
<1>6. (\A j \in 1..0 : FALSE) /\ (\A j \in 1..1 : j = 1) /\ (\A j \in 1..(1 - 1) : FALSE) /\ 1 \in 1..1
  OBVIOUS
<1>7. /\ \A by \in Protected : Handlers(s, by, 1) = {}
      /\ \A by : Handlers(L, by, 1) = {}
  <2>1. s.cs[1].by = "resume"
    BY <1>3 DEF ResumeEntry
  <2> QED  BY <1>3, <1>4, <1>6, <2>1 DEF Handlers, Protected
<1>8. Idle(s, 1) /\ Idle(L, 1) /\ ~Protecting(s, 1)
  BY <1>4, <1>5, <1>7 DEF Idle, Protecting, Unwinding, Protected
<1>9. Alive(s) /\ Alive(L)
  BY <1>3 DEF Alive, ErrorStatus
<1>10. Same(L, s)
  <2>1. \A p : Older(s, p) = Older(L, p)
    BY <1>3, OlderSame
  <2>2. Under(L, s, 1)
    <3>1. SameHandlers(L, s, 1 - 1)
      BY <1>6 DEF SameHandlers
    <3>2. \A p \in 1..(L.ci[1].func - 1) : s.stack[p] = L.stack[p]
      BY <1>4, <1>5, <1>6
    <3> QED  BY <1>4, <1>6, <2>1, <3>1, <3>2 DEF Under
  <2>3. \A a \in 1..Len(L.tbclist) : s.stack[L.tbclist[a]] = L.stack[L.tbclist[a]]
    BY <1>3, <1>6
  <2> DEFINE n == 1
  <2>4. /\ Base(L, d) /\ n = Len(L.ci) /\ Len(s.ci) = n /\ Alive(L) /\ Alive(s) /\ Under(L, s, n)
        /\ Idle(L, n) /\ Idle(s, n) /\ s.tbclist = L.tbclist
    BY <1>2, <1>3, <1>4, <1>8, <1>9, <2>2
  <2> HIDE DEF n
  <2> QED  BY ONLY <2>3, <2>4, SameMeaning
<1> DEFINE n == 1
           func == 2
           p == FALSE
<1>11. /\ Poised(L, s, c, n, p) /\ p \in BOOLEAN /\ Like(s, Activations(s), n) /\ MayCall(s, c, n, n, func, MULTRET)
       /\ func = Len(s.stack) /\ n = 1 /\ p = FALSE
  <2>1. Like(s, Activations(s), n)
    <3>1. n = Len(s.ci) /\ n \in Nat /\ n > 0 /\ ~Protecting(s, n)
      BY <1>4, <1>8
    <3> HIDE DEF n
    <3> QED  BY <1>9, <3>1, LikeSelf
  <2>2. \A a \in 1..Len(s.tbclist) : s.tbclist[a] < Len(s.stack)
    BY <1>3, <1>6
  <2> QED  BY <1>3, <1>4, <1>8, <1>9, <1>10, <2>1, <2>2 DEF Poised
<1>12. /\ s.cs[n].t # "exec" /\ s.cs[n].t # "cfn" /\ 0 \in {0, 1} /\ 0 <= 0
       /\ CallsNext(s.cs[n], [t |-> "ccall", inc |-> 0, y |-> 0])
  BY <1>3 DEF ResumeEntry
<1> DEFINE x == ccall(s, func, MULTRET, 0, 0, kind)
           al == Activations(s)
<1>13. L' = x
  BY <1>1
<1> HIDE DEF n, func, p, x, al
<1>14. Called(s, x, n, func) \/ (ErrorMeant(s, x, al, message) /\ (0 > 0 \/ n = MaxFrames \/ s.nc = MaxCcalls))
  BY <1>11, <1>12, CcallMeans DEF x, al
<1>15. Called(s, x, n, Len(s.stack))
  <2>1. MaxFrames \in Nat /\ MaxCcalls \in Nat /\ MaxCcalls > 1 /\ MaxFrames > 1
    BY Bounds
  <2>2. ~(0 > 0) /\ 1 # MaxFrames /\ 1 # MaxCcalls
    BY ONLY <2>1
  <2> QED  BY <1>3, <1>11, <1>14, <2>2
<1>16. EnterMeant(L, x, p)
  BY <1>11, <1>15, CalledMeans
<1> QED  BY <1>11, <1>13, <1>16

-----------------------------------------------------------------------------
(* Errors and yields of the function in control *)

(* What a function of the program is to LauScope while it runs. *)
Runner(s, d, m, n) ==
  /\ Running(s, d, m, n) /\ \A by \in Protected : Handlers(s, by, n) = {}
  /\ Base(s, d) /\ Skeleton(s, d) /\ s \in State /\ s.status = "ok" /\ Alive(s)
  /\ m \in Nat /\ m > 0 /\ m = Len(s.cs) /\ n \in Nat /\ n > 1 /\ n = Len(s.ci) /\ n \in 1..n
  /\ d[m] = n /\ s.ci[n] \in CallInfo /\ s.cs[m].t # "reset"
  /\ ~s.ci[n].clsret /\ s.ci[n].recst = "ok" /\ s.ci[n].pc = "run" /\ ~s.ci[n].ypcall
  /\ Idle(s, n) /\ ~Protecting(s, n) /\ Like(s, Activations(s), n)

(* A function of the program in control, between two operations, is a Runner. *)
LEMMA RunnerIs ==
  ASSUME NEW s, NEW d, NEW m, NEW n, Running(s, d, m, n), ~NestedClose, s.ci[n].pc = "run",
         ~s.ci[n].ypcall
  PROVE  Runner(s, d, m, n)
<1>1. /\ \A by \in Protected : Handlers(s, by, n) = {}
      /\ Base(s, d) /\ Skeleton(s, d) /\ s \in State /\ s.status = "ok" /\ Alive(s)
      /\ m \in Nat /\ m > 0 /\ m = Len(s.cs) /\ n \in Nat /\ n > 1 /\ n = Len(s.ci)
      /\ d[m] = n /\ n \in 1..n /\ s.ci[n] \in CallInfo /\ s.cs[m].t # "reset"
      /\ ~s.ci[n].clsret /\ s.ci[n].recst = "ok"
  BY Unhandled
<1>2. Idle(s, n) /\ (Protecting(s, n) <=> s.ci[n].ypcall)
  <2>1. s.ci[n].pc \in {"run", "call", "index", "add"}
    OBVIOUS
  <2> QED  BY <1>1, <2>1, RunningIsIdle
<1>3. n > 0
  BY <1>1
<1>4. Like(s, Activations(s), n)
  BY <1>1, <1>2, <1>3, LikeSelf
<1> QED  BY <1>1, <1>2, <1>4 DEF Runner

(* The errors that a function raises, and the lack of memory, are errors of LauScope. *)
LEMMA RaiseMeans ==
  ASSUME CInv(L), ~NestedClose, NEW e \in Error, RaiseError(e)
  PROVE  ErrorMeant(L, L', Activations(L), e)
<1> DEFINE m == Len(L.cs)
           n == Len(L.ci)
<1>1. PICK d \in [Nat -> Nat] : Running(L, d, m, n) /\ L.ci[n].pc = "run" /\ ~L.ci[n].ypcall
  BY RunsFunction DEF RaiseError
<1> HIDE DEF m, n
<1>2. Runner(L, d, m, n)
  BY <1>1, RunnerIs
<1>3. L' = runerror(L, e)
  BY DEF RaiseError
<1>4. ErrorMeant(L, runerror(L, e), Activations(L), e)
  BY <1>2, FailMeans DEF Runner
<1> QED  BY <1>3, <1>4

(* A memory error means an error of LauScope that has the status as its object. *)
LEMMA MemoryErrorMeans ==
  ASSUME CInv(L), ~NestedClose, MemoryError
  PROVE  ErrorMeant(L, L', Activations(L), "mem")
<1> DEFINE m == Len(L.cs)
           n == Len(L.ci)
<1>1. PICK d \in [Nat -> Nat] : Running(L, d, m, n) /\ L.ci[n].pc = "run" /\ ~L.ci[n].ypcall
  BY RunsFunction DEF MemoryError
<1> HIDE DEF m, n
<1>2. Runner(L, d, m, n)
  BY <1>1, RunnerIs
<1>3. L' = throw(L, "mem")
  BY DEF MemoryError
<1>4. ErrorMeant(L, throw(L, "mem"), Activations(L), "mem")
  BY <1>2, NoMemoryMeans DEF Runner
<1> QED  BY <1>3, <1>4

(* The frames are those of before, but for what the last one does. *)
LEMMA UnderSame ==
  ASSUME NEW s, NEW d, Base(s, d), NEW t, NEW n, n = Len(s.ci), Len(t.ci) = n,
         \A i \in 1..(n - 1) : t.ci[i] = s.ci[i],
         t.ci[n].func = s.ci[n].func, t.ci[n].args = s.ci[n].args,
         SameHandlers(s, t, n - 1), t.tbclist = s.tbclist,
         \A p \in 1..(s.ci[n].func - 1) : t.stack[p] = s.stack[p]
  PROVE  Under(s, t, n)
<1>1. n \in Nat /\ n \in 1..n
  <2>1. n \in Nat
    BY StateType DEF Base, Skeleton
  <2> QED  BY <2>1, RunningFrame
<1>2. \A p : Older(t, p) = Older(s, p)
  BY OlderSame
<1> QED  BY <1>1, <1>2 DEF Under

(* A C function that may yield is in no protected call of the C stack. *)
LEMMA YieldMeans ==
  ASSUME NEW s, NEW d, NEW m, NEW n, Runner(s, d, m, n), s.nny = 0,
         NEW t, NEW g, Len(t.ci) = n, \A i \in 1..(n - 1) : t.ci[i] = s.ci[i], t.ci[n] = g,
         g.func = s.ci[n].func, g.args = s.ci[n].args, g.pc = "run", ~g.clsret, ~g.ypcall,
         t.tbclist = s.tbclist, t.stack = s.stack, Alive(t), Len(t.cs) = 0
  PROVE  Same(s, t)
<1>1. \A j \in 1..Len(s.cs) : ~Try(s.cs[j], Protected)
  <2>1. Running(s, d, m, n) /\ m = Len(s.cs)
    BY DEF Runner
  <2> QED  BY <2>1, NoBarrier
<1>2. SameHandlers(s, t, n)
  <2>1. /\ Len(s.cs) \in Nat /\ Len(t.cs) \in Nat /\ 0 \in Nat /\ 0 <= Len(s.cs) /\ 0 <= Len(t.cs)
        /\ \A j \in 1..0 : t.cs[j] = s.cs[j]
    BY DEF Runner
  <2>2. /\ \A j \in (0 + 1)..Len(s.cs) : Try(s.cs[j], Protected) => ~(s.cs[j].ci \in 1..n)
        /\ \A j \in (0 + 1)..Len(t.cs) : Try(t.cs[j], Protected) => ~(t.cs[j].ci \in 1..n)
    <3>1. \A j \in (0 + 1)..Len(s.cs) : j \in 1..Len(s.cs)
      BY <2>1
    <3>2. \A j \in (0 + 1)..Len(t.cs) : FALSE
      BY <2>1
    <3> QED  BY ONLY <1>1, <3>1, <3>2
  <2> QED  BY ONLY <2>1, <2>2, HandlersCut
<1>3. SameHandlers(s, t, n - 1)
  <2>1. n \in Nat
    BY DEF Runner
  <2>2. \A i \in 1..(n - 1) : i \in 1..n
    BY <2>1
  <2> QED  BY ONLY <1>2, <2>2 DEF SameHandlers
<1>4. Under(s, t, n)
  <2>1. Base(s, d) /\ n = Len(s.ci)
    BY DEF Runner
  <2> QED  BY <1>3, <2>1, UnderSame
<1>5. Idle(t, n)
  <2>1. \A by \in Protected : Handlers(t, by, n) = {}
    BY <1>2 DEF SameHandlers, Runner
  <2>2. ~t.ci[n].clsret /\ t.ci[n].pc \in {"run", "call", "index", "add"}
    OBVIOUS
  <2>3. Unwinding(t, n) = NoUnwinding
    BY <2>1 DEF Unwinding, Protected
  <2> QED  BY <2>2, <2>3 DEF Idle
<1> QED  BY <1>4, <1>5, SameMeaning DEF Runner

(* To the functions of the coroutine a yield takes no time; where none is allowed
   it is an error. *)
LEMMA yieldkMeans ==
  ASSUME CInv(L), ~NestedClose, NEW k \in BOOLEAN, yieldk(k)
  PROVE  Same(L, L') \/ ErrorMeant(L, L', Activations(L), message)
<1> DEFINE m == Len(L.cs)
           n == Len(L.ci)
           g == YieldingBy(CI, k)
           s == SetCI(L, g)
           t == throw([s EXCEPT !.status = "yield"], "yield")
<1>1. PICK d \in [Nat -> Nat] : /\ Top(L, d) /\ Running(L, d, m, n) /\ L.cs[m].t = "cfn"
                                /\ CI = L.ci[n] /\ CI.pc = "run" /\ ~CI.ypcall
  BY InCRuns DEF yieldk
<1>2. m = Len(L.cs) /\ n = Len(L.ci) /\ g = YieldingBy(CI, k) /\ s = SetCI(L, g)
  OBVIOUS
<1>3. ~yieldable(L) => L' = runerror(L, message)
  BY DEF yieldk
<1>4. yieldable(L) => L' = t
  <2>1. SetCI([L EXCEPT !.status = "yield"], g) = [s EXCEPT !.status = "yield"]
    BY <1>1 DEF SetCI, State, Running, InControl
  <2> QED  BY <2>1 DEF yieldk, YieldingBy
<1>5. t = throw([s EXCEPT !.status = "yield"], "yield")
  OBVIOUS
<1> HIDE DEF m, n, g, s, t
<1>6. Runner(L, d, m, n)
  BY <1>1, RunnerIs
<1>7. CASE ~yieldable(L)
  <2>1. message \in Error
    BY Bounds
  <2>2. ErrorMeant(L, runerror(L, message), Activations(L), message)
    BY <1>6, <2>1, FailMeans DEF Runner
  <2> QED  BY <1>3, <1>7, <2>2
<1>8. CASE yieldable(L)
  <2>7. Yielding(s, d, m, n, g)
    <3>1. /\ CInv(L) /\ k \in BOOLEAN /\ yieldable(L) /\ d \in [Nat -> Nat]
          /\ m = Len(L.cs) /\ n = Len(L.ci) /\ Top(L, d) /\ Running(L, d, m, n) /\ L.cs[m].t = "cfn"
          /\ CI = L.ci[n] /\ CI.pc = "run" /\ ~CI.ypcall
          /\ g = YieldingBy(CI, k) /\ s = SetCI(L, g)
      BY <1>1, <1>2, <1>8
    <3> QED  BY ONLY <3>1, YieldingFrame
  <2>1. /\ Running(s, d, m, n) /\ Framed(L, s, g)
        /\ s.nny = 0 /\ s.cs[m].t = "cfn" /\ ~s.ci[n].ypcall /\ ~Returning(s.ci[n])
        /\ s.ci[n].pc # "top"
        /\ g.func = L.ci[n].func /\ g.args = L.ci[n].args /\ g.pc = "run" /\ ~g.clsret /\ ~g.ypcall
    BY <2>7 DEF Yielding
  <2>2. /\ t.ci = s.ci /\ t.stack = s.stack /\ t.tbclist = s.tbclist
        /\ t.status = "yield" /\ Len(t.cs) = 0
    BY <1>5, <2>1, YieldsTo
  <2>3. /\ Len(t.ci) = n /\ (\A i \in 1..(n - 1) : t.ci[i] = L.ci[i]) /\ t.ci[n] = g
        /\ t.tbclist = L.tbclist /\ t.stack = L.stack
    BY <1>2, <2>1, <2>2 DEF Framed, SameCounts
  <2>4. Alive(t)
    BY <2>2 DEF Alive, ErrorStatus
  <2>5. L.nny = 0
    BY <1>8 DEF yieldable
  <2>6. Same(L, t)
    BY ONLY <1>6, <2>1, <2>2, <2>3, <2>4, <2>5, YieldMeans
  <2> QED  BY <1>4, <1>8, <2>6
<1> QED  BY <1>7, <1>8

-----------------------------------------------------------------------------
(* To-be-closed variables *)

(* The marks are positions of the stack, each above the one before. *)
LEMMA MarksAt ==
  ASSUME NEW s, NEW d, Base(s, d)
  PROVE  /\ Sorted(s) /\ Len(s.tbclist) \in Nat /\ Len(s.stack) \in Nat /\ s.tbclist \in Seq(Nat)
         /\ \A a \in 1..Len(s.tbclist) : /\ s.tbclist[a] \in Nat /\ s.tbclist[a] > 1
                                         /\ s.tbclist[a] <= Len(s.stack)
                                         /\ s.tbclist[a] \in 1..Len(s.stack)
                                         /\ s.tbclist[a] < Len(s.stack) + 1
<1>1. s \in State /\ Variables(s)
  BY DEF Base, Skeleton
<1>2. Sorted(s) /\ Len(s.tbclist) \in Nat /\ Len(s.stack) \in Nat /\ s.tbclist \in Seq(Nat)
  BY <1>1, AreSorted, StateType
<1>3. \A a \in 1..Len(s.tbclist) : s.tbclist[a] \in Nat /\ s.tbclist[a] > 1
                                   /\ s.tbclist[a] <= Len(s.stack)
  BY <1>1, VariablesBelow
<1>4. \A x, y \in Nat : x > 1 /\ x <= y => x \in 1..y /\ x < y + 1
  OBVIOUS
<1> QED  BY <1>2, <1>3, <1>4

DeclareMeant(s, t, v) ==
  Activations(t) = Activations(s) /\ Pending(t) = Append(Pending(s), v)

(* A variable is marked as to be closed: it is the last one of the running function. *)
LEMMA ToCloseMeans ==
  ASSUME CInv(L), ~NestedClose, NEW v \in Var, ToClose(v)
  PROVE  DeclareMeant(L, L', v)
<1> DEFINE m == Len(L.cs)
           n == Len(L.ci)
           x == Len(L.stack)
           l == x + 1
           g == L'.ci[n]
           f == L.ci[n]
           h == [CI EXCEPT !.tbc = TRUE]
<1>1. PICK d \in [Nat -> Nat] : /\ Running(L, d, m, n) /\ CI = L.ci[n] /\ CI.pc = "run" /\ ~CI.ypcall
  BY RunsFunction DEF ToClose
<1>2. m = Len(L.cs) /\ n = Len(L.ci) /\ g = L'.ci[n] /\ l = x + 1 /\ f = L.ci[n]
      /\ x = Len(L.stack)
  OBVIOUS
<1>3. L \in State /\ n \in Nat /\ n > 1 /\ n \in 1..n /\ CI \in CallInfo /\ Len(L.stack) \in Nat
  BY <1>1, StateType DEF Running, InControl
<1>4. /\ L'.ci = IF InC THEN SetCI(L, h).ci ELSE L.ci
      /\ L'.stack = PushStack(L, <<v>>).stack /\ L'.cs = L.cs /\ L'.status = L.status
      /\ L'.tbclist = Append(L.tbclist, Len(PushStack(L, <<v>>).stack))
  BY <1>3 DEF ToClose, SetCI, PushStack, State
<1>5. /\ L.ci \in Seq(CallInfo) /\ L.stack \in Seq(StackValue) /\ L.tbclist \in Seq(Nat)
      /\ Len(L.tbclist) \in Nat
  BY <1>3, StateType
<1>17. /\ h \in CallInfo /\ h.func = CI.func /\ h.args = CI.args /\ h.pc = CI.pc
       /\ (h.clsret <=> CI.clsret) /\ (h.ypcall <=> CI.ypcall) /\ h.recst = CI.recst
  BY <1>3 DEF CallInfo
<1> HIDE DEF m, n, x, l, g, f, h
<1>6. Runner(L, d, m, n)
  BY <1>1, RunnerIs
<1>20. x \in Nat /\ l = x + 1
  BY <1>2, <1>3
<1>18. x \in Nat /\ l \in Nat /\ \A p \in 1..x : p \in Nat /\ p < l
  BY ONLY <1>20
<1>7. /\ OneMore(L, L', l)
      /\ (\A p \in 1..x : L'.stack[p] = L.stack[p]) /\ L'.stack[l] = v
  <2> DEFINE u == PushStack(L, <<v>>)
             q == <<v>>
  <2>1. q \in Seq(StackValue) /\ Len(q) = 1 /\ q[1] = v
    BY DEF StackValue
  <2>2. L'.stack = u.stack /\ L'.tbclist = Append(L.tbclist, Len(u.stack)) /\ u = PushStack(L, q)
    BY <1>4
  <2> HIDE DEF u, q
  <2>3. Grown(L, u, q)
    BY <1>3, <2>1, <2>2, PushStackIs
  <2>4. Len(u.stack) = l /\ \A p \in 1..x : u.stack[p] = L.stack[p]
    BY <1>2, <2>1, <2>3 DEF Grown
  <2>5. u.stack[l] = v
    <3>1. 1 \in 1..Len(q)
      BY <2>1
    <3>2. \A i \in 1..Len(q) : u.stack[x + i] = q[i]
      BY <1>2, <2>3 DEF Grown
    <3>3. u.stack[x + 1] = q[1]
      BY <3>1, <3>2
    <3> QED  BY <1>2, <2>1, <3>3
  <2> QED  BY <2>2, <2>4, <2>5 DEF OneMore
<1>8. /\ Len(L'.ci) = n /\ \A i \in 1..(n - 1) : L'.ci[i] = L.ci[i]
      /\ g.func = f.func /\ g.args = f.args /\ g.pc = f.pc
      /\ (g.clsret <=> f.clsret) /\ (g.ypcall <=> f.ypcall) /\ g.recst = f.recst
  <2>1. CASE InC
    <3>1. L'.ci = SetCI(L, h).ci
      BY <1>4, <2>1
    <3>2. Len(L.ci) > 0
      <4>1. n > 0
        BY ONLY <1>3
      <4> QED  BY ONLY <1>2, <4>1
    <3>3. Framed(L, SetCI(L, h), h)
      BY <1>3, <1>17, <3>2, SetCIIs
    <3>4. Len(L'.ci) = n /\ (\A i \in 1..(n - 1) : L'.ci[i] = L.ci[i]) /\ L'.ci[n] = h
      BY <1>2, <3>1, <3>3 DEF Framed
    <3> QED  BY <1>1, <1>2, <1>17, <3>4
  <2>2. CASE ~InC
    BY <1>2, <1>4, <2>2
  <2> QED  BY <2>1, <2>2
<1>9. Sorted(L) /\ \A a \in 1..Len(L.tbclist) : L.tbclist[a] \in 1..x /\ L.tbclist[a] < l
  BY <1>2, <1>6, MarksAt DEF Runner
<1>10. Pending(L') = Append(Pending(L), v)
  <2>2. \A a \in 1..Len(L.tbclist) : L'.stack[L.tbclist[a]] = L.stack[L.tbclist[a]]
    BY ONLY <1>7, <1>9
  <2>3. Pending(L') = Append(Pending(L), L'.stack[l])
    <3>1. Sorted(L)
      BY <1>9
    <3>2. l \in Nat
      BY <1>18
    <3>3. OneMore(L, L', l)
      BY <1>7
    <3> QED  BY ONLY <2>2, <3>1, <3>2, <3>3, PendingAppend
  <2> QED  BY <1>7, <2>3
<1>19. f.func \in Nat /\ f.func <= x
  BY <1>2, <1>3, <1>6, RunningFrame DEF Runner
<1>11. \A p \in Nat : p <= f.func => Older(L', p) = Older(L, p)
  <2> TAKE p \in Nat
  <2>1. p <= f.func => p <= l
    BY ONLY <1>18, <1>19, <1>20, p \in Nat
  <2>2. \A a \in 1..Len(L.tbclist) : L.tbclist[a] < l
    BY <1>9
  <2>3. Sorted(L)
    BY <1>9
  <2>4. l \in Nat
    BY <1>18
  <2>5. OneMore(L, L', l)
    BY <1>7
  <2> QED  BY ONLY <2>1, <2>2, <2>3, <2>4, <2>5, p \in Nat, OlderAppend
<1>12. \A r : SameHandlers(L, L', r) /\ \A by, i : Handlers(L', by, i) = Handlers(L, by, i)
  BY <1>4 DEF SameHandlers, Handlers
<1>13. Under(L, L', n)
  <2>1. \A p \in 1..(f.func - 1) : L'.stack[p] = L.stack[p]
    <3>1. \A p \in 1..(f.func - 1) : p \in 1..x
      BY ONLY <1>18, <1>19
    <3> QED  BY ONLY <1>7, <3>1
  <2>2. n \in 1..Len(L.ci) /\ n \in 1..Len(L'.ci)
    BY <1>2, <1>3, <1>8
  <2> QED  BY <1>2, <1>8, <1>11, <1>12, <2>1, <2>2 DEF Under
<1>14. Idle(L', n)
  <2>1. \A by \in Protected : Handlers(L', by, n) = {}
    BY <1>6, <1>12 DEF Runner
  <2>2. /\ L'.ci[n].recst = "ok" /\ ~L'.ci[n].clsret /\ L'.ci[n].pc \in {"run", "call", "index", "add"}
    BY <1>2, <1>6, <1>8 DEF Runner
  <2> QED  BY <2>1, <2>2, RunningIsIdle
<1>15. ActivationOf(L', n) = ActivationOf(L, n)
  BY <1>6, <1>13, <1>14, IdleStays DEF Runner
<1>16. Activations(L') = Activations(L)
  <2>1. Alive(L')
    BY <1>4, <1>6 DEF Alive, Runner
  <2>2. /\ Skeleton(L, d) /\ n \in Nat /\ n = Len(L.ci) /\ Len(L'.ci) = n /\ Alive(L)
    BY <1>6, <1>8 DEF Runner
  <2> QED  BY ONLY <1>13, <1>15, <2>1, <2>2, ActsStay
<1> QED  BY <1>10, <1>16 DEF DeclareMeant

-----------------------------------------------------------------------------
(* Blocks and functions that end *)

(* the same handlers that catch errors *)
SameTries(s, t) == \A r : SameHandlers(s, t, r)

(* C functions that catch no error may come and go above others. *)
LEMMA KeepsTries ==
  ASSUME NEW s, NEW t, NEW k \in Nat, Len(s.cs) \in Nat, Len(t.cs) \in Nat, k <= Len(s.cs),
         k <= Len(t.cs), \A j \in 1..k : t.cs[j] = s.cs[j],
         \A j \in (k + 1)..Len(s.cs) : ~Try(s.cs[j], Protected),
         \A j \in (k + 1)..Len(t.cs) : ~Try(t.cs[j], Protected)
  PROVE  SameTries(s, t)
<1> SUFFICES ASSUME NEW r PROVE SameHandlers(s, t, r)
  BY DEF SameTries
<1>1. /\ \A j \in (k + 1)..Len(s.cs) : Try(s.cs[j], Protected) => ~(s.cs[j].ci \in 1..r)
      /\ \A j \in (k + 1)..Len(t.cs) : Try(t.cs[j], Protected) => ~(t.cs[j].ci \in 1..r)
  OBVIOUS
<1> QED  BY <1>1, HandlersCut

(* Where all frames keep their handlers, each keeps those of each kind. *)
LEMMA TriesKept ==
  ASSUME NEW s, NEW t, SameTries(s, t), NEW r \in Nat, NEW by \in Protected
  PROVE  SameHandlers(s, t, r) /\ (r > 0 => Handlers(t, by, r) = Handlers(s, by, r))
<1>1. SameHandlers(s, t, r)
  BY DEF SameTries
<1>2. r > 0 => r \in 1..r
  OBVIOUS
<1> QED  BY <1>1, <1>2 DEF SameHandlers

(* The last frame of s has become g in t, and what is below it is the same. *)
Alters(s, t, n, g) ==
  /\ Len(t.ci) = n /\ (\A i \in 1..(n - 1) : t.ci[i] = s.ci[i]) /\ t.ci[n] = g
  /\ g.func = s.ci[n].func /\ g.args = s.ci[n].args
  /\ t.tbclist = s.tbclist /\ Alive(t) /\ SameTries(s, t)
  /\ \A p \in 1..(s.ci[n].func - 1) : t.stack[p] = s.stack[p]
  /\ \A a \in 1..Len(s.tbclist) : t.stack[s.tbclist[a]] = s.stack[s.tbclist[a]]

(* The same, where a handler of the frame itself may go. *)
Turns(s, t, n, g) ==
  /\ Len(t.ci) = n /\ (\A i \in 1..(n - 1) : t.ci[i] = s.ci[i]) /\ t.ci[n] = g
  /\ g.func = s.ci[n].func /\ g.args = s.ci[n].args
  /\ t.tbclist = s.tbclist /\ Alive(t) /\ SameHandlers(s, t, n - 1)
  /\ \A p \in 1..(s.ci[n].func - 1) : t.stack[p] = s.stack[p]
  /\ \A a \in 1..Len(s.tbclist) : t.stack[s.tbclist[a]] = s.stack[s.tbclist[a]]

(* A frame that keeps its handlers too is one that changes. *)
LEMMA AltersTurns ==
  ASSUME NEW s, NEW t, NEW n, NEW g, Alters(s, t, n, g)
  PROVE  Turns(s, t, n, g)
BY DEF Alters, Turns, SameTries

(* A frame that changes leaves what lies under it, and the variables, alone. *)
LEMMA TurnsUnder ==
  ASSUME NEW s, NEW d, Base(s, d), NEW t, NEW n, n = Len(s.ci), NEW g, Turns(s, t, n, g)
  PROVE  /\ Under(s, t, n) /\ Pending(t) = Pending(s) /\ Skeleton(s, d) /\ n \in Nat /\ n > 0
         /\ \A p : Older(t, p) = Older(s, p)
<1>1. n \in Nat /\ n > 0 /\ n - 1 \in Nat /\ n \in 1..n
  <2>1. n \in Nat
    BY StateType DEF Base, Skeleton
  <2>2. n > 0
    BY <2>1, RunningFrame
  <2> QED  BY ONLY <2>1, <2>2
<1>2. SameHandlers(s, t, n - 1)
  BY DEF Turns
<1>3. Under(s, t, n)
  BY <1>2, UnderSame DEF Turns
<1>4. Pending(t) = Pending(s)
  BY MarksAt, PendingStays DEF Turns
<1>5. \A p : Older(t, p) = Older(s, p)
  BY OlderSame DEF Turns
<1> QED  BY <1>1, <1>3, <1>4, <1>5 DEF Base

(* So does one that keeps its handlers. *)
LEMMA AltersUnder ==
  ASSUME NEW s, NEW d, Base(s, d), NEW t, NEW n, n = Len(s.ci), NEW g, Alters(s, t, n, g)
  PROVE  /\ Under(s, t, n) /\ Pending(t) = Pending(s) /\ Skeleton(s, d) /\ n \in Nat /\ n > 0
         /\ \A p : Older(t, p) = Older(s, p)
<1>1. Turns(s, t, n, g)
  BY AltersTurns
<1>2. Under(s, t, n) /\ Pending(t) = Pending(s) /\ Skeleton(s, d) /\ n \in Nat /\ n > 0
  BY <1>1, TurnsUnder
<1>3. \A p : Older(t, p) = Older(s, p)
  BY OlderSame DEF Alters
<1> QED  BY <1>2, <1>3

AlterMeant(s, t, n, phase, keep) ==
  /\ Activations(t) = [Activations(s) EXCEPT ![n] = Became(ActivationOf(s, n), phase, keep, <<>>)]
  /\ Pending(t) = Pending(s) /\ Len(Activations(s)) = n /\ Last(Activations(s)) = ActivationOf(s, n)

(* The running frame starts or stops to close variables. *)
LEMMA TurnMeans ==
  ASSUME NEW s, NEW d, Base(s, d), NEW t, NEW n, n = Len(s.ci), NEW g, Turns(s, t, n, g),
         Alive(s), Unwinding(t, n) = NoUnwinding, NEW ph, ph = Phase(g, NoUnwinding)
  PROVE  AlterMeant(s, t, n, ph, Keep(t, n, ph, NoUnwinding))
<1>1. Under(s, t, n) /\ Pending(t) = Pending(s) /\ Skeleton(s, d) /\ n \in Nat
  BY TurnsUnder
<1> DEFINE u == NoUnwinding
           k == Keep(t, n, ph, u)
           h == Handled(t, n, u)
<1>2. ph = Phase(t.ci[n], u) /\ u = Unwinding(t, n) /\ k = Keep(t, n, ph, u) /\ h = Handled(t, n, u)
  BY DEF Turns
<1>3. h = <<>>
  BY DEF Handled, NoUnwinding
<1>4. u = NoUnwinding
  OBVIOUS
<1> HIDE DEF u, k, h
<1>5. ActivationOf(t, n) = Became(ActivationOf(s, n), ph, k, h)
  <2>1. Skeleton(s, d) /\ Under(s, t, n)
    BY <1>1
  <2>2. ActivationOf(t, n) = Became(ActivationOf(s, n), ph, Keep(t, n, ph, u), Handled(t, n, u))
    BY ONLY <1>2, <2>1, TopIs
  <2> QED  BY <1>2, <2>2
<1>6. /\ Len(Activations(s)) = n /\ Last(Activations(s)) = ActivationOf(s, n)
      /\ Activations(t) = [Activations(s) EXCEPT ![n] = ActivationOf(t, n)]
  <2>1. Len(t.ci) = n /\ Alive(t)
    BY DEF Turns
  <2> QED  BY <1>1, <2>1, ActsAlter
<1>7. AlterMeant(s, t, n, ph, k)
  BY <1>1, <1>3, <1>5, <1>6 DEF AlterMeant
<1> QED  BY <1>2, <1>4, <1>7

(* The activation of a frame that changes goes on in the phase that its fields say. *)
LEMMA AlterMeans ==
  ASSUME NEW s, NEW d, Base(s, d), NEW t, NEW n, n = Len(s.ci), NEW g, Alters(s, t, n, g),
         Alive(s), Unwinding(t, n) = NoUnwinding, NEW ph, ph = Phase(g, NoUnwinding)
  PROVE  AlterMeant(s, t, n, ph, Keep(t, n, ph, NoUnwinding))
<1>1. Turns(s, t, n, g)
  BY AltersTurns
<1> QED  BY <1>1, TurnMeans

-----------------------------------------------------------------------------
(* Loops that start *)

(* To keep the handlers is transitive. *)
LEMMA TriesThrough ==
  ASSUME NEW s, NEW u, NEW t, SameTries(s, u), SameTries(u, t)
  PROVE  SameTries(s, t)
BY DEF SameTries, SameHandlers

(* Functions may have come and gone and values been pushed; the frames are the same. *)
Grew(s, u) ==
  /\ u \in State /\ u.ci = s.ci /\ u.tbclist = s.tbclist /\ Alive(u) /\ SameTries(s, u)
  /\ Len(s.stack) <= Len(u.stack) /\ \A p \in 1..Len(s.stack) : u.stack[p] = s.stack[p]

(* What is below the base of a frame, and the marked slots, are the same. *)
LEMMA GrewBelow ==
  ASSUME NEW s, NEW d, Base(s, d), NEW u, Grew(s, u), NEW i \in 1..Len(s.ci)
  PROVE  /\ \A p \in 1..(s.ci[i].func - 1) : u.stack[p] = s.stack[p]
         /\ \A a \in 1..Len(s.tbclist) : u.stack[s.tbclist[a]] = s.stack[s.tbclist[a]]
<1>1. s.ci[i].func \in 1..Len(s.stack) /\ Len(s.stack) \in Nat
  BY BaseType
<1>2. \A p \in 1..(s.ci[i].func - 1) : p \in 1..Len(s.stack)
  BY ONLY <1>1
<1>3. \A a \in 1..Len(s.tbclist) : s.tbclist[a] \in 1..Len(s.stack)
  BY MarksAt
<1>4. \A p \in 1..Len(s.stack) : u.stack[p] = s.stack[p]
  BY DEF Grew
<1> QED  BY ONLY <1>2, <1>3, <1>4

(* A frame that starts a loop of lauF_close changes itself only. *)
LEMMA StartsLoop ==
  ASSUME NEW s, NEW d, Base(s, d), NEW n, n = Len(s.ci), NEW u, Grew(s, u), NEW g \in CallInfo,
         g.func = s.ci[n].func, g.args = s.ci[n].args, NEW e \in CloseC,
         NEW t, t = PushC(SetCI(u, g), e)
  PROVE  Alters(s, t, n, g)
<1> DEFINE w == SetCI(u, g)
<1>1. u \in State /\ u.ci = s.ci /\ u.tbclist = s.tbclist /\ Alive(u) /\ SameTries(s, u)
  BY DEF Grew
<1>2. n \in Nat /\ n > 0 /\ n \in 1..n
  <2>1. n \in Nat
    BY BaseType
  <2> QED  BY <2>1, RunningFrame
<1>3. Framed(u, w, g)
  BY <1>1, <1>2, SetCIIs
<1>4. t = PushC(w, e) /\ e \in CFunction
  BY DEF CFunction
<1> HIDE DEF w
<1>5. w \in State
  BY <1>3 DEF Framed
<1>6. Pushed(w, t, e)
  BY <1>4, <1>5, PushCIs
<1>7. /\ Len(t.ci) = n /\ (\A i \in 1..(n - 1) : t.ci[i] = s.ci[i]) /\ t.ci[n] = g
      /\ t.tbclist = s.tbclist /\ t.stack = u.stack /\ t.status = u.status
      /\ t \in State /\ w.cs = u.cs
  BY <1>1, <1>3, <1>6 DEF Framed, Pushed, SameCounts
<1>8. SameTries(u, t)
  <2> DEFINE k == Len(u.cs)
  <2>1. k \in Nat /\ Len(t.cs) \in Nat
    BY <1>1, <1>7, StateType
  <2>2. k <= Len(u.cs) /\ Len(t.cs) = k + 1 /\ t.cs[k + 1] = e /\ \A j \in 1..k : t.cs[j] = u.cs[j]
    BY <1>6, <1>7, <2>1 DEF Pushed
  <2>3. e.t = "close"
    BY DEF CloseC
  <2>4. \A j \in (k + 1)..Len(u.cs) : ~Try(u.cs[j], Protected)
    BY <2>1
  <2>5. \A j \in (k + 1)..Len(t.cs) : ~Try(t.cs[j], Protected)
    <3>1. \A j \in (k + 1)..Len(t.cs) : j = k + 1
      BY ONLY <2>1, <2>2
    <3> QED  BY ONLY <2>2, <2>3, <3>1 DEF Try
  <2>6. k <= Len(t.cs) /\ k <= Len(u.cs) /\ Len(u.cs) \in Nat
    BY ONLY <2>1, <2>2
  <2> HIDE DEF k
  <2> QED  BY ONLY <2>1, <2>2, <2>4, <2>5, <2>6, KeepsTries
<1>9. SameTries(s, t)
  BY <1>1, <1>8, TriesThrough
<1>10. /\ \A p \in 1..(s.ci[n].func - 1) : u.stack[p] = s.stack[p]
       /\ \A a \in 1..Len(s.tbclist) : u.stack[s.tbclist[a]] = s.stack[s.tbclist[a]]
  BY <1>2, GrewBelow
<1> QED  BY <1>1, <1>7, <1>9, <1>10 DEF Alters, Alive

(* A frame without a handler that closes variables unwinds for no error. *)
LEMMA NotUnwinding ==
  ASSUME NEW t, NEW n, Handlers(t, "closep", n) = {}, ~t.ci[n].ypcall \/ t.ci[n].recst = "ok"
  PROVE  Unwinding(t, n) = NoUnwinding
BY DEF Unwinding


-----------------------------------------------------------------------------
(* Blocks that end *)

(* A frame that handles no error and closes no variables, on top of the others. *)
Resting(s, d, n) ==
  /\ Base(s, d) /\ s \in State /\ Alive(s) /\ n \in Nat /\ n > 1 /\ n = Len(s.ci) /\ n \in 1..n
  /\ s.ci[n] \in CallInfo /\ Idle(s, n) /\ \A by \in Protected : Handlers(s, by, n) = {}

(* A function in control closes nothing. *)
LEMMA RunnerRests ==
  ASSUME NEW s, NEW d, NEW m, NEW n, Runner(s, d, m, n)
  PROVE  Resting(s, d, n)
BY DEF Runner, Resting

(* What LauScope sees of a function that runs. *)
LEMMA RestShown ==
  ASSUME NEW s, NEW d, NEW n, Resting(s, d, n)
  PROVE  /\ Len(Activations(s)) = n /\ n > 1 /\ n \in Nat /\ Last(Activations(s)) = ActivationOf(s, n)
         /\ ActivationOf(s, n).phase = "run" /\ ActivationOf(s, n).first = Older(s, s.ci[n].func)
         /\ Len(Pending(s)) = Len(s.tbclist) /\ Len(s.tbclist) \in Nat
<1>1. Base(s, d) /\ n \in Nat /\ n > 1 /\ n = Len(s.ci) /\ Alive(s) /\ Idle(s, n)
  BY DEF Resting
<1>2. n > 0
  BY ONLY <1>1
<1>3. Len(Activations(s)) = n /\ Last(Activations(s)) = ActivationOf(s, n)
  BY <1>1, <1>2, ActsAre
<1>4. ActivationOf(s, n).phase = "run"
  BY <1>1, IdleIs
<1>5. ActivationOf(s, n).first = Older(s, s.ci[n].func)
  BY ActFields
<1>6. Len(s.tbclist) \in Nat
  BY <1>1, MarksAt
<1>7. Len(Pending(s)) = Len(s.tbclist)
  BY <1>6, PendingIs
<1> QED  BY <1>1, <1>3, <1>4, <1>5, <1>6, <1>7

EndBlockMeant(s, t, n, k) ==
  /\ n > 1 /\ ActivationOf(s, n).phase = "run" /\ ActivationOf(s, n).first <= k
  /\ k \in 0..Len(Pending(s)) /\ k < Len(Pending(s)) /\ AlterMeant(s, t, n, "block", k)

(* A frame that closes the variables of a block means the end of one. *)
LEMMA BlockEnds ==
  ASSUME NEW s, NEW d, NEW n, Resting(s, d, n), NEW t, NEW g, Alters(s, t, n, g),
         g.pc \in {"close", "top"}, ~g.ypcall, NEW l \in Nat, l = g.level, s.ci[n].func < l,
         TbcFrom(s, l)
  PROVE  \E k : EndBlockMeant(s, t, n, k)
<1>1. Base(s, d) /\ n = Len(s.ci) /\ n \in Nat /\ Alive(s) /\ s.ci[n].func \in Nat /\ n > 1
  <2>1. Base(s, d) /\ n = Len(s.ci) /\ n \in Nat /\ Alive(s) /\ s.ci[n] \in CallInfo /\ n > 1
    BY DEF Resting
  <2> QED  BY <2>1, FrameType
<1>2. t.ci[n] = g /\ SameTries(s, t) /\ Handlers(s, "closep", n) = {}
  BY DEF Alters, Resting, Protected
<1>3. Handlers(t, "closep", n) = {}
  <2>1. n > 0 /\ "closep" \in Protected
    BY <1>1 DEF Protected
  <2> QED  BY <1>1, <1>2, <2>1, TriesKept
<1>4. Unwinding(t, n) = NoUnwinding
  BY <1>2, <1>3, NotUnwinding
<1> DEFINE k == Older(s, l)
           ph == Phase(g, NoUnwinding)
<1>5. ph = "block"
  BY DEF Phase
<1>6. Keep(t, n, ph, NoUnwinding) = k
  <2>1. Older(t, l) = Older(s, l)
    BY <1>1, AltersUnder
  <2>2. Keep(t, n, "block", NoUnwinding) = Older(t, t.ci[n].level)
    BY DEF Keep
  <2> QED  BY <1>2, <1>5, <2>1, <2>2
<1>7. AlterMeant(s, t, n, ph, Keep(t, n, ph, NoUnwinding))
  <2> HIDE DEF ph
  <2>1. ph = Phase(g, NoUnwinding)
    BY DEF ph
  <2> QED  BY <1>1, <1>4, <2>1, AlterMeans
<1>8. AlterMeant(s, t, n, "block", k)
  BY <1>5, <1>6, <1>7
<1>9. Sorted(s) /\ Len(s.tbclist) \in Nat
  BY <1>1, MarksAt
<1>10. k <= Len(s.tbclist) /\ k # Len(s.tbclist) /\ k \in Nat
  <2>1. k <= Len(s.tbclist) /\ (k = Len(s.tbclist) <=> ~TbcFrom(s, l))
    BY <1>9, OlderAll
  <2>2. k \in Nat
    BY <1>9, OlderSplits
  <2> QED  BY <2>1, <2>2
<1>11. Older(s, s.ci[n].func) <= k
  <2>1. s.ci[n].func <= l
    BY <1>1
  <2> QED  BY <1>1, <1>9, <2>1, OlderGrows
<1> HIDE DEF k
<1>12. k \in 0..Len(s.tbclist) /\ k < Len(s.tbclist)
  BY ONLY <1>9, <1>10
<1>13. Len(Pending(s)) = Len(s.tbclist) /\ ActivationOf(s, n).phase = "run"
       /\ ActivationOf(s, n).first = Older(s, s.ci[n].func)
  BY RestShown
<1> QED  BY <1>1, <1>8, <1>11, <1>12, <1>13 DEF EndBlockMeant

(* A state is grown from itself. *)
LEMMA GrewSelf ==
  ASSUME NEW s, s \in State, Alive(s)
  PROVE  Grew(s, s)
<1>1. SameTries(s, s)
  BY DEF SameTries, SameHandlers
<1>2. Len(s.stack) <= Len(s.stack)
  BY StateType
<1> QED  BY <1>1, <1>2 DEF Grew

(* OP_CLOSE means the end of a block. *)
LEMMA OpCloseMeans ==
  ASSUME CInv(L), ~NestedClose, NEW i \in 1..Len(L.tbclist), OpClose(L.tbclist[i])
  PROVE  \E k : EndBlockMeant(L, L', Len(L.ci), k)
<1> DEFINE m == Len(L.cs)
           n == Len(L.ci)
           level == L.tbclist[i]
           g == [CI EXCEPT !.pc = "close", !.level = level]
           e == [t |-> "close", level |-> level, status |-> "ok", yy |-> TRUE, then |-> "close"]
<1>1. PICK d \in [Nat -> Nat] : Running(L, d, m, n) /\ CI = L.ci[n] /\ CI.pc = "run" /\ ~CI.ypcall
  BY RunsFunction DEF OpClose
<1>2. n = Len(L.ci) /\ CI.func < level /\ L' = PushC(SetCI(L, g), e) /\ TbcFrom(L, level)
  BY DEF OpClose, lauF_close
<1> HIDE DEF m, n
<1>3. Runner(L, d, m, n)
  BY <1>1, RunnerIs
<1>4. CI \in CallInfo /\ Base(L, d) /\ L \in State /\ Alive(L)
  BY <1>1, <1>3 DEF Runner
<1>5. level \in Nat
  BY <1>4, MarksAt
<1> HIDE DEF level
<1>6. /\ g \in CallInfo /\ g.func = CI.func /\ g.args = CI.args /\ g.pc = "close"
      /\ g.level = level /\ g.ypcall = CI.ypcall
  BY <1>4, <1>5 DEF CallInfo
<1>7. e \in CloseC
  BY <1>5 DEF CloseC
<1> HIDE DEF g, e
<1>8. Alters(L, L', n, g)
  <2>1. Grew(L, L)
    BY <1>4, GrewSelf
  <2>2. g.func = L.ci[n].func /\ g.args = L.ci[n].args
    BY <1>1, <1>6
  <2> QED  BY ONLY <1>2, <1>4, <1>6, <1>7, <2>1, <2>2, StartsLoop
<1>9. L.ci[n].func < level /\ ~g.ypcall /\ g.pc \in {"close", "top"}
  BY <1>1, <1>2, <1>6
<1>10. \E k : EndBlockMeant(L, L', n, k)
  <2>1. Resting(L, d, n)
    BY <1>3, RunnerRests
  <2> QED  BY ONLY <1>2, <1>5, <1>6, <1>8, <1>9, <2>1, BlockEnds
<1> QED  BY <1>10 DEF n


(* A frame that is not touched stays idle. *)
LEMMA IdleKept ==
  ASSUME NEW s, NEW t, NEW n, Idle(s, n), t.cs = s.cs, t.ci[n] = s.ci[n]
  PROVE  Idle(t, n)
<1>1. Handlers(t, "closep", n) = Handlers(s, "closep", n)
  BY DEF Handlers
<1>2. Unwinding(t, n) = Unwinding(s, n)
  BY <1>1 DEF Unwinding
<1> QED  BY <1>2 DEF Idle

(* lau_settop closes the variables it cuts from the stack, if there are any. *)
LEMMA settopMeans ==
  ASSUME CInv(L), ~NestedClose, NEW newtop \in 1..Len(L.stack), settop(newtop)
  PROVE  Same(L, L') \/ \E k : EndBlockMeant(L, L', Len(L.ci), k)
<1> DEFINE m == Len(L.cs)
           n == Len(L.ci)
           g == [CI EXCEPT !.pc = "top", !.level = newtop]
           e == [t |-> "close", level |-> newtop, status |-> "ktop", yy |-> FALSE, then |-> "top"]
<1>1. PICK d \in [Nat -> Nat] : Running(L, d, m, n) /\ CI = L.ci[n] /\ CI.pc = "run" /\ ~CI.ypcall
  BY RunsFunction DEF settop
<1>2. n = Len(L.ci) /\ CI.func < newtop
      /\ L' = IF TbcFrom(L, newtop) THEN PushC(SetCI(L, g), e) ELSE SetTop(L, newtop)
  BY DEF settop, lauF_close
<1> HIDE DEF m, n
<1>3. Runner(L, d, m, n)
  BY <1>1, RunnerIs
<1>4. CI \in CallInfo /\ Base(L, d) /\ L \in State /\ Alive(L)
  BY <1>1, <1>3 DEF Runner
<1>5. newtop \in Nat /\ Len(L.stack) \in Nat /\ newtop \in 1..(Len(L.stack) + 1)
  <2>1. Len(L.stack) \in Nat
    BY <1>4, StateType
  <2> QED  BY <2>1
<1>6. /\ g \in CallInfo /\ g.func = CI.func /\ g.args = CI.args /\ g.pc = "top"
      /\ g.level = newtop /\ g.ypcall = CI.ypcall
  BY <1>4, <1>5 DEF CallInfo
<1>7. e \in CloseC
  BY <1>5 DEF CloseC
<1> HIDE DEF g, e
<1>11. Resting(L, d, n)
  BY <1>3, RunnerRests
<1>8. CASE TbcFrom(L, newtop)
  <2>1. Grew(L, L)
    BY <1>4, GrewSelf
  <2>2. g.func = L.ci[n].func /\ g.args = L.ci[n].args /\ L' = PushC(SetCI(L, g), e)
    BY <1>1, <1>2, <1>6, <1>8
  <2>3. Alters(L, L', n, g)
    BY ONLY <1>2, <1>4, <1>6, <1>7, <2>1, <2>2, StartsLoop
  <2>4. L.ci[n].func < newtop /\ ~g.ypcall /\ g.pc \in {"close", "top"}
    BY <1>1, <1>2, <1>6
  <2>5. \E k : EndBlockMeant(L, L', n, k)
    BY ONLY <1>5, <1>6, <1>8, <1>11, <2>3, <2>4, BlockEnds
  <2> QED  BY <2>5 DEF n
<1>9. CASE ~TbcFrom(L, newtop)
  <2>1. Cut(L, L', newtop)
    BY <1>2, <1>4, <1>5, <1>9, SetTopIs
  <2>2. /\ L'.ci = L.ci /\ L'.cs = L.cs /\ L'.tbclist = L.tbclist /\ L'.status = L.status
        /\ \A p \in 1..(newtop - 1) : L'.stack[p] = L.stack[p]
    BY <2>1 DEF Cut, SameCounts
  <2>3. \A a \in 1..Len(L.tbclist) : L'.stack[L.tbclist[a]] = L.stack[L.tbclist[a]]
    <3> TAKE a \in 1..Len(L.tbclist)
    <3>1. L.tbclist[a] \in Nat /\ L.tbclist[a] > 1
      BY <1>4, MarksAt
    <3>2. ~(L.tbclist[a] >= newtop)
      BY <1>9 DEF TbcFrom
    <3> DEFINE x == L.tbclist[a]
    <3>3. x \in Nat /\ x > 1 /\ ~(x >= newtop)
      BY <3>1, <3>2
    <3> HIDE DEF x
    <3>4. x \in 1..(newtop - 1)
      BY ONLY <1>5, <3>3
    <3> QED  BY <2>2, <3>4 DEF x
  <2>4. \A p \in 1..(L.ci[n].func - 1) : L'.stack[p] = L.stack[p]
    <3>1. L.ci[n].func \in Nat /\ L.ci[n].func < newtop
      BY <1>1, <1>2, <1>4, FrameType
    <3>2. \A p \in 1..(L.ci[n].func - 1) : p \in 1..(newtop - 1)
      BY ONLY <1>5, <3>1
    <3> QED  BY ONLY <2>2, <3>2
  <2>5. Idle(L', n)
    <3>1. Idle(L, n) /\ L'.cs = L.cs /\ L'.ci[n] = L.ci[n]
      BY <1>11, <2>2 DEF Resting
    <3> QED  BY <3>1, IdleKept
  <2>6. SameHandlers(L, L', n - 1)
    BY <2>2 DEF SameHandlers, Handlers
  <2>7. Len(L'.ci) = n /\ (\A i \in 1..(n - 1) : L'.ci[i] = L.ci[i])
        /\ L'.ci[n].func = L.ci[n].func /\ L'.ci[n].args = L.ci[n].args
    BY <1>2, <2>2
  <2>8. Under(L, L', n)
    BY ONLY <1>2, <1>4, <2>2, <2>4, <2>6, <2>7, UnderSame
  <2>9. Alive(L')
    BY <1>4, <2>2 DEF Alive
  <2>10. Idle(L, n) /\ L'.tbclist = L.tbclist
    BY <1>11, <2>2 DEF Resting
  <2>11. Same(L, L')
    BY ONLY <1>2, <1>4, <2>3, <2>5, <2>7, <2>8, <2>9, <2>10, SameMeaning
  <2> QED  BY <2>11
<1> QED  BY <1>8, <1>9


-----------------------------------------------------------------------------
(* Functions that return *)

AtRun(f) == [f EXCEPT !.pc = "run", !.level = 0]

(* moveresults leaves the frames of the caller, of which only the last one, of a Lau
   function that goes on, may have changed. *)
Resumes(u, t, q, n, r) ==
  /\ Len(t.ci) = r /\ (\A i \in 1..(r - 1) : t.ci[i] = u.ci[i])
  /\ t.cs = u.cs /\ t.tbclist = u.tbclist /\ t.status = u.status
  /\ \A p \in 1..(u.ci[n].func - 1) : t.stack[p] = u.stack[p]
  /\ u.ci[n].want = 0 => Len(t.stack) = u.ci[n].func - 1
  /\ u.cs[q].t # "exec" => t.ci[r] = u.ci[r]
  /\ u.cs[q].t = "exec" => t.ci[r] = AtRun(u.ci[r])

(* moveresults resumes the caller with the results. *)
LEMMA ResultsMoved ==
  ASSUME NEW u, NEW c, NEW q, NEW n, NEW nres, MayReturn(u, c, q, n, nres),
         NEW r, r = n - 1, NEW t, t = moveresults(u, nres)
  PROVE  Resumes(u, t, q, n, r)
<1>1. /\ Base(u, c) /\ u \in State /\ n \in Nat /\ n = Len(u.ci) /\ n > 1 /\ nres \in {0, 1}
      /\ u.ci[n].func + nres <= Len(u.stack) /\ q \in Nat /\ q = Len(u.cs) /\ q > 0
  BY DEF MayReturn, Base, Skeleton
<1>2. n \in 1..n /\ r \in Nat /\ r > 0 /\ r \in 1..n /\ r \in 1..r
  BY <1>1
<1>3. u.ci[n] \in CallInfo /\ u.ci[n].func > 0 /\ u.ci[n].func \in Nat /\ u.ci[r] \in CallInfo
  <2>1. \A i \in 1..Len(u.ci) : u.ci[i] \in CallInfo /\ u.ci[i].func \in 1..Len(u.stack)
    BY <1>1, BaseType
  <2>2. u.ci[n] \in CallInfo /\ u.ci[r] \in CallInfo /\ u.ci[n].func \in 1..Len(u.stack)
    BY <1>1, <1>2, <2>1
  <2> QED  BY <2>2
<1>4. PICK y : \E v \in Seq(StackValue) : Returned(u, y, v, n, nres)
  BY <1>1, <1>3, ResultsIn
<1>5. PICK v \in Seq(StackValue) : Returned(u, y, v, n, nres)
  BY <1>4
<1> DEFINE b == PushStack(y, v)
<1>6. /\ t = IF Control(b) = "exec" THEN At(b, "run") ELSE b
      /\ u.ci[n].want = 0 => Len(v) = 0
      /\ y \in State /\ Len(y.ci) = r /\ (\A i \in 1..r : y.ci[i] = u.ci[i])
      /\ Len(y.stack) = u.ci[n].func - 1
      /\ (\A p \in 1..(u.ci[n].func - 1) : y.stack[p] = u.stack[p])
      /\ y.cs = u.cs /\ y.tbclist = u.tbclist /\ y.status = u.status
  BY <1>5 DEF Returned, SameCounts
<1>7. Grown(y, b, v)
  BY <1>6, PushStackIs
<1> HIDE DEF b
<1>8. /\ b \in State /\ b.ci = y.ci /\ b.cs = u.cs /\ b.tbclist = u.tbclist /\ b.status = u.status
      /\ \A p \in 1..(u.ci[n].func - 1) : b.stack[p] = u.stack[p]
      /\ Len(b.stack) = Len(y.stack) + Len(v) /\ Len(v) \in Nat
  BY <1>6, <1>7 DEF Grown, SameCounts
<1>9. u.ci[n].want = 0 => Len(b.stack) = u.ci[n].func - 1
  <2> SUFFICES ASSUME u.ci[n].want = 0 PROVE Len(b.stack) = u.ci[n].func - 1
    OBVIOUS
  <2>1. Len(v) = 0 /\ Len(y.stack) = u.ci[n].func - 1
    BY <1>6
  <2>2. u.ci[n].func - 1 + 0 = u.ci[n].func - 1
    BY <1>3
  <2> QED  BY <1>8, <2>1, <2>2
<1>10. Control(b) = u.cs[q].t
  <2>1. b.cs \in Seq(CFunction) /\ b.cs # <<>>
    BY <1>1, <1>8, StateType
  <2>2. Last(b.cs) = b.cs[Len(b.cs)]
    BY <2>1, FrontLast
  <2> QED  BY <1>1, <1>8, <2>1, <2>2 DEF Control
<1>11. \A i \in 1..(r - 1) : i \in 1..r
  BY <1>2
<1>12. CASE u.cs[q].t # "exec"
  <2>1. t = b
    BY <1>6, <1>10, <1>12
  <2>2. Len(t.ci) = r /\ (\A i \in 1..r : t.ci[i] = u.ci[i])
    BY <1>6, <1>8, <2>1
  <2> QED  BY <1>2, <1>8, <1>9, <1>11, <1>12, <2>1, <2>2 DEF Resumes
<1>13. CASE u.cs[q].t = "exec"
  <2> DEFINE g == AtRun(u.ci[r])
  <2>1. b.ci \in Seq(CallInfo) /\ b.ci # <<>> /\ Len(b.ci) = r
    BY <1>2, <1>6, <1>8, StateType
  <2>2. Last(b.ci) = u.ci[r]
    <3>1. Last(b.ci) = b.ci[r]
      BY <2>1, FrontLast
    <3> QED  BY <1>2, <1>6, <1>8, <3>1
  <2>3. g \in CallInfo
    BY <1>3 DEF AtRun, CallInfo
  <2>4. t = SetCI(b, g)
    BY <1>6, <1>10, <1>13, <2>2 DEF At, AtRun
  <2> HIDE DEF g
  <2>5. Framed(b, t, g)
    BY <1>2, <1>8, <2>1, <2>3, <2>4, SetCIIs
  <2>6. /\ Len(t.ci) = r /\ (\A i \in 1..(r - 1) : t.ci[i] = b.ci[i]) /\ t.ci[r] = g
        /\ t.stack = b.stack /\ t.cs = b.cs /\ t.tbclist = b.tbclist /\ t.status = b.status
    BY <2>1, <2>5 DEF Framed, SameCounts
  <2>7. \A i \in 1..(r - 1) : t.ci[i] = u.ci[i]
    BY <1>6, <1>8, <1>11, <2>6
  <2> QED  BY <1>8, <1>9, <1>13, <2>6, <2>7 DEF Resumes, g
<1> QED  BY <1>12, <1>13


(* An activation is the same if its frame is, and the error being handled. *)
LEMMA SameHandled ==
  ASSUME NEW s, NEW d, Skeleton(s, d), NEW t, NEW n, Under(s, t, n), SameHandlers(s, t, n),
         t.ci[n] = s.ci[n], t.tbclist = s.tbclist,
         NEW u, u = Unwinding(s, n), Handled(t, n, u) = Handled(s, n, u)
  PROVE  ActivationOf(t, n) = ActivationOf(s, n) /\ Unwinding(t, n) = u
<1> DEFINE a == ActivationOf(s, n)
<1>1. Unwinding(t, n) = u
  <2>1. n \in 1..n
    <3>1. n \in 1..Len(s.ci)
      BY DEF Under
    <3> QED  BY <3>1
  <2>2. Len(s.cs) \in Nat
    BY SkeletonType
  <2> QED  BY <2>1, <2>2, SameUnwinding
<1>2. a = ActivationOf(s, n)
  OBVIOUS
<1> HIDE DEF a
<1>3. ActivationOf(t, n) = Became(a, a.phase, a.keep, Handled(t, n, u))
  <2>1. u = Unwinding(t, n)
    BY <1>1
  <2> QED  BY <1>2, <2>1, OnlyErr
<1>4. a = Became(a, a.phase, a.keep, Handled(s, n, u))
  <2>1. Under(s, s, n) /\ SameHandlers(s, s, n)
    BY DEF Under, SameHandlers
  <2>2. ActivationOf(s, n) = Became(a, a.phase, a.keep, Handled(s, n, u))
    BY <1>2, <2>1, OnlyErr
  <2> QED  BY <1>2, <2>2
<1> QED  BY <1>1, <1>2, <1>3, <1>4

(* r is the frame just under n *)
JustUnder(n, r) == n \in Nat /\ n > 1 /\ r = n - 1

(* The frame below one that returns is again on top, with the same variables. *)
LEMMA CallerUnder ==
  ASSUME NEW s, NEW d, Base(s, d), NEW n, n = Len(s.ci), NEW u, Grew(s, u),
         NEW c, NEW q, NEW nres, MayReturn(u, c, q, n, nres), ~TbcFrom(s, s.ci[n].func),
         NEW r, JustUnder(n, r), NEW t, Resumes(u, t, q, n, r)
  PROVE  /\ Under(s, t, r) /\ SameHandlers(s, t, r) /\ Pending(t) = Pending(s)
         /\ Len(Pending(s)) = ActivationOf(s, n).first /\ t.tbclist = s.tbclist /\ Alive(t)
         /\ n \in Nat /\ n > 1 /\ r \in Nat /\ r > 0 /\ r + 1 = n
<1>1. n \in Nat /\ n > 1 /\ r = n - 1
  BY DEF JustUnder
<1>2. n \in 1..n /\ r \in Nat /\ r > 0 /\ r \in 1..n /\ r \in 1..r /\ r + 1 = n /\ r < n
      /\ n - 1 = r
  BY <1>1
<1>3. /\ u.ci = s.ci /\ u.tbclist = s.tbclist /\ Alive(u) /\ SameTries(s, u)
  BY DEF Grew
<1>4. t.tbclist = s.tbclist /\ Alive(t) /\ t.cs = u.cs /\ Len(t.ci) = r
      /\ \A i \in 1..(r - 1) : t.ci[i] = s.ci[i]
  BY <1>3 DEF Resumes, Alive
<1>5. Sorted(s) /\ Len(s.tbclist) \in Nat
  BY MarksAt
<1>6. s.ci[n].func \in Nat /\ s.ci[r].func \in Nat /\ s.ci[r].func < s.ci[n].func
  <2>1. Skeleton(s, d)
    BY DEF Base
  <2>2. /\ \A i \in 1..n : s.ci[i].func \in Nat
        /\ \A i, j \in 1..n : i < j => s.ci[i].func < s.ci[j].func
    BY <1>1, <2>1, Bases
  <2> QED  BY <1>2, <2>2
<1>7. \A p \in 1..(s.ci[n].func - 1) : t.stack[p] = s.stack[p]
  <2>1. \A p \in 1..(s.ci[n].func - 1) : t.stack[p] = u.stack[p]
    BY <1>3 DEF Resumes
  <2>2. \A p \in 1..(s.ci[n].func - 1) : u.stack[p] = s.stack[p]
    BY <1>2, GrewBelow
  <2> QED  BY <2>1, <2>2
<1>8. \A p \in 1..(s.ci[r].func - 1) : t.stack[p] = s.stack[p]
  <2>1. \A p \in 1..(s.ci[r].func - 1) : p \in 1..(s.ci[n].func - 1)
    BY ONLY <1>6
  <2> QED  BY <1>7, <2>1
<1>9. \A a \in 1..Len(s.tbclist) : t.stack[s.tbclist[a]] = s.stack[s.tbclist[a]]
  <2> TAKE a \in 1..Len(s.tbclist)
  <2> DEFINE x == s.tbclist[a]
  <2>1. x \in Nat /\ x > 1 /\ ~(x >= s.ci[n].func)
    BY MarksAt DEF TbcFrom
  <2> HIDE DEF x
  <2>2. x \in 1..(s.ci[n].func - 1)
    BY ONLY <1>6, <2>1
  <2> QED  BY <1>7, <2>2 DEF x
<1>10. Pending(t) = Pending(s)
  BY <1>4, <1>5, <1>9, PendingStays
<1>11. Len(Pending(s)) = ActivationOf(s, n).first
  <2>1. ActivationOf(s, n).first = Older(s, s.ci[n].func)
    BY ActFields
  <2>2. Older(s, s.ci[n].func) = Len(s.tbclist)
    BY <1>5, <1>6, OlderAll
  <2>3. Len(Pending(s)) = Len(s.tbclist)
    BY <1>5, PendingIs
  <2> QED  BY <2>1, <2>2, <2>3
<1>12. SameTries(s, t)
  <2>1. SameTries(u, t)
    BY <1>4 DEF SameTries, SameHandlers, Handlers
  <2> QED  BY <1>3, <2>1, TriesThrough
<1>13. SameHandlers(s, t, r) /\ SameHandlers(s, t, r - 1)
  BY <1>12 DEF SameTries
<1>14. t.ci[r].func = s.ci[r].func /\ t.ci[r].args = s.ci[r].args
  <2>1. s.ci[r] \in CallInfo
    BY <1>2, BaseType
  <2>2. AtRun(s.ci[r]).func = s.ci[r].func /\ AtRun(s.ci[r]).args = s.ci[r].args
    BY <2>1 DEF AtRun, CallInfo
  <2>3. t.ci[r] = s.ci[r] \/ t.ci[r] = AtRun(s.ci[r])
    BY <1>3 DEF Resumes
  <2> QED  BY <2>2, <2>3
<1>15. \A p : Older(t, p) = Older(s, p)
  BY <1>4, OlderSame
<1>16. Under(s, t, r)
  <2>1. r \in 1..Len(s.ci) /\ r \in 1..Len(t.ci)
    BY <1>2, <1>4
  <2> QED  BY <1>4, <1>8, <1>13, <1>14, <1>15, <2>1 DEF Under
<1> QED  BY <1>1, <1>2, <1>4, <1>10, <1>11, <1>13, <1>16


(* A frame that handles an error calls close methods only, which have no results. *)
LEMMA HandlersTakeNothing ==
  ASSUME NEW u, NEW c, NEW q, NEW n, NEW nres, MayReturn(u, c, q, n, nres), NEW r, JustUnder(n, r),
         Unwinding(u, r) # NoUnwinding
  PROVE  u.ci[n].want = 0
<1>0. r = n - 1
  BY DEF JustUnder
<1>1. /\ Skeleton(u, c) /\ Frames(u) /\ Depths(u, c) /\ q = Len(u.cs) /\ q \in Nat /\ n = Len(u.ci)
      /\ n \in Nat /\ n > 1 /\ u.cs[q].t \in {"ccall", "exec", "unroll"}
  BY DEF MayReturn, Base, Skeleton
<1>2. r \in Nat /\ r > 0 /\ r \in 1..(n - 1) /\ r + 1 = n /\ r < n
  BY <1>0, <1>1
<1>3. CASE u.ci[r].recst # "ok"
  <2>1. CallerOk(u, r)
    BY <1>1, <1>2 DEF Frames
  <2>2. u.ci[r].recst # "ok" => u.ci[r + 1].want = 0
    BY <2>1 DEF CallerOk
  <2> QED  BY <1>2, <1>3, <2>2
<1>4. CASE u.ci[r].recst = "ok"
  <2>1. Handlers(u, "closep", r) # {}
    BY <1>4, NotUnwinding
  <2>2. PICK j \in Handlers(u, "closep", r) : TRUE
    BY <2>1
  <2>3. j \in 1..Len(u.cs) /\ u.cs[j].t = "try" /\ u.cs[j].by = "closep" /\ u.cs[j].ci = r
    BY <2>2 DEF Handlers
  <2>4. c[j] = r
    <3>1. "closep" \in Protected
      BY DEF Protected
    <3> QED  BY <1>1, <2>2, <3>1, HandlerIs
  <2>5. j \in 1..(q - 1)
    <3>1. j # q
      BY <1>1, <2>3
    <3> QED  BY <1>1, <2>3, <3>1
  <2>6. Deeper(u, c, j)
    BY <1>1, <2>5 DEF Depths
  <2>7. Beneath(u, u.cs[j], u.cs[j + 1], r)
    BY <2>4, <2>6 DEF Deeper
  <2>8. Try(u.cs[j], {"closep"})
    BY <2>3 DEF Try
  <2>9. u.ci[r + 1].want = 0
    BY <1>1, <1>2, <2>7, <2>8 DEF Beneath
  <2> QED  BY <1>2, <2>9
<1> QED  BY <1>3, <1>4

(* So the error object stays on top of the stack. *)
Uncovers(s, t, n) ==
  Len(t.stack) = s.ci[n].func - 1 /\ \A p \in 1..(s.ci[n].func - 1) : t.stack[p] = s.stack[p]

(* The error object of a frame is where it was when the one above it has left. *)
LEMMA ObjectStays ==
  ASSUME NEW s, NEW d, Base(s, d), NEW n, n = Len(s.ci),
         NEW r, JustUnder(n, r), NEW t, NEW w, Len(t.ci) = r, Uncovers(s, t, n)
  PROVE  Handled(t, r, w) = Handled(s, r, w)
<1>0. n \in Nat /\ n > 1 /\ r = n - 1
  BY DEF JustUnder
<1>6. Len(t.stack) = s.ci[n].func - 1 /\ \A p \in 1..(s.ci[n].func - 1) : t.stack[p] = s.stack[p]
  BY DEF Uncovers
<1>1. r \in Nat /\ r \in 1..(n - 1) /\ r + 1 = n /\ n \in 1..n /\ r < n /\ ~(r < r)
  BY ONLY <1>0
<1>2. s.ci[n].func \in Nat /\ s.ci[n].func > 1
  <2>1. Skeleton(s, d)
    BY DEF Base
  <2> QED  BY <1>1, <2>1, Bases
<1>3. s.ci[n].func - 1 + 1 = s.ci[n].func /\ s.ci[n].func - 1 \in 1..(s.ci[n].func - 1)
  BY ONLY <1>2
<1>4. CallTop(s, r) = s.ci[n].func /\ CallTop(t, r) = s.ci[n].func
  BY <1>1, <1>3, <1>6 DEF CallTop
<1>5. t.stack[CallTop(t, r) - 1] = s.stack[CallTop(s, r) - 1]
  BY <1>3, <1>4, <1>6
<1> QED  BY <1>5 DEF Handled

MayGoOn(u, q, f) == u.cs[q].t = "exec" => f.pc \notin {"close", "return"}

(* The caller of a function that returns is the same activation as before. *)
LEMMA CallerStays ==
  ASSUME NEW s, NEW d, Base(s, d), NEW n, n = Len(s.ci), NEW u, Grew(s, u),
         NEW c, NEW q, NEW nres, MayReturn(u, c, q, n, nres), ~TbcFrom(s, s.ci[n].func),
         NEW r, JustUnder(n, r), NEW t, Resumes(u, t, q, n, r),
         NEW f, f = s.ci[r], MayGoOn(u, q, f)
  PROVE  ActivationOf(t, r) = ActivationOf(s, r)
<1>0. r = n - 1
  BY DEF JustUnder
<1>1. /\ Under(s, t, r) /\ SameHandlers(s, t, r) /\ t.tbclist = s.tbclist
      /\ n \in Nat /\ n > 1 /\ r \in Nat /\ r > 0 /\ r + 1 = n
  BY CallerUnder
<1>2. /\ u.ci = s.ci /\ SameTries(s, u) /\ Skeleton(s, d) /\ Skeleton(u, c)
  BY DEF Grew, MayReturn, Base
<1>9. r \in 1..r /\ r \in 1..n
  BY ONLY <1>1
<1>3. CASE u.cs[q].t # "exec"
  <2> DEFINE w == Unwinding(s, r)
  <2>1. t.ci[r] = s.ci[r]
    BY <1>2, <1>3 DEF Resumes
  <2>2. Unwinding(u, r) = w
    <3>1. SameHandlers(s, u, r)
      BY <1>2 DEF SameTries
    <3>2. Len(s.cs) \in Nat
      BY <1>2, SkeletonType
    <3> QED  BY <1>2, <1>9, <3>1, <3>2, SameUnwinding
  <2>3. Handled(t, r, w) = Handled(s, r, w)
    <3>1. CASE w = NoUnwinding
      BY <3>1 DEF Handled, NoUnwinding
    <3>2. CASE w # NoUnwinding
      <4>1. u.ci[n].want = 0
        BY <2>2, <3>2, HandlersTakeNothing
      <4>2. Len(t.stack) = s.ci[n].func - 1 /\ Len(t.ci) = r
            /\ \A p \in 1..(s.ci[n].func - 1) : t.stack[p] = u.stack[p]
        BY <1>2, <4>1 DEF Resumes
      <4>3. \A p \in 1..(s.ci[n].func - 1) : u.stack[p] = s.stack[p]
        <5>1. n \in 1..Len(s.ci)
          BY <1>1
        <5> QED  BY <5>1, GrewBelow
      <4>4. \A p \in 1..(s.ci[n].func - 1) : t.stack[p] = s.stack[p]
        BY <4>2, <4>3
      <4> HIDE DEF w
      <4>5. Base(s, d)
        OBVIOUS
      <4>6. n = Len(s.ci)
        OBVIOUS
      <4>8. JustUnder(n, r)
        BY <1>1 DEF JustUnder
      <4>9. Len(t.ci) = r
        BY <4>2
      <4>10. Uncovers(s, t, n)
        BY <4>2, <4>4 DEF Uncovers
      <4> QED  BY ONLY <4>5, <4>6, <4>8, <4>9, <4>10, ObjectStays
    <3> QED  BY <3>1, <3>2
  <2>4. w = Unwinding(s, r)
    OBVIOUS
  <2> HIDE DEF w
  <2> QED  BY ONLY <1>1, <1>2, <2>1, <2>3, <2>4, SameHandled
<1>4. CASE u.cs[q].t = "exec"
  <2>1. q \in 1..Len(u.cs) /\ c[q] = r
    <3>1. q \in Nat /\ q = Len(u.cs) /\ q > 0 /\ (u.cs[q].t # "unroll" => c[q] = n - 1)
      BY DEF MayReturn
    <3> QED  BY <1>0, <1>4, <3>1
  <2>2. OnFrame(u, u.cs[q], r)
    BY <1>2, <2>1 DEF Skeleton, Depths
  <2>3. s.ci[r].kind = "Lau"
    BY <1>2, <1>4, <2>2 DEF OnFrame
  <2>4. FrameOk(s, r) /\ s.ci[r] \in CallInfo
    <3>1. FrameOk(s, r)
      BY <1>2, <1>9 DEF Skeleton, Frames
    <3> QED  BY <1>9, <3>1, BaseType
  <2>5. ~s.ci[r].ypcall /\ ~s.ci[r].clsret /\ s.ci[r].pc # "top" /\ s.ci[r].recst = "ok"
    BY <2>3, <2>4 DEF FrameOk
  <2>6. \A by \in Protected : Handlers(s, by, r) = {}
    <3> SUFFICES ASSUME NEW by \in Protected, NEW j \in Handlers(s, by, r) PROVE FALSE
      OBVIOUS
    <3>1. s.ci[r].kind = "C"
      BY <1>2, HandlerIs
    <3> QED  BY <2>3, <3>1
  <2>7. s.ci[r].pc \in {"run", "call", "index", "add"}
    BY <1>4, <2>4, <2>5, FrameType DEF MayGoOn
  <2>8. Idle(s, r)
    BY ONLY <2>5, <2>6, <2>7, RunningIsIdle
  <2>9. \A by \in Protected : Handlers(t, by, r) = {}
    BY <1>1, <1>9, <2>6 DEF SameHandlers
  <2>10. t.ci[r].recst = "ok" /\ ~t.ci[r].clsret /\ t.ci[r].pc \in {"run", "call", "index", "add"}
    <3>1. t.ci[r] = AtRun(s.ci[r])
      BY <1>2, <1>4 DEF Resumes
    <3> QED  BY <2>4, <2>5, <3>1 DEF AtRun, CallInfo
  <2>11. Idle(t, r)
    BY ONLY <2>9, <2>10, RunningIsIdle
  <2> QED  BY <1>1, <1>2, <2>8, <2>11, IdleStays
<1> QED  BY <1>3, <1>4

ReturnMeant(s, t, n) ==
  /\ Len(Pending(s)) = ActivationOf(s, n).first
  /\ Activations(t) = Front(Activations(s)) /\ Pending(t) = Pending(s)

(* A function that has no variables to close returns. *)
LEMMA ReturnMeans ==
  ASSUME NEW s, NEW d, Base(s, d), Alive(s), NEW n, n = Len(s.ci), NEW u, Grew(s, u),
         NEW c, NEW q, NEW nres, MayReturn(u, c, q, n, nres), ~TbcFrom(s, s.ci[n].func),
         NEW r, JustUnder(n, r), NEW f, f = s.ci[r], MayGoOn(u, q, f),
         NEW t, t = moveresults(u, nres)
  PROVE  ReturnMeant(s, t, n)
<1>0. r = n - 1
  BY DEF JustUnder
<1>2. Resumes(u, t, q, n, r)
  BY ResultsMoved DEF JustUnder
<1>3. /\ Under(s, t, r) /\ Pending(t) = Pending(s) /\ Len(Pending(s)) = ActivationOf(s, n).first
      /\ Alive(t) /\ n \in Nat /\ n > 1
  BY <1>2, CallerUnder
<1>4. ActivationOf(t, r) = ActivationOf(s, r)
  <2>1. Base(s, d)
    OBVIOUS
  <2>2. n = Len(s.ci)
    OBVIOUS
  <2>3. Grew(s, u)
    OBVIOUS
  <2>4. MayReturn(u, c, q, n, nres)
    OBVIOUS
  <2>5. ~TbcFrom(s, s.ci[n].func)
    OBVIOUS
  <2>6. JustUnder(n, r)
    OBVIOUS
  <2>7. MayGoOn(u, q, f)
    OBVIOUS
  <2>8. f = s.ci[r]
    OBVIOUS
  <2> QED  BY ONLY <1>2, <2>1, <2>2, <2>3, <2>4, <2>5, <2>6, <2>7, <2>8, CallerStays
<1>5. Activations(t) = Front(Activations(s))
  <2>1. Len(t.ci) = n - 1
    BY ONLY <1>0, <1>2 DEF Resumes
  <2>2. Skeleton(s, d)
    BY DEF Base
  <2> QED  BY <1>0, <1>3, <1>4, <2>1, <2>2, ActsFront
<1> QED  BY <1>3, <1>5 DEF ReturnMeant

=============================================================================
