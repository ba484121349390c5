------------------------------ MODULE LauTabLib ------------------------------
(***************************************************************************)
(* The library of tables (ltablib.c) and the references of lauxlib.c, over *)
(* the tables of LauTable.  An operator returns the new table; 'ok' is     *)
(* FALSE for an error.  Sorting works on the list of the elements.         *)
(***************************************************************************)
EXTENDS LauTable

CONSTANT MaxRefs    \* bound: the references held at a time
VARIABLE refs       \* the values referenced, by their references

geti(h, i) == lauH_get(h, Int_(i))
seti(h, i, v) == lauH_set(h, Int_(i), v, "none").t
aux_getn(h) == lauH_getn(h, 0)      \* it may move the hint: [n |-> border, t |-> table]

\* tinsert with three arguments, or with pos = e.
RECURSIVE MoveUp(_, _, _), MoveDown(_, _, _)
MoveUp(h, i, pos) == IF i <= pos THEN h ELSE MoveUp(seti(h, i, geti(h, i - 1)), i - 1, pos)
MoveDown(h, pos, size) == IF pos >= size THEN h ELSE MoveDown(seti(h, pos, geti(h, pos + 1)), pos + 1, size)
\* A bug: the last element is not moved.
tinsert_Overwrites(h, pos, v) ==
  LET g == aux_getn(h)
  IN IF pos \notin 1..(g.n + 1) THEN [ok |-> FALSE, t |-> g.t]
     ELSE [ok |-> TRUE, t |-> seti(MoveUp(g.t, g.n, pos), pos, v)]
tinsert(h, pos, v) ==
  LET g == aux_getn(h)
  IN IF pos \notin 1..(g.n + 1) THEN [ok |-> FALSE, t |-> g.t]
     ELSE [ok |-> TRUE, t |-> seti(MoveUp(g.t, g.n + 1, pos), pos, v)]
tremove(h, pos) ==
  LET g == aux_getn(h)
  IN IF pos # g.n /\ pos \notin 1..(g.n + 1) THEN [ok |-> FALSE, t |-> g.t, v |-> Nil]
     ELSE [ok |-> TRUE, v |-> geti(g.t, pos),
           t |-> seti(MoveDown(g.t, pos, g.n), Max({pos, g.n}), Nil)]

\* tfind: the elements from 'init' on up to a nil, then every entry; k is the key found.
RECURSIVE FindNext(_, _, _), FindElement(_, _, _, _), ClearNext(_, _), Cleared(_, _)
FindNext(h, v, e) ==
  IF e = << >> THEN Nil
  ELSE IF rawequalobj(v, e[2]) THEN e[1] ELSE FindNext(h, v, lauH_next(h, findindex(h, e[1])))
FindElement(h, v, i, x) ==
  IF x = Nil THEN FindNext(h, v, lauH_next(h, 0))
  ELSE IF rawequalobj(v, x) THEN Int_(i) ELSE FindElement(h, v, i + 1, geti(h, i + 1))
tfind(h, v, init) ==
  [ok |-> init >= 1, k |-> IF init < 1 THEN Nil ELSE FindElement(h, v, init, geti(h, init))]
\* tclear: erases each entry that 'next' gives; the key goes on being used.
ClearNext(h, e) == IF e = << >> THEN h ELSE Cleared(lauH_set(h, e[1], Nil, "none").t, e[1])
Cleared(h, k) == ClearNext(h, lauH_next(h, findindex(h, k)))
tclear(h) == ClearNext(h, lauH_next(h, 0))

(***************************************************************************)
(* References: t[1] heads the list of free ones, 0 ends it                 *)
(***************************************************************************)
Initialized(h, first) == IF IsNumber(first) THEN h ELSE seti(h, 1, Int_(0))
TakeRef(h, free, v) ==
  LET g == aux_getn(h)
  IN IF free # 0 THEN [ref |-> free, t |-> seti(seti(h, 1, geti(h, free)), free, v)]
     ELSE [ref |-> g.n + 1, t |-> seti(g.t, g.n + 1, v)]
RefFrom(h, v) == TakeRef(h, geti(h, 1)[2], v)
lauL_ref(h, v) == RefFrom(Initialized(h, geti(h, 1)), v)
\* A bug: the head of the list is set before it is linked.
lauL_unref_Linked(h, ref) == seti(seti(h, 1, Int_(ref)), ref, Int_(ref))
lauL_unref(h, ref) == seti(seti(h, ref, geti(h, 1)), 1, Int_(ref))

(***************************************************************************)
(* Quicksort.  'lt' is the order function as a set of pairs; P the pivot.  *)
(***************************************************************************)
Less(lt, a, b) == <<a, b>> \in lt
set2(a, i, j) == [a EXCEPT ![i] = a[j], ![j] = a[i]]
SortIf(cond, a, i, j) == IF cond THEN set2(a, i, j) ELSE a
Invalid == [ok |-> FALSE, a |-> << >>, i |-> 0]     \* "invalid order function"
RECURSIVE partitionfrom(_, _, _, _, _), auxsort(_, _, _, _)
\* A bug: the pivot goes to where the lower scan has stopped.
partitionfrom_Lower(lt, a, up, i0, j0) ==
  LET P == a[up - 1]
      ups == {k \in (i0 + 1)..(up - 1) : ~Less(lt, a[k], P)}
      i == Min(ups)
      downs == {k \in (Min({i, j0}) - 1)..(j0 - 1) : ~Less(lt, P, a[k])}
      j == Max(downs)
  IN IF ups = {} \/ downs = {} THEN [Invalid EXCEPT !.a = a]
     ELSE IF j < i THEN [ok |-> TRUE, a |-> set2(a, up - 1, j), i |-> i]
     ELSE partitionfrom(lt, set2(a, i, j), up, i, j)
partitionfrom(lt, a, up, i0, j0) ==
  LET P == a[up - 1]
      ups == {k \in (i0 + 1)..(up - 1) : ~Less(lt, a[k], P)}
      i == Min(ups)
      downs == {k \in (Min({i, j0}) - 1)..(j0 - 1) : ~Less(lt, P, a[k])}
      j == Max(downs)
  IN IF ups = {} \/ downs = {} THEN [Invalid EXCEPT !.a = a]
     ELSE IF j < i THEN [ok |-> TRUE, a |-> set2(a, up - 1, i), i |-> i]
     ELSE partitionfrom(lt, set2(a, i, j), up, i, j)
partition(lt, a, lo, up) == partitionfrom(lt, a, up, lo, up - 1)
\* The median of three elements goes to the middle.
MedianToMiddle(lt, a, lo, p, up) ==
  IF Less(lt, a[p], a[lo]) THEN set2(a, p, lo) ELSE SortIf(Less(lt, a[up], a[p]), a, p, up)
auxsort(lt, a, lo, up) ==
  LET two == SortIf(Less(lt, a[up], a[lo]), a, lo, up)
      p == (lo + up) \div 2
      three == MedianToMiddle(lt, two, lo, p, up)
      part == partition(lt, set2(three, p, up - 1), lo, up)
      low == auxsort(lt, part.a, lo, part.i - 1)
      high == auxsort(lt, part.a, part.i + 1, up)
  IN CASE lo >= up -> [ok |-> TRUE, a |-> a]
       [] up - lo = 1 -> [ok |-> TRUE, a |-> two]
       [] up - lo = 2 -> [ok |-> TRUE, a |-> three]
       [] up - lo > 2 /\ ~part.ok -> part
       [] up - lo > 2 /\ part.ok /\ part.i - lo < up - part.i ->      \* the smaller part first
            IF low.ok THEN auxsort(lt, low.a, part.i + 1, up) ELSE low
       [] OTHER -> IF high.ok THEN auxsort(lt, high.a, lo, part.i - 1) ELSE high
sort(lt, a) == auxsort(lt, a, 1, Len(a))

(***************************************************************************)
(* A host that keeps references in a table                                 *)
(***************************************************************************)
Ref == \E v \in keys :
  /\ Cardinality(DOMAIN refs) < MaxRefs
  /\ \E new \in {lauL_ref(t, v)} :
       t' = new.t /\ refs' = [r \in DOMAIN refs \cup {new.ref} |-> IF r = new.ref THEN v ELSE refs[r]]
Unref == \E r \in DOMAIN refs : t' = lauL_unref(t, r) /\ refs' = [x \in DOMAIN refs \ {r} |-> refs[x]]
RefNext == (Ref \/ Unref) /\ UNCHANGED <<keys, on, seen, entry>>
=============================================================================
