------------------------------ MODULE MCLauData ------------------------------
(***************************************************************************)
(* The data structures, one part at a time (the variable 'part'): a table  *)
(* under any calls, a table of references, the string table, a loop and a  *)
(* sort.                                                                   *)
(***************************************************************************)
EXTENDS LauTabLib, LauFor

CONSTANTS Strings, Hash, MINSTRTABSIZE, MAXSTRTB, Sorts

VARIABLES part, input, tb, objs, dead
S == INSTANCE LauStrings
all == <<part, input, keys, t, on, seen, entry, refs, tb, objs, dead, loopvars>>

TraversedKeys == {{Int_(1), Int_(2), Int_(4), Str("a")},
                  {Int_(1), Flt(2, 1), Int_(3), Int_(7)},
                  {Str("a"), Str("b"), Str("c")},
                  {Int_(1), Flt(1, 2), Str("a")}}
SomeKeys == TraversedKeys \cup {{Str("a"), Str("b"), Str("d"), Int_(7)}}
SomeHash == [s \in {"a", "b", "c", "d"} |-> IF s = "c" THEN 3 ELSE 2]
SomeSeeds == {0, 1, 2, 5}
SomeSizes == {3}
SomeStrings == {"a", "b", "c", "d"}
StringHash == [s \in SomeStrings |-> CASE s = "a" -> 1 [] s = "b" -> 5 [] s = "c" -> 2 [] OTHER -> 3]
SomeLimits == {Int_(i) : i \in Integer} \cup {Flt(1, 2), Flt(-5, 2), Flt(11, 1), Inf(1), Inf(-1), NaN, None}
\* Order functions that are strict weak orders, and any others.
Weak(lt) ==
  /\ \A x \in 1..3 : <<x, x>> \notin lt
  /\ \A x, y, z \in 1..3 : /\ <<x, y>> \in lt /\ <<y, z>> \in lt => <<x, z>> \in lt
                           /\ <<x, z>> \in lt => <<x, y>> \in lt \/ <<y, z>> \in lt
WeakOrders == {lt \in SUBSET ((1..3) \X (1..3)) : Weak(lt)}
SomeSorts ==
  WeakOrders \X ([1..4 -> 1..3] \cup [1..5 -> 1..3]) \cup
  (SUBSET ((1..2) \X (1..2))) \X ([1..4 -> 1..2] \cup [1..5 -> 1..2]) \cup
  (SUBSET ((1..3) \X (1..3))) \X {<<3, 1, 2, 3, 1>>, <<2, 2, 1, 3, 2>>, <<1, 2, 3, 2, 1>>, <<1, 3, 2>>}

NoInput == <<"none">>
SortInput == {<<"sort", x[1], x[2]>> : x \in Sorts}
NoTable == keys = CHOOSE k \in TableKeys : TRUE
NoLoop == init = 0 /\ limit = None /\ step = 0 /\ pc = "prep" /\ regs = Err /\ done = 0
DataInit ==
  /\ Init /\ S!Init /\ refs = << >>
  /\ \/ part \in {"table", "refs", "strings"} /\ input = NoInput /\ NoLoop
     \/ part = "sort" /\ NoTable /\ input \in SortInput /\ NoLoop
     \/ part = "loop" /\ NoTable /\ input = NoInput /\ LoopInit
Still == UNCHANGED <<part, input>>
NoTableChanges == UNCHANGED <<keys, t, on, seen, entry>>
NoStringChanges == UNCHANGED <<tb, objs, dead>>
DataNext ==
  \/ part = "table" /\ Next /\ Still /\ NoStringChanges /\ UNCHANGED <<refs, loopvars>>
  \/ part = "refs" /\ RefNext /\ Still /\ NoStringChanges /\ UNCHANGED loopvars
  \/ part = "strings" /\ S!Next /\ Still /\ NoTableChanges /\ UNCHANGED <<refs, loopvars>>
  \/ part = "loop" /\ LoopNext /\ Still /\ NoTableChanges /\ NoStringChanges /\ UNCHANGED refs
  \/ part = "sort" /\ UNCHANGED all
  \/ pc \in {"error", "skipped", "ended"} /\ UNCHANGED all
DataSpec == DataInit /\ [][DataNext]_all

(***************************************************************************)
(* Tables                                                                  *)
(***************************************************************************)
\* The entries that the two parts hold, whatever the chains say.
InArray(h) == {Int_(i) : i \in {j \in DOMAIN h.arr : h.arr[j] # Nil}}
InHash(h) == {h.node[i].k : i \in LiveNodes(h)}
Content(h) ==
  [k \in InArray(h) \cup InHash(h) |->
     IF k \in InArray(h) THEN h.arr[k[2]] ELSE h.node[CHOOSE i \in LiveNodes(h) : h.node[i].k = k].v]
AllKeys == UNION TableKeys
Map == INSTANCE LauMap WITH map <- IF part = "table" THEN Content(t) ELSE << >>,
                            Key <- {Normal(k) : k \in AllKeys}, Value <- AllKeys

\* A table is a map: an assignment changes one entry, or none when memory
\* fails in the middle of a rehash; rehashes, resizes of the array part, '#'
\* and the collector change no entry; and a traversal by 'next' gives every
\* entry once although fields are assigned, erased and their keys marked dead
\* meanwhile (lauH_set, rehash, lauH_resize, lauH_next).
ImplementsMap == Map!Spec

\* Every chain leads to its keys: a lookup gives what the parts hold, nil for
\* the other keys, after any insertions that moved colliding nodes, and no
\* free node is left behind 'lastfree', so that a hash part is rebuilt only
\* when all its nodes have been used (insertkey; numusehash asserts it).
EveryKeyFound == part \in {"table", "refs"} =>
  /\ \A k \in keys :
       lauH_get(t, k) = IF Normal(k) \in DOMAIN Content(t) THEN Content(t)[Normal(k)] ELSE Nil
  /\ Cardinality(InArray(t)) + Cardinality(LiveNodes(t)) = Cardinality(DOMAIN Content(t))
  /\ \A i \in DOMAIN t.node : t.node[i].k = NoKey => ~haslastfree(t) \/ i < t.last

\* '#' gives a border from any hint and for any seed, found in the vicinity
\* of the hint or by a search in either part (lauH_getn, hash_search).
Present(n) == geti(t, n) # Nil
BorderFound == part \in {"table", "refs"} =>
  \A seed \in Seed :
    LET n == lauH_getn(t, seed).n IN (n = 0 \/ Present(n)) /\ (n = MAXINT \/ ~Present(n + 1))

\* The library works on any table, whatever its hint, dead keys and shape:
\* 'clear' leaves no entry although it erases while it traverses; 'find'
\* finds a value exactly when an entry has it, wherever it starts, and starts
\* at positive indices only; 'insert' puts a value in any place of a sequence
\* and 'remove' takes it out (tclear, tfind, tinsert, tremove).
IsSequence == {k \in DOMAIN Content(t) : IsInt(k)} = {Int_(i) : i \in 1..aux_getn(t).n}
Elements(h) == [i \in 1..aux_getn(h).n |-> geti(h, i)]
Starts == -1..5
LibraryAgrees ==
  part = "table" /\ ~on =>
    /\ DOMAIN Content(tclear(t)) = {}
    /\ \A v \in keys, first \in Starts : LET found == tfind(t, v, first) IN
         /\ found.ok <=> first > 0
         /\ found.ok =>
              IF found.k = Nil THEN \A x \in DOMAIN Content(t) : Content(t)[x] # v ELSE Content(t)[found.k] = v
    /\ IsSequence => \A pos \in 1..(aux_getn(t).n + 1) :
         LET i == tinsert(t, pos, True) IN
         i.ok => Elements(i.t) = InsertAt(Elements(t), pos, True) /\ Content(tremove(i.t, pos).t) = Content(t)

\* References are distinct and keep their values while others are freed and
\* reused: the list of free references never meets one in use (lauL_ref, lauL_unref).
RefsKept ==
  /\ \A r \in DOMAIN refs : geti(t, r) = refs[r]
  /\ \A v \in keys : lauL_ref(t, v).ref \notin DOMAIN refs

(***************************************************************************)
(* Strings                                                                 *)
(***************************************************************************)
\* Every string object is once in the table, in the list of its hash, and is
\* counted: also after a reallocation that failed halfway through shrinking
\* and after a collection during the creation of a string (lauS_resize, internshrstr).
Positions(s) == {<<i, j>> \in (DOMAIN tb.hash) \X (1..Cardinality(Strings)) :
                   j \in DOMAIN tb.hash[i] /\ tb.hash[i][j] = s}
ListsSound ==
  /\ tb.nuse = Cardinality(objs) /\ DOMAIN tb.hash = 0..(tb.size - 1)
  /\ \A s \in Strings :
       IF s \in objs THEN Cardinality(Positions(s)) = 1 /\ S!Found(s) ELSE Positions(s) = {}

(***************************************************************************)
(* Sorting                                                                 *)
(***************************************************************************)
\* Sorting keeps the elements for any order function at all, consistent or
\* not, ends in an order or in the error, and sorts when the function is a
\* strict weak order (auxsort, partition).
Count(a, x) == Cardinality({i \in DOMAIN a : a[i] = x})
SortsSoundly ==
  input[1] = "sort" =>
    LET lt == input[2]
        r == sort(lt, input[3])
    IN /\ \A x \in 1..3 : Count(r.a, x) = Count(input[3], x)
       /\ Weak(lt) => r.ok /\ \A i, j \in DOMAIN r.a : i < j => <<r.a[j], r.a[i]>> \notin lt
=============================================================================
