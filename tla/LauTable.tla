------------------------------ MODULE LauTable ------------------------------
(***************************************************************************)
(* Tables (ltable.c): an array part and a hash part with chained nodes.    *)
(* A table is a record:                                                    *)
(*   arr    values of the keys 1..Len(arr); hint: where '#' looks first    *)
(*   node   nodes 0..n-1, [k, v, next, dead]; 'next' is relative; << >>    *)
(*          while the hash part is the dummy node                          *)
(*   last   lastfree: the nodes from here on have been used                *)
(* Operators are the functions of ltable.c and return the new table.       *)
(***************************************************************************)
EXTENDS LauNumber, FiniteSets, SequencesExt, FiniteSetsExt

CONSTANTS TableKeys,    \* the sets of keys that a program may use
          StrHash,      \* the hashes of strings, by name
          Seed,         \* the seeds of a state
          MAXABITS, MAXHBITS,   \* log2 of the largest parts
          LIMFORLAST,   \* log2 of the smallest hash part with a 'lastfree'
          maxvicinity,  \* how far from the hint '#' looks first
          AskedSizes,   \* the sizes that programs ask for the array part
          Traversed     \* bound: the keys of the programs that traverse and collect
ASSUME TableAssumption ==
  /\ {MAXABITS, MAXHBITS, LIMFORLAST, maxvicinity} \subseteq Nat
  /\ AskedSizes \subseteq 0..(2 ^ MAXABITS)

VARIABLES keys,             \* the keys that the program uses
          t,                \* the table
          on, seen, entry   \* a traversal: the keys seen, the entry returned last

NoKey == <<"nil">>          \* the key of a node never used
Absent == <<"absent">>      \* the value of a key in no node
Free == [k |-> NoKey, v |-> Nil, next |-> 0, dead |-> FALSE]
lauH_new == [arr |-> << >>, hint |-> 0, node |-> << >>, last |-> 0]

asize(h) == Len(h.arr)
isdummy(h) == h.node = << >>
sizenode(h) == Cardinality(DOMAIN h.node)
haslastfree(h) == sizenode(h) >= 2 ^ LIMFORLAST
MAXASIZE == 2 ^ MAXABITS
checkrange(k, limit) == IF IsInt(k) /\ k[2] \in 1..limit THEN k[2] ELSE 0
arrayindex(k) == checkrange(k, MAXASIZE)
keyinarray(h, k) == checkrange(k, asize(h))

(***************************************************************************)
(* Looking up                                                              *)
(***************************************************************************)
Odd(n) == IF n % 2 = 0 THEN n + 1 ELSE n
hashint(h, i) == Unsigned(i) % Odd(sizenode(h) - 1)
hashfloat(h, f) == (Unsigned(f[2]) + f[3]) % Odd(sizenode(h) - 1)
mainposition(h, k) ==
  CASE IsInt(k) -> hashint(h, k[2])
    [] IsFlt(k) -> hashfloat(h, k)
    [] IsStr(k) -> StrHash[k[2]] % sizenode(h)
    [] OTHER -> IF k = True THEN 1 % sizenode(h) ELSE 0
\* The nodes of a chain, from one of them on.
RECURSIVE Chain(_, _)
Chain(h, n) == <<n>> \o IF h.node[n].next = 0 THEN << >> ELSE Chain(h, n + h.node[n].next)
\* A bug: dead keys never match.
equalkey_NeverDead(n, k, deadok) == n.k = k /\ ~n.dead
equalkey(n, k, deadok) == n.k = k /\ (deadok \/ ~n.dead)
\* getgeneric, getintfromhash, Hgetshortstr: the node with a key, or -1.
FirstWith(h, k, deadok, chain) ==
  LET found == {i \in DOMAIN chain : equalkey(h.node[chain[i]], k, deadok)}
  IN IF found = {} THEN -1 ELSE chain[Min(found)]
NodeOf(h, k, deadok) ==
  IF isdummy(h) THEN -1 ELSE FirstWith(h, k, deadok, Chain(h, mainposition(h, k)))
\* Float keys with integral values are integer keys.
Otherwise(n, k) == IF n = None THEN k ELSE n
Normal(k) == IF IsFlt(k) THEN Otherwise(flttointeger(k, "eq"), k) ELSE k
ValueAt(h, i) == IF i = -1 THEN Nil ELSE h.node[i].v
GetNormal(h, k) == IF keyinarray(h, k) # 0 THEN h.arr[k[2]] ELSE ValueAt(h, NodeOf(h, k, FALSE))
lauH_get(h, key) == GetNormal(h, Normal(key))

(***************************************************************************)
(* Inserting                                                               *)
(***************************************************************************)
Unused(h, below) == {i \in DOMAIN h.node : i < below /\ h.node[i].k = NoKey}
\* getfreepos: the free node, -1 if there is none; nodes passed by are not looked at again.
PosOf(h, free) ==
  LET pos == IF free = {} THEN -1 ELSE Max(free)
  IN [pos |-> pos, t |-> IF haslastfree(h) THEN [h EXCEPT !.last = IF pos = -1 THEN 0 ELSE pos] ELSE h]
getfreepos(h) == PosOf(h, Unused(h, IF haslastfree(h) THEN h.last ELSE sizenode(h)))
SetNode(h, i, k, v) == [h EXCEPT !.node[i].k = k, !.node[i].v = v, !.node[i].dead = FALSE]
Before(chain, mp) == chain[SelectInSeq(chain, LAMBDA n : n = mp) - 1]
\* A bug: the chain goes on leading to the place that the node has left.
MoveNode_Unlinked(h, mp, othern, f, k, v) ==
  LET moved == [h.node[mp] EXCEPT !.next = IF @ = 0 THEN 0 ELSE @ + mp - f]
  IN SetNode([h EXCEPT !.node[f] = moved, !.node[mp] = Free], mp, k, v)
\* The colliding node mp, out of its main position, moves to f and leaves its place.
MoveNode(h, mp, othern, f, k, v) ==
  LET moved == [h.node[mp] EXCEPT !.next = IF @ = 0 THEN 0 ELSE @ + mp - f]
  IN SetNode([h EXCEPT !.node[othern].next = f - othern, !.node[f] = moved, !.node[mp] = Free], mp, k, v)
\* The new key goes to f, second in the chain of mp.
ChainNode(h, mp, f, k, v) ==
  LET after == h.node[mp].next IN
  SetNode([h EXCEPT !.node[f].next = IF after = 0 THEN 0 ELSE mp + after - f, !.node[mp].next = f - mp], f, k, v)
Collide(h, mp, main, f, k, v) ==
  IF main # mp THEN MoveNode(h, mp, Before(Chain(h, main), mp), f, k, v) ELSE ChainNode(h, mp, f, k, v)
InsertInto(h, mp, free, k, v) ==
  IF free.pos = -1 THEN [ok |-> FALSE, t |-> free.t]
  ELSE [ok |-> TRUE, t |-> Collide(free.t, mp, mainposition(h, h.node[mp].k), free.pos, k, v)]
InsertAtMain(h, mp, k, v) ==
  IF h.node[mp].v = Nil THEN [ok |-> TRUE, t |-> SetNode(h, mp, k, v)]
  ELSE InsertInto(h, mp, getfreepos(h), k, v)
insertkey(h, k, v) ==
  IF isdummy(h) THEN [ok |-> FALSE, t |-> h] ELSE InsertAtMain(h, mainposition(h, k), k, v)
newcheckedkey(h, k, v) ==
  IF keyinarray(h, k) # 0 THEN [h EXCEPT !.arr[k[2]] = v] ELSE insertkey(h, k, v).t

(***************************************************************************)
(* Rehashing.  'fails' is the allocation that fails: "hash" or "array".    *)
(***************************************************************************)
arrayXhash(na, nh) == na <= nh * 3
\* computesizes: the best size of the array part, and how many of the keys 'ks' it takes.
computesizes(ks) ==
  LET Upto(i) == Cardinality({k \in ks : k <= 2 ^ i})
      Slice(i) == {k \in ks : CeilLog2(k) = i}
      good == {i \in 0..MAXABITS : /\ arrayXhash(2 ^ i, Cardinality(ks))
                                   /\ Slice(i) # {}
                                   /\ arrayXhash(2 ^ i, Upto(i))}
  IN IF good = {} THEN [asize |-> 0, na |-> 0] ELSE [asize |-> 2 ^ Max(good), na |-> Upto(Max(good))]
numusearray(h) == {i \in DOMAIN h.arr : h.arr[i] # Nil}
LiveNodes(h) == {i \in DOMAIN h.node : h.node[i].v # Nil}
numusehash(h) == {arrayindex(h.node[i].k) : i \in LiveNodes(h)} \ {0}
\* setnodevector: a new hash part, or << >> for an overflow.
setnodevector(h, size) ==
  LET n == 2 ^ CeilLog2(size) IN
  IF size = 0 THEN [h EXCEPT !.node = << >>, !.last = 0]
  ELSE [h EXCEPT !.node = [i \in 0..(n - 1) |-> Free], !.last = IF n >= 2 ^ LIMFORLAST THEN n ELSE 0]
\* reinsertOldSlice, from the array of 'old' after its first i values; reinserthash, from its node i on.
RECURSIVE reinsertOldSlice(_, _, _), reinserthash(_, _, _)
reinsertOldSlice(new, old, i) ==
  IF i >= asize(old) THEN new
  ELSE reinsertOldSlice(IF old.arr[i + 1] = Nil THEN new ELSE insertkey(new, Int_(i + 1), old.arr[i + 1]).t, old, i + 1)
reinserthash(h, old, i) ==
  IF i = sizenode(old) THEN h
  ELSE reinserthash(IF old.node[i].v = Nil THEN h ELSE newcheckedkey(h, old.node[i].k, old.node[i].v), old, i + 1)
resizearray(h, newasize) ==
  [h EXCEPT !.arr = [i \in 1..newasize |-> IF i <= asize(h) THEN h.arr[i] ELSE Nil],
            !.hint = IF newasize = 0 THEN 0 ELSE newasize \div 2]
\* lauH_resize: the table, or its error with the table unchanged.
lauH_resize(h, newasize, nhsize, fails) ==
  LET overflow == newasize > MAXASIZE \/ CeilLog2(Max({nhsize, 1})) > MAXHBITS
      failed == (fails = "hash" /\ nhsize > 0) \/ (fails = "array" /\ newasize \notin {0, asize(h)})
  IN IF overflow \/ failed THEN [ok |-> FALSE, t |-> h]
     ELSE [ok |-> TRUE,
           t |-> reinserthash(resizearray(reinsertOldSlice(setnodevector(h, nhsize), h, newasize), newasize), h, 0)]
\* rehash: 'new' are the integer keys that are not in the array part yet.
ArrayCounts(h, new) ==
  IF new = {} THEN [asize |-> asize(h), na |-> 0, total |-> 0]
  ELSE [total |-> Cardinality(numusearray(h))] @@ computesizes(new \cup numusearray(h))
ResizeTo(h, ct, total, fails) ==
  LET deleted == isdummy(h) \/ LiveNodes(h) # DOMAIN h.node    \* the dummy node is empty too
      nsize == total + ct.total - ct.na
  IN lauH_resize(h, ct.asize, IF deleted THEN nsize + nsize \div 4 ELSE nsize, fails)
rehash(h, ek, fails) ==
  ResizeTo(h, ArrayCounts(h, numusehash(h) \cup ({arrayindex(ek)} \ {0})), 1 + Cardinality(LiveNodes(h)), fails)
\* lauH_newkey: [ok, t].
InsertInGrown(r, k, v) == IF r.ok THEN [r EXCEPT !.t = newcheckedkey(@, k, v)] ELSE r
InsertOrGrow(r, k, v, fails) == IF r.ok THEN r ELSE InsertInGrown(rehash(r.t, k, fails), k, v)
lauH_newkey(h, k, v, fails) ==
  IF v = Nil THEN [ok |-> TRUE, t |-> h] ELSE InsertOrGrow(insertkey(h, k, v), k, v, fails)
\* lauH_set: lauH_pset and lauH_finishset, where 'at' is the node of the key.
SetAt(h, k, v, fails, at) ==
  IF keyinarray(h, k) # 0 THEN [ok |-> TRUE, t |-> [h EXCEPT !.arr[k[2]] = v]]
  ELSE IF at # -1 THEN [ok |-> TRUE, t |-> [h EXCEPT !.node[at].v = v]]
  ELSE IF k = Nil \/ k = NaN THEN [ok |-> FALSE, t |-> h]
  ELSE lauH_newkey(h, k, v, fails)
SetNormal(h, k, v, fails) == SetAt(h, k, v, fails, NodeOf(h, k, FALSE))
lauH_set(h, key, v, fails) == SetNormal(h, Normal(key), v, fails)

(***************************************************************************)
(* Traversal and length                                                    *)
(***************************************************************************)
\* findindex: where the entry after 'key' is looked for, -1 if there is no such key.
AfterNode(h, at) == IF at = -1 THEN -1 ELSE at + 1 + asize(h)
findindex(h, key) ==
  IF key = Nil THEN 0
  ELSE IF keyinarray(h, key) # 0 THEN key[2]
  ELSE AfterNode(h, NodeOf(h, key, TRUE))
\* lauH_next: the next entry, << >> at the end.
EntryAt(h, i) ==
  IF i < asize(h) THEN <<Int_(i + 1), h.arr[i + 1]>> ELSE <<h.node[i - asize(h)].k, h.node[i - asize(h)].v>>
lauH_next(h, i) ==
  LET rest == {j \in i..(asize(h) + sizenode(h) - 1) : EntryAt(h, j)[2] # Nil} IN
  IF rest = {} THEN << >> ELSE EntryAt(h, Min(rest))

arraykeyisempty(h, k) == h.arr[k] = Nil
hashkeyisempty(h, u) == ValueAt(h, NodeOf(h, Int_(Wrap(u)), FALSE)) = Nil
\* binsearch, and the same search in the hash part: i is present or 0, j is absent.
RECURSIVE binsearch(_, _, _), hashbinsearch(_, _, _), doubling(_, _, _, _)
binsearch(h, i, j) ==
  LET m == (i + j) \div 2 IN
  IF j - i <= 1 THEN i ELSE IF arraykeyisempty(h, m) THEN binsearch(h, i, m) ELSE binsearch(h, m, j)
hashbinsearch(h, i, j) ==
  LET m == (i + j) \div 2 IN
  IF j - i <= 1 THEN i ELSE IF hashkeyisempty(h, m) THEN hashbinsearch(h, i, m) ELSE hashbinsearch(h, m, j)
\* hash_search: doubles j until it is absent; 'rnd' gives the lowest bits.
doubling(h, i, j, rnd) ==
  IF hashkeyisempty(h, j) THEN hashbinsearch(h, i, j)
  ELSE IF j <= MAXINT \div 2 - 1 THEN doubling(h, j, 2 * j + (rnd % 2), rnd \div 2)
  ELSE IF hashkeyisempty(h, MAXINT) THEN hashbinsearch(h, j, MAXINT)
  ELSE MAXINT
hash_search(h, seed) ==
  LET i == asize(h) + 1
      n == IF asize(h) > 0 THEN CeilLog2(asize(h)) ELSE 0
      incr == (seed % (2 ^ n)) + 1
  IN doubling(h, i, IF incr <= MAXINT - i THEN i + incr ELSE i + 1, seed \div 2 ^ n)
\* A bug: the absent index is taken for the border.
InVicinity_After(h, limit) ==
  IF arraykeyisempty(h, limit)
  THEN {i \in Max({1, limit - maxvicinity})..(limit - 1) : ~arraykeyisempty(h, i)}
  ELSE {i \in (limit + 1)..Min({asize(h), limit + maxvicinity}) : arraykeyisempty(h, i)}
\* lauH_getn: in the vicinity of the hint, then by searching; n is the border.
InVicinity(h, limit) ==
  IF arraykeyisempty(h, limit)
  THEN {i \in Max({1, limit - maxvicinity})..(limit - 1) : ~arraykeyisempty(h, i)}
  ELSE {i \in limit..(Min({asize(h), limit + maxvicinity}) - 1) : arraykeyisempty(h, i + 1)}
newhint(h, i) == [n |-> i, t |-> [h EXCEPT !.hint = i]]
inhash(h, seed) ==
  [n |-> IF isdummy(h) \/ hashkeyisempty(h, asize(h) + 1) THEN asize(h) ELSE hash_search(h, seed),
   t |-> [h EXCEPT !.hint = asize(h)]]
getnfrom(h, limit, near, seed) ==
  CASE limit = 0 -> inhash(h, seed)
    [] limit > 0 /\ arraykeyisempty(h, limit) ->
         newhint(h, IF near # {} THEN Max(near) ELSE binsearch(h, 0, Max({1, limit - maxvicinity})))
    [] limit > 0 /\ ~arraykeyisempty(h, limit) /\ near # {} -> newhint(h, Min(near))
    [] limit > 0 /\ ~arraykeyisempty(h, limit) /\ near = {} /\ arraykeyisempty(h, asize(h)) ->
         newhint(h, binsearch(h, Min({asize(h), limit + maxvicinity}), asize(h)))
    [] OTHER -> inhash(h, seed)
lauH_getn(h, seed) ==
  LET limit == IF asize(h) = 0 THEN 0 ELSE Max({h.hint, 1})
  IN getnfrom(h, limit, IF limit = 0 THEN {} ELSE InVicinity(h, limit), seed)

(***************************************************************************)
(* The program                                                             *)
(***************************************************************************)
vars == <<keys, t, on, seen, entry>>
Failure == {"none", "hash", "array"}

Init == keys \in TableKeys /\ t = lauH_new /\ on = FALSE /\ seen = {} /\ entry = << >>
Stop == on' = FALSE /\ seen' = {} /\ entry' = << >>
Keep == UNCHANGED <<on, seen, entry>>

\* t[k] = v.  A new key makes the traversal in progress meaningless.  Programs
\* store each key as its own value, so that a value under another key shows.
Assign(k, v, fails) ==
  \E r \in {lauH_set(t, k, v, fails)} :
    /\ t' = r.t
    /\ IF r.ok /\ lauH_get(t, k) = Nil /\ v # Nil THEN Stop ELSE Keep
Store == \E k \in keys, fails \in Failure : Assign(k, k, fails)
Erase == \E k \in keys : Assign(k, Nil, "none")
\* lauH_resizearray, by constructors with a list.
lauH_resizearray ==
  /\ ~on /\ \E k \in keys : arrayindex(k) # 0
  /\ \E size \in AskedSizes, fails \in Failure :
       size > asize(t) /\ t' = lauH_resize(t, size, sizenode(t), fails).t
  /\ Keep
Length == \E seed \in Seed : t' = lauH_getn(t, seed).t /\ Keep
\* clearkey: the collector marks as dead the collectable keys of empty nodes.
clearkey(n) == IF n.v = Nil /\ IsStr(n.k) THEN [n EXCEPT !.dead = TRUE] ELSE n
Collect == keys \in Traversed /\ t' = [t EXCEPT !.node = [i \in DOMAIN @ |-> clearkey(@[i])]] /\ Keep

Begin == ~on /\ keys \in Traversed /\ on' = TRUE /\ seen' = {} /\ entry' = << >> /\ UNCHANGED t
\* next(t, k) with the key it has returned last; <<Nil, Nil>> is "invalid key to 'next'".
StepFrom(i, e) ==
  IF i = -1 THEN entry' = <<Nil, Nil>> /\ UNCHANGED <<on, seen>>
  ELSE IF e = << >> THEN Stop
  ELSE entry' = e /\ seen' = seen \cup {e[1]} /\ UNCHANGED on
Step == /\ on
        /\ \E i \in {findindex(t, IF entry = << >> THEN Nil ELSE entry[1])} : StepFrom(i, lauH_next(t, Max({i, 0})))
        /\ UNCHANGED t

Operation == Store \/ Erase \/ lauH_resizearray \/ Length \/ Collect \/ Begin \/ Step
Next == Operation /\ UNCHANGED keys
Spec == Init /\ [][Next]_vars
=============================================================================
