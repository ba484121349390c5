----------------------------- MODULE LauStrings -----------------------------
(***************************************************************************)
(* The string table (lstring.c): the lists of short strings, which move    *)
(* when the table is resized and shrink when the collector sweeps.         *)
(*   tb    [hash, size, nuse]: the lists, by their position in the vector  *)
(*   objs  the string objects that exist;  dead: those to be swept         *)
(* A string is its content: there is one object for each.                  *)
(***************************************************************************)
EXTENDS Naturals, FiniteSets, SequencesExt

CONSTANTS Strings, Hash,    \* the contents, and the hash of each
          MINSTRTABSIZE, MAXSTRTB

VARIABLES tb, objs, dead
strVars == <<tb, objs, dead>>

Init == /\ tb = [hash |-> [i \in 0..(MINSTRTABSIZE - 1) |-> << >>], size |-> MINSTRTABSIZE, nuse |-> 0]
        /\ objs = {} /\ dead = {}

lmod(s, size) == Hash[s] % size
\* tablerehash: list by list, each string goes to the head of its new list.
Rechain(vect, i, nsize) ==
  LET Push(v, s) == [v EXCEPT ![lmod(s, nsize)] = <<s>> \o @]
  IN FoldLeft(Push, [vect EXCEPT ![i] = << >>], vect[i])
tablerehash(vect, osize, nsize) ==
  LET cleared == [i \in DOMAIN vect \cup 0..(nsize - 1) |-> IF i >= osize THEN << >> ELSE vect[i]]
  IN FoldLeft(LAMBDA v, i : Rechain(v, i - 1, nsize), cleared, [i \in 1..osize |-> i])
Truncated(vect, size) == [i \in 0..(size - 1) |-> vect[i]]
\* A bug: the lists stay moved when the shrinking fails.
lauS_resize_NotRestored(b, nsize, fails) ==
  LET shrunk == tablerehash(b.hash, b.size, nsize) IN
  CASE nsize < b.size /\ fails -> [b EXCEPT !.hash = shrunk]
    [] nsize < b.size /\ ~fails -> [b EXCEPT !.hash = Truncated(shrunk, nsize), !.size = nsize]
    [] nsize >= b.size /\ fails -> b
    [] OTHER -> [b EXCEPT !.hash = tablerehash(b.hash, b.size, nsize), !.size = nsize]
\* lauS_resize: when the reallocation fails, the table keeps its size.
lauS_resize(b, nsize, fails) ==
  LET shrunk == tablerehash(b.hash, b.size, nsize) IN
  CASE nsize < b.size /\ fails -> [b EXCEPT !.hash = tablerehash(shrunk, nsize, b.size)]
    [] nsize < b.size /\ ~fails -> [b EXCEPT !.hash = Truncated(shrunk, nsize), !.size = nsize]
    [] nsize >= b.size /\ fails -> b
    [] OTHER -> [b EXCEPT !.hash = tablerehash(b.hash, b.size, nsize), !.size = nsize]
growstrtab(b, fails) == IF b.size <= MAXSTRTB \div 2 THEN lauS_resize(b, b.size * 2, fails) ELSE b
lauS_remove(b, s) ==
  [b EXCEPT !.hash[lmod(s, b.size)] = SelectSeq(@, LAMBDA x : x # s), !.nuse = @ - 1]
Swept(b, S) == FoldLeft(lauS_remove, b, SetToSeq(S))

\* internshrstr: the string found, revived if it is dead, or a new one.  Both
\* allocations may collect first ('gone' dies and is swept), and may fail.
Found(s) == \E i \in DOMAIN tb.hash[lmod(s, tb.size)] : tb.hash[lmod(s, tb.size)][i] = s
Revive(s) == Found(s) /\ dead' = dead \ {s} /\ UNCHANGED <<tb, objs>>
Grown(gone, fails) ==
  IF tb.nuse >= tb.size THEN growstrtab(Swept(tb, gone), fails) ELSE tb
Create(s, fails, gone1, gone2) ==
  LET grown == Grown(gone1, fails)
      list == lmod(s, grown.size)       \* read before the collection in createstrobj
      b == Swept(grown, gone2)
  IN /\ ~Found(s)
     /\ tb.nuse < tb.size => gone1 = {} /\ ~fails
     /\ tb' = [b EXCEPT !.hash[list] = <<s>> \o @, !.nuse = @ + 1]
     /\ objs' = (objs \ (gone1 \cup gone2)) \cup {s}
     /\ dead' = dead \ (gone1 \cup gone2)
\* The new object cannot be allocated: an error, after the table has grown.
CreateFails(s, fails, gone1, gone2) ==
  /\ ~Found(s)
  /\ tb.nuse < tb.size => gone1 = {} /\ ~fails
  /\ tb' = Swept(Grown(gone1, fails), gone2)
  /\ objs' = objs \ (gone1 \cup gone2)
  /\ dead' = dead \ (gone1 \cup gone2)
internshrstr ==
  \E s \in Strings :
    \/ Revive(s)
    \/ \E fails \in BOOLEAN, gone1 \in SUBSET objs : \E gone2 \in SUBSET (objs \ gone1) :
         Create(s, fails, gone1, gone2) \/ CreateFails(s, fails, gone1, gone2)

\* The collector: strings die at the end of the marking and are swept one by
\* one; the table is halved after that when it is nearly empty (checkSizes).
Die == \E s \in objs \ dead : dead' = dead \cup {s} /\ UNCHANGED <<tb, objs>>
Sweep == \E s \in dead : tb' = lauS_remove(tb, s) /\ objs' = objs \ {s} /\ dead' = dead \ {s}
checkSizes ==
  /\ tb.nuse < tb.size \div 4
  /\ \E fails \in BOOLEAN : tb' = lauS_resize(tb, tb.size \div 2, fails)
  /\ UNCHANGED <<objs, dead>>

Next == internshrstr \/ Die \/ Sweep \/ checkSizes
Spec == Init /\ [][Next]_strVars
=============================================================================
