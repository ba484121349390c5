------------------------------ MODULE LauHeap -------------------------------
(***************************************************************************)
(* What a garbage collector promises to the programs that run over it,     *)
(* with no word on how: an object that the program can reach stays where   *)
(* it is, and an object that the program has lost does not come back,      *)
(* interned strings excepted (the program may ask for the same characters  *)
(* again while the old string is still there).                             *)
(***************************************************************************)
EXTENDS LauReach

CONSTANTS Obj,        \* addresses
          Revivable   \* the objects that may come back: strings

VARIABLES alive,      \* the addresses that hold an object
          edges,      \* what each object refers to
          roots       \* where the program starts from

heapvars == <<alive, edges, roots>>

Reached == Reach(roots, edges, Obj)

HeapInit == Reached \subseteq alive

(* the program creates objects and changes references among those it reaches *)
Program ==
  /\ alive \subseteq alive'
  /\ Reached' \subseteq Reached \cup (alive' \ alive) \cup (Revivable \cap alive)

(* the collector frees objects that the program does not reach *)
Collect ==
  /\ Reached \subseteq alive' /\ alive' \subseteq alive
  /\ Reached' \subseteq Reached

HeapSpec == HeapInit /\ [][Program \/ Collect]_heapvars

=============================================================================
