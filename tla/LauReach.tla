------------------------------ MODULE LauReach ------------------------------
(***************************************************************************)
(* Reachability in a graph of objects, without recursion: an object of W   *)
(* is reached from the seeds when no set of objects of W that holds the    *)
(* seeds, and the successors of its members, leaves the object out.  What  *)
(* is outside W stops the search.                                          *)
(*                                                                         *)
(* With W the whole heap this is what a Lau program can still get at; with *)
(* W the white objects it is what a call chain markobject/propagateall of  *)
(* lgc.c paints when it starts at the seeds: those functions stop at every *)
(* object that is not white.                                               *)
(***************************************************************************)

ClosedUnder(S, E, W) == \A x \in S : E[x] \cap W \subseteq S

Reach(seeds, E, W) ==
  {o \in W : \A S \in SUBSET (W \ {o}) : seeds \cap W \subseteq S => ~ClosedUnder(S, E, W)}

=============================================================================
