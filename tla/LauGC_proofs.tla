---------------------------- MODULE LauGC_proofs ----------------------------
(***************************************************************************)
(* Proofs about LauGC, for every set of objects and every bound: its       *)
(* invariant, and that what the program sees of it is a heap as LauHeap    *)
(* describes it, whose finalizers come in time.                            *)
(***************************************************************************)
EXTENDS LauGC, SequenceTheorems, TLAPS

-----------------------------------------------------------------------------
(* What the rest uses about Reach: it holds the seeds, it is closed under
   successors, and it is the least such set. *)

(* Reach stays within W. *)
LEMMA ReachWithin ==
  ASSUME NEW seeds, NEW E, NEW W
  PROVE  Reach(seeds, E, W) \subseteq W
BY DEF Reach

(* The seeds that lie in W are reached. *)
LEMMA ReachSeeds ==
  ASSUME NEW seeds, NEW E, NEW W
  PROVE  seeds \cap W \subseteq Reach(seeds, E, W)
BY DEF Reach

(* What a reached object refers to within W is reached. *)
LEMMA ReachClosed ==
  ASSUME NEW seeds, NEW E, NEW W
  PROVE  ClosedUnder(Reach(seeds, E, W), E, W)
<1> SUFFICES ASSUME NEW x \in Reach(seeds, E, W), NEW y \in E[x] \cap W
             PROVE  y \in Reach(seeds, E, W)
  BY DEF ClosedUnder
<1> SUFFICES ASSUME NEW S \in SUBSET (W \ {y}), seeds \cap W \subseteq S, ClosedUnder(S, E, W)
             PROVE  FALSE
  BY DEF Reach
<1>1. x \in S
  <2>1. CASE x \notin S
    <3>1. S \in SUBSET (W \ {x})
      BY <2>1
    <3> QED  BY <3>1 DEF Reach
  <2> QED  BY <2>1
<1>2. y \in S
  BY <1>1 DEF ClosedUnder
<1> QED  BY <1>2

(* A closed set that holds the seeds holds all that is reached. *)
LEMMA ReachLeast ==
  ASSUME NEW seeds, NEW E, NEW W, NEW S, seeds \cap W \subseteq S, ClosedUnder(S \cap W, E, W)
  PROVE  Reach(seeds, E, W) \subseteq S
<1> SUFFICES ASSUME NEW o \in Reach(seeds, E, W), o \notin S
             PROVE  FALSE
  OBVIOUS
<1>1. S \cap W \in SUBSET (W \ {o})
  OBVIOUS
<1>2. seeds \cap W \subseteq S \cap W
  OBVIOUS
<1> QED  BY <1>1, <1>2 DEF Reach

-----------------------------------------------------------------------------
(* The invariant of LauGC *)

(* The kinds of objects, as facts for the provers. *)
LEMMA Kinds ==
  /\ Table \subseteq Obj /\ Closure \subseteq Obj /\ UpVal \subseteq Obj
  /\ Thread \subseteq Obj /\ String \subseteq Obj
  /\ Value \subseteq Obj /\ Listed \subseteq Obj
  /\ Table \subseteq Listed /\ Closure \subseteq Listed /\ Thread \subseteq Listed
  /\ Table \subseteq Value /\ Closure \subseteq Value /\ Thread \subseteq Value
  /\ String \subseteq Value /\ Listed \subseteq Value
  /\ Value \cap UpVal = {} /\ Value \cup UpVal = Obj
  /\ Listed \cap String = {} /\ Listed \cup String = Value
  /\ Thread \cap Table = {} /\ Thread \cap Closure = {} /\ Table \cap Closure = {}
  /\ Main \in Thread /\ Nobody \notin Obj
  /\ "head" \notin Obj /\ "null" \notin Obj
BY KindsDisjoint, MainIsThread, ListEndsAreNotObjects DEF Obj, Value, Listed

(* Marks keep the types of the colors and of the gray lists. *)
LEMMA PaintType ==
  ASSUME TypeOK, NEW S PROVE Paint(S) \in [Obj -> Colors] /\ S \cap Listed \subseteq Listed
BY DEF TypeOK, Paint, Colors

(* So does the forward barrier. *)
LEMMA BarrierType ==
  ASSUME TypeOK, NEW o \in Obj, NEW c \in Colors, NEW v, ForwardBarrier(o, c, v)
  PROVE  color' \in [Obj -> Colors] /\ gray' \subseteq Listed
<1>1. CASE c = "black" /\ IsWhite(v) /\ KeepInvariant
  <2>1. Paint(MarkOnce({v})) \in [Obj -> Colors]
    BY PaintType
  <2> QED  BY <1>1, <2>1 DEF ForwardBarrier, TypeOK
<1>2. CASE ~(c = "black" /\ IsWhite(v) /\ KeepInvariant)
  BY <1>2 DEF ForwardBarrier, TypeOK, Colors
<1> QED  BY <1>1, <1>2

(* Every step keeps the types of all variables. *)
LEMMA TypeStep == TypeOK /\ [Next]_vars => TypeOK'
<1> SUFFICES ASSUME TypeOK, [Next]_vars PROVE TypeOK'
  OBVIOUS
<1> USE Kinds DEF TypeOK, Colors, Whites, States, SweepList
<1>1. ASSUME NEW o \in Listed, NewObject(o) PROVE TypeOK'
  BY <1>1 DEF NewObject, Push, gcvars, mutvars, ctlvars
<1>2. ASSUME NEW s \in String, NewString(s) PROVE TypeOK'
  BY <1>2 DEF NewString, Push, Intern, gcvars, mutvars, ctlvars
<1>3. ASSUME NEW s \in String, NewCString(s) PROVE TypeOK'
  BY <1>3 DEF NewCString, Push, Intern, gcvars, mutvars, ctlvars
<1>4. ASSUME NEW v \in Value, Load(v) PROVE TypeOK'
  BY <1>4 DEF Load, Push, gcvars, mutvars, ctlvars
<1>5. ASSUME NEW v \in Value, Pop(v) PROVE TypeOK'
  BY <1>5 DEF Pop, gcvars, mutvars, ctlvars
<1>6. ASSUME NEW th \in Thread, NEW v \in Value, XMove(th, v) PROVE TypeOK'
  BY <1>6 DEF XMove, gcvars, mutvars, ctlvars
<1>7. ASSUME NEW t \in Table, NEW v \in Value, SetField(t, v) PROVE TypeOK'
  BY <1>7 DEF SetField, BackBarrier, gcvars, mutvars, ctlvars
<1>8. ASSUME NEW t \in Table, NEW v \in Value, ClearField(t, v) PROVE TypeOK'
  BY <1>8 DEF ClearField, gcvars, mutvars, ctlvars
<1>9. ASSUME NEW t \in Table, SetRoot(t) PROVE TypeOK'
  BY <1>9 DEF SetRoot, gcvars, mutvars, ctlvars
<1>10. ASSUME ClearRoot PROVE TypeOK'
  BY <1>10 DEF ClearRoot, gcvars, mutvars, ctlvars
<1>11. ASSUME NEW t \in Table, NEW m \in Table, SetMetatable(t, m) PROVE TypeOK'
  <2>1. color' \in [Obj -> Colors] /\ gray' \subseteq Listed
    BY <1>11, BarrierType DEF SetMetatable, MakeWhite
  <2>2. UNCHANGED gcvars \/ MoveToFinobj(t)
    BY <1>11 DEF SetMetatable, MakeWhite
  <2>3. tolive' \in BOOLEAN
    BY <2>2 DEF gcvars, MoveToFinobj
  <2>4. tosweep' \subseteq Obj /\ UNCHANGED <<gcstate, currentwhite, sweepgc>>
    BY <2>2 DEF gcvars, MoveToFinobj
  <2>5. finobj' \subseteq Table
    BY <1>11 DEF SetMetatable, MakeWhite, MoveToFinobj
  <2>6. refs' \in [Obj -> SUBSET Obj]
    BY <1>11 DEF SetMetatable, MakeWhite
  <2> QED  BY <1>11, <2>1, <2>3, <2>4, <2>5, <2>6 DEF SetMetatable, MakeWhite, mutvars, ctlvars
<1>12. ASSUME NEW u \in UpVal, NEW v \in Value, FindUpval(u, v) PROVE TypeOK'
  BY <1>12 DEF FindUpval, gcvars, mutvars, ctlvars
<1>13. ASSUME NEW u \in UpVal, NEW v \in Value, SetUpval(u, v) PROVE TypeOK'
  <2>1. color' \in [Obj -> Colors] /\ gray' \subseteq Listed
    BY <1>13, BarrierType DEF SetUpval
  <2>2. refs' \in [Obj -> SUBSET Obj]
    BY <1>13 DEF SetUpval
  <2> QED  BY <1>13, <2>1, <2>2 DEF SetUpval, gcvars, mutvars, ctlvars
<1>14. ASSUME NEW u \in UpVal, NEW v \in Value, SetLocal(u, v) PROVE TypeOK'
  BY <1>14 DEF SetLocal, gcvars, mutvars, ctlvars
<1>15. ASSUME NEW c \in Closure, NEW u \in UpVal, SetUpvalueOf(c, u) PROVE TypeOK'
  <2>1. color' \in [Obj -> Colors] /\ gray' \subseteq Listed
    BY <1>15, BarrierType DEF SetUpvalueOf
  <2>2. refs' \in [Obj -> SUBSET Obj]
    BY <1>15 DEF SetUpvalueOf
  <2> QED  BY <1>15, <2>1, <2>2 DEF SetUpvalueOf, gcvars, mutvars, ctlvars
<1>16. ASSUME NEW c \in Closure, NEW v \in Value, SetConstant(c, v) PROVE TypeOK'
  <2>1. color' \in [Obj -> Colors] /\ gray' \subseteq Listed
    BY <1>16, BarrierType DEF SetConstant
  <2>2. refs' \in [Obj -> SUBSET Obj]
    BY <1>16 DEF SetConstant
  <2> QED  BY <1>16, <2>1, <2>2 DEF SetConstant, gcvars, mutvars, ctlvars
<1>17. ASSUME NEW u \in UpVal, CloseUpval(u) PROVE TypeOK'
  <2>1. color' \in [Obj -> Colors] /\ gray' \subseteq Listed
    <3>1. PICK v \in refs[u] : ForwardBarrier(u, IF IsWhite(u) THEN color[u] ELSE "black", v)
      BY <1>17 DEF CloseUpval
    <3>2. (IF IsWhite(u) THEN color[u] ELSE "black") \in Colors
      OBVIOUS
    <3> QED  BY <3>1, <3>2, BarrierType
  <2>2. owner' \in [UpVal -> Thread \cup {Nobody}]
    BY <1>17 DEF CloseUpval
  <2> QED  BY <1>17, <2>1, <2>2 DEF CloseUpval, gcvars, mutvars, ctlvars
<1>18. ASSUME NEW th \in Thread, Resume(th) PROVE TypeOK'
  BY <1>18 DEF Resume, gcvars, mutvars, ctlvars
<1>19. ASSUME Yield PROVE TypeOK'
  BY <1>19 DEF Yield, gcvars, mutvars, ctlvars
<1>20. ASSUME NEW emergency \in FullGCs, FullGC(emergency) PROVE TypeOK'
  <2>1. emergency \in BOOLEAN
    BY BoundsAreNat
  <2>2. goals' \in Seq({"pause", "callfin", "end"})
    BY <1>20, ConcatProperties DEF FullGC, BlackToWhite
  <2>3. gcstate' \in States /\ sweepgc' \in Obj \cup {"head", "null"} /\ tosweep' \subseteq Obj
    BY <1>20 DEF FullGC, BlackToWhite, EnterSweep, AllGC, Allocated
  <2>4. tolive' \in BOOLEAN
    BY <1>20 DEF FullGC, BlackToWhite, EnterSweep
  <2>5. gcemergency' \in BOOLEAN
    BY <1>20, <2>1 DEF FullGC, BlackToWhite
  <2> QED  BY <1>20, <2>2, <2>3, <2>4, <2>5 DEF FullGC, BlackToWhite, mutvars
<1>21. ASSUME EndFinalizer PROVE TypeOK'
  BY <1>21 DEF EndFinalizer, gcvars, mutvars, ctlvars
<1>22. ASSUME Restart PROVE TypeOK'
  BY <1>22 DEF Restart, Paint, gcvars, mutvars, ctlvars
<1>23. ASSUME NEW o \in Listed, Propagate(o) PROVE TypeOK'
  BY <1>23 DEF Propagate, Paint, gcvars, mutvars, ctlvars
<1>24. ASSUME EnterAtomic PROVE TypeOK'
  BY <1>24 DEF EnterAtomic, gcvars, mutvars, ctlvars
<1>25. ASSUME Atomic PROVE TypeOK'
  BY <1>25 DEF Atomic, Gone, Orphans, ToBeFinalized, ClearCache, FlipWhite, EnterSweep, AllGC, Allocated, OtherWhite, gcvars, mutvars, ctlvars
<1>26. ASSUME NEW o \in Obj, Sweep(o) PROVE TypeOK'
  <2>1. tolive' \in BOOLEAN
    BY <1>26 DEF Sweep, MakeWhite
  <2>2. color' \in [Obj -> Colors] /\ owner' \in [UpVal -> Thread \cup {Nobody}]
    <3>1. CASE IsDead(o)
      BY <1>26, <3>1 DEF Sweep, MakeWhite, Free
    <3>2. CASE ~IsDead(o)
      BY <1>26, <3>2 DEF Sweep, MakeWhite
    <3> QED  BY <3>1, <3>2
  <2>3. refs' \in [Obj -> SUBSET Obj] /\ finobj' \subseteq Table /\ tobefnz' \subseteq Table
    BY <1>26 DEF Sweep, MakeWhite, Free
  <2>4. tosweep' \subseteq Obj /\ sweepgc' \in Obj \cup {"head", "null"}
    BY <1>26 DEF Sweep, MakeWhite
  <2> QED  BY <1>26, <2>1, <2>2, <2>3, <2>4 DEF Sweep, MakeWhite, mutvars, ctlvars
<1>27. ASSUME SweepEnd PROVE TypeOK'
  BY <1>27 DEF SweepEnd, gcvars, mutvars, ctlvars
<1>28. ASSUME NextList PROVE TypeOK'
  BY <1>28 DEF NextList, gcvars, mutvars, ctlvars
<1>29. ASSUME FinishSweep PROVE TypeOK'
  BY <1>29 DEF FinishSweep, gcvars, mutvars, ctlvars
<1>30. ASSUME NEW o \in Table, CallFinalizer(o) PROVE TypeOK'
  BY <1>30 DEF CallFinalizer, Udata2Finalize, gcvars, mutvars, ctlvars
<1>31. ASSUME FinishCycle PROVE TypeOK'
  BY <1>31 DEF FinishCycle, gcvars, mutvars, ctlvars
<1>32. ASSUME ReachGoal PROVE TypeOK'
  BY <1>32 DEF ReachGoal, gcvars, mutvars, ctlvars
<1>33. ASSUME UNCHANGED vars PROVE TypeOK'
  BY <1>33 DEF vars, gcvars, mutvars, ctlvars
<1> QED
  BY <1>1, <1>2, <1>3, <1>4, <1>5, <1>6, <1>7, <1>8, <1>9, <1>10, <1>11, <1>12, <1>13, <1>14, <1>15, <1>16, <1>17, <1>18, <1>19, <1>20, <1>21, <1>22, <1>23, <1>24, <1>25, <1>26, <1>27, <1>28, <1>29, <1>30, <1>31, <1>32, <1>33 DEF Next, Program, Collector

(* What the program can read or write is live. *)
LEMMA StackIsLive ==
  ASSUME IInv
  PROVE  /\ OnStack \subseteq Live /\ refs[running] \subseteq Live
         /\ OpenUpvals(running) \subseteq Live
         /\ running \in Live /\ Main \in Live
         /\ Readable \subseteq Live
         /\ \A o \in OnStack : refs[o] \subseteq Live
<1> USE Kinds
<1>1. running \in Live /\ Main \in Live /\ roots \subseteq Live
  BY DEF IInv, RootsAreLive, AllRoots, ProgramRoots
<1>2. refs[running] \subseteq Live
  BY <1>1 DEF IInv, LiveIsClosed
<1>3. OpenUpvals(running) \subseteq Live
  BY <1>1 DEF IInv, LiveIsClosed, OpenUpvals
<1>4. \A o \in Live : refs[o] \subseteq Live
  BY DEF IInv, LiveIsClosed
<1>5. OnStack \subseteq Live
  BY <1>2, <1>3, <1>4 DEF OnStack, Stack
<1>6. Readable \subseteq Live
  BY <1>1, <1>4, <1>5 DEF Readable, Fields
<1> QED  BY <1>1, <1>2, <1>3, <1>4, <1>5, <1>6

(* Steps that change neither the heap nor the state of the collector. *)
LEMMA Quiet ==
  ASSUME IInv, TypeOK',
         UNCHANGED <<gcvars, color, refs, owner, gray, grayagain, twups, finobj, tobefnz>>,
         {running'} \cup roots' \cup cache' \subseteq Live
  PROVE  IInv'
<1> USE DEF IInv, gcvars
<1>1. WellFormed'
  BY DEF WellFormed
<1>2. LiveIsClosed' /\ RootsAreLive'
  BY DEF LiveIsClosed, RootsAreLive, AllRoots, ProgramRoots, Live, Allocated, IsDead, OtherWhite
<1>3. Marking'
  BY DEF Marking, KeepInvariant, IsDead, OtherWhite, IsWhite, WhiteSet
<1>4. Sweeping'
  BY DEF Sweeping, Pending, KeepInvariant, Allocated
<1> QED  BY <1>1, <1>2, <1>3, <1>4

(* Steps that only move the collector on. *)
LEMMA PhaseStep ==
  ASSUME IInv, TypeOK', Sweeping', KeepInvariant' => KeepInvariant,
         UNCHANGED <<currentwhite, color, refs, owner, gray, grayagain, twups, finobj, tobefnz, mutvars>>
  PROVE  IInv'
<1> USE DEF IInv, mutvars
<1>1. WellFormed'
  BY DEF WellFormed
<1>2. LiveIsClosed' /\ RootsAreLive'
  BY DEF LiveIsClosed, RootsAreLive, AllRoots, ProgramRoots, Live, Allocated, IsDead, OtherWhite
<1>3. Marking'
  BY DEF Marking, IsDead, OtherWhite, IsWhite, WhiteSet
<1> QED  BY <1>1, <1>2, <1>3

(* Steps that only change stacks, or remove references. *)
LEMMA StackStep ==
  ASSUME IInv, TypeOK',
         UNCHANGED <<gcvars, color, owner, gray, grayagain, twups, finobj, mutvars>>,
         tobefnz' \subseteq tobefnz, gcstate \in SweepList => tobefnz' = tobefnz,
         \A p \in Obj : \/ refs'[p] \subseteq refs[p]
                        \/ p \in Thread \cap Live /\ refs'[p] \subseteq Live
                        \/ /\ p \in UpVal /\ owner[p] # Nobody
                           /\ \E v \in Value \cap Live : refs'[p] = {v}
  PROVE  IInv'
<1> USE Kinds DEF IInv, TypeOK, gcvars, mutvars
<1>1. WellFormed'
  <2>1. \A o \in Obj : color'[o] = "free" => refs'[o] = {}
    BY DEF WellFormed, Live, Allocated
  <2>2. \A s \in String : refs'[s] = {}
    BY DEF WellFormed
  <2>3. \A u \in UpVal : \A v, w \in refs'[u] : v \in Value /\ v = w
    BY DEF WellFormed
  <2> QED  BY <2>1, <2>2, <2>3 DEF WellFormed
<1>2. LiveIsClosed' /\ RootsAreLive'
  BY DEF LiveIsClosed, RootsAreLive, AllRoots, ProgramRoots, Live, Allocated, IsDead, OtherWhite
<1>3. Marking'
  <2>1. SUFFICES ASSUME KeepInvariant PROVE Marking'
    BY DEF Marking, KeepInvariant
  <2>2. \A o \in Obj : color'[o] = "black" => o \notin Thread /\ refs'[o] \cap WhiteSet' = {}
    BY <2>1 DEF Marking, WellFormed, WhiteSet, IsWhite
  <2> QED  BY <2>1, <2>2 DEF Marking, KeepInvariant, IsDead, OtherWhite, IsWhite, WhiteSet
<1>4. Sweeping'
  BY DEF Sweeping, Pending, KeepInvariant, Allocated, SweepList
<1> QED  BY <1>1, <1>2, <1>3, <1>4

(* Steps that put a value, new or dead until now, on the stack. *)
LEMMA AllocStep ==
  ASSUME IInv, TypeOK', NEW o \in Value,
         refs' = [refs EXCEPT ![running] = @ \cup {o}],
         \/ color[o] = "free" /\ color' = [color EXCEPT ![o] = currentwhite]
         \/ o \in String /\ IsDead(o) /\ color' = [color EXCEPT ![o] = currentwhite]
         \/ o \in Live /\ UNCHANGED color,
         cache' \subseteq cache \cup {o},
         UNCHANGED <<gcvars, owner, gray, grayagain, twups, finobj, tobefnz, roots, running>>
  PROVE  IInv'
<1> USE Kinds, StackIsLive DEF IInv, TypeOK, gcvars
<1>0. /\ \A p \in Obj \ {o} : color'[p] = color[p]
      /\ o \in Live \/ (color'[o] = currentwhite /\ refs[o] = {} /\ \A u \in UpVal : owner[u] # o)
      /\ color'[o] \in {color[o], currentwhite} /\ color'[o] # "free"
      /\ o \in Live => color' = color
  BY DEF WellFormed, Live, Allocated, IsDead, OtherWhite, Whites
<1>1. Live' = Live \cup {o}
  BY <1>0 DEF Live, Allocated, IsDead, OtherWhite, Whites
<1>2. WellFormed'
  <2>1. \A p \in Obj : color'[p] = "free" => refs'[p] = {}
    BY <1>0 DEF WellFormed, Live, Allocated
  <2>2. \A u \in UpVal : owner[u] # Nobody => color'[u] \notin {"free", "black"} /\ color'[owner[u]] # "free"
    BY <1>0 DEF WellFormed
  <2> QED  BY <2>1, <2>2 DEF WellFormed
<1>3. LiveIsClosed' /\ RootsAreLive'
  <2>1. \A p \in Live' : refs'[p] \subseteq Live'
    BY <1>0, <1>1 DEF LiveIsClosed
  <2>2. \A u \in UpVal : owner'[u] \in Live' => u \in Live' /\ owner'[u] \in twups'
    BY <1>0, <1>1 DEF LiveIsClosed
  <2> QED  BY <1>1, <2>1, <2>2 DEF LiveIsClosed, RootsAreLive, AllRoots, ProgramRoots
<1>4. Marking'
  <2>1. SUFFICES ASSUME KeepInvariant PROVE Marking'
    BY DEF Marking, KeepInvariant
  <2>2. o \notin Live => color[o] = "free"
    BY <2>1 DEF Marking, Live, Allocated
  <2>3. \A b \in Obj : color'[b] = "black" => color[b] = "black" /\ b \in Live /\ refs'[b] = refs[b]
    BY <1>0, <2>1 DEF Marking, Live, Allocated, IsDead, OtherWhite, Whites
  <2>4. \A b \in Obj : color'[b] = "black" => b \notin Thread /\ refs'[b] \cap WhiteSet' = {}
    <3> SUFFICES ASSUME NEW b \in Obj, color'[b] = "black", NEW x \in refs[b], color'[x] \in Whites
                 PROVE FALSE
      BY <2>1, <2>3 DEF Marking, WhiteSet, IsWhite
    <3>1. x \in Live
      BY <2>3 DEF LiveIsClosed
    <3>2. color'[x] = color[x]
      BY <1>0, <3>1
    <3> QED  BY <2>1, <2>3, <3>2 DEF Marking, WhiteSet, IsWhite
  <2>5. \A p \in Obj : ~IsDead(p)'
    BY <1>0, <2>1 DEF Marking, IsDead, OtherWhite, Whites
  <2>6. \A p \in Obj : color'[p] = "gray" =>
          p \in gray' \cup grayagain' \/ (p \in UpVal /\ owner'[p] # Nobody)
    BY <1>0, <2>1 DEF Marking, Whites
  <2>7. \A p \in gray' \cup grayagain' : color'[p] \in {"gray", "black"}
    BY <1>0, <2>1, <2>2 DEF Marking
  <2> QED  BY <1>0, <2>1, <2>2, <2>4, <2>5, <2>6, <2>7 DEF Marking, IsWhite, Whites
<1>5. Sweeping'
  BY <1>0 DEF Sweeping, Pending, KeepInvariant, Allocated, SweepList
<1> QED  BY <1>2, <1>3, <1>4, <1>5

(* What a forward barrier does to the colors. *)
LEMMA BarrierColors ==
  ASSUME IInv, NEW o \in Obj, NEW c \in Colors \ {"free"}, NEW v \in Obj,
         ~(v = o /\ c = "black" /\ IsWhite(v)),
         ForwardBarrier(o, c, v)
  PROVE  /\ \A p \in Obj \ {o} : \/ color'[p] = color[p]
                                 \/ KeepInvariant /\ IsWhite(p) /\ color'[p] \in {"gray", "black"}
         /\ color'[o] = c \/ (c = "black" /\ ~KeepInvariant /\ color'[o] = currentwhite)
         /\ c = "black" /\ KeepInvariant => color'[v] \notin Whites
         /\ c # "black" \/ ~KeepInvariant => \A p \in Obj \ {o} : color'[p] = color[p]
         /\ gray \subseteq gray'
         /\ \A p \in Obj \ {o} : p \in gray' \ gray => color'[p] \in {"gray", "black"}
         /\ o \in gray' \ gray => IsWhite(o)
         /\ c # "black" => gray' = gray
         /\ \A p \in Obj \ {o} : color'[p] # color[p] =>
              /\ color'[p] = "gray" => p \in gray' \/ (p \in UpVal /\ owner[p] # Nobody)
              /\ color'[p] = "black" =>
                    \/ p \in String
                    \/ /\ p \in UpVal /\ owner[p] = Nobody
                       /\ \A x \in refs[p] \ {o} : color'[x] \notin Whites
<1> USE Kinds DEF IInv, TypeOK, Colors
<1>1. CASE c = "black" /\ IsWhite(v) /\ KeepInvariant
  <2> DEFINE P == MarkOnce({v})
  <2>1. color' = [Paint(P) EXCEPT ![o] = c] /\ gray' = gray \cup (P \cap Listed)
    BY <1>1 DEF ForwardBarrier
  <2>2. P \subseteq WhiteSet /\ v \in P /\ \A p \in P \cap UpVal : refs[p] \cap WhiteSet \subseteq P
    <3>1. \A p \in P : p = v \/ (v \in UpVal /\ p \in refs[v])
      BY DEF MarkOnce
    <3>2. \A p \in P \cap UpVal : p = v
      BY <3>1 DEF WellFormed
    <3>3. v \in WhiteSet
      BY <1>1 DEF WhiteSet
    <3>4. P \subseteq WhiteSet /\ v \in P
      BY <3>3 DEF MarkOnce
    <3>5. v \in UpVal => refs[v] \cap WhiteSet \subseteq P
      BY <3>3 DEF MarkOnce
    <3> QED  BY <3>2, <3>4, <3>5
  <2>3. /\ color'[o] = c
        /\ \A p \in Obj \ {o} : color'[p] = Paint(P)[p]
    BY <2>1 DEF Paint
  <2>4. \A p \in Obj \ {o} : p \notin P => color'[p] = color[p]
    BY <2>3 DEF Paint
  <2>5. \A p \in P \ {o} : /\ color'[p] \in {"gray", "black"}
                           /\ color'[p] = "gray" => p \notin String /\ ~(p \in UpVal /\ owner[p] = Nobody)
                           /\ color'[p] = "black" => p \in String \/ (p \in UpVal /\ owner[p] = Nobody)
    BY <2>2, <2>3 DEF Paint, WhiteSet
  <2>6. \A p \in (P \cap UpVal) \ {o} : \A x \in refs[p] \ {o} : color'[x] \notin Whites
    BY <2>2, <2>4, <2>5 DEF WhiteSet, IsWhite, Whites
  <2>7. v \in P \ {o}
    BY <1>1, <2>2
  <2>8. color'[v] \notin Whites
    BY <2>7, <2>5 DEF Whites
  <2>9. \A p \in P : p \in Obj /\ IsWhite(p)
    BY <2>2 DEF WhiteSet
  <2>10. \A p \in Obj \ {o} : color'[p] = "gray" /\ p \in P => p \in gray' \/ (p \in UpVal /\ owner[p] # Nobody)
    BY <2>1, <2>5, <2>9 DEF Obj, Listed
  <2> HIDE DEF P
  <2> QED  BY <1>1, <2>1, <2>3, <2>4, <2>5, <2>6, <2>8, <2>9, <2>10
<1>2. CASE c = "black" /\ IsWhite(v) /\ ~KeepInvariant
  BY <1>2 DEF ForwardBarrier
<1>3. CASE ~(c = "black" /\ IsWhite(v))
  BY <1>3 DEF ForwardBarrier, IsWhite, Whites
<1> QED  BY <1>1, <1>2, <1>3


(* A store of v in object o, followed by a forward barrier. *)
LEMMA StoreStep ==
  ASSUME IInv, TypeOK', NEW o \in (Table \cup Closure \cup UpVal) \cap Live, NEW v \in Live,
         ForwardBarrier(o, color[o], v),
         \A p \in Obj \ {o} : refs'[p] = refs[p],
         o \notin UpVal => refs'[o] \subseteq refs[o] \cup {v},
         o \in UpVal => v \in Value /\ refs'[o] = {v},
         UNCHANGED <<gcstate, currentwhite, owner, grayagain, twups, tobefnz, mutvars>>,
         finobj' \subseteq finobj \cup {o}
  PROVE  /\ WellFormed' /\ LiveIsClosed' /\ RootsAreLive' /\ Marking'
         /\ \A p \in Obj : color'[p] = "free" <=> color[p] = "free"
         /\ ~KeepInvariant => \A p \in Obj : color'[p] \in {color[p], currentwhite}
<1> USE Kinds DEF IInv, TypeOK, Colors, Whites, mutvars
<1>0. v \in Obj /\ o \in Obj /\ color[o] \in Colors \ {"free"}
  BY DEF Live, Allocated
<1>1. ~(v = o /\ color[o] = "black" /\ IsWhite(v))
  BY DEF IsWhite
<1>2. /\ \A p \in Obj \ {o} : \/ color'[p] = color[p]
                              \/ KeepInvariant /\ IsWhite(p) /\ color'[p] \in {"gray", "black"}
      /\ color'[o] = color[o] \/ (color[o] = "black" /\ ~KeepInvariant /\ color'[o] = currentwhite)
  BY <1>0, <1>1, BarrierColors
<1>3. /\ color[o] = "black" /\ KeepInvariant => color'[v] \notin Whites
      /\ color[o] # "black" \/ ~KeepInvariant => \A p \in Obj \ {o} : color'[p] = color[p]
  BY <1>0, <1>1, BarrierColors
<1>4. /\ gray \subseteq gray'
      /\ \A p \in Obj \ {o} : p \in gray' \ gray => color'[p] \in {"gray", "black"}
      /\ o \in gray' \ gray => IsWhite(o)
      /\ color[o] # "black" => gray' = gray
  BY <1>0, <1>1, BarrierColors
<1>5. \A p \in Obj \ {o} : color'[p] # color[p] =>
              /\ color'[p] = "gray" => p \in gray' \/ (p \in UpVal /\ owner[p] # Nobody)
              /\ color'[p] = "black" =>
                    \/ p \in String
                    \/ /\ p \in UpVal /\ owner[p] = Nobody
                       /\ \A x \in refs[p] \ {o} : color'[x] \notin Whites
  BY <1>0, <1>1, BarrierColors
<1>6. \A p \in Obj : color'[p] = "free" <=> color[p] = "free"
  BY <1>2 DEF IsWhite
<1>7. Live' = Live
  <2>1. \A p \in Obj : KeepInvariant => ~IsDead(p)
    BY DEF Marking
  <2>2. \A p \in Obj : p \in Live' <=> p \in Live
    BY <1>2, <2>1 DEF Live, Allocated, IsDead, IsWhite, OtherWhite
  <2> QED  BY <2>2 DEF Live, Allocated
<1>8. WellFormed'
  <2>1. \A p \in Obj : color'[p] = "free" => refs'[p] = {}
    BY <1>0, <1>6 DEF WellFormed
  <2>2. \A s \in String : refs'[s] = {}
    BY DEF WellFormed
  <2>3. \A u \in UpVal : \A x, w \in refs'[u] : x \in Value /\ x = w
    BY <1>0 DEF WellFormed
  <2>4. \A u \in UpVal : owner[u] # Nobody => color'[u] # "black"
    BY <1>2, <1>5 DEF WellFormed
  <2> QED  BY <1>6, <2>1, <2>2, <2>3, <2>4 DEF WellFormed
<1>9. LiveIsClosed' /\ RootsAreLive'
  <2>1. \A p \in Live' : refs'[p] \subseteq Live'
    BY <1>7, <1>0 DEF LiveIsClosed, Live, Allocated
  <2> QED  BY <1>7, <2>1 DEF LiveIsClosed, RootsAreLive, AllRoots, ProgramRoots
<1>10. Marking'
  <2>1. SUFFICES ASSUME KeepInvariant PROVE Marking'
    BY DEF Marking, KeepInvariant
  <2>2. color'[o] = color[o] /\ (\A p \in Obj : color'[p] \in Whites => color[p] \in Whites)
    BY <1>2, <2>1
  <2>3. \A b \in Obj : color'[b] = "black" => b \notin Thread
    BY <1>5, <2>1, <2>2 DEF Marking
  <2>4. \A b \in Obj : color'[b] = "black" => refs'[b] \cap WhiteSet' = {}
    <3> SUFFICES ASSUME NEW b \in Obj, color'[b] = "black", NEW x \in refs'[b] PROVE color'[x] \notin Whites
      BY DEF WhiteSet, IsWhite
    <3>0. x \in Obj
      BY <1>8
    <3>1. CASE b = o
      <4>1. x \in refs[o] \/ x = v
        BY <3>1, <1>0
      <4> QED  BY <1>3, <2>1, <2>2, <3>1, <4>1 DEF Marking, WhiteSet, IsWhite
    <3>2. CASE b # o /\ color[b] = "black"
      BY <1>0, <2>1, <2>2, <3>2 DEF Marking, WhiteSet, IsWhite
    <3>3. CASE b # o /\ color[b] # "black"
      <4>1. b \notin String /\ refs'[b] = refs[b]
        BY <3>3, <1>0 DEF WellFormed
      <4>2. x # o => color'[x] \notin Whites
        BY <1>5, <3>3, <4>1
      <4>3. color'[o] \notin Whites
        BY <1>3, <2>1, <2>2, <3>3
      <4> QED  BY <4>2, <4>3
    <3> QED  BY <3>1, <3>2, <3>3
  <2>5. \A p \in Obj : ~IsDead(p)'
    BY <1>2, <2>1, <2>2 DEF Marking, IsDead, OtherWhite
  <2>6. \A p \in Obj : color'[p] = "gray" =>
          p \in gray' \cup grayagain' \/ (p \in UpVal /\ owner'[p] # Nobody)
    BY <1>4, <1>5, <2>1, <2>2 DEF Marking
  <2>7. \A p \in gray' \cup grayagain' : color'[p] \in {"gray", "black"}
    <3> SUFFICES ASSUME NEW p \in gray' \cup grayagain' PROVE color'[p] \in {"gray", "black"}
      OBVIOUS
    <3>1. CASE p \in gray \cup grayagain
      BY <1>2, <2>1, <3>1 DEF Marking, IsWhite
    <3>2. CASE p \in gray' \ gray
      BY <1>4, <3>2, <2>2 DEF IsWhite
    <3> QED  BY <3>1, <3>2
  <2>8. ~IsWhite(Main)'
    BY <1>2, <2>1 DEF Marking, IsWhite
  <2> QED  BY <2>1, <2>3, <2>4, <2>5, <2>6, <2>7, <2>8 DEF Marking
<1>11. ~KeepInvariant => \A p \in Obj : color'[p] \in {color[p], currentwhite}
  BY <1>2
<1> QED  BY <1>6, <1>8, <1>9, <1>10, <1>11
(* What markobject on every object of S does to the colors. *)
LEMMA MarkColors ==
  ASSUME IInv, NEW S \in SUBSET Obj, NEW P, P = MarkOnce(S)
  PROVE  /\ P \subseteq WhiteSet /\ S \cap WhiteSet \subseteq P
         /\ \A p \in Obj \ P : Paint(P)[p] = color[p]
         /\ \A p \in P : /\ Paint(P)[p] \in {"gray", "black"}
                         /\ Paint(P)[p] = "gray" => p \in Listed \/ (p \in UpVal /\ owner[p] # Nobody)
                         /\ Paint(P)[p] = "black" => p \in String \/ (p \in UpVal /\ owner[p] = Nobody)
         /\ \A u \in P \cap UpVal : refs[u] \cap WhiteSet \subseteq P
<1> USE Kinds DEF IInv, TypeOK
<1>1. P \subseteq WhiteSet /\ S \cap WhiteSet \subseteq P
  BY DEF MarkOnce
<1>2. \A p \in P : p \in Obj
  BY <1>1 DEF WhiteSet
<1>3. \A u \in P \cap UpVal : u \in S
  BY DEF MarkOnce, WellFormed
<1>4. \A u \in P \cap UpVal : refs[u] \cap WhiteSet \subseteq P
  <2> SUFFICES ASSUME NEW u \in P \cap UpVal, NEW x \in refs[u] \cap WhiteSet PROVE x \in P
    OBVIOUS
  <2>1. u \in S \cap WhiteSet \cap UpVal
    BY <1>1, <1>3
  <2> QED  BY <2>1 DEF MarkOnce
<1>5. \A p \in P : p \in Listed \cup String \cup UpVal
  BY <1>2 DEF Obj, Listed
<1>6. \A p \in P : /\ Paint(P)[p] \in {"gray", "black"}
                   /\ Paint(P)[p] = "gray" => p \notin String /\ ~(p \in UpVal /\ owner[p] = Nobody)
                   /\ Paint(P)[p] = "black" => p \in String \/ (p \in UpVal /\ owner[p] = Nobody)
  BY <1>2 DEF Paint
<1>7. \A p \in Obj \ P : Paint(P)[p] = color[p]
  BY DEF Paint
<1> QED  BY <1>1, <1>4, <1>5, <1>6, <1>7

(* restartcollection *)
LEMMA RestartStep == ASSUME IInv, TypeOK', Restart PROVE IInv'
<1> USE Kinds DEF IInv, TypeOK, Whites
<1> DEFINE S == {Main} \cup roots \cup tobefnz
           P == MarkOnce(S)
<1>1. /\ gcstate = "pause" /\ gcstate' = "propagate" /\ color' = Paint(P)
      /\ gray' = P \cap Listed /\ grayagain' = {}
      /\ UNCHANGED <<currentwhite, sweepgc, tosweep, tolive, refs, owner, twups, finobj, tobefnz, mutvars>>
  BY DEF Restart
<1>2. \A p \in Allocated : color[p] = currentwhite
  BY <1>1 DEF Sweeping, Pending, KeepInvariant
<1>3. S \in SUBSET Obj /\ P = MarkOnce(S)
  OBVIOUS
<1> HIDE DEF P, S
<1>4. P \subseteq WhiteSet /\ S \cap WhiteSet \subseteq P
  BY <1>3, MarkColors
<1>5. \A p \in Obj \ P : color'[p] = color[p]
  BY <1>1, <1>3, MarkColors
<1>6. \A p \in P : /\ color'[p] \in {"gray", "black"}
                   /\ color'[p] = "gray" => p \in Listed \/ (p \in UpVal /\ owner[p] # Nobody)
                   /\ color'[p] = "black" => p \in String \/ (p \in UpVal /\ owner[p] = Nobody)
  BY <1>1, <1>3, MarkColors
<1>7. \A u \in P \cap UpVal : refs[u] \cap WhiteSet \subseteq P
  BY <1>3, MarkColors
<1>8. \A p \in P : p \in Allocated
  BY <1>4 DEF WhiteSet, IsWhite, Allocated
<1>9. \A p \in Obj : (color'[p] = "free" <=> color[p] = "free") /\ color'[p] # OtherWhite
  BY <1>2, <1>5, <1>6, <1>8 DEF Allocated, OtherWhite
<1>10. Live' = Live
  BY <1>1, <1>2, <1>9 DEF Live, Allocated, IsDead, OtherWhite
<1>11. WellFormed'
  <2>1. \A u \in UpVal : owner[u] # Nobody => color'[u] # "black"
    BY <1>5, <1>6 DEF WellFormed
  <2> QED  BY <1>1, <1>9, <2>1 DEF WellFormed
<1>12. LiveIsClosed' /\ RootsAreLive'
  BY <1>1, <1>10 DEF LiveIsClosed, RootsAreLive, AllRoots, ProgramRoots, mutvars
<1>13. Marking'
  <2>1. \A p \in Obj : color[p] \notin {"gray", "black"}
    BY <1>2 DEF Allocated
  <2>2. \A b \in Obj : color'[b] = "black" => b \notin Thread /\ refs'[b] \cap WhiteSet' = {}
    <3> SUFFICES ASSUME NEW b \in Obj, color'[b] = "black"
                 PROVE  b \notin Thread /\ \A x \in refs[b] : color'[x] \notin Whites
      BY <1>1 DEF WhiteSet, IsWhite
    <3>1. b \in P
      BY <1>5, <2>1
    <3>2. CASE b \in String
      BY <3>2 DEF WellFormed
    <3>3. CASE b \in UpVal
      BY <1>5, <1>6, <1>7, <3>1, <3>3 DEF WhiteSet, IsWhite
    <3> QED  BY <1>6, <3>1, <3>2, <3>3
  <2>3. \A p \in Obj : color'[p] = "gray" => p \in gray' \/ (p \in UpVal /\ owner'[p] # Nobody)
    BY <1>1, <1>5, <1>6, <2>1
  <2>4. Main \in P
    <3>1. Main \in Allocated
      BY DEF RootsAreLive, AllRoots, ProgramRoots, Live
    <3>2. Main \in WhiteSet
      BY <1>2, <3>1 DEF WhiteSet, IsWhite
    <3> QED  BY <1>4, <3>2 DEF S
  <2> QED  BY <1>1, <1>6, <1>9, <2>2, <2>3, <2>4 DEF Marking, IsDead, IsWhite, OtherWhite
<1>14. Sweeping'
  BY <1>1, <1>9 DEF Sweeping, Allocated, KeepInvariant, SweepList
<1> QED  BY <1>11, <1>12, <1>13, <1>14

(* propagatemark *)
LEMMA PropagateStep == ASSUME IInv, TypeOK', NEW o \in Listed, Propagate(o) PROVE IInv'
<1> USE Kinds DEF IInv, TypeOK, Whites
<1> DEFINE S == Succ(o)
           P == MarkOnce(S)
           c == IF o \in Thread THEN "gray" ELSE "black"
<1>1. /\ gcstate = "propagate" /\ o \in gray
      /\ color' = [Paint(P) EXCEPT ![o] = c]
      /\ gray' = (gray \ {o}) \cup (P \cap Listed) /\ grayagain' = grayagain \cup ({o} \cap Thread)
      /\ UNCHANGED <<gcvars, refs, owner, twups, finobj, tobefnz, mutvars>>
  BY DEF Propagate
<1>2. \A p \in Obj : ~IsDead(p)
  BY <1>1 DEF Marking, KeepInvariant
<1>3. S \in SUBSET Obj
  BY DEF Succ, Stack, OpenUpvals
<1>4. P \subseteq WhiteSet /\ S \cap WhiteSet \subseteq P
  BY <1>3, MarkColors
<1>5. o \notin P /\ color[o] \in {"gray", "black"}
  BY <1>1, <1>4 DEF Marking, KeepInvariant, WhiteSet, IsWhite
<1>6. color'[o] = c /\ \A p \in Obj \ {o} : color'[p] = Paint(P)[p]
  BY <1>1 DEF Paint
<1>7. \A p \in Obj \ {o} : p \notin P => color'[p] = color[p]
  BY <1>6, <1>3, MarkColors
<1>8. \A p \in P : /\ color'[p] \in {"gray", "black"}
                   /\ color'[p] = "gray" => p \in Listed \/ (p \in UpVal /\ owner[p] # Nobody)
                   /\ color'[p] = "black" => p \in String \/ (p \in UpVal /\ owner[p] = Nobody)
  <2>1. \A p \in P : color'[p] = Paint(P)[p]
    BY <1>4, <1>5, <1>6 DEF WhiteSet
  <2> QED  BY <1>3, <2>1, MarkColors
<1>9. \A u \in P \cap UpVal : refs[u] \cap WhiteSet \subseteq P
  BY <1>3, MarkColors
<1> HIDE DEF P, S
<1>10. \A p \in Obj : /\ color'[p] = "free" <=> color[p] = "free"
                      /\ color'[p] \in Whites => color[p] \in Whites
  BY <1>4, <1>5, <1>6, <1>7, <1>8 DEF WhiteSet, IsWhite
<1>11. Live' = Live
  <2>1. \A p \in Obj : ~IsDead(p)'
    BY <1>1, <1>2, <1>5, <1>6, <1>7, <1>8 DEF IsDead, OtherWhite, gcvars
  <2> QED  BY <1>2, <1>10, <2>1 DEF Live, Allocated
<1>12. WellFormed'
  <2>1. \A u \in UpVal : owner[u] # Nobody => color'[u] # "black"
    BY <1>7, <1>8 DEF WellFormed
  <2> QED  BY <1>1, <1>10, <2>1 DEF WellFormed
<1>13. LiveIsClosed' /\ RootsAreLive'
  BY <1>1, <1>11 DEF LiveIsClosed, RootsAreLive, AllRoots, ProgramRoots, mutvars
<1>14. Marking'
  <2>1. \A b \in Obj : color'[b] = "black" => b \notin Thread /\ refs'[b] \cap WhiteSet' = {}
    <3> SUFFICES ASSUME NEW b \in Obj, color'[b] = "black"
                 PROVE  b \notin Thread /\ \A x \in refs[b] : color'[x] \notin Whites
      BY <1>1 DEF WhiteSet, IsWhite
    <3>1. CASE b = o
      BY <1>4, <1>6, <1>8, <1>10, <3>1 DEF S, Succ, WhiteSet, IsWhite
    <3>2. CASE b # o /\ b \notin P
      BY <1>1, <1>7, <1>10, <3>2 DEF Marking, KeepInvariant, WhiteSet, IsWhite
    <3>3. CASE b \in P /\ b \in String
      BY <3>3 DEF WellFormed
    <3>4. CASE b \in P /\ b \in UpVal
      BY <1>8, <1>9, <1>10, <3>4 DEF WhiteSet, IsWhite
    <3> QED  BY <1>8, <3>1, <3>2, <3>3, <3>4
  <2>2. \A p \in Obj : color'[p] = "gray" =>
          p \in gray' \cup grayagain' \/ (p \in UpVal /\ owner'[p] # Nobody)
    BY <1>1, <1>6, <1>7, <1>8 DEF Marking, KeepInvariant
  <2>3. \A p \in gray' \cup grayagain' : color'[p] \in {"gray", "black"}
    BY <1>1, <1>4, <1>6, <1>7, <1>8 DEF Marking, KeepInvariant
  <2>4. \A p \in Obj : ~IsDead(p)'
    BY <1>1, <1>2, <1>5, <1>6, <1>7, <1>8 DEF IsDead, OtherWhite, gcvars
  <2>5. ~IsWhite(Main)'
    BY <1>1, <1>10 DEF Marking, KeepInvariant, IsWhite
  <2> QED  BY <2>1, <2>2, <2>3, <2>4, <2>5 DEF Marking
<1>15. Sweeping'
  BY <1>1, <1>10 DEF Sweeping, Allocated, KeepInvariant, SweepList, gcvars
<1> QED  BY <1>12, <1>13, <1>14, <1>15
(* an assignment to a field *)
LEMMA SetFieldStep ==
  ASSUME IInv, TypeOK', NEW t \in Table, NEW v \in Value, SetField(t, v) PROVE IInv'
<1> USE Kinds, StackIsLive DEF IInv, TypeOK, Whites
<1>1. /\ t \in Live /\ v \in Live
      /\ refs' = [refs EXCEPT ![t] = @ \cup {v}]
      /\ UNCHANGED <<gcvars, owner, gray, twups, finobj, tobefnz, mutvars>>
  BY DEF SetField, RootsAreLive, AllRoots, ProgramRoots
<1>2. \/ color[t] = "black" /\ IsWhite(v) /\ color' = [color EXCEPT ![t] = "gray"] /\ grayagain' = grayagain \cup {t}
      \/ ~(color[t] = "black" /\ IsWhite(v)) /\ UNCHANGED <<color, grayagain>>
  BY DEF SetField, BackBarrier
<1>3. /\ \A p \in Obj \ {t} : color'[p] = color[p]
      /\ color'[t] = color[t] \/ (color[t] = "black" /\ color'[t] = "gray" /\ t \in grayagain')
      /\ color'[t] = "black" => ~IsWhite(v)
      /\ grayagain \subseteq grayagain' /\ grayagain' \subseteq grayagain \cup {t}
  BY <1>2
<1>4. Live' = Live
  BY <1>1, <1>3 DEF Live, Allocated, IsDead, OtherWhite, gcvars
<1>5. WellFormed'
  BY <1>1, <1>3 DEF WellFormed, Live, Allocated
<1>6. LiveIsClosed' /\ RootsAreLive'
  <2>1. \A p \in Live' : refs'[p] \subseteq Live'
    BY <1>1, <1>4 DEF LiveIsClosed
  <2> QED  BY <1>1, <1>4, <2>1 DEF LiveIsClosed, RootsAreLive, AllRoots, ProgramRoots, mutvars
<1>7. Marking'
  <2>1. SUFFICES ASSUME KeepInvariant PROVE Marking'
    BY <1>1 DEF Marking, KeepInvariant, gcvars
  <2>2. \A b \in Obj : color'[b] = "black" => b \notin Thread /\ refs'[b] \cap WhiteSet' = {}
    BY <1>1, <1>3, <2>1 DEF Marking, WhiteSet, IsWhite
  <2>3. \A p \in gray' \cup grayagain' : color'[p] \in {"gray", "black"}
    BY <1>1, <1>2, <2>1 DEF Marking
  <2> QED  BY <1>1, <1>3, <2>1, <2>2, <2>3 DEF Marking, IsDead, OtherWhite, IsWhite, gcvars
<1>8. Sweeping'
  BY <1>1, <1>3 DEF Sweeping, Pending, KeepInvariant, Allocated, gcvars
<1> QED  BY <1>5, <1>6, <1>7, <1>8

(* lauF_findupval creates an upvalue *)
LEMMA FindUpvalStep ==
  ASSUME IInv, TypeOK', NEW u \in UpVal, NEW v \in Value, FindUpval(u, v) PROVE IInv'
<1> USE Kinds, StackIsLive DEF IInv, TypeOK, Whites
<1>1. /\ color[u] = "free" /\ v \in Live
      /\ color' = [color EXCEPT ![u] = currentwhite]
      /\ refs' = [refs EXCEPT ![u] = {v}] /\ owner' = [owner EXCEPT ![u] = running]
      /\ twups' = twups \cup {running}
      /\ UNCHANGED <<gcvars, gray, grayagain, finobj, tobefnz, mutvars>>
  BY DEF FindUpval
<1>2. Live' = Live \cup {u}
  BY <1>1 DEF Live, Allocated, IsDead, OtherWhite, gcvars
<1>3. WellFormed'
  BY <1>1 DEF WellFormed, Live, Allocated
<1>4. LiveIsClosed' /\ RootsAreLive'
  <2>1. \A p \in Live' : refs'[p] \subseteq Live'
    BY <1>1, <1>2 DEF LiveIsClosed
  <2>2. \A w \in UpVal : owner'[w] \in Live' => w \in Live' /\ owner'[w] \in twups'
    BY <1>1, <1>2 DEF LiveIsClosed
  <2> QED  BY <1>1, <1>2, <2>1, <2>2 DEF LiveIsClosed, RootsAreLive, AllRoots, ProgramRoots, mutvars
<1>5. Marking'
  <2>1. SUFFICES ASSUME KeepInvariant PROVE Marking'
    BY <1>1 DEF Marking, KeepInvariant, gcvars
  <2>2. \A b \in Obj : color[b] = "black" => b \in Live
    BY DEF Live, Allocated, IsDead, OtherWhite
  <2>3. u \notin Live
    BY <1>1 DEF Live, Allocated
  <2>4. \A b \in Obj : color'[b] = "black" => b \notin Thread /\ refs'[b] \cap WhiteSet' = {}
    <3> SUFFICES ASSUME NEW b \in Obj, color'[b] = "black"
                 PROVE  b \notin Thread /\ \A x \in refs'[b] : color'[x] \notin Whites
      BY DEF WhiteSet, IsWhite
    <3>1. color[b] = "black" /\ refs'[b] = refs[b]
      BY <1>1
    <3>2. \A x \in refs[b] : x # u
      BY <2>2, <2>3, <3>1 DEF LiveIsClosed
    <3> QED  BY <1>1, <2>1, <3>1, <3>2 DEF Marking, WhiteSet, IsWhite
  <2>5. \A p \in Obj : color'[p] = "gray" =>
          p \in gray' \cup grayagain' \/ (p \in UpVal /\ owner'[p] # Nobody)
    BY <1>1, <2>1 DEF Marking
  <2>6. \A p \in gray' \cup grayagain' : color'[p] \in {"gray", "black"}
    BY <1>1, <2>1 DEF Marking
  <2> QED  BY <1>1, <2>1, <2>4, <2>5, <2>6 DEF Marking, IsDead, OtherWhite, IsWhite, gcvars
<1>6. Sweeping'
  BY <1>1 DEF Sweeping, Pending, KeepInvariant, Allocated, gcvars
<1> QED  BY <1>3, <1>4, <1>5, <1>6

(* lau_setmetatable, which may give the table a finalizer *)
LEMMA SetMetatableStep ==
  ASSUME IInv, TypeOK', NEW t \in Table, NEW m \in Table, SetMetatable(t, m) PROVE IInv'
<1> USE Kinds, StackIsLive DEF IInv, TypeOK, Whites
<1>1. /\ t \in Live /\ m \in Live
      /\ refs' = [refs EXCEPT ![t] = @ \cup {m}]
      /\ UNCHANGED <<owner, grayagain, twups, tobefnz, mutvars>>
  BY DEF SetMetatable, MakeWhite
<1>2. CASE MoveToFinobj(t) /\ IsSweepPhase /\ color' = [color EXCEPT ![t] = currentwhite] /\ UNCHANGED gray
  <2>1. ~KeepInvariant /\ UNCHANGED <<gcstate, currentwhite, sweepgc>> /\ finobj' = finobj \cup {t}
    BY <1>2 DEF KeepInvariant, IsSweepPhase, SweepList, MoveToFinobj
  <2>2. Live' = Live
    BY <1>1, <1>2, <2>1 DEF Live, Allocated, IsDead, OtherWhite
  <2>3. WellFormed'
    BY <1>1, <1>2 DEF WellFormed, Live, Allocated
  <2>4. LiveIsClosed' /\ RootsAreLive'
    <3>1. \A p \in Live' : refs'[p] \subseteq Live'
      BY <1>1, <2>2 DEF LiveIsClosed
    <3> QED  BY <1>1, <2>1, <2>2, <3>1 DEF LiveIsClosed, RootsAreLive, AllRoots, ProgramRoots, mutvars
  <2>5. Marking'
    BY <2>1 DEF Marking, KeepInvariant
  <2>6. Sweeping'
    <3>1. tosweep' \subseteq Allocated' /\ (sweepgc' = "null" => tosweep' = {})
      BY <1>1, <1>2, <2>1 DEF Sweeping, MoveToFinobj, Live, Allocated
    <3>2. \A p \in Allocated' : color'[p] # currentwhite' => p \in Pending /\ p # t
      BY <1>1, <1>2, <2>1 DEF Sweeping, Live, Allocated
    <3>3. \A p \in Pending : p # t => p \in Pending'
      BY <1>1, <1>2, <2>1 DEF MoveToFinobj, Pending
    <3> QED  BY <2>1, <3>1, <3>2, <3>3 DEF Sweeping
  <2> QED  BY <2>3, <2>4, <2>5, <2>6
<1>3. ASSUME ForwardBarrier(t, color[t], m),
             UNCHANGED <<gcvars, finobj>> \/ (MoveToFinobj(t) /\ ~IsSweepPhase)
      PROVE  IInv'
  <2>1. /\ UNCHANGED <<gcstate, currentwhite, sweepgc, tosweep>> /\ finobj' \subseteq finobj \cup {t}
        /\ finobj' = finobj \/ ~IsSweepPhase
    <3>1. CASE UNCHANGED <<gcvars, finobj>>
      BY <3>1 DEF gcvars
    <3>2. CASE MoveToFinobj(t) /\ ~IsSweepPhase
      BY <3>2 DEF MoveToFinobj, Sweeping, IsSweepPhase, SweepList
    <3> QED  BY <1>3, <3>1, <3>2
  <2>2. /\ t \in (Table \cup Closure \cup UpVal) \cap Live /\ t \notin UpVal
        /\ \A p \in Obj \ {t} : refs'[p] = refs[p]
        /\ refs'[t] \subseteq refs[t] \cup {m}
    BY <1>1, KindsDisjoint
  <2>3. /\ WellFormed' /\ LiveIsClosed' /\ RootsAreLive' /\ Marking'
        /\ \A p \in Obj : color'[p] = "free" <=> color[p] = "free"
        /\ ~KeepInvariant => \A p \in Obj : color'[p] \in {color[p], currentwhite}
    BY <1>1, <1>3, <2>1, <2>2, StoreStep
  <2>4. Pending' = Pending
    BY <1>1, <2>1 DEF Pending, IsSweepPhase, SweepList
  <2>5. Sweeping'
    BY <2>1, <2>3, <2>4 DEF Sweeping, KeepInvariant, Allocated
  <2> QED  BY <2>3, <2>5
<1> QED  BY <1>2, <1>3 DEF SetMetatable, MakeWhite

(* the other stores with a forward barrier *)
LEMMA ForwardStep ==
  ASSUME IInv, TypeOK', NEW o \in (Table \cup Closure \cup UpVal) \cap Live, NEW v \in Live,
         ForwardBarrier(o, color[o], v),
         \A p \in Obj \ {o} : refs'[p] = refs[p],
         o \notin UpVal => refs'[o] \subseteq refs[o] \cup {v},
         o \in UpVal => v \in Value /\ refs'[o] = {v},
         UNCHANGED <<gcvars, owner, grayagain, twups, finobj, tobefnz, mutvars>>
  PROVE  IInv'
<1> USE DEF IInv, gcvars
<1>1. /\ WellFormed' /\ LiveIsClosed' /\ RootsAreLive' /\ Marking'
      /\ \A p \in Obj : color'[p] = "free" <=> color[p] = "free"
      /\ ~KeepInvariant => \A p \in Obj : color'[p] \in {color[p], currentwhite}
  BY StoreStep
<1>2. Sweeping'
  BY <1>1 DEF Sweeping, Pending, KeepInvariant, Allocated
<1> QED  BY <1>1, <1>2
(* lauF_closeupval *)
LEMMA CloseUpvalStep == ASSUME IInv, TypeOK', NEW u \in UpVal, CloseUpval(u) PROVE IInv'
<1> USE Kinds, StackIsLive DEF IInv, TypeOK, Colors, Whites
<1> DEFINE c == IF IsWhite(u) THEN color[u] ELSE "black"
<1>1. PICK v \in refs[u] : ForwardBarrier(u, c, v)
  BY DEF CloseUpval
<1>2. /\ owner[u] \in {running} \cup (OnStack \cap Thread) /\ owner' = [owner EXCEPT ![u] = Nobody]
      /\ UNCHANGED <<gcvars, refs, grayagain, twups, finobj, tobefnz, mutvars>>
  BY DEF CloseUpval
<1>3. owner[u] # Nobody /\ u \in Live /\ color[u] \notin {"free", "black"} /\ v \in Value /\ refs[u] = {v}
  BY <1>2 DEF WellFormed, LiveIsClosed
<1>4. v \in Obj /\ v # u
  BY <1>3
<1>5. c \in Colors \ {"free"} /\ c # "gray" /\ (c # "black" => c = color[u])
  BY <1>3 DEF IsWhite
<1> HIDE DEF c
<1>6. /\ \A p \in Obj \ {u} : \/ color'[p] = color[p]
                              \/ KeepInvariant /\ IsWhite(p) /\ color'[p] \in {"gray", "black"}
      /\ color'[u] = c \/ (c = "black" /\ ~KeepInvariant /\ color'[u] = currentwhite)
  BY <1>1, <1>4, <1>5, BarrierColors
<1>7. /\ c = "black" /\ KeepInvariant => color'[v] \notin Whites
      /\ c # "black" \/ ~KeepInvariant => \A p \in Obj \ {u} : color'[p] = color[p]
      /\ gray \subseteq gray'
      /\ \A p \in Obj \ {u} : p \in gray' \ gray => color'[p] \in {"gray", "black"}
  BY <1>1, <1>4, <1>5, BarrierColors
<1>8. \A p \in Obj \ {u} : color'[p] # color[p] =>
              /\ color'[p] = "gray" => p \in gray' \/ (p \in UpVal /\ owner[p] # Nobody)
              /\ color'[p] = "black" =>
                    \/ p \in String
                    \/ /\ p \in UpVal /\ owner[p] = Nobody
                       /\ \A x \in refs[p] \ {u} : color'[x] \notin Whites
  BY <1>1, <1>4, <1>5, BarrierColors
<1>9. \A p \in Obj : color'[p] = "free" <=> color[p] = "free"
  BY <1>3, <1>5, <1>6 DEF IsWhite
<1>10. Live' = Live
  <2>1. \A p \in Obj : KeepInvariant => ~IsDead(p)
    BY DEF Marking
  <2>2. \A p \in Obj : p \in Live' <=> p \in Live
    BY <1>2, <1>3, <1>5, <1>6, <2>1 DEF Live, Allocated, IsDead, IsWhite, OtherWhite, gcvars
  <2> QED  BY <2>2 DEF Live, Allocated
<1>11. WellFormed'
  <2>1. \A w \in UpVal : owner'[w] # Nobody => w # u /\ owner'[w] = owner[w] /\ color'[w] # "black"
    BY <1>2, <1>6, <1>8 DEF WellFormed
  <2> QED  BY <1>2, <1>9, <2>1 DEF WellFormed
<1>12. LiveIsClosed' /\ RootsAreLive'
  <2>1. \A w \in UpVal : owner'[w] \in Live' => owner'[w] = owner[w]
    BY <1>2 DEF Live, Allocated
  <2>2. \A w \in UpVal : owner'[w] \in Live' => w \in Live' /\ owner'[w] \in twups'
    BY <1>2, <1>10, <2>1 DEF LiveIsClosed
  <2> QED  BY <1>2, <1>10, <2>2 DEF LiveIsClosed, RootsAreLive, AllRoots, ProgramRoots, gcvars, mutvars
<1>13. Marking'
  <2>1. SUFFICES ASSUME KeepInvariant PROVE Marking'
    BY <1>2 DEF Marking, KeepInvariant, gcvars
  <2>2. color'[u] = c /\ (\A p \in Obj : color'[p] \in Whites => color[p] \in Whites)
    BY <1>5, <1>6, <2>1
  <2>3. \A b \in Obj : color'[b] = "black" => b \notin Thread
    BY <1>8, <2>1, <2>2 DEF Marking
  <2>4. \A b \in Obj : color'[b] = "black" => refs'[b] \cap WhiteSet' = {}
    <3> SUFFICES ASSUME NEW b \in Obj, color'[b] = "black", NEW x \in refs[b] PROVE color'[x] \notin Whites
      BY <1>2 DEF WhiteSet, IsWhite
    <3>1. CASE b = u
      BY <1>3, <1>7, <2>1, <2>2, <3>1
    <3>2. CASE b # u /\ color[b] = "black"
      BY <2>1, <2>2, <3>2 DEF Marking, WhiteSet, IsWhite
    <3>3. CASE b # u /\ color[b] # "black"
      BY <1>7, <1>8, <2>1, <2>2, <3>3 DEF WellFormed
    <3> QED  BY <3>1, <3>2, <3>3
  <2>5. \A p \in Obj : ~IsDead(p)'
    BY <1>2, <1>5, <1>6, <2>1, <2>2 DEF Marking, IsDead, OtherWhite, gcvars
  <2>6. \A p \in Obj : color'[p] = "gray" =>
          p \in gray' \cup grayagain' \/ (p \in UpVal /\ owner'[p] # Nobody)
    BY <1>2, <1>5, <1>7, <1>8, <2>1, <2>2 DEF Marking
  <2>7. \A p \in gray' \cup grayagain' : color'[p] \in {"gray", "black"}
    <3> SUFFICES ASSUME NEW p \in gray' \cup grayagain' PROVE color'[p] \in {"gray", "black"}
      OBVIOUS
    <3>1. p # u
      OBVIOUS
    <3>2. CASE p \in gray \cup grayagain
      BY <1>6, <2>1, <3>1, <3>2 DEF Marking, IsWhite
    <3>3. CASE p \in gray' \ gray
      BY <1>7, <3>1, <3>3
    <3> QED  BY <1>2, <3>2, <3>3
  <2>8. ~IsWhite(Main)'
    BY <2>1, <2>2 DEF Marking, IsWhite
  <2> QED  BY <2>1, <2>3, <2>4, <2>5, <2>6, <2>7, <2>8 DEF Marking, KeepInvariant, gcvars
<1>14. Sweeping'
  <2>1. ~KeepInvariant => \A p \in Obj : color'[p] # currentwhite => color[p] # currentwhite
    BY <1>5, <1>6, <1>3 DEF IsWhite, c, Live, IsDead, OtherWhite
  <2> QED  BY <1>2, <1>9, <2>1 DEF Sweeping, Pending, KeepInvariant, Allocated, gcvars
<1> QED  BY <1>11, <1>12, <1>13, <1>14

(* sweeplist on one object *)
LEMMA SweepStep == ASSUME IInv, TypeOK', NEW o \in Obj, Sweep(o) PROVE IInv'
<1> USE Kinds DEF IInv, TypeOK, Whites
<1>1. /\ gcstate \in SweepList /\ o \in tosweep /\ tosweep' = tosweep \ {o} /\ o \in Allocated
      /\ UNCHANGED <<gcstate, currentwhite, gray, grayagain, twups, mutvars>>
  BY DEF Sweep, MakeWhite, Sweeping
<1>2. ~KeepInvariant /\ ~KeepInvariant'
  BY <1>1 DEF KeepInvariant, SweepList
<1>3. Marking'
  BY <1>2 DEF Marking
<1>4. CASE IsDead(o)
  <2>1. Free(o)
    BY <1>4 DEF Sweep, MakeWhite
  <2>2. /\ color'[o] = "free" /\ refs' = [refs EXCEPT ![o] = {}]
        /\ \A p \in Obj \ {o} : \/ color'[p] = color[p]
                                \/ /\ p \in UpVal /\ owner[p] = o /\ color[p] \in {"gray", "black"}
                                   /\ color'[p] \in {currentwhite, "black"}
        /\ \A u \in UpVal : owner'[u] = IF u = o \/ owner[u] = o THEN Nobody ELSE owner[u]
        /\ finobj' = finobj \ {o} /\ tobefnz' = tobefnz \ {o}
    BY <2>1 DEF Free
  <2>3. Live' = Live /\ o \notin Live
    <3>1. o \notin Live' /\ o \notin Live
      BY <1>4, <2>2 DEF Live, Allocated
    <3>2. \A p \in Obj \ {o} : p \in Live' <=> p \in Live
      BY <1>1, <2>2 DEF Live, Allocated, IsDead, OtherWhite
    <3>3. \A p \in Obj : p \in Live' <=> p \in Live
      BY <3>1, <3>2
    <3> QED  BY <3>1, <3>3 DEF Live, Allocated
  <2>4. WellFormed'
    <3>1. \A p \in Obj : color'[p] = "free" => refs'[p] = {}
      BY <2>2 DEF WellFormed
    <3>2. \A u \in UpVal : owner'[u] # Nobody =>
            owner'[u] = owner[u] /\ owner[u] # o /\ u # o /\ color'[u] = color[u] /\ color'[owner[u]] # "free"
      BY <2>2 DEF WellFormed
    <3> QED  BY <2>2, <3>1, <3>2 DEF WellFormed
  <2>5. LiveIsClosed' /\ RootsAreLive'
    <3>1. \A p \in Live' : refs'[p] \subseteq Live'
      BY <2>2, <2>3 DEF LiveIsClosed
    <3>2. \A u \in UpVal : owner'[u] \in Live' => u \in Live' /\ owner'[u] \in twups'
      BY <1>1, <2>2, <2>3 DEF LiveIsClosed, Live, Allocated
    <3> QED  BY <1>1, <2>2, <2>3, <3>1, <3>2 DEF LiveIsClosed, RootsAreLive, AllRoots, ProgramRoots, mutvars
  <2>6. Sweeping'
    <3>1. tosweep' \subseteq Allocated'
      BY <1>1, <2>2 DEF Sweeping, Allocated
    <3>2. sweepgc' = "null" => tosweep' = {}
      BY <1>1, <1>4 DEF Sweep, MakeWhite, Sweeping
    <3>3. \A p \in Allocated' : color'[p] # currentwhite => p \in Pending /\ p # o
      BY <1>2, <2>2 DEF Sweeping, Allocated
    <3>4. \A p \in Pending : p # o => p \in Pending'
      BY <1>1, <2>2 DEF Pending
    <3> QED  BY <1>1, <3>1, <3>2, <3>3, <3>4 DEF Sweeping
  <2> QED  BY <1>3, <2>4, <2>5, <2>6
<1>5. CASE ~IsDead(o)
  <2>1. color' = [color EXCEPT ![o] = currentwhite] /\ UNCHANGED <<owner, refs, finobj, tobefnz>>
        /\ (sweepgc' = "null" => tosweep' = {})
    BY <1>5 DEF Sweep, MakeWhite
  <2>2. Live' = Live
    BY <1>1, <1>5, <2>1 DEF Live, Allocated, IsDead, OtherWhite
  <2>3. WellFormed'
    BY <1>1, <2>1 DEF WellFormed, Allocated
  <2>4. LiveIsClosed' /\ RootsAreLive'
    BY <1>1, <2>1, <2>2 DEF LiveIsClosed, RootsAreLive, AllRoots, ProgramRoots, mutvars
  <2>5. Sweeping'
    <3>1. \A p \in Allocated' : color'[p] # currentwhite => p \in Pending /\ p # o
      BY <1>1, <1>2, <2>1 DEF Sweeping, Allocated
    <3>2. \A p \in Pending : p # o => p \in Pending'
      BY <1>1, <2>1 DEF Pending
    <3> QED  BY <1>1, <2>1, <3>1, <3>2 DEF Sweeping, Allocated
  <2> QED  BY <1>3, <2>3, <2>4, <2>5
<1> QED  BY <1>4, <1>5
(* What one stage of atomic reaches. *)
LEMMA Stage ==
  ASSUME NEW seeds, NEW E, NEW W, NEW R, R = Reach(seeds, E, W)
  PROVE  R \subseteq W /\ seeds \cap W \subseteq R /\ \A x \in R : E[x] \cap W \subseteq R
<1>1. seeds \cap W \subseteq R /\ R \subseteq W
  BY ReachSeeds, ReachWithin
<1>2. \A x \in R : E[x] \cap W \subseteq R
  BY ReachClosed DEF ClosedUnder
<1> QED  BY <1>1, <1>2

(* atomic: what is not white at its end refers to nothing that is white then *)
LEMMA AtomicStep == ASSUME IInv, TypeOK', Atomic PROVE IInv'
<1> USE Kinds DEF IInv, TypeOK
<1> DEFINE E  == Edges
           W0 == WhiteSet
           s1 == {running} \cup roots \cup Kids(gray)
           R1 == Reach(s1, E, W0)
           W1 == W0 \ R1
           gone == Gone(W1)
           orphans == Orphans(gone, W1)
           s2 == UNION {refs[u] : u \in orphans}
           R2 == Reach(s2, E, W1)
           W2 == W1 \ R2
           s3 == Kids(grayagain)
           R3 == Reach(s3, E, W2)
           W3 == W2 \ R3
           dying == ToBeFinalized(W3)
           s4 == tobefnz \cup dying
           R4 == Reach(s4, E, W3)
           W4 == W3 \ R4
           visited == gray \cup grayagain \cup (W0 \ W4)
<1>1. /\ gcstate = "enteratomic"
      /\ color' = [o \in Obj |-> IF o \notin visited THEN color[o]
                                 ELSE IF o \in UpVal /\ owner[o] # Nobody THEN "gray" ELSE "black"]
      /\ twups' = (twups \ gone) \cup {th \in visited \cap Thread : OpenUpvals(th) # {}}
      /\ finobj' = finobj \ dying /\ tobefnz' = tobefnz \cup dying /\ cache' = cache \ W4
      /\ currentwhite' = OtherWhite
      /\ gcstate' = "swpallgc" /\ sweepgc' = "head" /\ tosweep' = AllGC
      /\ UNCHANGED <<refs, owner, roots, running>>
  BY DEF Atomic, Gone, Orphans, ToBeFinalized, ClearCache, FlipWhite, EnterSweep
<1>a. R1 = Reach(s1, E, W0) /\ R2 = Reach(s2, E, W1) /\ R3 = Reach(s3, E, W2) /\ R4 = Reach(s4, E, W3)
  OBVIOUS
<1>b. /\ W1 = W0 \ R1 /\ W2 = W1 \ R2 /\ W3 = W2 \ R3 /\ W4 = W3 \ R4
      /\ s1 = {running} \cup roots \cup Kids(gray) /\ s2 = UNION {refs[u] : u \in orphans}
      /\ s3 = Kids(grayagain) /\ s4 = tobefnz \cup dying
  OBVIOUS
<1>6. orphans = {u \in UpVal : owner[u] \in gone /\ u \notin W1} /\ gone = {th \in twups : th \in W1 \/ OpenUpvals(th) = {}}
      /\ dying = finobj \cap W3 /\ visited = gray \cup grayagain \cup (W0 \ W4) /\ W0 = WhiteSet /\ E = Edges
  BY DEF Orphans, Gone, ToBeFinalized
<1> HIDE DEF E, W0, W1, gone, orphans, W2, W3, dying, W4, visited,
         s1, s2, s3, s4, R1, R2, R3, R4
<1>2. W1 \subseteq W0 /\ ({running} \cup roots \cup Kids(gray)) \cap W1 = {} /\ \A x \in W0 \ W1 : E[x] \cap W1 = {}
  <2>1. R1 \subseteq W0 /\ s1 \cap W0 \subseteq R1 /\ \A x \in R1 : E[x] \cap W0 \subseteq R1
    BY <1>a, Stage
  <2> QED  BY <1>b, <2>1
<1>3. W2 \subseteq W1 /\ (\A u \in orphans : refs[u] \cap W2 = {}) /\ \A x \in W1 \ W2 : E[x] \cap W2 = {}
  <2>1. R2 \subseteq W1 /\ s2 \cap W1 \subseteq R2 /\ \A x \in R2 : E[x] \cap W1 \subseteq R2
    BY <1>a, Stage
  <2> QED  BY <1>b, <2>1
<1>4. W3 \subseteq W2 /\ Kids(grayagain) \cap W3 = {} /\ \A x \in W2 \ W3 : E[x] \cap W3 = {}
  <2>1. R3 \subseteq W2 /\ s3 \cap W2 \subseteq R3 /\ \A x \in R3 : E[x] \cap W2 \subseteq R3
    BY <1>a, Stage
  <2> QED  BY <1>b, <2>1
<1>5. W4 \subseteq W3 /\ (tobefnz \cup dying) \cap W4 = {} /\ \A x \in W3 \ W4 : E[x] \cap W4 = {}
  <2>1. R4 \subseteq W3 /\ s4 \cap W3 \subseteq R4 /\ \A x \in R4 : E[x] \cap W3 \subseteq R4
    BY <1>a, Stage
  <2> QED  BY <1>b, <2>1
<1>7. /\ \A o \in Obj : ~IsDead(o)
      /\ \A o \in Obj : color[o] = "black" => o \notin Thread /\ refs[o] \cap W0 = {}
      /\ \A o \in Obj : color[o] = "gray" =>
           o \in gray \cup grayagain \/ (o \in UpVal /\ owner[o] # Nobody)
      /\ \A o \in gray \cup grayagain : color[o] \in {"gray", "black"}
      /\ Main \notin W0
  BY <1>1, <1>6 DEF Marking, KeepInvariant, WhiteSet
<1>8. Live = Allocated
  BY <1>7 DEF Live, Allocated
<1>9. \A x \in W0 \ W4 : Succ(x) \cap W4 = {}
  <2>1. \A x \in W0 \ W4 : E[x] \cap W4 = {}
    BY <1>2, <1>3, <1>4, <1>5
  <2> QED  BY <1>6, <2>1 DEF WhiteSet, Edges
<1>10. \A x \in gray \cup grayagain : Succ(x) \cap W4 = {}
  BY <1>2, <1>3, <1>4, <1>5 DEF Kids
<1>11. \A th \in Thread \cap Allocated : th \notin W4 => th \in visited /\ Succ(th) \cap W4 = {}
  <2> SUFFICES ASSUME NEW th \in Thread, th \in Allocated, th \notin W4 PROVE th \in visited /\ Succ(th) \cap W4 = {}
    OBVIOUS
  <2>1. CASE th \in W0
    BY <1>6, <1>9, <2>1
  <2>2. CASE th \notin W0
    <3>1. color[th] = "gray"
      BY <1>6, <1>7, <2>2 DEF WhiteSet, IsWhite, Allocated, Colors, Whites
    <3> QED  BY <1>6, <1>7, <1>10, <3>1
  <2> QED  BY <2>1, <2>2
<1>12. \A x \in Allocated : x \notin W4 => refs[x] \cap W4 = {}
  <2> SUFFICES ASSUME NEW x \in Obj, x \in Allocated, x \notin W4 PROVE refs[x] \cap W4 = {}
    BY DEF Allocated
  <2>1. refs[x] \subseteq Succ(x)
    BY DEF Succ, Stack
  <2>2. CASE x \in W0
    BY <1>9, <2>1, <2>2
  <2>3. CASE x \in gray \cup grayagain
    BY <1>10, <2>1, <2>3
  <2>4. CASE color[x] = "black"
    BY <1>2, <1>3, <1>4, <1>5, <1>7, <2>4
  <2>5. CASE x \in UpVal /\ owner[x] # Nobody /\ x \notin W0
    <3>1. owner[x] \in Thread \cap Allocated /\ owner[x] \in twups /\ x \in OpenUpvals(owner[x])
      BY <1>8, <2>5 DEF WellFormed, LiveIsClosed, OpenUpvals, Allocated
    <3>2. CASE owner[x] \in W4
      <4>1. x \in orphans
        BY <1>2, <1>3, <1>4, <1>5, <1>6, <2>5, <3>1, <3>2
      <4> QED  BY <1>3, <1>4, <1>5, <4>1
    <3>3. CASE owner[x] \notin W4
      <4>1. refs[x] \subseteq Succ(owner[x])
        BY <3>1 DEF Succ, Stack
      <4> QED  BY <1>11, <3>1, <3>3, <4>1
    <3> QED  BY <3>2, <3>3
  <2> QED  BY <1>6, <1>7, <2>2, <2>3, <2>4, <2>5 DEF WhiteSet, IsWhite, Allocated, Colors, Whites
<1>13. Live' = Allocated \ W4 /\ Allocated' = Allocated
  <2>1. visited \subseteq Allocated /\ visited \cap W4 = {}
    BY <1>2, <1>3, <1>4, <1>5, <1>6, <1>7 DEF WhiteSet, IsWhite, Allocated, Whites
  <2>2. \A o \in Obj : o \in W4 => color[o] = currentwhite
    BY <1>2, <1>3, <1>4, <1>5, <1>6, <1>7 DEF WhiteSet, IsWhite, IsDead, OtherWhite, Whites
  <2>3. \A o \in Obj : o \notin visited /\ o \notin W4 => color[o] \notin Whites
    BY <1>6 DEF WhiteSet, IsWhite
  <2>4. \A o \in Obj : o \in Allocated' <=> o \in Allocated
    BY <1>1, <2>1 DEF Allocated
  <2>5. currentwhite = OtherWhite'
    BY <1>1 DEF OtherWhite, Whites
  <2>6. \A o \in Obj : IsDead(o)' <=> o \in W4
    BY <1>1, <2>1, <2>2, <2>3, <2>5 DEF IsDead, Whites
  <2>7. \A o \in Obj : o \in Live' <=> o \in Allocated \ W4
    BY <2>4, <2>6 DEF Live, Allocated
  <2> QED  BY <2>4, <2>7 DEF Live, Allocated
<1>14. WellFormed'
  <2>1. \A u \in UpVal : owner[u] # Nobody => color'[u] # "black"
    BY <1>1 DEF WellFormed
  <2>2. \A o \in Obj : color'[o] = "free" <=> color[o] = "free"
    BY <1>13 DEF Allocated
  <2>3. UNCHANGED <<refs, owner>>
    BY <1>1
  <2> QED  BY <2>1, <2>2, <2>3 DEF WellFormed
<1>15. LiveIsClosed'
  <2>1. \A x \in Live' : refs'[x] \subseteq Live'
    BY <1>1, <1>8, <1>12, <1>13 DEF LiveIsClosed
  <2>2. ASSUME NEW u \in UpVal, owner[u] \in Live' PROVE u \in Live' /\ owner[u] \in twups'
    <3>1. owner[u] \in Thread \cap Allocated /\ owner[u] \notin W4 /\ u \in OpenUpvals(owner[u]) /\ u \in Live
      BY <1>8, <1>13, <2>2 DEF LiveIsClosed, OpenUpvals, Allocated
    <3>2. owner[u] \in visited /\ Succ(owner[u]) \cap W4 = {}
      BY <1>11, <3>1
    <3>3. u \in Succ(owner[u])
      BY <3>1 DEF Succ
    <3> QED  BY <1>1, <1>8, <1>13, <3>1, <3>2, <3>3
  <2> QED  BY <1>1, <2>1, <2>2 DEF LiveIsClosed
<1>16. RootsAreLive'
  <2>1. /\ {Main, running} \cup roots \cup finobj \cup tobefnz \cup cache \cup twups \subseteq Allocated
    BY <1>8 DEF RootsAreLive, AllRoots, ProgramRoots
  <2>2. W4 \subseteq W3 /\ W4 \subseteq W1 /\ W4 \subseteq W0
    BY <1>2, <1>3, <1>4, <1>5
  <2>3. {Main, running} \cup roots \subseteq Live'
    BY <1>2, <1>7, <1>13, <2>1, <2>2
  <2>4. finobj' \cup tobefnz' \cup cache' \subseteq Live'
    BY <1>1, <1>5, <1>6, <1>13, <2>1, <2>2
  <2>5. twups' \subseteq Live'
    BY <1>1, <1>6, <1>7, <1>13, <2>1, <2>2 DEF WhiteSet, IsWhite, Allocated, Whites
  <2> QED  BY <1>1, <2>3, <2>4, <2>5 DEF RootsAreLive, AllRoots, ProgramRoots
<1>17. Marking'
  BY <1>1 DEF Marking, KeepInvariant
<1>18. Sweeping'
  <2>1. finobj' \cup tobefnz' = finobj \cup tobefnz
    BY <1>1, <1>6
  <2>2. Allocated \subseteq Pending'
    BY <1>1, <2>1 DEF Pending, AllGC
  <2> QED  BY <1>1, <1>13, <2>2 DEF Sweeping, AllGC, SweepList
<1> QED  BY <1>14, <1>15, <1>16, <1>17, <1>18

(* The inductive invariant is kept by every step. *)
LEMMA InvStep == IInv /\ [Next]_vars => IInv'
<1> SUFFICES ASSUME IInv, [Next]_vars PROVE IInv'
  OBVIOUS
<1>t. TypeOK'
  BY TypeStep DEF IInv
<1> USE Kinds, StackIsLive, <1>t DEF IInv, TypeOK, Colors, Whites
<1>l. OnStack \subseteq Obj /\ Live \subseteq Obj
  BY DEF Live, Allocated
<1>1. ASSUME NEW o \in Listed, NewObject(o) PROVE IInv'
  BY <1>1, AllocStep DEF NewObject, Push, mutvars
<1>2. ASSUME NEW s \in String, Intern(s) PROVE
        \/ color[s] = "free" /\ color' = [color EXCEPT ![s] = currentwhite]
        \/ IsDead(s) /\ color' = [color EXCEPT ![s] = currentwhite]
        \/ s \in Live /\ UNCHANGED color
  <2>1. CASE color[s] \in {"free", OtherWhite}
    BY <1>2, <2>1 DEF Intern, IsDead
  <2>2. CASE color[s] \notin {"free", OtherWhite}
    BY <1>2, <2>2 DEF Intern, Live, Allocated, IsDead
  <2> QED  BY <2>1, <2>2
<1>3. ASSUME NEW s \in String, NewString(s) PROVE IInv'
  BY <1>2, <1>3, AllocStep DEF NewString, Push, mutvars
<1>4. ASSUME NEW s \in String, NewCString(s) PROVE IInv'
  <2>1. CASE s \in cache /\ UNCHANGED <<color, cache>>
    BY <1>4, <2>1, AllocStep DEF NewCString, Push, RootsAreLive
  <2>2. CASE Intern(s) /\ cache' \subseteq cache \cup {s}
    BY <1>2, <1>4, <2>2, AllocStep DEF NewCString, Push
  <2> QED  BY <1>4, <2>1, <2>2 DEF NewCString
<1>5. ASSUME NEW v \in Value, Load(v) PROVE IInv'
  BY <1>5, StackStep DEF Load, Push
<1>6. ASSUME NEW v \in Value, Pop(v) PROVE IInv'
  BY <1>6, StackStep DEF Pop
<1>7. ASSUME NEW th \in Thread, NEW v \in Value, XMove(th, v) PROVE IInv'
  <2>1. \A p \in Obj : refs'[p] \subseteq refs[p] \/ (p = th /\ refs'[p] = refs[p] \cup {v})
    BY <1>7 DEF XMove
  <2>2. th \in Live /\ v \in Live /\ refs[th] \subseteq Live
    BY <1>7 DEF XMove, LiveIsClosed
  <2>3. \A p \in Obj : refs'[p] \subseteq refs[p] \/ (p \in Thread \cap Live /\ refs'[p] \subseteq Live)
    BY <2>1, <2>2
  <2>4. UNCHANGED <<gcvars, color, owner, gray, grayagain, twups, finobj, tobefnz, mutvars>>
    BY <1>7 DEF XMove
  <2> QED  BY <2>3, <2>4, StackStep
<1>8. ASSUME NEW t \in Table, NEW v \in Value, SetField(t, v) PROVE IInv'
  BY <1>8, SetFieldStep
<1>9. ASSUME NEW t \in Table, NEW v \in Value, ClearField(t, v) PROVE IInv'
  BY <1>9, StackStep DEF ClearField
<1>10. ASSUME NEW t \in Table, SetRoot(t) PROVE IInv'
  BY <1>10, Quiet DEF SetRoot, RootsAreLive
<1>11. ASSUME ClearRoot PROVE IInv'
  BY <1>11, Quiet DEF ClearRoot, RootsAreLive
<1>12. ASSUME NEW t \in Table, NEW m \in Table, SetMetatable(t, m) PROVE IInv'
  BY <1>12, SetMetatableStep
<1>13. ASSUME NEW u \in UpVal, NEW v \in Value, FindUpval(u, v) PROVE IInv'
  BY <1>13, FindUpvalStep
<1>14. ASSUME NEW u \in UpVal, NEW v \in Value, SetUpval(u, v) PROVE IInv'
  <2>1. u \in Live /\ v \in Live
    BY <1>14 DEF SetUpval
  <2> QED  BY <1>14, <2>1, ForwardStep DEF SetUpval
<1>15. ASSUME NEW u \in UpVal, NEW v \in Value, SetLocal(u, v) PROVE IInv'
  BY <1>15, StackStep DEF SetLocal
<1>16. ASSUME NEW c \in Closure, NEW u \in UpVal, SetUpvalueOf(c, u) PROVE IInv'
  <2>1. c \in Live /\ u \in Live
    BY <1>16 DEF SetUpvalueOf
  <2> QED  BY <1>16, <2>1, ForwardStep DEF SetUpvalueOf
<1>17. ASSUME NEW c \in Closure, NEW v \in Value, SetConstant(c, v) PROVE IInv'
  <2>1. c \in Live /\ v \in Live
    BY <1>17 DEF SetConstant
  <2> QED  BY <1>17, <2>1, ForwardStep DEF SetConstant
<1>18. ASSUME NEW u \in UpVal, CloseUpval(u) PROVE IInv'
  BY <1>18, CloseUpvalStep
<1>19. ASSUME NEW th \in Thread, Resume(th) PROVE IInv'
  BY <1>19, Quiet DEF Resume, RootsAreLive, AllRoots, ProgramRoots
<1>20. ASSUME Yield PROVE IInv'
  BY <1>20, Quiet DEF Yield, RootsAreLive, AllRoots, ProgramRoots
<1>21. ASSUME NEW emergency \in FullGCs, FullGC(emergency) PROVE IInv'
  <2>1. KeepInvariant' => KeepInvariant
    BY <1>21 DEF FullGC, BlackToWhite, EnterSweep, KeepInvariant
  <2>2. Sweeping'
    BY <1>21 DEF Sweeping, Pending, KeepInvariant, Allocated, SweepList, FullGC, BlackToWhite, EnterSweep, AllGC
  <2> QED  BY <1>21, <2>1, <2>2, PhaseStep DEF FullGC, BlackToWhite
<1>22. ASSUME EndFinalizer PROVE IInv'
  BY <1>22, Quiet DEF EndFinalizer, RootsAreLive, mutvars, AllRoots, ProgramRoots
<1>23. ASSUME Restart PROVE IInv'
  BY <1>23, RestartStep
<1>24. ASSUME NEW o \in Listed, Propagate(o) PROVE IInv'
  BY <1>24, PropagateStep
<1>25. ASSUME EnterAtomic PROVE IInv'
  <2>1. KeepInvariant /\ Sweeping'
    BY <1>25 DEF EnterAtomic, KeepInvariant, Sweeping, SweepList, Allocated
  <2> QED  BY <1>25, <2>1, PhaseStep DEF EnterAtomic
<1>26. ASSUME Atomic PROVE IInv'
  BY <1>26, AtomicStep
<1>27. ASSUME NEW o \in Obj, Sweep(o) PROVE IInv'
  BY <1>27, SweepStep
<1>28. ASSUME SweepEnd PROVE IInv'
  <2>1. ~KeepInvariant' /\ Sweeping'
    BY <1>28 DEF SweepEnd, KeepInvariant, Sweeping, Pending, SweepList, Allocated
  <2> QED  BY <1>28, <2>1, PhaseStep DEF SweepEnd
<1>29. ASSUME NextList PROVE IInv'
  <2>1. ~KeepInvariant /\ ~KeepInvariant'
    BY <1>29 DEF NextList, KeepInvariant, SweepList
  <2>2. tosweep = {} /\ UNCHANGED <<color, currentwhite, finobj, tobefnz>>
    BY <1>29 DEF NextList, Sweeping
  <2>3. Pending \subseteq Pending'
    BY <1>29, <2>2 DEF NextList, Pending
  <2>4. finobj \cup tobefnz \subseteq Allocated
    BY DEF RootsAreLive, AllRoots, Live
  <2>5. tosweep' \subseteq Allocated /\ (sweepgc' = "null" => tosweep' = {})
    BY <1>29, <2>2, <2>4 DEF NextList
  <2>6. gcstate' \notin SweepList => sweepgc' = "null"
    BY <1>29 DEF NextList, SweepList
  <2>7. Sweeping'
    BY <2>1, <2>2, <2>3, <2>5, <2>6 DEF Sweeping, Allocated
  <2> QED  BY <1>29, <2>1, <2>7, PhaseStep DEF NextList
<1>30. ASSUME FinishSweep PROVE IInv'
  <2>1. ~KeepInvariant' /\ Sweeping'
    BY <1>30 DEF FinishSweep, KeepInvariant, Sweeping, Pending, SweepList, Allocated
  <2> QED  BY <1>30, <2>1, PhaseStep DEF FinishSweep
<1>31. ASSUME NEW o \in Table, CallFinalizer(o) PROVE IInv'
  <2>1. o \in Live /\ \A p \in Obj : refs'[p] = refs[p] \/ (p = running /\ refs'[p] = refs[p] \cup {o})
    BY <1>31 DEF CallFinalizer, Udata2Finalize, RootsAreLive, AllRoots
  <2> QED  BY <1>31, <2>1, StackStep DEF CallFinalizer, Udata2Finalize, SweepList
<1>32. ASSUME FinishCycle PROVE IInv'
  <2>1. ~KeepInvariant' /\ Sweeping'
    BY <1>32 DEF FinishCycle, KeepInvariant, Sweeping, Pending, SweepList, Allocated
  <2> QED  BY <1>32, <2>1, PhaseStep DEF FinishCycle
<1>33. ASSUME ReachGoal PROVE IInv'
  BY <1>33, Quiet DEF ReachGoal, RootsAreLive, mutvars, AllRoots, ProgramRoots
<1>34. ASSUME UNCHANGED vars PROVE IInv'
  BY <1>34, Quiet DEF vars, RootsAreLive, mutvars, AllRoots, ProgramRoots
<1> QED
  BY <1>1, <1>3, <1>4, <1>5, <1>6, <1>7, <1>8, <1>9, <1>10, <1>11, <1>12, <1>13, <1>14, <1>15,
     <1>16, <1>17, <1>18, <1>19, <1>20, <1>21, <1>22, <1>23, <1>24, <1>25, <1>26, <1>27, <1>28,
     <1>29, <1>30, <1>31, <1>32, <1>33, <1>34
  DEF Next, Program, Collector
(* The inductive invariant holds when the state has just been created. *)
LEMMA InvInit == Init => IInv
<1> SUFFICES ASSUME Init PROVE IInv
  OBVIOUS
<1> USE Kinds DEF Init, Colors, Whites
<1>1. TypeOK
  <2>1. goals \in Seq({"pause", "callfin", "end"})
    BY EmptySeq
  <2> QED  BY <2>1 DEF TypeOK, States, SweepList
<1>2. WellFormed
  BY DEF WellFormed
<1>3. Live = {Main}
  BY DEF Live, Allocated, IsDead, OtherWhite
<1>4. LiveIsClosed /\ RootsAreLive
  BY <1>3 DEF LiveIsClosed, RootsAreLive, AllRoots, ProgramRoots
<1>5. Marking /\ Sweeping
  BY DEF Marking, Sweeping, Pending, KeepInvariant, Allocated, SweepList
<1> QED  BY <1>1, <1>2, <1>4, <1>5 DEF IInv

(* The inductive invariant always holds. *)
LEMMA Inductive == Spec => []IInv
<1>1. Init => IInv
  BY InvInit
<1>2. IInv /\ [Next]_vars => IInv'
  BY InvStep
<1> QED  BY <1>1, <1>2, PTL DEF Spec

(* In every execution all variables keep their types. *)
THEOREM TypeCorrect == Spec => []TypeOK
<1>1. IInv => TypeOK
  BY DEF IInv
<1> QED  BY <1>1, Inductive, PTL

(* Nothing that a Lau program can reach is ever freed or waiting to be freed:
   for all sets of objects, at every step of the collector. *)
THEOREM NoReachableIsFreed == Spec => []ReachableIsLive
<1>1. IInv => ReachableIsLive
  <2> SUFFICES ASSUME IInv PROVE Reachable \subseteq Live
    BY DEF ReachableIsLive
  <2> USE Kinds DEF IInv
  <2>1. AllRoots \cap Obj \subseteq Live
    BY DEF RootsAreLive
  <2>2. \A x \in Live : Succ(x) \subseteq Live
    BY DEF LiveIsClosed, Succ, Stack, OpenUpvals
  <2>3. Live \subseteq Obj
    BY DEF Live, Allocated
  <2>4. ClosedUnder(Live \cap Obj, Edges, Obj)
    BY <2>2, <2>3 DEF ClosedUnder, Edges
  <2> QED  BY <2>1, <2>4, ReachLeast DEF Reachable
<1> QED  BY <1>1, Inductive, PTL

(* The tri-color invariant of lgc.h survives every store of the program: while
   marks are made, a black object never refers to a white one. *)
THEOREM TriColor == Spec => []BlackNeverPointsToWhite
<1>1. IInv => BlackNeverPointsToWhite
  BY DEF IInv, Marking, BlackNeverPointsToWhite, Succ, WhiteSet, TypeOK
<1> QED  BY <1>1, Inductive, PTL

(* No gray object is forgotten: lists 'gray' and 'grayagain' hold all those that
   propagateall and atomic have to visit. *)
THEOREM GrayIsNeverLost == Spec => []GrayIsListed
<1>1. IInv => GrayIsListed
  BY DEF IInv, Marking, GrayIsListed
<1> QED  BY <1>1, Inductive, PTL

(* The sweep leaves no object with an old color, whatever the program and the
   finalizers did meanwhile. *)
THEOREM SweepIsComplete == Spec => []SweepEndsWhite
<1>1. IInv => SweepEndsWhite
  BY DEF IInv, Sweeping, Pending, KeepInvariant, SweepEndsWhite
<1> QED  BY <1>1, Inductive, PTL

(* lauS_clearcache keeps up with the sweep: the string cache, which is never
   marked, holds no dead string and no freed one. *)
THEOREM CacheNeverDead == Spec => []CacheIsLive
<1>1. IInv => CacheIsLive
  BY DEF IInv, RootsAreLive, CacheIsLive
<1> QED  BY <1>1, Inductive, PTL

(* The list of threads with open upvalues, which is never marked either, holds
   no dead thread and misses no live one that it must hold. *)
THEOREM OpenThreadsListed == Spec => []TwupsIsExact
<1>1. IInv => TwupsIsExact
  BY DEF IInv, RootsAreLive, LiveIsClosed, TwupsIsExact
<1> QED  BY <1>1, Inductive, PTL

-----------------------------------------------------------------------------
(* What can be reached *)

(* A set that holds the starting points and all that its members refer to holds
   everything that can be reached. *)
LEMMA ReachableLeast ==
  ASSUME TypeOK, NEW X, AllRoots \subseteq X,
         \A o \in X \cap Obj : refs[o] \subseteq X,
         \A u \in UpVal : owner[u] \in X => u \in X
  PROVE  Reachable \subseteq X
<1> USE Kinds
<1>1. \A o \in X \cap Obj : Succ(o) \subseteq X
  BY DEF Succ, Stack, OpenUpvals
<1>2. ClosedUnder(X \cap Obj, Edges, Obj)
  BY <1>1 DEF ClosedUnder, Edges
<1> QED  BY <1>2, ReachLeast DEF Reachable

(* The same after a step. *)
LEMMA ReachableLeastNext ==
  ASSUME TypeOK', NEW X, AllRoots' \subseteq X,
         \A o \in X \cap Obj : refs'[o] \subseteq X,
         \A u \in UpVal : owner'[u] \in X => u \in X
  PROVE  Reachable' \subseteq X
<1> USE Kinds
<1>1. \A o \in X \cap Obj : Succ(o)' \subseteq X
  BY DEF Succ, Stack, OpenUpvals
<1>2. ClosedUnder(X \cap Obj, Edges', Obj)
  BY <1>1 DEF ClosedUnder, Edges
<1> QED  BY <1>2, ReachLeast DEF Reachable

(* What can be reached is closed, whatever one follows. *)
LEMMA ReachableClosed ==
  ASSUME TypeOK
  PROVE  /\ Reachable \subseteq Obj /\ AllRoots \subseteq Reachable
         /\ \A o \in Reachable : refs[o] \subseteq Reachable
         /\ \A u \in UpVal : owner[u] \in Reachable => u \in Reachable
<1> USE Kinds DEF TypeOK
<1>1. Reachable \subseteq Obj
  BY ReachWithin DEF Reachable
<1>2. AllRoots \subseteq Obj
  BY DEF AllRoots, ProgramRoots
<1>3. AllRoots \subseteq Reachable
  BY <1>2, ReachSeeds DEF Reachable
<1>4. \A o \in Reachable : Succ(o) \cap Obj \subseteq Reachable
  <2>1. ClosedUnder(Reachable, Edges, Obj)
    BY ReachClosed DEF Reachable
  <2> QED  BY <1>1, <2>1 DEF ClosedUnder, Edges
<1>5. \A o \in Reachable : refs[o] \subseteq Reachable
  BY <1>1, <1>4 DEF Succ, Stack
<1>6. ASSUME NEW u \in UpVal, owner[u] \in Reachable PROVE u \in Reachable
  <2>1. owner[u] \in Thread
    BY <1>1, <1>6
  <2>2. u \in Succ(owner[u])
    BY <2>1 DEF Succ, OpenUpvals
  <2> QED  BY <1>4, <1>6, <2>2
<1> QED  BY <1>1, <1>3, <1>5, <1>6

(* All that the program can name can be reached. *)
LEMMA StackIsReachable ==
  ASSUME TypeOK
  PROVE  /\ running \in Reachable /\ Main \in Reachable /\ roots \subseteq Reachable
         /\ OnStack \subseteq Reachable /\ refs[running] \subseteq Reachable
         /\ OpenUpvals(running) \subseteq Reachable /\ Readable \subseteq Reachable
<1> USE Kinds, ReachableClosed
<1>1. running \in Reachable /\ Main \in Reachable /\ roots \subseteq Reachable
  BY DEF AllRoots, ProgramRoots
<1>2. OpenUpvals(running) \subseteq Reachable
  BY <1>1 DEF OpenUpvals
<1>3. OnStack \subseteq Reachable
  BY <1>1, <1>2 DEF OnStack, Stack
<1>4. Readable \subseteq Reachable
  BY <1>1, <1>3 DEF Readable, Fields
<1> QED  BY <1>1, <1>2, <1>3, <1>4

(* The inductive invariant makes what can be reached live. *)
LEMMA InvReachable == IInv => Reachable \subseteq Live
<1> SUFFICES ASSUME IInv PROVE Reachable \subseteq Live
  OBVIOUS
<1> USE Kinds DEF IInv
<1>1. AllRoots \subseteq Live
  BY DEF RootsAreLive
<1>2. \A o \in Live : refs[o] \subseteq Live
  BY DEF LiveIsClosed
<1>3. \A u \in UpVal : owner[u] \in Live => u \in Live
  BY DEF LiveIsClosed
<1> QED  BY <1>1, <1>2, <1>3, ReachableLeast

-----------------------------------------------------------------------------
(* What a step of the program does to the heap *)

(* What a step may make reachable: what was already, new objects and strings. *)
MayReach == Reachable \cup (Allocated' \ Allocated) \cup String

(* A step that frees nothing, and makes starting points, references and owners
   of upvalues only of objects that it may make reachable. *)
LEMMA ProgramKeepsLost ==
  ASSUME IInv, IInv', Allocated \subseteq Allocated',
         AllRoots' \subseteq MayReach,
         \A o \in Obj : refs'[o] \subseteq refs[o] \cup MayReach,
         \A u \in UpVal : owner'[u] \in {owner[u], Nobody} \/ u \in MayReach
  PROVE  Reachable' \subseteq Reachable \cup (Allocated' \ Allocated) \cup (String \cap Allocated)
<1> USE Kinds
<1>1. /\ Reachable \subseteq Obj /\ \A o \in Reachable : refs[o] \subseteq Reachable
      /\ \A u \in UpVal : owner[u] \in Reachable => u \in Reachable
  BY ReachableClosed DEF IInv
<1>2. \A o \in MayReach \cap Obj : refs'[o] \subseteq MayReach
  <2> SUFFICES ASSUME NEW o \in Obj, o \in MayReach PROVE refs'[o] \subseteq MayReach
    OBVIOUS
  <2>1. refs[o] \subseteq MayReach
    BY <1>1 DEF MayReach, IInv, WellFormed, Allocated
  <2> QED  BY <2>1
<1>3. ASSUME NEW u \in UpVal, owner'[u] \in MayReach PROVE u \in MayReach
  <2>1. CASE owner'[u] = owner[u] /\ owner[u] # Nobody
    <3>1. owner[u] \in Thread /\ color[owner[u]] # "free"
      BY <2>1 DEF IInv, TypeOK, WellFormed
    <3>2. owner[u] \in Reachable
      BY <1>3, <2>1, <3>1 DEF MayReach, Allocated
    <3> QED  BY <1>1, <3>2 DEF MayReach
  <2>2. Nobody \notin MayReach
    BY <1>1 DEF MayReach, Allocated
  <2> QED  BY <1>3, <2>1, <2>2
<1>4. Reachable' \subseteq MayReach
  BY <1>2, <1>3, ReachableLeastNext DEF IInv
<1>5. Reachable' \subseteq Allocated'
  <2>1. (IInv => Reachable \subseteq Live)'
    BY InvReachable, PTL
  <2> QED  BY <2>1 DEF Live
<1> QED  BY <1>4, <1>5 DEF MayReach

(* A barrier frees nothing. *)
LEMMA BarrierKeeps ==
  ASSUME TypeOK, NEW o \in Obj, NEW c \in Colors \ {"free"}, NEW v, ForwardBarrier(o, c, v)
  PROVE  Allocated \subseteq Allocated'
<1>1. CASE c = "black" /\ IsWhite(v) /\ KeepInvariant
  BY <1>1 DEF ForwardBarrier, Paint, TypeOK, Allocated
<1>2. CASE ~(c = "black" /\ IsWhite(v) /\ KeepInvariant)
  BY <1>2 DEF ForwardBarrier, TypeOK, Allocated, Whites
<1> QED  BY <1>1, <1>2

(* Each operation of the program meets these conditions: it names nothing but
   what it can reach, what it has just created, and strings. *)
LEMMA ProgramStep ==
  ASSUME IInv, Program
  PROVE  /\ Allocated \subseteq Allocated' /\ AllRoots' \subseteq MayReach
         /\ \A o \in Obj : refs'[o] \subseteq refs[o] \cup MayReach
         /\ \A u \in UpVal : owner'[u] \in {owner[u], Nobody} \/ u \in MayReach
<1> DEFINE Keeps == /\ Allocated \subseteq Allocated' /\ AllRoots' \subseteq MayReach
                    /\ \A o \in Obj : refs'[o] \subseteq refs[o] \cup MayReach
                    /\ \A u \in UpVal : owner'[u] \in {owner[u], Nobody} \/ u \in MayReach
<1> SUFFICES Keeps
  OBVIOUS
<1> USE Kinds
<1>t. TypeOK
  BY DEF IInv
<1>r. /\ AllRoots \subseteq MayReach /\ Reachable \subseteq MayReach /\ String \subseteq MayReach
      /\ Reachable \subseteq Obj
  BY <1>t, ReachableClosed DEF MayReach
<1>s. /\ OnStack \subseteq Reachable /\ refs[running] \subseteq Reachable
      /\ OpenUpvals(running) \subseteq Reachable /\ Readable \subseteq Reachable
      /\ running \in Reachable /\ Main \in Reachable /\ roots \subseteq Reachable
  BY <1>t, StackIsReachable
<1>w. currentwhite # "free"
  BY <1>t DEF TypeOK, Whites
<1>1. ASSUME NEW o \in Value, NEW v \in Value, UNCHANGED <<owner, finobj, tobefnz, roots, running>>,
             refs' = [refs EXCEPT ![running] = @ \cup {v}],
             (color[o] = "free" /\ color'[o] # "free" /\ v = o) \/ v \in MayReach,
             color' = [color EXCEPT ![o] = currentwhite] \/ UNCHANGED color
      PROVE  Keeps
  <2>1. Allocated \subseteq Allocated'
    BY <1>1, <1>t, <1>w DEF Allocated, TypeOK
  <2>2. v \in MayReach
    BY <1>1 DEF MayReach, Allocated
  <2>3. AllRoots' = AllRoots
    BY <1>1 DEF AllRoots, ProgramRoots
  <2> QED  BY <1>1, <1>r, <1>t, <2>1, <2>2, <2>3 DEF TypeOK
<1>2. ASSUME NEW o \in Listed, NewObject(o) PROVE Keeps
  BY <1>1, <1>2, <1>t, <1>w DEF NewObject, Push, mutvars, TypeOK
<1>3. ASSUME NEW s \in String, NewString(s) \/ NewCString(s) PROVE Keeps
  <2>1. Intern(s) \/ UNCHANGED color
    BY <1>3 DEF NewString, NewCString
  <2>2. color' = [color EXCEPT ![s] = currentwhite] \/ UNCHANGED color
    BY <1>t, <2>1 DEF Intern, TypeOK
  <2> QED  BY <1>1, <1>3, <1>r, <2>2 DEF NewString, NewCString, Push, mutvars
(* references are only added on one stack or in one object, and lead to what the
   program can reach *)
<1>4. ASSUME Allocated \subseteq Allocated', UNCHANGED <<roots, running>>,
             finobj' \subseteq finobj \cup Reachable, UNCHANGED tobefnz,
             \A o \in Obj : refs'[o] \subseteq refs[o] \cup Reachable,
             \A u \in UpVal : owner'[u] \in {owner[u], Nobody} \/ u \in MayReach
      PROVE  Keeps
  BY <1>4, <1>r DEF AllRoots, ProgramRoots
<1>5. ASSUME NEW v \in Value, Load(v) \/ Pop(v) PROVE Keeps
  <2>1. \A o \in Obj : refs'[o] \subseteq refs[o] \cup Reachable
    BY <1>5, <1>s, <1>t DEF Load, Pop, Push, TypeOK
  <2> QED  BY <1>4, <1>5, <2>1 DEF Load, Pop, mutvars, Allocated
<1>6. ASSUME NEW th \in Thread, NEW v \in Value, XMove(th, v) PROVE Keeps
  <2>1. \A o \in Obj : refs'[o] \subseteq refs[o] \cup Reachable
    BY <1>6, <1>s, <1>t DEF XMove, TypeOK
  <2> QED  BY <1>4, <1>6, <2>1 DEF XMove, mutvars, Allocated
<1>7. ASSUME NEW t \in Table, NEW v \in Value, SetField(t, v) \/ ClearField(t, v) PROVE Keeps
  <2>1. \A o \in Obj : refs'[o] \subseteq refs[o] \cup Reachable
    BY <1>7, <1>s, <1>t DEF SetField, ClearField, TypeOK
  <2>2. Allocated \subseteq Allocated'
    BY <1>7, <1>t DEF SetField, ClearField, BackBarrier, Allocated, TypeOK
  <2> QED  BY <1>4, <1>7, <2>1, <2>2 DEF SetField, ClearField, mutvars
<1>8. ASSUME NEW t \in Table, SetRoot(t) PROVE Keeps
  BY <1>8, <1>r, <1>s DEF SetRoot, Allocated, AllRoots, ProgramRoots
<1>9. ASSUME ClearRoot PROVE Keeps
  BY <1>9, <1>r DEF ClearRoot, Allocated, AllRoots, ProgramRoots
<1>10. ASSUME NEW t \in Table, NEW m \in Table, SetMetatable(t, m) PROVE Keeps
  <2>1. t \in Reachable /\ m \in Reachable /\ color[t] # "free"
    <3>1. OnStack \subseteq Live
      BY StackIsLive
    <3> QED  BY <1>10, <1>s, <3>1 DEF SetMetatable, Live, Allocated
  <2>2. \A o \in Obj : refs'[o] \subseteq refs[o] \cup Reachable
    BY <1>10, <1>t, <2>1 DEF SetMetatable, TypeOK
  <2>3. Allocated \subseteq Allocated'
    <3>1. CASE MakeWhite(t)
      BY <1>t, <1>w, <3>1 DEF MakeWhite, Allocated, TypeOK
    <3>2. CASE ForwardBarrier(t, color[t], m)
      BY <1>t, <2>1, <3>2, BarrierKeeps DEF TypeOK
    <3> QED  BY <1>10, <3>1, <3>2 DEF SetMetatable
  <2>4. finobj' \subseteq finobj \cup Reachable
    BY <1>10, <2>1 DEF SetMetatable, MoveToFinobj
  <2>5. UNCHANGED <<owner, tobefnz, roots, running>>
    BY <1>10 DEF SetMetatable, mutvars
  <2> QED  BY <1>4, <2>2, <2>3, <2>4, <2>5
<1>11. ASSUME NEW u \in UpVal, NEW v \in Value, FindUpval(u, v) PROVE Keeps
  <2>1. \A o \in Obj : refs'[o] \subseteq refs[o] \cup Reachable
    BY <1>11, <1>s, <1>t DEF FindUpval, TypeOK
  <2>2. Allocated \subseteq Allocated' /\ u \in MayReach
    BY <1>11, <1>t, <1>w DEF FindUpval, TypeOK, Allocated, MayReach
  <2>3. \A x \in UpVal : owner'[x] = owner[x] \/ x = u
    BY <1>11, <1>t DEF FindUpval, TypeOK
  <2> QED  BY <1>4, <1>11, <2>1, <2>2, <2>3 DEF FindUpval, mutvars
<1>12. ASSUME NEW c \in Obj, NEW v \in Obj, c \in Reachable, v \in Reachable,
              ForwardBarrier(c, color[c], v),
              refs' = [refs EXCEPT ![c] = @ \cup {v}] \/ refs' = [refs EXCEPT ![c] = {v}],
              UNCHANGED <<owner, finobj, tobefnz, roots, running>>
       PROVE  Keeps
  <2>1. \A o \in Obj : refs'[o] \subseteq refs[o] \cup Reachable
    BY <1>12, <1>t DEF TypeOK
  <2>2. color[c] \in Colors \ {"free"}
    BY <1>12, <1>t, InvReachable DEF TypeOK, Live, Allocated
  <2>3. Allocated \subseteq Allocated'
    BY <1>12, <1>t, <2>2, BarrierKeeps
  <2> QED  BY <1>4, <1>12, <2>1, <2>3
<1>13. ASSUME NEW u \in UpVal, NEW v \in Value, SetUpval(u, v) PROVE Keeps
  <2>1. u \in Reachable /\ v \in Reachable
    BY <1>13, <1>s, <1>t, ReachableClosed DEF SetUpval
  <2> QED  BY <1>12, <1>13, <2>1 DEF SetUpval, mutvars
<1>14. ASSUME NEW u \in UpVal, NEW v \in Value, SetLocal(u, v) PROVE Keeps
  <2>1. \A o \in Obj : refs'[o] \subseteq refs[o] \cup Reachable
    BY <1>14, <1>s, <1>t DEF SetLocal, TypeOK
  <2> QED  BY <1>4, <1>14, <2>1 DEF SetLocal, mutvars, Allocated
<1>15. ASSUME NEW c \in Closure, NEW u \in UpVal, SetUpvalueOf(c, u) PROVE Keeps
  <2>1. c \in Reachable /\ u \in Reachable
    BY <1>15, <1>s, <1>t, ReachableClosed DEF SetUpvalueOf
  <2> QED  BY <1>12, <1>15, <2>1 DEF SetUpvalueOf, mutvars
<1>16. ASSUME NEW c \in Closure, NEW v \in Value, SetConstant(c, v) PROVE Keeps
  <2>1. c \in Reachable /\ v \in Reachable
    BY <1>16, <1>s DEF SetConstant
  <2> QED  BY <1>12, <1>16, <2>1 DEF SetConstant, mutvars
<1>17. ASSUME NEW u \in UpVal, CloseUpval(u) PROVE Keeps
  <2>1. owner[u] \in Thread /\ color[u] # "free"
    BY <1>17, <1>s, <1>t DEF CloseUpval, TypeOK, IInv, WellFormed
  <2>2. PICK v \in refs[u] : ForwardBarrier(u, IF IsWhite(u) THEN color[u] ELSE "black", v)
    BY <1>17 DEF CloseUpval
  <2>3. (IF IsWhite(u) THEN color[u] ELSE "black") \in Colors \ {"free"}
    BY <1>t, <2>1 DEF TypeOK, Colors
  <2>4. Allocated \subseteq Allocated'
    BY <1>t, <2>2, <2>3, BarrierKeeps
  <2>5. \A x \in UpVal : owner'[x] \in {owner[x], Nobody}
    BY <1>17, <1>t DEF CloseUpval, TypeOK
  <2> QED  BY <1>4, <1>17, <2>4, <2>5 DEF CloseUpval, mutvars
<1>18. ASSUME NEW th \in Thread, Resume(th) PROVE Keeps
  BY <1>18, <1>r, <1>s DEF Resume, Allocated, AllRoots, ProgramRoots
<1>19. ASSUME Yield PROVE Keeps
  BY <1>19, <1>r, <1>s DEF Yield, Allocated, AllRoots, ProgramRoots
<1>20. ASSUME NEW emergency \in FullGCs, FullGC(emergency) PROVE Keeps
  BY <1>20, <1>r DEF FullGC, BlackToWhite, Allocated, AllRoots, ProgramRoots, mutvars
<1> QED
  BY <1>2, <1>3, <1>5, <1>6, <1>7, <1>8, <1>9, <1>10, <1>11, <1>13, <1>14, <1>15, <1>16, <1>17,
     <1>18, <1>19, <1>20
  DEF Program

-----------------------------------------------------------------------------
(* What a step of the collector does to the heap *)

(* A step that only drops starting points, references and owners of upvalues,
   or moves a starting point to where it can be reached from another one, makes
   nothing reachable. *)
LEMMA CollectorKeepsLost ==
  ASSUME IInv, TypeOK', AllRoots' \subseteq Reachable,
         \A o \in Obj : refs'[o] \subseteq refs[o] \cup Reachable,
         \A u \in UpVal : owner'[u] \in {owner[u], Nobody}
  PROVE  Reachable' \subseteq Reachable
<1> USE Kinds
<1>1. /\ Reachable \subseteq Obj /\ \A o \in Reachable : refs[o] \subseteq Reachable
      /\ \A u \in UpVal : owner[u] \in Reachable => u \in Reachable
  BY ReachableClosed DEF IInv
<1>2. \A o \in Reachable \cap Obj : refs'[o] \subseteq Reachable
  BY <1>1
<1>3. \A u \in UpVal : owner'[u] \in Reachable => u \in Reachable
  BY <1>1
<1> QED  BY <1>2, <1>3, ReachableLeastNext

(* Each step of the collector meets these conditions, creates nothing and frees
   no live object. *)
LEMMA CollectorStep ==
  ASSUME IInv, Collector \/ EndFinalizer
  PROVE  /\ Live \subseteq Allocated' /\ Allocated' \subseteq Allocated
         /\ AllRoots' \subseteq Reachable
         /\ \A o \in Obj : refs'[o] \subseteq refs[o] \cup Reachable
         /\ \A u \in UpVal : owner'[u] \in {owner[u], Nobody}
<1> DEFINE Keeps == /\ Live \subseteq Allocated' /\ Allocated' \subseteq Allocated
                    /\ AllRoots' \subseteq Reachable
                    /\ \A o \in Obj : refs'[o] \subseteq refs[o] \cup Reachable
                    /\ \A u \in UpVal : owner'[u] \in {owner[u], Nobody}
<1> SUFFICES Keeps
  OBVIOUS
<1> USE Kinds
<1>t. TypeOK
  BY DEF IInv
<1>r. AllRoots \subseteq Reachable /\ Reachable \subseteq Obj /\ running \in Reachable
  BY <1>t, ReachableClosed, StackIsReachable
<1>m. KeepInvariant => gray \cup grayagain \subseteq Allocated
  BY <1>t DEF IInv, Marking, TypeOK, Listed, Obj, Allocated
<1>1. ASSUME Allocated' = Allocated, UNCHANGED <<refs, owner, roots, running>>,
             finobj' \cup tobefnz' \subseteq finobj \cup tobefnz
      PROVE  Keeps
  BY <1>1, <1>r DEF Live, AllRoots, ProgramRoots
<1>2. ASSUME Restart PROVE Keeps
  <2>1. Allocated' = Allocated
    BY <1>2, <1>t DEF Restart, Paint, MarkOnce, WhiteSet, IsWhite, Allocated, Whites
  <2> QED  BY <1>1, <1>2, <2>1 DEF Restart, mutvars
<1>3. ASSUME NEW o \in Listed, Propagate(o) PROVE Keeps
  <2>1. o \in Allocated
    BY <1>3, <1>m DEF Propagate, KeepInvariant
  <2>2. \A p \in Obj : p \in Allocated' <=> p \in Allocated
    BY <1>3, <1>t, <2>1 DEF Propagate, Paint, MarkOnce, WhiteSet, IsWhite, Allocated, Whites, TypeOK
  <2>3. Allocated' = Allocated
    BY <2>2 DEF Allocated
  <2> QED  BY <1>1, <1>3, <2>3 DEF Propagate, mutvars
<1>4. ASSUME EnterAtomic PROVE Keeps
  BY <1>1, <1>4 DEF EnterAtomic, mutvars, Allocated
<1>5. ASSUME Atomic PROVE Keeps
  <2>1. \A o \in Obj : \/ color'[o] = color[o]
                       \/ color'[o] # "free" /\ o \in gray \cup grayagain \cup WhiteSet
    BY <1>5 DEF Atomic
  <2>2. finobj' \cup tobefnz' \subseteq finobj \cup tobefnz
    BY <1>5 DEF Atomic, ToBeFinalized
  <2>3. gray \cup grayagain \cup WhiteSet \subseteq Allocated
    BY <1>5, <1>m DEF Atomic, KeepInvariant, WhiteSet, IsWhite, Allocated, Whites
  <2>4. \A o \in Obj : o \in Allocated' <=> o \in Allocated
    BY <2>1, <2>3 DEF Allocated
  <2>5. Allocated' = Allocated
    BY <2>4 DEF Allocated
  <2> QED  BY <1>1, <1>5, <2>2, <2>5 DEF Atomic
<1>6. ASSUME NEW o \in Obj, Sweep(o) PROVE Keeps
  <2>1. o \in Allocated /\ currentwhite # "free"
    BY <1>6, <1>t DEF IInv, Sweeping, Sweep, TypeOK, Whites
  <2>2. CASE IsDead(o)
    <3>1. Free(o)
      BY <1>6, <2>2 DEF Sweep
    <3>2. /\ color'[o] = "free"
          /\ \A p \in Obj \ {o} : color'[p] = "free" <=> color[p] = "free"
      BY <2>1, <3>1 DEF Free
    <3>3. Live \subseteq Allocated' /\ Allocated' \subseteq Allocated
      BY <2>1, <2>2, <3>2 DEF Live, Allocated
    <3>4. AllRoots' \subseteq AllRoots
      BY <1>6, <3>1 DEF Sweep, Free, mutvars, AllRoots, ProgramRoots
    <3>5. \A p \in Obj : refs'[p] \subseteq refs[p]
      BY <1>t, <3>1 DEF Free, TypeOK
    <3>6. \A u \in UpVal : owner'[u] \in {owner[u], Nobody}
      BY <3>1 DEF Free
    <3> QED  BY <1>r, <3>3, <3>4, <3>5, <3>6
  <2>3. CASE ~IsDead(o)
    <3>1. Allocated' = Allocated
      BY <1>6, <1>t, <2>1, <2>3 DEF Sweep, MakeWhite, Allocated, TypeOK
    <3> QED  BY <1>1, <1>6, <2>3, <3>1 DEF Sweep, mutvars
  <2> QED  BY <2>2, <2>3
<1>7. ASSUME SweepEnd \/ NextList \/ FinishSweep \/ FinishCycle PROVE Keeps
  BY <1>1, <1>7 DEF SweepEnd, NextList, FinishSweep, FinishCycle, mutvars, Allocated
<1>8. ASSUME NEW o \in Table, CallFinalizer(o) PROVE Keeps
  <2>1. o \in Reachable
    BY <1>8, <1>r DEF CallFinalizer, AllRoots
  <2>2. \A p \in Obj : refs'[p] \subseteq refs[p] \cup Reachable
    BY <1>8, <1>t, <2>1 DEF CallFinalizer, TypeOK
  <2>3. AllRoots' \subseteq AllRoots
    BY <1>8 DEF CallFinalizer, Udata2Finalize, mutvars, AllRoots, ProgramRoots
  <2> QED  BY <1>8, <1>r, <2>2, <2>3 DEF CallFinalizer, mutvars, Allocated, Live
<1>9. ASSUME ReachGoal \/ EndFinalizer PROVE Keeps
  BY <1>1, <1>9 DEF ReachGoal, EndFinalizer, mutvars, Allocated
<1> QED
  BY <1>2, <1>3, <1>4, <1>5, <1>6, <1>7, <1>8, <1>9 DEF Collector

-----------------------------------------------------------------------------
(* The refinement *)

(* The reachability of LauHeap is that of LauGC. *)
LEMMA SameReach == Heap!Reached = Reachable
BY DEF Heap!Reached, Heap!Reach, Heap!ClosedUnder, Reachable, Reach, ClosedUnder

(* Each step is one of LauHeap: those of the program create objects and change
   references, those of the collector free what is lost or change nothing. *)
LEMMA HeapStep ==
  IInv /\ [Next]_vars => [Heap!Program \/ Heap!Collect]_(Heap!heapvars)
<1> SUFFICES ASSUME IInv, [Next]_vars
             PROVE  Heap!Program \/ Heap!Collect \/ UNCHANGED Heap!heapvars
  OBVIOUS
<1>1. IInv'
  BY InvStep
<1>2. Heap!Reached = Reachable /\ Heap!Reached' = Reachable'
  <2>1. (Heap!Reached = Reachable)'
    BY SameReach, PTL
  <2> QED  BY SameReach, <2>1
<1>3. ASSUME Program PROVE Heap!Program
  BY <1>1, <1>2, <1>3, ProgramStep, ProgramKeepsLost DEF Heap!Program
<1>4. ASSUME Collector \/ EndFinalizer PROVE Heap!Collect
  <2>1. Reachable \subseteq Live
    BY InvReachable
  <2>2. Reachable' \subseteq Reachable
    BY <1>1, <1>4, CollectorStep, CollectorKeepsLost DEF IInv
  <2>3. Live \subseteq Allocated' /\ Allocated' \subseteq Allocated
    BY <1>4, CollectorStep
  <2> QED  BY <1>2, <2>1, <2>2, <2>3 DEF Heap!Collect
<1>5. CASE UNCHANGED vars
  <2>1. UNCHANGED <<color, refs, owner, roots, running, finobj, tobefnz>>
    BY <1>5 DEF vars, mutvars
  <2> QED  BY <2>1 DEF Heap!heapvars, Allocated, Edges, Succ, Stack, OpenUpvals, AllRoots, ProgramRoots
<1> QED  BY <1>3, <1>4, <1>5 DEF Next

(* The collector and the program, for any objects and bounds, implement a heap
   that frees nothing the program can reach and brings back nothing lost but
   strings. *)
THEOREM CollectorIsSafe == Spec => ImplementsHeap
<1>1. Init => Heap!HeapInit
  <2> SUFFICES ASSUME Init PROVE Reachable \subseteq Allocated
    BY SameReach DEF Heap!HeapInit
  <2> QED  BY InvInit, InvReachable DEF Live
<1>2. IInv /\ [Next]_vars => [Heap!Program \/ Heap!Collect]_(Heap!heapvars)
  BY HeapStep
<1> QED  BY <1>1, <1>2, Inductive, PTL DEF Spec, ImplementsHeap, Heap!HeapSpec

-----------------------------------------------------------------------------
(* Finalizers *)

(* When atomic chooses what to finalize, it has marked all that the program can
   reach: what is white then is closed off from the roots, through black objects,
   through the threads it has traversed again, and through the open upvalues of
   threads that it has not marked. *)
LEMMA LostIsWhite ==
  ASSUME IInv, Atomic,
         NEW W1, NEW W2, NEW W3,
         /\ W1 \subseteq WhiteSet /\ ({running} \cup roots \cup Kids(gray)) \cap W1 = {}
         /\ \A x \in WhiteSet \ W1 : Edges[x] \cap W1 = {},
         /\ W2 \subseteq W1 /\ \A u \in Orphans(Gone(W1), W1) : refs[u] \cap W2 = {}
         /\ \A x \in W1 \ W2 : Edges[x] \cap W2 = {},
         /\ W3 \subseteq W2 /\ Kids(grayagain) \cap W3 = {}
         /\ \A x \in W2 \ W3 : Edges[x] \cap W3 = {}
  PROVE  W3 \cap Reach(ProgramRoots, Edges, Obj) = {}
<1> USE Kinds DEF IInv, TypeOK
<1>1. /\ \A o \in Obj : ~IsDead(o)
      /\ \A o \in Obj : color[o] = "black" => o \notin Thread /\ refs[o] \cap WhiteSet = {}
      /\ \A o \in Obj : color[o] = "gray" =>
           o \in gray \cup grayagain \/ (o \in UpVal /\ owner[o] # Nobody)
      /\ ~IsWhite(Main)
  BY DEF Atomic, Marking, KeepInvariant
<1>2. Live = Allocated
  BY <1>1 DEF Live, Allocated
<1>3. W3 \subseteq WhiteSet /\ WhiteSet \subseteq Allocated
  BY DEF WhiteSet, IsWhite, Allocated, Whites
<1>4. \A x \in WhiteSet \ W3 : Succ(x) \cap W3 = {}
  <2>1. \A x \in WhiteSet \ W3 : Edges[x] \cap W3 = {}
    OBVIOUS
  <2> QED  BY <2>1 DEF WhiteSet, Edges
<1>5. \A x \in gray \cup grayagain : Succ(x) \cap W3 = {}
  BY DEF Kids
<1>6. \A th \in Thread : th \in Allocated /\ th \notin W3 => Succ(th) \cap W3 = {}
  <2> SUFFICES ASSUME NEW th \in Thread, th \in Allocated, th \notin W3
               PROVE  Succ(th) \cap W3 = {}
    OBVIOUS
  <2>1. CASE color[th] = "gray"
    BY <1>1, <1>5, <2>1
  <2>2. CASE th \in WhiteSet
    BY <1>4, <2>2
  <2> QED  BY <1>1, <2>1, <2>2 DEF WhiteSet, IsWhite, Allocated, Colors, Whites
<1>7. ASSUME NEW u \in UpVal, owner[u] # Nobody, u \notin WhiteSet PROVE refs[u] \cap W3 = {}
  <2>1. owner[u] \in Thread /\ owner[u] \in Allocated /\ owner[u] \in twups
    BY <1>2, <1>7 DEF WellFormed, LiveIsClosed, Allocated
  <2>2. CASE owner[u] \in W3
    <3>1. u \in Orphans(Gone(W1), W1)
      BY <1>7, <2>1, <2>2 DEF Orphans, Gone
    <3> QED  BY <3>1
  <2>3. CASE owner[u] \notin W3
    <3>1. refs[u] \subseteq Succ(owner[u])
      BY <2>1 DEF Succ, Stack, OpenUpvals
    <3> QED  BY <1>6, <2>1, <2>3, <3>1
  <2> QED  BY <2>2, <2>3
<1>8. ASSUME NEW x \in Obj, x \in Allocated, x \notin W3 PROVE Succ(x) \cap W3 = {}
  <2>1. CASE x \in Thread
    BY <1>6, <1>8, <2>1
  <2>2. CASE x \notin Thread /\ color[x] = "black"
    BY <1>1, <1>3, <2>2 DEF Succ
  <2>3. CASE x \notin Thread /\ color[x] = "gray" /\ x \in gray \cup grayagain
    BY <1>5, <2>3
  <2>4. CASE x \notin Thread /\ color[x] = "gray" /\ x \in UpVal /\ owner[x] # Nobody
    BY <1>7, <2>4 DEF Succ, WhiteSet, IsWhite, Whites
  <2>5. CASE x \in WhiteSet
    BY <1>4, <1>8, <2>5
  <2> QED
    BY <1>1, <1>8, <2>1, <2>2, <2>3, <2>4, <2>5 DEF WhiteSet, IsWhite, Allocated, Colors, Whites
<1>9. \A x \in Allocated : Succ(x) \subseteq Allocated
  BY <1>2 DEF LiveIsClosed, Succ, Stack, OpenUpvals
<1>10. ProgramRoots \subseteq Allocated \ W3
  <2>1. Main \notin W3 /\ running \notin W3 /\ roots \cap W3 = {}
    BY <1>1 DEF WhiteSet
  <2> QED  BY <1>2, <2>1 DEF ProgramRoots, RootsAreLive, AllRoots
<1>11. Reach(ProgramRoots, Edges, Obj) \subseteq Allocated \ W3
  <2> DEFINE S == Allocated \ W3
  <2>1. \A x \in S \cap Obj : Edges[x] \subseteq S
    BY <1>8, <1>9 DEF Edges
  <2>2. ProgramRoots \cap Obj \subseteq S
    BY <1>10
  <2> HIDE DEF S
  <2>3. ClosedUnder(S \cap Obj, Edges, Obj)
    BY <2>1 DEF ClosedUnder
  <2>4. Reach(ProgramRoots, Edges, Obj) \subseteq S
    BY <2>2, <2>3, ReachLeast
  <2> QED  BY <2>4 DEF S
<1> QED  BY <1>11

(* A step gives a finalizer to call only to an object that the program has lost,
   and frees no object that still has one. *)
LEMMA FinalizerStep ==
  ASSUME IInv, [Next]_vars
  PROVE  /\ \A o \in finobj \cup tobefnz : color'[o] # "free"
         /\ \A o \in tobefnz' \ tobefnz :
              o \in finobj /\ o \notin Reach(ProgramRoots, Edges, Obj)
<1> USE Kinds
<1>1. finobj \cup tobefnz \subseteq Live
  BY DEF IInv, RootsAreLive, AllRoots
<1>2. Live \subseteq Allocated'
  <2>1. CASE Program
    BY <2>1, ProgramStep DEF Live
  <2>2. CASE Collector \/ EndFinalizer
    BY <2>2, CollectorStep
  <2>3. CASE UNCHANGED vars
    BY <2>3 DEF vars, Live, Allocated
  <2> QED  BY <2>1, <2>2, <2>3 DEF Next
<1>3. ASSUME NEW o \in tobefnz' \ tobefnz
      PROVE  o \in finobj /\ o \notin Reach(ProgramRoots, Edges, Obj)
  <2>1. CASE Atomic
    <3> DEFINE E  == Edges
               W0 == WhiteSet
               s1 == {running} \cup roots \cup Kids(gray)
               R1 == Reach(s1, E, W0)
               W1 == W0 \ R1
               s2 == UNION {refs[u] : u \in Orphans(Gone(W1), W1)}
               R2 == Reach(s2, E, W1)
               W2 == W1 \ R2
               R3 == Reach(Kids(grayagain), E, W2)
               W3 == W2 \ R3
    <3>1. tobefnz' = tobefnz \cup (finobj \cap W3)
      BY <2>1 DEF Atomic, ToBeFinalized
    <3>2. W3 \cap Reach(ProgramRoots, Edges, Obj) = {}
      <4>1. /\ R1 = Reach(s1, E, W0) /\ R2 = Reach(s2, E, W1)
            /\ R3 = Reach(Kids(grayagain), E, W2)
        OBVIOUS
      <4>2. /\ W1 = W0 \ R1 /\ W2 = W1 \ R2 /\ W3 = W2 \ R3 /\ E = Edges /\ W0 = WhiteSet
            /\ s1 = {running} \cup roots \cup Kids(gray)
            /\ s2 = UNION {refs[u] : u \in Orphans(Gone(W1), W1)}
        OBVIOUS
      <4> HIDE DEF E, W0, s1, s2, R1, R2, R3, W1, W2, W3
      <4>3. W1 \subseteq W0 /\ s1 \cap W1 = {} /\ \A x \in W0 \ W1 : E[x] \cap W1 = {}
        <5>1. R1 \subseteq W0 /\ s1 \cap W0 \subseteq R1 /\ \A x \in R1 : E[x] \cap W0 \subseteq R1
          BY <4>1, Stage
        <5> QED  BY <4>2, <5>1
      <4>4. W2 \subseteq W1 /\ s2 \cap W2 = {} /\ \A x \in W1 \ W2 : E[x] \cap W2 = {}
        <5>1. R2 \subseteq W1 /\ s2 \cap W1 \subseteq R2 /\ \A x \in R2 : E[x] \cap W1 \subseteq R2
          BY <4>1, Stage
        <5> QED  BY <4>2, <5>1
      <4>5. /\ W3 \subseteq W2 /\ Kids(grayagain) \cap W3 = {}
            /\ \A x \in W2 \ W3 : E[x] \cap W3 = {}
        <5>1. /\ R3 \subseteq W2 /\ Kids(grayagain) \cap W2 \subseteq R3
              /\ \A x \in R3 : E[x] \cap W2 \subseteq R3
          BY <4>1, Stage
        <5> QED  BY <4>2, <5>1
      <4>6. \A u \in Orphans(Gone(W1), W1) : refs[u] \cap W2 = {}
        <5>1. \A u \in Orphans(Gone(W1), W1) : refs[u] \subseteq s2
          BY <4>2
        <5> QED  BY <4>4, <5>1
      <4>7. ({running} \cup roots \cup Kids(gray)) \cap W1 = {}
        BY <4>2, <4>3
      <4>8. /\ W1 \subseteq WhiteSet /\ ({running} \cup roots \cup Kids(gray)) \cap W1 = {}
            /\ \A x \in WhiteSet \ W1 : Edges[x] \cap W1 = {}
        BY <4>2, <4>3, <4>7
      <4>9. /\ W2 \subseteq W1 /\ \A u \in Orphans(Gone(W1), W1) : refs[u] \cap W2 = {}
            /\ \A x \in W1 \ W2 : Edges[x] \cap W2 = {}
        BY <4>2, <4>4, <4>6
      <4>10. /\ W3 \subseteq W2 /\ Kids(grayagain) \cap W3 = {}
             /\ \A x \in W2 \ W3 : Edges[x] \cap W3 = {}
        BY <4>2, <4>5
      <4> QED  BY ONLY <2>1, <4>8, <4>9, <4>10, IInv, LostIsWhite
    <3> QED  BY <1>3, <3>1, <3>2
  <2>2. CASE ~Atomic
    <3>1. tobefnz' \subseteq tobefnz
      BY <2>2 DEF Next, Program, Collector, NewObject, NewString, NewCString, Load, Pop, XMove,
         SetField, ClearField, SetRoot, ClearRoot, SetMetatable, FindUpval, SetUpval, SetLocal,
         SetUpvalueOf, SetConstant, CloseUpval, Resume, Yield, FullGC, EndFinalizer, Restart,
         Propagate, EnterAtomic, Sweep, Free, SweepEnd, NextList, FinishSweep, CallFinalizer,
         Udata2Finalize, FinishCycle, ReachGoal, vars
    <3> QED  BY <1>3, <3>1
  <2> QED  BY <2>1, <2>2
<1> QED  BY <1>1, <1>2, <1>3 DEF Allocated

(* An object with a finalizer is never freed before its finalizer is called, and
   its turn comes only when the program itself has lost it. *)
THEOREM FinalizersInTime == Spec => FinalizedBeforeFreed
<1>1. IInv /\ [Next]_vars =>
        [/\ \A o \in finobj \cup tobefnz : color'[o] # "free"
         /\ \A o \in tobefnz' \ tobefnz :
              o \in finobj /\ o \notin Reach(ProgramRoots, Edges, Obj)]_vars
  BY FinalizerStep
<1> QED  BY <1>1, Inductive, PTL DEF Spec, FinalizedBeforeFreed

=============================================================================
