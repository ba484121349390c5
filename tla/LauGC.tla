------------------------------- MODULE LauGC --------------------------------
(***************************************************************************)
(* The incremental garbage collector of Lau (lgc.c, kind KGC_INC) together *)
(* with every way in which a running program changes what it traverses:    *)
(* the stores of lvm.c and lapi.c with their barriers, the interned        *)
(* strings and the string cache of lstring.c, the upvalues of lfunc.c, the *)
(* coroutines of lstate.c and ldo.c, and the finalizers.                   *)
(*                                                                         *)
(* One action is what the program or the collector does between two points *)
(* where the other may run.  The collector runs inside an allocation       *)
(* check: lauC_step makes single steps, and a full collection (lau_gc, or  *)
(* the emergency collection of lmem.c) makes single steps up to a given    *)
(* state, with the program stopped except inside finalizers.               *)
(*                                                                         *)
(* Tables stand for every object written with a backward barrier (tables,  *)
(* userdata); closures for every object written with a forward barrier     *)
(* (Lau and C closures, prototypes); threads have no barrier; strings      *)
(* refer to nothing.                                                       *)
(***************************************************************************)
EXTENDS Naturals, Sequences, FiniteSets, LauReach

CONSTANTS
  Table, Closure, UpVal, Thread, String,   \* the addresses of each kind of object
  Main,        \* the main thread
  Nobody,      \* no thread: the owner of a closed upvalue
  HasGC,       \* the tables that, used as a metatable, have a field __gc
  FullGCs,     \* the full collections: TRUE for emergency ones, FALSE for the others
  TightStack,  \* may lauD_checkminstack fail?
  MaxStack,    \* bound: values on the stack of a thread
  MaxRefs      \* bound: references kept by one table or closure

Obj    == Table \cup Closure \cup UpVal \cup Thread \cup String
Value  == Table \cup Closure \cup Thread \cup String   \* what a variable can hold
Listed == Table \cup Closure \cup Thread               \* what a gray list can hold

ASSUME KindsDisjoint ==
  /\ Table \cap (Closure \cup UpVal \cup Thread \cup String) = {}
  /\ Closure \cap (UpVal \cup Thread \cup String) = {}
  /\ UpVal \cap (Thread \cup String) = {}
  /\ Thread \cap String = {}
ASSUME MainIsThread == Main \in Thread /\ Nobody \notin Obj /\ HasGC \subseteq Table
ASSUME ListEndsAreNotObjects == "head" \notin Obj /\ "null" \notin Obj
ASSUME BoundsAreNat == /\ MaxStack \in Nat /\ MaxRefs \in Nat /\ TightStack \in BOOLEAN
                       /\ FullGCs \subseteq BOOLEAN

VARIABLES
  gcstate,       \* g->gcstate
  currentwhite,  \* g->currentwhite
  color,         \* color bits of each object; "free": no object at that address
  refs,          \* what each object refers to (stack, fields, upvalues, value)
  owner,         \* the thread on whose stack an open upvalue lives, or Nobody
  gray,          \* list g->gray
  grayagain,     \* list g->grayagain
  twups,         \* list g->twups of threads with open upvalues
  sweepgc,       \* g->sweepgc: "null", "head" of a list, or the object before it
  tosweep,       \* the objects of the list being swept that follow sweepgc
  tolive,        \* sweeptolive is under way
  finobj,        \* list g->finobj: objects with a finalizer
  tobefnz,       \* list g->tobefnz: objects whose finalizer is to be called
  roots,         \* g->l_registry and g->mt[]
  running,       \* the thread that runs
  fin,           \* the thread that runs a finalizer (gcstp has GCSTPGC), or Nobody
  cache,         \* g->strcache
  goals,         \* states that the full collections under way still run to
  gcemergency    \* g->gcemergency

gcvars  == <<gcstate, currentwhite, sweepgc, tosweep, tolive>>
mutvars == <<roots, running, cache>>
ctlvars == <<goals, gcemergency>>
vars    == <<gcvars, color, refs, owner, gray, grayagain, twups, finobj, tobefnz,
             mutvars, fin, ctlvars>>

-----------------------------------------------------------------------------
(* Colors and states (lgc.h) *)

Whites == {"white0", "white1"}
Colors == Whites \cup {"gray", "black", "free"}

SweepList   == {"swpallgc", "swpfinobj", "swptobefnz"}
States      == SweepList \cup {"propagate", "enteratomic", "swpend", "callfin", "pause"}

(* keepinvariant; the state GCSatomic is inside the action Atomic *)
KeepInvariant == gcstate \in {"propagate", "enteratomic"}
IsSweepPhase  == gcstate \in SweepList \cup {"swpend"}

OtherWhite  == IF currentwhite = "white0" THEN "white1" ELSE "white0"
Allocated   == {o \in Obj : color[o] # "free"}
IsWhite(o)  == color[o] \in Whites
IsDead(o)   == color[o] = OtherWhite
WhiteSet    == {o \in Obj : IsWhite(o)}
Live        == {o \in Allocated : ~IsDead(o)}
AllGC       == Allocated \ (finobj \cup tobefnz)

-----------------------------------------------------------------------------
(* What an object refers to, and what the program can still get at *)

OpenUpvals(th) == {u \in UpVal : owner[u] = th}
Stack(th)      == refs[th] \cup UNION {refs[u] : u \in OpenUpvals(th)}
Succ(o)        == IF o \in Thread THEN Stack(o) \cup OpenUpvals(o) ELSE refs[o]
Edges          == [o \in Obj |-> Succ(o)]
Kids(S)        == UNION {Succ(o) : o \in S}

ProgramRoots == {Main, running} \cup roots
AllRoots     == ProgramRoots \cup finobj \cup tobefnz
Reachable    == Reach(AllRoots, Edges, Obj)

-----------------------------------------------------------------------------
(* Marking *)

(* markobject on every object of S: the white ones, and the value of a white
   upvalue, which reallymarkobject marks at once *)
MarkOnce(S) ==
  LET w == S \cap WhiteSet
  IN  w \cup ((UNION {refs[u] : u \in w \cap UpVal}) \cap WhiteSet)

(* the colors once the objects of P have been marked: strings and closed
   upvalues are black at once, the rest is gray *)
Paint(P) ==
  [o \in Obj |-> IF o \notin P THEN color[o]
                 ELSE IF o \in String \/ (o \in UpVal /\ owner[o] = Nobody)
                      THEN "black" ELSE "gray"]

-----------------------------------------------------------------------------
(* Barriers *)

(* mutants: the store has no barrier; the object is marked but not linked *)
ForwardBarrier_Missing(o, c, v) ==
  color' = [color EXCEPT ![o] = c] /\ UNCHANGED gray
ForwardBarrier_Unlinked(o, c, v) ==
  /\ UNCHANGED gray
  /\ color' = IF c = "black" /\ IsWhite(v) /\ KeepInvariant
              THEN [Paint(MarkOnce({v})) EXCEPT ![o] = c] ELSE [color EXCEPT ![o] = c]

(* lauC_objbarrier: object o, of color c, has just been made to refer to v *)
ForwardBarrier(o, c, v) ==
  IF c = "black" /\ IsWhite(v)
  THEN IF KeepInvariant
       THEN LET P == MarkOnce({v}) IN
            /\ color' = [Paint(P) EXCEPT ![o] = c]
            /\ gray'  = gray \cup (P \cap Listed)
       ELSE /\ color' = [color EXCEPT ![o] = currentwhite]
            /\ UNCHANGED gray
  ELSE /\ color' = [color EXCEPT ![o] = c]
       /\ UNCHANGED gray

(* mutants: the store has no barrier; the table is painted but not linked *)
BackBarrier_Missing(t, v) == UNCHANGED <<color, grayagain>>
BackBarrier_Unlinked(t, v) ==
  /\ color' = IF color[t] = "black" /\ IsWhite(v) THEN [color EXCEPT ![t] = "gray"] ELSE color
  /\ UNCHANGED grayagain

(* lauC_objbarrierback: table t has just been made to refer to v *)
BackBarrier(t, v) ==
  IF color[t] = "black" /\ IsWhite(v)
  THEN /\ color' = [color EXCEPT ![t] = "gray"]
       /\ grayagain' = grayagain \cup {t}
  ELSE UNCHANGED <<color, grayagain>>

-----------------------------------------------------------------------------
(* Whose turn it is *)

(* The program runs outside collections, and inside the finalizers that a
   full collection calls; an emergency collection calls none. *)
ProgramTurn   == ~tolive /\ ~gcemergency /\ (goals = <<>> \/ fin # Nobody)
(* lauC_step does nothing while a finalizer runs, but an emergency collection
   may start there; a full collection steps until its state is reached. *)
CollectorTurn == ~tolive /\ (fin = Nobody \/ gcemergency)
StepTurn      == CollectorTurn /\ (goals # <<>> => Head(goals) \notin {"end", gcstate})

-----------------------------------------------------------------------------
(* The program: objects and values *)

OnStack  == Stack(running)
RoomFor(v) == Cardinality(refs[running] \cup {v}) <= MaxStack
Push(v)  == /\ RoomFor(v)
            /\ refs' = [refs EXCEPT ![running] = @ \cup {v}]

(* lauC_newobj for a table, a closure or a coroutine, pushed on the stack *)
NewObject(o) ==
  /\ ProgramTurn /\ o \in Listed /\ color[o] = "free"
  /\ Push(o)
  /\ color' = [color EXCEPT ![o] = currentwhite]
  /\ UNCHANGED <<gcvars, owner, gray, grayagain, twups, finobj, tobefnz, mutvars, fin, ctlvars>>

(* mutants: a dead string is not brought back; every string found has its
   white bits flipped, dead or not *)
Intern_NoRevival(s) ==
  color' = [color EXCEPT ![s] = IF @ = "free" THEN currentwhite ELSE @]
Intern_NoGuard(s) ==
  color' = [color EXCEPT ![s] = IF @ \in {"free", OtherWhite} THEN currentwhite
                                ELSE IF @ = currentwhite THEN OtherWhite ELSE "both whites"]

(* internshrstr: a string found in the string table is used again, brought
   back when it is dead; otherwise it is created *)
Intern(s) ==
  color' = [color EXCEPT ![s] = IF @ \in {"free", OtherWhite} THEN currentwhite ELSE @]

NewString(s) ==
  /\ ProgramTurn
  /\ Push(s) /\ Intern(s)
  /\ UNCHANGED <<gcvars, owner, gray, grayagain, twups, finobj, tobefnz, mutvars, fin, ctlvars>>

(* lauS_new: a hit in the cache returns the string as it is; a miss interns it
   and may push an older one out of its cache line *)
NewCString(s) ==
  /\ ProgramTurn
  /\ Push(s)
  /\ \/ s \in cache /\ UNCHANGED <<color, cache>>
     \/ /\ s \notin cache /\ Intern(s)
        /\ \E out \in SUBSET cache : Cardinality(out) <= 1 /\ cache' = (cache \ out) \cup {s}
  /\ UNCHANGED <<gcvars, owner, gray, grayagain, twups, finobj, tobefnz, roots, running, fin, ctlvars>>

(* reading: a field of a table, an upvalue, the registry, the stack of another
   thread (lau_xmove) *)
Fields(o) == refs[o] \cup UNION {refs[u] : u \in refs[o] \cap UpVal}
Readable  == (roots \cup UNION {Fields(o) : o \in OnStack \cup roots}) \cap Value
Load(v) ==
  /\ ProgramTurn /\ v \in Readable \ refs[running]
  /\ Push(v)
  /\ UNCHANGED <<gcvars, color, owner, gray, grayagain, twups, finobj, tobefnz, mutvars, fin, ctlvars>>

Pop(v) ==
  /\ ProgramTurn /\ v \in refs[running]
  /\ refs' = [refs EXCEPT ![running] = @ \ {v}]
  /\ UNCHANGED <<gcvars, color, owner, gray, grayagain, twups, finobj, tobefnz, mutvars, fin, ctlvars>>

(* lau_xmove to another thread: threads have no barrier *)
XMove(th, v) ==
  /\ ProgramTurn /\ th \in (OnStack \cap Thread) \ {running} /\ v \in OnStack \cap Value
  /\ v \notin refs[th] /\ Cardinality(refs[th]) < MaxStack
  /\ refs' = [refs EXCEPT ![th] = @ \cup {v}, ![running] = @ \ {v}]
  /\ UNCHANGED <<gcvars, color, owner, gray, grayagain, twups, finobj, tobefnz, mutvars, fin, ctlvars>>

(* an assignment to a field: lauV_finishset, lauH_set, lau_rawset *)
SetField(t, v) ==
  /\ ProgramTurn /\ t \in (OnStack \cup roots) \cap Table
  /\ v \in (OnStack \cap Value) \ refs[t] /\ Cardinality(refs[t]) < MaxRefs
  /\ refs' = [refs EXCEPT ![t] = @ \cup {v}]
  /\ BackBarrier(t, v)
  /\ UNCHANGED <<gcvars, owner, gray, twups, finobj, tobefnz, mutvars, fin, ctlvars>>

(* an assignment of nil *)
ClearField(t, v) ==
  /\ ProgramTurn /\ t \in (OnStack \cup roots) \cap Table /\ v \in refs[t]
  /\ refs' = [refs EXCEPT ![t] = @ \ {v}]
  /\ UNCHANGED <<gcvars, color, owner, gray, grayagain, twups, finobj, tobefnz, mutvars, fin, ctlvars>>

(* the registry and the metatables of basic types: no barrier *)
SetRoot(t) ==
  /\ ProgramTurn /\ t \in OnStack \cap Table /\ t \notin roots
  /\ roots' = {t}
  /\ UNCHANGED <<gcvars, color, refs, owner, gray, grayagain, twups, finobj, tobefnz,
                 running, cache, fin, ctlvars>>

ClearRoot ==
  /\ ProgramTurn /\ roots # {}
  /\ roots' = {}
  /\ UNCHANGED <<gcvars, color, refs, owner, gray, grayagain, twups, finobj, tobefnz,
                 running, cache, fin, ctlvars>>

-----------------------------------------------------------------------------
(* The program: finalizers *)

(* mutant: 'sweepgc' goes on pointing into an object that has changed lists *)
MoveToFinobj_StaleSweepgc(t) ==
  /\ finobj' = finobj \cup {t}
  /\ tosweep' = IF IsSweepPhase /\ sweepgc = t THEN finobj ELSE tosweep \ {t}
  /\ UNCHANGED <<gcstate, currentwhite, sweepgc, tolive>>

(* lauC_checkfinalizer moves t to 'finobj'.  In a sweep phase it paints t, and
   first moves 'sweepgc' on (sweeptolive) when that is the address of t->next. *)
MoveToFinobj(t) ==
  /\ finobj' = finobj \cup {t}
  /\ tosweep' = IF gcstate = "swpfinobj" /\ sweepgc = "head"
                THEN tosweep \cup {t} ELSE tosweep \ {t}
  /\ tolive' = (IsSweepPhase /\ sweepgc = t)
  /\ UNCHANGED <<gcstate, currentwhite, sweepgc>>

(* mutant: only black objects are painted *)
MakeWhite_BlackOnly(o) ==
  color' = [color EXCEPT ![o] = IF @ = "black" THEN currentwhite ELSE @]

(* makewhite, and what sweeplist does to an object that is not dead *)
MakeWhite(o) == color' = [color EXCEPT ![o] = currentwhite]

(* lau_setmetatable on a table or a userdata *)
SetMetatable(t, m) ==
  /\ ProgramTurn /\ t \in OnStack \cap Table /\ m \in OnStack \cap Table
  /\ Cardinality(refs[t] \cup {m}) <= MaxRefs
  /\ refs' = [refs EXCEPT ![t] = @ \cup {m}]
  /\ IF m \in HasGC /\ t \notin finobj \cup tobefnz
     THEN /\ MoveToFinobj(t)
          /\ IF IsSweepPhase
             THEN MakeWhite(t) /\ UNCHANGED gray
             ELSE ForwardBarrier(t, color[t], m)
     ELSE ForwardBarrier(t, color[t], m) /\ UNCHANGED <<gcvars, finobj>>
  /\ UNCHANGED <<owner, grayagain, twups, tobefnz, mutvars, fin, ctlvars>>

(* the finalizer called by GCTM returns *)
EndFinalizer ==
  /\ ProgramTurn /\ fin = running
  /\ fin' = Nobody
  /\ UNCHANGED <<gcvars, color, refs, owner, gray, grayagain, twups, finobj, tobefnz, mutvars, ctlvars>>

-----------------------------------------------------------------------------
(* The program: closures, upvalues and coroutines *)

(* lauF_findupval creates an open upvalue on a slot of the running thread *)
FindUpval(u, v) ==
  /\ ProgramTurn /\ color[u] = "free" /\ v \in refs[running]
  /\ color' = [color EXCEPT ![u] = currentwhite]
  /\ refs'  = [refs EXCEPT ![u] = {v}]
  /\ owner' = [owner EXCEPT ![u] = running]
  /\ twups' = twups \cup {running}
  /\ UNCHANGED <<gcvars, gray, grayagain, finobj, tobefnz, mutvars, fin, ctlvars>>

(* pushclosure, lauF_initupvals, lau_upvaluejoin: closure c gets an upvalue,
   an open one of this thread or one that another closure has *)
SetUpvalueOf(c, u) ==
  /\ ProgramTurn /\ c \in OnStack \cap Closure
  /\ u \in OpenUpvals(running) \cup UNION {refs[d] \cap UpVal : d \in OnStack \cap Closure}
  /\ u \notin refs[c] /\ Cardinality(refs[c]) < MaxRefs
  /\ refs' = [refs EXCEPT ![c] = @ \cup {u}]
  /\ ForwardBarrier(c, color[c], u)
  /\ UNCHANGED <<gcvars, owner, grayagain, twups, finobj, tobefnz, mutvars, fin, ctlvars>>

(* lau_setupvalue and lau_replace on a C closure, and the constants that the
   compiler adds to a prototype: closure c gets a value *)
SetConstant(c, v) ==
  /\ ProgramTurn /\ c \in OnStack \cap Closure
  /\ v \in (OnStack \cap Value) \ refs[c] /\ Cardinality(refs[c]) < MaxRefs
  /\ refs' = [refs EXCEPT ![c] = @ \cup {v}]
  /\ ForwardBarrier(c, color[c], v)
  /\ UNCHANGED <<gcvars, owner, grayagain, twups, finobj, tobefnz, mutvars, fin, ctlvars>>

(* OP_SETUPVAL: the program assigns to an upvalue of a closure it holds *)
SetUpval(u, v) ==
  /\ ProgramTurn
  /\ \E c \in OnStack \cap Closure : u \in refs[c] \cap UpVal
  /\ v \in (OnStack \cap Value) \ refs[u]
  /\ refs' = [refs EXCEPT ![u] = {v}]
  /\ ForwardBarrier(u, color[u], v)
  /\ UNCHANGED <<gcvars, owner, grayagain, twups, finobj, tobefnz, mutvars, fin, ctlvars>>

(* the program assigns to the local variable that u captures: a stack slot *)
SetLocal(u, v) ==
  /\ ProgramTurn /\ owner[u] = running
  /\ v \in refs[running] \ refs[u]
  /\ refs' = [refs EXCEPT ![u] = {v}]
  /\ UNCHANGED <<gcvars, color, owner, gray, grayagain, twups, finobj, tobefnz, mutvars, fin, ctlvars>>

(* lauF_closeupval, on leaving a block or closing a coroutine *)
CloseUpval(u) ==
  /\ ProgramTurn /\ owner[u] \in {running} \cup (OnStack \cap Thread)
  /\ owner' = [owner EXCEPT ![u] = Nobody]
  /\ \E v \in refs[u] : ForwardBarrier(u, IF IsWhite(u) THEN color[u] ELSE "black", v)
  /\ UNCHANGED <<gcvars, refs, grayagain, twups, finobj, tobefnz, mutvars, fin, ctlvars>>

(* lau_resume from the main thread, and the return to it *)
Resume(th) ==
  /\ ProgramTurn /\ running = Main /\ th \in (OnStack \cap Thread) \ {Main}
  /\ running' = th
  /\ UNCHANGED <<gcvars, color, refs, owner, gray, grayagain, twups, finobj, tobefnz,
                 roots, cache, fin, ctlvars>>

Yield ==
  /\ ProgramTurn /\ running # Main /\ fin # running
  /\ running' = Main
  /\ UNCHANGED <<gcvars, color, refs, owner, gray, grayagain, twups, finobj, tobefnz,
                 roots, cache, fin, ctlvars>>

-----------------------------------------------------------------------------
(* The collector: marking *)

(* restartcollection *)
Restart ==
  /\ StepTurn /\ gcstate = "pause"
  /\ gcstate' = "propagate"
  /\ LET P == MarkOnce({Main} \cup roots \cup tobefnz) IN
     /\ color' = Paint(P)
     /\ gray' = P \cap Listed
  /\ grayagain' = {}
  /\ UNCHANGED <<currentwhite, sweepgc, tosweep, tolive, refs, owner, twups, finobj, tobefnz,
                 mutvars, fin, ctlvars>>

(* propagatemark on object o, the first of 'gray'; a full collection leaves
   this work to Atomic *)
Propagate(o) ==
  /\ StepTurn /\ goals = <<>> /\ gcstate = "propagate" /\ o \in gray
  /\ LET P == MarkOnce(Succ(o)) IN
     /\ color' = [Paint(P) EXCEPT ![o] = IF o \in Thread THEN "gray" ELSE "black"]
     /\ gray' = (gray \ {o}) \cup (P \cap Listed)
  /\ grayagain' = grayagain \cup ({o} \cap Thread)
  /\ UNCHANGED <<gcvars, refs, owner, twups, finobj, tobefnz, mutvars, fin, ctlvars>>

(* the propagate phase ends: 'gray' is empty, or the step is a fast one (step
   size zero, or a full collection) *)
EnterAtomic ==
  /\ StepTurn /\ gcstate = "propagate"
  /\ gcstate' = "enteratomic"
  /\ UNCHANGED <<currentwhite, sweepgc, tosweep, tolive, color, refs, owner, gray, grayagain,
                 twups, finobj, tobefnz, mutvars, fin, ctlvars>>

(* entersweep; the step that follows is sweeptolive's *)
EnterSweep ==
  /\ gcstate' = "swpallgc"
  /\ sweepgc' = "head" /\ tolive' = TRUE
  /\ tosweep' = AllGC

(* mutant: a thread stays if it is marked or has open upvalues *)
Gone_BothNeeded(W) == {th \in twups : th \in W /\ OpenUpvals(th) = {}}

(* remarkupvals: threads not marked, or with no open upvalue, leave 'twups' *)
Gone(W) == {th \in twups : th \in W \/ OpenUpvals(th) = {}}

(* mutant: the loop that marks the values of these upvalues is left out *)
Orphans_None(gone, W) == {}

(* the marked upvalues that are open on a thread of 'gone' *)
Orphans(gone, W) == {u \in UpVal : owner[u] \in gone /\ u \notin W}

(* mutant: no object is separated *)
ToBeFinalized_None(W) == {}

(* separatetobefnz: the objects of 'finobj' that are still white *)
ToBeFinalized(W) == finobj \cap W

(* mutant: the cache is left as it is *)
ClearCache_Skipped(W) == UNCHANGED cache

(* lauS_clearcache: strings that are about to be freed leave the cache *)
ClearCache(W) == cache' = cache \ W

(* mutant: the white color does not change *)
FlipWhite_Missing == UNCHANGED currentwhite

FlipWhite == currentwhite' = OtherWhite

(* atomic: the last marks, in the order of the code (W1 to W4 are the objects
   still white after each of its stages); separatetobefnz; lauS_clearcache;
   the flip of the white color; and entersweep *)
Atomic ==
  /\ StepTurn /\ gcstate = "enteratomic"
  /\ LET E  == Edges
         W1 == WhiteSet \ Reach({running} \cup roots \cup Kids(gray), E, WhiteSet)
         gone == Gone(W1)
         W2 == W1 \ Reach(UNION {refs[u] : u \in Orphans(gone, W1)}, E, W1)
         W3 == W2 \ Reach(Kids(grayagain), E, W2)
         dying == ToBeFinalized(W3)
         W4 == W3 \ Reach(tobefnz \cup dying, E, W3)
         visited == gray \cup grayagain \cup (WhiteSet \ W4)
     IN  /\ color' = [o \in Obj |-> IF o \notin visited THEN color[o]
                                    ELSE IF o \in UpVal /\ owner[o] # Nobody
                                         THEN "gray" ELSE "black"]
         /\ twups' = (twups \ gone) \cup {th \in visited \cap Thread : OpenUpvals(th) # {}}
         /\ finobj' = finobj \ dying
         /\ tobefnz' = tobefnz \cup dying
         /\ ClearCache(W4)
  /\ gray' = {} /\ grayagain' = {}
  /\ FlipWhite
  /\ EnterSweep
  /\ UNCHANGED <<refs, owner, roots, running, fin, ctlvars>>

-----------------------------------------------------------------------------
(* The collector: sweeping *)

(* freeobj.  Freeing a thread closes its upvalues (lauE_freethread). *)
Free(o) ==
  LET closed(u) == u \in UpVal /\ owner[u] = o
  IN  /\ color' = [p \in Obj |->
                     IF p = o THEN "free"
                     ELSE IF closed(p) /\ color[p] \in {"gray", "black"}
                     THEN IF refs[p] \cap WhiteSet # {} THEN currentwhite ELSE "black"
                     ELSE color[p]]
      /\ owner' = [u \in UpVal |-> IF u = o \/ closed(u) THEN Nobody ELSE owner[u]]
      /\ refs'  = [refs EXCEPT ![o] = {}]
      /\ finobj' = finobj \ {o}
      /\ tobefnz' = tobefnz \ {o}

(* sweeplist on one object *)
Sweep(o) ==
  /\ (tolive \/ StepTurn) /\ gcstate \in SweepList /\ o \in tosweep
  /\ tosweep' = tosweep \ {o}
  /\ IF IsDead(o)
     THEN /\ Free(o)
          /\ sweepgc' = IF tosweep' = {} THEN "null" ELSE sweepgc
          /\ tolive' = (tolive /\ tosweep' # {})
     ELSE /\ MakeWhite(o)
          /\ sweepgc' = IF tosweep' = {} THEN "null" ELSE o
          /\ tolive' = FALSE
          /\ UNCHANGED <<owner, refs, finobj, tobefnz>>
  /\ UNCHANGED <<gcstate, currentwhite, gray, grayagain, twups, mutvars, fin, ctlvars>>

(* sweeplist when nothing is left after 'sweepgc' *)
SweepEnd ==
  /\ (tolive \/ StepTurn) /\ gcstate \in SweepList /\ tosweep = {} /\ sweepgc # "null"
  /\ sweepgc' = "null" /\ tolive' = FALSE
  /\ UNCHANGED <<gcstate, currentwhite, tosweep, color, refs, owner, gray, grayagain, twups,
                 finobj, tobefnz, mutvars, fin, ctlvars>>

(* sweepstep when the list is finished *)
NextList ==
  /\ StepTurn /\ gcstate \in SweepList /\ sweepgc = "null"
  /\ \/ /\ gcstate = "swpallgc" /\ gcstate' = "swpfinobj"
        /\ sweepgc' = "head" /\ tosweep' = finobj
     \/ /\ gcstate = "swpfinobj" /\ gcstate' = "swptobefnz"
        /\ sweepgc' = "head" /\ tosweep' = tobefnz
     \/ /\ gcstate = "swptobefnz" /\ gcstate' = "swpend"
        /\ UNCHANGED <<sweepgc, tosweep>>
  /\ UNCHANGED <<currentwhite, tolive, color, refs, owner, gray, grayagain, twups,
                 finobj, tobefnz, mutvars, fin, ctlvars>>

FinishSweep ==
  /\ StepTurn /\ gcstate = "swpend"
  /\ gcstate' = "callfin"
  /\ UNCHANGED <<currentwhite, sweepgc, tosweep, tolive, color, refs, owner, gray, grayagain, twups,
                 finobj, tobefnz, mutvars, fin, ctlvars>>

-----------------------------------------------------------------------------
(* The collector: finalizers and full collections *)

(* mutant: the object stays in 'tobefnz' *)
Udata2Finalize_Kept(o) == UNCHANGED tobefnz

(* udata2finalize gives o back to 'allgc' *)
Udata2Finalize(o) == tobefnz' = tobefnz \ {o}

(* GCTM on object o of 'tobefnz': udata2finalize, then the call of its
   finalizer, unless its metatable has none any more *)
CallFinalizer(o) ==
  /\ StepTurn /\ gcstate = "callfin" /\ ~gcemergency /\ o \in tobefnz
  /\ Udata2Finalize(o)
  /\ IF refs[o] \cap HasGC # {}
     THEN /\ fin' = running
          /\ refs' = [refs EXCEPT ![running] = @ \cup {o}]
     ELSE UNCHANGED <<fin, refs>>
  /\ UNCHANGED <<gcvars, color, owner, gray, grayagain, twups, finobj, mutvars, ctlvars>>

FinishCycle ==
  /\ StepTurn /\ gcstate = "callfin" /\ (gcemergency \/ TightStack \/ tobefnz = {})
  /\ gcstate' = "pause"
  /\ UNCHANGED <<currentwhite, sweepgc, tosweep, tolive, color, refs, owner, gray, grayagain, twups,
                 finobj, tobefnz, mutvars, fin, ctlvars>>

(* mutant: the collection under way is given up with no sweep *)
BlackToWhite_NoSweep ==
  /\ gcstate' = IF KeepInvariant THEN "pause" ELSE gcstate
  /\ UNCHANGED <<sweepgc, tosweep, tolive>>

(* fullinc sweeps everything first, to turn black objects white *)
BlackToWhite ==
  IF KeepInvariant THEN EnterSweep ELSE UNCHANGED <<gcstate, sweepgc, tosweep, tolive>>

(* lauC_fullgc: by lau_gc, which does nothing inside a finalizer, or by an
   allocation that failed.  fullinc turns black objects white first. *)
FullGC(emergency) ==
  /\ ProgramTurn /\ (emergency \/ fin = Nobody)
  /\ gcemergency' = emergency
  /\ goals' = <<"pause", "callfin", "pause", "end">> \o goals
  /\ BlackToWhite
  /\ UNCHANGED <<currentwhite, color, refs, owner, gray, grayagain, twups, finobj, tobefnz,
                 mutvars, fin>>

(* lauC_runtilstate has reached its state, or lauC_fullgc ends *)
ReachGoal ==
  /\ CollectorTurn /\ goals # <<>> /\ Head(goals) \in {"end", gcstate}
  /\ goals' = Tail(goals)
  /\ gcemergency' = (gcemergency /\ Head(goals) # "end")
  /\ UNCHANGED <<gcvars, color, refs, owner, gray, grayagain, twups, finobj, tobefnz, mutvars, fin>>

-----------------------------------------------------------------------------
Init ==
  /\ gcstate = "pause" /\ currentwhite = "white0"
  /\ color = [o \in Obj |-> IF o = Main THEN "white0" ELSE "free"]
  /\ refs = [o \in Obj |-> {}]
  /\ owner = [u \in UpVal |-> Nobody]
  /\ gray = {} /\ grayagain = {} /\ twups = {}
  /\ sweepgc = "null" /\ tosweep = {} /\ tolive = FALSE
  /\ finobj = {} /\ tobefnz = {}
  /\ roots = {} /\ running = Main /\ fin = Nobody /\ cache = {}
  /\ goals = <<>> /\ gcemergency = FALSE

Program ==
  \/ \E o \in Listed : NewObject(o)
  \/ \E s \in String : NewString(s) \/ NewCString(s)
  \/ \E v \in Value : Load(v) \/ Pop(v)
  \/ \E th \in Thread, v \in Value : XMove(th, v)
  \/ \E t \in Table, v \in Value : SetField(t, v) \/ ClearField(t, v)
  \/ \E t \in Table : SetRoot(t)
  \/ ClearRoot
  \/ \E t, m \in Table : SetMetatable(t, m)
  \/ \E u \in UpVal, v \in Value : FindUpval(u, v) \/ SetUpval(u, v) \/ SetLocal(u, v)
  \/ \E c \in Closure, u \in UpVal : SetUpvalueOf(c, u)
  \/ \E c \in Closure, v \in Value : SetConstant(c, v)
  \/ \E u \in UpVal : CloseUpval(u)
  \/ \E th \in Thread : Resume(th)
  \/ Yield
  \/ \E emergency \in FullGCs : FullGC(emergency)

Collector ==
  \/ Restart
  \/ \E o \in Listed : Propagate(o)
  \/ EnterAtomic
  \/ Atomic
  \/ \E o \in Obj : Sweep(o)
  \/ SweepEnd
  \/ NextList
  \/ FinishSweep
  \/ \E o \in Table : CallFinalizer(o)
  \/ FinishCycle
  \/ ReachGoal

Next == Program \/ EndFinalizer \/ Collector

Spec == Init /\ [][Next]_vars

(* Every allocation is preceded by lauC_checkGC, so a program that goes on
   allocating goes on giving the collector its steps; and finalizers end. *)
Fairness == WF_vars(Collector) /\ WF_vars(EndFinalizer)
FairSpec == Spec /\ Fairness

-----------------------------------------------------------------------------
(* Type invariant *)
TypeOK ==
  /\ gcstate \in States /\ currentwhite \in Whites
  /\ color \in [Obj -> Colors]
  /\ refs \in [Obj -> SUBSET Obj]
  /\ owner \in [UpVal -> Thread \cup {Nobody}]
  /\ gray \subseteq Listed /\ grayagain \subseteq Listed /\ twups \subseteq Thread
  /\ sweepgc \in Obj \cup {"head", "null"} /\ tosweep \subseteq Obj /\ tolive \in BOOLEAN
  /\ finobj \subseteq Table /\ tobefnz \subseteq Table
  /\ roots \subseteq Table /\ running \in Thread /\ fin \in Thread \cup {Nobody}
  /\ cache \subseteq String
  /\ goals \in Seq({"pause", "callfin", "end"}) /\ gcemergency \in BOOLEAN

(* Nothing that the program can still reach, now or through an object whose
   finalizer is still to be called, has been freed or is waiting to be freed
   by the sweep (lgc.c: "a dead object is one marked with the old white"). *)
ReachableIsLive == Reachable \subseteq Live

(* While marks are being made, no black object refers to a white one, whatever
   stores the program made since (lgc.h: the main invariant). *)
BlackNeverPointsToWhite ==
  KeepInvariant => \A o \in Obj : color[o] = "black" => \A p \in Succ(o) : ~IsWhite(p)

(* While marks are being made, a gray object waits in a gray list, so that it
   will be visited before the cycle ends; open upvalues are the exception. *)
GrayIsListed ==
  KeepInvariant => \A o \in Obj :
    color[o] = "gray" => o \in gray \cup grayagain \/ (o \in UpVal /\ owner[o] # Nobody)

(* When the sweep ends all objects are white again, whatever moved between the
   lists while they were being swept (lgc.h, comment of keepinvariant). *)
SweepEndsWhite ==
  gcstate \in {"swpend", "callfin", "pause"} =>
    \A o \in Allocated : color[o] = currentwhite

(* A hit in the string cache, which lauS_new returns without a look at its
   color, never gives a string that is dead or freed. *)
CacheIsLive == cache \subseteq Live

(* remarkupvals follows the list of threads with open upvalues in every cycle:
   it never holds a freed thread, and never misses one with open upvalues. *)
TwupsIsExact ==
  /\ twups \subseteq Live
  /\ \A u \in UpVal : owner[u] \in Live => owner[u] \in twups

(* An object with a finalizer is not freed before the call of its finalizer,
   and it is chosen for finalization only when the program has lost it. *)
FinalizedBeforeFreed ==
  [][/\ \A o \in finobj \cup tobefnz : color'[o] # "free"
     /\ \A o \in tobefnz' \ tobefnz :
          o \in finobj /\ o \notin Reach(ProgramRoots, Edges, Obj)]_vars

(* The collector and the program together behave as a heap in which nothing
   that is reachable is ever freed and nothing lost comes back but strings. *)
Heap == INSTANCE LauHeap WITH alive <- Allocated, edges <- Edges, roots <- AllRoots,
                              Revivable <- String
ImplementsHeap == Heap!HeapSpec

(* Garbage is freed in the end, unless the program gets at it again. *)
GarbageIsFreed ==
  \A o \in Obj : (o \in Allocated /\ o \notin Reachable) ~> (color[o] = "free" \/ o \in Reachable)

(* An object with a finalizer that the program loses is finalized in the end,
   unless the program gets at it again. *)
FinalizerIsCalled ==
  \A o \in Table : (o \in finobj /\ o \notin Reach(ProgramRoots, Edges, Obj))
                   ~> (o \notin finobj \cup tobefnz \/ o \in Reach(ProgramRoots, Edges, Obj))

-----------------------------------------------------------------------------
(* The inductive invariant behind the safety properties *)

(* what strings, upvalues and free addresses refer to, and where open upvalues
   live; an open upvalue is never black, as its slot is written with no barrier *)
WellFormed ==
  /\ \A o \in Obj : color[o] = "free" => refs[o] = {}
  /\ \A s \in String : refs[s] = {}
  /\ \A u \in UpVal : \A v, w \in refs[u] : v \in Value /\ v = w
  /\ \A u \in UpVal : owner[u] # Nobody =>
       color[u] \notin {"free", "black"} /\ color[owner[u]] # "free"

(* live objects refer to live objects, and all starting points are live *)
LiveIsClosed ==
  /\ \A o \in Live : refs[o] \subseteq Live
  /\ \A u \in UpVal : owner[u] \in Live => u \in Live /\ owner[u] \in twups
RootsAreLive == AllRoots \cup cache \cup twups \subseteq Live

(* the invariant kept while marks are made; threads, which have no barrier, are
   not black before Atomic, and the main thread is marked from the start *)
Marking ==
  KeepInvariant =>
    /\ \A o \in Obj : ~IsDead(o)
    /\ \A o \in Obj : color[o] = "black" => o \notin Thread /\ refs[o] \cap WhiteSet = {}
    /\ \A o \in Obj : color[o] = "gray" =>
         o \in gray \cup grayagain \/ (o \in UpVal /\ owner[o] # Nobody)
    /\ \A o \in gray \cup grayagain : color[o] \in {"gray", "black"}
    /\ ~IsWhite(Main)

(* outside marking, what is not white again is still to be swept *)
Pending ==
  CASE gcstate = "swpallgc"   -> tosweep \cup finobj \cup tobefnz
    [] gcstate = "swpfinobj"  -> tosweep \cup tobefnz
    [] gcstate = "swptobefnz" -> tosweep
    [] OTHER -> {}
Sweeping ==
  /\ tosweep \subseteq Allocated
  /\ sweepgc = "null" => tosweep = {}
  /\ gcstate \notin SweepList => sweepgc = "null"
  /\ ~KeepInvariant => \A o \in Allocated : color[o] # currentwhite => o \in Pending

IInv == TypeOK /\ WellFormed /\ LiveIsClosed /\ RootsAreLive /\ Marking /\ Sweeping

=============================================================================
