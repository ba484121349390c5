------------------------------- MODULE LauGen -------------------------------
(***************************************************************************)
(* The generational collector (lgc.c, kinds KGC_GENMINOR and KGC_GENMAJOR) *)
(* over lists in their order, with the pointers that divide them by age,   *)
(* and its passages to and from the incremental one.  Objects are tables   *)
(* (back barrier; forward barrier for their metatables) and the main       *)
(* thread (no barrier).  The incremental cycle is here as far as a collector that has *)
(* been generational runs it; LauGC has it with all kinds of objects.      *)
(*   g      the fields of global_State and of the headers of objects       *)
(*   refs   what each object refers to                                     *)
(*   fin    does a finalizer run?                                         *)
(*   goals  what the collector goes on with when no finalizer runs: the    *)
(*          states to reach, "togen"; "finalize" for the loop of  *)
(*          callallpendingfinalizers, "finalizeInStep" for that inside a   *)
(*          single step, "close" for that of a closing state; "closed"     *)
(***************************************************************************)
EXTENDS Naturals, SequencesExt, FiniteSetsExt, LauReach

CONSTANTS Table, Main,
          HasGC,        \* the tables that, used as a metatable, have a field __gc
          Requests,     \* the calls of a program: subset of {"full", "inc", "gen", "emergency", "close"}
          GCSWEEPMAX,   \* objects swept by a step
          MaxStack,     \* bound: values on the stack
          MaxRefs       \* bound: references kept by a table
ASSUME GenAssumption ==
  /\ HasGC \subseteq Table /\ Main \notin Table
  /\ "null" \notin Table \cup {Main} /\ "head" \notin Table \cup {Main}
  /\ GCSWEEPMAX \in Nat \ {0} /\ MaxStack \in Nat /\ MaxRefs \in Nat

VARIABLES g, refs, fin, goals
vars == <<g, refs, fin, goals>>

Obj == Table \cup {Main}
Young == {"NEW", "SURVIVAL"}
Init ==
  /\ g = [state |-> "pause", kind |-> "INC",
          color |-> [o \in Obj |-> IF o = Main THEN "white" ELSE "free"],
          age |-> [o \in Obj |-> "NEW"],
          allgc |-> <<Main>>, finobj |-> << >>, tobefnz |-> << >>,
          survival |-> "null", old1 |-> "null", reallyold |-> "null", firstold1 |-> "null",
          finobjsur |-> "null", finobjold1 |-> "null", finobjrold |-> "null",
          gray |-> {}, grayagain |-> {}, sweepgc |-> "null"]
  /\ refs = [o \in Obj |-> {}] /\ fin = FALSE /\ goals = << >>

Alive(h) == {o \in Obj : h.color[o] # "free"}
iswhite(h, o) == h.color[o] \in {"white", "otherwhite"}
isold(h, o) == h.age[o] \notin Young
tofinalize(h, o) == o \in Range(h.finobj) \cup Range(h.tobefnz)
issweepphase(h) == h.state \in {"swpallgc", "swpfinobj", "swptobefnz", "swpend"}
keepinvariant(h) == h.state \in {"propagate", "enteratomic", "atomic"}

(***************************************************************************)
(* Lists.  A pointer to an object stands for what follows from there on.   *)
(***************************************************************************)
Pos(list, p) == LET i == SelectInSeq(list, LAMBDA x : x = p) IN IF i = 0 THEN Len(list) + 1 ELSE i
Upto(list, p) == SubSeq(list, 1, Pos(list, p) - 1)
From(list, p) == SubSeq(list, Pos(list, p), Len(list))
First(list) == IF list = << >> THEN "null" ELSE list[1]
Next_(list, p) == First(Tail(From(list, p)))
Without(list, S) == SelectSeq(list, LAMBDA x : x \notin S)

\* Functions updated on a set of objects.
Paint(h, S, color) == [h EXCEPT !.color = [o \in Obj |-> IF o \in S THEN color ELSE @[o]]]
SetAge(h, S, Age(_)) == [h EXCEPT !.age = [o \in Obj |-> IF o \in S THEN Age(@[o]) ELSE @[o]]]
Older(h, S, age) == SetAge(h, S, LAMBDA a : age)

(***************************************************************************)
(* Marking                                                                 *)
(***************************************************************************)
reallymark(h, S) == [Paint(h, S, "gray") EXCEPT !.gray = @ \cup S]
mark(h, S) == reallymark(h, {o \in S : iswhite(h, o)})
linkgclist(h, o) == [Paint(h, {o}, "gray") EXCEPT !.grayagain = @ \cup {o}]
\* A bug: objects touched in this cycle are not kept for the next one.
genlink_TouchedOnce(h, o) ==
  IF h.age[o] \in {"TOUCHED1", "TOUCHED2"} THEN Older(h, {o}, "OLD") ELSE h
genlink(h, o) ==
  CASE h.age[o] = "TOUCHED1" -> linkgclist(h, o)
    [] h.age[o] = "TOUCHED2" -> Older(h, {o}, "OLD")
    [] OTHER -> h
traversetable(h, o) == genlink(mark(h, refs[o]), o)
traversethread(h, o) ==
  mark(IF isold(h, o) \/ h.state = "propagate" THEN linkgclist(h, o) ELSE h, refs[o])
propagatemark(h, o) ==
  LET black == [Paint(h, {o}, "black") EXCEPT !.gray = @ \ {o}]
  IN IF o \in Table THEN traversetable(black, o) ELSE traversethread(black, o)
RECURSIVE propagateall(_)
propagateall(h) ==
  IF h.gray = {} THEN h ELSE propagateall(propagatemark(h, CHOOSE o \in h.gray : TRUE))
\* The main thread; the registry is one of the tables that it holds.
restartcollection(h) ==
  mark([h EXCEPT !.gray = {}, !.grayagain = {}, !.state = "propagate"], {Main} \cup Range(h.tobefnz))

\* separatetobefnz: the unreachable objects of finobj, or all of them, are to be finalized.
separatetobefnz(h, all) ==
  LET before == Upto(h.finobj, h.finobjold1)
      moved == SelectSeq(before, LAMBDA o : iswhite(h, o) \/ all)
      kept == Without(h.finobj, Range(moved))
  IN [h EXCEPT !.finobj = kept, !.tobefnz = @ \o moved,
               !.finobjsur = First(Without(From(h.finobj, @), Range(moved)))]
\* The white of new objects is "white" and the white of the last cycle "otherwhite":
\* they exchange their names when currentwhite changes.
flip(h) ==
  [h EXCEPT !.color = [o \in Obj |-> CASE @[o] = "white" -> "otherwhite" [] @[o] = "otherwhite" -> "white" [] OTHER -> @[o]]]
atomic(h) ==
  LET marked == propagateall(mark([h EXCEPT !.state = "atomic", !.grayagain = {}], {Main}))
      again == propagateall([marked EXCEPT !.gray = h.grayagain])
      separated == separatetobefnz(again, FALSE)
  IN flip(propagateall(mark(separated, Range(separated.tobefnz))))

(***************************************************************************)
(* Sweeping                                                                *)
(***************************************************************************)
Free(h, S) == SetAge(Paint(h, S, "free"), S, LAMBDA a : "NEW")
SweepList == [swpallgc |-> "allgc", swpfinobj |-> "finobj", swptobefnz |-> "tobefnz"]
\* The list in which the pointer sweepgc is, and the place it points to.
ListOf(h) ==
  IF h.sweepgc = "head" THEN SweepList[h.state]
  ELSE CHOOSE l \in {"allgc", "finobj", "tobefnz"} : h.sweepgc \in Range(h[l])
\* sweeplist, on 'count' objects after sweepgc: the others are new and white.
SweepIn(h, l, count) ==
  LET done == IF h.sweepgc = "head" THEN 0 ELSE Pos(h[l], h.sweepgc)
      end == Min({done + count, Len(h[l])})
      swept == Range(SubSeq(h[l], done + 1, end))
      dead == {o \in swept : h.color[o] = "otherwhite"}
      cleaned == Free(Older(Paint(h, swept, "white"), swept, "NEW"), dead)
      live == Without(SubSeq(h[l], done + 1, end), dead)
  IN [cleaned EXCEPT ![l] = Without(@, dead),
                     !.sweepgc = IF end = Len(h[l]) THEN "null" ELSE IF live = << >> THEN @ ELSE Last(live)]
sweeplist(h, count) == SweepIn(h, ListOf(h), count)
\* sweeptolive: until the pointer moves.
RECURSIVE sweeptolive(_)
sweeptolive(h) ==
  LET s == sweeplist(h, 1) IN IF s.sweepgc = h.sweepgc THEN sweeptolive(s) ELSE s
entersweep(h) == sweeptolive([h EXCEPT !.state = "swpallgc", !.sweepgc = "head"])
sweepstep(h, nextstate, count) ==
  IF h.sweepgc # "null" THEN sweeplist(h, count)
  ELSE [h EXCEPT !.state = nextstate, !.sweepgc = IF nextstate = "swpend" THEN "null" ELSE "head"]

(***************************************************************************)
(* Young collections                                                       *)
(***************************************************************************)
markold(h, list) ==
  LET S == {o \in Range(list) : h.age[o] = "OLD1"}
  IN reallymark(Older(h, S, "OLD"), {o \in S : h.color[o] = "black"})
nextage == [NEW |-> "SURVIVAL", SURVIVAL |-> "OLD1", OLD0 |-> "OLD1", OLD1 |-> "OLD", OLD |-> "OLD",
            TOUCHED1 |-> "TOUCHED1", TOUCHED2 |-> "TOUCHED2"]
\* sweepgen: [h, the objects left], with firstold1 when it is asked for.
sweepgen(h, list, asked) ==
  LET S == Range(list)
      dead == {o \in S : iswhite(h, o)}
      new == {o \in S \ dead : h.age[o] = "NEW"}
      aged == SetAge(Free(Paint(h, new, "white"), dead), S \ dead, LAMBDA a : nextage[a])
      left == Without(list, dead)
      old1s == SelectSeq(left, LAMBDA o : aged.age[o] = "OLD1")
  IN [h |-> IF asked /\ h.firstold1 = "null" THEN [aged EXCEPT !.firstold1 = First(old1s)] ELSE aged,
      left |-> left]
\* The nursery and then the survivals, up to the old ones; the pointers move on.
Segment(list, p, q) == From(Upto(list, q), p)
sweepallgc(h) ==
  LET nursery == sweepgen(h, Upto(h.allgc, h.survival), TRUE)
      survivals == sweepgen(nursery.h, Segment(h.allgc, h.survival, h.old1), TRUE)
      rest == survivals.left \o From(h.allgc, h.old1)
      new == nursery.left \o rest
  IN [survivals.h EXCEPT !.allgc = new, !.reallyold = h.old1, !.old1 = First(rest), !.survival = First(new)]
sweepfinobj(h) ==
  LET nursery == sweepgen(h, Upto(h.finobj, h.finobjsur), FALSE)
      survivals == sweepgen(nursery.h, Segment(h.finobj, h.finobjsur, h.finobjold1), FALSE)
      rest == survivals.left \o From(h.finobj, h.finobjold1)
      new == nursery.left \o rest
  IN [survivals.h EXCEPT !.finobj = new, !.finobjrold = h.finobjold1, !.finobjold1 = First(rest),
                         !.finobjsur = First(new)]
sweeptobefnz(h) == LET s == sweepgen(h, h.tobefnz, FALSE) IN [s.h EXCEPT !.tobefnz = s.left]
markallold(h) ==
  LET regular == IF h.firstold1 = "null" THEN h
                 ELSE [markold(h, Segment(h.allgc, h.firstold1, h.reallyold)) EXCEPT !.firstold1 = "null"]
  IN markold(markold(regular, Upto(h.finobj, h.finobjrold)), h.tobefnz)
correctgraylists(h) ==
  LET touched == {o \in h.grayagain : ~iswhite(h, o) /\ h.age[o] = "TOUCHED1"}
      threads == {o \in h.grayagain \cap {Main} : ~iswhite(h, o)} \ touched
      others == {o \in h.grayagain : ~iswhite(h, o)} \ (touched \cup threads)
      touched2 == {o \in others : h.age[o] = "TOUCHED2"}
  IN [Older(Older(Paint(h, touched \cup others, "black"), touched, "TOUCHED2"), touched2, "OLD")
        EXCEPT !.grayagain = touched \cup threads]
finishgencycle(h) == [correctgraylists(h) EXCEPT !.state = "propagate"]
minor2inc(h, kind) ==
  entersweep([h EXCEPT !.kind = kind, !.reallyold = "null", !.old1 = "null", !.survival = "null",
                       !.finobjrold = "null", !.finobjold1 = "null", !.finobjsur = "null"])
\* youngcollection, up to its finalizers; 'major' is what checkminormajor says.
youngcollection(h, major) ==
  LET swept == sweeptobefnz(sweepfinobj(sweepallgc([atomic(markallold(h)) EXCEPT !.state = "swpallgc"])))
  IN IF major THEN minor2inc(swept, "GENMAJOR") ELSE finishgencycle(swept)

(***************************************************************************)
(* Major collections and changes of mode                                   *)
(***************************************************************************)
\* sweep2old, on one list after the other.
sweep2old(h) ==
  LET dead == {o \in Alive(h) : iswhite(h, o)}
      live == {o \in Alive(h) : ~iswhite(h, o)}
      black == Older(Paint(Free(h, dead), live \ {Main}, "black"), live, "OLD")
  IN [Paint(black, {Main}, "gray") EXCEPT
        !.grayagain = {Main},
        !.allgc = Without(@, dead), !.finobj = Without(@, dead), !.tobefnz = Without(@, dead)]
atomic2gen(h) ==
  LET old == sweep2old([h EXCEPT !.gray = {}, !.grayagain = {}])
      all == First(old.allgc)
      fins == First(old.finobj)
  IN finishgencycle([old EXCEPT !.kind = "GENMINOR", !.firstold1 = "null",
                                !.reallyold = all, !.old1 = all, !.survival = all,
                                !.finobjrold = fins, !.finobjold1 = fins, !.finobjsur = fins])
\* A single step of the incremental collector that calls no finalizer.
singlestep(h, fast, o, minor) ==
  CASE h.state = "pause" -> restartcollection(h)
    [] h.state = "propagate" /\ (fast \/ h.gray = {}) -> [h EXCEPT !.state = "enteratomic"]
    [] h.state = "propagate" /\ ~(fast \/ h.gray = {}) -> propagatemark(h, o)
    [] h.state = "enteratomic" -> IF minor THEN atomic2gen(atomic(h)) ELSE entersweep(atomic(h))
    [] h.state = "swpallgc" -> sweepstep(h, "swpfinobj", IF fast THEN Cardinality(Obj) ELSE GCSWEEPMAX)
    [] h.state = "swpfinobj" -> sweepstep(h, "swptobefnz", IF fast THEN Cardinality(Obj) ELSE GCSWEEPMAX)
    [] h.state = "swptobefnz" -> sweepstep(h, "swpend", IF fast THEN Cardinality(Obj) ELSE GCSWEEPMAX)
    [] h.state = "swpend" -> [h EXCEPT !.state = "callfin"]
    [] OTHER -> [h EXCEPT !.state = "pause"]
\* lauC_runtilstate, until it calls a finalizer if it may.
RECURSIVE runtilstate(_, _, _)
runtilstate(h, state, calls) ==
  IF h.state = state \/ (calls /\ h.state = "callfin" /\ h.tobefnz # << >>) THEN h
  ELSE runtilstate(singlestep(h, TRUE, Main, FALSE), state, calls)
\* In an emergency no finalizer is called.
runto(h, state) == runtilstate(h, state, FALSE)
fullinc(h) == runto(runto(runto(IF keepinvariant(h) THEN entersweep(h) ELSE h, "pause"), "callfin"), "pause")
fullgen(h) == atomic2gen(atomic(runto(runto(minor2inc(h, "INC"), "pause"), "propagate")))
emergency(h) ==
  IF h.kind = "GENMINOR" THEN fullgen(h) ELSE [fullinc([h EXCEPT !.kind = "INC"]) EXCEPT !.kind = h.kind]

(***************************************************************************)
(* Barriers and finalizers                                                 *)
(***************************************************************************)
barrier(h, o, v) ==
  IF ~(h.color[o] = "black" /\ iswhite(h, v)) THEN h
  ELSE IF keepinvariant(h)
  THEN IF isold(h, o) THEN Older(reallymark(h, {v}), {v}, "OLD0") ELSE reallymark(h, {v})
  ELSE IF h.kind # "GENMINOR" THEN Paint(h, {o}, "white") ELSE h
barrierback(h, o, v) ==
  IF ~(h.color[o] = "black" /\ iswhite(h, v)) THEN h
  ELSE LET gray == IF h.age[o] = "TOUCHED2" THEN Paint(h, {o}, "gray") ELSE linkgclist(h, o)
       IN IF isold(h, o) THEN Older(gray, {o}, "TOUCHED1") ELSE gray

\* A bug: the pointers into allgc stay where they are.
correctpointers_Stale(h, o) == h
correctpointers(h, o) ==
  LET checkpointer(p) == IF p = o THEN Next_(h.allgc, o) ELSE p
  IN [h EXCEPT !.survival = checkpointer(@), !.old1 = checkpointer(@), !.reallyold = checkpointer(@),
               !.firstold1 = checkpointer(@)]
movetofinobj(h, o) == [h EXCEPT !.allgc = Without(@, {o}), !.finobj = <<o>> \o @]
checkfinalizer(h, o) ==
  LET white == Paint(h, {o}, "white")
  IN IF tofinalize(h, o) THEN h
     ELSE IF issweepphase(h)
     THEN movetofinobj(IF h.sweepgc = o THEN sweeptolive(white) ELSE white, o)
     ELSE movetofinobj(correctpointers(h, o), o)
udata2finalize(h) ==
  LET o == h.tobefnz[1]
      moved == [h EXCEPT !.tobefnz = Tail(@), !.allgc = <<o>> \o @]
  IN IF issweepphase(h) THEN Paint(moved, {o}, "white")
     ELSE IF h.age[o] = "OLD1" THEN [moved EXCEPT !.firstold1 = o] ELSE moved

(***************************************************************************)
(* The program, between its allocations                                    *)
(***************************************************************************)
Turn == fin \/ goals = << >>
Doing(goal) == goals # << >> /\ Head(goals) = goal
Stack == refs[Main]
Push(v) == Cardinality(Stack \cup {v}) <= MaxStack
NewObject(o) ==
  /\ Turn /\ o \notin Alive(g) /\ Push(o)
  /\ g' = [g EXCEPT !.color[o] = "white", !.age[o] = "NEW", !.allgc = <<o>> \o @]
  /\ refs' = [refs EXCEPT ![Main] = @ \cup {o}]
  /\ UNCHANGED <<fin, goals>>
Load(o, v) ==
  /\ Turn /\ o \in Stack /\ v \in refs[o] \ Stack /\ Push(v)
  /\ refs' = [refs EXCEPT ![Main] = @ \cup {v}]
  /\ UNCHANGED <<g, fin, goals>>
Pop(v) ==
  /\ Turn /\ v \in Stack
  /\ refs' = [refs EXCEPT ![Main] = @ \ {v}]
  /\ UNCHANGED <<g, fin, goals>>
\* What is left of the references when the objects of h are.
Left(h, stack) == [o \in Obj |-> IF h.color[o] = "free" THEN {} ELSE IF o = Main THEN stack ELSE refs[o]]
Apply(h) == g' = h /\ refs' = Left(h, Stack)
Refer(o, v, h) ==
  /\ Turn /\ {o, v} \subseteq Stack /\ v \notin refs[o] /\ Cardinality(refs[o]) < MaxRefs
  /\ g' = h /\ refs' = [Left(h, Stack) EXCEPT ![o] = @ \cup {v}]
  /\ UNCHANGED <<fin, goals>>
SetField(t, v) == t \in Table /\ Refer(t, v, barrierback(g, t, v))
SetMetatable(t, m) ==
  /\ t \in Table /\ m \in Table
  /\ Refer(t, m, IF m \in HasGC /\ ~Doing("close") THEN checkfinalizer(barrier(g, t, m), t) ELSE barrier(g, t, m))
Clear(o, v) ==
  /\ Turn /\ o \in Stack /\ v \in refs[o]
  /\ refs' = [refs EXCEPT ![o] = @ \ {v}]
  /\ UNCHANGED <<g, fin, goals>>

(***************************************************************************)
(* Finalizers                                                              *)
(***************************************************************************)
\* GCTM, up to the call of the finalizer, if the object still has one.
GCTM ==
  LET o == g.tobefnz[1] IN
  /\ g' = udata2finalize(g)
  /\ fin' = (refs[o] \cap HasGC # {})
  /\ refs' = IF fin' THEN [refs EXCEPT ![Main] = @ \cup {o}] ELSE refs
  /\ UNCHANGED goals
\* lauD_pcall restores the stack, which is empty while the state closes.
EndFinalizer ==
  /\ fin /\ fin' = FALSE
  /\ refs' = IF Doing("close") THEN [refs EXCEPT ![Main] = {}] ELSE refs
  /\ UNCHANGED <<g, goals>>
CallFinalizer ==
  /\ ~fin /\ g.tobefnz # << >>
  /\ \/ Doing("finalize") \/ Doing("finalizeInStep") \/ Doing("close")
     \/ g.state = "callfin" /\ (goals = << >> \/ Doing("pause") \/ Doing("propagate"))
  /\ GCTM
EndFinalizers ==
  /\ ~fin /\ g.tobefnz = << >> /\ (Doing("finalize") \/ Doing("finalizeInStep"))
  /\ goals' = Tail(goals) /\ UNCHANGED <<g, refs, fin>>
\* finishgencycle calls the finalizers, unless the stack has no space for them.
Finalizing(h, loop) == IF h.tobefnz = << >> THEN {<< >>} ELSE {<< >>, <<loop>>}

(***************************************************************************)
(* The collector                                                           *)
(***************************************************************************)
\* lauC_step, at an allocation.
YoungCollection ==
  /\ ~fin /\ goals = << >> /\ g.kind = "GENMINOR"
  /\ \E major \in BOOLEAN : \E h \in {youngcollection(g, major)} :
       Apply(h) /\ goals' \in IF major THEN {<< >>} ELSE Finalizing(h, "finalize")
  /\ UNCHANGED fin
\* In incremental mode a program may stop the collector.
Steps == g.kind = "GENMAJOR" \/ (g.kind = "INC" /\ "step" \in Requests)
IncStep ==
  /\ ~fin /\ goals = << >> /\ Steps
  /\ \E o \in IF g.gray = {} THEN {Main} ELSE g.gray : \E h \in {singlestep(g, FALSE, o, FALSE)} : Apply(h)
  /\ UNCHANGED <<fin, goals>>
\* checkmajorminor goes back to young collections.
BackToMinor ==
  /\ ~fin /\ goals = << >> /\ g.kind = "GENMAJOR" /\ g.state = "enteratomic"
  /\ \E h \in {singlestep(g, FALSE, Main, TRUE)} : Apply(h) /\ goals' \in Finalizing(h, "finalizeInStep")
  /\ UNCHANGED fin

\* lauC_runtilstate, with its finalizers.
ToState ==
  /\ ~fin /\ goals # << >> /\ Head(goals) \in {"pause", "propagate"}
  /\ IF g.state = Head(goals) THEN goals' = Tail(goals) /\ UNCHANGED <<g, refs>>
     ELSE Apply(runtilstate(singlestep(g, TRUE, Main, FALSE), Head(goals), TRUE)) /\ UNCHANGED goals
  /\ UNCHANGED fin
ToGen ==
  /\ ~fin /\ Doing("togen")
  /\ \E h \in {atomic2gen(atomic(g))} : Apply(h) /\ goals' \in Finalizing(h, "finalize")
  /\ UNCHANGED fin

\* lau_gc and lau_close, not from a finalizer.  LauGC has the full collection of
\* the other modes, which is that of the incremental one.
Asked(request) == request \in Requests /\ ~fin /\ goals = << >> /\ UNCHANGED fin
entergen == <<"pause", "propagate", "togen">>
FullGC ==
  /\ Asked("full") /\ g.kind = "GENMINOR"
  /\ Apply(minor2inc(g, "INC")) /\ goals' = entergen
Generational ==
  /\ Asked("gen") /\ g.kind # "GENMINOR"
  /\ Apply(runtilstate([g EXCEPT !.kind = "INC"], "pause", TRUE)) /\ goals' = entergen
ToInc(h) == IF h.kind = "GENMINOR" THEN minor2inc(h, "INC") ELSE [h EXCEPT !.kind = "INC"]
\* In GENMAJOR the collector is already incremental but in name.
Incremental == Asked("inc") /\ g.kind = "GENMINOR" /\ Apply(ToInc(g)) /\ UNCHANGED goals
\* A full collection at any allocation, also in a finalizer; it calls none.
\* LauGC has those of a program in the modes with incremental cycles.
Emergency ==
  /\ "emergency" \in Requests /\ Turn /\ ~Doing("finalizeInStep")
  /\ g.kind = "GENMINOR" \/ fin
  /\ Apply(emergency(g))
  /\ UNCHANGED <<fin, goals>>

\* lauC_freeallobjects, with an empty stack.
Close ==
  /\ Asked("close")
  /\ LET h == separatetobefnz(ToInc(g), TRUE) IN g' = h /\ refs' = Left(h, {})
  /\ goals' = <<"close">>
FreeAll ==
  /\ ~fin /\ Doing("close") /\ g.tobefnz = << >>
  /\ LET h == [Free(g, Range(g.allgc) \ {Main}) EXCEPT !.allgc = <<Main>>] IN g' = h /\ refs' = Left(h, {})
  /\ goals' = <<"closed">> /\ UNCHANGED fin
Closed == Doing("closed") /\ UNCHANGED vars

Program ==
  \/ \E o, v \in Obj : SetField(o, v) \/ SetMetatable(o, v) \/ Load(o, v) \/ Clear(o, v)
  \/ \E o \in Obj : NewObject(o) \/ Pop(o)
Next ==
  \/ Program \/ CallFinalizer \/ EndFinalizer \/ EndFinalizers
  \/ YoungCollection \/ IncStep \/ BackToMinor \/ ToState \/ ToGen
  \/ FullGC \/ Generational \/ Incremental \/ Emergency \/ Close \/ FreeAll \/ Closed
Spec == Init /\ [][Next]_vars

(***************************************************************************)
(* Properties                                                              *)
(***************************************************************************)
\* In every mode, through every change of mode and until the state is closed,
\* nothing that the program or a pending finalizer can reach is freed, and
\* nothing lost comes back.
Roots == IF Doing("closed") THEN {} ELSE {Main} \cup Range(g.finobj) \cup Range(g.tobefnz)
Heap == INSTANCE LauHeap WITH alive <- Alive(g), edges <- refs, roots <- Roots, Revivable <- {}
ImplementsHeap == Heap!HeapSpec

\* While the program runs between two young collections, the ages are what lgc.h
\* (113-146) and lstate.h (36-62) say: an old object refers to younger ones only as
\* its age allows; what the next collection must visit is gray and listed, or OLD1
\* where markold looks; after each pointer a list has no elements younger than its
\* part, and before 'firstold1' none that are OLD1.
MayReferTo(age) ==
  CASE age = "OLD" -> {"OLD0", "OLD1", "OLD", "TOUCHED1", "TOUCHED2"}
    [] age \in {"OLD1", "TOUCHED2"} -> DOMAIN nextage \ {"NEW"}
    [] OTHER -> DOMAIN nextage
MinorTurn == Turn /\ g.kind = "GENMINOR" /\ ~Doing("close")
Listed(o) == o \in g.gray \cup g.grayagain
AgesOf(list, p) == {g.age[o] : o \in Range(From(list, p))}
NotOlder(list, survival, old1, reallyold) ==
  /\ "NEW" \notin AgesOf(list, survival)
  /\ AgesOf(list, old1) \cap {"NEW", "SURVIVAL", "OLD0"} = {}
  /\ AgesOf(list, reallyold) \cap {"NEW", "SURVIVAL", "OLD0", "OLD1"} = {}
AgesKept ==
  MinorTurn =>
    /\ \A o \in Alive(g) \ {Main} : \A v \in refs[o] : g.age[v] \in MayReferTo(g.age[o])
    /\ \A o \in Alive(g) :
         CASE ~isold(g, o) -> g.color[o] = "white"
           [] g.age[o] \in {"TOUCHED1", "OLD0"} -> g.color[o] = "gray" /\ Listed(o)
           [] g.age[o] = "TOUCHED2" -> g.color[o] = "black" /\ Listed(o)
           [] OTHER -> IF o = Main THEN Listed(o) ELSE g.color[o] = "black"
    /\ NotOlder(g.allgc, g.survival, g.old1, g.reallyold)
    /\ NotOlder(g.finobj, g.finobjsur, g.finobjold1, g.finobjrold)
    /\ \A o \in Range(Upto(g.allgc, g.firstold1)) : g.age[o] # "OLD1"
=============================================================================
