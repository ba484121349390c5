------------------------------ MODULE LauCall -------------------------------
(***************************************************************************)
(* Calls, errors, yields and to-be-closed variables of one coroutine:      *)
(* ldo.c, with what lfunc.c, lstate.c, lapi.c and lvm.c do for it.  The    *)
(* host program resumes the coroutine and closes it; its functions, in Lau *)
(* and in C, are arbitrary.                                                *)
(*                                                                         *)
(* The state is a lau_State and the C stack it runs on, 'cs', whose last   *)
(* entry is the C function in control:                                     *)
(*   try     lauD_rawrunprotected, by lau_resume ("resume"), precover      *)
(*           ("recover"), lauD_pcall ("pcall") or lauD_closeprotected      *)
(*           ("closep"); it holds what a longjmp to it restores            *)
(*   ccall   ccall, to undo its increments of nCcalls                      *)
(*   exec    lauV_execute                                                  *)
(*   cfn     a C function of the program, or a continuation                *)
(*   unroll  unroll                                                        *)
(*   close   the loop of lauF_close, and what its caller does next         *)
(*   reset   lauE_resetthread                                              *)
(* Operators named as the C functions take the state and return the new    *)
(* one.  A longjmp cuts 'cs' and so is one step.                           *)
(***************************************************************************)
EXTENDS Naturals, Sequences, SequencesExt, FiniteSets, FiniteSetsExt

CONSTANTS Var,          \* values with a '__close' metamethod
          Error,        \* error values
          message,      \* the error value of errors that ldo.c itself raises
          MaxFrames,    \* call frames that fit in the stack (LAUI_MAXSTACK)
          FrameSize,    \* slots of one frame
          MaxVars,      \* bound: to-be-closed variables at a time
          MaxCcalls,    \* LAUI_MAXCCALLS
          ArithConcat,  \* do arithmetic instructions meet '__concat' metamethods?
          NestedClose   \* may a coroutine close itself while the host closes it?

ASSUME Bounds ==
  /\ {MaxFrames, FrameSize, MaxVars, MaxCcalls} \subseteq Nat
  /\ MaxCcalls > 1 /\ MaxFrames > 1
  /\ {ArithConcat, NestedClose} \subseteq BOOLEAN /\ message \in Error

VARIABLE L

ErrorStatus == {"run", "mem"}
ErrorValue == Error \cup {"mem"}

(* A CallInfo.  'pc' is the point reached: "run", or the instruction or API call
   under way ("call", "index", "add", "close", "return", "top"), 'level' its
   operand; 'args' is what the function was called with. *)
Frame(kind, func, want, fresh, args) ==
  [kind |-> kind, func |-> func, want |-> want, fresh |-> fresh, args |-> args,
   pc |-> "run", level |-> 0, k |-> FALSE, ypcall |-> FALSE, recst |-> "ok",
   tbc |-> FALSE, clsret |-> FALSE, u2 |-> 0]

BaseCI == Frame("C", 1, 0, FALSE, <<>>)
MULTRET == 99

Init == L = [ci |-> <<BaseCI>>, stack |-> <<"nil">>, tbclist |-> <<>>, status |-> "ok",
             nc |-> 0, nny |-> 0, cs |-> <<>>, ret |-> <<"ok">>]

----------------------------------------------------------------------------
(* The state seen by its owner *)

Control(s) == IF s.cs = <<>> THEN "host" ELSE Last(s.cs).t
PushC(s, entry) == [s EXCEPT !.cs = Append(@, entry)]
PopC(s) == [s EXCEPT !.cs = Front(@)]
PushStack(s, values) == [s EXCEPT !.stack = @ \o values]
SetTop(s, oldtop) == [s EXCEPT !.stack = SubSeq(@, 1, oldtop - 1)]
SetCI(s, frame) == [s EXCEPT !.ci[Len(s.ci)] = frame]
At(s, pc) == SetCI(s, [Last(s.ci) EXCEPT !.pc = pc, !.level = 0])

CI == Last(L.ci)
InLau == Control(L) = "exec" /\ CI.pc = "run"
InC == Control(L) = "cfn" /\ CI.pc = "run"
yieldable(s) == s.nny = 0
HasRoom == Len(L.stack) < CI.func + FrameSize

----------------------------------------------------------------------------
(* Errors: lauD_throw and the functions its longjmp may land in *)

seterrorobj(s, status, oldtop) ==
  PushStack(SetTop(s, oldtop), <<IF status = "mem" THEN "mem" ELSE Last(s.stack)>>)

rawrunprotected(s, by, ci, level, status) ==
  PushC(s, [t |-> "try", by |-> by, ci |-> ci, level |-> level, status |-> status,
            nc |-> s.nc, nny |-> s.nny])

(* mutant: nCcalls is not restored *)
Unprotect_KeepsNc(s, i) == [s EXCEPT !.cs = SubSeq(@, 1, i - 1), !.nny = s.cs[i].nny]
(* mutant: the non-yieldable calls are not restored *)
Unprotect_KeepsNny(s, i) == [s EXCEPT !.cs = SubSeq(@, 1, i - 1), !.nc = s.cs[i].nc]

(* the end of rawrunprotected, called at position i of the C stack *)
Unprotect(s, i) ==
  [s EXCEPT !.cs = SubSeq(@, 1, i - 1), !.nc = s.cs[i].nc, !.nny = s.cs[i].nny]

lauF_close(s, level, status, yy, then) ==
  PushC(s, [t |-> "close", level |-> level, status |-> status, yy |-> yy, then |-> then])

closeprotected(s, level, status) ==
  lauF_close(rawrunprotected(s, "closep", Len(s.ci), level, status), level, status, FALSE, "closep")

(* mutant: an error goes to the outermost protected call *)
precover_Outermost(s, status) ==
  LET pcalls == {i \in 1..Len(s.ci) : s.ci[i].ypcall}
      ci == Min(pcalls)
      dead == seterrorobj(s, status, Len(s.stack) + 1)
  IN  IF status = "yield" THEN [s EXCEPT !.ret = <<"yield">>]
      ELSE IF pcalls = {}
           THEN [dead EXCEPT !.status = status, !.ret = <<status, Last(dead.stack)>>]
      ELSE PushC(rawrunprotected([s EXCEPT !.ci = Append(SubSeq(@, 1, ci - 1),
                                                         [@[ci] EXCEPT !.recst = status])],
                                 "recover", 0, 0, "ok"),
                 [t |-> "unroll"])

(* after lauD_rawrunprotected in lau_resume or in precover itself *)
precover(s, status) ==
  LET pcalls == {i \in 1..Len(s.ci) : s.ci[i].ypcall}
      ci == Max(pcalls)
      dead == seterrorobj(s, status, Len(s.stack) + 1)
  IN  IF status = "yield" THEN [s EXCEPT !.ret = <<"yield">>]
      ELSE IF pcalls = {}
           THEN [dead EXCEPT !.status = status, !.ret = <<status, Last(dead.stack)>>]
      ELSE PushC(rawrunprotected([s EXCEPT !.ci = Append(SubSeq(@, 1, ci - 1),
                                                         [@[ci] EXCEPT !.recst = status])],
                                 "recover", 0, 0, "ok"),
                 [t |-> "unroll"])

Tries(s) == {i \in 1..Len(s.cs) : s.cs[i].t = "try"}

(* mutant: an error in a close method does not replace the one being handled *)
throw_FirstStatus(s, status) ==
  LET errorJmp == Max(Tries(s))
      try == s.cs[errorJmp]
      back == Unprotect(s, errorJmp)
      first == IF try.status = "ok" THEN status ELSE try.status
  IN  IF try.by \in {"resume", "recover"} THEN precover(back, status)
      ELSE closeprotected([back EXCEPT !.ci = SubSeq(@, 1, try.ci)], try.level, first)

throw(s, status) ==
  LET errorJmp == Max(Tries(s))
      try == s.cs[errorJmp]
      back == Unprotect(s, errorJmp)
  IN  IF try.by \in {"resume", "recover"} THEN precover(back, status)
      ELSE closeprotected([back EXCEPT !.ci = SubSeq(@, 1, try.ci)], try.level, status)

BaseTry(s) == Min(Tries(s))
throwbaselevel(s, status) ==
  LET base == [s EXCEPT !.cs = SubSeq(@, 1, BaseTry(s))]
  IN  IF status = "ok" THEN base ELSE throw(base, status)

runerror(s, e) == throw(PushStack(s, <<e>>), "run")

----------------------------------------------------------------------------
(* Calls and returns *)

(* mutant: CIST_FRESH is not set *)
precall_NotFresh(s, func, want, kind, fresh) ==
  LET frame == Frame(kind, func, want, FALSE, SubSeq(s.stack, func + 1, Len(s.stack)))
      called == [s EXCEPT !.ci = Append(@, frame)]
  IN  IF Len(s.ci) = MaxFrames THEN runerror(s, message)
      ELSE PushC(called, [t |-> IF kind = "C" THEN "cfn" ELSE "exec"])

(* lauD_precall for a function of the given kind at stack position func *)
precall(s, func, want, kind, fresh) ==
  LET frame == Frame(kind, func, want, fresh, SubSeq(s.stack, func + 1, Len(s.stack)))
      called == [s EXCEPT !.ci = Append(@, frame)]
  IN  IF Len(s.ci) = MaxFrames THEN runerror(s, message)
      ELSE IF kind = "C" THEN PushC(called, [t |-> "cfn"])
      ELSE IF fresh THEN PushC(called, [t |-> "exec"])
      ELSE called

(* inc counts a C call; y = 1 makes it also a non-yieldable one (nyci) *)
ccall(s, func, want, inc, y, kind) ==
  LET in == PushC([s EXCEPT !.nc = @ + inc, !.nny = @ + y],
                  [t |-> "ccall", inc |-> inc, y |-> y])
  IN  IF in.nc = MaxCcalls THEN runerror(in, message)
      ELSE precall(in, func, want, kind, kind = "Lau")

(* the function just pushed on the stack is called *)
Call(s, want, y, kind) ==
  LET pushed == PushStack(s, <<"func">>)
  IN  ccall(pushed, Len(pushed.stack), want, 1, y, kind)

(* moveresults, and the return to the previous CallInfo *)
moveresults(s, nres) ==
  LET frame == Last(s.ci)
      first == Len(s.stack) - nres
      wanted == IF frame.want = MULTRET THEN nres ELSE frame.want
      results == [i \in 1..wanted |-> IF i <= nres THEN s.stack[first + i] ELSE "nil"]
      back == PushStack(SetTop([s EXCEPT !.ci = Front(@)], frame.func), results)
  IN  IF Control(back) = "exec" THEN At(back, "run") ELSE back

(* lauD_poscall of a C function that returns nres values *)
poscall(s, nres) ==
  LET frame == Last(s.ci)
  IN  IF frame.tbc
      THEN lauF_close(SetCI(s, [frame EXCEPT !.u2 = nres, !.clsret = TRUE]),
                      frame.func, "ktop", TRUE, "poscall")
      ELSE moveresults(s, nres)

(* lauV_execute leaves a frame: out of the C function if the frame is fresh *)
leaveframe(s, nres) == moveresults(IF Last(s.ci).fresh THEN PopC(s) ELSE s, nres)

TbcFrom(s, level) == \E i \in 1..Len(s.tbclist) : s.tbclist[i] >= level

----------------------------------------------------------------------------
(* Instructions of a Lau function *)

OpCall(kind) ==
  /\ InLau /\ HasRoom
  /\ LET s == PushStack(At(L, "call"), <<"func">>)
     IN  L' = precall(s, Len(s.stack), 0, kind, FALSE)

(* an instruction that calls a metamethod (lauT_callTMres); an addition may
   fall back to '__concat' *)
OpMeta(kind, op) ==
  /\ InLau /\ HasRoom /\ (op = "add" => ArithConcat)
  /\ L' = Call(At(L, op), 1, 0, kind)

(* mutant: the slot below the variable is marked *)
ToClose_Below(v) ==
  /\ InLau \/ InC
  /\ HasRoom /\ Len(L.tbclist) < MaxVars
  /\ LET marked == [PushStack(L, <<v>>) EXCEPT !.tbclist = Append(@, Len(L.stack))]
     IN  L' = IF InC THEN SetCI(marked, [CI EXCEPT !.tbc = TRUE]) ELSE marked

(* OP_TBC; lau_toclose, with its CIST_TBC *)
ToClose(v) ==
  /\ InLau \/ InC
  /\ HasRoom /\ Len(L.tbclist) < MaxVars
  /\ LET s == PushStack(L, <<v>>)
         marked == [s EXCEPT !.tbclist = Append(@, Len(s.stack))]
     IN  L' = IF InC THEN SetCI(marked, [CI EXCEPT !.tbc = TRUE]) ELSE marked

OpClose(level) ==
  /\ InLau /\ level > CI.func /\ TbcFrom(L, level)
  /\ L' = lauF_close(SetCI(L, [CI EXCEPT !.pc = "close", !.level = level]),
                     level, "ok", TRUE, "close")

OpReturn(nres) ==
  /\ InLau
  /\ LET s == PushStack(L, [i \in 1..nres |-> "res"])
     IN  L' = IF TbcFrom(L, CI.func)
              THEN lauF_close(SetCI(s, [CI EXCEPT !.pc = "return", !.u2 = nres]),
                              CI.func + 1, "ktop", TRUE, "return")
              ELSE leaveframe(s, nres)

(* any instruction or API function may raise an error or run out of memory *)
RaiseError(e) == (InLau \/ InC) /\ L' = runerror(L, e)
MemoryError == (InLau \/ InC) /\ L' = throw(L, "mem")

----------------------------------------------------------------------------
(* API calls of a C function *)

(* mutant: a call with no continuation is made yieldable *)
callk_Yieldable(kind, k) ==
  InC /\ HasRoom /\ L' = Call(SetCI(L, [CI EXCEPT !.pc = "call", !.k = k]), 0, 0, kind)

callk(kind, k) ==
  /\ InC /\ HasRoom
  /\ L' = IF k /\ yieldable(L)
          THEN Call(SetCI(L, [CI EXCEPT !.pc = "call", !.k = TRUE]), 0, 0, kind)
          ELSE Call(At(L, "call"), 0, 1, kind)

pcallk(kind, k) ==
  /\ InC /\ HasRoom
  /\ LET func == Len(L.stack) + 1
     IN  L' = IF k /\ yieldable(L)
              THEN Call(SetCI(L, [CI EXCEPT !.pc = "call", !.k = TRUE,
                                            !.u2 = func, !.ypcall = TRUE]), 0, 0, kind)
              ELSE Call(rawrunprotected(At(L, "call"), "pcall", Len(L.ci), func, "ok"), 0, 1, kind)

(* lau_settop to a smaller top *)
settop(newtop) ==
  /\ InC /\ newtop > CI.func /\ newtop <= Len(L.stack)
  /\ L' = IF TbcFrom(L, newtop)
          THEN lauF_close(SetCI(L, [CI EXCEPT !.pc = "top", !.level = newtop]),
                          newtop, "ktop", FALSE, "top")
          ELSE SetTop(L, newtop)

yieldk(k) ==
  /\ InC
  /\ L' = IF yieldable(L)
          THEN throw(SetCI([L EXCEPT !.status = "yield"], [CI EXCEPT !.k = k, !.u2 = 0]),
                     "yield")
          ELSE runerror(L, message)

CReturn(nres) ==
  /\ InC
  /\ L' = poscall(PopC(PushStack(L, [i \in 1..nres |-> "res"])), nres)

----------------------------------------------------------------------------
(* lau_closethread: by the host, or by the coroutine itself *)

(* lauE_resetthread, up to the loop that closes the variables.  A coroutine that
   resets itself never returns to the C functions above its first handler, which
   are dropped from the C stack at once; 'nc' is what they leave in nCcalls. *)
resetthread(s, self) ==
  closeprotected(PushC([s EXCEPT !.ci = <<BaseCI>>, !.nny = 0, !.status = "ok"],
                       [t |-> "reset", self |-> self, nc |-> s.nc]),
                 2, IF s.status = "yield" THEN "ok" ELSE s.status)

closethread ==
  \/ Control(L) = "host" /\ L' = resetthread([L EXCEPT !.nc = 0, !.ret = <<"ok">>], FALSE)
  \/ InC /\ (NestedClose \/ Head(L.cs).t # "reset") /\ L' = resetthread([L EXCEPT !.cs = SubSeq(@, 1, BaseTry(L))], TRUE)

(* the rest of lauE_resetthread, once they are closed *)
resetdone(s, status) ==
  LET clean == IF status = "ok" THEN SetTop(s, 2) ELSE seterrorobj(s, status, 2)
  IN  IF Last(s.cs).self THEN throwbaselevel(PopC(clean), status)
      ELSE [PopC(clean) EXCEPT !.ret = IF status = "ok" THEN <<"ok">>
                                       ELSE <<status, Last(clean.stack)>>]

----------------------------------------------------------------------------
(* The loop of lauF_close *)

(* mutant: CLOSEKTOP is taken for a normal end of a block *)
prepcallclosemth_NoKTop(s, tbc, status) ==
  IF status \in {"ok", "ktop"} THEN SetTop(s, tbc + 1) ELSE seterrorobj(s, status, tbc + 1)

(* prepcallclosemth: what the stack holds when the method is pushed *)
prepcallclosemth(s, tbc, status) ==
  IF status = "ktop" THEN s
  ELSE IF status = "ok" THEN SetTop(s, tbc + 1)
  ELSE seterrorobj(s, status, tbc + 1)

CloseVar(kind) ==
  /\ Control(L) = "close" /\ TbcFrom(L, Last(L.cs).level)
  /\ LET loop == Last(L.cs)
         tbc == Last(L.tbclist)
         s == prepcallclosemth([L EXCEPT !.tbclist = Front(@)], tbc, loop.status)
         err == IF loop.status \in ErrorStatus THEN <<s.stack[tbc + 1]>> ELSE <<>>
         pushed == PushStack(s, <<"func", s.stack[tbc]>> \o err)
     IN  L' = ccall(pushed, Len(s.stack) + 1, 0, 1, IF loop.yy THEN 0 ELSE 1, kind)

(* the rest of finishpcallk after its lauF_close, and the continuation *)
pcallkdone(s, status, level) ==
  LET clean == seterrorobj(s, status, level)
  IN  PushC(SetCI(clean, [Last(s.ci) EXCEPT !.recst = "ok", !.ypcall = FALSE, !.pc = "run"]),
            [t |-> "cfn"])

CloseEnds ==
  /\ Control(L) = "close" /\ ~TbcFrom(L, Last(L.cs).level)
  /\ LET loop == Last(L.cs)
         s == PopC(L)
     IN  L' = CASE loop.then \in {"close", "top"} -> At(SetTop(s, loop.level), "run")
                [] loop.then = "return" -> leaveframe(s, CI.u2)
                [] loop.then = "poscall" -> moveresults(s, CI.u2)
                [] loop.then = "pcallk" -> pcallkdone(s, loop.status, loop.level)
                [] loop.then = "closep" -> s

----------------------------------------------------------------------------
(* C functions that go on when what they called returns *)

(* ccall returns to lau_callk, lau_pcallk, an instruction or a closing loop *)
CcallReturns ==
  /\ Control(L) = "ccall"
  /\ LET s == PopC([L EXCEPT !.nc = @ - Last(L.cs).inc, !.nny = @ - Last(L.cs).y])
     IN  L' = CASE Control(s) = "cfn" -> SetCI(s, [CI EXCEPT !.pc = "run", !.ypcall = FALSE])
                [] Control(s) = "exec" -> At(SetTop(s, Len(s.stack)), "run")
                [] OTHER -> s

(* a function run by lauD_rawrunprotected returns to it *)
TryReturns ==
  /\ Control(L) = "try"
  /\ LET try == Last(L.cs)
         s == Unprotect(L, Len(L.cs))
     IN  L' = CASE try.by \in {"resume", "recover"} -> [s EXCEPT !.ret = <<"ok">>]
                [] try.by = "pcall" -> At(s, "run")
                [] try.by = "closep" /\ Control(s) = "cfn" ->
                     At(seterrorobj(s, try.status, try.level), "run")
                [] try.by = "closep" /\ Control(s) = "reset" -> resetdone(s, try.status)

(* finishCcall *)
finishCcall(s) ==
  LET frame == Last(s.ci)
      continue == PushC(SetCI(s, [frame EXCEPT !.pc = "run", !.ypcall = FALSE]), [t |-> "cfn"])
  IN  IF frame.clsret THEN poscall(s, frame.u2)
      ELSE IF frame.ypcall /\ frame.recst # "ok"
           THEN lauF_close(s, frame.u2, frame.recst, TRUE, "pcallk")
      ELSE continue

(* lauV_finishOp and lauV_execute: the instruction takes its result, or is
   repeated if it was closing variables; 'add' is not among those it knows *)
finishOp(s) ==
  LET frame == Last(s.ci)
      exec == PushC(s, [t |-> "exec"])
  IN  CASE frame.pc = "index" -> At(SetTop(exec, Len(s.stack)), "run")
        [] frame.pc = "close" -> lauF_close(exec, frame.level, "ok", TRUE, "close")
        [] frame.pc = "return" -> lauF_close(exec, frame.func + 1, "ktop", TRUE, "return")
        [] OTHER -> At(exec, "run")

unroll ==
  /\ Control(L) = "unroll"
  /\ L' = IF Len(L.ci) = 1 THEN PopC(L)
          ELSE IF CI.kind = "C" THEN finishCcall(L) ELSE finishOp(L)

----------------------------------------------------------------------------
(* lau_resume, by a host that is in no C call itself; it passes 'nargs' values
   to a suspended coroutine, and a function to one that is not running *)

Resumed == rawrunprotected([L EXCEPT !.nc = 1, !.nny = 0, !.status = "ok", !.ret = <<"ok">>],
                           "resume", 0, 0, "ok")

Start(kind) ==
  /\ Control(L) = "host" /\ L.status = "ok" /\ Len(L.ci) = 1
  /\ L' = ccall([Resumed EXCEPT !.stack = <<"nil", "func">>], 2, MULTRET, 0, 0, kind)

Continue(nargs) ==
  /\ Control(L) = "host" /\ L.status = "yield" /\ (CI.k => nargs = 0)
  /\ LET s == PushC(PushStack(Resumed, [i \in 1..nargs |-> "res"]), [t |-> "unroll"])
     IN  L' = IF CI.k THEN PushC(s, [t |-> "cfn"]) ELSE poscall(s, nargs)

----------------------------------------------------------------------------
Next ==
  \/ \E kind \in {"Lau", "C"} :
       \/ Start(kind) \/ OpCall(kind) \/ CloseVar(kind)
       \/ \E op \in {"index", "add"} : OpMeta(kind, op)
       \/ \E k \in BOOLEAN : callk(kind, k) \/ pcallk(kind, k)
  \/ \E v \in Var \ ToSet(L.stack) : ToClose(v)
  \/ \E i \in 1..Len(L.tbclist) : OpClose(L.tbclist[i])
  \/ \E newtop \in 1..Len(L.stack) : settop(newtop)
  \/ \E n \in 0..1 : OpReturn(n) \/ CReturn(n) \/ Continue(n)
  \/ \E e \in Error : RaiseError(e)
  \/ \E k \in BOOLEAN : yieldk(k)
  \/ MemoryError \/ closethread
  \/ CloseEnds \/ CcallReturns \/ TryReturns \/ unroll

Spec == Init /\ [][Next]_L
----------------------------------------------------------------------------
(* What a state means in terms of LauScope *)

Handlers(s, by, i) ==
  {j \in 1..Len(s.cs) : s.cs[j].t = "try" /\ s.cs[j].by = by /\ s.cs[j].ci = i}
CallTop(s, i) == IF i < Len(s.ci) THEN s.ci[i + 1].func ELSE Len(s.stack) + 1
Older(s, p) == Max({0} \cup {a \in 1..Len(s.tbclist) : s.tbclist[a] < p})

(* The closing after an error in a call by frame i, or after a reset: in
   lauD_closeprotected, or resumed by finishpcallk. *)
NoUnwinding == [level |-> 0, status |-> "none"]
Unwinding(s, i) ==
  LET closeps == Handlers(s, "closep", i)
      recst == s.ci[i].recst
  IN  IF s.ci[i].ypcall /\ recst # "ok" THEN [level |-> s.ci[i].u2, status |-> recst]
      ELSE IF closeps = {} THEN NoUnwinding
      ELSE [level |-> s.cs[Max(closeps)].level, status |-> s.cs[Max(closeps)].status]

ProtectedCall(s, i) ==
  \/ s.ci[i - 1].ypcall /\ s.ci[i - 1].recst = "ok"
  \/ Handlers(s, "pcall", i - 1) # {}

Phase(frame, closing) ==
  IF closing # NoUnwinding THEN "caught"
  ELSE IF frame.pc \in {"close", "top"} THEN "block"
  ELSE IF frame.clsret \/ frame.pc = "return" THEN "leave"
  ELSE "run"
Keep(s, i, phase, closing) ==
  CASE phase = "caught" -> Older(s, closing.level)
    [] phase = "block" -> Older(s, s.ci[i].level)
    [] phase = "leave" -> Older(s, s.ci[i].func)
    [] phase = "run" -> 0
(* the error object is always on the stack right below the close method *)
Handled(s, i, closing) ==
  IF closing.status \in {"none", "ok"} THEN <<>>
  ELSE IF closing.status = "mem" THEN <<"mem">> ELSE <<s.stack[CallTop(s, i) - 1]>>

ActivationOf(s, i) ==
  LET closing == Unwinding(s, i)
      phase == Phase(s.ci[i], closing)
  IN  [args |-> s.ci[i].args, protected |-> i > 1 /\ ProtectedCall(s, i),
       first |-> Older(s, s.ci[i].func), phase |-> phase, keep |-> Keep(s, i, phase, closing),
       err |-> Handled(s, i, closing)]

Activations(s) ==
  IF s.status \in ErrorStatus
  THEN <<[args |-> <<>>, protected |-> FALSE, first |-> 0, phase |-> "dead", keep |-> 0,
          err |-> <<Last(s.stack)>>]>>
  ELSE [i \in 1..Len(s.ci) |-> ActivationOf(s, i)]
Pending(s) == [a \in 1..Len(s.tbclist) |-> s.stack[s.tbclist[a]]]

----------------------------------------------------------------------------
(* Invariants *)

Status == ErrorStatus \cup {"ok", "yield"}
StackValue == Var \cup ErrorValue \cup {"nil", "func", "res"}

(* The state has its type: a CallInfo for each frame, positions inside the stack,
   and C functions of the kinds above. *)
TypeOK ==
  /\ L.status \in Status /\ {L.nc, L.nny} \subseteq 0..MaxCcalls
  /\ L.ci[1] = BaseCI /\ Len(L.ci) <= MaxFrames
  /\ L.stack \in Seq(StackValue) /\ Len(L.tbclist) <= MaxVars
  /\ \A i \in 2..Len(L.ci) : L.ci[i] \in
       [kind : {"Lau", "C"}, func : 2..Len(L.stack), want : {0, 1, MULTRET}, fresh : BOOLEAN,
        args : Seq(StackValue), pc : {"run", "call", "index", "add", "close", "return", "top"},
        level : Nat, k : BOOLEAN, ypcall : BOOLEAN, recst : Status, tbc : BOOLEAN,
        clsret : BOOLEAN, u2 : Nat]
  /\ \A i \in 1..Len(L.cs) :
       L.cs[i].t \in {"try", "ccall", "exec", "cfn", "unroll", "close", "reset"}

(* what is below a reset on the C stack is never returned to *)
LastReset(s) == Max({0} \cup {i \in 1..Len(s.cs) : s.cs[i].t = "reset"})

(* nCcalls counts the C calls under way and the non-yieldable ones among them,
   whatever errors cut the C stack (lauD_rawrunprotected restores it); a
   coroutine that closes itself starts again from no non-yieldable call. *)
CallsCounted ==
  LET reset == LastReset(L)
      calls == {i \in (reset + 1)..Len(L.cs) : L.cs[i].t = "ccall"}
      before == IF reset > 0 THEN L.cs[reset].nc ELSE 1
  IN  Control(L) \notin {"host", "try"} =>
        /\ L.nc = before + Cardinality({i \in calls : L.cs[i].inc = 1})
        /\ L.nny = Cardinality({i \in calls : L.cs[i].y = 1})

(* While the running function may yield, no C function that a yield would skip waits for
   a result: every handler is one that lau_resume or precover put there, and
   every frame of a C function below the running one has a continuation or is
   only closing its variables (the assertion of finishCcall, ldo.c). *)
YieldIsSafe ==
  (Control(L) \in {"cfn", "exec"} /\ yieldable(L)) =>
    /\ \A i \in Tries(L) : L.cs[i].by \in {"resume", "recover"}
    /\ \A i \in 2..(Len(L.ci) - 1) : L.ci[i].kind = "C" => L.ci[i].k \/ L.ci[i].clsret

(* A marked slot keeps its variable until it is closed: neither results, nor an
   error object, nor the call of a close method overwrites it (tbclist). *)
SlotsKept ==
  \A i \in 1..Len(L.tbclist) :
    /\ L.tbclist[i] <= Len(L.stack) /\ L.stack[L.tbclist[i]] \in Var
    /\ i > 1 => L.tbclist[i - 1] < L.tbclist[i]

(* The results of a function wait on top of its frame until its variables are
   closed, even if a close method yields (CIST_CLSRET, OP_RETURN). *)
ResultsWait ==
  (L.status \notin ErrorStatus) =>
    \A i \in 2..Len(L.ci) :
      (L.ci[i].clsret \/ L.ci[i].pc = "return") /\ L.ci[i].u2 = 1
        => L.stack[CallTop(L, i) - 1] = "res"

(* lauV_execute returns to a Lau function only: the caller of a Lau function that
   is not marked as fresh is one itself (CIST_FRESH). *)
FreshFrames ==
  \A i \in 2..Len(L.ci) :
    (L.ci[i].kind = "Lau" /\ ~L.ci[i].fresh) => L.ci[i - 1].kind = "Lau"

(* A coroutine that ends with an error hands an error object to its host
   (the assertion of lauD_seterrorobj that the object is not nil). *)
ErrorHasObject == L.ret[1] \in ErrorStatus => L.ret[2] # "nil"

(* Only a few instructions can be interrupted by a yield, and lauV_finishOp knows
   all of them (the assertion of its default case). *)
FinishOpKnows ==
  Control(L) = "unroll" /\ CI.kind = "Lau" => CI.pc \in {"call", "index", "close", "return"}
=============================================================================
