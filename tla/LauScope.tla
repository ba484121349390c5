------------------------------ MODULE LauScope ------------------------------
(***************************************************************************)
(* What Lau promises about calls, errors and to-be-closed variables, in a  *)
(* language with neither a C stack nor coroutines:                         *)
(*                                                                         *)
(*   - an error goes to the innermost protected call that is active, and   *)
(*     abandons every activation down to it;                               *)
(*   - an activation that ends, normally or not, has the close method of   *)
(*     each of its to-be-closed variables called exactly once, in reverse  *)
(*     order, with the value of the variable;                              *)
(*   - close methods called because of an error also get that error, and   *)
(*     an error inside one of them replaces it for those still to come;    *)
(*   - a coroutine that dies or is suspended can be reset: its variables   *)
(*     are closed in the same way.                                         *)
(*                                                                         *)
(* Yields do not appear: to the functions of the coroutine they take no    *)
(* time.  LauCall, the machine of ldo.c and lfunc.c, implements this.      *)
(***************************************************************************)
EXTENDS Naturals, Sequences, SequencesExt, FiniteSetsExt

CONSTANTS Var,     \* values with a close method
          Error    \* error values

VARIABLES acts,    \* the activations, outermost first; the first one is the host's
          vars     \* the to-be-closed variables of them all, oldest first

(* An activation: what it was called with; whether the call is protected; how
   many variables are older than it; and why it closes variables: "run" (it does
   not), "block" or "leave" (they go out of scope), "caught" (its protected call
   has failed with 'err', or the coroutine is being reset), or, of the host,
   "dead" (nothing caught the error); it closes all but the oldest 'keep'. *)
Activation(args, protected) ==
  [args |-> args, protected |-> protected, first |-> Len(vars), phase |-> "run", keep |-> 0,
   err |-> <<>>]
Host(phase, err) ==
  <<[args |-> <<>>, protected |-> FALSE, first |-> 0, phase |-> phase, keep |-> 0, err |-> err]>>

Current == Last(acts)
Alter(phase, keep) ==
  /\ acts' = [acts EXCEPT ![Len(acts)] = [Current EXCEPT !.phase = phase, !.keep = keep, !.err = <<>>]]
  /\ vars' = vars
IsRunning == Len(acts) > 1 /\ Current.phase = "run"

Enter(protected) ==
  /\ Current.phase = "run" /\ (Len(acts) = 1 => ~protected)
  /\ acts' = Append(acts, Activation(<<>>, protected)) /\ vars' = vars
Declare(v) == IsRunning /\ vars' = Append(vars, v) /\ acts' = acts

EndBlock(keep) ==
  IsRunning /\ Current.first <= keep /\ keep < Len(vars) /\ Alter("block", keep)
Leave ==
  /\ IsRunning
  /\ \/ Alter("leave", Current.first)
     \/ Len(vars) = Current.first /\ acts' = Front(acts) /\ vars' = vars

(* activations 'as' after error e: the innermost one that has called under
   protection, or that already closes variables because of an error, closes the
   variables of all those above it, with e *)
Catching(as) == {i \in 1..Len(as) : as[i].phase = "caught" \/ (i < Len(as) /\ as[i + 1].protected)}
AfterError(as, e) ==
  LET i == Max(Catching(as))
      keep == IF as[i].phase = "caught" THEN as[i].keep ELSE as[i + 1].first
  IN  IF Catching(as) = {} THEN Host("dead", <<e>>)
      ELSE Append(SubSeq(as, 1, i - 1),
                  [as[i] EXCEPT !.phase = "caught", !.keep = keep, !.err = <<e>>])

(* an error in an activation, or in calling a function under protection *)
Fail(e) ==
  /\ IsRunning /\ vars' = vars
  /\ \/ acts' = AfterError(acts, e)
     \/ acts' = AfterError(Append(acts, Activation(<<>>, TRUE)), e)

(* the close method of the last variable is called, or there is no room to
   call it, which is an error like one in the method *)
Closing == Current.phase \in {"block", "leave", "caught"}
Method == [Activation(<<Last(vars)>> \o Current.err, FALSE) EXCEPT !.first = Len(vars) - 1]
CallClose ==
  /\ Closing /\ Len(vars) > Current.keep /\ vars' = Front(vars)
  /\ acts' = Append(acts, Method) \/ \E e \in Error : acts' = AfterError(acts, e)

Closed ==
  /\ Closing /\ Len(vars) = Current.keep
  /\ \/ Current.phase # "leave" /\ Alter("run", 0)
     \/ Current.phase = "leave" /\ acts' = Front(acts) /\ vars' = vars
     \/ Len(acts) = 1 /\ Current.err # <<>> /\ acts' = Host("dead", Current.err) /\ vars' = vars

(* a reset of the coroutine, by itself or by another one; nothing catches the
   errors of close methods but the reset itself.  A coroutine that resets itself
   with an error stays dead (Closed). *)
Reset ==
  /\ acts' = Host("caught", IF Current.phase = "dead" THEN Current.err ELSE <<>>)
  /\ vars' = vars

Next ==
  \/ Leave \/ CallClose \/ Closed \/ Reset
  \/ \E protected \in BOOLEAN : Enter(protected)
  \/ \E v \in Var : Declare(v)
  \/ \E keep \in 0..Len(vars) : EndBlock(keep)
  \/ \E e \in Error : Fail(e)

Init == acts = Host("run", <<>>) /\ vars = <<>>
Spec == Init /\ [][Next]_<<acts, vars>>

=============================================================================
