---------------------------- MODULE LauCallScope ----------------------------
(***************************************************************************)
(* LauCall implements LauScope.  What a state of LauCall means to LauScope *)
(* is kept in two variables, which follow the state and change nothing.    *)
(***************************************************************************)
EXTENDS LauCall

VARIABLES acts, vars

Meant(s) == acts = Activations(s) /\ vars = Pending(s)
ScopeInit == Init /\ Meant(L)
ScopeNext == Next /\ \E s \in {L'} : acts' = Activations(s) /\ vars' = Pending(s)
ScopeSpec == ScopeInit /\ [][ScopeNext]_<<L, acts, vars>>

Scope == INSTANCE LauScope WITH Error <- ErrorValue

(* Calls, errors, yields and variables behave as LauScope says: an error reaches
   the innermost protected call, and each variable is closed once, in order,
   with the right error, whatever yields happen (ldo.c, lauF_close). *)
ImplementsScope == Scope!Spec
=============================================================================
