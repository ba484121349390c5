------------------------------- MODULE LauMap -------------------------------
(***************************************************************************)
(* What a table promises (the manual on tables and on 'next'): a finite    *)
(* function from keys to values, and a traversal that returns every entry  *)
(* once although values change and entries are removed meanwhile.  Only a  *)
(* new key makes a traversal in progress meaningless.                      *)
(***************************************************************************)
EXTENDS Naturals, FiniteSets

CONSTANTS Key, Value

VARIABLES map,      \* the entries
          on, seen, \* a traversal, and the keys it has returned
          entry     \* the entry it has returned last, <<>> before the first
mapVars == <<map, on, seen, entry>>

Init == map = << >> /\ on = FALSE /\ seen = {} /\ entry = << >>

Stop == on' = FALSE /\ seen' = {} /\ entry' = << >>
Keep == UNCHANGED <<on, seen, entry>>
Put(k, v) == map' = [x \in DOMAIN map \cup {k} |-> IF x = k THEN v ELSE map[x]]
Update == \E k \in DOMAIN map, v \in Value : Put(k, v) /\ Keep
Insert == \E k \in Key \ DOMAIN map, v \in Value : Put(k, v) /\ Stop
Remove == \E k \in DOMAIN map : map' = [x \in DOMAIN map \ {k} |-> map[x]] /\ Keep
Begin == ~on /\ on' = TRUE /\ seen' = {} /\ entry' = << >> /\ UNCHANGED map
Visit == /\ on
         /\ \E k \in DOMAIN map \ seen : seen' = seen \cup {k} /\ entry' = <<k, map[k]>>
         /\ UNCHANGED <<map, on>>
End == on /\ DOMAIN map \subseteq seen /\ Stop /\ UNCHANGED map

Next == Update \/ Insert \/ Remove \/ Begin \/ Visit \/ End
Spec == Init /\ [][Next]_mapVars
=============================================================================
