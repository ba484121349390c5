----------------------------- MODULE LauOpcodes -----------------------------
(***************************************************************************)
(* Instructions (lopcodes.h, lopcodes.c).  Signed arguments are kept as    *)
(* the numbers they stand for; Bx and sJ are in B and A.                   *)
(***************************************************************************)
EXTENDS Integers, Sequences

CONSTANTS MAXARG_A, MAXARG_C, MAXARG_vC, MAXARG_Bx, MAXINDEXRK
ASSUME MaxArgs == {MAXARG_A, MAXARG_C, MAXARG_vC, MAXARG_Bx, MAXINDEXRK} \subseteq Nat \ {0}

NO_REG == MAXARG_A
OFFSET_sC == MAXARG_C \div 2
OFFSET_sBx == MAXARG_Bx \div 2
MULTRET == -1

Ins(o, a, b, c, k) == [op |-> o, A |-> a, B |-> b, C |-> c, k |-> k]

KOp(opr) == opr \o "K"

ArithOps == {"ADD", "SUB", "MUL", "MOD", "POW", "DIV",
             "ADDK", "SUBK", "MULK", "MODK", "POWK", "DIVK", "ADDI"}
testTMode(op) == op \in {"EQ", "LT", "LE", "EQK", "EQI", "LTI", "LEI", "GTI", "GEI",
                         "TEST", "TESTSET"}
testMMMode(op) == op \in {"MMBIN", "MMBINI", "MMBINK"}
testAMode(op) ==
  op \in ArithOps \cup {"MOVE", "LOADI", "LOADF", "LOADK", "LOADKX", "LOADFALSE",
     "LFALSESKIP", "LOADTRUE", "LOADNIL", "GETUPVAL", "GETTABUP", "GETTABLE", "GETI",
     "GETFIELD", "NEWTABLE", "SELF", "UNM", "NOT", "LEN", "TESTSET", "CALL", "TAILCALL",
     "FORLOOP", "FORPREP", "TFORLOOP", "CLOSURE"}
isOT(i) == i.op = "TAILCALL" \/ (i.op = "CALL" /\ i.C = 0)
isIT(i) == i.op \in {"CALL", "TAILCALL", "RETURN", "SETLIST"} /\ i.B = 0
=============================================================================
