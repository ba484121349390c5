# A verification project for Lau

Lau is a dialect of Lua 5.5: a register-based virtual machine, a compiler, an
incremental and a generational garbage collector, coroutines, and the standard
libraries, in C (`src/*.c`, `src/*.h`). This directory holds TLA+ models of the
parts of that code whose correctness depends on the order in which things
happen, the TLC runs that check them, and TLAPS proofs about them.

File and line references are to the repository; `PROJECT.json` maps every
definition of the models to the lines it stands for.

## 1. Inventory

| part | state it keeps | operations | talks to |
|---|---|---|---|
| Incremental collector (`lgc.c`, `lgc.h`) | `gcstate`, `currentwhite`, the object lists `allgc`, `finobj`, `tobefnz`, `fixedgc`, the gray lists, `sweepgc`, `twups`, `gcstp`, debts | `singlestep` and its phases, barriers, `lauC_checkfinalizer`, `GCTM`, `lauC_fullgc` | called by every allocation check and every store; calls finalizers, that is, the program |
| Generational collector (`lgc.c` 1092-1485) | ages, `survival`, `old1`, `reallyold`, `firstold1` and the same for `finobj`; GC parameters | `youngcollection`, `fullgen`, `lauC_changemode`, `minor2inc`, `checkminormajor` | same lists, same barriers |
| Weak tables (`lgc.c` 487-628, 755-826) | `weak`, `ephemeron`, `allweak` | `traverseephemeron`, `convergeephemerons`, `clearbykeys`, `clearbyvalues` | part of `atomic` |
| Strings (`lstring.c`) | string table, string cache | `internshrstr`, `lauS_resize`, `lauS_new`, `lauS_remove` | resurrects what the collector has condemned |
| Closures, upvalues (`lfunc.c`) | `openupval` of each thread, `tbclist` | `lauF_findupval`, `lauF_closeupval`, `lauF_close` | stack slots with no barrier, upvalues with one |
| Calls, errors, coroutines (`ldo.c`, `lstate.c`) | `ci` chain, stack, `nCcalls`, `errorJmp`, `status` | `lauD_call`, `lauD_pcall`, `lau_resume`, `lau_yieldk`, `lauD_closeprotected`, `lau_closethread` | every C function and every Lau function |
| Closing a state (`lstate.c`, `lgc.c`) | `gcstp` | `close_state`, `lauC_freeallobjects` | runs all finalizers |
| Tables (`ltable.c`) | array and hash parts, `lastfree` | `lauH_newkey`, `rehash`, `lauH_next`, `lauH_get*` | barriers in callers |
| Memory (`lmem.c`) | `GCdebt` | `lauM_realloc_`, `tryagain`, `lauM_growaux_` | starts emergency collections anywhere |
| Lexer, parser (`llex.c`, `lparser.c`) | `LexState`, `FuncState`, `Dyndata` | one function per construct | anchors what it creates against the collector |
| Code generator (`lcode.c`) | `pc`, `freereg`, jump lists, constants | `lauK_*` | writes prototypes |
| Virtual machine (`lvm.c`, `ltm.c`) | none of its own | `lauV_execute`, `lauV_finishget`, `lauV_finishset`, arithmetic, for loops | everything |
| C API (`lapi.c`) | none of its own | `lau_*` | everything |
| Auxiliary library (`lauxlib.c`) | buffers, references | `lauL_ref`, `lauL_prepbuffsize`, ... | API only |
| Precompiled chunks (`ldump.c`, `lundump.c`, `lzio.c`) | position in the stream, table of saved strings | `lauU_dump`, `lauU_undump` | strings, prototypes |
| Libraries, interpreter (`l*lib.c`, `lau.c`) | registry entries | one C function per name | API only |

Behaviours that are hard, in the order of what they could damage:

1. *The collector runs between any two allocations of the program.* Memory
   safety rests on an invariant over colors that some fifteen call sites of
   barriers keep, and that threads, open upvalues, strings and the registry are
   exempted from, each for its own reason.
2. *Objects change lists while the lists are swept*: `lauC_checkfinalizer`,
   `udata2finalize`, new objects, strings that come back.
3. *Finalizers run the program in the middle of a collection*, and an allocation
   inside them may start an emergency collection.
4. *The generational mode* relies on ages being raised in exactly the right
   collection.
5. *Errors and yields* cut through protected calls, close methods and finalizers.
6. *Partial failure*: an allocation that fails inside a resize, an error inside
   the parser, an error in a close method.
7. *Arithmetic at the ends of the integers*: for loops, shifts, division.

The hazards, each at its line, are listed in `PROJECT.json`.

What makes each part correct:

- collectors: nothing reachable is freed; everything unreachable is freed in the
  end; each finalizer is called once after its object is lost; side tables
  (string cache, `twups`) never hold freed objects; weak entries go exactly when
  their referent does;
- strings: equal short strings are the same object, through growth, shrinking,
  failure to allocate and resurrection;
- upvalues and calls: closures that capture one variable share one upvalue; each
  to-be-closed variable is closed once, in reverse order, whatever fails or
  yields; call counters are restored;
- closing: every object is freed once, every finalizer called once;
- tables: a key is found exactly when it was inserted and not removed; a
  traversal visits every key once though fields are cleared meanwhile;
- parser and generator: a chunk compiles to what its source means; registers
  are balanced; what is allocated is released on every path; names and lines in
  messages are those of the source;
- precompiled chunks: what is written is read back the same, what is cut is refused;
- arithmetic: operators agree with the mathematical definition modulo 2^w; a for
  loop runs as often as its definition says.

## 2. Modules

    LauReach           reachability in a graph, without recursion
    LauHeap            abstract: what a collector promises
    LauGC              the incremental collector and the program over it
      MCLauGC          symmetry for one of its runs
      LauGC_proofs     lemmas on reachability, the inductive invariant, that LauGC refines LauHeap
    LauGen             the generational collector, changes of mode, closing
    LauScope           abstract: what calls, errors and variables to close promise
    LauCall            calls, errors, yields and closing of one coroutine
      LauCallScope     the state of LauCall as LauScope sees it, and that one implements the other
      MCLauCall        symmetry
      LauCallInv       the inductive invariant of LauCall
      LauCall_lemmas   sequences, the counts of the C stack, what keeps parts of the invariant
      LauCall_calls    throwing and catching, calls, returns
      LauCall_steps    one lemma per action
      LauCall_proofs   closing of variables, the initial state, the theorems
      LauCallScope_lemmas  what errors, calls and marked slots mean to LauScope
      LauCallScope_proofs  returns, closing and resets; LauCall refines LauScope

    LauInteger         integers that wrap around, numeric loops over them
      LauFor           one such loop, executed, and what it promises
      LauFor_proofs    its inductive invariant and theorem
    LauNumber          integers and floats, their operations (EXTENDS LauInteger)
    LauOpcodes         instructions
    LauCode            the code generator            (EXTENDS LauNumber, LauOpcodes)
    LauParser          the parser                    (EXTENDS LauCode)
    LauDebug           lines and names of values     (EXTENDS LauCode)
    LauVM              the interpreter               (EXTENDS LauDebug)
    LauMeaning         abstract: what a syntax tree means (EXTENDS LauVM for values)
    LauDump            precompiled chunks
      MCLauCompile     programs, their tokens, and the properties

    LauMap             abstract: a finite map that can be traversed
    LauTable           tables                        (EXTENDS LauNumber)
    LauTabLib          the library of tables, references (EXTENDS LauTable)
    LauStrings         the string table
      MCLauData        one of these, or a loop of LauFor, at a time, and the properties

### LauGC

Variables have the names of the fields of `global_State` they stand for:
`gcstate`, `currentwhite`, `gray`, `grayagain`, `twups`, `sweepgc`, `finobj`,
`tobefnz`, `gcemergency`, `cache` (`strcache`). The others are

- `color`: the color bits of `marked`, `"free"` where no object is;
- `refs`: what an object refers to: fields and metatable of a table, upvalues and
  constants of a closure, the value of an upvalue, the stack of a thread;
- `owner`: the thread of an open upvalue (`upisopen`), or `Nobody`. The slot that
  an open upvalue names is part of the stack of its thread (operator `Stack`);
- `tosweep`: what follows `sweepgc` in the list being swept; `tolive`: inside
  `sweeptolive`;
- `roots`: the registry and `mt[]`; `running`: the current thread; `fin`: a
  finalizer runs (`GCSTPGC`); `goals`: the calls of `lauC_runtilstate` still to
  be made by the full collections under way.

Actions of the program are one per way of creating, reading or storing a
reference: `NewObject`, `NewString` (`lauS_newlstr`), `NewCString` (`lauS_new`
with the cache), `Load`, `Pop`, `XMove`, `SetField`, `ClearField`, `SetRoot`,
`ClearRoot`, `SetMetatable` (with `lauC_checkfinalizer`), `FindUpval`,
`SetUpvalueOf`, `SetConstant`, `SetUpval`, `SetLocal`, `CloseUpval`, `Resume`,
`Yield`, `EndFinalizer`, and `FullGC` (called by the program, or emergency).
Actions of the collector are the cases of `singlestep`: `Restart`, `Propagate`,
`EnterAtomic`, `Atomic`, `Sweep`/`SweepEnd`/`NextList`, `FinishSweep`,
`CallFinalizer`/`FinishCycle`; and `ReachGoal`, the return of `lauC_runtilstate`.

Who may step is in `ProgramTurn`, `CollectorTurn` and `StepTurn`: `lauC_step`
runs between any two actions of the program; a full collection holds the program
until its last goal is reached, except inside the finalizers it calls; while a
finalizer runs `lauC_step` does nothing, but an emergency collection may start.

What is abstracted, and why that keeps the properties meaningful:

- One kind stands for all objects with the same discipline: tables stand also for
  userdata (backward barrier), closures for prototypes and C closures (forward
  barrier). `HasGC` says which tables, used as metatables, have `__gc`.
- The order of a list is chosen freely at each step (`tosweep` is a set with a
  cursor): a superset of the orders of the code. What does matter, whether
  `sweepgc` points into an object that leaves the list, is kept.
- One object is swept per step, and a step may be taken between any two actions
  of the program. The code sweeps `GCSWEEPMAX` objects per step and steps only when
  the debt says so: again a superset.
- `Atomic` is one action because the code has no interleaving there
  (`gcstopem`); its stages keep the order of the code, each a closure under
  references inside the set that is still white, which is what
  `propagateall` computes.
- A full collection leaves the marking to `Atomic`, as `fullinc` does (`fast`).
- Nil is the absence of a reference; a local variable that an upvalue captures
  always holds an object.
- Coroutines nest one level deep (`Resume` is from the main thread).
- The finalizer's argument stays on the stack until the program pops it: a
  superset of the states in which it is still there.
- Fixed objects are never collected and refer to nothing; they are left out.
- `TightStack` lets `lauD_checkminstack` fail, in which case the finalizers
  left wait for another cycle.
- Stopping the collector (`lau_gc(LAU_GCSTOP)`) only means that no step
  is taken, which safety allows at any time.

### LauHeap

Two actions: the program may create objects and change references among those it
reaches; the collector may free what is not reached. Strings may come back, as
the program can always ask for the same characters. `ImplementsHeap` says that
`LauGC` refines it under `alive <- Allocated`, `edges <- Edges`,
`roots <- AllRoots`.

### LauCall

The single variable `L` is the `lau_State` of a coroutine: `ci` (the chain of
`CallInfo`, `base_ci` first), `stack` (up to `L->top`), `tbclist` (positions of
marked slots), `status`, `nc` and `nny` (the two halves of `nCcalls`), and `cs`,
the C stack it runs on. C functions that the code calls and that call the program
cannot be one action each, so `cs` says which of them are waiting: the last entry
is the function in control. Operators with the names of C functions
(`seterrorobj`, `precover`, `ccall`, `moveresults`, ...) take a state and return
the next one, and each action is a composition of them, as the calls are in the
code. A `longjmp` cuts `cs` at the topmost `try` entry; what is lost and what is
restored (`nCcalls` by `lauD_rawrunprotected`, `ci` by `lauD_pcall` and
`lauD_closeprotected`) is as in the code. A yield empties `cs` and leaves `ci` and
the stack, from which `unroll`, `finishCcall`, `finishpcallk` and `finishOp`
continue.

Functions of the program are arbitrary: a Lau function calls (`OpCall`), triggers a
metamethod (`OpMeta`), marks a variable (`ToClose`), ends a block (`OpClose`),
returns (`OpReturn`) or fails (`RaiseError`, `MemoryError`); a C function uses
`callk`, `pcallk` (with or without a continuation), `yieldk`, `settop`, `ToClose`,
`CReturn`, fails, or closes its own coroutine. The host resumes (`Start`,
`Continue`) and closes (`closethread`). Running out of stack (`MaxFrames`) and of C
calls (`MaxCcalls`) are errors raised where the code checks for them.

Abstracted: values on the stack are the kinds that matter (a function, a result, a
variable, an error object); the top of a Lau frame is its first free register;
`args` of a frame records what it was called with, `pc` and `level` stand for the
saved program counter. A coroutine that closes itself drops from `cs` at once the C
functions that `lauD_throwbaselevel` is going to skip; only their count stays. Left
out: message handlers (`errfunc`), and with them `lauD_errerr`, hooks, tail calls,
`__call`, resizing of the stack, the main thread outside coroutines, `lau_closeslot`.
A resumed continuation is given no values (a bound; a plain resumption is given 0
or 1), and two marked variables never hold the same value.

### LauScope

A stack of activations and nothing else: no C stack, no counters, no yields. An
activation has the variables it must close and why it is closing them. The mapping
is in `LauCall`: `Activations` has one activation for each frame, and says from the frame and the
handlers on the C stack why it closes variables (`Phase`), which of them it keeps, and the
error it does so with; `Pending` has the values of the marked slots. `LauCallScope` keeps both in
variables of their own, so that TLC evaluates them once per state (`ScopeSpec`; the properties of
`LauCall` hold of it as they do of `Spec`). The mapping states, among others, that the error
object is always found on the stack right below the close method that runs, and that a
function whose call was protected knows which variables are older than it.

`LauScope` divides one list of variables among the activations by their numbers (`first`, `keep`),
as the code does by positions on the stack: an activation never declares below what it was
called with, and an error leaves to the one that catches it all variables above its own.

### LauGen

`g` is a record with the fields of `global_State` and of object headers that the
generational mode uses, `refs` what objects refer to, `fin` whether a finalizer runs,
`goals` what the collector goes on with when none does. Here the lists are sequences
in their order, because ages divide them: `survival`, `old1`, `reallyold`,
`firstold1` and the three of `finobj` name the object they point to. Functions of
`lgc.c` are operators from `g` to `g` with their names (`sweepgen`, `markold`,
`correctgraylists`, `atomic2gen`, `minor2inc`, `checkfinalizer`, ...).

Actions are what can happen between two steps of the program: `YoungCollection`,
`IncStep` (of a major collection), `BackToMinor`, `Generational`, `Incremental`, `FullGC`,
`Emergency`, `Close` and `FreeAll`; `ToState`, `ToGen`, `CallFinalizer`, `EndFinalizers` are
the rest of a call that finalizers have interrupted.

Abstracted: the choice between minor and major collections, made by counts of bytes in the
code, is free; whites are "white" and "otherwhite", whose names change over at the flip;
what a finalizer leaves on the stack stays until the program pops it; objects are tables
and the main thread. What the incremental mode alone does is left to `LauGC`: a program in that
mode takes no steps here unless `Requests` has `"step"`, and full collections that are those of
the incremental mode are not repeated. Lists are shorter than `GCSWEEPMAX`, so that one step
sweeps a list.

### LauInteger, LauFor

`LauInteger` has the integer arithmetic modulo 2^w, `forlimit`, `forprep` and the counting of
`OP_FORLOOP` over registers; limits that are floats are fractions, with the infinities and NaN.
`LauFor` executes one loop from any operands, an instruction a step, and counts how often its
body has been entered; `LoopsExactly` says that these are the integers of the
mathematical definition, no more and no fewer, with no wrap-around.

### LauNumber, LauOpcodes, LauCode, LauParser

The compiler is a function from tokens to a prototype or a message, as in the code:
`LauParser` has one operator for each function of `lparser.c` that decides something,
over a record with the fields of `LexState`, `FuncState` (linked by nesting) and `Dyndata`;
`LauCode` has those of `lcode.c` over a `FuncState`, with expression descriptors and jump
lists threaded through the code as in the source. Operand widths (`MAXARG_*`), the limits of
line information and the width of numbers are constants, small in the run, so that the long
forms of instructions (`LOADKX`, `EXTRAARG`, absolute lines, constants that do not fit) occur
in short programs. Gotos, bitwise operators and the warnings about repeated keys are left out,
and `...` is accepted in the main function only (`parlist` of the model has no vararg parameter).

### LauDebug, LauVM, LauMeaning

`LauVM` executes prototypes on one thread: the variable `L` has the stack, the chain of calls,
the open upvalues, the variables to be closed and the tables, `prog` the chunk under execution. There
is one case for each instruction; a step is one instruction. Values that were never set are `Junk`,
which real stacks hold and programs must never see. `LauDebug` finds lines and names from the
code, as `ldebug.c` does, for messages. Native functions stand for the libraries: one outputs its
arguments, one gives three values, one is an iterator, one makes values to be closed. Metatables
are out of the reach of scripts here, as are coroutines (`LauCall` has both).

`LauMeaning` is the reference: it evaluates the syntax tree over environments and cells, with
no registers, jumps or instructions. It takes only the operations on single values from
`LauNumber` and `LauVM`.

### LauDump

`dump` and `undump` produce and consume a sequence of items: sizes in groups of seven
bits, padding for alignment, and the table of saved strings built alike on both sides. Numbers and
characters are items of their own.

### LauMap, LauTable, LauTabLib, LauStrings

A table `t` has an array part with its hint, and a hash part of nodes (`k`, `v`, `dead`, `next`)
with `last` for `lastfree`; main positions come from constants that make keys collide. The program
assigns, erases, asks for sizes, traverses with `next`, and the collector marks keys of empty
entries as dead; memory may fail in a rehash. `LauMap` says what this must be: a finite map of which
a traversal gives each entry once. `LauTabLib` has `clear`, `find`, `insert`, `remove`, `sort` and the
references of `lauxlib.c` over the same table. `LauStrings` has the chains of the string table:
creation, removal, growth, shrinking, and reallocations that fail in the middle.

Bounds and abstractions: values equal their keys; traversals with dead keys only in programs
whose keys are in `Traversed`; hashes are constants; the random pivots of `sort`
(arrays of 100 elements and more) are left out; the collection in the middle of
`internshrstr` is an action that frees some strings.

## 3. Runs

| run | instance | checks | states |
|---|---|---|---|
| `gc_heap` | 1 table (with `__gc` for itself), 2 strings, symmetric | `TypeOK`, `CacheIsLive`, `ImplementsHeap` | ≈100 thousand |
| `gc_finalizers` | 2 tables, one with `__gc`; full and emergency collections | `ReachableIsLive`, `BlackNeverPointsToWhite`, `GrayIsListed`, `SweepEndsWhite`, `FinalizedBeforeFreed` | ≈932 thousand |
| `gc_upvalues` | coroutine, closure, upvalue | `ReachableIsLive`, `BlackNeverPointsToWhite`, `GrayIsListed`, `TwupsIsExact` | ≈157 thousand |
| `gc_live` | table with `__gc`, closure; `FairSpec` | `GarbageIsFreed`, `FinalizerIsCalled` | ≈21 thousand |
| `gen` | 2 tables, one with `__gc`; all modes and their changes, emergencies, closing | `AgesKept`, `ImplementsHeap` | ≈310 thousand |
| `calls_variables` | 2 variables, 3 frames (one is `base_ci`) | `SlotsKept`, `ResultsWait`, `ImplementsScope` | 455 thousand |
| `calls_depth` | 1 variable, 4 frames | `TypeOK`, `CallsCounted`, `YieldIsSafe`, `FreshFrames`, `ImplementsScope` | 959 thousand |
| `compile` | 59 programs and 1122 expressions in seven positions | `CompiledAgrees`, `CompileRejects`, `OperandsKnown`, `WriterFound`, `ErrorNamed`, `RegistersBalanced`, `LinesDecode`, `DumpRoundTrip` | ≈43 thousand |
| `data` | tables with 4 keys, parts of up to 4 and 8 slots; 4 strings; 4-bit integers; arrays of 5 elements | `ImplementsMap`, `EveryKeyFound`, `BorderFound`, `LibraryAgrees`, `RefsKept`, `ListsSound`, `LoopsExactly`, `SortsSoundly` | 42 thousand |
| `calls_concat` | as `calls_depth`, with `ArithConcat` | `FinishOpKnows` (violated) | |
| `calls_selfclose` | as `calls_depth`, with `NestedClose` | `ErrorHasObject` (violated) | |
| `compile_priority` | 72 expressions with two operators | `OperatorsBind` (violated) | |

For the collector, bounds are `MaxStack` (2 values on a stack, besides what finalizers and open
upvalues put there) and `MaxRefs` (1 reference in a table or closure). They are
enough for the interesting cases: a violation of the color invariant needs one
black parent, one white child and one thread to carry the child past the
collector; a chain needs two tables; a string has to be dead and in use in the
same cycle; two full collections nest inside a finalizer. Each property is also
checked against a mutant of the code's model (a missing barrier, a
resurrection left out, a stale cursor, a stage of `atomic` skipped ...) that
violates it within the same bounds.

For the generational mode two tables suffice as well: one old, one young, and references both
ways; three objects with the main thread make every pointer into a list fall on, before and
after an object that moves. `AgesKept` is what makes `ImplementsHeap` true
one collection later, and fails first.

For the compiler, the expressions are all those of depth two with `and`, `or`, `not`,
comparisons and `+` over a variable, a call and a constant, as an argument, an initial
value, a condition, the last of several values, an index, a value stored under an index, and a negated
result, with both truths of the variable; they reach every way in which
jump lists join. The other programs are one for each construct and each kind of error,
with more constants and items than the short forms of instructions hold, because of the small widths.
They avoid what `compile_priority` shows by parentheses, compound assignments to fields, and
divisions and powers of two numbers at run time with an integral result (both below). Results are compared with
their subtype: an integer is not the float of the same value.

For tables, a hash part of eight nodes in which three of four keys collide makes chains of
three, nodes that move because another key's main position is there, and rehashes in
both directions; 4-bit integers make every loop near both ends of the range occur.

For calls, two variables are the fewest that have an order, and an error in the
close method of the second must reach the first; four frames let a protected
call run inside the close method of another one; `MaxCcalls` = 3 is reached by a
call inside a call, so that every operation is also tried with no C call left.
`ArithConcat` and `NestedClose` are false in the passing runs because of what the
other two runs show.

Fairness (`gc_live` only): weak fairness of the collector as a whole, because
every allocation is preceded by `lauC_checkGC` and the debt grows with
allocation, so that a program that goes on allocating goes on stepping it; and of
`EndFinalizer`, an assumption on programs: a finalizer that never returns stops
the collector for good (`GCSTPGC`), in the code as in the model. There is no
fairness of the program's own actions. `TightStack` is false there: on a stack
that is always full no finalizer is ever called.

### What the failing runs show

- `calls_concat`: arithmetic on operands that are not numbers falls back to
  `lauV_concat` (`lvm.c` 927 and 965), an addition to what `lauV_finishOp` knows. The
  metamethod `__concat` is called by the yieldable `lauD_call`; when it yields, the
  interrupted instruction is `OP_ADD`, which reaches the default case (`lvm.c` 871)
  and its assertion. Without assertions the result never gets to its register and the
  following `OP_MMBIN`, which was to be skipped, is executed.
- `calls_selfclose`: a coroutine died with an error; its host closes it; a close
  method calls `lau_closethread` on its own coroutine. The inner closing empties the
  stack and throws `LAU_OK` to the base level, which is the handler of the outer
  closing. That one ends with the error status it had and takes for its error object
  the slot below the top, now nil (assertion in `ldo.c` 118).

- `compile_priority`: the table of priorities (`lparser.c` 1434) is indexed by `BinOpr`, from which
  the operators `//`, `..` and the bitwise ones were taken without taking their rows. From
  `==` on every operator has the priority of another one: `==` binds as tightly as
  multiplication and `and` more tightly than `<`. `a + a == 2` is parsed as `a + (a == 2)`.

### What was met while modelling and has no run

- `README.md:45` says that division returns "an integer if possible". Constant folding (`lobject.c` 144)
  and operands that are numerals (`lvm.c` 953) do that; `OP_DIV` and `OP_DIVK` on two numbers always
  leave a float (`lvm.c` 951), and powers are alike: `9 / 3` is `3`, but `x / 3` with
  `x = 9` is `3.0`, which shows when printed or concatenated. `LauMeaning` has the integer, `LauVM` the
  float; with `x / 3` among the programs `CompiledAgrees` fails, so `compile` has folded
  divisions, those of numerals, and at run time only those with a fractional result.
- `README.md:43` says that a block on one line with several statements is an error. The
  counter of statements is one for all blocks (`lparser.c` 1137, 2017): in
  `if a then f() if b then g() end end` on a line the inner block resets it and the outer
  one is accepted. `CompileRejects` fails with this program; the other two nestings, refused
  as they should be, are in `compile`.
- `compoundassign` (`lparser.c` 1622) repeats the last instruction generated as if it had fetched
  the table of the target (`dupifneeded`): `t[i] += 1` with a global `i` stores under
  another key, and `f().x += 1` overwrites the register of the table.
- A loop with integer initial value and step, a limit that is not a number and a negative step runs
  down to the least integer (`forlimit`); `LoopsExactly` takes NaN for the least of all numbers,
  as the code does.
- `s - 1` with a string `s` becomes an addition of -1 and so concatenates `-1`; addition
  of two tables calls `__concat`. The run takes what the code does as the meaning of both.
- If the state is closed while `tobefnz` is half swept, which takes more than
  `GCSWEEPMAX` objects there, an emergency collection in a finalizer finds black objects in
  it that the sweep has not whitened; `gen` has shorter lists.
- A syntax error inside a constructor leaves the vector of its keys allocated (`lparser.c` 1118).

## 4. Proofs

`LauGC_proofs` proves, for any sets of tables, closures, upvalues, threads and
strings, any finalizers and any bounds:

- `TypeCorrect`: `Spec => []TypeOK`;
- `NoReachableIsFreed`: `Spec => []ReachableIsLive`;
- `TriColor`: `BlackNeverPointsToWhite`; `GrayIsNeverLost`: `GrayIsListed`;
- `SweepIsComplete`: `SweepEndsWhite`;
- `CacheNeverDead`: `CacheIsLive`; `OpenThreadsListed`: `TwupsIsExact`.

It proves from them, with the same assumptions,

- `CollectorIsSafe`: `Spec => ImplementsHeap`, so the collector refines `LauHeap`;
- `FinalizersInTime`: `Spec => FinalizedBeforeFreed`.

These are all the safety properties that the runs check of `LauGC`.

Assumptions are those of `LauGC`: the kinds are disjoint, the main thread is a
thread, `Nobody` and the ends of lists are not objects, the bounds are natural
numbers.

`ReachableIsLive` alone is not inductive: it says nothing about a sweep under
way, nor about the marks that will decide the next one. The invariant `IInv`
adds that live objects refer only to live objects and that all the places where
the program and the collector start are live (`LiveIsClosed`, `RootsAreLive`);
while marking, that nothing is dead, that no thread is black, that what a black
object refers to is not white, and that gray objects are listed (`Marking`);
outside marking, that an object whose color is not the current white is still
in a part of the lists that the sweep has yet to visit (`Sweeping`, `Pending`);
and what upvalues, strings and free addresses look like (`WellFormed`: an open
upvalue is never black, since its slot is written with no barrier).

The heart is `AtomicStep`: the four stages of marking leave a set that is closed
under references. Each stage is an instance of `Stage`, which needs only that
`Reach` is closed (`ReachClosed`) and that what is already marked, and not in a
gray list, refers to nothing white. That is where the exceptions must be
argued: threads are never black before, so they are in `grayagain`; an open
upvalue marked earlier either belongs to a thread that is marked again or is
remarked through `twups`. No induction over the length of a chain is needed, as
reachability is defined by closed sets (`LauReach`).

`IInv` was checked by TLC on the instances of the runs before it was proved.

The refinement splits `Next` into steps of the program and of the collector. A
step of the program frees nothing, and adds starting points and references only to
what it can already reach, to what it has just created and to strings
(`ProgramStep`); so the set that it can reach grows by no more (`ProgramKeepsLost`).
A step of the collector adds none, but moves an object from `finobj` to
`tobefnz`, or from there to the stack, and frees no live object (`CollectorStep`,
`CollectorKeepsLost`); that what is reachable is live is `IInv` itself. For
`FinalizersInTime`, when `atomic` chooses the objects to finalize all that the
program can reach is marked (`LostIsWhite`): what is white is closed off from the
roots, through black objects, through the threads that are traversed again, and
through the open upvalues of threads that are not.

`LauCall_proofs` proves, for any variables and error values, any frame size and limit of
marked variables, any limits of frames and of C calls greater than one, and for both values of `ArithConcat` and `NestedClose` (that is, also where the code does what the failing
runs show):

- `Invariant`: `Spec => []CInv(L)`, the inductive invariant of `LauCallInv`;
- `TypeCorrect`: `TypeOK`; `SlotsAreKept`: `SlotsKept`; `ResultsDoWait`: `ResultsWait`;
- `FreshFramesOnly`: `FreshFrames`; `CallsAreCounted`: `CallsCounted`; `YieldsAreSafe`:
  `YieldIsSafe`.

Assumptions are those of `LauCall` (`Bounds`).

None of these is inductive. Each speaks of the state between two operations, and what
keeps it true across an error, a yield or a reset is how three structures belong
together: the frames (`ci`), the C functions under way (`cs`), and the positions that
both keep into the stack. `CInv` says so with a function `d`: `d[j]` is the number of
frames there were when the `j`-th C function called the next one. It has four parts:

- `Frames`: the base of each frame lies above that of the one before it, a frame that
  waits with results, or for one, has called what gives none or one (`CallerOk`), and
  each C frame below a recovery point (`ypcall`) has a continuation or is only closing its
  variables (`MayBeSkipped`); a protected call has its function where its status will be;
- `CFunctions` and `Saved`: which C function calls which (`CallsNext`), and that each
  handler has saved the counts that held when it was installed, so that
  `lauD_rawrunprotected` restores the right ones;
- `Depths` and `Waiting`: the C functions and the frames they work for. A `ccall` that
  runs `lauV_execute` has exactly one fresh frame, the lowest of its own (`Deeper`);
  the position to which a handler would cut the stack lies inside its frame
  (`OnFrame`); above a non-yieldable call no frame is a recovery point, and what a handler
  or a closing loop has called gives no results (`Beneath`); and a C function that waits for a
  call is still on the C stack or has a continuation, unless the coroutine has died;
- `Variables`: marked slots are in order, hold variables, and none of them lies in a C frame
  that would not look for it (`Accounted`): the frame has marked it, or it is left from a
  protected call that failed, or from a reset.

`Top` adds what holds of the function in control: its counts, and that a metamethod's
result and the results of a function are where the next step takes them from.

An error may cut `cs` and `ci` anywhere, so the lemmas about it come first in
`LauCall_calls`: what is left when the C stack is cut at a handler (`UnprotectIs`) satisfies
the invariant again whoever receives the error: a protected call (`Catches`), a recovery
point that `precover` finds (`Recovers`), or the host of a coroutine that dies (`Dies`);
`Throw` puts them together. Then calls (`Ccall`, `Enter`) and returns
(`MoveResults`, `Poscall`, `Leaveframe`). `LauCall_steps` has one lemma per action,
most of them a composition of these, as the action is of functions of the code.

A form of `CInv` with `d` computed from the state was checked by TLC on the instances of the
four runs before it was proved; as it stands it quantifies over `[Nat -> Nat]`, which TLC
cannot enumerate.

`LauCallScope_proofs` proves that the coroutine keeps the promise of `LauScope`, for the same
constants but with `NestedClose` false:

- `CallsImplementScope`: `~NestedClose => (ScopeSpec => ImplementsScope)`.

The assumption is what the code needs, not what the proof needs: `calls_selfclose` shows that a
coroutine that closes itself inside a closing by its host loses the error object. The runs
that check `ImplementsScope` make the same assumption.

`acts` and `vars` follow the state by definition, so the invariant is that of `LauCall`,
`CInv(L)`, and all the work is in the steps. Each action of `LauCall` has a lemma that
says what it means (`OpCloseMeans`, `TryReturnsMeans`, ...): it does not show (`Same`), or the
activation on top calls a function (`EnterMeant`) or fails in doing so (`CallShown`), declares a
variable (`DeclareMeant`), fails (`ErrorMeant`), ends a block (`EndBlockMeant`), leaves (`LeaveMeant`),
calls a close method (`CallCloseMeant`), has closed all (`ClosedMeant`), or the coroutine is reset
(`ResetMeant`). In the end `NextScope` reads each of these as an action of `LauScope`. Three
arguments carry the rest:

- *What lies under a change does not change.* An activation is computed from its frame, from
  the slots of the stack below the base of the next one, and from its handlers on the C stack.
  `Under(s, t, r)` says that `t` keeps all that the first `r - 1` activations depend on, and `Below` that
  they are then the same. Results are moved, blocks closed and the C stack cut
  always above such a line; `Older` counts the variables below one.
- *A frame has at most one handler.* A protected call with a C function above it in the same frame
  runs that one itself (`Alone`). This is where `~NestedClose` is used: so the activation's phase,
  what it keeps and its error can be read from one entry of the C stack or, after a
  yield has thrown that away, from what `lau_pcallk` (`u2`) and `precover` (`recst`) left in the frame.
- *An error arrives where `LauScope` says.* `ThrowIs` follows `lauD_throw` to its end: to a
  handler on the C stack (`CaughtBy`), through `precover` to a recovery point in the frames
  (`Recovered`), or to nothing (`Died`). The frame that catches it is the last one of
  `Scope!Catching`, because frames above it have neither handler nor recovery point, and
  `lauD_closeprotected` puts it in the phase "caught" with the variables older than its
  level, also when the error is raised while the state was still being changed (a call half
  made, a close method that does not fit on the stack; `Like` relates the activations of
  that moment to those before).

`LauFor_proofs` proves `LoopIsExact`: `LoopSpec => []LoopsExactly`, for integers of any width and
any set of limits (`Width`, `LimitsAreNumbers`). The loop counts down a number computed once, from
unsigned differences and a division that may be of the most negative step; the invariant `LoopInv` says
that exactly so many more steps fit between the index and the integer that the limit was clipped to. Whether `forlimit` clips a limit of either kind as the definition demands is a lemma about
integer division for each sign of the step.

Not proved, only model-checked:

- the liveness properties, which are out of the prover's reach;
- `AgesKept` and `ImplementsHeap` of `LauGen`, whose operators on lists are recursive;
- all that is said of the compiler, the interpreter and the data structures except for loops,
  which rests on recursive operators and on induction over data.

## 5. Not modelled

- Weak tables and ephemerons: the clearing stages of `atomic`.
- Coroutines, upvalues, strings and prototypes in the generational mode.
- Message handlers (and with them `lauD_errerr`), hooks, the resizing of the stack, metatables of
  scripts in the interpreter's model.
- Gotos, the lexer's characters, the warnings of the parser, the memory it holds on errors.
- Buffers of `lauxlib.c`, the formatting and reading of numbers, pattern matching, and the libraries
  that wrap the API.
- I/O, operating system, dynamic libraries, the interpreter's terminal loop and the
  configuration: they wrap the C library and keep no state whose order of changes matters.

## 6. Plan

1. Proofs: what one insertion, one removal or one reference changes in `LauStrings` and `LauTabLib`.
2. `LauWeak`: `convergeephemerons` and the clearing stages against the least fixpoint.
3. Message handlers in `LauCall`; a second thread in `LauGen`; gotos in `LauParser`.
4. Buffers and pattern matching against reference definitions.
