# A TLA+ development of LuaWrapper

This directory specifies, model-checks and proves properties of LuaWrapper: `src/wrapper`, the C++
layer that lets a host program call Lua, be called from it, debug it on the command line and
exchange protobuf messages with it, and the parts of the Lua 5.3.4 it ships (`src/3rd`) whose
behaviour the layer and its scripts depend on: the garbage collector, tables, protected calls and
coroutines, the compiler, the virtual machine and precompiled chunks.

In the wrapper nearly everything happens on one shared stack, from C++ objects whose constructors,
calls and destructors move its top: what can go wrong is mostly a matter of *order*, who pushed what
since whom, what a `longjmp` skipped, which session an event belongs to. In the interpreter what can
go wrong is a matter of *bookkeeping done ahead of time*: a mark, a counter, a jump list or a
register that has to be right many steps later.

## 1. Inventory

| Component | Source | Model |
|---|---|---|
| The stack a C activation sees | `lapi.c`, `lua.h` as used | `LuaStack` |
| `LuaCaller`, `LuaResult`, `caller.hpp` | `lua_caller.*`, `lua_result.*`, `caller.hpp` | `CallerStack`, `ScriptCall` |
| Variables, tables and chunks of `LuaManager` | `lua_manager.cpp:40-108,173-251` | `CallerStack` |
| Script handlers of `LuaManager` | `lua_manager.cpp:110-143` | `HandlerTable`, `Callbacks` |
| `LuaDebugger` | `lua_debugger.*` | `Debugger` |
| `LuaProtobuf` | `lua_protobuf.*` | `Protobuf` |
| Garbage collector | `lgc.c`, `lfunc.c` | `LuaGC` |
| Calls, protected calls, coroutines | `ldo.c`, `lcorolib.c` | `LuaThread`, `Coroutines` |
| Tables and the table library | `ltable.c`, `ltablib.c` | `LuaTable`, `TableLibrary`, `MapWithNext` |
| Compiler | `lparser.c`, `lcode.c` | `LuaParser`, `LuaCode` |
| Virtual machine | `lvm.c`, `lobject.c` | `LuaVM`, `LuaValues`, `Scripts` |
| Precompiled chunks | `ldump.c`, `lundump.c` | `LuaDump`, `Scripts` |
| Log messages, life cycle of the singletons, type traits | `lua_manager.*`, `lua_arg.hpp` | none (section 7) |
| Lexer, other libraries, metamethods, strings, memory | `src/3rd` | none (section 7) |
| Tests and scripts | `src/tests`, `src/scripts` | they tell which hosts and scripts are real |

**LuaCaller and LuaResult.** State: the absolute height `m_tb` of the message handler, `m_argNum`,
and a `LuaResult` with a `lua_State` and a count. Hard: positions are computed from counts (the
function is `m_argNum` slots below the top, result *n* is `-count`), so any value left behind shifts
them; errors unwind C frames without running destructors; a failed call leaves a `LuaResult` that
must not be read. Correct means: the callee gets what was found and what was given, in order;
results come out once each and in order; a destructor leaves the stack as the constructor found it.

**Variables, tables and chunks.** No state but the stack. Hard: the call that closes a bracket pops
one slot and trusts it to be its table; some operations leave values behind. Correct means: what is
bracketed is balanced.

**Script handlers.** State: the counter `globalhandler` and a table in the Lua registry. Hard:
numbers are handed to independent parts of a host and outlive what they name; an index is used after
two pushes; failure and the first success return the same number. Correct means: a number leads to
the callback it was given for or to nothing.

**Debugger.** State: `m_isDebugging`, the hook of the main `lua_State`, and the C++ stack of open
`Debug()` calls, each at a level. Hard: `p` runs Lua code inside a session, which may open another
session, raise, or meet the armed hook; the flag is one bit for all sessions. Correct means: the
flag is not stuck, a step asked for is not lost, a prompt comes back where it stopped.

**LuaProtobuf.** State: an importer's pool and a message factory, replaced by `LoadRootProto`. Hard:
conversions recurse over the Lua stack, own the messages they create and have error exits in their
middle; default instances may contain themselves. Correct means: what was encoded is decoded to what
it meant; what was created is deleted.

**Garbage collector.** State: colours, the lists of objects (`allgc`, `finobj`, `tobefnz`), of gray
objects and weak tables, the threads with open upvalues, and how far the sweep is. The program runs
between any two steps. Correct means: nothing the program can read is freed; nothing it has not lost
is finalized; all it has lost is freed.

**Calls and coroutines.** State: for each thread its `CallInfo` list, `nny` (calls that cannot be
yielded across), `nCcalls` and `errfunc`; and the C stack, which `longjmp` cuts. Correct means: an
error reaches the innermost protected call of its thread, however that call was made; a yield keeps
every call; the counters are right after every jump.

**Tables.** State: an array part, a hash part of chained nodes, the free pointer. Correct means: a
finite function, with a `next` that visits every entry once while only existing entries change.

**Compiler, virtual machine, chunks.** State of the compiler: code with unfinished jumps, registers,
blocks, labels and gotos; of the machine: the stack, frames, closures and upvalues. Correct means: a
script does what its text means, from source and from a precompiled chunk.

Every hazard found in this code, with its line, the properties that cover it or why none does, is in
`PROJECT.json` under `hazards`.

## 2. Modules

### LuaStack
A window of the stack is a sequence whose last element is the top. `AbsIndex`, `IsSlot`, `ValueAt`,
`SetTop`, `Pop` and `TopOf` are `index2addr`, `lua_settop` and `lua_pop`. No variables.

### CallerStack and ScriptCall
A *frame* is a C activation: frame 1 is the host, frame `d+1` a C function called by the Lua code
that frame `d` runs in `lua_pcall`. `stk[d]` is its window, `scope[d]` the C++ objects alive in it
(callers and table brackets, oldest first), `calling[d]` the object for whom it is suspended. `tb`
is `m_tb`; `caller[c]` holds the remaining members of a `LuaCaller` and its `LuaResult`. `entry`,
`below` and `hist` are history read by properties only. `Construct` (with `ByGlobal`, `ByField`,
`ByHandler`), `Arg`, `Call`, `CallReturns`, `Destroy`, `GetResult`, `GetGlobalVarible`,
`GetTableVarible`, `BeginGetTable`, `BeginGetTableTable`, `EndGetTable`, `RunChunk`, `ChunkReturns`
and `GenerateLuaError` are the functions of those names; `LuaRaises`, `LuaCallsC`, `CReturns` and
`RaiseError` are what Lua code may do. `Call` and `CallReturns` are the two halves of
`LuaCaller::Call`, split where Lua code runs, because other frames act in between. An error in frame
`d` removes that frame and its objects *without* their destructors. `Uses` is a *host profile*: the
parts of the interface a host calls. A profile only removes actions; it never changes one.

`ScriptCall` is the promise without a stack: a caller gathers a function and arguments, runs once,
and hands out a queue of results. `CallerStack` implements it under the mapping `SC`.

### HandlerTable and Callbacks
`globalhandler`, `funTable` and, for each client of the host, the number it holds. A registration is
one action with the C function's arguments, the index and the state (main or coroutine) as inputs;
`PushedValue` is `lua_pushvalue(idx)` evaluated where the code evaluates it. `Careful` clients check
the state and type first. `Callbacks` is the promise: one subscription per client.

### Debugger
`acts` is the chain of activations (`"lua"`, `"c"`, or `"co"` on a coroutine's own state),
`sessions` the open calls of `Debug()` with the activation each stopped in and its level;
`isDebugging` is `m_isDebugging`, `armed` the hook. A session is at its prompt when its activation is
innermost again; otherwise its `p` is running. `Step` is an interpreter step with an event: if the
hook fires, `HookCallback` clears it and, unless the flag is set, opens a session *before* the
step's effect. `raisedOut` is history: a global lookup has raised out of a session.

### Protobuf
`imported` is the importer's pool, `wire` the last message encoded, `leaked` the messages that
nobody will delete, `last` the last call of a script with its result. The conversions are recursive
operators over the schema that take a record `m` along: how the conversion stands (`out`), the slots
of the Lua stack in use (`top`) and the most there were (`peak`), and the messages it owns (`live`); each
push and pop of the code is a `Push` or `Pop`, and the error exits pop nothing. A Lua table has an array
part and the nodes of its hash part in the order in which `lua_next` comes to them, whatever their
keys: lists are read that way, and a list kept in the hash part may come back in another order.
Outcomes are results of their own: `"null"` (an error exit), `"error"` (a Lua error that jumps over the
conversion), `"crash"` (a null descriptor, or `CopyFrom` between two pools), `"overflow"` (more than
`MinStack` slots, which a C function may not use without `lua_checkstack`) and `"endless"` (more than
`CStack` nested calls: the C stack is gone).

### LuaGC
`g` is the `global_State` and the heap, `menu` which objects this program uses. `Step(n, ...)` is one
`luaC_step` of `n` single steps; the other actions are the program: allocate, store in arrays and
nodes, capture, close, set metatables, drop. An object is an id and memory is ids: a freed one may be
allocated again. The single steps are those of `singlestep`: restart, propagate, atomic (with
`RemarkUpvals`, the convergence of ephemerons, `SeparateToBeFnz` and the clearing of weak tables),
the four sweeps and the call of pending finalizers.

### LuaThread and Coroutines
`th` holds the `lua_State`s, `cs` the C stack: one entry for each activation of `luaD_call`,
`luaD_pcall` and `lua_resume`, with what it saves. A step is a call, a return, a resume, a yield or
an error of the running function. Returns and errors are operators on a machine, a record
`[th, cs, lost]`, because one leads to another within a step. `Throw` is `luaD_throw`: it cuts `cs` at
`ErrorJmp`, the innermost entry that has a `setjmp` of that thread, and looks at `RecoverPoints`, the
calls of `pcall` that a yield went through (`recover` in `ldo.c`); `Raise` is `luaG_errormsg`, which
runs the message handler before that; `Returned` is the return of the running function to whatever
had called it; `Unroll` finishes the C functions on top of a resumed coroutine. `RaiseOnMain` is
`LuaManager::GenerateLuaError` called from a coroutine; `lost` are the coroutines that a longjmp of
another thread has cut off. `Coroutines` is the promise without C stack and counters: the calls of
each thread, its status, the thread that runs and, of each one, the thread that waits for it. The
mapping reads the last two off `cs` (`Running`, `Resumer`) and the first two off `th` (`Calls`, `Status`).

### LuaTable, TableLibrary and MapWithNext
`t` is the table (array, nodes with relative links, `lf` the free pointer), `walk` a script's
traversal. `TableLibrary` adds `call`, a function of the table library in progress: each `lua_seti`
is a step, and so is each comparison of `sort`, whose order function may answer anything.
`MapWithNext` is the promise: a function of keys and the set of entries a traversal still owes.

### LuaValues, LuaCode, LuaParser, LuaVM, LuaDump, Scripts
`LuaParser` has one operator per grammar rule of `lparser.c`, from a parser state to the next;
`LuaCode` is `lcode.c` over a `FuncState`; both carry the assertions of the code in `ok`. `LuaVM` has
one action per instruction (or group of instructions with one shape); `LuaDump` writes a function as
a sequence of items and reads it back. `Scripts` composes them: a script is loaded, from its text or
from a chunk whose last items may be missing, and executed. `LuaMeaning` is the reference: what a
program means, evaluated straight from its tree as the manual tells it, and how it is written down
in tokens; `LuaPrograms` are the programs, one family for each thing the compiler has to get right.

The compiler, the reader of chunks and the meaning are computed once for each script, in the constant
`Menu` (`MCMenu`), because TLC would otherwise evaluate them again in every state; `script` keeps
what they gave. Every initial state of a run is a script on its way in.

`CallerStackProofs`, `CallerCallProofs` (its calls and results), `CallerRefinementProofs` (it
implements `ScriptCall`), `HandlerTableProofs`, `DebuggerProofs`, `LuaThreadLemmas` (the invariant of
`LuaThread` and lemmas about it), `LuaThreadProofs` and `LuaThreadRefinement` (it implements
`Coroutines`) hold the proofs; the `MC` modules the profiles,
values and programs for TLC.

## 3. Runs

Passing runs:

- **caller_scoped** (`CallerScoped.cfg`): hosts that call by name and by `a.b` among nested table
  brackets, with errors. Shows `CallPassesArguments`, `ResultsInOrder`, `NoCrash`, `StackBalanced` and
  the refinement `ImplementsScriptCall`.
- **caller_everything** (`CallerEverything.cfg`): all operations, misuse included. `ScopesIntact` (the
  stack under a live object never changes, its message handler is at `m_tb`) and
  `CallerRestoresStack` hold even then.
- **handlers** (`Handlers.cfg`): clients that check what they register and address it from the bottom
  of the window. `OwnCallback`, the refinement `ImplementsCallbacks`, `HandlersNotReused` (no number
  comes to mean another callback) and `NoOrphan` (no callback is kept alive for nobody).
- **debugger** (`Debugger.cfg`): sessions opened by the host, by the code `p` runs and by the hook, with
  coroutines, lookups that raise and the end of input. `SessionsNested`, `NoFlagWithoutSession`,
  `NoStepLost`, and under fairness `StepStops`: after `n` the code stops again or ends.
- **protobuf** (`Protobuf.cfg`): `RoundTrip` (what was encoded is decoded to what it means, with the
  width or precision of each field; the elements of a list in the array part in their order, the others
  after them in some order), `EncodeIsClean` (a conversion that succeeds leaves no message and no slot
  behind, one that fails leaks a message for each level it was in) and `DecodeEnds` (only a message that
  can hold itself makes decoding endless, and only one nested too deep for 4 slots and 3 for each
  level overruns the stack, in either direction).
- **gc** (`LuaGC.cfg`): six programs, each with the objects of one mechanism of the collector. Shows
  `MarkingInvariant` (black does not point to white while it must not), `NothingReadableIsDead`,
  `CleanPause` (a finished cycle leaves the heap in the state the next one assumes) and
  `OnlyGarbageIsFinalized`.
- **gc_live** (`LuaGCLive.cfg`): `GarbageIsFreed`, under the fairness of section 5.
- **threads** (`LuaThread.cfg`): `CountersAreTrue`, `YieldedCanContinue` and `KeepsThePromise`, the
  refinement of `Coroutines`.
- **tables** (`LuaTable.cfg`): `LengthIsABorder`, `RehashIsOptimal`, `LibraryKeepsItsWord`,
  `SortKeepsTheList` and `KeepsThePromise`, the refinement of `MapWithNext`.
- **scripts** (`Scripts.cfg`): 1424 scripts. `RunsAsWritten` (a script shows what its text means),
  `CompilerAssertionsHold`, `LoadedIsWhole` (a chunk gives back what was dumped; one cut short, at
  whatever item, never runs), `OpenUpvaluesAreLive`, `UnwrittenIsNotRead` and `ScriptsEnd`.

Runs that TLC finds violated, both confirmed with the Lua 5.3.4 of `src/3rd`:

- **gc_sweep**: `udata2finalize` (`lgc.c:787`) takes the first object out of `tobefnz` and puts it in
  front of `allgc` while `sweepgc` may point at that object's `next` field (`GCTM` runs between two
  sweep steps). Sweeping then goes on in `allgc`, and what was left of `tobefnz` stays black into the
  next cycle, where it may point to white objects: `lgc.h:20` says "a black object can never point to
  a white one". It takes more pending finalizers than one step sweeps (`GCSWEEPMAX`, 85 on a 64-bit machine; 1 in the run).
- **compiler_goto**: when the block of an `if` begins with a `goto`, `test_then_block` lets
  `skipnoopstat` read the labels that follow (`lparser.c:1395`) before it emits the jump over the block
  for a false condition (`lparser.c:1401`). The position of such a label is that jump, and a later
  `goto` to it leaves the block. `local x=true; if x then goto there ::here:: emit(2) do return end
  ::there:: emit(3) goto here end emit(9)` shows 3 and 9; its text means 3 and 2.

Disagreements between the wrapper and what its headers, messages or tests say, which were met while
modelling and lie outside what the passing runs assume:

- A call through a handler leaves the handler table under the function, inside the slots that `Call`
  counts as results: one result too many, the first one wrong (`lua_caller.cpp:144`). With the
  feature `"handler"` in `Uses`, `ResultsInOrder` is violated.
- Reading globals leaves values on the host's window (`lua_manager.cpp:210`), until the constructor
  of `LuaCaller` reports an abnormal stack (`lua_caller.cpp:46`).
- `CallLuaFunction<T>` reads a result of a call that failed, through a null `lua_State`
  (`caller.hpp:23`).
- `IsOK` looks at the top of the stack (`lua_caller.cpp:128`), which is an argument after `Arg` and is
  `a` when `a.b` was asked for and `a` is a function.
- A failed registration returns 0 (`lua_manager.cpp:119`), which is also the first handler.
- `LuaToScriptHandler` with an index from the top checks one value and stores another
  (`lua_manager.cpp:128`).
- A session opened by the hook shows the line of level 0 and searches level 1 (`lua_debugger.cpp:54`);
  `c` does not cancel a step armed before `Debug()` was reached, so the next event stops again; `n`
  arms one `lua_State` only, so coroutines run on.
- A protobuf type that holds itself in a field makes decoding recurse over default instances without
  end (`lua_protobuf.cpp:442`); a conversion that fails leaks the messages it had made.
- The conversions never call `lua_checkstack`: a chain of repeated messages 6 deep is encoded with 19
  slots and decoded with 21 of `LUA_MINSTACK`, one 7 deep overruns it in both directions
  (`lua_protobuf.cpp:213,394`).
- A list is read with `lua_next` (`lua_protobuf.cpp:150`): elements in the hash part of its table are
  taken in the order of the nodes, under whatever keys.

`CHECK_DEADLOCK FALSE` is set where the system may stop: a host ends in a panic (`"aborted"`) or a
crash, registrations are used up, end of input crashes the debugger, a conversion crashes the host,
the collector's and the threads' programs meet the bounds on ids and frames, and a table's program
ends. `scripts` checks deadlock: an ended script rests, and a machine that cannot execute an
instruction would be one.

## 4. Bounds

| Constant | Value | Why it is enough |
|---|---|---|
| `Callers`, `Brackets` | 2; 2 (scoped) or 1 | a caller under another, in one frame or two; a bracket in a bracket. No property relates three. |
| `MaxDepth` | 2 | the host and a C function called by its call: errors cross one C activation; deeper ones repeat that step. |
| `MaxArgs`, `MaxResults` | 1; 2 (scoped) or 1 | with one argument the function is not the top slot, which `FunctionSlot` depends on; order and count of results need two. |
| `MaxStack` | 6 (scoped), 4 | holds two brackets, or one and a call with two results, or leaks under a call. |
| `Clients`, `MaxHandlers` | 3, 4 | two clients that disturb each other and one more; more registrations than clients, so that a number is given back and another handed out. |
| `MaxArgs` (handlers) | 2 | the callback is, or is not, the last argument. |
| `MaxActs`, `MaxSessions` | 5; 3 | a session, code run by its `p`, a second session in it and code run by that one's `p`. |
| `Levels` | 0..2 | the default, the innermost, one that may not exist. |
| `IntBits`, `LongBits`, `FloatBits` | 4, 6, 3 | numbers from -9 to 17 wrap in 32 bits and are rounded by a float, up, down and at ties; -1 wraps in 64 unsigned bits. |
| `MinStack` | 20 | `LUA_MINSTACK`, its real value; chains of 0, 2 and 5 levels stay below it, 6 goes beyond it when decoded, 7 when encoded. |
| `CStack` | 12 | above every nesting of the tables given (8 calls), so that only recursion without end reaches it. |
| lists | array part of up to 2, hash part of up to 3 in every order | elements in one part, the other, or both. |
| `MaxLeaked` | 1 | leaks are counted; the properties speak of one call at a time. |
| `Ids`, `UpVals` | 3 ids, 1 upvalue (2 ids in `gc_live`, `gc_sweep`) | two objects that refer to each other through a third, or through a shared upvalue; freed ids come back. |
| `Menus` | one mechanism at a time | a mechanism meets every phase of the collector; two mechanisms at once are not covered. |
| `SweepMax`, `Work` | 2, {1} (1, {1, 4} in `gc_sweep`) | a list is swept in more than one step; with 4 single steps at a time finalizers stay pending. |
| `Cos` | 2 | a coroutine that resumes another: yields and errors cross both. |
| `MaxCCalls`, `HandlingCCalls`, `MaxFrames` | 4, 6, 7 | both limits of C calls (200 and 225 in the code) are reached with frames to spare. |
| keys of tables | 1, 3, 2.0, 1.5, a string | an array key, one that leaves a hole, a float that is an integer, one that is not, a string; they collide in small hash parts. |
| `MaxBits` | 4 | the largest array part is 2^4; a rehash can grow and shrink it. |
| `Lists`, `Sorted`, `RanLimit`, `Imbalance` | all lists up to 5 of 3 values and some of 7; 4; 2 | both partitions, the small cases and the random pivot (above 100 elements in the code). |
| `MaxInteger` | 127 | 8-bit integers: overflow and shifts wrap. |
| `MaxIndexRK`, `FieldsPerFlush` | 1; 2 | constants beyond `RK` and table constructors beyond one flush (255 and 50 in the code). |
| truncations | after every item | a chunk is cut at each length it has. |

The guards that name these bounds disable actions; they never truncate a value. Symmetry is used on
callers and brackets, in runs with no liveness property.

## 5. Fairness

- **Debugger**: weak fairness of `LuaRuns /\ LuaMoves`. An interpreter that runs Lua code goes on
  calling, returning or moving to another line, because nothing in `luaV_execute` waits. Nothing is
  assumed of the user, the host or errors. `StepStops` is about code on the debugger's own
  `lua_State` with hooks allowed; a coroutine may run as long as it likes.
- **LuaGC**: a program that keeps allocating keeps calling `luaC_step` (`luaC_condGC`), and its
  finalizers do not raise for ever: `[]<><<Step(n, FALSE, FALSE)>>_vars`. Such a step is always
  possible, so this is what weak fairness would say; stated as `WF_vars` TLC would evaluate `ENABLED`
  of a whole collector step in every state.
- **Scripts**: `WF_vars(Next)`: the machine executes the next instruction until the script has ended. An
  instruction that changes nothing, such as a jump to itself, leaves the script where it is for ever,
  as in `luaV_execute`, and violates `ScriptsEnd`; deadlock is checked besides.

## 6. What is proved

The theorems hold for every value of the constants that satisfies `ConstantsAssumption` and
`ValuesAssumption` (which say that ids and Lua values of different types are different).

**CallerStackProofs**: `TypeCorrect`, `Scopes`, `DestructorRestores`, for every profile. `ScopesIntact`
is not inductive: to know that `Call` and `GetResult` do not reach below an object, one has to know
how much of the window each object still needs. `Held[x]` is the highest slot of `x` that must not be
cut (message handler, function and arguments until it has called; then only the handler). `Laid`
says that an object's slots are in the window and the window below it is the one recorded; `Layout`
adds that the slots of a later object start above those of an earlier one. `Structure` puts
`FrameOK` on every frame, together with `Distinct` (an object lives in one place), `Nested` (frames
not entered are empty) and `CallerRuns` (a suspended frame is suspended by its innermost caller,
which has called). `LayoutSame`, `LayoutResize`, `LayoutEnter` and `LayoutLeave` are the four ways a
window changes; each action is one of them, except errors (`StructureRaise`), which remove a frame.
`DestructorRestores` then is `Laid` read at the destructor.

**CallerCallProofs**: what lies *above* an object.

- `CheckedReadsAreSafe` (`NoCrash`) for every host that asks whether results are left (`"unchecked"` is
  not in its profile), leaks, errors and nesting included. `RInv` says what a caller and its result
  remember: without results the count is 0, so `GetResult` is not reached with a null `lua_State`.
  With `"unchecked"` the claim is false: a read after a failed call goes through that null pointer.
- `CallsGetTheirArguments` and `BracketsBalance` under `NoLeaks`: the host reads no global with
  `DoGetGlobalVarible` and runs no chunk, the two operations that leave a value on the stack (with one
  of them both properties are false, and the hazards say so). Calls by name, by `a.b` and by handler,
  brackets, nesting and errors are all allowed. `AllSlots` gives every object, and the frame itself,
  the part of the window between it and the next object (`Upto`) and says what it holds: nothing above a
  bracket's table; function and arguments on top of a caller that gathers. `Suspended` says that what
  waits under a running frame is a caller without results.
- `ResultsComeInOrder` under `ByName`: no handler calls, whose constructor leaves the handler table
  above `m_tb` where it is counted as the first result. `Counted` ties `GetResultCount` to the results
  read, `Answered` puts the unread ones on top of the window.

**CallerRefinementProofs**: `StackImplementsScriptCall`, under `ByName`. The refinement mapping reads
the abstract argument list and queue off the window, so the proof first shows that the slots of each
live caller mirror its history (`Mirrors`: `Given` is the function with its arguments, `Queue` the
results nobody has read), which needs `Placed`: a live caller stands in the scope of an entered frame.
Each action then is a step of `ScriptCall` or a stutter (`RefineStep`): a bracket, an error or a nested call
changes the window of others only above or below the slots that the mapping reads.

**HandlerTableProofs**: `HandlerTypes`, `NumbersNotReused` and `NoCallbackLeaks` for all clients;
`CarefulClients` and `TableImplementsCallbacks` under `Careful` and `Indices` being positive. `Fresh`
(numbers from `globalhandler` on were never given out and have no entry) and `Separate` (careful clients
hold different numbers) make the invariant inductive. `NoCallbackLeaks` (`NoOrphan`) is inductive
beside it, because a client registers only when it holds no handler. The refinement proof shows that
`Init` maps to `CB!Init` and every step to a step of `Callbacks` or a stutter.

**DebuggerProofs**: `DebuggerTypes`, `PromptsKeepTheirPlace`, `FlagIsReleased` and `StepsAreKept`, for
every profile. `Nest` of any chain is `SessionsNested`; `Floor` is where the innermost session stopped,
and every action keeps the activations above it. `FlagIsReleased` and `StepsAreKept` speak of the time
until a lookup raises out of a session (`raisedOut`), after which the flag is stuck, as in the code.
`StepsAreKept` needs `Ready`: a pending step in running code with hooks allowed meets a clear flag. It
is not obvious: an inner session clears the flag of the outer ones, and `p` of an outer session may
then run with a step pending.

**LuaThreadLemmas, LuaThreadProofs**: `StackIsTrue`, `CountersStayTrue` (`CountersAreTrue`) and
`YieldedStayContinuable` (`YieldedCanContinue`), for any set of coroutines and any limits of C calls
that `ConstantsAssumption` allows. `CountersAreTrue` is not inductive: `lua_resume`, `lua_pcallk` and
`luaD_throw` put back values saved long before, so that the counters are right after a jump only if
the saved ones were right when they were saved, and only if the calls that are left are the ones of
that time. The invariant `Good` therefore says what the C stack means. Two functions are quantified
in it: `q[j]` is the position, in the `CallInfo` list of its thread, of the call that the `j`-th entry
of the C stack runs, and `v[j]` is `nny` at the time that entry was made.

- `Stacked` and `Level` speak of the C stack alone: the entries of a thread lie together and begin
  with its resume; `v` grows by one with each call that a yield cannot cross, and the value an entry
  has saved is the one of the entry before it.
- `Linked` ties a thread's entries to its calls: in their order (`Ordered`), each to a call with a
  `luaV_execute` of its own (`Placed`) and each such call to one entry (`Claimed`); the function below is
  one that makes such an entry and the handler it has saved is the one of the calls below it
  (`AllMade`); nothing above a blocking entry has a continuation (`Stuck`). `Covered` is what a yield
  needs: each call of a coroutine can be left, or some entry forbids yields.
- `HandlerAt` says which handler is in force at a position of the list, `Counted` that the last entry
  of each thread tells its `nny`, `Goes` that the last thread is where Lua code can go on.
- Threads that are not on the C stack are `AtRest` (new, ended or yielded, with nothing on it that
  could not be continued), or `Cut` by an error that another thread has raised over them.

A call, a jump and a resume do not change the invariant at one place but cut or extend all of it, so
there are lemmas for a cut C stack with cut calls (a longjmp) and for an entry put on top, and from these one
lemma for each action. `RaiseOnMain`, where a longjmp crosses coroutines, is the reason for `Cut`.

**LuaThreadRefinement**: `ThePromiseIsKept` (`KeepsThePromise`): `LuaThread` implements `Coroutines`, under
the same assumptions. The two tell different stories of an error: in `ldo.c` it goes to the innermost
`setjmp` of its thread, which may be the one of `lua_resume`, and from there to a `pcall` that a yield
went through; in `Coroutines` it goes to the innermost protected call of the thread. That these agree
needs one more invariant beside `Good`, `Safe`:

- `Guarded`: a `pcall` or `xpcall` without the mark (`k`) of those a yield may go through has its entry of
  `luaD_pcall` on the C stack; `findpcall` chooses among the marked ones. Only with this
  is the call that `Throw` leaves the innermost protected one (`ThrowPcallSeen`, `ThrowRecoverSeen`), and a
  thread without any dies (`ThrowDiesSeen`).
- `FailedLast`: only the running thread may be in the last part of `luaB_auxwrap`, where the error of a
  coroutine is raised again, and only with its last call. `Coroutines` knows no such part: its `Leave` is
  the resume that fails, and the error that follows is its `Error`.

What a step does is then said without the C stack, from the calls and statuses a program sees (`KeepsCalls`
and `LeavesCalls`, and from them `CallSeen`, `ErrorSeen`, `ReturnSeen`, `YieldSeen`, `ResumeSeen`, `MainRaised`, `CreateSeen`,
`HostCallsSeen`), with one lemma for each way the C stack changes; `Resumers...` say who waits for whom when
an entry is pushed and when the stack is cut. A call beyond the limit of C calls is an error of the
caller, after which no trace of the call is left, so it is promised too (`PushError`). The `...Promised`
lemmas take each of these to an action of `Coroutines`, `NextPromised` puts them together.

**Only model-checked**:

- the invariants and action properties of `Protobuf`, `LuaGC`, `LuaTable`, `TableLibrary` and `Scripts`. Conversions, marking, hash
  chains, jump lists and grammar rules are `RECURSIVE` operators, which the provers do not take, and what
  they compute for every input would need induction over data, which they cannot do either;
- the refinement of `MapWithNext` by `LuaTable`, for the same reason;
- the liveness properties `StepStops`, `GarbageIsFreed` and `ScriptsEnd`.

## 7. What is not modelled

- In `CallerStack`: `IncreaseArgNum` with a negative number; the default constructor, which leaves its
  members unset; arguments given to a caller, its call and its destruction while a later one is alive,
  which the interface allows (C++ destroys automatic callers in reverse order, and only results are
  read out of order in the model: the feature `"outer"`); a `LuaResult` that outlives
  its caller; widths of converted numbers; coroutines. `lua_checkstack` is never called by the code,
  and `MaxStack` is a bound of the model, not Lua's limit.
- In `HandlerTable`: the wrap of the 32-bit counter.
- In `Debugger`: how a line is split into words and how dotted names are followed; the slots a
  successful `p` leaves on the caller's window; tail-call events, which the hook ignores.
- In `Protobuf`: messages that outlive the pool they were made from, tables that contain themselves,
  numbers with a fraction and integers beyond 64 bits (a double holds every number of the model), and
  the text of enum names. The library itself is modelled from its use.
- In `LuaGC`: the pace (debt, estimate, pause), so that when a step runs is free; emergency
  collections in the middle of an operation of the program (`FullGC` runs them between two
  operations), and the size of the string table.
- In `LuaThread`: hooks, the growth of the stack, `lua_close` while code runs.
- In `LuaTable` and `TableLibrary`: keys that are booleans, long strings or objects, memory errors in
  a rehash, metamethods, `concat`, `maxn`, and `move` to another table.
- In the compiler and the machine: floats and the operators that make them, line information, the
  limits on registers, constants and nesting, metamethods, conversions between strings and numbers.
  An item of a chunk is one value.
- Logging (`DoLogMessage` walks activation records and keeps no state), the life cycle of the
  singletons, the type traits, the lexer, the other libraries, memory and debug information, and
  protobuf's own code.

## 8. Plan

1. **Abstract specifications**: invariants of `Coroutines` and `MapWithNext`, which use no recursion.
2. **Collector proofs**: the barriers and colours of `LuaGC` written with recursive functions, so that
   `MarkingInvariant` for the program's steps can be proved.
3. **Model**: `DoLogMessage` with its search for a file, messages that outlive their pool, and the slots
   of `p` in the window of `CallerStack`.
