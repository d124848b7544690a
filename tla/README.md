# A TLA+ model of the GDScript compiler

The repository compiles GDScript to RISC-V ELF guests that run in libriscv. This
directory holds TLA+ modules for the parts where an error silently becomes a wrong
program: how source becomes blocks, how classes and traits become functions, the
intermediate representation (IR) with its verifier and optimizer, the backend's
registers, labels and line table, the shadow stacks that compiled code keeps, and
the threads and the heap libriscv gives a guest. TLC checks the modules on small
instances; TLAPS proves the theorems for every value of the constants. Paths are
relative to `src/src/gdscript/compiler/`, or to `src/ext/libriscv/lib/libriscv/`
where marked (L).

## The system

```
source -> Lexer -> Parser -> traits, chain -> CodeGenerator -> IR
       -> IROptimizer (13 pipeline entries, ir_verify between them)
       -> RISC-V backend (RegisterAllocator, labels, profiling, debug) -> ELF
       or C backend
IRInterpreter runs the IR; the tests compare it before and after the optimizer.
libriscv runs the ELF, with guest threads and a native heap.
```

The compiler is sequential, so its hazards are not interleavings. They are
worklists whose order decides what is seen, caches and remembered facts that
outlive what they describe, code moved past code it depends on, offsets recorded
before words are inserted, arithmetic at its edges, and long sequences of legal
calls. The code it emits does meet interleavings: coroutines switch in the middle of
a function, faults end calls whose exits never run, threads wait for each other.
`PROJECT.json` lists each hazard with its line.

| Part | Files | Here |
|---|---|---|
| IR and opcode table | `ir.h`, `ir.cpp`, `ir_opcodes.def` | `IR` (partly) |
| Operand vector | `small_vector.h` | `SmallVector`, `VectorSpec` |
| Verifier | `ir_verifier.cpp` | `IRChecks`, `Definedness`, `ScopeMarks`, `IRVerify` (partly) |
| Optimizer | `ir_optimizer.cpp` | `TightenScopeMarks`, `OptimizerPasses`, `Optimizer`, `ScalarReplacement` (partly) |
| Interpreter | `ir_interpreter.cpp` | `IRInterpreter`, `Iteration` (partly) |
| Register allocator | `register_allocator.cpp` | `RegisterAllocator` |
| Lexer | `lexer.cpp`, `lexer.h` | `LexerLayout` (layout) |
| Traits, inheritance chains | `traits.cpp`, `chain.cpp`, parts of `codegen.cpp` | `Inheritance` (methods) |
| RISC-V backend | `riscv_codegen.cpp` | `Assembler` (the code buffer) |
| Line table | `line_table.cpp`, `record_line()` | `LineTable`, `Assembler` |
| Profiling, debugging | `riscv_profiling.cpp`, `riscv_debug.cpp` | `ShadowStacks` (partly) |
| Guest threads | `threads.hpp`, `posix/threads.cpp`, `native_threads.cpp` (L) | `GuestThreads` (partly) |
| Native heap | `native_heap.hpp` (L) | `Arena`, `UsedTable`, `HeapSpec` (partly) |
| Everything else | | see *Not modelled* |

## The modules

**`IR`** An instruction is a record: opcode, destination, sources, immediate,
labels, type hints. One opcode is kept for each combination of operand roles and
effects that a pass or check tells apart (`ADD` and `MOD` for the binary
operators, four comparisons of six). `Leaders`, `IsLast` and `Successors` are
`build_blocks()`; `Flow` is the order a program runs in, written without blocks,
so that one can be compared with the other.

**`SmallVector`, `VectorSpec`** The objects, the heap's blocks as sequences of
cells, and one action per constructor, assignment, growth and access. `malloc()`
may hand out any free block, may fail, and leaves `Junk`. `VectorSpec` is what the
IR relies on: each vector holds a sequence, and an operation that throws has no
effect.

**`IRChecks`** The verifier's checks of single instructions. `check_operands()`
and `check_argument_count()` appear as the shape `IRFunction` requires.

**`Definedness`** `check_definedness_and_types()`: the min-priority worklist, the
merge, the report walk, one action per loop iteration. The function it accepts is
then *run*, along any path, with arbitrary types where the opcode fixes none.

**`TightenScopeMarks`, `ScopeMarks`** The `scope-marks` pass, the
`check_scope_marks()` that follows, and a run with the frame's scope slots (zeroed
by the prologue) and the host's count of owned values. The host is external:
`ECALL_VSCOPE` is modelled from how `gen_scope_mark()` and `gen_scope_release()`
use it.

**`IRInterpreter`** What a program computes: values with a type, wrap-around at
`IntMax`, NaN, null (which has no order: comparing it throws), globals, calls, step
and depth limits. Floats are whole numbers or NaN; fractions, infinities and rounding
are left out, and so are strings, bit operations, `SWITCH` and `GLOBAL_CALL`. A float
no int can hold converts to the least int, as on x86-64; C++ leaves it open. `Iteration` holds the loop operators it and
the passes are written with, whose depth of evaluation is logarithmic.

**`OptimizerPasses`, `Optimizer`** Each pass is a function from code and cached
analysis to what it leaves of both: it reads blocks from the cache where the code
does, and invalidates the cache where the code does, in `replace_instructions()` or
by itself. The pipeline is a state machine with pass selection, settled passes, the
cache and `ir_verify()` after each pass (`IRVerify` states what the verifier's
two analyses compute, without type hints). Not modelled: folding of `NEG`, `NOT`,
`AND`, `OR` and `GLOBAL_CALL`, and the renumbering of debug locals, which can make
`compact-registers` report a change of its own.

**`ScalarReplacement`** `scalar_replace_structs()`: the straight-line and the
control-flow rule, the aliases, the fields that become registers, one replacement
per step. Struct instances are dictionaries of the host, references into a heap;
they are external.

**`RegisterAllocator`** Two maps, the free list, the uses table. `free_register`
and `invalidate_register` have the body of `spill_register` and share its action.
The backend itself calls only `init`, `reserve_register`, `mapped_vregs`,
`spill_register` and `handle_syscall_clobbering`; the rest is called from
`tests/test_compilation.cpp`. Two obligations are the caller's and are guards
here: reservations come before allocation, and a forced mapping does not name a
reserved register.

**`LexerLayout`** The three stacks behind `NEWLINE`, `INDENT` and `DEDENT`:
indentation levels, open brackets (inside which a newline means nothing) and the
layouts of multi-line lambdas (whose bodies are suites inside brackets). The source
is read one character class ahead, chosen freely; a line's leading blanks are a
number. One action per branch of `handle_indent()` and per layout case of
`scan_token()`, with errors thrown or, where `tolerant`, recorded. History variables
follow what the tokens have open and whether the source is laid out as the language
asks (`clean`). Numbers, strings, operators and comments have no layout of their own
and are one class or left out; `[` stands for `{` too. Only LF sources: before a
carriage return `handle_indent()` does not see a blank line.

**`Inheritance`** A chain of scripts that use traits that use traits. `Validate` and
`SpliceScript` are `apply_traits()` on each link, `MergeNextLink` and `MergeFunction`
are `merge_chain()` function by function, and `super` and `Trait.method()` are
resolved as `codegen.cpp` does. A trait's method may be abstract, and is then not
spliced; whether the class implements it is not checked here. Of what a trait splices
only methods are modelled, not its constants, variables, enums and signals. A symbol is a sequence of
its parts. Each function
remembers the body it came with, which is what the properties compare symbols to.

**`Assembler`, `LineTable`** Code is emitted in a few shapes (plain, label, branch,
jump, dispatch table) with label uses and line rows; `Relax` is one round of branch
relaxation with the shifts it makes (labels, uses, functions, rows; the offset of the
instance initialiser, shifted like a function's, is left out);
`Resolve` patches displacements, `Build` rebases and encodes the line table, `Read`
decodes it. Addresses count words, and the reaches of branches and jumps are
constants, so that a handful of words gets out of reach.

**`ShadowStacks`** The profiler's and the debugger's stacks beside the real call
stack: entry, exit, suspension, resumption, time passing and faults. Depths are
unsigned machine words that wrap. An exit stores into the frame it closes and into
its caller's, one below; both stores are followed to the call that owns the frame.
The host, which resets the depths after a fault, is external.

**`GuestThreads`** The threads, the queue of those suspended, the list of those
blocked, futex words in memory, and one action per system call. No timer takes the
processor from a thread: control changes at these calls only. Nothing is followed
further once a blocked thread has been resumed without being woken (`forced`), which
the code does, see below.

**`Arena`, `UsedTable`, `HeapSpec`** The heap's chunks by address, the bins of two
levels, the slab and its free entries, the table from pointer to chunk with its
linear probing and the moves after an erasure. Sizes are in units of `ALIGNMENT`. The
host may change the cap on chunks at any time. `seq_alloc_aligned` is called for a
flat arena, where it is `malloc`, and for one that is not. `HeapSpec` is what a guest
relies on: blocks that do not overlap and stay put, where each call changes the block
its argument or its answer names and no other. An arena that threw in the middle of an operation
(`lost`, see below) is not followed further.

Definitions marked "Slip" are plausible mistakes in the definition that follows
them. They take no part in any specification; substituted for it, each must make
TLC find the property it is aimed at violated.

## The runs

`tlc -config X.cfg M` in this directory; each takes at most two minutes.

| Run (config) | Instance | Shows |
|---|---|---|
| `register_allocator` (`MCRegisterAllocator`) | 3 virtual, 2 pool, 2 argument registers, 3 instructions | the maps stay inverse, no register is lost, and the victim is the one used furthest away |
| `definedness` (`MCDefinedness`) | every function of at most 3 instructions over 2 registers and one label; loops with an exit of 9 instructions; one ill-formed function per check | an accepted function never reads an unwritten register, known types are right, a rejection has a path that deserves it, the check decides |
| `scope_marks` (`MCScopeMarks`) | every function of 0, 3 or 4 instructions over 2 scopes and one label; loops of 10 instructions | a release never takes what the callers own; only unmarked releases are rejected |
| `optimizer` (`MCOptimizer`) | straight-line code, an if, a while over arithmetic, conversions, globals, a call, with int, float and null arguments: all passes; the same with variable-to-variable copies: all but `redundant-stores` | results and IR validity survive every prefix of the pipeline; skipped passes would change nothing; a cached analysis that would be used is of the code as it is; dead-code equals repeated scanning |
| `scalar_replacement` (`MCScalarReplacement`) | two instances, nested or aliased, two statements, in sequence, under an if, in a loop; before and after copy propagation | the function stays valid, and computes what it did when instances are dictionaries |
| `lexer` (`MCLexer`) | indentations 0, 2, 4; 2 lambdas; one kind of bracket 3 deep with errors thrown, two kinds 2 deep with errors recorded | `INDENT` and `DEDENT` balance, no lambda layout outlives its brackets; in a source laid out as the language asks, suites and brackets nest and a newline is a token exactly where it ends a statement, unless a lambda has been left open |
| `small_vector` (`MCSmallVector`) | 2 vectors with 1 element inline, 3 blocks, sizes up to 3 | every block has one owner, no cell is lost, and the vectors refine `VectorSpec` |
| `assembler` (`Assembler`) | 4 IR instructions in up to 2 functions, 2 labels, reaches of 4 and 5 words | after relaxation every branch, jump and dispatch reaches what it names, a function's symbol is its first word, every word has the line of the instruction that emitted it, reader and writer of the table agree, and the assembler ends, failing only over a label nobody defined |
| `inheritance` (`Inheritance`) | chains of up to 3 scripts and one that is too long, 2 traits that may use each other, one method name, declared up to twice, in a trait perhaps abstract | cycles, unknown traits and conflicts are refused and nothing else is; every body keeps one symbol; `super` and `Trait.method()` reach the body they mean |
| `shadow_stacks` (`ShadowStacks`) | 2 functions, 5 calls, stacks 3 deep of which 2 recorded, one coroutine waiting, 2 faults | the debugger sees the real stack, times are exact, every call is counted once (on the stack, recorded, as an overflow or as lost to a fault), and a store hits only the frame of its own call or of its caller, also after a fault |
| `guest_threads` (`GuestThreads`) | 3 threads at a time of 4, one futex with 2 values, 2 mask bits | a live thread is running, suspended or blocked, once; wake-ups take the longest blocked; a suspended thread runs again as long as the guest keeps giving way |
| `arena` (`Arena`) | 10 units in pages of 4, caps of 2 and 4 chunks, five sizes | the four views of the chunks agree after every operation, `malloc` fails only when nothing fits or the cap is reached, sequential blocks do not cross a page unless the arena is flat, and the arena refines `HeapSpec` |

*Bounds.* Two registers and one label are the least with which one path can
define what another does not; the loops give a block a second, weaker visit.
Three virtual registers for two physical ones force evictions, and three
instructions let "dead", "next" and "later" differ at once. In the lexer, 3
brackets and 2 lambdas put a lambda in a lambda's call and a call in its body;
indentations 0, 2 and 4 give a line that lies between two levels. `IntMax = 3` makes
sums wrap; 60 steps exceed what a terminating program of this size needs, and a
run of the *unoptimized* program that hits a limit is not compared. Programs have
the shape the code generator emits (fresh temporaries, variables read and written
through `MOVE`): some peephole patterns are sound only on such code. Three
blocks for two vectors let one be freed and handed out again. A jump reach of 5
words lets one relaxation push another jump out of reach. Three links let a
function be displaced twice. A real stack deeper than the recorded one makes calls
that are counted and not recorded. Three threads give an order among two that
wait. A cap of 4 chunks lets a block be split, and caps of 2 rebuild the table
smaller while it is in use.

*What the optimizer runs leave out.* `redundant-stores` is wrong on copies, so the
programs with copies run without it; no program of the passing runs has a NaN
reach a fused branch, a bool constant meet a float one in arithmetic, or an instance
stored in a field of itself. What the runs show is about programs clear of these
four cases.

*Fairness.* `Definedness` and `Assembler` ask weak fairness of their steps: each is
a loop in one thread that nothing suspends. Runs of an accepted function get none.
`GuestThreads` asks for none: nothing in the code takes the processor from a thread
that computes for ever. Its liveness property has the condition in it: if the running
thread gives way again and again (it yields, waits, blocks or exits), then each
suspended one runs. The lexer, the allocator and the
passes have no liveness property: they do a bounded amount of work per call.
Deadlock is checked except where the system really stops: the assembler and the
merge of a chain when they are done, the shadow stacks and the threads at the bounds
and when the machine has stopped.

## Known divergences

Where the code does something else than a comment or a test says, a configuration
beside the runs lets TLC find it (it ends with the violation named here), and the
runs above are clear of the case.

| Configuration | Property violated | The code | What the repository says |
|---|---|---|---|
| `MCOptimizerStores.cfg` (`MCOptimizer`) | `ResultsPreserved` | `redundant-stores` (`ir_optimizer.cpp:2116`) drops a held-back `MOVE c, a` only when `c` is redefined; when `a` is, the copy is made too late: `var c = a; a = b + b; return c` returns the new `a` | "An optimizer pass must not change what a program computes." (`tests/test_opt_invariance.cpp:3`) |
| `MCOptimizerNaN.cfg` (`MCOptimizer`) | `ResultsPreserved` | `peephole` (`ir_optimizer.cpp:1186`) turns `CMP_LT` and `BRANCH_ZERO` into `BRANCH_GTE`; with a NaN neither comparison holds | the same |
| `MCOptimizerBool.cfg` (`MCOptimizer`) | `ResultsPreserved` | `constant-folding` (`ir_optimizer.cpp:958`) reads `int_value` of a bool constant in float arithmetic, which is 0: `true + 1.0` folds to `1.0` | the same |
| `MCScalarReplacementSelf.cfg` (`MCScalarReplacement`) | `NoUseLeftBehind` | the straight-line rule (`ir_optimizer.cpp:1955`) accepts `n.next = n`, where the instance escapes into its own field; `ir_verify()` then rejects a valid program | "Replace a non-escaping struct Dictionary with snapshots of its fields." (`ir_optimizer.cpp:1828`) |
| `MCLexerLeaving.cfg` (`MCLexer`) | `SuitesNest` | `handle_indent()` (`lexer.cpp:412`) drops every lambda layout at a closing delimiter, also when the line leaves levels of the lambda's body open or an outer lambda goes on | "It still closes the lambda suite, but must not become an indentation level of its own." (`lexer.cpp:403`) |
| `InheritanceNames.cfg` (`Inheritance`) | `DeclaredNamesKept` | `merge_chain()` (`chain.cpp:176`) takes the symbol a displaced function had in its link for its declared name; of a displaced trait copy that is already `@trait.U.f` | "An overridden base function is emitted under a mangled symbol, but retains its declared name in chain_name." (`codegen.cpp:1161`) |
| `GuestThreadsUnblocking.cfg` (`GuestThreads`) | `BlockedNeedUnblocking` | `yield_to()` (`threads.hpp:371` (L)), and the fall-back to the main thread when the last other thread exits (`threads.hpp:209` (L)), resume a thread that stays listed as blocked | "A blocked thread can only be resumed by unblocking it." (`threads.hpp:75` (L)) |
| `ArenaLowered.cfg` (`Arena`) | `ThrowsAreAtomic` | `table_insert()` (`native_heap.hpp:364` (L)) throws when the table is too full, which it can be after the cap was lowered and raised; the chunk is then out of its bin and in no table | nothing: recorded because the arena does not recover |

Also seen:

- The comment on `try_fuse_compare_and_branch()` (`ir_optimizer.cpp:1150`) says "XXX:
  known to fail untyped recursive fibonacci(20)". The `optimizer` run fuses branches
  over ints, floats and null, in programs that call a function, and finds the results
  kept; only NaN breaks them (above). Recursive programs and the code the backend
  emits for a fused branch are outside the run, so it neither confirms nor refutes
  the note.
- Native `block` passes its argument as the return value and 0 as the reason
  (`native_threads.cpp:67` (L)), so the wake-up call finds a thread only under reason
  0; `NativeBlock` does the same. The guest library says "Block a thread with a
  specific reason." (`src/ext/libriscv/binaries/barebones/libc/microthread.hpp:66`).
- `identify_loops()` takes the `LABEL` itself for the instruction that branches back,
  so with distinct labels every loop's body is empty and `licm` never hoists. It is
  modelled as it is.
- A blank line that ends in a carriage return counts as a line at its indentation.
- A lambda whose `func` stands on a continuation line shallower than its block makes
  `close_lambda_layout()` close the outer suite too.
- A half-read lambda signature survives the recovery from an unclosed bracket, and a
  lambda as a default value in a lambda's parameters resets the outer signature.

## The proofs

| Module | Proves | By |
|---|---|---|
| `RegisterAllocatorProofs` | every invariant of the run, `FreeIsUnused`, `ReservedStaysUnmapped`, and `EvictsFurthest` | `IInv`: the types (with values in pool registers only), the maps' inverse, the free list's facts together. `MapsInverse` alone is not inductive: that allocating is safe needs `FreeIsUnused`, and that giving a register back keeps the list free of duplicates needs that a used register is not on it |
| `IRProofs` | instruction flow leaves a block only at its end, and then to one of its successors | the definition of a leader |
| `DefinednessProofs` | `NoUndefinedRead`, `KnownTypesHold`, `Fixpoint`, `EntriesDescend` | `IInv` ties `walk`, the state an instruction was last walked with, to the entry states and the work outstanding: what a walked instruction leaves behind has reached its successors' entries (which promise no more) or is pending, and a block whose entry is not what it was walked with is queued. With nothing queued or pending `walk` is a fixpoint, the report walk has checked it, and a run moves along its edges |
| `ScopeMarksProofs` | `CallersKeepTheirs` | the same argument with mark sets; a marked slot holds a count not below the callers' |
| `LexerLayoutProofs` | `TypeOK`, `IndentsMatchStack`, `LayoutsWithinBrackets`, for any indentations, brackets and depth, errors thrown or recorded | the three together. The pops are `Cut`, whose result is shown to be a prefix that ends at an element kept (a least element exists); a prefix of a rising stack rises, and replacing the level a line closes to keeps it rising because that level was not above the line. Closing a bracket is safe because the layouts' depths ascend, so popping those at the current depth leaves only smaller ones |
| `SmallVectorProofs` | `OneOwner`, and that `SmallVector` implements `VectorSpec` (`RefinesVector`), for every inline size, heap and set of vectors | `IInv`: storage is as large as the vector says and written up to its size, a block is allocated exactly while one vector's data points to it, and a dead vector is as good as new. One lemma says what each memory operation (write, grow, steal, release) does to the sequence a vector holds; each action is a chain of them, and maps to the abstract action or, when `malloc()` fails, to a stutter |
| `ShadowStacksProofs` | `BacktraceIsTheStack`, for every program, depth of calls and size of the shadow stack | `BacktraceInv`: the frames and that the depth equals the real one, also beyond `MAX_DEPTH`, which is what brings the two back together on the way out |

The assumptions are the named `ASSUME`s: pool and argument registers are disjoint,
functions have the shape `check_operands()` enforces, scope ids and indentations are
not negative, a vector has room for one element inline, a real stack has fewer calls
than a word counts. Nothing else is assumed about sizes.

Only model-checked: liveness (`Decides`, `CompilationEnds`, `SuspendedThreadsRun`),
which is outside the prover; `RejectsOnlyRealFaults` and `RejectsOnlyUnmarked` (their
reference is a recursive function over paths); `SuitesNestUnlessLeftOpen` and
`NewlinesEndStatements`; `TimesAreExact`, `EveryCallIsCounted` and `StoresStayApart`; everything about the
optimizer's passes, which are written with recursive operators; the assembler,
inheritance, the threads and the arena.

## Not modelled

- **Parser, AST.** A recursive descent over a large grammar; its state is the position
  in the token stream.
- **Code generator.** Its output's shape is the input of the optimizer runs, and the
  lookups of `super` and `Trait.method()` are in `Inheritance`. What it emits for each
  construct would be the source language's semantics over again.
- **Backend.** Instruction selection, the frame plan, elision of scope slots, the
  coroutine frame's contents, breakpoint stops and variable records.
- **ELF builder, signatures, metadata.** Layout and serialisation without choices.
- **Compiler driver.** `import_native_bases()`; otherwise the phases in order.
- **C backend, source model, constant tables, host call numbers.** Text generation,
  queries, data.
- **libriscv beyond threads and heap.** The instruction decoder and its execution loops,
  memory paging, the binary translator, system call emulation: another project, with
  an instruction set as its specification. Of the threads: `tgkill`, signals, copies of
  a machine. Of the heap: pointers the arena does not know, and `transfer()`.
- **doctest, witness-cpp.** Test harnesses.
