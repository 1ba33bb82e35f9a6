# A TLA+ model of Millie

Millie is a small strict functional language; `millie FILE` reads one
expression, infers its type, compiles it to bytecode, runs the bytecode and
prints the value.  This directory models the program, checks the models with
TLC and proves theorems about them with TLAPS.

The program is sequential: nothing runs concurrently and nothing is persisted,
so there are no crashes, messages or timeouts to model.  What is hard here is
recursive descent over several pieces of mutable state (registers, bindings,
closures, a growing array of functions), types as a graph that unification and
copying change in place, error recovery, code that patches code, a machine that
trusts the code it is given, and C memory: arrays at their capacity, pointers
kept across a `realloc`, slots read before they are written, counters that wrap.

## Inventory

`main` (`millie.c:177-283`) runs the phases in order and exits with status 1
after the first phase that reports an error.

| Component | State | Operations | What makes it correct |
|---|---|---|---|
| Arena, `platform.c:14-83` | blocks of 2 MB, the start of the free bytes of each | allocate, free all, count | allocations are aligned, share no byte with each other or with the pointers of a block, and stay within their block |
| Array list, `platform.c:85-128` | buffer, count, capacity | index, add | indexes are checked; growing keeps the items |
| Strings, `string.c` | reference count (-1: static), length, bytes | create, copy, free, concatenate, format, hash, compare | a string is freed once, after its last use; a static one is copied by who keeps it |
| Hash, `cityhash.c` | none | CityHash32 | vendored |
| Error list, `errors.c` | list of reports, in order | add, first, free | reports keep their order and own their messages |
| Symbol table, `symboltable.c` | hashes and entries, count, threshold | find or create, name of a symbol, grow | one symbol per name, no item lost, lookups end |
| Lexer, `lexer.c` | position, pending error, tokens, ends of lines | scan; line and column of a position; a line | tokens cover the input, every unexpected run of characters is reported once, positions map to lines and back |
| Syntax trees, `ast.c` | immutable nodes | constructors | well-formed for what comes after |
| Parser, `parser.c` | position, tokens to resynchronise | recursive descent | takes the longest expression, with the right precedence and literal values; one error per loss of synchronisation |
| Type checker, `typecheck.c` | graph of types with bindable variables, environments, non-generic types | analyse, unify, generalise, instantiate | the type found is the principal one, inference ends, no copy leaves a link behind |
| Compiler, `compiler.c` | stack of contexts (code, registers, bindings, closed variables), functions of the module | one function per kind of expression | the code means what the expression means |
| Machine, `runtime.c`, `opcodes.inc` | stack of frames with registers, closures and tuples | one case per instruction | decodes what the compiler wrote, reads only what was written, ends |
| Driver, `millie.c` | switches, the phases' results | main, print errors, format values | stops after a failed phase; prints the value by its type |

The components interact by calls and shared memory.  The parser interns names
in the symbol table and allocates trees from the arena, as the type checker does
types.  The compiler reads the tree and writes the module, which the machine
reads.  The lexer, parser, type checker and compiler append to one error list.

## Modules

| Module | Models |
|---|---|
| `Errors` | the list of reports, the growable array |
| `Lexer` | `LexBuffer`, one action per round of its loop; lines and columns |
| `Parser` | `parser.c` as a stack machine over the tokens |
| `FrontEnd` | scanner and parser one after the other, with the type invariant and `ErrorsSpread` |
| `ScannerChecks` | the words and the value of digits as a reference, the properties of the scanner and of what reports are about |
| `FrontEndChecks` | the grammar as a reference, and the properties of the parser that need it |
| `TypeCheck` | `typecheck.c` as a stack machine over a graph of type nodes, with its type invariant |
| `TypeRules` | the reference: typing rules over types as terms |
| `TypeChecks` | the properties of the type checker |
| `Bytecode` | opcodes, operands, little-endian numbers; extended by compiler and machine |
| `Ast` | syntax trees |
| `Compiler` | `compiler.c` as a state machine, its type invariant, `ContextsNest`, `RegistersReserved`, `ScopesMatch`, `ErrorsAreExact`, `ClosuresAreFreeVariables`, `CodeWellFormed` |
| `Runtime` | `EvaluateCode`, one action per instruction |
| `Semantics` | the reference: meaning of a program, free variables, which programs the code is right about |
| `CompilerChecks` | the ends of the compiler's arrays (`OverrunsExact`) |
| `Millie` | compiler and machine composed, with properties of the two together |
| `Driver` | the whole of `main`: `FrontEnd`, `TypeCheck` and `Millie` one after the other on shared state, the printing of errors, types and values, the exit status |
| `ProgramCorpus`, `Texts` | the programs the models are run on, as trees and as texts |
| `SymbolTable`, `Interning` | the hash table, and the interning it implements |
| `Arena` | the arena |
| `CompilerProofs`, `ClosureProofs`, `CodeProofs`, `FrontEndProofs`, `ScannerProofs`, `TypeCheckProofs`, `SymbolTableProofs`, `ArenaProofs` | theorems |
| `MCMillie`, `MCCompiler`, `MCSymbolTable`, `MCArena`, `MCFrontEnd`, `MCTypeCheck`, `MCDriver` | instances for TLC |

### The scanner

The text is a sequence of characters with a NUL behind it; `ptr` counts from 0 as
the C code does.  A step is a round of the loop of `LexBuffer`: the case of the
switch, and then the error state machine (`ErrorNow`, `NoErrorNow`).  The inner
loops over a word, a number or a comment are a choice of the only end they can
stop at (`RunEnds`).  A comment that no newline ends runs into the memory behind
the text (`ScanOpenComment`): it may find a newline there (`Astray`) or fault
(`Fault`).  An array list is the sequence of its items.

### The parser

`calls` is the stack of `_Parse` functions and `ret` what the last one returned,
as in the compiler.  A `_Parse` function that only calls the next level is
replaced by it (`Become` in `ParseComparison`, `Application` for `Unary`), and the
levels with the same loop are one action with a parameter (`ParseRight`).
`context` is `struct ParseContext` with the symbols and the reports it points to.
The symbol table is used through what it implements: numbers in the order of
the first occurrence.  A message is named for the token that was expected.
`Word` is the number of values of a `uint64_t`: literals wrap.

### The type checker

`types` is the part of the arena that holds `struct TypeExp`, by address; a node
has the two pointers of the struct, which in a variable are `var_instance` and
`var_temp_other`, as the unions of the C struct make them.  That matters: the
occurs check walks both, and so follows the temporary links.  `calls` holds the
activations of `_Analyze`, `_UnifyImpl` and the two copying functions; functions
without side effects (`_PruneTypeExp`, `_IsTypeContainedWithin`,
`_IsTypeNonGeneric`) are operators.  A walk that does not end is no step:
`Diverges` names the states in which the innermost function goes round a cycle.

### The driver

`Driver` has the variables of all phases and instantiates their modules, so that
each phase runs on what the one before has left: the trees keep their token
positions, which reports point at, and `FormatValue` reads the heap of the
machine by the nodes of the type checker.  A printed line or value is a sequence
of words; layout is left out.

### The compiler

The C stack of compile functions is the variable `calls`, a sequence of
activations: where each stands (`at`), its expression, its context, and the
locals it holds across a recursive call (`reg`, `loc`, `i`, ...).  A step runs
the last activation from one recursive call to the next, so every action is the
code of a compile function between two calls of `_CompileExpression`:
`CompileIf`, `CompileThen`, `CompileElse` and `EndIf` together are
`_CompileIf`.  `ret` is what the last function returned.

A context has the fields of `struct CompileContext`.  Code is a sequence of
bytes (the growth of the buffer is left out); `integer_registers` wraps as the
`uint8_t` does and `max_registers` does not.  Three facts about C memory are
kept because the code depends on them:

- `bindings` keeps popped entries, and a new context may find in it what a freed
  one left (`Recycled`, `freed`): `_CompileIdentifierImpl` looks one entry past
  the live ones.
- The functions array is grown by `realloc`, which may move it (`Realloc`);
  pending activations have the number of the array they point into, and a
  write through a pointer to an old one is lost.
- `bindings` and `closure_symbols` have 64 bytes each, room for eight bindings
  and sixteen symbols, and are written past their ends by functions that need
  more: their capacities are counted as 64 entries.  In the model the sequences go
  on, so nothing else is overwritten; `OverrunsExact` says which programs do this
  (`BindingSlots`, `ClosureSlots`).

Unreachable cases (`EXP_ERROR`, `EXP_INVALID`, a bare `EXP_TUPLE_FINAL`) are not
modelled.

### The machine

A frame has the function, the offset of the next instruction, the registers and
the register its caller wants the result in.  A value of the machine is an
untagged word; the model tags it with what it was made as (a number, a static
closure, an object on the heap, an uninitialised word), and an instruction that
would use a value as something else is not enabled: undefined behaviour shows
as a machine that is stuck, which TLC reports as a deadlock and `Finishes`
refutes.  Comparing or testing an uninitialised word may go either way.  Objects
are never freed, as in the code.

### The symbol table

`pc` says which loop runs (`_Find`, the rehashing loop of `_Grow`,
`_InsertHelper`), and a step is one round of it, so that invariants speak of the
table while an item is in local variables only.  `& mask` is a remainder:
capacities are powers of two.  Deletion marks are never set by the code and
are left out.  `CityHash` is an arbitrary function.  `MaxCapacity` bounds growth.

### The arena

Addresses are numbers of one memory.  A block is where `calloc` put it
(`base`, one of `Bases`, away from all other blocks) and where its free bytes
start.  The array begins behind one pointer of `POINTER` bytes, 4 or 8, and another
pointer is behind it.  `NeedsBlock` is the test for room as the code has it: it
takes the space used for the space left, so that an allocation may go past the end
of its block, over the pointer and into whatever is behind.  No caller asks for more
than a block, so the failing branch of `ArenaAllocate` is an assumption on
`Sizes`.  `MaxAllocations` bounds the model.

### Mutations

For every property of a passing run there is a mutation, an operator just above
the definition it replaces, that breaks the code as a plausible mistake would (a
dropped guard, an off-by-one, a missing pop).  `PROJECT.json` pairs them; with the
definition replaced TLC finds the property violated.

## Runs

| Run | Question | Bounds |
|---|---|---|
| `MCFrontEnd` | Are texts read as the language says, and wrong ones reported well? | all texts of up to `MaxLength` = 4 of ten characters; the corpus and sentences in four layouts; literals around 256, a word; one program with one or two tokens lost or replaced; about 191,000 states |
| `MCTypeCheck` | Is the type found the principal one, and does inference end? | all expressions of up to `MaxSize` = 4 nodes over two names, all closed ones of 5, and written ones |
| `MCDriver` | Does the process print the meaning and exit with the right status? | 12 texts that are no program, and the corpus in two layouts, with and without `-t`; about 18,000 states |
| `MCMillie` | Is the compiled program right, and does it end? | all integer programs of up to `MaxNodes` = 7 nodes in which a name is bound once, and the corpus; about 171,000 states |
| `MCCompiler` | Is every program compiled soundly, even those compiled wrongly? | the corpus, irregular programs included, all integer programs of 6 nodes, and programs that just fill the arrays of a context or need one entry more; first capacity 1 so that the functions array grows |
| `MCSymbolTable` | Does the table implement interning at every step? | 6 names, capacity 2 to 8; with colliding, wrapping and displacing hashes; about 122,000 states |
| `MCArena` | Are allocations aligned and disjoint? | up to `MaxAllocations` = 6 of the sizes of a 32-bit build (`POINTER` = 4), from blocks of 40 bytes that `calloc` puts at five addresses, side by side or apart; about 55,000 states |

*Numbers.*  A byte has 32 values and a word 2^21 where the compiler runs:
then all four widths of literal have boundaries within TLC's integers, and no
program has more than 32 registers in one function but `WideLets`, whose 37
wrap the counter at top level, where r0 holds no closure.  32 values still number the 18 opcodes.  In `MCFrontEnd` a word has 256
values, so that a literal of three digits can wrap to a smaller number (260, which
is reported) and to a larger one (999, which is not).  The proofs hold for every
width.

*Texts.*  The ten characters of `MCFrontEnd` are one of each kind the scanner
tells apart: the beginning and the end of a keyword, a digit, `=` and `>` that make
one sign together, a newline, a comment, a character inside names only, one that
is nothing, a parenthesis.  Four in a row are enough for a run of unexpected ones
between two words, for a keyword with a letter behind it, for two newlines and
for a comment that ends or does not.  The damaged programs lose the parser in
every production and let it find its feet again.

*Types.*  Four nodes are the smallest terms in which a name of a let is used
at two types, five those with two functions around a let.  `Circular` has the two
ways in which a walk does not end: two variables that stay non-generic, and a let
rec of whose value nothing is known.

*Programs.*  Seven nodes suffice for a function bound by let and applied to an
expression with a conditional, a closure that reads one variable of each of two
functions, and a let inside an argument.  What needs more (recursion, closures
three deep, two closures of one function, functions as arguments, tuples) is
written out in `Classics`.  A division, a unary plus and a `let rec` of something
other than a function are in `Rejected`.  `AtLimits` has functions that
bind exactly eight names at once, or nine, themselves and their argument counted;
that close over sixteen variables, or seventeen; that bind nine names one after the
other (`WideLets`), and that mention one closed variable eighteen times.

*Arena.*  The first allocation of a block is at 4 modulo 8 where a pointer has four
bytes, the second is rounded, and one of 32 bytes behind one of 12 runs over
the end of a block of 40; two of the five addresses are neighbours, and a third is no room for
a block beside the first.  Builds with pointers of eight bytes are in
`BugArenaOverrun` and in the theorems.

*Regular programs.*  `MCMillie` runs the programs that `Regular` accepts: a name
is bound once, the elements of a tuple are equal expressions, and a then branch
does not return a variable.  Outside of them the code is wrong:

| Run | What TLC finds |
|---|---|
| `BugTuple` | `_CompileTuple` compiles the first element for every slot (`compiler.c:646`): `(1, 2)` prints `(1, 1)` |
| `BugIfClobbers` | the result of an else branch overwrites a variable, even the closure in r0 (`compiler.c:600`) |
| `BugArrayMoves` | a function is lost when the functions array moves (`compiler.c:337`) |
| `BugArenaOverrun` | allocations run over the end of a block; the run has blocks of 128 bytes (`platform.c:57`) |
| `BugTypeLoops` | the occurs check runs round a temporary link for ever (`typecheck.c:28`), on `fn x => fn y => let z = (y, x) in z`; a build of the program overflows its stack |

Two array limits have no run of that kind, as no document contradicts them: the
ninth binding that is live at once is written past the end of its array
(`compiler.c:79`), and so is the seventeenth closed variable (`compiler.c:83`).
`MCCompiler` has such programs, and `OverrunsExact` says that there are no others.

Three more are kept out by the instances: the search
for a name starts one past the last live binding (`compiler.c:269`; names are
bound once in `MCMillie`, and `MCCompiler` has `Recycled = FALSE`, with which a
popped entry is still one of the same function); after 256 registers r0 is used
again (`compiler.c:166`; no function but a main one has that many); the machine writes two
registers of a main function that may have one (`runtime.c:209`; the model's
frames have two).  `MCMillie` and `MCCompiler` fix `Realloc = {"in place"}`, which
`BugArrayMoves` does not.

What the code does and no document contradicts is modelled as it is, and the
properties say so: unexpected characters at the end of a text are forgotten
(`ErrorsAreRuns`), tokens behind the first expression are ignored
(`ParsesTheGrammar`), a literal that wraps to a larger number is accepted
(`OverflowReportsTrue` has only one direction: 30000000000000000000 prints
-6893488147419103232), the text of a last line without a newline is read with an
arbitrary length unless it is the only one (`PlacesRight`), an open comment may
fault (`Astray`, `Fault`), a boolean and a function can be negated
(`TypeRules`), a tuple in a tuple is not told apart in a printed type
(`FormatTypeExpression`), and a `let rec` that is only its own name makes the
type checker go round (`OnlySelfLoops`, `Diverges`, `Hangs`).

*Fairness.*  The program is one thread that nothing blocks, so weak fairness of
the whole next-state relation is what running it means: `FrontEnds`, `TypingEnds`,
`CompilationEnds`, `Finishes`, `Exits`.  In the symbol table fairness is on the rounds of
the loops only: the client need not call again, but a call that was made runs
(`CallsReturn`).

*Deadlock* is checked wherever the process exits and stays exited (`MCFrontEnd`,
`MCTypeCheck`, `MCDriver`, `MCMillie`) and in `MCSymbolTable`: a phase that gets
stuck on what it was given would show.  The compiler alone stops when it has
compiled the program, the arena when it has been freed.

## Proofs

All proofs are of specifications with unbounded constants: any set of
well-formed expressions closed under subexpression (`CompilerAssumption`), any
width of byte and word (`BytecodeAssumption`, `WordAssumption`), any texts
(`BuffersAssumption`), any sizes (`ArenaAssumption`), any names, hash function and first capacity
(`SymbolTableAssumption`).

- `TypeCorrect` and `ContextsAlwaysNest` (`CompilerProofs`).  Neither invariant
  is inductive alone: that an activation's context exists needs the nesting of
  contexts, that popping leaves a running caller needs to know which activation
  is where, and that `FinishLambda` has a child context to finish needs that
  only a body has one.  `CompilerInv` puts together `TypeOK`, that `calls` is empty
  exactly when the contexts are (`Placed`), the context of each activation relative
  to its caller (`Depth`, `Stack`).  There is one lemma per action, which splits
  into the conjuncts the action touches; helpers (`WriteCodeType`,
  `LoadImmediateType`, `PatchJumpType`, ...) say what the operations on contexts
  return.
- `EveryFunctionWritten` (`CompilerProofs`), for `array = 1`: no `realloc` has moved
  the functions.  `ModuleComplete` is about the end of compilation; `ModuleInv` adds,
  for every step before it, that a function not yet written has the activation that
  will write it on the stack (`Pending`) and that the pointers of these activations,
  `CompileExpression` and every `_CompileLambdaImpl` that has added its function,
  are into the array that is there.  All other steps leave those activations alone
  (`SameWriters`).  Without the condition the theorem is false: `BugArrayMoves`.
- `RegistersAlwaysReserved` (`CompilerProofs`), for `Recycled = FALSE`.  The
  strengthening (`Reserved`) says of every context that all entries of its
  bindings array, live or popped, name registers counted for it (`Sound`): the
  search of `_CompileIdentifierImpl` may return a popped one.  It is kept because a
  context only ever grows (`Follows`): registers counted stay counted.  Without the
  condition the theorem is false, as an entry left by another function may be
  found.
- `ScopesAlwaysMatch` (`CompilerProofs`), for any `Recycled`, under the hypothesis
  that every name in the programs is bound (`WellScoped`): the compiler relies on
  the type checker for it (`compiler.c:276`), and a free name would make the
  outermost context close over something.  TLC evaluates it for the programs of
  `MCCompiler` (`ProgramsAreScoped`).  `ScopesInv` says that the live bindings of a
  context are the list of the names its activations bind (`HasBound`), that it
  closes over names bound outside it only (`Outer`), and that each activation
  compiles an expression whose names are bound by the activations below it
  (`Scoped`).  All three are needed together: that a lookup which fails is about a
  name bound further out, and so may become a variable of the closure, follows from
  the last, and the closure is filled in by loads in the enclosing context, whose
  lookups must succeed or close over the name again.  That pushing and popping an
  activation appends to and takes from the list is `FlattenAppend`, for the
  recursive function behind `FlattenSeq`; that the list has the names of the set is
  `NamesListed`.  Then there is a lemma for each action.
- `ErrorsAlwaysExact` (`ClosureProofs`), for programs whose expressions are finite
  trees (`TreesFinite`) and whose tuples have equal elements (`TuplesUniform`): where
  they differ the code compiles the first only (`BugTuple`), and what is wrong with
  another goes unnoticed.  The parts of an expression are a recursive function;
  that such functions exist, and that what holds of a node when it holds of its
  children holds of all, is `RecursionExists` and `TreeInduction`, by a smallest
  counterexample.  `ErrorsInv` keeps account of the unsupported parts that the
  activations on the stack have still to come to (`Awaited`): they are all parts of
  the program, an error has been reported only if the program has such a part, and
  as long as none has been reported, none has been passed.
- `ClosuresAlwaysFree` and `ClosuresAlwaysFreeVariables` (`ClosureProofs`), under these
  hypotheses and `WellScoped`.  The first says that a closure takes up free variables of
  its lambda only, each once, and not the name of its own `let rec`.  Its invariant,
  `HoldsInv`, says so of the `closure_symbols` of each context at any time; it needs
  `ScopesInv` and that what an activation may ask for is free in the lambda it is in
  or bound since (`Reads`), as what an inner lambda is filled in with is asked for in
  the context around it.  The second says that no
  variable is missing if no error has been reported (a rejected `let rec` is not
  compiled, and what its parts need is not taken up), in programs in which no two
  binders bind the same name (`Tame`): the lookup starts one past the last live
  binding (`compiler.c:269`), and there may find one of that name that is over and
  close over nothing.  `SpentInv` says that this does not happen: the names of bindings that are over, in a
  context or in an array that was freed, are none of those that the activations bind
  or have still to bind (`Coming`), and these are all different (`Apart`); a name
  that is asked for is one of them (`WantedUnbound`).  `CoversInv` says where each free
  variable of a lambda under way is (`Wanted`): in `closure_symbols`, or among
  what the activations of that context have still to ask for (`Asked`).  All of this
  together is `ClosuresInv`; there is one lemma for each kind of step and invariant
  (descending, leaving, entering and finishing a lambda, looking up a name, closing
  over one).  TLC evaluates the hypotheses on the programs of `MCMillie`
  (`TreesAreFinite`, `GoodHypotheses`, with the one program that is not `Tame`) and
  that the functions agree with the recursive operators of `Semantics`
  (`FormsAgree`).
- `CodeAlwaysWellFormed` (`CodeProofs`): the code of a module compiled without an
  error decodes into instructions, names only registers its function has, and jumps
  forwards to instructions.  The boundaries of instructions are a recursive function on
  the offsets of the code, from the last to the first; that it exists and
  finds the offsets the code was written at is `BoundariesAre`.  Code under way is
  `Ready(c, H)`: it decodes, and every jump lands on an instruction or at the end, but
  for those whose distance is at an offset in H and has yet to be written.  `CodeInv`
  says of every context that it is ready for the H of its conditionals (`Left`), as
  `_CompileIf` holds the offset of its open jump in a local while the branch is
  compiled, and of every function written that it can be run.  An instruction that is
  written adds a boundary, and what landed at the end lands on it
  (`InstructionAppended`); a distance that is written takes an offset out of H
  (`DistanceWritten`).  The conditions: `array = 1`, or a function may stay blank
  (`BugArrayMoves`); `Recycled = FALSE`, for the registers; and no function longer than
  the `int16_t` of a distance holds (`Short`), which the compiler does not check.
- `FrontEndStaysInBounds` and `ReportsAlwaysSpread` (`FrontEndProofs`), for
  texts of any length.  `FrontInv` adds to the types that the tokens begin at
  ever later places (`TokensOK`, which makes the token of a report unique), that
  the parser runs and reports only once the last token is there, so that any
  token but `EOF` has another behind it (`NotAtEnd`), and what `lost_count` counts:
  the parser stands at least as many tokens behind the last report as it has
  become more confident (`SpreadOK`).  A literal is reported after it has been
  matched, hence three tokens for it instead of four.  The helper functions of the
  parser keep all of this from one context to the next (`Onward`), so that a
  production is a chain of them; the stack of calls has lemmas of its own
  (`Popped`, `Pushed`, `Called`).
- `TextIsScanned` and `RunsAreReported` (`ScannerProofs`), for any texts.  The
  properties are about the end of the scan; the invariant, `ScanInv`, says the same of
  the text before `ptr` at every round (`ReadSoFar`): the tokens are the longest
  words and cover exactly the characters of words (`WordsRead`), the recorded newlines are
  the newlines, in order (`LinesRead`), the reports are the runs that have ended
  (`RunsReported`), and `error_start` is where the run that has not ended began
  (`PendingRun`).  What makes it inductive is `CleanAt`: where the scanner stands,
  nothing before bears on what comes next: `ptr` is not inside a comment, an
  identifier or `=>`, although the reference says of a character whether it is in
  one by looking back.  One lemma says of each kind of word what its letters are
  (`GoodKeyword`, `GoodName`, ...), one of each kind of round what it adds.
- `PlacesAlwaysRight` (`ScannerProofs`), from the same invariant: that the recorded
  newlines rise is what the binary search needs.  The search is a recursive function; its
  equation has a solution (`SearchExists`), every solution finds in each range the
  number of newlines before the position or the end of the range that is nearer, since a
  smallest range for which it did not would have a wrong half (`SearchIsRight`, from
  `LeastNatural`).  Line, column and the text of the line follow by counting
  (`NewlinesBefore`, `LineExtracted`).
- `OverflowsAlwaysTrue` (`ScannerProofs`), for any texts and any `Word`.
  `OverflowReportsTrue` is kept by every step once `ScanInv` says that the text of a
  literal is digits and `FrontInv` that the parser stands at a token: a literal adds
  a report only if the loop overflowed (`LiteralReportsTrue`), all other productions
  add none (`NoneAdded`).  As long as what the digits read so far denote fits a word,
  the loop has that very number, and the next is no smaller, so the first digit at
  which the loop breaks off is one past the width (`OverflowIsTrue`, by a smallest
  counterexample; `FoldExists` gives the functions behind the loop and behind
  `Number`).  The converse is false.
- `TableTypeCorrect`, `OrderAlwaysKept`, `ItemsNeverLost`, `SymbolsGiveNamesBack`
  and the refinement `TableInterns` (`SymbolTableProofs`), for any hash function:
  all names may collide.  Distances are first treated as geometry, without the
  variables (`Dist`, `Back`, `Resting`): an item put where the items before it let it
  rest keeps the order (`PutInOrder`), one it evicts may go on (`EvictedMoveOn`),
  and where a search stops early no slot holds the name (`NowhereElse`).
  `TableInv` adds to the properties what a search has passed (`Searching`), that no
  symbol is in two places (`Apart`), from which a pigeonhole argument gives the
  empty slot that ends every probe (`OneIsEmpty`), and that names and symbols match
  one to one (`Matching`).  That an early stop means a new name (`MissingIsNew`)
  is what makes both `Matching` and the refinement go through.
- `PointersNeverNull` (`TypeCheckProofs`), for any expressions: the functions of the
  type checker do not test their pointers, so this is what keeps them from
  following `NULL`.  `TypeInv` adds the shape of the graph (a `TUPLE_FINAL` has no
  second part, which is where `_UnifyImpl` stops), which of an activation's types
  are there at which point (`KeptByCall`: after the first parts of two types have
  been unified the two are still of one kind, a `let rec` still has its variable),
  and whom an activation waits for (`Stack`): `_UnifyImpl` alone returns nothing,
  and nobody who waits for a type waits for it (`Result`).  A step changes only
  variables and adds nodes (`Evolves`), so what activations further out keep stays
  true (`CallEvolves`).  `_PruneTypeExp` may go round a cycle; that the node it
  ends at is one is proved of its bounded recursion as for the binary search
  (`ChaseExists`, `ChaseStays`).
- `AllocationsAligned` and `AllocationsDisjoint` (`ArenaProofs`), for pointers of
  four and of eight bytes and wherever `calloc` puts the blocks, as long as they are
  apart and at multiples of eight.  `Aligned` asks for multiples of eight but for the
  first allocation of a block with pointers of four bytes.  `Disjoint` excepts what the
  code gets wrong (`BugArenaOverrun`): an allocation that goes past the end of its
  block may meet one of another block, or a pointer.  The inductive invariant adds that
  blocks are apart (`BlocksApart`), that the free bytes of a block start in or behind
  its array, aligned unless the block is unused (`GoodBlock`), and that every allocation
  lies between the beginning of the array and the free bytes (`GoodAllocation`).  That an
  allocation which stays in its block meets nothing of another follows from the
  layout of a block (`InsideIsApart`).

Only model-checked: everything that needs recursive definitions of more than sets
of parts or offsets (the meaning of a program, the grammar, the typing rules), so
`ResultCorrect`, `ParsesTheGrammar`, `PrincipalType` and the like; liveness; the machine;
what the occurs check and the copies make of the type graph (`OnlySelfLoops`,
`TempsClean`, `GenericsApart`), whose walks only an induction over paths could say
anything of; the composition in `Driver`.

## Not modelled

- Strings (`string.c`): reference counts of texts that every other component uses
  by value.  The messages of reports are kept as their kind.
- The vendored hash function, for which `CityHash` is any function; printing
  that main does not do or does only with `--verbose` (`DumpExpression`,
  `PrintTokens`, the disassembler); the switches but `-t`; `ReadFile`; the test
  harness.
- The depth of the C stack, for parser, type checker, compiler and machine alike,
  and the size of memory: `malloc` succeeds.
- The table of eighteen names for type variables (`typecheck.c:335`) is in the
  model, but no instance has a type with nineteen.
- `EXP_ERROR` and `EXP_INVALID` in the type checker and the compiler: main stops
  after a parser that has reported an error, which it has whenever it makes such
  a node (`ParsesTheGrammar`).
- `SymbolTableFree`, `TokensFree`, `FreeErrors`, which main does not call.

Next: that the machine stays within the code and the registers of its functions, from
`CodeWellFormed`.
