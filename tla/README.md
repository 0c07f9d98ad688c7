# A verification project for pcsh

`pcsh` is a small scripting language: a parser builds a syntax tree, two passes
validate it, an interpreter executes it, and a few operations read the result.
This directory holds TLA+ models of it, TLC configurations that check them, and
proofs for TLAPS. Paths below are relative to the repository.

## The system

| component | source | state | operations | interacts by |
|---|---|---|---|---|
| IR nodes, visitor | `src/pcsh/ir/nodes.hpp`, `visitor.*` | the tree; `cond_ty_`, `comp_ty_` | `accept`, `visit_impl`, `visit_block` | double dispatch, recursion |
| symbol tables | `src/pcsh/ir/symbol_table.*` | one hash map per block | `set`, `lookup`; `variable_accessor` over the open blocks | shared by all passes |
| `populate_symbol_table` | `src/pcsh/ir/passes/` | list of open blocks | first pass: enters names | writes tables |
| `type_checker` | `src/pcsh/ir/passes/` | open blocks, `curr_` | second pass: types, annotations, `type_checker_error` | reads and writes tables |
| interpreter | `src/pcsh/execution/interpreter.*` | open blocks, `curr_visitor_`, `last_assign_`; a `typed_interpreter` per expression | executes | reads and writes tables, creates constants in the arena |
| `validate_tree`, `parse_to_tree` | `src/pcsh/ir/tree_validation.cpp`, `parser.cpp:657` | - | order of the passes | exceptions |
| operations | `src/pcsh/ir/operations.cpp` | - | `evaluate`, `query`, `clone`, `print` | visitors |
| `parser_engine` | `src/pcsh/parser/parser_engine.*` | one token of lookahead | recursive descent | tokenizer, arena |
| tokenizer | `src/pcsh/parser/parser.cpp:432` | line counters | `peek(pos)`, `advance(len)` | `buffered_stream` |
| `buffered_stream`, `flex_buffer` | `parser.cpp:290` | buffer, three cursors | `peek_at`, `advance`, `sync_stream` | a `std::istream` |
| arena | `src/pcsh/arena.cpp` | segments of objects | `create`, `create_array`, destruction | owns the tree |
| `tree_cloner`, printers | `src/pcsh/ir/ops/` | output tree or stream | visitors | - |
| `linebuff_istream`, main | `src/pcsh/main/` | a line | `underflow` | wraps the input |

What makes each of them correct:

* **Symbol tables and passes.** The three visitors agree on the entry of a name
  although each searches on its own; entries only advance (unbound, bound,
  typed, evaluated) and keep their type.
* **Interpreter.** A validated script ends as its text says, and stops early
  only for a reason that its text gives; visitors, the list of open blocks and `last_assign_` are consistent however a call is left; a
  second `evaluate` is as good as the first.
* **Parser engine.** A text is accepted if the grammar derives it, and its tree
  is one the grammar derives and keeps every token.
* **`buffered_stream`.** The parser sees each character once and in order, as if
  there were no buffer, and no more is taken from the stream than is needed.
* **Tokenizer.** The tokens are the longest matches and cover the text; line
  numbers are those of the text; a token's text stays what it was while it is used.
* **Arena.** Live objects are disjoint and inside their segment; each is
  destroyed once.
* **Line buffer.** Its reader is given the whole text, with one `\n` for each line
  break, and nothing behind the line that is read was taken from the input
  (behind a `\r` the next character is looked at).
* **Operations.** `query` finds the entry that the script's end shows; a clone is
  the same tree.

Nothing runs concurrently. What is hard is order and history:

* three passes find "the" entry of a name, each in a list of tables that agrees
  with the others' only if all of them open and close the same blocks;
* entries carry flags that outlive an evaluation, also one that threw;
* the interpreter swaps visitors that are locals of other calls, and leaves by
  `goto` and by exceptions;
* values of one type are computed by visitors of another;
* the stream's cursors, its buffer and the parser's lookahead move separately,
  and a token's text is a pointer into a buffer that may move;
* the arithmetic of positions and sizes, in streams and in arenas.

The hazards in `PROJECT.json` list these places by line.

## The modules

| module | models |
|---|---|
| `IR` | the node classes. A forest of trees is given by the constants `Kind`, `Kids`, `Var` and `Lit`; `TreeAssumption` says what the parser guarantees of it |
| `Values` | int, double and string values, constants, and arithmetic |
| `SymbolTable` | the blocks' hash maps (`table`) and the accessor's list (`nested`) |
| `Visitor` | recursion: `stk` is the C++ stack of `visit_impl` calls |
| `PopulateSymbolTable`, `TypeChecker`, `Interpreter` | the three visitors; an action is the code between two calls of `accept` |
| `Pcsh` | the composition: phases, `evaluate` as often as `MaxRuns` allows, and the properties |
| `Reference` | what a script means, read off its text: which block a name belongs to, the value of an expression, the memory after each node; refers to no visitor, flag or stack |
| `PcshInv` | the inductive invariant of `Pcsh` |
| `PcshProofs` | proofs about `Pcsh` |
| `PlainScripts` | the scripts whose assignments are statements or the right side of one, and the inductive invariant that keeps their types |
| `PlainProofs` | proofs about `Pcsh` with such scripts |
| `ReferenceInv` | how the passes and the interpreter follow the text: the inductive invariant behind the properties in `Reference` |
| `Operations` | `query`, and what it is to return |
| `ReferenceProofs`, `MeaningProofs` | proofs that the passes, every evaluation and `query` do as `Reference` says |
| `TreeCloner` | `clone`, and what it is to copy |
| `ParserEngine` | the engine's member functions, from tokens to trees |
| `Grammar` | the documented grammar, and what else the engine is compared with |
| `BufferedStream` | the buffer and its cursors |
| `Cursor` | what `BufferedStream` implements: a position in a text |
| `StreamProofs` | proofs about `BufferedStream` |
| `Lexer` | `parser::peek` and its scanners, from characters to a token; how a string is printed |
| `Tokenizer` | a parser at its stream: composes `Lexer` and `BufferedStream` with the engine's token, the line counters and the report of an error |
| `TokenProofs` | proofs about `Tokenizer` and `Lexer` |
| `LineBuff`, `TextSource` | `linebuff_istream`, and what it implements: a text read character by character |
| `LineBuffProofs` | proofs about `LineBuff` |
| `Arena`, `ObjectPool` | the arena, and what it implements: a pool of disjoint objects |
| `ArenaProofs` | proofs about `Arena` |
| `Scripts`, `MC*` | scripts as nested tuples, flattened to a forest, and the instances for TLC |

Modules that `EXTENDS` each other share variables: `SymbolTable`, `Visitor`,
then the passes, then `Pcsh`, which `Reference`, `Operations` and `TreeCloner`
extend with operators on its states. Next to them stand `ParserEngine`, whose
trees are the tuples of `Scripts`, `Tokenizer`, which takes its stream with
`INSTANCE`, `LineBuff` and `Arena`.

### The life of a tree

A frame of `stk` is a running `visit_impl(n)`; its `stage` is the number of
`accept` calls it has made, `local` its one interesting local variable
(`lfttype`, `oldtype`, `left`, `oldlastasgn`), `typed` tells a
`typed_interpreter`'s frame from the interpreter's own, and `scope` is the
accessor's list when the call began (a history value, read by no guard). `vis`
is the stack of `typed_interpreter`s that live in those frames, `curr_visitor_`
being the last; `last` is `last_assign_`. An exception or `assert_fail` is one
action that clears the stack. `populated` and `checked` record the calls that
the passes completed and are read by no action.

Numbers: an int is an integer within `MaxNum` of zero, a double a multiple of one
half written as its double, a string a natural number. Results that the program
leaves undefined (a zero divisor, overflow, a null string) end the behaviour with
the result "undefined behaviour"; doubles that are no multiple of one half end
it as outside the model.

`query` and `clone` change nothing of the tree, so they are operators on the states
in which a caller may call them (`phase = "ready"`). `Clone` passes the members of
the `tree_cloner` along as a record; what `visit_impl(block)` sets back is
`LeaveBlock`. A node of a clone is a tuple with its class, name, value, type and
children. `comp_ty_` is not copied, so a clone with an `==` must be validated
before it can be evaluated; a nested block, or an if with one, is not cloned at
all (`tree_cloner.cpp:167`).

### The parser engine

A member function is an operator on the tokens that are left: it yields the tree
and the tokens it leaves, or what it threw. `create_binary_op` calls a member
function through a pointer, `CallMemFn`. Tokens are abstracted to what the
engine tells apart; the source map, which only serves messages, is left out. A
failed assertion is an outcome, there or not with `NDEBUG`. The state of
`Grammar` is a text, and a step appends a token, so that TLC meets every text
over an alphabet.

### The stream

A character is named by its position in the stream; `buffer` is the first
`buffsz_` characters of the `flex_buffer`. The loop of `advance` is an action,
`Skip`. The parser only advances over what it has peeked at (`parser.cpp:480`
and `read_string`), which `seen` records; without that discipline the loop
returns wrong characters, as it neither empties the buffer between its rounds
nor counts what it skipped in it, so the discipline is part of `Next` and what
it buys is proved (`EndOK`). The stream can seek and is at its beginning when
the parser gets it: `sync_stream` seeks to a position that is counted from
there. `linebuff_istream` cannot seek, and there `sync_stream` is outside the
model; the program reads nothing more from it after that.

### The tokenizer

A character is its class where the scanners only look at classes, else itself.
In `Lexer`, `w` is the text that is left; `Peek(w)` yields a token with the
position it begins at (`ws_`), its length and the farthest position that was
looked at. The scanners' loops are recursive functions of the position. In `Tokenizer` every action makes one step of `BufferedStream`,
through `S`: a peek is one `peek_at` of the farthest position, as those before it
read nothing more. The engine is any sequence of `DoPeek` and `Advance`, as its
one token of lookahead allows, that may throw at any time (`ThrowError`, `Locate`,
`CopyLine`: the three calls that `throw_error` makes) and is destroyed in the end.

A token's pointer is the memory that `buffer_` was in (`mem`: the array, or one of
the heap's buffers) and an index. `mem` changes whenever the heap's buffer grows,
the worst case of what `std::vector` may do. Strings are in a buffer of their own,
`strings`. `uncounted` remembers, for the properties, what was advanced over
without counting lines: a string with the blanks before it
(`parser_engine.cpp:58`).

Left out are the byte 0xFF, which `peek_at` returns as the end of the stream, NUL,
and the values that `atoi` and `atof` compute of a number's text.

### The line buffer

A character of the parent is named by its position; `buffer` has the positions of
those that the reader gets, the last of a line break's. An action is a round of
the loop in `underflow`, or an `underflow` that does not enter it. `given` and
`eof` are what the reader has seen; it may ask again after the end, as
`buffered_stream` does, which clears the stream's state.

### The arena

Addresses are a segment and an offset. `header` is the memory as far as headers
are in it, so that `CallDtor` has to find each by following `next()` from the one
before, as `call_dtors` does. Sizes are those of a 64-bit build. `create` is one
action with the constructor: that a constructor throws is left out with all
exceptions of the C++ library. `malloc` always has memory.

## The runs

| run | what it shows |
|---|---|
| `MCPlain` | 11^3 scripts of three lines whose assignments are statements (or cascade), assertions on. Every run of a validated script ends as `Reference` says: same names in the same blocks, same values, and it throws exactly if an expression has no value (`EndsAsMeant`); `populate_symbol_table` enters exactly the names that the scoping rule declares (`EntersTheDeclared`); the variable the interpreter reads is the one the checker typed (`ReadsTheChecked`); an evaluation that stops early does so for the reason the text gives: a variable without a value, an `==` under double or string, a condition without a type, a division by zero (`EndsForTheReason`); classes of constants agree with types (`KindMatchesType`) and types never change (`TypesNeverChange`); the inductive invariant behind the types, `PlainInv`; `query` returns the values of that end, before and after each evaluation (`QueryAsMeant`); a clone has the statements and the typed names of the root, whatever blocks stand between them (`ClonesStatements`) |
| `MCNested` | 9^3 scripts with assignments in operands, comparisons and conditions, without assertions. What holds of every tree: `AssignmentIsTyped`, `EvaluatedIsConstant`, `StatementsRunUnderVoid`, `TablesOnlyAdvance`, the type invariant and the inductive invariant `IInv`; and every phase that is entered is left (`Terminates`) |
| `MCGrammar` | the engine on all texts of up to 7 tokens (8 with braces, 5 with bad ones) over six alphabets: an accepted tree spells the text that was consumed (`KeepsTheText`); where parentheses decide the grouping the tree is the only one the text means (`GroupsByParentheses`); what the grammar derives is accepted to its end, but for a sign whose operand is a sign and a `{` at the beginning (`AcceptsTheDocumented`) |
| `MCStream` | the buffered stream implements a cursor (`CursorSpec`), with its invariant and the limit on reading ahead |
| `MCTokens` | a parser at its stream, on all texts of up to five characters over six alphabets: the next token begins behind the blanks and is the longest word there (`TokensAreLexemes`, against a definition of the words without positions), a string read as what its literal stands for; the engine's token is the one at the parser's position, `advance` is only given what was peeked at, and the parser never stops between a `\r` and its `\n` (`TokenInv`); the token's text is where its pointer leads to while the engine has it (`TokenStaysReadable`); errors are reported at the line they are on (`LinesOfTheText`); a string that is printed and read again is the same (`PrintedStringsReadBack`); the tokenizer only advances over what it has peeked at, which the stream's properties rest on (`StreamSpec`) |
| `MCLineBuff` | the line buffer implements a source of the text's characters (`SourceSpec`) and takes no more than one line (`OneLineAhead`), with its inductive invariant |
| `MCArena` | up to four objects, then the destruction: objects fit (`ObjectsFit`), the arena implements a pool (`PoolSpec`), and `~arena` returns (`DestructionEnds`), with the inductive invariant |
| `MCExecutable`, `MCKind`, `MCKeyword`, `MCGrouping`, `MCLeadingBlock` | five disagreements between the code and what it says of itself (below) |

Bounds, `MCPlain` and `MCNested`: two names, `MaxNum = 20`, `MaxRuns = 2`. Two
names are enough for one to be read while the other is assigned, for a cascade
and for shadowing; three lines for assign, use in an inner block, and re-assign;
the second evaluation is the first that starts from evaluated tables, and later
ones start from what the second started from or its result. The pools contain
each construct in each position that the visitors distinguish, cascades, ifs
with and without blocks, blocks that bind and blocks that do not, every type,
ill-typed lines, uses before assignment, and conditions and comparisons whose
type is unknown. In `MCPlain` validated scripts also stop in each of the ways that
`EndsForTheReason` tells apart: some divide by a variable that is zero, one line
adds an `==` to a double once the variable is one, and an
if whose condition has no type yet fails its assertion. `MCNested` is the build
without assertions, where such an if is skipped.

`MCGrammar`: `AcceptsTheDocumented` and the others look at each text alone, so
the length is what counts. Seven tokens hold three operators with their
operands, a sign inside parentheses, an assignment of a sum, an if with its
condition and body; eight hold a block in a block. An alphabet has four or five
tokens that the engine tells apart together; one has the tokens that nothing
may begin with.

`MCStream`: `INIT_SIZE = 3`, peeking up to 4 ahead, streams of 0 to 8
characters. A peek may stay in the array, need the heap, or reach past the end;
the lengths are those around one and two fillings of either.

`MCTokens`: an array of 2, so that a token of three characters is on the heap and
one of five has moved within it; five characters hold two tokens with a blank
between, `1.1`, an escape inside quotes, a comment with its line break, and a
`\r\n` that is cut by nothing, a blank, a string or a comment. Each alphabet has
the characters on which one of the scanners decides.

`MCLineBuff`: six characters hold three line breaks of two characters, or an empty
line, a line and an EOT between them. `CheckEOT` is true, as in `main`.

`MCArena`: segments of 48 bytes at least, and sizes that fill a segment up to its
last byte, one less, and more than one; four objects need up to four segments.

`CHECK_DEADLOCK FALSE`: a script's life ends when its evaluations are used up, or
it is rejected; a text in `Grammar` ends at its bound; parsers and arenas are
destroyed. A reader of `LineBuff` can always ask again.

Fairness is assumed twice. `MCNested`: `WF_vars(Thread)`, where `Thread` is every
step but the caller's choice to evaluate again. `MCArena`: of the destruction's
steps, not of the creation of objects. The library runs on its caller's thread
and waits for nothing.

### Findings

* `foo = 1.0 + (1 == 1);` validates and cannot be evaluated (`MCExecutable`).
* `y = 1 + (x = 2);` stores a `float_constant` in an entry of type INTEGER;
  `query` reads the double's bytes as an int (`MCKind`). For the same reason
  `y = 1.5 + (x = 2);` changes the type of `x` from INTEGER to FLOATING at run
  time, which the type checker rejects everywhere else (`TypesNeverChange`).
* The name `i` is taken for the keyword `if`: `buff_string::equals` compares as
  many characters as the name has (`MCKeyword`).
* `1 / 1 / 1 / 1` is grouped as `(1 / 1) / (1 / 1)`, so `8/2/2/2` is 4 and
  `8-4-2-1` is 3: a term takes one operator of any kind, then the loop above it
  takes whole terms. For the same reason `2 == 1*2` is `(2 == 1) * 2`
  (`MCGrouping`).
* Of `{a = 1;} b = 2;` the second statement is dropped (`MCLeadingBlock`).

Known from the source, and without a statement in the repository that a run could
refute: `a = - -1;` and `a = 1;;` fail the assertion at `parser_engine.cpp:324`;
a clone loses nested blocks (`tree_cloner.cpp:167`), which `ClonesStatements`
leaves out; the line breaks in a string are not counted
(`parser_engine.cpp:58`), which `LinesOfTheText` leaves out; a string with a quote
in it is not printed as it is read (`printer.cpp:179`), which
`PrintedStringsReadBack` leaves out; and of two variables of one name, `query`
only sees the one of the later block, even if that block was never entered
(`QueryAsMeant` says so); and an if whose condition has
no type when the checker reaches it passes the checker, and then fails the
assertion at `interpreter.cpp:412`, or is skipped by a build without assertions:
`Reference` takes both over from the code.

## The proofs

`PcshProofs` holds for every forest, name set,
number range, build and number of evaluations, from the named assumptions on the
constants in `IR`, `Values`, `Interpreter` and `Pcsh`. `PlainProofs` adds
`PlainAssumption`: an assignment is a statement, the right side of another
assignment, or the body of an if. It is needed: `MCKind` is a script without it
in which the theorems fail. `ReferenceProofs` and `MeaningProofs` add `OrderAssumption` to that: the
nodes are numbered in the order of the text, which names them and says that each
node has one parent, as the parser gives it (a numbering of a tree is no
property of the program, so nothing is lost). `TokenProofs` holds for every bound on the text's
length, every choice of alphabets from the characters and every `INIT_SIZE`,
from `TokenizerAssumption`. `StreamProofs` holds for
every set of lengths, size of the array and distance peeked at, from
`StreamAssumption`; `ArenaProofs` for all sizes, segments and numbers of objects,
from `ArenaAssumption`; `LineBuffProofs` for all texts over any alphabet, from
`LineBuffAssumption`.

| theorem | states |
|---|---|
| `PcshProofs!TypeCorrect` | `Spec => []TypeOK` |
| `PcshProofs!Machine` | `Spec => []MachineOK`: stack, open blocks and visitors agree |
| `PcshProofs!RunsUnderVoid` | `Spec => []StatementsRunUnderVoid` |
| `PcshProofs!EvaluatedConstant` | `Spec => []EvaluatedIsConstant` |
| `PcshProofs!OnlyAdvance` | `Spec => TablesOnlyAdvance` |
| `PcshProofs!Inductive` | `Spec => []IInv` |
| `PcshProofs!AssignmentTyped` | `Spec => []AssignmentIsTyped` |
| `PlainProofs!Plain` | `Spec => []PlainInv` |
| `PlainProofs!KindMatches` | `Spec => []KindMatchesType`: an evaluated entry holds a constant of its type's class |
| `PlainProofs!TypesNeverChanged` | `Spec => TypesNeverChange`: nor does an evaluation change a type |
| `ReferenceProofs!EnteredTheDeclared` | `Spec => []EntersTheDeclared`: the first pass enters what the scoping rule declares |
| `ReferenceProofs!DeclaresAsWritten` | `Spec => []DeclaredOK`: at each step of it, what the text so far declares |
| `ReferenceProofs!WellTyped` | `Spec => []TypingOK`: every node was checked, and its operands fit |
| `MeaningProofs!FollowsTheCourse` | `Spec => []MeaningOK`: an evaluation is where the text says, with the values it says |
| `MeaningProofs!EndedAsMeant` | `Spec => []EndsAsMeant`: it ends with what the script means |
| `MeaningProofs!ReadTheChecked` | `Spec => []ReadsTheChecked`: an expression reads the entry that was checked |
| `MeaningProofs!QueriedAsMeant` | `Spec => []QueryAsMeant`: `query` answers what the script means, at any time between evaluations |
| `StreamProofs!Buffered`, `ReadingAhead` | `Spec => []StreamInv`, `Spec => []ReadsAhead` |
| `StreamProofs!Implementation` | `Spec => CursorSpec`: the refinement |
| `TokenProofs!TokensFollow` | `Spec => []TokenInv` |
| `TokenProofs!LinesCounted` | `Spec => []LinesOfTheText` |
| `TokenProofs!TokensReadable` | `Spec => []TokenStaysReadable` |
| `TokenProofs!UsesTheStream` | `Spec => StreamSpec`: the tokenizer's steps are those of `BufferedStream` |
| `TokenProofs!StringsReadBack` | `Spec => []PrintedStringsReadBack` |
| `TokenProofs!TokensLexed` | `Spec => []TokensAreLexemes`: what `Peek` finds is the longest word behind the blanks |
| `ArenaProofs!ArenaInvariant`, `Fitting` | `Spec => []ArenaInv`, `Spec => []ObjectsFit` |
| `ArenaProofs!ArenaIsPool` | `Spec => PoolSpec`: the refinement |
| `LineBuffProofs!LineInvariant`, `OneLine` | `Spec => []LineInv`, `Spec => []OneLineAhead` |
| `LineBuffProofs!LineBuffIsSource` | `Spec => SourceSpec`: the refinement |

### The life of a tree: `IInv == MachineOK /\ TablesOK /\ PassesOK`

`TypeOK` is not inductive: `Top` and `Visiting` only have a type while their
stacks are not empty, and `LeaveScope` or `EndAssign` pop stacks that some other
call must have pushed. `MachineOK` adds what makes it so: the frames on `stk`
are a path of the tree (`PathOK`), with the accessor's list being the blocks
entered on that path; each visitor on `vis` is owned by exactly one frame
(`VisitorsOK`, a cardinality argument: the number of visitors is the number of
owning frames); a block's saved type is one (`SavedOK`); and nothing is running
between passes (`IdleOK`). The proof has one lemma per way of changing the stack
(`CallStep`, `ReturnStep`, `EnterStep`, ...), then one per action.

`TablesOK` relates flags to what was stored. `VisitsOK` says that the owner of
rank `r` owns the visitor at `r`: a block's is void, any other's has a value
type. `StatementsRunUnderVoid` follows, since the top of `stk` has the highest
rank when it is an owner. `EntriesOK` is about entries and `LastOK` about
`last_assign_`: a cascading assignment takes the constant of a number above the
one it remembered, so there is one. `EvalShapes` sums up each step of the
interpreter (a call, a return, an entry of a block, or an unwinding; the tables
left alone or one entry replaced), so that the later proofs have four cases
instead of fourteen.

`PassesOK` is why evaluation finds what it needs. `populated` and `checked` are
closed under the interpreter's own calls (`Closed`): when a call returns, all
that its visit leads to has returned before it (`ReturnedIn`). Every assignment
in `populated` has its name bound in its scope, and every one in `checked` whose
name is bound has a type; both stay true as tables only advance. An evaluation
starts at the root, which is in both records, and calls only what `Closed`
allows, so an assignment it begins is in both. `typed_interpreter` frames are
left out: their assignments may be in neither record (an assignment in the
condition of an if), which is harmless as `accessor::set` then does nothing.

### Types: `PlainInv == IInv /\ PlainOK`

`KindMatchesType` says that `query` and a later evaluation read the bytes of a
constant as what they are. It is not inductive: what an assignment stores was
computed by a visitor that was created several calls earlier, under a name that
was looked up then. `AssignVisitsOK` says that this visitor's type is that of
the entry which `accessor::set` will find; it was when the visitor was created,
and lookups keep their result while the assignment runs, since nothing below it
opens a block or binds a name (`PureOK`). A cascade has no visitor of its own
for the outer name: it takes the constant that `last_assign_` remembers. That
this is of the outer name's class needs that the second pass compared the two
types (`CascadesOK`, about `checked`, and about `curr_` while the pass is between
the two), that `interpreter.cpp` tells a cascade from an expression by
`last_assign_` having changed, which no expression does, and that what changed it
was the inner assignment (both `SharedOK`). `PlainAssumption` is used in
`PureOK` only: a `typed_interpreter` that runs an assignment computes its right
side as the type that the expression around it wants, which is the finding
`MCKind`. `TypesNeverChange` follows: an entry is replaced with the type of a
constant of its own type's class.

### Scoping: `DeclaredOK`

`Reference` says which block a name belongs to by looking at the assignments
before it and at the blocks around them, as intervals of the text.
`populate_symbol_table` decides it with the tables it has filled so far and the
list of open blocks. `Upto` is how far in the text a stack has come, whatever
pass it belongs to; `DeclaredOK` says that the tables are `Declared(root, Upto)`.
A step of the first pass moves `Upto` on over nodes that declare nothing, or
over one assignment (`PopulateMoves`, `PopulateDeclares`). That the accessor
finds the block that the reference means needs that its list is the blocks
around the top of the stack, inner ones last (`ScopesAround`, from `PathOK`), that
the latest declaration of a name before a node is the innermost that is open
there (`NearestIs`), and, for the interval arithmetic, that trees of nodes nest or
are disjoint (`TreesNest`, `AroundKid`). An assignment declares once its right
side was visited, so the text that counts ends behind it; its right side cannot
declare the same name in between since no plain expression assigns (`PureTree`,
`CallUpto`, `ReturnUpto`), but for a cascade, where the inner one is first.

### Operands: `TypingOK`

`KindMatchesType` is about what is stored. What is computed needs that a
visitor created for one type is never asked for an expression of the other
class: a number at string, or a string at a number, has no value. `Sound` is
what the checker established of a node, `TypingOK` that it did of every node in
`checked`, and that the children of a node in `checked` are in it (`NodesOK`).
While the pass runs, `CallsOK` says which children a call has visited and that
its local variable is a type that the left operand fits, and `CurrFits` that
`curr_` is one that the last child fits. Entries get their types in that
pass; what fits keeps fitting, since no type is changed (`TypesNeverChange`), and
`DeclaredOK` says that the entry the accessor finds is the one that is meant.

### Evaluation: `MeaningOK`

`Course` gives the state before each node of the text: the memory, the next node
that is not skipped, and whether every expression so far had a value. `Spot` is
the node that an evaluation is before: the position that the innermost call of
the interpreter itself has reached (`Doer`; above it there are only
expressions), or that call's own node while it waits for its expression.
`MeaningOK` says that

* the tables hold what the memory at `Spot` has (`MemoryOK`). In the first
  evaluation nothing else is marked evaluated; in a later one everything that
  the first ended with is, so the two cases are kept apart. A cascade assigns to
  its names one after the other while the memory has all of them at once:
  `Pending` are those that come when the outer assignments return;
* each visitor computes the value that the text gives the expression of its
  owner (`ValuesOK`), the left operand is already the value of the left child,
  and if the expression has no value then the script throws here and nowhere
  earlier (`Doomed`);
* an assignment that waits for an inner one will see `last_assign_` changed
  (`SharingOK`).

A call or a return within an expression leaves `Spot` alone. Statements move it over nodes
where the course does not change (`CourseSame`), or over one that acts
(`AssignMemory`, `DecideIfMeant`). `ReadsTheChecked` is where the two meet: the interpreter searches for an evaluated
entry, the reference takes the innermost declared one. If that one has a value
in the memory it is evaluated, and both searches end there. If not, the
expression has no value, and by `Doomed` the memory is that of the end, which
holds whatever any evaluation has marked; an outer entry of the name among it was
declared before this place, and then the inner block would not have declared the name again
(`Single`). So no entry is found, and the read throws (`VariableIs`).

When the stack is empty the course has reached the end of the text, and when a
visitor throws, `Doomed` says that the memory is that of the end; both
give `EndsAsMeant` (`ReturnsAsMeant`, `ThrowsAsMeant`).

`QueryAsMeant` then is about which entry `query` comes to. Its list has every
block of the tree once and in the order of the text (`BlocksAre`, by the greatest
node that the recursive function is right up to), and the search goes through it
backwards, so it ends at the last block that has the name (`QueryFinds`; by
`DeclaredOK` the tables have what the text declares). What `MeaningOK` says of
the entry's flag and pointer, `KindMatchesType` of its class and `EvaluatedTyped`
(inductive with `PlainInv`) of its type leave `query` only the reference's answer.

### The stream

`StreamInv` says that the buffer is the stretch of the stream between `pos` and
the get position. It is inductive together with `ReadsAhead` as `Inv`. `EndOK`
is the part that is not about the buffer: more was peeked at than is buffered
only at the end of the stream; therefore `advance` enters its loop only there,
and the loop finds nothing. The refinement maps the cursor to
`min(pos + buffpos + skip, length)`: going beyond the buffer moves `pos` and
owes `skip`, which the loop then pays in steps that the cursor does not see.

### The tokenizer: `TokenInv /\ LinesOfTheText`

`TokenInv` takes the stream's invariants with it: each action is a step of
`BufferedStream`, so their proofs are those of `StreamProofs`, taken with
`INSTANCE`. What `Tokenizer` adds is the use of the stream. `TokenIsNext` says
that between `do_peek` and `advance` the parser does not move, so the token is
still what `Peek` yields there; `SeenAhead` that what `advance` is given lies
within what was peeked at, which `BufferedStream` asks for (`UsesTheStream`). It
rests on a lemma per scanner: a token begins at or behind the position it was
asked at, ends within the text or one behind it, and lies within its `reach`.

`advance` counts the line breaks of what it consumes and looks at no character
before it, so a `\r\n` that is consumed in two parts would be two breaks.
`BetweenBreaks` says that no step ends inside of one. It holds since blanks and
comments are consumed together with the token behind them, and no token ends
with a `\r`, nor does the place of an error follow one. The ends of line breaks
before the new position are then those before the old one and, disjoint from
them, one for each of `Breaks` (`BreaksCounted`, a bijection from a break's first
character to its last), and `LinesOfTheText` follows by cardinality.

`TokenStaysReadable` is preserved since nothing but a peek moves the buffer, and
none happens while the engine has its token. That it holds at first is that the
pointer is computed after the token was read; that the character behind a number
is inside the buffer, which `atof` needs, is that the scanner has peeked at it.

`StringsReadBack` follows the characters of a string through `PrintString` and
`ReadChars`: reading from where a character was printed yields it and goes on
where the next one was.

`TokensLexed` says of every text what `TokensAreLexemes` compares: `Peek`, which
walks over positions, and `WordEnds`, which asks of each prefix whether it is a
word (`PeekIsLexeme`). The first character decides which words can begin there
(`FirstDecides`); then there is a lemma per scanner on exactly which prefixes are
words (`NameWords`, `NumberWords`, `StringWords`), whose last is where the
scanner stops. For strings, `read_string` skips a character behind each
backslash, while the definition counts the backslashes before a character:
`ReadsFrom` says what the loop has read when it begins at a character that is not
escaped, and `ReadsRound` that it then meets only such. The same loop leaves in
its buffer what each kept character stands for, counted by cardinality
(`PutStands`). `FindSkips` says that all that was skipped is blank.

The scanners are recursive functions of the position. What they return is
proved without an induction rule: of the positions where a claim fails there
would be a least or a greatest one (`Least`, `Greatest`), and the function's
equation refutes it. That the equation has a solution is proved in the same
way, from the functions that solve it from some position on.

### The arena

`ArenaInv` is inductive. `Chain` says that the headers of a segment are met by
following `next()` from its begin() and that the stretches they speak for do not
overlap; it is stated of a list of segments, since a new segment is in the list
before it has an object. It rests on `Fits` being strict and on sizes being
rounded, so that `left` never goes below zero and offsets stay multiples of 8.
`ObjectsOK` ties objects to headers in both directions; `ObjectsFit` and the
disjointness that `ObjectPool!Create` asks for follow from the two. `WalkOK`
relates the walk of the destruction to what was destroyed: exactly the objects
behind it, so `Destroy` never meets one twice and `Return` finds all of them
destroyed.

### The line buffer

`LineInv` is inductive: the buffer has exactly those of the kept positions that
were taken and not yet given, in order (`BufferOK`); a `\r` and a `\n` after it are
taken together (`LineOK`); and the end was found where the text, or the part
before the first EOT, ends (`EndOK`). A `Take` is the source's `Give`: there is no
kept position between the last one and this, as it would be in the buffer before
it. The end is the source's `End` since no kept position is left in the parent
(`AllGiven`).

### Only model-checked

* `ClonesStatements`, `KeepsTheText`, `GroupsByParentheses` and
  `AcceptsTheDocumented` refer to recursive operators (the clone, the engine),
  in modules that the prover does not take.
* `EndsForTheReason`. What is proved is `EndsAsMeant`: an evaluation that stops
  early is one whose text has an expression without a value, or fails the
  assertion about a condition without a type.
* `Terminates` and `DestructionEnds` are liveness properties.

## Not modelled

* **Printers**: output only, no state of the library changes. Of their text only
  the escapes in strings are modelled, since those are read back.
* **`main`**: options, one parse and one evaluation.
* **`symbol_table::set_var_type`, `copy_into`**: called by nobody.
* **Unit tests, build files, coverage reports, `version.cpp`**.
* **Streams that cannot seek** or that are not at their beginning when the
  parser gets them, after `sync_stream`.
* **The source map**: which line a type error is reported at.
* **Exceptions of the C++ library**, `bad_alloc` in particular.

## Plan

What the models could still be used for, most important first.

1. `LineBuff` under `BufferedStream`: the stream that `main` gives the parser, with a
   `sync_stream` that fails.
2. The source map of `parser_engine`, with `LinesOfTheText` for the lines that type
   errors are reported at.
