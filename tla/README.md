# sealang: a verification project

sealang is a compiler for a small C-like language, written in C++ (`src/src`,
`src/include`; the language is described in `src/LangSpec.txt`).  It is a
sequential program: a lexer makes tokens of the source, a parser driven by a
table of rules builds the AST and the table of types, and a few passes over the
AST resolve names and types and check the program.  There is no driver yet
(`main.cpp` runs none of the phases).  `ASTContext` calls the resolver, `MakeCompleteType` and the
printer; the tests, four of which call names that no longer exist (`CheckLocalVar`,
`CheckRecursiveTypeDef`), show the order that was meant: parse, resolve, complete, check, print.
Nothing calls `Sema`, `TypeChecker` and `CheckSemanticError` any more, so the model calls the
phases in every order.
The build (`-Wall -g -std=gnu++11`) leaves asserts enabled, and they are how an
error ends the program.

This directory models the whole way from the characters of a source to the answers
of the checks, with the hash table, the vector and the list below it; TLC checks
the models, and TLAPS proves the core of the scanner, the engine, the containers and
the phases for every value of their constants.

## Inventory

| Component | State | Operations | Talks to | What makes it correct |
|---|---|---|---|---|
| Lexer `Lexer.cpp` | source text, `tokens_`, cursor `cur_tok_` | `CompileTokens`, `MakeToken`; `isToken`, `ConsumeToken`, `GetTokPos`, `SetTokPos` | parser (cursor) | at each place the longest lexeme; every source ends in one TokEof; the scanner always moves on |
| Grammar engine `Parser.cpp` 20-449 | C++ stack of activations, cursor | `TraverseRule`, `TestRule`, `StartParser` | lexer, rule table, actions | a rule matches what its parsing expression says; giving up restores the cursor; it ends |
| Rule table `ParserGrammer.cpp` 32-573 | `rules_` (constant) | `InitBasicRule` | engine | no left recursion, no empty repetition, lookaheads that decide |
| Semantic actions `Parser.cpp` 451-3738 | `parse_stack_`, AST | one per rule | engine, AST, types | the tree is the program; no item is left over or missing |
| AST `ASTNode.*`, visitor, printer | nodes | constructors, `Visit` | all passes | every child is visited once, in order |
| Types `ASTType.*`, `TypeTable.*`, `ASTContext.*` | table from names to types | `Get`, `Add`, `Find`, `CheckSemanticError` | actions, resolver | no class contains itself |
| Hash tables `core/hash*.h` | buckets, count, iterator | `Insert`, `Find`, `Delete`, `Clear`, `GetValue`, `ResetItr`, `Next` | type table | a map; the iterator visits every entry once |
| Containers `core/list.h`, `simple_vector.h`, `stack.h`, ... | elements, count, iterator | push, pop, delete, find, reverse, assign | everything | a sequence |
| Scopes, `LocalVarResolver` | tree of scopes, current scope | `PushScope`, `PopScope`, `FindDecl`, `Resolve` | AST | a variable refers to the innermost declaration in scope |
| `TypeResolver` | members of classes | `MakeCompleteType` | types, AST | every class has the members of its definition |
| `Sema`, `TypeChecker` | the answers of the checks | `Check` | AST, types, resolver | a program that breaks a rule is refused, no other |
| `ErrorDiag`, `main`, IR, `ElfLoader` | - | stubs and messages | - | - |

What is hard in this code is not concurrency, of which there is none.  It is:

* **backtracking**: an alternative may fail after any number of tokens; the
  cursor has to come back, through every nesting of repetition, option, sequence
  and lookahead;
* **actions without undo**: actions run while the parse may still be given up,
  and nothing takes their items off `parse_stack_` again;
* **actions by depth**: an action finds its operands by their position on the
  stack and the rule names they carry, and nothing ties it to the rule table;
* **context**: whether a name is a type is asked of a table that changes while
  the program is parsed;
* **termination**: `while(true)` loops, recursion through a table, a scanner that
  may make an empty token, a search that follows types in circles;
* **order of tables**: operators and keywords are tried in the order of a table
  whose lengths are written by hand;
* **phases in any order**: each leaves something for the others (bindings,
  members of classes) and takes it for granted;
* **pointers**: links of lists and buckets, iterators inside of containers, null
  pointers that are followed;
* **the edges** of hand-written containers, and memory nobody initialised.

`PROJECT.json` lists each hazard at its line, with the properties that would
catch it going wrong, or the reason why none does.

## Modules

| Module | What it is |
|---|---|
| `RuleEngine` | `TraverseRule` and `TestRule` for any rule table, any actions and any token streams |
| `RuleEngine_proofs` | its inductive invariant and the theorems about it |
| `Language`, `Language_proofs` | what a rule table means as a parsing expression grammar, and the proof that the engine answers it |
| `Ranking`, `Ranking_proofs` | rule tables whose recursion consumes tokens, and the proof that it does |
| `Grammar` | the rule table of the language |
| `ParseActions` | the semantic actions, as operators on the parse stack and the context |
| `Parser` | the two put together, with history variables that watch the stack |
| `Printer` | the concrete syntax of `LangSpec.txt`, from trees to tokens; shares nothing with the parser but the names of nodes |
| `Programs`, `Contexts` | pools of programs: as trees for `Printer`, and as the parser leaves them |
| `MCEngine` | the engine on a small grammar, and the meaning of that grammar, computed |
| `MCParser` | the parser on programs written by `Printer`; the ranks of its rules |
| `MCNearMiss` | the parser on programs with a mistake, and on short bodies |
| `TokenTable`, `Lexemes` | the table of keywords and operators; what a text spells: at each place the longest lexeme, in its line and column |
| `Lexer`, `Lexer_proofs` | the scanner, and the proof that its tokens are in order and are those lexemes |
| `MCLexer` | the scanner on texts |
| `AST` | the nodes and the order of their children |
| `Driver` | the context of the parser, and who calls which phase |
| `Passes` | `Scope`, `LocalVarResolver`, `Sema`, `TypeChecker`, `ASTPrinter`, `ASTVisitor` |
| `Types` | `TypeResolver` and `CheckSemanticError` with `CheckRecursiveTypeDef` |
| `Phases`, `Phases_proofs` | both together on one context, what each phase is to answer, by definitions over the trees, and the proofs that it does |
| `MCPhases` | the phases on the pool, in every order |
| `AbstractMap`, `HashTable`, `HashTable_proofs`, `MCHashTable` | a map, the chained table, and the proof that it is one |
| `AbstractVector`, `SimpleVector`, `SimpleVector_proofs` | sequences, the growing arrays, and the proof that they are |
| `AbstractList`, `SimpleList`, `SimpleList_proofs` | a sequence with a place in it, the linked list, and the proof that it is one |
| `MCContainers` | the vectors and the list for TLC |

They compose along the program: `Parser` is `RuleEngine` with `Grammar` and
`ParseActions`; the streams of its runs are those `Lexer` makes of the same texts
(`MCLexer`, property `Delivers`); what it leaves in a context (`ParseActions`) is what the
phases of `Phases` work on, and the names that bind in `Passes` are read by `Sema` in
the same module, the classes completed by `TypeResolver` in `Types` by the search
for recursive ones.  Identifiers keep their names in the code; operators that end
in a remark "Faulty variant" or "Mutant" are not part of a specification: they are
what a plausible mistake would look like, and each breaks a property.

### RuleEngine

The C++ call stack is `frames`: one frame per activation of `TraverseRule`
(`test = FALSE`) or `TestRule` (`test = TRUE`), with the local variables of the
code (`tok_pos`, the index `i` of the sub-rule, the phase) and one more,
`pos0`, that remembers where the call began and is read by properties only.
A callee that has returned stays on top in phase `ret` until its caller has read
the result.  Every call, every return, every loop iteration and every exit of
the two functions is an action of its own:

| Code | Actions |
|---|---|
| the loop over lookaheads, in all kinds | `LookAhead`, `LookaheadTrue`, `LookaheadFalse` |
| `TraverseRule(rule.sub_rules_[i])`, `TestRule(...)` | `Descend`, `Advance` |
| `case Terminal` | `TerminalMatch`, `TerminalMismatch`; `TestTerminal` |
| `case RepeatStar`, `case RepeatDagger` | `RepeatStarIterate`, `RepeatStarStop`, `RepeatDaggerIterate`, `RepeatDaggerStop`; `TestIterate`, `TestStop` |
| `case Select` | `SelectTake`, `SelectNext`; `TestSelect` |
| `case Sequence`, `case Options` | `SequenceMatch`, `SequenceFail`, `OptionsMatch`, `OptionsSkip`; `TestSequence` |

The success action of a rule is called in the step that ends the rule, before
the token is consumed in `TerminalMatch`, as in the code.  An action that runs
into an assert ends the parse with `ActionError`, a fail action that answers
`Error` with `SyntaxError`: every caller of an `Error` asserts, so nothing
follows either.  Three names of the code are easy to misread: `RepeatStar` is
"zero or more", `RepeatDagger` "one or more", and the lookahead 16 means one
lookahead that also asks for the name of a type.

The assumptions on the constants are what the code and the lexer give: sub-rule
lists are not empty, a terminal names its own token, the start rule is a sequence
nothing calls, every stream ends in its only TokEof, and only the last step of the
start rule asks for that token.  TLC evaluates them for the real rule table in
the runs of `MCParser` and `MCNearMiss`.

### Language

`Language` says what a rule table means, without frames, cursor or backups.
`Reads(s, m, r, p, o)` is that rule `r` reads from position `p` of the stream `s` up to
position `o`, or fails (`o = Fail`); `ReadsFirst` the same of the first `n` sub-rules one
behind the other.  `m` is the way of reading: `TraverseRule`, or `TestRule`, for which a token
counts only where a name has a type if the lookahead asks for that.  The rules of the grammar
are `TerminalReads`, `SelectReads` (the first alternative that reads), `SequenceReads`,
`OptionsReads` and `RepetitionReads`; a failure is a reading too, with a proof of its own, as in
a parsing expression grammar.  The quirks of the code are in the rules: `TestRule` does not look ahead,
`RepeatDagger` fails where an iteration breaks off.

The two relations are constants, assumed closed under the rules.  The least
such pair is the language of the table, and what holds of every closed pair holds of the least.

### Ranking

A rule may match nothing when it repeats, is optional, or all its parts may
(`MatchesNothing`); a sub-rule that may be called at the token its caller was
called at is a left corner of it (`LeftCorner`).  `Ranking` asks for a rank of every rule
that is greater than those of its left corners, and that a repetition has a part that
consumes.  `MCParser` computes the ranks of the 234 rules of sealang, level by
level; TLC finds the assumptions true in each of its runs.  A table with left
recursion has no such ranks, and the computation ends with rules that have none.

### ParseActions

`parse_stack_` is a sequence of items with the type and the rule name of
`ParseInfo`; the union `data_` is a tree.  An action is an operator from the
stack to the set of its outcomes: none when one of its asserts fires, one as a
rule, several where the code reads memory nobody has written.  There are two such
places.  `DefVars` and `DefFunc` look for the storage class below the type, and
before the first definition that is the slot below the stack (`ReadStorage`);
and `rule_name_`, which `Storage` leaves unset, is compared by `DefFunc`
(`ReadFunctionStorage`).  The copy of the first name of an import lacks its
terminator; what it holds may go on with garbage.

`Reduce` says what nearly every action does: read some items from the top, check
their types and rule names, put one in their place.  The definitions name the
action's rule; `StackAct` is the table `rule_actions_`.

The actions are modelled as they are, with what does not work: see
"Disagreements".

### Lexer

The state is the position with its line and column, the token at hand, the tokens
so far, and the loop the scanner is in.  A branch of `MakeToken` is an action, a loop
one action for every round and one for each of its ends.  Keywords and operators
are tried in the order of `TokInfo` (`First`), with the lengths written there.  A source
is a sequence of characters, as the pointer `read_pos` sees it.
The model keeps what the scanner does to characters it has no rule for: it makes
empty tokens in place for ever (`MaxTokens` bounds how long one looks on), and behind a lone
quote at the end of the text it reads what is not its own (phase `lost`).

### Driver, Passes and Types

A tree is a tuple named after its class; `Children` is the order of `ASTVisitor`.
The C++ stack of `Visit` calls is `agenda`, what is still to be done.  Each visitor
has one action for every kind of node it treats itself and `VisitChildren` for the
others.  `PopScope` is an item of the agenda behind what stands inside of the scope, as
it is the last statement of the visit.  A phase ends with "true", with an
assert, or with a null pointer that is followed (`crash`); after one of the last two
nothing follows.  A variable is bound to its declaration by their paths in the
tree.  A scope also remembers the path of what it is for (`extent`), which the code does
not keep and no action reads.

The trees are those below a set of nodes (`Nodes`) that has the children of its nodes
(`TreesAssumption`; members of a class are nodes too), declares only declarations and parameters and has only
classes in the list of classes (`DeclsAssumption`), and has an end below
each (`HeightAssumption`): `Height` counts the levels, so `Tree` is made level by level and
needs no recursion.  TLC evaluates the three for every program of the pool.

`Driver` stands for who calls the phases: `main.cpp` does not, so each of the six may
be called once, in any order, and never is also possible.  After a refused program
there are no `Declarations`: the printer says so, the other phases go
through the null pointer.

`CheckRecursiveTypeDef` calls itself last, so an activation is a step and the depth a
number; where the code has a finite stack the model has `MaxDepth`.

### HashTable, SimpleVector, SimpleList

Memory is a function from addresses to elements, and `new` takes one never used
before: a pointer to what was deleted, and null, show when they are followed.
In the hash table the loops of `Insert`, `Find`, `Delete` and `GetValue` go one element a
step; the others, and the list, do an operation at a step.  What the code leaves
unwritten, or reads behind an array, is a value of its own (`Wild`, `Garbage`).

The abstract specifications say what a caller may rely on, which is less than the
names promise, and they say it in the terms of the caller: a vector assigned to itself is
empty, comparison goes by the nearest element, strings are lost when their vector grows
(`AbstractVector`); the last value of a list is never found, the first of several
must not be deleted, and an iterator must not stand on what is deleted (`AbstractList`).
Each names the calls that have a rule; the refinement shows that only a call
that breaks its rule ever goes wrong.

## Runs

| Run | Question | Size |
|---|---|---|
| `engine` | is `TraverseRule` a recogniser of parsing expressions, and does it end? | 47,000 states, 105 s |
| `round_trip` | is the tree the program? | some 170 programs, 576,000 states, 45 s |
| `near_miss` | is what is accepted exactly what was written? | 870,000 states, 90 s |
| `lexer` | are the tokens the longest lexemes of the text, and does the scanner end? | 135,000 states, 85 s |
| `hash_table` | is the hash table a map, and does its iterator visit everything once? | 822,000 states, 70 s |
| `containers` | are vectors and lists sequences? | 301,000 states, 90 s |
| `phases` | does each phase refuse, crash and bind exactly where it should? | 339,000 states, 55 s |
| `switch_case`, `operators`, `full_language`, `lexicon`, `links_names` | where do code and documentation disagree? | seconds |

**engine.** `MCEngine` gives the engine a grammar in which every kind of rule
occurs in both functions, with and without lookahead, and all sequences of up to
four tokens (`MaxTokens`; 341 of them, with names of types and other names).
Four tokens are what the longest path of the grammar needs: a declaration and a
failed second one behind it, or two iterations and a third that fails after its
first token.  The actions push and pop and may refuse (`MaxStack`), a fail action refuses
some tokens and leaves others to the next rule, and what is the name of a type changes with a
declaration, so that every verdict and every error path is reached.  The invariants are the parts of
the inductive invariant `IInv`, `TokenBounds`, and `MatchesGrammar` and `ParseMatches`,
which compare each answer, each position and the verdict of the whole parse with what the
grammar reads.  For `Reads` the run takes a recursive program (`End`) that finds the
one reading; TLC finds it closed under the rules of `Language` for every stream.

**round_trip.** Each program of a pool is printed and parsed; the tree has to
come back (`RoundTrip`).  The pool has all nestings of two operators of different
priority on both sides, all prefix operators around and inside of each other,
every type in every place where a type may stand, every statement inside every
other one, all parameter lists, both meanings of `a * b;`, imports, and the
sources of `src/test` that parse.  Two nested operators are enough because an
action sees only the rule names of its operands; the two chains through all
levels check that every level hands its operand on.  Along the way no
alternative may be given up with the stack changed (`NoStale`), and a rule for
one thing leaves one item (`PushesOne`).  The lists of declarations come back in
the reverse of the source order, which is how `CompilationUnit` builds them.

**near_miss.** Programs with one token deleted, replaced or inserted, and all
function bodies of at most three tokens (`MaxBody`) out of an alphabet in which a
name may be a type.  One edit reaches the states a round trip never does:
alternatives that fail late, lists cut short, leftovers.  Here `NoStale` does not
hold: `const t a = ;` leaves the type and the name of a constant that was never
defined.  `StaleRefused` says that this happens
only in programs that are refused in the end; `NothingDropped` that a program
that is accepted prints back to exactly its tokens.  One source is outside of
it: `class t x;` where `t` is an alias is accepted as `t x;` (`LosesClass`).
`RepeatProgress` and `NoLeftRecursion` bound loops and recursion of the real
rule table; `Ranking_proofs` proves both.

**lexer.** All texts of up to four to six characters over seven alphabets: operators
that begin one another, letters and digits with a keyword, remarks, strings with line
ends.  Five characters are what the longest operator and what stands around it need, six a remark with a
sign of its own inside.  To these come every keyword alone, in front of a digit, behind a
letter and twice with a separator, all programs of `round_trip` as text, and texts with
characters that begin nothing.  `SpellsLongest` says of the tokens of a plain text (`Plain`) that each is
a longest of the lexemes at its place (`LongestAt`), that only blanks lie between two (`Gap`), and that it has the
line and column of that place (`Placed`).  The column is not compared behind a string in the same line,
because the quotes are not counted, and neither is compared behind a remark with an empty line, of which
the second line end is passed unseen (`ColumnsCounted`, `LinesCounted`).  `Delivers` ties the runs of
the parser to the scanner; `Terminates` says that texts of the language come to their end.
`StreamOK` is about all texts: no character is in two tokens, and the stream ends
with the one TokEof, as `RuleEngine` assumes.
Of the texts outside the language not all come to an end: for `_` or a name that begins with `A` the scanner makes empty
tokens for ever.

**hash_table.** Four keys in three buckets, three of them together, at most three
allocations (`MaxNew`): an element can go from the front, the middle and the end
of a chain, and an empty bucket lies between two filled ones.  All sequences of calls of
all operations.  `ImplementsMap` is the refinement of `AbstractMap`, `Linked` what holds the
chains together, `GetValueAnswers` what is left of the count, `VisitsEachOnce`
the iterator while nothing changes, `Returns` that every loop ends.

**containers.** Two vectors of up to three values whose storage grows by two, so that both
a growing push and a growing assignment happen; one list of at most four
allocations, so that something lies before and behind a middle element when an iterator stands on
it.  `ImplementsVector` and `ImplementsList` are the refinements; `ListLinked` also says that the
destructor leaves nothing behind.

**phases.** The six phases, each at most once, in every order, on programs with names in nested
scopes, every kind of expression, `void` in every place, and classes that contain each
other by way of members, aliases, arrays and pointers, and on what a refused program leaves.
`BindsInnermost`, `ResolveExact`, `SemaExact`, `CheckExact`, `PrintExact`, `CompleteExact` and `RecursionExact`
each say of a phase, by a definition over the tree, when it answers true, asserts, or goes
through a null pointer.  `MaxDepth` is six activations of `CheckRecursiveTypeDef`: more than the
longest chain of types of the pool that does not go in a circle, so only a circle
exceeds it; the second way to overflow, more types on a way than the stack has room for, is for other
values of `MaxDepth`.  Some trees of the pool cannot come from the parser yet (calls, array references, member
functions, which it refuses or asserts on): the passes are written for them.

The runs `lexer`, `lexicon` and `containers` do not check deadlock: a scanner that has ended
and a container that is destroyed or broken do nothing more.  In the others the
end is an explicit stuttering, and a step that is missing would be reported.

### Fairness

Everything runs in one thread and nothing waits, so what has been called goes on: weak
fairness of the steps of a parse (`engine`), of the scanner (`lexer`), of a call on a table
(`hash_table`) and of a phase that runs (`phases`).  Nothing makes anyone call an operation
or a phase: calls are not fair, and no property needs them to be.

### Disagreements

* **switch_case.** `RepeatDagger` declares `success` inside its loop, so it always
  answers False.  `switch` with a `case` never parses (and the text `switch` never
  becomes the token, see `lexicon`).
* **operators.** `!` parses as bit-not and `~`, if written, as logical not: the
  two rules have each other's token.  `^` builds the node of `|`.
* **full_language.** Constructs of `LangSpec.txt` that the parser has rules for
  and refuses: a `void*` first parameter, a third parameter, function calls and
  the other postfix operators, `if` with `else`, empty statements, empty clauses
  of `for`, `sizeof(type)`, member functions, function types.  TLC shows the first.
* **lexicon.** A character literal is overwritten by what stands behind it; names that begin
  with `A` or `B` have length zero; `switch` is an identifier, because its length is
  written as 5.
* **links_names.** The resolver looks at the first variable, constant and function only, so
  the names of the other initializers and functions are never linked.
* **phases.** `CheckExact` passes because it says what `TypeChecker` does, and that is not what the
  language says.  `LangSpec.txt:76-78` has `f(void)` and `f(int a, ...)`, and the tests write
  `void test(void)` (`test_parser_func.cpp:7`, `test_variable_resolver.cpp:7`).  For
  `(void)` the parser builds a parameter of type `void` without a name (`Parser.cpp:1286-1290`), and the check of
  parameters asserts on that type (`TypeChecker.cpp:94-97`): **every program with a function that has no
  parameters is refused**.  For `...` it builds one without a TypeNode, and the check goes through the
  null pointer.  In the other direction `class { void c; }`, which `TypeChecker.h:20` gives as
  refused, passes, because `Check` never comes to a class.  The pool has all three
  (`VoidPrograms`, `ExprPrograms`).

Smaller ones, which the models keep: `GetSize` leaves out the first element of each bucket;
the answer behind the loops of `GetValue` is never given; the iterator of a table is not initialised (the
model takes the values that mean something: rows, `MAX_TABLE`, null and an unknown address), and
that of an empty table stays where it was; the printer and `MakeCompleteType` go through a null
pointer for every function; Sema is not told when the resolver has bound nothing.

## Proofs

Everything here is proved for all values of the constants.

| Module | Theorem | Says |
|---|---|---|
| `RuleEngine_proofs` | `Invariance` | `Spec => []IInv` |
| | `TypeCorrect` | the cursor stays in `0..Len(tokens_)` |
| | `CallStackSound` | below a lookahead only `TestRule` runs |
| | `BackupsNest` | no activation goes back behind its call |
| | `NeverReadsPastEnd` | no token is read behind the TokEof |
| | `FailureRestores` | False means the cursor is where the rule began |
| `Language_proofs` | `AnswersMatchGrammar` | every activation answers, and consumes, what the grammar says of its rule |
| | `ParseMatchesGrammar` | so does the whole parse |
| `Ranking_proofs` | `LeftRecursionFree` | no rule is called while the same one runs from the same token |
| | `RepetitionsConsume` | every iteration of a repetition consumes a token |
| `Lexer_proofs` | `TypeCorrect` | the cursor stays between the first character and the terminator |
| | `StreamSound` | the tokens lie one behind the other in the text, the only TokEof last |
| | `LongestSound` | of a plain text they are its longest lexemes, first to last, in their lines and columns |
| `HashTable_proofs` | `Invariance` | `Spec => []IInv` |
| | `TypeCorrect` | the table, its iterator and the locals of its calls have their types |
| | `GetValueSound` | the loops of `GetValue` never run off the table |
| | `LinksSound`, `IterationSound` | `Linked`, `VisitsEachOnce` |
| | `CountSound` | the count never exceeds the number of elements |
| | `Refinement` | the table implements `AbstractMap` |
| `SimpleVector_proofs` | `TypeCorrect` | the storage is as large as the code takes it for |
| | `Refinement` | the vectors implement `AbstractVector` |
| `SimpleList_proofs` | `InvOK` | `ListSpec => []ListInv` |
| | `LinksKept` | the elements in use are those linked, both ways |
| | `Refinement` | the list implements `AbstractList` |
| `Phases_proofs` | `ScopesSound` | a phase leaves every scope it enters, in order |
| | `PhasesSound` | `Spec => []PhasesInv` |
| | `TypeCorrect` | variables are bound to declarations, classes are completed, nothing is left of a phase that has ended |
| | `BindingSound` | a name means the innermost declaration around it |
| | `ResolveSound` | in what it visits (the first variable, constant and function) the resolver refuses what it should, and only that, and binds every name of the rest |
| | `SemaSound` | Sema refuses, crashes and accepts exactly where the tree and the bindings say so |
| | `CheckSound` | TypeChecker accepts just what has no `void` or array of it as the type of a variable, parameter or local, and no `...`; `(void)` is such a parameter |
| | `PrintSound` | the printer gets through what has no function, and through nothing else |
| | `CompleteSound` | every class has the members of its last definition, unless a function outside of classes or in a definition that is not passed over ends it |
| | `RecursionSound` | the search for recursive classes reports only classes that are part of themselves, overflows only on circles, and gets through only when all ways from all classes have an end |

**The engine.** `IInv` is the conjunction of `TypeOK`, `CallChain`, `Positions` and
`FalseRestores`, and none of them is inductive alone.  That a rule restores the cursor
needs its backup to be the place where it began, which is true except for a
repetition (`Positions`); that a failed *sub*-rule did so is not needed, because
every caller sets the cursor itself.  That the cursor never passes the end needs
the whole call stack: the only token rule that may consume the TokEof is `Eof`,
called by the last step of `Start` (`EofCalled`), so at the moment it is consumed
there is no activation left that could read on (`AtEnd`); and that a caller's
backup is a token before the end needs the backups to nest.  The proof has one
lemma per action, or per group of actions that differ only in what follows them
(`ResumeStep`, `BackStep`, `OnStep` for a caller that goes on, `PushStep` for a
call), and lemmas about the steps of a sequence (`Pushed`, `CutBack`).

**The grammar.** `LanguageInv` says of every activation on the stack what it has read so far
(`ReadSoFar`): the lookaheads behind it, the sub-rules before `i`, or the alternatives that have failed.
A repetition has consumed iterations before the present one, and nothing keeps them; what it has read
is said the other way round: whatever the rule reads from its backup, it reads from where it
began.  With that every return is one use of a rule of the grammar, and no induction over the
relations is needed, which the provers could not do.  `IInv` supplies the positions, `InMode`
that an answer is in the way its caller asked for.  The hypothesis `[](ac_ \in Contexts)`
says only that `Contexts` holds every context the actions produce.  A lookahead with names of types reads in
the context of the moment, so a rule may read differently in another context; the grammar allows
each.  The verdict is that of the activation of `Start` that is left alone on the stack (`VerdictInv`).

**Ranks.** `Ranked` is what `IInv` lacks: an activation either stands behind a token it has
consumed or is at a left corner (`Far`); a rule outside `Nullable` that has answered True has consumed
a token; so along the call stack the position grows or the rank falls, and the same rule
cannot appear twice at one position.  It relies on `IInv` for the nesting of the positions.  The
assumptions about the table are checked by TLC for the 234 rules of sealang, so the two theorems
hold of its parser for every source, and the stack is never deeper than ranks and tokens allow.

**The scanner.** `IInv` says of the cursor that it is in the text (`PositionOK`), of the tokens
that each ends before the next begins (`TokensOK`), and of the token in work that it ends
at the cursor or before and begins behind all others (`PhaseOK`); without the last part the order of the tokens is
not inductive.  A step is one of a few kinds (`PassesOK`, `AddsOK`, `EntersOK`, `StaysOK`,
`GrowsOK`, `DoneOK`), and that the cursor stays in the text comes down to two facts: a character that is
not NUL is one of the text, and a sign that is found is in it.  tlapm knows no lengths of
strings and its solver cannot read all of the operators, so the few facts needed of fixed
texts are `TablesAssumption`: TLC evaluates it for the whole table of tokens.  `StreamSound` is what
`StreamAssumption` of `RuleEngine` says of a stream, so the theorems about the engine
hold of every text the scanner takes.

`LongestSound` needs to know what has been read: `Reading` says that the tokens made so far are read as
they should be (`AllRead`) and lead to where the cursor or the token in work begins (`Reaches`), and what each loop has
passed since (`StarRead`, `LineRead`, `StringRead`, `WordRead`: no end of a remark, no quote, only word
characters and no keyword at its front).  The rest is about texts alone and knows no step: where a loop
ends there is a longest lexeme (`StarLongest`, `LineLongest`, `StringLongest`, `WordLongest`), the first entry of the
tables that is found is one (`KeywordLongest`; `OperatorLongest`, because `TablesAssumption` says that no longer sign
stands behind a shorter one), what is not closed at the end of the text is none (`Unclosed`), and lines and
columns are counted with the cursor (`PlacedOn`, `PlacedLine`, `PlacedSkip`).  The reference is not recursive: a token says where the
one before it has led, so no induction over texts is needed.

**The hash table.** Because `new` never reuses an address and `Insert` puts its element in front, the
links of a bucket can be said without following them: `next_` leads to the newest of the older
elements, `prev_` to the oldest of the newer ones (`Linked`).  That makes the invariant
inductive without recursion.  With it: no two elements have one key, what a search has passed does
not have the key it looks for (`SearchInv`), and what lies behind the iterator is what it has shown
(`IteratorInv`).  The refinement follows step by step.  `GetValue` stops when it has passed `index` elements, which
the count bounds: what it has counted is what lies before the place it looks at (`ValueInv`).  Nothing is assumed about the hash function.

**The vectors.** The type invariant is inductive once it says that storage is empty or at least
`ExtendSize`: else the copy that reads as many elements as the new array has could leave
out an old one.  The refinement maps a vector to the first `count` cells of its storage.

**The list.** An address may lie anywhere in the chain, since elements are pushed at both ends and deleted in
the middle, so the links are said by a witness: there is a sequence `c` of the addresses in use with
`next_` and `prev_` between neighbours and null at the ends (`Chained`, `ListInv`).  The recursive function
`Nth` of the model is then this `c`: two functions that begin at `first_` and follow `next_` agree up to the count
(`WalkIs`, from the least place where they would not).  Each call is a change of the chain: one element at an
end (`BackChain`, `FrontChain`), or one less (`ChainTaken`); the refinement reads the values and the
iterator's place along it.

**The scopes.** `Nests` says of the agenda's scopes to be left that each is the parent of the one
before, from the current scope to the top one.  It is about the indices where the agenda leaves a
scope, which shift as items come and go in front of them (`NestedMoves`) and of which one is
added when a scope is entered (`NestedEnters`).  The other parts of `IInv` say that the agenda holds
nodes (`AgendaOK`), scopes hang below earlier ones (`ScopeTree`), declarations are lists of
nodes (`DeclsOK`), and only a pass has an agenda (`Busy`).  For this theorem only
`TreesAssumption` is used: children are nodes.

**The checks.** Of a pass it is enough to know that the trees still on the agenda hold all that is
wrong in the program (`Covered`): a node that is treated is either wrong, and the
pass stops there as it should (`Treats`), or it gives way to its children, whose trees with the node
itself are the tree of the node (`TreeUnfolds`, from the levels and `Least`).  `PassKept` says so once for Sema,
TypeChecker and the printer.  What Sema finds depends on the names bound, so its answer must outlive a resolver that is
called later.  It does, because before the resolver no name is bound and a Sema
that answers true has then seen no array at all (`NoArrays`).

**The bindings.** `Resolving` is what holds while the resolver runs.  `ItemsOK`: what the agenda visits and
declares is where its path says.  `DeclaresFirst`: declarations stand in front of
everything else to be done.  `Fits`: what is visited before the agenda leaves a scope lies
in the extent of the current scope, what stands behind a pop in that of the scope it leads back to, with no
function or block between the two (`Encloses`).  `Hang`: the extent of a scope lies in that of its parent in the
same way.  `Fill`: a scope holds the declarations of its extent, the current one together with
those at the front of the agenda.  With them the scopes that `FindDecl` looks through, from the
current one outwards, are those of the blocks and functions around a name from the innermost outwards, each
complete, so the first hit is the innermost meaning.  What is bound stays so.

**The refusals.** `Resolves` is added for what the resolver answers.  `ComesTo`: whatever it visits is still under
the agenda or has been dealt with (`Done`): a name is bound, a block or function has had its scope.  `Distinct`: no
scope has a name twice, because `AddNamedDecl` refuses the second.  `Apart` and `Fresh`: what is to
be declared are different declarations, so one that meets its name in the current scope is a second one of that
name, and the refusal is due.  `Sited`: a scope belongs to something visited, so the fault found in
it is one of the program.  A name that `FindDecl` does not find means nothing, as all scopes around it
are complete (`Fill`).  At the end the agenda is empty: every name is `Done`, and every list of declarations is
that of a scope without a name twice.

**The classes.** `CompleteOK` counts the definitions that have been treated: every class among them has the
members of the first of its definitions in the list, which is the last in the source, and none of them has a member
function where `MakeCompleteType` would look at it.

**The search.** `RecursionExact` is about ways inwards (`Inwards`): from a member of a class to the base of an
alias or an array, and from a class to the first of its members, over the definitions in the trees
(`Definitions`) and not over what `TypeResolver` has made of them.  One activation of
`CheckRecursiveTypeDef` is one step of such a way (`InsideIs`, with `MembersKnown` from `CompleteOK`).  `OnTheWay`
says where the search is: its target is what the way has come to, with the class nowhere
before, and it is a part of the class.  `SearchedOK`: all ways from the classes that are neither in the rest of the
table nor under the iterator have an end, and so have those from the members before `at`.  `EndsOK`: a phase that does not
answer true ends the process, so when the search runs the classes are complete, or there are no members and
nothing to find.  A way of more than `MaxDepth` steps has a type twice or more types than steps (`WayFits`,
by counting), which is what an overflow means for every size of the stack.

What stays with TLC: liveness (no installed prover does it); that the scanner makes the tokens of the
parser's runs (`Delivers`: it is about a fixed pool of programs); that the 234 rules and their actions together give back the
tree of the program (`RoundTrip`, `NothingDropped`, `NoStale`, `StaleRefused`, `PushesOne`: they are about a fixed table, not
about all values of a constant, and their references are recursive too).

## Not modelled

* The 100 slots of `parse_stack_`, which `Push` does not check: the model's stack
  is unbounded.  A block leaves one item per statement, so long blocks write
  behind it.
* Memory of nodes and strings, the text of messages, what `ASTPrinter` prints.
* The bytes of keys: `Insert` writes a terminator behind what it has allocated.
* The interning of derived types by their names, and function types: `MakeCompleteType` goes
  through a null pointer before one is made, so the static string of `MakeFnTypeName`
  (`ASTType.cpp:189`) is never read.
* `CheckSemanticError` on a table without any type, when the uninitialised iterator is `MAX_TABLE` by
  chance: `Next` answers null then and the check ends well, where the model has only the crash.
* Code nothing comes to: `CheckVoidArray`, `CheckDuplicatedMemberName`, the visit of a class in
  `TypeChecker`, `Scope::GetChild`, the value table and `HashInt` (the same code as the table of
  types over other keys), `Scope` functions without a caller.
* Of the containers: the copy constructor of a list, which counts on from uninitialised fields;
  `InsertAt` and the assignment of lists, which do not compile when instantiated; calls on an empty vector and use
  of one after `Clear`.
* The columns of tokens behind a string in their line, places behind a remark with an empty line, and
  texts with a remark whose `*/` is right behind a line end, with `switch`, with a character literal or with the letters
  A or B: the scanner does not read them as the language does, and `SpellsLongest` says nothing of them
  (`lexicon` shows some).  The model has what it does to them, and `StreamOK` is about them too.
* `warehouse/` (copies of LLVM files), `queue.h`, `resize_stack.h`, `btree.h`, `rbtree.h` (used by
  nothing, some of them not compiling), `ErrorDiag`, and the stubs of the driver, IR and ELF loader.

## Plan

Done, in this order: the engine, the rule table, the actions and their runs; the hash table and its
refinement; vectors and lists; the scanner and its composition with the parser; the phases on one
context; the proofs above.

What is left, in the order of what it would add:

1. The capacity of `parse_stack_` as a constant of `Parser`, with the depth a program needs as a
   function of its tree: which programs write behind the 100 slots.
2. The interning of derived types (`TypeTable` above `HashTable`), once function types can be made.
