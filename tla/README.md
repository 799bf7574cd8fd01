# Verification of COBOLabunga

TLA+ models of the COBOL compiler under `src/`, of its runtime library and of
its bare metal support, with TLC configurations that check them on small
instances and TLAPS proofs for all instances. Paths are relative to the
repository; `runtime.go` is `src/runtime/runtime.go`, `codegen.go` is
`src/codegen/codegen.go`, `parser.go` is `src/parser/parser.go`.

Contents: [the system](#the-system) · [modules](#modules) ·
[runs](#runs) · [what is proved](#what-is-proved) ·
[disagreements found](#disagreements-found) ·
[not modelled](#not-modelled) · [plan](#plan) · [running it](#running-it)

## The system

The compiler reads a COBOL source, and `main.go` calls its phases one after
the other: lexer, parser, type checker, code generator. The result is LLVM IR,
which `llc` translates and `clang` links, for a hosted program with the runtime
library if the program needs it. For `x86-bare` the IR contains its own console
and is linked by hand with `src/cobos/boot.S`. The compiler is sequential and keeps
no state between programs; what is hard about it is nesting, and that three
components walk the same tree by rules of their own. The programs it
makes are hard in other ways: an HTTP server with goroutines under a
single-threaded COBOL program, screen memory shared by three routines with
cursors of their own, and buffers of fixed size that statements fill together.

| component | its state | its operations | interacts with | what is hard | what makes it correct |
|---|---|---|---|---|---|
| lexer (`lexer/`) | position, line and column in the source | next token | its tokens are the parser's input | comments, strings, hexadecimal numbers, reserved words, ends of lines in each of them | every character belongs to one token, a comment or a blank; messages name the right place |
| parser (`parser/`) | tokens, position, errors, stack of open groups | one function for each construct | hands the tree to type checker and generator | each list of statements has stop words of its own, periods are optional; levels of items may skip and fall by several; precedence by mutual recursion | it returns; what it accepts without an error is what it returns; groups and expressions are what level numbers and operators say |
| type checker (`typeck/`) | declared items, errors | one walk | tree | statements it does not look at | what it accepts uses declared items only, or is one of the statements it does not look at |
| code generator, control (`codegen.go` 184-303, 1154-1303, 1350-1434) | output, counters of registers and labels | one function for each statement | calls into the runtime | labels of nested statements, returns in performed paragraphs | the IR does what the statements say |
| code generator, fields (`codegen.go` 100-184, 285-340, 399-484, 1044-1152) | - | globals, MOVE, INITIALIZE, ACCEPT, comparison | memory of the program | sizes, padding, the NUL behind a field; what one statement leaves for another | a statement stores into its own item and leaves the NUL, but in cases that can be named; items that hold the same text compare equal |
| driver (`main.go`) | - | phases, external tools | all of these | its own walk decides whether the runtime is linked | what the IR calls is linked |
| runtime, HTTP server (`runtime.go` 19-41, 224-367) | `requestCh`, `handlerDoneCh`, `currentReq`, `listenSrv`, `pendingHeaders` | listen, set header, respond, request field | goroutines of `net/http`, channels, the COBOL thread | anonymous tokens, servers closed while handlers wait, invalid statuses, headers left by a failed call, clients that stall, ports | one reply for a request, with its own headers; calls return |
| runtime, HTTP client (43-147) | - | one request for each call | remote server, buffers of the program | failure after the status | a failed call leaves no item half set |
| runtime, JSON (149-222) | - | find a key | client and server buffers | keys that differ in case or hyphens | the value of the key |
| runtime, STRING and UNSTRING (381-647) | `sState`, `uState` | init, add, extract, finish | a field and its pointer in the memory of the program | ends of field, item, delimiter and source that coincide; 64 bit accesses to 32 bit items | every byte stored or reported lost; every word received or counted missing |
| bare metal console (`codegen.go` 275-284, 453-483, 1762-2108) | text memory, cursor | print, newline, accept | keyboard, screen | full screen, full row, keys in any order | nothing outside the screen; the row typed is the field |
| COBOS shell and boot (`cobos/`) | hardware set-up | boot, command loop | console | stack of 16 KB | the loop goes on for ever |

The hazards the properties are for are listed with their lines in `PROJECT.json`.

## Modules

| module | what it is | source |
|---|---|---|
| `HttpService` | abstract: a queue of requests handed out one at a time, one reply each | what the server promises |
| `HttpServer` | program, servers, handlers and channels | `runtime.go` 19-41, 224-367, `codegen.go` 1543-1564 |
| `MCHttpServer`, `HttpServerProofs` | instances, theorems, the refinement | |
| `Terminal` | abstract: the last lines on a screen, a line being edited | what the console promises |
| `BareConsole` | DISPLAY and ACCEPT on text memory | `codegen.go` 275-284, 453-483, 1752-2108, `boot.S` |
| `MCBareConsole`, `BareConsoleProofs` | instances, theorems | |
| `StatementParser` | the recursive descent as a stack of calls | `parser.go` 27-116, 309-1372 |
| `StatementTexts` | abstract: programs as trees, the text of each, and what the parser should make of it | the way the examples write programs |
| `MCStatementParser`, `StatementParserProofs` | programs and streams of tokens; theorems | |
| `CobolStatements` | the statements of a program as data | `parser/ast.go` |
| `SourceProgram` | abstract: executes the statements | what the examples expect |
| `GeneratedCode` | emits instructions and executes them | `codegen.go` 184-273, 1154-1303, 1402-1434; LLVM |
| `MCGeneratedCode`, `GeneratedCodeProofs` | programs, theorems, the refinement | |
| `StringRuntime` | STRING and UNSTRING on one field | `runtime.go` 381-647, `codegen.go` 485-541, 746-856 |
| `MCStringRuntime`, `StringRuntimeProofs` | instance, theorems | |
| `Lexer` | characters to tokens, one step for each character | `lexer.go`, `token.go` 214-219 |
| `DataHierarchy` | the stack that arranges items in groups | `parser.go` 173-196 |
| `DataItems` | level numbers and clauses of WORKING-STORAGE | `parser.go` 154-171, 198-306 |
| `ExpressionParser` | conditions and arithmetic | `parser.go` 1394-1495 |
| `TypeChecker` | symbols, and what each statement is checked for | `typeck.go` |
| `RuntimeLinking` | what generated code refers to and calls, and what the driver thinks it calls | `codegen.go` 48-136, 220-273, 343-397, 1044-1152, 1167-1434, 1685-1715, `main.go` 98-387 |
| `Compiler` | composes these six: the phases from text to executable | `main.go` 43-161 |
| `CompilerProofs`, `MCCompiler` | theorems; texts and programs | |
| `FieldMemory` | the memory of PIC X and PIC 9 items: statements, HTTP client, JSON, comparison | `codegen.go` 120-165, 285-340, 399-415, 1044-1067, 1350-1468, 1923-2010, `runtime.go` 55-222, 320-380, `typeck.go` 160-166 |
| `FieldMemoryProofs`, `MCFieldMemory` | theorems, instance | |
| `NaturalLemmas` | lemmas about numbers, trees and flattened lists for the proofs of several components | |

Definitions called *mutant* in a comment are not part of a model. Each is what a
plausible mistake would make of the definition after it, and each property is
known to fail under one of them.

### HttpServer

The COBOL thread (`pc`) either runs program code or is inside a call: in the
receive of HTTP-LISTEN (`listening`), in the wait of HTTP-RESPOND for
`handlerDoneCh` (`responding`), or between that and the return (`closing`). Each
blocking channel operation ends an action, so everything else may happen in
between. A server goroutine goes through the steps of `ListenAndServe` at which a
concurrent `Close` makes a difference (`ServerStart`, `ServerBind`,
`ServerServe`); a handler goroutine reads the body (`BodyArrives`, `BodyFails`) and goes
from `SendRequest` to `Flush`, one action for each channel operation. `requestCh` is its
buffer followed by the senders blocked on it, which is Go's order. `handlerDone` counts
the anonymous tokens. HTTP-RESPONDs are numbered as they run, the failing ones too; a
header's value is the number of the statement whose HEADERS group set it. A failed
HTTP-RESPOND (`runtime.go:290-293`) keeps `pendingHeaders`, so the next response carries
them: `HeadersOfOwnResponse` says that this is the only way in which a header gets into a
response it was not set for (`failed` are the calls that may have left some).

The server has no `ReadTimeout`: how long `io.ReadAll(r.Body)` (`runtime.go:234`) takes is
up to the client. Its body arrives when the client has sent it, or the read fails when
the connection is gone, in which case the error is dropped and the request is handed on as if it
were whole. A client that does neither is `Stalled`, and its handler reads for ever.

`net/http` is external: what is modelled of it is what the comments name (a panic
in `WriteHeader` for an invalid status, `Close` cutting connections and not
waiting for handlers, the response sent after the handler returned). Not
modelled: a request in flight when `Close` runs that reaches its handler later;
what is in a body; what
`cob_http_request_field` reads, which is an answered request after HTTP-RESPOND
(`runtime.go:290`) and is a text of `FieldMemory`.

`Spec` leaves the program completely free. `LoopSpec` is the loop of
`examples/route.cbl`: listen, answer with a valid status, listen again. A second response to
a request and an invalid status, after which HTTP-RESPOND waits for ever, are in `Spec` only.

**Fairness** (`LoopSpec` only): weak fairness for the COBOL thread and each
goroutine, since Go's scheduler and the kernel run what can run; for a client,
that it connects to a server that stays up, which is the premise of the
liveness properties and not a property of this code. No fairness for a body that
arrives, a client that leaves or a port held by another process: the two properties
about requests say what holds unless a client stalls for ever (`EveryRequestServed`: that
one client; `ListenReturns`: at every time some client). `HandlerStep` has the failure of a
read, as a read of a closed connection returns, and not its success.

### BareConsole

Text memory has one character for each cell; some cells behind the screen are
modelled, so that a write there shows. `col` is `@cob.vga.col`, `vgaPos` the cursor
of its own that `cob_bare_accept` keeps until Enter. A DISPLAY is one action, print
and newline; each key of an ACCEPT is one. The console never waits for anything but
the keyboard, so there is no liveness to state. `Write` is the pointer arithmetic
as it is, without a bound, `PrintInt` includes the two mistakes of
`cob_bare_print_int` (a zero, the sign).

### StatementParser

A frame is a call under way of `parseProcedureDivision`, `parseParagraph`, a
statement's function or the `parseStatementsUntil` in it; it has the position in
that function (`at`), the list being read, the words that stop it, and the lists
read before. A token stands for all words up to the next one that matters for
structure. Errors are counted. `StatementTexts` has the statements a program may be made
of (`Statements`, any set of finite trees) and its paragraphs (`Sources`), and says what text
each has (`Text`): a list with the words that announce it, an empty one without, the two
exception phrases in the order of their verb, and periods behind any statements of a
paragraph but always behind its last one. `RoundTrip` compares what has been parsed from
such a text with the tree it was made from. **Fairness:** weak fairness of the parser's step; it
is a sequential program.

### GeneratedCode

`EmitStatement` and the definitions below it translate a statement to instructions as
the `emit` functions do, label for label; `Init` to `RetStep` are a processor that
executes them, each test going both ways. A label is named by its kind, its part in the
statement and the place of the statement in the paragraph, where the code has a counter.
Every instruction carries as `rest` the statements that should still be executed
from there to the end of the paragraph; no instruction depends on it. The
concatenation of the `rest`s of the stack is `Todo`, the refinement mapping to
`SourceProgram`.

`Statements` are those of the programs with all that are nested in them, and `Depth`
says that they are finite trees. The code of a statement is a recursive function on
them: `EmitOneStatement` takes the code of the statements inside from a function
`emit`, and `EmitStatement` is the function that is its own `emit`. An EVALUATE without
WHEN, which the parser accepts, has the code of its WHEN OTHER and is left out for that.

**Fairness:** the processor goes on; the abstract program goes on,
too, which makes the refinement check that code does not loop in its labels.

### StringRuntime

`pc` says which statement is under way; `cob_string_init`, each `cob_string_add_*`,
`cob_string_finish`, and the same of UNSTRING, are actions. One set of variables
stands for `sState` and `uState`. `before`, `given` and `start` are history
variables: the memory and position a statement began with and what its items gave
so far. The POINTER item is the unsigned value of an `i32`. `cob_string_init` reads
it through a `C.long *` (`codegen.go:500` allocates an `i32`), so the upper half of
the position is any member of `HighWords`; only the low half is stored back. A
negative upper half makes the access fault and is excluded; what the 64 bit store
does to the rest of the stack frame is not modelled, except that UNSTRING's tally
may zero the pointer. COUNT IN has no effect and SPACE is UNSTRING's only
delimiter, as in the code that `llc` accepts.

The runtime compares the position with the end of the field only. With a POINTER of 0 a STRING
stores its first byte before the field and goes on without an overflow, where COBOL
wants an overflow and no byte stored: `FieldIsConcatenation` describes that byte, it does not
excuse it, and `OverflowExact` has it as its one exception (`StoredBefore`). An UNSTRING with
a POINTER of 0 starts with the byte before its source, which is part of the first word
(`WordsReceived`).

### Lexer, DataHierarchy, DataItems, ExpressionParser

`Lexer` is the position, the line and column `read` counts, the loop it is in
(`mode`), and where the token being read began (`start`); `Next` begins a token and
the loops (`InComment`, `InString`, `InRun`, `InHex`) take one character at a step.
Letters, digits, keywords and the characters of a text are constants. `tokens`
holds for each token the first and last character and its place. What it should be
is defined without the lexer: `Place` counts the ends of lines before a character,
and `TokensExact` reads the text from its beginning.

`DataHierarchy` pops the stack one group at a step (`Pop`) and adds an item
(`AddItem`); `parent` is the result. `Records` and `Children` are derived from it.
`DataItems` is the loop of `parseWorkingStorageItems` with an action for each clause
of an item, with errors counted and words skipped as the code does (`UnknownClause`:
an item without a period takes what is behind it). A number is an int if it is in the
domain of `Numeral`; a larger level number is an error that ends WORKING-STORAGE
(`InvalidLevel`), a larger size of a picture is taken for `MaxInt`, as `strconv.Atoi` returns
it with an error that is ignored. `ExpressionParser` has the three
functions of an operand and two operators as one operator with the level as a
parameter (`Round` is one more operator, `Chain` the loop); `Nil` is the missing operand
that the parser accepts. `Parsed` is a recursive function of a level and a place in the tokens.

### TypeChecker, RuntimeLinking, Compiler

A statement is its kind, its expressions and names by phrase, and its lists of
statements. `Expressions` and `Statements` are those of the programs, with their
operands and with all that is nested in them; `Height` says that they are finite trees
(`TreesAssumption`), and `PhrasesAssumption` which phrases the types of `ast.go` give to
those kinds whose walks rely on it. `StatementOk` says whether the checker reports nothing; what is never
looked at (PEEK and the like, PERFORM UNTIL, SENDING) is never looked at in it.
`References` is what the code of a statement names, `RuntimeCalls` what it calls, and
`UsesHttp`, `UsesString`, `UsesComparison` are the walks of `main.go`, each with the
cases it has. `Compiler` runs the phases on one text: its characters are the items
of WORKING-STORAGE and the condition of an IF; the statements of the procedure are
taken from `Bodies`, since how they are read is `StatementParser`'s matter. Each phase
may end in `rejected`, `panicked`, `not assembled` (llc) or `not linked` (clang).
`llc` is taken to reject a name without a definition and one defined twice in a
function, `clang` a call of a function that is not linked.

### FieldMemory

`memory` is all bytes of the program's items, one behind another as the linker lays out the
globals: a PIC X item of n characters has n + 1 bytes, the last one a NUL, a PIC 9 item the four
of an `i32` (`Width`), whatever digits it has. `Base` and `Top` are any layout without overlaps, so a
store over the end of an item is a store into the next one (`Put`). Every statement is
modelled for whatever items the type checker lets it have: MOVE of a string literal copies
size + 1 bytes also to a PIC 9 item; MOVE of an integer literal or of an item stores four bytes
also to a PIC X item; GIVING passes size + 1 as the capacity also of a PIC 9 item.

A statement is one action. An HTTP request goes through the steps of `doRequest` at which it
can fail (`NoAnswer`, `AnswerBegins`, `ReadFails`, `ReadBody`), and through the items of a
MAPPING in any order (`MapItem`). POST, PUT and PATCH may have GIVING and MAPPING (the type checker
rejects both for GET and DELETE): MAPPING then reads the bytes of the item of GIVING
(`codegen.go:1401`). `fgets` and `C.GoString` are external and read as C defines them. ACCEPT of a
PIC 9 item stores any number, also at the end of the input, where `atoi` reads a buffer that
nobody wrote to. Literals and what is typed hold no NUL; bodies and request fields may.

`shown` is a history variable: what a COBOL programmer takes each PIC X item to hold, and on which
sides of a comparison the item is to give that text. `ComparesAsCobol` is about those sides:
both of them for texts stored with all their characters; the right one only behind a line
that does not fill the item, as `cob_picx_eq` reads all bytes of its left operand; the left one
only for a text with a NUL in it; none after a MOVE of an integer literal, of a PIC 9 item, of an
item that is shorter than the target or to a target of more than four characters, after GIVING of a
shorter body, and for an item into which the store to another one went. So the places where the
code differs from COBOL are in the text of the property; a MOVE of 5 to a PIC X item, which
leaves the bytes 05 00 00 00, is one of them.

`StoresInOneItem` is the same for stores: a step changes bytes of one item, and leaves its NUL,
but for the cases it names. Bytes behind the item are changed by four-byte MOVEs to items of
one or two characters, and by string literals to, and GIVING of, PIC 9 items of more than three
digits; the NUL is lost by GIVING of a longer body and by four-byte MOVEs to items of up to three
characters.

There is one thread and no waiting, but for the remote server (`httpClient` gives up after
30 s, in `NoAnswer`), so there is no liveness to state.

## Runs

| run | shows | distinct states |
|---|---|---|
| `http_any` | `TokenIsOwn`, `OneWriter`: no handler of another request, and no token left behind by one, releases an HTTP-RESPOND; `HeadersOfOwnResponse`: no header of an earlier response, and of failed calls only those since it; `OneResponsePerRequest`; `RequestInOnePlace`, `PortsAccountedFor`; and `ImplementsService`, the refinement of `HttpService` | 2,451,005 |
| `http_loop` | liveness of the loop: HTTP-RESPOND returns, HTTP-LISTEN returns when it has its port and a client comes, ports of closed servers are given back, every request that reached a handler is answered, also while other clients stall; the last two unless a client stalls in its body for ever | 244,270 |
| `console_lines` | `OnScreen`, `NextRowStart`, `ReadyForLine` (the row is blank, or is the field), and `ImplementsTerminal`, the refinement of `Terminal` | 49,761 |
| `console_zero` | violation of the design document | |
| `parser` | `RoundTrip`: the text of every well-formed program is parsed to that program; `AcceptedIsParsed`: any stream accepted without an error was the text of its tree, and phrases in any order lose no statement; `Progress`: each step but one comes nearer to the end; `WellNestedReturns`: parsing ends | 889,031 |
| `parser_missing_end_if` | violation: the parser does not return | |
| `codegen_nested` | `ImplementsSource`, the refinement of `SourceProgram` | 11,576 |
| `codegen_stop_run` | violation of the README | |
| `strings` | `FieldIsConcatenation`, `WordsReceived`, `TallyExact`; `OverflowExact`, with the exception of a POINTER of 0 | 1,722,436 |
| `compiler` | `PositionsExact`, `TokensExact`: tokens and their places; `HierarchyExact`: each item in the nearest group before it with a lower level; `ExpressionExact`: precedence, associativity, parentheses; `AcceptedResolves`: names in accepted programs are declared; `CallsAreLinked`: the driver links what is called | 625,698 |
| `compiler_two_moves` | violation: an accepted program that `llc` rejects | |
| `fields` | `StoresInOneItem`: which statements store behind their item or over its NUL, and no other; `ComparesAsCobol`: equality of items and literals, on the host and on bare metal, on the sides it names; `FailureKeepsItems`: a failed request changes nothing but STATUS; `TypeOK`: what is read of an answer fits | 983,362 |

Each passing run also checks the module's `TypeOK`, once for each module.

**Bounds, and why they are enough.**

- `http_any`, `http_loop`: three clients, since three requests fill the buffer
  (capacity 1), block a sender and leave one with the program; four HTTP-LISTENs,
  one more than can return, so the bound never stops a program that could go on;
  one port, which may be taken by another process. `http_any` has one header field, a valid status
  and the invalid 0, and `MaxFailed` = 1 HTTP-RESPOND without a request: its header
  meets those of the next call, and a second one does the same again. `http_any` uses symmetry of clients, `http_loop` does not
  (liveness).
- `console_lines`: three rows of three columns and three cells behind them; texts of
  one and two characters, numbers of one and two digits, lines of up to two, an
  unbounded number of them. Three rows have a first, a middle and a last one.
  Texts that fill the row, or are longer, do break the console and are
  excluded; the theorems allow the full row.
- `parser`: statements of every kind nested two deep in every list of every
  other, two paragraphs; `MaxTokens - 1` = 4 tokens behind the name of the paragraph for
  the phrases, and three longer streams with the phrases out of order; all streams of
  up to `MaxTokens` = 5 tokens of IF, PERFORM, DISPLAY, names and periods. Nesting
  deeper than two repeats, since a function does not know how deep it is called; for
  `RoundTrip` there is a theorem for any depth.
- `codegen_nested`: statements nested two deep in every list of every other, any of the
  lists ending in STOP RUN or performing a second paragraph, which nests two deep itself;
  `MaxCalls` = 2 is what these programs need.
- `strings`: a field of three bytes, items of one and two, delimiters of one and two,
  of which one occurs cut off by the end of an item; two items for a STRING and two
  receiving items of two bytes. The POINTER is set to 0, inside, at the end and
  behind the field, and goes on from statement to statement. `Word` = 8
  stands for 2^32, `HighWords` = {0, 1}.
- `compiler`: all texts of up to four characters that begin or end something, behind a
  word; all conditions of up to five tokens over operands, parentheses and operators of
  all three levels, and of six of a comparison and a sum; all sequences of four level
  numbers of 0 to 3, where levels rise and fall by more than one; all sequences of three
  pieces of clauses; and some 140 statements, each alone and in every list of another, for
  three targets and eight conditions. Two operators of a level suffice to tell left
  from right, and the lexer looks one character ahead.
- `fields`: PIC X items of one and of three characters with a PIC 9 item of four digits between
  them. These are the sizes at which stores go over the end: four bytes into an item of two or of
  four, five bytes into a PIC 9 item, so a neighbour is there to be hit. Literals that fit and
  are too long; a line that fills one item and not the other; bodies, one shorter and one longer than an
  item and than the buffer, with a member that holds a NUL; calls with GIVING, with MAPPING, and with
  both; an unbounded number of statements. `NumberLength` = 3 stands for the 30 of the code and
  `MappingBuffer` = 4 for the 4096, so that texts can be longer.

Deadlock is checked except where the program ends or legitimately waits: in the HTTP
runs (after STOP RUN, after an invalid status, when no client is left) and in the
runs of `GeneratedCode` and `Compiler` (the program, or the compilation, has ended).

## What is proved

All theorems hold for every value of the constants that satisfies the named `ASSUME`s
of the module. Each follows from an inductive invariant: initial states satisfy it, each
action has a lemma or a step that preserves it, and the last step is temporal logic.

- **`HttpServerProofs`**. `TypeCorrect` is inductive as it stands, once the
  assumption on statuses is used. `TokenIsOwn` is not: that the token in the
  channel is one's own follows only if one knows where the response is on its way.
  `ResponseInv` says that between HTTP-RESPOND's send and its return the response is
  in one place (`HandoffInv`: the `respC` of the request in hand, its handler, or the
  token), and how responses are numbered. From it:
  `TokenCorrect` (`TokenIsOwn`), `WritesOneByOne` (`OneWriter`)
  and `ResponsesSeparate` (`OneResponsePerRequest`), for any
  number of clients, servers, ports and headers and any COBOL program.
  `HeadersSeparate` (`HeadersOfOwnResponse`) needs `HeaderInv`: the pending headers may go out
  with the next call, which stays true when a call fails since it is then one of
  `failed`, and those of a response on the way may go out with its number.
  `PortsCorrect` needs `MadeInv` besides types: servers are numbered as HTTP-LISTEN makes
  them, so none of the later ones has bound a port, and the new one is the only
  one that may start to serve.
  For the refinement, `ServiceInv` joins `ResponseInv` with the places of a request:
  `RequestInOnePlace`, `InHandInv` (the handler of the request in hand has sent it) and
  `FreshInv` (no handler has a response before it has received one). It gives
  `RequestsInOnePlace`, and it is what the refinement mapping needs:
  `ServiceImplemented` has a lemma for every abstract action (`ReceiveTakes`,
  `SendEnqueues`, ...) that says which steps of the server are that action, and
  `StutterStep` for the steps the service does not see.
- **`NaturalLemmas`**. Every set of numbers that is not empty has a least element, a set
  with 0 and all successors has all numbers, a recursive function whose argument gets
  smaller, or that goes down a tree, has a value everywhere, and `FlattenSeq` puts lists
  behind each other. They are stated about sets, not about predicates, so
  that a proof can use them with a set it defines: the library's induction theorems
  take a predicate, which no prover here can instantiate.
- **`BareConsoleProofs`**. `ConsoleTypes` (`TypeOK`) holds without a hypothesis, as
  `cob_utoa` gives digits for every number (`DigitsOf`, `DigitsType`). With `FitsRow` (no
  text, number or typed line is wider than a row, and numbers are positive): the cursor
  is at a row start, all behind it is blank, and while a line is typed the row is the
  field (`ConsoleInvariant`). `StaysOnScreen` and `LinesReady` follow, for screens
  and fields of any size. With `ShorterThanRow` (shorter, as a line that fills its row
  makes the newline skip the next one) follow `NextRow` (`NextRowStart`) and the
  refinement, `TerminalImplemented`: `LineEnds` says that a newline adds the row of the
  cursor to the lines of the terminal, and there is one lemma for each action
  (`DisplayShows`, `StartBegins`, `CharTypes`, `EnterEnds`, ...). The rows are multiples of
  `Cols`, hence lemmas about products and remainders first.
- **`StringRuntimeProofs`**. `FieldIsConcatenation` needs `PositionInv`: the
  next item continues the concatenation only because without an overflow the position
  is the one behind the last byte given, and after one the field is full and no
  item writes. `OverflowExact` follows from it (`LostBytes`: what was given ends behind the
  field exactly if one of its bytes is behind it). Together with types and `tally <= item` they are inductive
  (`StringInvariant`). `AddBytesInv` is the heart: an item that fits, fits in part
  or finds no room. The theorems hold for every POINTER and every upper half.
  `UnstringReceives` and `UnstringTallies` rest on `WordInv`: the position is the start
  of the next word (`StartsAt`), as many ends of words are before it as items were
  handled, and what those received are the words of these ends. Words are numbered by
  how many ends are before theirs, so that an end is unique for its number is a lemma
  about cardinalities (`RankUnique`).
- **`CompilerProofs`**, for every text and programs of any depth.
  `PositionsExactHolds`: `LexInv` says that line and column are those of the next character,
  that the token being read began where `start` says, and that all tokens so far have their places. Two lemmas count the
  newlines before a character (`PlaceBehindNewline`, `PlaceBehindOther`); each step reads
  one character, two that are no newlines, or none. `TokensExactHolds` adds, for each
  mode, what the characters from `start` to the position are: part of a string, number,
  word or comment, and that all before is cut into lexemes.
  `HierarchyExactHolds` (and `ListsAreArranged`, for `DataHierarchy` on its own):
  `HierarchyInv` says of the items between two groups of the stack that none is lower
  than the upper group (`StackInv`), and of those behind the group on top that none is
  lower than the item at hand (`TopInv`), before and after each pop. So when no group
  ends any more, the one on top is the nearest earlier item with a lower level.
  `FrontInv` joins that with the invariants of the lexer and with `ItemsInv`: the
  parser is at a token, there are fewer items than tokens before it, and no more than two
  errors for each of them. It gives `PlacesHold` and `TextIsCut` (`PositionsExact` and
  `TokensExact` of the whole compilation).
  `TypesHold` (`TypeOK`) needs of `ParseExpression` that it ends behind its first token and in
  front of EOF. `Parsed` is defined by itself, so it is solved first: what is read from a
  place depends only on what is read from later ones or higher levels, which ends
  ahead of them (`ParseAhead`); by induction there is a solution for all places
  (`SolutionExists`), and `Parsed` is one (`ParsedSolved`).
  `ExpressionExactHolds` (`ExpressionExact`) compares that solution with `Meaning`, which takes
  an expression apart at the last of the operators that bind least instead of reading it from
  the left. Open parentheses are counted over adjoining parts (`OpenSplit`), so both sides of
  an operator outside of them are complete (`SidesComplete`), and an expression
  without such an operator is an operand or in parentheses (`OperandOrParentheses`). `Suits`
  says when a level of the parser should stop at a token. From one operator of the level
  to the next, the tokens suit the level above (`NextPart`), and each round of the loop adds one
  such part to what was read (`RoundAsMeant`), until the end (`LevelAsMeant`); by induction on
  length and level all is read as it is meant (`ReadAsMeant`).
  `AcceptedResolvesHolds`: the checker and `References` go over the same trees in two
  ways. Each recursive definition has a solution (`NamesInDefined`, `StatementOkDefined`,
  ..., by `TreeRecursion`); by induction on the height what codegen loads from an
  expression are names in it (`LoadedNames`), and what the checker visits it has
  accepted (`VisitedAreChecked`). `CallsAreLinkedHolds`: when all three walks of
  the driver say no, no statement of the flattened program calls anything but a
  comparison that is excepted (`OverlookedIsQuiet`, `NotLinkedIsQuiet`). Both rest on
  `BuildInv`: an accepted program has been checked, and what is not linked was not seen.
- **`FieldMemoryProofs`**, for items of any size in any layout. `TypeInv` has three parts: `Good`,
  what is true of memory and `shown`; `CallOK`, of the request under way; `StdinOK`. One lemma
  carries all statements: `StoreInto` says of any bytes stored from the beginning of an item
  that memory stays bytes, that items whose bytes did not change give what they gave, and
  that the step is `InOneItem`, if the bytes fit or the step is one of those that `MayRunOver`
  (`MayLoseNul` likewise). Then there is one lemma for each action (`MoveLiteralGood`, `AcceptGood`,
  `GivenGood`, ...), and those say of `Padded`, `Line`, `Fgets` what they return for texts of
  any length. It gives `ReadingsFit` (`TypeOK`) and `StoresStayInside` (`StoresInOneItem`).
  `FailureKeepsItemsHolds`: from the request to the end of the reading, and while an answer that is
  no object is mapped, memory is `before` except for STATUS (`FailureInv`).
  `ComparisonsHold` (`ComparesAsCobol`) has two halves. `ShownInv`, a part of `Good`: on the sides that
  `shown` names, the item gives the text it should; on the left that is all of it without blanks, on
  the right what is in front of its first NUL (`Gives`). `ComparesTexts`: of any bytes, `PicxEq` and the
  loops of `BarePicxEq` tell whether two texts are the same without their blanks. The end of a
  text, and of a string, exists (`TextEnd`, `StringEndStep`) and is unique; the recursive functions
  that stand for the loops of the bare comparison find it (`TrimmedLengthIs`, `StringLengthIs`).

- **`StatementParserProofs`**, for every stream of tokens. `ParseInv` says of the stack that the
  division calls a paragraph and that calls statements, each of them in its loop over a list
  (`AreCalls`); that is `TypesHold` (`TypeOK`). `ProgressHolds` (`Progress`) is about
  a measure: `Work` weighs the tokens that are left with 12 each, and each call
  with what it may still do before it takes a token or returns. Three rules say what makes
  it smaller: a call that goes on behind a token or to a place with less to do
  (`GoesOnOk`), one that returns to the caller (`ReturnOk`), and one that takes the word of a
  statement and calls its function (`CallOk`); there is a lemma for each action, which
  is a case of one of them or of the end of a paragraph (`ParagraphEndStep`). So only
  `OtherTerminator`, which changes nothing, can be repeated for ever: the second disagreement
  below is the only way for the parser to hang.
  `RoundTripHolds` (`RoundTrip`) is for every program whose statements are finite trees, of any
  length and nested to any depth. The texts are a recursive function on these trees; that it
  has a value (`TextDefined`) is by induction on `Depth`. The invariant that carries the proof
  is `ReadInv`: if the tokens are the text of a program, no error has been reported
  and the stack *is* the way from that program to the place that has been reached (`Follows`).
  The paragraphs read are the first ones of the program, and each call, from
  the paragraph to the one on top, reads a statement that is in the list its
  caller is at (`Chain`). For one call `Reading` says that either it is in a list (`InListOf`), of
  which it has read some statements, and the texts of the rest come next (`Reads`), behind them
  those clauses of its statement that it has not stored yet (`Behind`, one definition
  for each kind of call); or it is between two lists (`Between`). So the words the parser decides by are
  those the text has there: the word of the next statement, the one that ends the list, or
  the first one of the next clause; what ends a list is never the word of a statement, a
  name or a period (`WordsDiffer`), and what comes behind DISPLAY is no name
  (`NoNameAfter`). `OnTop` says once for all actions what they may do to the stack:
  go on with the same statement, call the next one of the list, return the statement that is
  complete. Then there is one lemma for each action (`ReadsIfElse`, `ReadsEvaluateWhen`,
  `ReadsHttpNotFirst`, ...). They also show which actions can not happen in the text of a program:
  `UnexpectedToken`, `OtherTerminator` and `EvaluateSkip`. `LoopsMeetStatements` says it of the
  second: until a program is read, each step comes nearer to the end.
- **`GeneratedCodeProofs`**. `CodeImplementsStatements`: for every program, each step of
  the generated code is the next step of the source or a stutter, except for the STOP
  RUN of a performed paragraph (`StopGoesOn`, the third disagreement below). No invariant of
  the run carries this; it is a fact about all code that can be generated, `Right`:
  every instruction is at the statement its `rest` begins with, the next one has what
  remains after its effect, a branch goes to a label of the same piece of code that has
  the same `rest`, and no label is there twice. `Join` puts two such pieces with
  different labels behind each other. Every `emit` function has a lemma (`Branches`,
  `Loops`, `CountingLoops`, `Evaluations`, `CallsWithPhrases`, `ListCode`) that its code
  is right if the code of the statements inside is. That labels of nested statements
  differ is `PathsSeparate`. `EmitStatementIsDefined` shows that the recursion has a
  solution, by induction on `Depth`, and `StatementsRight` that its code is right. Then
  the invariant is small, each function under way is at one of its instructions, and
  there is a lemma for each kind of instruction (`DoStepRight`, `CondBrStepRight`, ...).
  `TypesHold` (`TypeOK`) and `OneLabelForEachBranch` follow from the same facts.

Only model-checked: liveness (TLAPS has no support for fairness here), which for
`ImplementsSource` is that code does not loop without doing anything, and for `WellNestedReturns`
that the parser of a well-nested program does not stay at `OtherTerminator` (that it never is
there is `LoopsMeetStatements` for programs, that it goes on needs fairness); and
`AcceptedIsParsed`, which turns the tree back into a text. It is about the streams of
the instance and not about all: a statement with the same phrase twice keeps the last one
only, and EVALUATE drops what it skips, so which streams lose nothing is not said in
general. Its recursive operator is only for TLC. `ReadInv` itself TLC can not evaluate, as it
says that places in the text exist; what it implies, `RoundTrip`, is checked on the instance.

## Disagreements found

Each is a run that is expected to end with a counterexample, and a finding in `PROJECT.json`.

1. `console_zero`: DISPLAY of 0 puts the cursor at cell 2 (`codegen.go:1808`); the
   design says a newline goes to the next row.
2. `parser_missing_end_if`: an IF without END-IF inside PERFORM ... END-PERFORM
   makes the parser loop for ever instead of reporting the error it has for it.
3. `codegen_stop_run`: STOP RUN in a performed paragraph only returns from it.
4. `compiler_two_moves`: two MOVEs from items in one paragraph define `%tmp` twice, and
   `llc` rejects the accepted program; the README lists MOVE as working.

Seen while modelling, without a run: `runtime.go:226` says that the handler of a server
that is closed is done, while HTTP-LISTEN closes a server only if its request was *not*
answered; a paragraph that performs itself is called, not branched to as
`DESIGN_HARDWARE.md:392` has it; PERFORM n TIMES is executed once; the
parser reads `>=` as `>`, `<=` and `<>` as `<` (`parser.go:1405`); an operand that is
missing is taken for 0; a MOVE of an item or an integer
literal stores four bytes whatever the target is, and MOVE of a string literal and GIVING count the
digits of a PIC 9 item as bytes (`StoresInOneItem` names where that goes behind the item); a failed
HTTP-RESPOND leaves its headers to the next one; a STRING with a POINTER of 0 stores a byte
before its field without an overflow; a client that stalls in its body holds a handler, and with no
other client HTTP-LISTEN, for ever.

## Not modelled

- STRING and UNSTRING for WASM (`codegen.go` 570-744, 858-1042): the README of the
  compiler calls them blocked.
- ACCEPT of a PIC 9 item on bare metal, which overwrites the four bytes of a number with characters.
- Headers of divisions, the wording and order of messages, options and files of the
  driver, which have no effect on what is compiled.
- What is in a body in `HttpServer` (that it arrives, stalls or fails is modelled), and keys
  and escapes of JSON in `FieldMemory`, which takes from an object the members that have
  an item's name; `boot.S` beyond the cleared screen, the
  linker script, `llc`, `clang`, `net/http` and `encoding/json` are outside.
- Undefined behaviour of generated code is modelled where it reaches a modelled variable
  (the POINTER, the bytes behind an item), not where it overwrites a stack frame.
- Some of what is exceptional is left out of a property by name, and the property then says
  nothing about it: `>=`, `<=` and `<>` in `ExpressionExact`; statements the checker does not look at
  in `AcceptedResolves`; statements the driver does not look for in `CallsAreLinked`; rows that
  a DISPLAY fills in the run `console_lines` (they are in `StaysOnScreen`). The hazards for
  these say so.

## Plan

Done, the most important behaviour first: `HttpServer` with its service and proofs;
`BareConsole`; `StatementParser`; `GeneratedCode`; `StringRuntime`; the compiler from text to
executable (`Lexer`, `DataItems`, `DataHierarchy`, `ExpressionParser`, `TypeChecker`,
`RuntimeLinking`, `Compiler`); `FieldMemory`.

What would come next:

1. The shell of `kernel.cbl` on the console: `GeneratedCode` composed with `BareConsole`.
2. `Compiler` with the procedure read by `StatementParser` instead of taken from `Bodies`,
   for which `RoundTripHolds` is the lemma.

## Running it

    tlasany HttpServer.tla
    tlc -workers 2 -config HttpServerAny.cfg MCHttpServer
    tlapm StringRuntimeProofs.tla

`PROJECT.json` names the module and configuration of each run.
