# Verification of Email Markup

TLA+ models of the Email Markup compiler (`packages/email-markup-core`), of its
command line (`packages/email-markup-cli`, `packages/email-markup-platform`), of its
language server (`packages/email-markup-lsp`) and of the preview of its VS Code
extension (`extensions/vscode`), with the TLC configurations that check them on
small instances and TLAPS proofs of what matters most for every instance.

Paths and line numbers below are those of the repository; `loader.cpp`,
`tokens.cpp` and `compiler.cpp` are in `packages/email-markup-core/src/compilation`,
`renderer.cpp` in `packages/email-markup-core/src/rendering`, the other files of
the compiler in `packages/email-markup-core/src`, `server.cpp` in
`packages/email-markup-lsp/src/server`, `command_executor.cpp` in
`packages/email-markup-cli/src/commands`, `extension.ts` in `extensions/vscode/src`.

To run: `tlc -config <run>.cfg <module>` for a run of `PROJECT.json`, and
`tlapm <module>` for the proofs, which are in `LoaderProofs`, `TokenResolutionProofs`,
`RendererProofs`, `LspServerProofs`, `PreviewSessionProofs`, `BuildProofs`, `OperatorProofs`
and, for the induction they share, `SetInduction`.

## 1. Inventory

### How the parts interact

`compile()` (compiler.cpp:39) is one synchronous call in one thread. It loads
the imports, the shell and the entry document (Loader), evaluates the design
tokens (resolve_tokens), renders the entry document and then the shell around it
(Renderer), inserts media rules, inlines CSS and lints. All phases append to one
diagnostics list, and an error in that list keeps the later phases from running.
The only thing that comes in from outside is a shared cancellation flag.

The command line calls `compile()` for one source after another and writes what
compiles through temporary files, while users save sources. The language
server calls it for an open document after every notification that concerns it,
between reading two messages, and publishes the result. The extension starts the
server, sends it the edits, asks it for previews, and shows them in a panel;
its callbacks interleave wherever one of them awaits.

### Components

| Component | State | Operations | What is hard | What makes it correct |
|---|---|---|---|---|
| Include loader and registry (loader.cpp, registry.cpp) | call stack, `loaded`, `documents`, `dependencies`, registry, diagnostics, sources, AST node count | `load`, `resolve_path`, `issue`, `merge_registry` | recursion over cyclic graphs with diamonds; limits met at any depth; a failure is skipped and the walk goes on; a full list drops errors; cancellation | no document twice; post-order decides which definition wins; nothing missing without an error; it ends |
| Token resolution (tokens.cpp) | memo of values, visiting set, diagnostics | `resolve_tokens` and its recursive `resolve` | roots in hash-table order share one memo; failures are not memoised; cycles of mentions | the result is a function of the definitions, not of the order; a cycle is diagnosed exactly when there is one |
| Renderer (renderer.cpp) | output, call stack with scopes, slots, depth; loop count; diagnostics; `output_limited_` | `render_nodes`, one overload per node, `append`, shell rendering | mutual recursion of components and slots; scopes that follow slots; a fragment cut out and put back; shared budgets; cancellation | an output without an error is complete; the limits hold; it ends |
| Compilation pipeline (compiler.cpp) | result, diagnostics | `compile` | which phases run after which errors | no output from a failed load; diagnostics of all phases kept |
| Language server (server.cpp, document_store.cpp, workspace.cpp, json_rpc.cpp) | document store, `cancelled_`, shutdown flag; two pipes | requests and notifications, `publish`, `preview` | edits run ahead of the server; blocking pipes; files change on disk; cancellation crosses the answer | the store is what the editor has; each request answered once; diagnostics become current |
| Preview of the extension (extension.ts) | `previewUri`, `previewData`, `previewRequest`, timer, panel | commands, change/close/dispose callbacks, `refreshPreview` | callbacks interleave at every `await`; late responses; document objects outlive their file | the panel only gets current content and keeps up with edits |
| Include resolvers (include.cpp) | none (a map of virtual files) | `resolve` | search order, links, `..`, allowed roots, normalisation | a file has one name, the same in memory as on disk; none outside the roots |
| Expression evaluator (expr.cpp) | a cursor | `evaluate_expression` | precedence, short circuit, 64-bit overflow, decimals | the value the grammar gives the text, or an error |
| Lexer, parser (lexer.cpp, parser.cpp) | cursor, token list, diagnostics | `lex`, `parse`, `parameters` | bodies that are not lexed, strings in lists, recovery, pairing of blocks | pieces as written; what fails to nest is not lost without a word |
| Prop types and styles (types.cpp, styles.cpp) | none | `validate_prop`, layering of style bundles | ranges, exceptions on odd bounds | later layers override, unknown names are errors |
| CSS inliner, linter (css.cpp, lint.cpp) | none | `inline_css`, `apply_root_styles`, `lint_html` | cascade over rules, layers and own styles; cutting and rewriting the page | the cascade of CSS; every piece keeps its origin |
| Provenance (provenance.cpp, source.cpp) | segments beside the text | append, insert, replace | offsets after an insertion | segments stay ordered, in range and with their text |
| Text positions (positions.cpp) | none | `offset_at`, `position_at` | UTF-16 over UTF-8, surrogate pairs, line ends | offset and position are inverse |
| Editor features (features/, analysis/) | none | completion, navigation, symbols, formatting | UTF-16 positions | positions in range |
| Command line (email-markup-cli) | outputs claimed, `failed`, report; the files | `build`, `compile`, `check`, `fmt` | several sources, a failure or a crash between two outputs, saves meanwhile | exit code 0 means all outputs are current; the report is true |
| Platform layer (system.cpp) | the file system | `AtomicTextFile`, `read_text_file` | crash between write and rename | an output is the old text or the new one |
| Embedded HTML and CSS (webProjection.ts, webFeatures.ts) | none | projection with equal offsets | offsets | every offset maps to itself |

`PROJECT.json` lists every component with its status, and under "hazards" the
places in the code that are hard to test, each with the properties that cover it
or the reason why none does yet.

## 2. Plan

Done, in this order:

1. `IncludeOrder` (abstract) and `Loader`, with `MCLoader` and `LoaderProofs`.
2. `TokenResolution`, with `MCTokenResolution` and `TokenResolutionProofs`.
3. `Renderer`, with `MCRenderer`, a reference meaning of documents, and `RendererProofs`.
4. `LspServer` with the editor and the pipes around it, `MCLspServer` and `LspServerProofs`.
5. `PreviewSession`, with `MCPreviewSession` and `PreviewSessionProofs`.
6. `AtomicOutputs` (abstract) and `Build`, with `MCBuild` and `BuildProofs`.
7. Operators with reference definitions: `Expressions`, `Lexing`, `Parsing`,
   `Lists`, `Declarations`, `Inlining`, `Positions` and `IncludePaths`, checked by `MCOperators`,
   and `PureParts` with `OperatorProofs` for those written with recursive functions.

Left, the most important first:

8. `Compilation`: the gates between the phases of `compile()` over one diagnostics
   list, composing what Loader, TokenResolution and Renderer promise.
9. Exceptions of the server's handlers, of which types.cpp:166 throws one.
10. `PropTypes`: the grammar of declarations and the checks of a value.
11. The editor features as functions of one document and a position.
12. `Lists` (the arguments of a tag) and `Lexing` with recursive functions in place of folds,
    and their part of `SyntaxAsWritten` for every text, as it is done for `Declarations`.

## 3. The modules

### Loader and IncludeOrder

`Loader` is the recursion of `Loader::load` as a stack of frames. A frame is an
active call: the document's key and parsed text, the loop's position, the depth
argument, and whether it is the entry. One step is one iteration of a loop over
include nodes (or over `compile()`'s own loads when the stack is empty) together
with the prologue of the call it makes; the end of a loop is `FinishDocument`.

| Code | Model |
|---|---|
| compiler.cpp:62-80, the loads of imports, shell, entry | `Roots`, `root`, `AdvanceRoot` |
| loader.cpp:138-148, loop over nodes, unquoted path | `HasItem`, `Current`, `Advanced`, `RejectUnquoted` |
| loader.cpp:56-75 `resolve_path` | `RejectUnresolved`, or a path of the model |
| loader.cpp:80-117, the early returns in their order | `LoadCancelled`, `LoadCycle`, `LoadAgain`, `LoadTooDeep`, `LoadTooMany`, `LoadUnreadable` |
| loader.cpp:119-136, parse and the node limit | `LoadTooManyNodes`, `LoadDocument` |
| loader.cpp:154-158 and registry.cpp:5-26 | `FinishDocument` with `MergedRegistry`, `Collisions` |
| loader.cpp:49-54 `issue` | `Issue` |

A text is what the parser finds in it: its includes in order, the names it
defines, its node count and its parse errors. Path resolution is an input: a path,
or `Unresolved`. The names of components, styles and tokens are one set because
`merge_registry` treats the three maps alike. A file is read with the same
content each time within one compilation.

`IncludeOrder` is what the loader promises: a document is added to the order
once, and, as long as nothing is in trouble, after everything it includes.
`RefinesIncludeOrder` maps `dependencies` to the order, `documents` to the
documents, and "not `Clean`" (an error, a full list or a cancellation) to trouble.

### TokenResolution

The `resolve` lambda as a stack of frames (name, position among the mentions, the
context built so far). The hash table's order is the choice of the token that
`Visit` takes. Expressions are abstracted to what their text mentions (the
`token.<name>` search of tokens.cpp:33), what evaluation really reads (not what is
in a string literal or behind a short circuit), and the outcome when all of that is there.
Since whether a token resolves depends on which tokens its evaluation reads and
never on their values, `output` holds names only.

### Renderer

`render_nodes` and its overloads as a stack of frames: root, branch, loop, slot,
call. A frame has its nodes and position, its variables (loop bindings and
props), its slots, its depth, and the length of the output when it began. A
document is a set of named blocks, so that blocks can be shared and components
can call themselves. A piece of output has size one: a text node, an emitted
value, or the style attribute that a styled call adds to its first tag. The
model follows the order of the code: cancellation and limit before each node;
all iterations of a loop charged before the first; arguments before
defaults before slots; the depth test before any of them. An expression that fails is
`Invalid`, with an error past the cap of the list, or `Broken`, an interpolated string that
`evaluate` itself refuses, with an error that the cap may drop.

`Rendering`, at the end of the module, is what a document says: a recursive function
from the nodes, variables and slots in hand to the output, without frames,
limits, diagnostics or an order of work, and `None` where the recursion does not end.
It looks names up where the code does. `CompleteWhenOk` compares the output with it
for every document: no early return goes unreported.
`MCRenderer` defines `Meaning`, what EMAIL-MARKUP.md:62-112 says a document means: components
are closed, props are what the call gives or the default, slot content belongs to where it
is written. `MeansAsWritten` compares with it on documents whose names do not clash
and that do not forward slots, because on the others the code and the meaning
differ (section 5).

Left out: escaping, provenance segments, the text of styles.

### LspServer

The server is one thread: it reads a message, changes the store, and leaves the
documents to compile in `work`; `Compile` and `Send` take them one by one. The
editor and the disk act in between, and the two pipes are bounded, so a full
output pipe blocks the server (`HasRoom`). A compilation reads the files in one
step; the reads of a real compilation are spread over time, but a write between
them also leaves a watched-file event behind it. The model's server waits for
room before it reads a message rather than in the middle of handling one; nobody
sees the difference, as the store is private. Texts are sequences of characters,
ranges are offsets cut off at the end of the text. The editor's side (its
buffers, its watcher, its requests) is external: a client that follows the protocol.

### PreviewSession

One action per callback, or per part of a callback between two awaits.
`refreshPreview` up to its await is `Requested`; after it, `Respond`, which has
the checks of extension.ts:100-104. A `vscode.TextDocument` is an object of its own
(`doc`, `closedAt`): one whose file was closed keeps the version it had then.
`forClosed` is a history variable: the last refresh was for such an object. The
server answers in order and from the version it had when it was asked, which
`LspServer` shows to be right.

### Build and AtomicOutputs

One process of the command line after another, on a file system that users write
to at the same time. One action per call of the operating system, with a second
action for its failure, which throws: `Throws` goes through the destructor of
`AtomicTextFile` (`Discard`) where there is one to run.

| Code | Model |
|---|---|
| application.cpp, session: em.json and the data are read, or throw | `Start`, `SessionThrows` |
| command_executor.cpp:236-249, the directory walk | `List` (what it finds, all or less) |
| command_executor.cpp:261-298, the loop of `build` | `RejectDuplicate`, `Choose`, `Read`, `Compile`, `EndBuild` |
| command_executor.cpp, `compile`, `check`, `format` | the same steps under another `command` |
| system.cpp:60-128, `AtomicTextFile` | `Create`, `Write`, `Replace`, `Discard` and their failures |
| a signal, a stopped machine | `Kill` |

A text is the number of the save it comes from and whether it compiles.
`AtomicOutputs` is the promise of README.md:75: an output is replaced in one step,
by what was made of a text of its source, never of an older one than before.
`WritesAreAtomic` maps `outputs` to it and everything else to a stutter.

### The operators

Eight modules translate code that keeps no state between its calls, each with a
reference definition beside it; `MCOperators` takes one input of one part at a time
and compares. The reference is never the algorithm again: it starts from the
other end.

| Module | Code | Reference |
|---|---|---|
| `Expressions` | the recursive descent of expr.cpp, which evaluates while it parses | the value of a syntax tree by structural recursion over exact fractions; the code gets the tree's tokens |
| `Lexing` | `lex` of lexer.cpp with `delimited` and the search for the end of a raw body | the pieces a document was put together from |
| `Parsing` | class `Parser` of parser.cpp with its recovery | the tree the tokens were written from; on damaged sequences, that each token is in the tree, in a definition or told of |
| `Lists` | `parameters` of parser.cpp | the entries a list was written from |
| `Declarations` | `parse_declarations` and `serialize_declarations` of css.cpp | the declarations a text was written from, the last of each name |
| `Inlining` | styles.cpp, compiler.cpp:94-121, css.cpp, provenance.cpp | for each tag and property, the last layer or rule that sets it; for each unit, where it came from |
| `Positions` | positions.cpp, source.cpp | the characters a text was encoded from |
| `IncludePaths` | both resolvers of include.cpp | the file that the system finds; the disk for the memory |

`PureParts` takes any input of the parts that are proved for every input, where `MCOperators`
takes bounded ones; the property is the same definition in both. `Loops` has the one form in
which these modules write a loop of the code: a recursive function of the rounds done.

Integers have the width `MaxInt` gives them, undefined behaviour is a value of its own
(`Undefined`), a thrown diagnostic another (`Error`).

### SetInduction

The prover cannot instantiate induction theorems that take an operator, so
`SetInduction` proves the forms that the proofs (of the tokens, the renderer, the server and
the operators) need with a set in place of the property: least and
greatest elements, induction over an interval, and the existence and the type of a function
that is defined by recursion over an interval. `FixedPoint` goes further: a recursion over any set
has a function that satisfies it when a special value, here `None`, absorbs, so that the value
can stand for a recursion that does not end.

## 4. The runs

Passing runs:

| Run | Question | Instance |
|---|---|---|
| `loader_graphs` | include-once, no re-entry, precedence, collisions, refinement of `IncludeOrder` | every graph over three files with up to two ordered includes each, one of which may be over the AST limit, requests with imports and a shell, a list of three diagnostics |
| `loader_faults` | limits, nothing skipped silently, termination, a cancellation ends the reading | broken includes and files; four files under limits of 2 includes, depth 1, 4 nodes, 2 diagnostics; cancellation anywhere |
| `tokens_order` | soundness, independence of the order, exact cycle diagnostics, termination | every registry of three tokens, up to two mentions each, all outcomes, every order |
| `renderer_documents` | an output without error is all that the document says, and what the language means by it | 8640 documents and warning counts: every pairing of node kinds, two components deep, with and without a shell; and one or two wrong nodes of every kind under a list of two diagnostics |
| `renderer_limits` | depth, loop budget, byte limit, fragments, termination | self-calling and mutually calling components, nested loops; depth 2, 5 iterations, 5 pieces, 3 diagnostics, cancellation anywhere |
| `lsp_synchronisation` | the store follows the editor; diagnostics become current; every request is answered, exactly once | two documents with a common file, up to three versions, a disk write, a request with its cancellation, the shutdown, pipes of two and one |
| `preview_refresh` | the panel is current, keeps up, and comes to rest | two documents, two versions, one of them not compiling, three refreshes |
| `build` | outputs replaced whole; exit code and report true; every command ends | three sources of which two have one output, every listing, two processes, one save of each source, every call failing, kills anywhere |
| `operators` | the pure parts agree with their references | 110,207 inputs: expressions of up to two operators and a unary one, documents of three pieces, all texts of five characters, token sequences with one token removed, added or replaced, pages of three pieces, all texts of three characters and all of four bytes, requests on disks with links |

Runs that show the code doing otherwise than documented: `loader_cycle_error`,
`renderer_slot_forwarding`, `renderer_required_prop` (section 5).

Why the bounds are enough. Three files hold every shape of cycle and diamond that
the memo sets can tell apart: a document is new, open, loaded, or a self-loop,
and a third one can be between any two. Limits are chosen so that each is met both at a root
and inside a walk, and the diagnostics list is small enough to be full when an
error arrives. In `loader_faults` the include limit with its overrun is three documents, so that a
fourth file can be refused; that bound is met, and neither half of `WithinLimits` holds by the
number of files. There the entry's own path has the text of the request on the disk (`FaultySpec`):
no include of that run leads to it. In `loader_graphs` three documents and two names give more
collisions than the list of three has room for, so warnings are pushed past it. Three tokens allow a cycle entered from outside and a token
that fails inside another's cycle and is visited again. The renderer's depth of two
and three lets a component be nested in the content of another and exceed the
limit from there; five iterations are used up by a nested loop half way. Two
pipe places allow an edit to overtake a compilation and a close to overtake a request.
Three refreshes let one be overtaken while another waits and the timer starts a
third. Two processes let the second meet the outputs and the rubbish of the first; one
save of each source is enough for a text that is newer than what was read, or that does
not compile. Integers of three bits (`MaxInt` 3) overflow with every operator on operands
that are literals of the instance, as does `MaxDecimal` 9; a list of two diagnostics
(`DiagnosticLimit`) is full within one document, and files are one byte below, at and above
`MaximumBytes`. What one of the pure parts does with a nested or repeated construct depends on the
construct around it and the one before, so two levels and three pieces meet every pair.

A deadlock is not looked for in the runs of the renderer, the server, the
preview and the build: the renderer stops when it is done, the server at exit, the preview
when the bound on requests is used up, the command line when `MaxRuns` processes have run. The bounds are `MaxVersion`,
`MaxRequests`, `MaxInbox`, `MaxOutbox`, `MaxDiskChanges` (the pipes' sizes stand for real
ones), `MaxSaves` and `MaxRuns`; the loader, the tokens and the renderer need none beyond their limits.

Each property of a passing run has a mutant in `PROJECT.json`: a definition of
the model changed as a plausible bug in that line would change it, with which
the run fails.

### Fairness

- `LoadStep`, `Step`, `Advance`: weak fairness of the one thread that compiles. Sequential
  code takes its next step. `Cancel` is the caller's choice and has no fairness.
- `Serve` and `Receive`: the server's loop reads as long as there is something to
  read (server.cpp:25), and an editor reads what the server sends. What the user
  does has no fairness; a watched-file event and an edit need not happen.
- `TimerFires` and `Respond`: a timer of the extension host fires, and the server
  answers, by `RequestsAnswered`.
- `Run`: weak fairness of the process of the command line. Its calls return, with or
  without an error; a kill and a save have no fairness.

## 5. Where the code and its documents differ

Shown by a run:

- `loader_cycle_error`: `issue()` (loader.cpp:51) drops an error when the list is
  full, and collision warnings alone can fill it, so an include cycle leaves no
  error; EMAIL-MARKUP.md:153 calls cycles errors.
- `renderer_slot_forwarding`: slot content is rendered with the slots of the component that
  references it (renderer.cpp:300), so content that itself references that slot
  renders itself without end, and the depth limit does not see it; EMAIL-MARKUP.md:111.
- `renderer_required_prop`: a callee starts with its caller's props
  (renderer.cpp:322, 367), so a missing required prop is silently inherited;
  EMAIL-MARKUP.md:106.
Met while modelling, and confirmed by hand on the models' traces; they explain the
conditions of the properties named, or what the references leave out:

- The include limit counts finished documents only (loader.cpp:103), so a chain
  passes it by up to the depth limit: hence the bound in `WithinLimits`;
  EMAIL-MARKUP.md:185.
- EM0601 and parse diagnostics are pushed past `maximum_diagnostics`
  (registry.cpp:13, loader.cpp:123), and so are the diagnostics of token
  evaluation, once per mention of a failing token (tokens.cpp:92);
  EMAIL-MARKUP.md:187.
- An import or a shell that includes the entry's own path loads it from disk as
  an ordinary document, and the request's text is then ignored (loader.cpp:96):
  `EntryOverrides` says that this happens then (`ImportedFirst`) and never otherwise;
  EMAIL-MARKUP.md:156.
- The body of a component sees the bindings of a loop around the call
  (renderer.cpp:322); EMAIL-MARKUP.md:72.
- A cancellation seen between two iterations (renderer.cpp:248) returns without a
  diagnostic: hence `~cancelled` in `CompleteWhenOk` and `MeansAsWritten`; PLAN.md:318.
- With the list full of warnings the error of a limit is lost (renderer.cpp:96): hence
  `warnings < MaxDiagnostics` in `CompleteWhenOk`; PLAN.md:320.
- The test of the version before a publication (server.cpp:218) cannot fail in a server
  with one thread, so diagnostics of an old version are published while a newer one waits in
  the pipe; EMAIL-MARKUP.md:213.
- The first preview is requested before there is a panel, and an edit meanwhile
  starts no timer (extension.ts:92, 194): hence `panel # None` in
  `QuietMeansCurrent`; PLAN.md:489.
- A file closed and opened again while the user enters data leaves `openPreview` with a
  dead document object (extension.ts:148, 161), whose old version then passes the test
  of extension.ts:101: hence `forClosed`; PLAN.md:492.
- Messages are handled in order, so a `$/cancelRequest` is read after the answer was
  sent (server.cpp:61): a request is never answered as cancelled; PLAN.md:464.
- A test of a prop against a bound throws when the value is a string (types.cpp:166); no handler of
  the server catches it (server.cpp:27), and the server ends.
- A cancelled load leaves no error when a warning came before it (loader.cpp:82).
- An explicit fill of the default slot is dropped without a diagnostic when the call has
  other children (renderer.cpp:406).
- An error of the directory walk ends the walk silently and the build can exit with 0
  (command_executor.cpp:240); EMAIL-MARKUP.md:199.
- A build that fails at one source has replaced the outputs of those before it
  (command_executor.cpp:277); PLAN.md:416.
- `fmt --write` replaces a source by what it read before: a save in between is lost
  (command_executor.cpp:223).
- Unsigned integers of the data above the signed range wrap (expr.cpp, `get<std::int64_t>`);
  PLAN.md:108. A decimal below the smallest one is converted without a test (expr.cpp:264),
  and the remainder of the smallest integer by -1 is undefined (expr.cpp:252).
- A chain of unary operators is accepted, where the grammar of PLAN.md:107 allows one.
- A style whose name is the empty string is dropped without a diagnostic (parser.cpp:351), where a
  component or a token of that name is told of: no input of `operators` has one.
- A second `@Template` or `@Props` of a component, and a second definition of a name in
  one file, replace the first without a diagnostic; EMAIL-MARKUP.md:157.
- A stray closing tag ends the parse of the document; each token behind it is told of
  as EM0204. The diagnostics of `parameters` are not counted against the limit.
- `inline_css` drops a style block that has a selector other than a class, and a value with
  double quotes breaks the style attribute it is put into; media rules of a document that is rendered
  without a shell are put in front of the output (compiler.cpp:98) or lost with an empty one.
- A `..` above the root is an error for files in memory and the root on disk; a request
  through a directory that does not exist is only normalised on disk (include.cpp:77).

## 6. The proofs

All proofs are for every value of the constants that the ASSUMEs of the module
allow. Theorems whose property is also checked by a run:

| Module | Theorem | Property |
|---|---|---|
| `LoaderProofs` | `TypeCorrect` | `TypeOK` |
| | `EachFileOnce` (with `NeverReenters`, `IncludeOnce`, `ParsesOnce`) | `OnceEach` (its parts `OpenOnce`, `MergedOnce`, `ParsedOnce`) |
| | `LimitsBound` | `WithinLimits` |
| | `NothingSkipped` | `CleanMeansComplete` |
| | `IncluderWins` | `IncluderOverrides` |
| | `EntryIsInForce` | `EntryOverrides` |
| | `CollisionsAreWarned` | `CollisionsWarned` |
| | `CancelEndsReading` | `StopsReading`, the safety half of `Terminates` |
| | `LoaderRefinesIncludeOrder` | `RefinesIncludeOrder` |
| `TokenResolutionProofs` | `TypeCorrect` | `TypeOK` |
| | `OutputIsSound` | `OutputSound` |
| | `OrderDoesNotMatter` | `OrderIrrelevant` |
| | `CyclesAreDiagnosed` | `CyclesDiagnosed` |
| `RendererProofs` | `TypeCorrect` | `TypeOK` |
| | `LimitsHold` | `WithinLimits` |
| | `CallsKeepWhatIsWritten` | `WrittenIsKept` |
| | `OkIsComplete` | `CompleteWhenOk` |
| `LspServerProofs` | `TypeCorrect` | `TypeOK` |
| | `StoreIsFollowing` | `StoreFollowsEditor` |
| | `RequestsHaveOneAnswer` | `AnsweredOnce` |
| | `DiagnosticsSettle` | `DiagnosticsCurrent` |
| `PreviewSessionProofs` | `TypeCorrect` | `TypeOK` |
| | `OnlyCurrentUpdates` | `UpdatesAreCurrent` |
| | `QuietPanelIsCurrent` | `QuietMeansCurrent` |
| | `ImagesAreAskedFor` | `ImagesPerPreview` |
| `BuildProofs` | `TypeCorrect` | `TypeOK` |
| | `BuildRefinesAtomicOutputs` | `WritesAreAtomic` |
| | `ZeroIsCurrent` | `ZeroMeansCurrent` |
| | `ReportsAreTrue` | `ReportIsTrue` |
| `OperatorProofs` | `PositionsOfEveryText` (with `PlacesHaveOnePosition` and `EncodingIsChecked`) | `PositionsAgree` |
| | `PathsOfEveryDisk` (with `FilesHaveOneName` and `MemoryIsLikeDisk`) | `PathsAgree` |
| | `StylesOfEveryPage` (with `FinishCascades`, `LayersInOrder` and `EntriesKept`) | `StylesCascade` |

Two more have no run of their own: `CycleTestExact` (the visiting set of the tokens is the stack) and
`NoLitter` (a temporary file stays behind only where a process was killed or the
system refused to remove it).

### Loader

The safety invariants are not inductive alone. `OpenOnce` needs nothing beyond
types; `WithinLimits` needs that the depth argument counts the frames, and that
a frame was admitted when fewer documents were loaded (`StackShape`).
`CleanMeansComplete` speaks of the end only; its invariant is `PassedAreLoaded`: while
nothing went wrong, each item that a loop has passed is loaded, or is the document
that the loop is waiting for, which `StackShape` says is the next frame. At the
end there is no frame, so all roots are loaded, with everything they include.
`IncluderOverrides` follows because an includer is merged after what it includes:
`FinishDocument` may only overwrite with the top document's name, and by `OpenOnce`
that is none of its own includes. `EntryOverrides` has the same reason at the bottom of the stack
(`EntryWins`): until the entry's call begins only what the imports and the shell reach has been met, and
from then on the entry's frame is the lowest, and is merged last. In the case of `ImportedFirst` it is the other way round: while imports and the shell
are loaded every frame has its text from the disk (`EntryFromDisk`), and what is merged stays.
`CancelEndsReading` needs no invariant but the types: only `Parse` reads, and it tests the flag.
`CollisionsWarned` follows because
a name that is defined stays defined (`StaysDefined`), so that whichever document brings the
second definition finds the first. `ParsedOnce` needs `ParsedAreHeld`: each parsed text is open or
loaded until the node limit is passed, and from then on no document is opened (`NothingNewHeld`). The refinement maps each step to
the abstract `Take` (a merge), to `GetTroubled`, or to a stutter; that the added document's includes are
there is `PassedAreLoaded` at the top frame.

### TokenResolution

`OutputSound` is by the least set `Resolvable` being closed. `OrderIrrelevant`
needs the converse, and there lies the difficulty: a token met inside another's cycle may fail there
although it has a value. `Without(V)` is the set of tokens that have a value when
those of `V` have none. `MissingBlocked` says that a mention that brought no value
is not in `Without` of the active calls up to that frame. When the outermost
call fails, its only active token is itself, and a token that has no value
without itself has none (the lemma on `Without`): so `VisitedDecided`, that the loop
leaves each token with its value or without any, is kept. `CyclesDiagnosed` is an equivalence. Only a
token that is being visited is noted as a cycle, and by induction over the stack each active call's
token reaches the mention in hand (`ActiveReaches`), so what is noted is a cycle. For the other
direction, as long as none was noted what the resolution is done with is `Founded`
(`Quiet`): it is in every set that contains each token whose mentions it contains. No
token of that kind lies on a cycle (`FoundedIsAcyclic`), and at the end every token is one.

### Renderer

A step does one of four things to the stack: the top frame goes on, it calls another
frame, it returns, or the rendering of the document or of the shell ends (`NextSteps`). What
follows is about these four and not about the twenty actions. `TypeOK` is not
inductive: the fragment of a styled call is cut off at its `start`, which is a position of
the output only because fragments nest, so `TypeOK` and `FragmentsNest` are proved
together. `DepthExact` counts all frames, its invariant `DepthsChain` compares each with the
one below; the count follows by induction over the stack (`ChainCounts`). `LoopBudget` is a sum
over the stack, a function defined by recursion: `WaitingShrinks` shows that
it is monotone in the frames. What a call's arguments, defaults and children
are folded into is typed by `TypedRecursion`.

`CompleteWhenOk` speaks of the end; its invariant `Underway` says of any time before the first
diagnostic: the output so far, followed by what each active frame has left to say, closed and styled
frame by frame from the top of the stack down, is what the whole document says. A step moves
a part from what is left to the output (a text, a value), unfolds it into a frame (a branch, an iteration,
a slot, a call) or returns from a frame with nothing left. Each of these is one case of the
recursion that defines `Rendering`. The proof has three difficulties. That there is a function
with this recursion at all, since components may call themselves, is `FixedPoint`. That a call
unfolds into the same props, style and slots as in `Rendering` holds only when its
arguments, defaults and children gave no error: the folds of the code count errors on the way, and a
count that is zero at the end was zero throughout. And an error once counted is never withdrawn, so an output
without errors at the end had none at any step.

### LspServer

`StoreFollowsEditor` says that the store, with the messages on their way applied to it,
is what the editor has; the steps are a message put at the end of the pipe or
taken from its front, so the invariant is about the runs of the recursion that applies
messages (`RunsAgree`: two runs over the same messages agree, and a run over the rest of
a queue is the tail of the run over it). `AnsweredOnce` needs where a request can be: unread,
at work, answered and unread, or received (`Answering`: exactly one of them), and that numbers are
given once (`Numbered`). `DiagnosticsCurrent` speaks of the time when everything has arrived; its invariant
`Settling` says of any time that for each open document either the last diagnostics on
their way or shown are those of the present text and files, or something on its way or at work will
have it compiled again (`Stirred`).

### PreviewSession

`UpdatesAreCurrent` and `ImagesPerPreview` need `CallsFit` (a refresh that waits has a
request number of its own, and only the last one is the present one) and `ObjectsFit` (an
object of a closed file keeps its version). `QuietMeansCurrent` is the end of `Pending`: as
long as the panel is not current, a timer runs or the last request is under way, and is for a
version that was present when it was made, with a timer for every edit since.

### Build

`WritesAreAtomic` needs `NotOlder`: what is in hand is not older than the text at the
start of the process, and an output is not newer than its source; a step is then `Save`, `Publish` or a
stutter. `ZeroMeansCurrent` speaks of a process that has ended; its invariant `Succeeds` says of
a running build that, as long as nothing failed, the sources up to the one in hand have claimed outputs of their own
and those before it have new ones. That no later source can write over one of
them is the distinctness of the claims. `ReportIsTrue` has the invariant `Reported`: only the last entry of a
report may still wait for its file, the entries' outputs differ, and the output of the source
in hand is as it was when the process began, until the replacement.

### Operators

A loop of the code over a text is a recursive function of what it has in hand; that there is
such a function is `LoopExists`, from the fixed point of `SetInduction`. `Spells` says what a text of whole
characters looks like byte by byte, `AtCharacter` what the code reads at the beginning of one.
`PlacesHaveOnePosition` then goes by induction over the characters: each loop passes one of them
in one step (to a line: in one step per byte), and stops at the place meant, which for a position
inside a surrogate pair or behind the line is the last one before it. The line starts of the compiler
are one more than the newlines before a place, by induction too. For `EncodingIsChecked`
take the longest accepted part of a text that is the encoding of some characters: if a byte were left,
the character that is whole there would make it longer.

For the paths the loops run over the parts of one, so plain induction over these is enough. A walk
ends at a directory, at a file or nowhere, and what it finds walks to itself (`WalkOfPlace`), so a
path that exists is canonical where the walk ends (`CanonicalOfExisting`), and one of which only
the last part is missing leads to no file (`CanonicalOfMissing`). That gives `FilesHaveOneName`, where
`RootAllows` shows that comparing with a root's canonical name is comparing with the place it
reaches. Without links a walk is the normal path (`WalkWithoutLinks`), and so is what memory computes
while nothing leaves the root (`VirtualIsNormal`); `MemoryIsLikeDisk` then needs only that both
compare the same path with the same files. Its hypotheses are where the two differ: above the root
memory finds nothing, and drops such a root, where the disk stays at the root.

For the styles, a loop over a sequence has a result and every round keeps an invariant
(`RoundsExist`, `RoundsKeep`). `IsCascade` says without a choice what layers declare together; it has
one solution (`CascadeUnique`), and one more layer on top is `Over` (`CascadeGrows`), which gives
`MergedCascades` and `LayersInOrder`. `StylesOfEveryPage` has three parts:

- HTML with its origins. `Is(g, html, origins)` is the invariant of `GeneratedHtml`: the segments follow
  each other without a gap, none is empty, together they cover the HTML, and each unit has the
  origin of its segment. `AppendIs`, `InsertIs` and `SliceIs` show that append, insert and append_slice
  keep it, also where an insertion falls inside a segment, and `SegmentFound` that segment_at then
  finds the right origin. A page is a sequence of pieces, of which `PieceInPlace` gives the
  offsets; the loops of inline_css run over units, so `PieceByPiece` turns an invariant over pieces
  into one over units. The invariant of both loops is `Copied`: what is in the output, and what of
  the input is not copied yet, are together the expected page up to the piece. `InsertMediaIs`,
  `StripIs` and `RestyleIs` follow, and from them `FinishCascades`.
- Layers of styles: `LayersInOrder`, for any bundles, names and call.
- Declarations. `Closes` says that a text closes its strings and parentheses and hides each `;`;
  such a text is read as it is (`ReadsOn`), so one declaration more is one layer more
  (`ReadsDeclaration`), and the whole is the cascade of the entries (`ReadEntries`). What was
  read can be written and read again (`WhatIsRead`, `ReadAgain`).

Its hypotheses are those of the instance without the bounds: each piece has at least one unit, names are not
empty, and a value is one by `IsValue` (`CssValuesAreValues` shows that the instance's values are).
The constants are any sets.

### Only model-checked

Termination and the other liveness properties, which are beyond the prover; the
operators of `Expressions`, `Lexing`, `Parsing` and `Lists` (`ExpressionsEvaluate`,
`SyntaxAsWritten`), which are written with recursive operators and folds; and
`MeansAsWritten`, whose reference in `MCRenderer` is recursive and is met only by documents
with names that do not clash.

## 7. What is not modelled

- The gates between the phases of `compile()` beyond the order of roots and the
  start of the shell: that a phase is skipped after an error restates one condition per phase.
- The scanner of expressions (expr.cpp:20-85) and the text a value is emitted as;
  the spelling of entities and escapes in HTML.
- The checks of a prop's value against its declared type, range and bound
  (types.cpp): they restate the declaration. What a failing check does to a call is in `Renderer`.
- The linter, the data loader, the formatter and the runtime assets: single passes or
  look-ups that keep no state.
- The editor features (completion, navigation, symbols, context): functions of one
  document; as requests they are in `LspServer`.
- The reading of arguments of the command line, the envelope of a `compile_request`, the
  layout of reports.
- Exceptions thrown by handlers of the server, malformed messages, the search for
  `em.json`; starting and stopping the server process from the extension.
- The overload of `inline_css` without provenance (css.cpp:97-175): the same algorithm.
- The projection of documents for embedded HTML and CSS, packaging and benchmark tools.

Within the modelled components: the bytes of texts, the wording of diagnostics and,
except in the operators, source positions. Overlong UTF-8 forms and links that lead back to
themselves are left out of `Positions` and `IncludePaths`.
