------------------------------- MODULE Loader -------------------------------
(***************************************************************************)
(* The include loader of one compilation: detail::Loader                   *)
(* (email-markup-core/src/compilation/loader.cpp) driven by the loading    *)
(* half of compile() (compilation/compiler.cpp).                           *)
(*                                                                         *)
(* compile() loads the imports in order, then the shell, then the entry    *)
(* document.  Each load is a depth-first walk over the @Include nodes of a *)
(* document; a document is merged into the registry when its walk ends, so *)
(* after everything it includes.  The recursion of Loader::load is the     *)
(* stack of frames below; an iteration of its loop over the document's     *)
(* nodes, with the prologue of the load() call it makes, is one step.      *)
(***************************************************************************)
EXTENDS Naturals, Sequences, FiniteSets

CONSTANTS
  Path,             \* canonical paths of the project: the values of path_key()
  Name,             \* component, style and token names, kinds kept apart
  Text,             \* the file contents considered, by what parse() finds in them
  Requests,         \* the compilation requests considered
  Entry,            \* path_key(request.entry_path)
  Unresolved,       \* an @Include whose target the resolver rejects
  Unquoted,         \* an @Include without a quoted path
  EntryCall,        \* compile()'s own load of request.source
  NoText, None,
  MaxIncludes, MaxIncludeDepth, MaxAstNodes, MaxDiagnostics,
  MayCancel         \* whether the caller passed a cancellation token

Item == Path \cup {Unresolved, Unquoted}

\* What parse() and is_valid_utf8() report of a text.  "includes" lists the
\* top-level IncludeNodes in order; "errors" counts the parse diagnostics.
TextType == [form: {"ok", "oversized", "invalid_utf8"}, includes: Seq(Item),
             defines: SUBSET Name, nodes: Nat, errors: Nat]

\* The parts of a CompilationRequest the loader reads.  An import or a shell is
\* what resolve_path() makes of it; it cannot be Unquoted.
RequestType == [source: Text, imports: Seq(Path \cup {Unresolved}),
                shell: Path \cup {Unresolved, None}]

ASSUME PathAssumption == IsFiniteSet(Path) /\ Entry \in Path
ASSUME NameAssumption == IsFiniteSet(Name)
ASSUME TextAssumption == Text \subseteq TextType
ASSUME RequestAssumption == Requests \subseteq RequestType
ASSUME MarkerAssumption ==
  /\ Unresolved \notin Path /\ Unquoted \notin Path /\ EntryCall \notin Item
  /\ Unresolved # Unquoted /\ None \notin Item /\ NoText \notin Text
ASSUME LimitAssumption ==
  /\ MaxIncludes \in Nat /\ MaxIncludeDepth \in Nat
  /\ MaxAstNodes \in Nat /\ MaxDiagnostics \in Nat
ASSUME CancelAssumption == MayCancel \in BOOLEAN

VARIABLES
  disk,          \* what FileResolver::resolve reads for each path
  request,       \* the CompilationRequest, constant during the compilation
  root,          \* the next of compile()'s own loads
  stack,         \* the active load() calls, innermost last
  documents,     \* parsed documents by key; a key with a document is loaded
  dependencies,  \* merged documents in merge order
  registry,      \* the document whose definition of a name is in force
  diagnostics,   \* diagnostic codes in the order they were issued
  sources,       \* SourceManager: every text handed to parse()
  astNodes,
  cancelled      \* the shared flag behind the CancellationToken

vars == <<disk, request, root, stack, documents, dependencies, registry,
          diagnostics, sources, astNodes, cancelled>>
fixed == <<disk, request>>

-----------------------------------------------------------------------------
Code == {"EM0301", "EM0302", "EM0303", "EM0304", "EM0601", "EM0902", "EM0905",
         "EM0906", "EM0907", "EM0908", "parse"}

\* EM0601 is the one warning; every other code here has Severity::error.
IsError(code) == code # "EM0601"
HasErrors == \E i \in DOMAIN diagnostics : IsError(diagnostics[i])

\* Loader::issue drops what does not fit under maximum_diagnostics.
Issue(ds, code) == IF Len(ds) < MaxDiagnostics THEN Append(ds, code) ELSE ds

Copies(code, n) == [i \in 1..n |-> code]

loaded == {p \in Path : documents[p] # NoText}
Open == {stack[k].path : k \in DOMAIN stack}
AtRoot == stack = <<>>
Top == stack[Len(stack)]

\* The loads compile() makes, in order.
Roots == request.imports
           \o (IF request.shell = None THEN <<>> ELSE <<request.shell>>)
           \o <<EntryCall>>

\* The loop a load() call or compile() itself is in, and the item it is at.
HasItem == IF AtRoot THEN root <= Len(Roots)
                     ELSE Top.next <= Len(Top.text.includes)
Current == IF AtRoot THEN Roots[root] ELSE Top.text.includes[Top.next]

PathOf(item) == IF item = EntryCall THEN Entry ELSE item
\* Mutant: the entry is read from disk like any other document.
TextOfIgnoresSource(item) == disk[IF item = EntryCall THEN Entry ELSE item]
TextOf(item) == IF item = EntryCall THEN request.source ELSE disk[item]
\* Mutant: the nested call is handed the depth of its caller less one.
DepthCountsDown == IF AtRoot THEN 0 ELSE Top.depth - 1
Depth == IF AtRoot THEN 0 ELSE Top.depth + 1

\* The same loop, past that item.
\* Mutant: the loop over the nodes does not move on.
AdvancedForgotten == stack
Advanced == IF AtRoot THEN stack ELSE [stack EXCEPT ![Len(stack)].next = @ + 1]
AdvanceRoot == root' = IF AtRoot THEN root + 1 ELSE root

Init ==
  /\ request \in Requests
  /\ disk \in [Path -> Text]
  /\ root = 1
  /\ stack = <<>>
  /\ documents = [p \in Path |-> NoText]
  /\ dependencies = <<>>
  /\ registry = [n \in Name |-> None]
  /\ diagnostics = <<>>
  /\ sources = <<>>
  /\ astNodes = 0
  /\ cancelled = FALSE

-----------------------------------------------------------------------------
\* The loop leaves an item behind with at most a diagnostic.
Skip(ds) ==
  /\ HasItem
  /\ diagnostics' = ds
  /\ stack' = Advanced
  /\ AdvanceRoot
  /\ UNCHANGED <<fixed, documents, dependencies, registry, sources, astNodes,
                 cancelled>>

RejectUnquoted ==
  /\ HasItem /\ Current = Unquoted
  /\ Skip(Issue(diagnostics, "EM0304"))

\* Mutant: an unresolved include is skipped without a diagnostic.
RejectUnresolvedSilently ==
  /\ HasItem /\ Current = Unresolved
  /\ Skip(diagnostics)
RejectUnresolved ==
  /\ HasItem /\ Current = Unresolved
  /\ Skip(Issue(diagnostics, "EM0301"))

\* load() is called.  Its checks come in this order, each an early return.
Calls(item) == HasItem /\ Current = item /\ item \notin {Unquoted, Unresolved}

LoadCancelled(item) ==
  /\ Calls(item)
  /\ cancelled
  /\ Skip(IF diagnostics = <<>> THEN Issue(diagnostics, "EM0902")
                                ELSE diagnostics)

\* Mutant: an include of an open document counts as already loaded.
LoadCycleSilently(item) ==
  /\ Calls(item) /\ ~cancelled
  /\ PathOf(item) \in Open
  /\ Skip(diagnostics)
LoadCycle(item) ==
  /\ Calls(item) /\ ~cancelled
  /\ PathOf(item) \in Open
  /\ Skip(Issue(diagnostics, "EM0302"))

LoadAgain(item) ==
  /\ Calls(item) /\ ~cancelled
  /\ PathOf(item) \in loaded \ Open
  /\ Skip(diagnostics)

IsNewIgnoresOpen(item) ==
  Calls(item) /\ ~cancelled /\ PathOf(item) \notin loaded
IsNewIgnoresLoaded(item) ==
  Calls(item) /\ ~cancelled /\ PathOf(item) \notin Open
IsNew(item) ==
  Calls(item) /\ ~cancelled /\ PathOf(item) \notin Open \cup loaded

LoadTooDeep(item) ==
  /\ IsNew(item)
  /\ Depth > MaxIncludeDepth
  /\ Skip(Issue(diagnostics, "EM0905"))

LoadTooMany(item) ==
  /\ IsNew(item) /\ Depth <= MaxIncludeDepth
  /\ Cardinality(loaded) >= MaxIncludes
  /\ Skip(Issue(diagnostics, "EM0906"))

\* Mutants: the depth limit is off by one, or the include limit is.
AdmittedOneTooDeep(item) ==
  /\ IsNew(item)
  /\ Depth <= MaxIncludeDepth + 1
  /\ Cardinality(loaded) < MaxIncludes
AdmittedOneTooMany(item) ==
  /\ IsNew(item)
  /\ Depth <= MaxIncludeDepth
  /\ Cardinality(loaded) <= MaxIncludes
Admitted(item) ==
  /\ IsNew(item)
  /\ Depth <= MaxIncludeDepth
  /\ Cardinality(loaded) < MaxIncludes

LoadUnreadable(item) ==
  /\ Admitted(item)
  /\ \/ /\ TextOf(item).form = "oversized"
        /\ Skip(Issue(diagnostics, "EM0907"))
     \/ /\ TextOf(item).form = "invalid_utf8"
        /\ Skip(Issue(diagnostics, "EM0303"))

\* The text is registered and parsed.  Parse diagnostics are inserted without
\* the cap of issue().
Parse(item) ==
  /\ Admitted(item)
  /\ TextOf(item).form = "ok"
  /\ sources' = Append(sources, PathOf(item))
  /\ astNodes' = astNodes + TextOf(item).nodes
  /\ AdvanceRoot
  /\ UNCHANGED <<fixed, documents, dependencies, registry, cancelled>>

Parsed(item) == diagnostics \o Copies("parse", TextOf(item).errors)

\* Too many nodes: the frame is popped again, and the path is not loaded.
LoadTooManyNodes(item) ==
  /\ Parse(item)
  /\ astNodes' > MaxAstNodes
  /\ diagnostics' = Issue(Parsed(item), "EM0908")
  /\ stack' = Advanced

LoadDocument(item) ==
  /\ Parse(item)
  /\ astNodes' <= MaxAstNodes
  /\ diagnostics' = Parsed(item)
  /\ stack' = Append(Advanced,
                     [path |-> PathOf(item), text |-> TextOf(item), next |-> 1,
                      depth |-> Depth, entry |-> item = EntryCall])

\* merge_registry: the later definition of a name is in force; unless it is the
\* entry's, each name it takes from another document is a collision.
\* Mutant: an existing definition is kept.
RegistryKeepsFirst ==
  [n \in Name |-> IF n \in Top.text.defines /\ registry[n] = None
                 THEN Top.path ELSE registry[n]]
MergedRegistry ==
  [n \in Name |-> IF n \in Top.text.defines THEN Top.path ELSE registry[n]]

\* Mutant: every document compile() loads itself may override silently.
CollisionsBelowRoots == IF Top.depth = 0 THEN {}
                        ELSE {n \in Top.text.defines : registry[n] # None}
Collisions == IF Top.entry THEN {}
              ELSE {n \in Top.text.defines : registry[n] # None}

\* Mutant: the warnings obey the limit of issue().
FinishDocumentCapped ==
  /\ ~AtRoot /\ ~HasItem
  /\ registry' = MergedRegistry
  /\ diagnostics' = IF Collisions = {} THEN diagnostics ELSE Issue(diagnostics, "EM0601")
  /\ dependencies' = Append(dependencies, Top.path)
  /\ documents' = [documents EXCEPT ![Top.path] = Top.text]
  /\ stack' = SubSeq(stack, 1, Len(stack) - 1)
  /\ UNCHANGED <<fixed, root, sources, astNodes, cancelled>>
\* The loop over the document's nodes ends: merge_registry, whose warnings are
\* pushed without the cap, the dependency, the document, the loaded mark, the pop.
FinishDocument ==
  /\ ~AtRoot /\ ~HasItem
  /\ registry' = MergedRegistry
  /\ diagnostics' = diagnostics \o Copies("EM0601", Cardinality(Collisions))
  /\ dependencies' = Append(dependencies, Top.path)
  /\ documents' = [documents EXCEPT ![Top.path] = Top.text]
  /\ stack' = SubSeq(stack, 1, Len(stack) - 1)
  /\ UNCHANGED <<fixed, root, sources, astNodes, cancelled>>

\* The caller flips the shared flag; loads see it at their next check.
Cancel ==
  /\ MayCancel /\ ~cancelled
  /\ cancelled' = TRUE
  /\ UNCHANGED <<fixed, root, stack, documents, dependencies, registry,
                 diagnostics, sources, astNodes>>

Completed == AtRoot /\ ~HasItem

LoadStep ==
  \/ RejectUnquoted
  \/ RejectUnresolved
  \/ \E item \in Path \cup {EntryCall} :
       \/ LoadCancelled(item)
       \/ LoadCycle(item)
       \/ LoadAgain(item)
       \/ LoadTooDeep(item)
       \/ LoadTooMany(item)
       \/ LoadUnreadable(item)
       \/ LoadTooManyNodes(item)
       \/ LoadDocument(item)
  \/ FinishDocument

\* The last disjunct keeps a finished load from counting as a deadlock.
Next == LoadStep \/ Cancel \/ (Completed /\ UNCHANGED vars)

\* compile() is one thread that always takes its next step; cancelling is the
\* caller's choice.
Spec == Init /\ [][Next]_vars
FairSpec == Spec /\ WF_vars(LoadStep)
-----------------------------------------------------------------------------
(***************************************************************************)
(* Properties.                                                             *)
(***************************************************************************)
Frame == [path: Path, text: Text, next: Nat \ {0}, depth: Nat, entry: BOOLEAN]

\* The type of every variable: the loader's fields hold what pipeline.hpp says.
TypeOK ==
  /\ disk \in [Path -> Text]
  /\ request \in RequestType
  /\ root \in Nat \ {0}
  /\ stack \in Seq(Frame)
  /\ documents \in [Path -> Text \cup {NoText}]
  /\ dependencies \in Seq(Path)
  /\ registry \in [Name -> Path \cup {None}]
  /\ diagnostics \in Seq(Code)
  /\ sources \in Seq(Path)
  /\ astNodes \in Nat
  /\ cancelled \in BOOLEAN

\* No document is open twice, and none is open that is already merged: the
\* recursion of load() never re-enters a file, so cycles end (loader.cpp:88).
OpenOnce ==
  /\ \A j, k \in DOMAIN stack : stack[j].path = stack[k].path => j = k
  /\ Open \cap loaded = {}

\* Include-once: the dependency list that CompilationResult hands out names
\* every merged document exactly once (loader.cpp:96, 154-156).
MergedOnce ==
  /\ \A i, j \in DOMAIN dependencies : dependencies[i] = dependencies[j] => i = j
  /\ {dependencies[i] : i \in DOMAIN dependencies} = loaded

\* The limits that hold: load() calls nest at most one deeper than the depth
\* limit, and because loaded.size() leaves the open documents out, the include
\* limit can be passed by as many documents as the depth limit allows.
WithinLimits ==
  /\ Len(stack) <= MaxIncludeDepth + 1
  /\ Cardinality(loaded) + Len(stack) <= MaxIncludes + MaxIncludeDepth

\* A text is parsed, and kept by the SourceManager, once for each path.  Only a
\* document over the AST limit is parsed again, at the next include of it, and
\* none that is parsed twice is ever entered or merged: no text counts twice in
\* the nodes of a compilation that stays below the limit (loader.cpp:96, 128).
ParsedOnce ==
  \A i, j \in DOMAIN sources :
    i # j /\ sources[i] = sources[j] =>
      astNodes > MaxAstNodes /\ sources[i] \notin Open \cup loaded

\* No file is entered, merged or parsed a second time.
OnceEach == OpenOnce /\ MergedOnce /\ ParsedOnce

\* Below the cap of issue() no diagnostic was dropped: the list is all there is.
Clean == ~cancelled /\ ~HasErrors /\ Len(diagnostics) < MaxDiagnostics

\* A load that ends with room for more diagnostics and no error among them has
\* loaded everything: each import, the shell, the entry, and every include of
\* every document, with nothing skipped by a check of load().
CleanMeansComplete ==
  Completed /\ Clean =>
    /\ \A i \in DOMAIN Roots : PathOf(Roots[i]) \in loaded
    /\ \A p \in loaded : \A i \in DOMAIN documents[p].includes :
         documents[p].includes[i] \in loaded

\* A document's definitions replace those of the documents it includes, as
\* "first depth-first insertion order" implies: an includer is merged later.
IncluderOverrides ==
  Clean =>
    \A p \in loaded : \A i \in DOMAIN documents[p].includes :
      LET q == documents[p].includes[i] IN
        \A n \in documents[p].defines : q # p => registry[n] # q

\* "A collision between included definitions is diagnosed": two merged
\* documents other than the entry that define one name leave a warning.
CollisionsWarned ==
  \A p, q \in loaded \ {Entry} :
    p # q /\ documents[p].defines \cap documents[q].defines # {} =>
      \E i \in DOMAIN diagnostics : diagnostics[i] = "EM0601"

\* The least set of paths that holds S and the includes of its members.
ReachableFrom(S) ==
  {p \in Path : \A C \in SUBSET Path :
     /\ S \subseteq C
     /\ \A q \in C : \A i \in DOMAIN disk[q].includes :
          disk[q].includes[i] \in Path => disk[q].includes[i] \in C
     => p \in C}

\* What the imports and the shell bring in before the entry is loaded.
ImportedFirst ==
  ReachableFrom({PathOf(Roots[i]) : i \in 1..(Len(Roots) - 1)} \cap Path)

\* The entry's text is the one the request carries and its definitions win, but
\* for exactly one case: if an import or the shell brings the entry's own path in,
\* what the disk has under it is the entry, and the request's text is lost
\* (loader.cpp:96, compiler.cpp:80).
EntryOverrides ==
  Completed /\ Clean =>
    IF Entry \in ImportedFirst THEN documents[Entry] = disk[Entry]
    ELSE /\ documents[Entry] = request.source
         /\ \A n \in request.source.defines : registry[n] = Entry

\* A cancellation is seen at every depth of the walk: once the flag is set no
\* further text is read, though the open documents are still merged
\* (loader.cpp:80-85).
StopsReading == [][cancelled => UNCHANGED <<sources, astNodes>>]_vars

\* Every compilation finishes loading, whatever its include graph: the walk
\* cannot run for ever (loader.cpp:88-107), and ends without reading another
\* text once it is cancelled.
Terminates == <>Completed /\ StopsReading

\* The loader implements the include order of IncludeOrder: the trouble is an
\* error, a full diagnostic list or a cancellation.
Order == INSTANCE IncludeOrder WITH
  order <- dependencies, docs <- documents, troubled <- ~Clean
RefinesIncludeOrder == Order!Spec

-----------------------------------------------------------------------------
(***************************************************************************)
(* The strengthening that makes the invariants inductive.                  *)
(***************************************************************************)
\* The frames are the nested load() calls: each waits in the iteration that
\* made the next one, and the depth argument counts them.
StackShape ==
  /\ \A k \in DOMAIN stack :
       /\ stack[k].depth = k - 1
       /\ stack[k].next <= Len(stack[k].text.includes) + 1
  /\ \A k \in 1..(Len(stack) - 1) :
       /\ stack[k].next > 1
       /\ stack[k].text.includes[stack[k].next - 1] = stack[k + 1].path
  /\ root <= Len(Roots) + 1
  /\ ~AtRoot => root > 1 /\ PathOf(Roots[root - 1]) = stack[1].path

\* While nothing went wrong, what a loop has passed is loaded or is the
\* document the loop is waiting for, and what is loaded is loaded with all it
\* includes.
PassedAreLoaded ==
  Clean =>
    /\ \A k \in DOMAIN stack : \A i \in 1..(stack[k].next - 1) :
         \/ stack[k].text.includes[i] \in loaded
         \/ k < Len(stack) /\ i = stack[k].next - 1
    /\ \A i \in 1..(root - 1) :
         PathOf(Roots[i]) \in loaded \/ (~AtRoot /\ i = root - 1)
    /\ \A p \in loaded : \A i \in DOMAIN documents[p].includes :
         documents[p].includes[i] \in loaded

\* Every parsed text is open or loaded, until the AST limit is passed.
ParsedAreHeld ==
  astNodes <= MaxAstNodes =>
    \A i \in DOMAIN sources : sources[i] \in Open \cup loaded

-----------------------------------------------------------------------------
(***************************************************************************)
(* What the documents say of the loader, and the code does not do.         *)
(***************************************************************************)
\* EMAIL-MARKUP.md:153, "include cycles ... are errors": a document that
\* includes itself is not merged without an error on the list.
CyclesAreErrors ==
  \A p \in loaded : (\E i \in DOMAIN documents[p].includes :
                       documents[p].includes[i] = p)
                    => HasErrors \/ cancelled
=============================================================================
