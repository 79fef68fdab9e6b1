------------------------------- MODULE Build -------------------------------
(***************************************************************************)
(* The command line on the file system: CommandExecutor::compile, check,   *)
(* format and build (email-markup-cli/src/commands/command_executor.cpp),  *)
(* the CompilationSession that reads for them, AtomicTextFile              *)
(* (email-markup-platform/src/system.cpp) that writes for them, and the    *)
(* exit codes of Application::run.                                         *)
(*                                                                         *)
(* One process runs at a time.  Users save sources while it does, any call *)
(* of the operating system may fail, and the process may be killed between *)
(* any two of them.  A text is the number of the save it comes from and    *)
(* whether it compiles; a compiled text is known by its source and number. *)
(***************************************************************************)
EXTENDS Naturals, Sequences

CONSTANTS
  Source,       \* the .em files that the directory walk may find
  Listings,     \* what a walk may find, sorted: everything, or less after an error
  Output, OutputOf,  \* relative_path.html under the output directory
  None,
  MaxSaves, MaxRuns

Text == [version: Nat, ok: BOOLEAN]
Compiled == [source: Source, version: Nat]
Commands == {"build", "compile", "check", "fmt"}

ASSUME ListingAssumption == Listings \subseteq Seq(Source)
\* Different files have one output if one is a link to the other.
ASSUME OutputAssumption == OutputOf \in [Source -> Output]
ASSUME NoneAssumption ==
  /\ None \notin Compiled \cup Text \cup Source \cup Output \cup {0, 1, 2, "partial", "whole"} \cup Commands
  /\ Source \cap Output = {}
ASSUME BoundsAssumption == MaxSaves \in Nat /\ MaxRuns \in Nat

VARIABLES
  texts,      \* the contents of the sources
  outputs,    \* the contents of the outputs, None if there is no file
  litter,     \* the number of temporary files left behind
  \* the process
  command,    \* what runs, or None
  step,       \* what it does next
  found,      \* the sources to go through
  next,       \* the position of the source in hand
  inHand,     \* the text read from it
  target,     \* where its result goes: an output, the source, or None
  claimed,    \* the local variable "outputs" of build()
  temporary,  \* the temporary file: None, "partial" or "whole"
  failed,     \* the local variable "failed" of build()
  report,     \* the results printed, or the entries for the machine report
  exit,       \* the exit code of the last process, None if it was killed
  \* history
  runs, lost, \* processes started; temporary files that could not be removed
  began       \* the texts and the outputs when the process started

files == <<texts, outputs, litter>>
vars == <<files, command, step, found, next, inHand, target, claimed, temporary, failed,
          report, exit, runs, lost, began>>

Init ==
  /\ texts = [s \in Source |-> [version |-> 0, ok |-> TRUE]]
  /\ outputs = [o \in Output |-> None] /\ litter = 0
  /\ command = None /\ step = "none" /\ found = <<>> /\ next = 1 /\ inHand = None
  /\ target = None /\ claimed = {} /\ temporary = None /\ failed = FALSE
  /\ report = <<>> /\ exit = None
  /\ runs = 0 /\ lost = 0 /\ began = [texts |-> texts, outputs |-> outputs]

-----------------------------------------------------------------------------
Current == found[next]
Go(s) == step' = s
\* The process ends with an exit code, None if it is killed.
Ends(code) == command' = None /\ step' = "none" /\ exit' = code /\ temporary' = None
\* An exception leaves every command; Application::run turns it into 2, after
\* the destructor of AtomicTextFile, if there is one to destroy.
Throws ==
  /\ IF temporary = None THEN Ends(2)
     ELSE Go("discard") /\ UNCHANGED <<command, exit, temporary>>
  /\ UNCHANGED <<files, found, next, inHand, target, claimed, failed, report, runs, lost, began>>

\* The session finds and reads em.json and the data, or throws.
Start(c, sources, o) ==
  /\ command = None /\ runs < MaxRuns
  /\ command' = c /\ runs' = runs + 1
  /\ found' = sources /\ next' = 1 /\ target' = o
  /\ inHand' = None /\ claimed' = {} /\ failed' = FALSE /\ report' = <<>> /\ exit' = None
  /\ began' = [texts |-> texts, outputs |-> outputs]
  /\ Go(IF c = "build" THEN "list" ELSE "read")
  /\ UNCHANGED <<files, temporary, lost>>
StartFile ==
  \E s \in Source : \/ \E o \in Output : Start("compile", <<s>>, o)
                    \/ Start("check", <<s>>, None)
                    \/ Start("fmt", <<s>>, s)
StartBuild == Start("build", <<>>, None)
SessionThrows == step = "list" /\ Throws

\* The walk; an error ends it, and nothing tells.
List ==
  /\ step = "list"
  /\ found' \in Listings
  /\ Go("choose")
  /\ UNCHANGED <<files, command, next, inHand, target, claimed, temporary, failed, report,
                 exit, runs, lost, began>>

\* The loop of build().
\* Mutant: no output is a duplicate.
NeverDuplicate == FALSE
Duplicate == OutputOf[Current] \in claimed
RejectDuplicate ==
  /\ step = "choose" /\ next <= Len(found) /\ Duplicate
  /\ failed' = TRUE /\ next' = next + 1
  /\ UNCHANGED <<files, command, step, found, inHand, target, claimed, temporary, report,
                 exit, runs, lost, began>>
Choose ==
  /\ step = "choose" /\ next <= Len(found) /\ ~Duplicate
  /\ target' = OutputOf[Current] /\ claimed' = claimed \cup {OutputOf[Current]}
  /\ Go("read")
  /\ UNCHANGED <<files, command, found, next, inHand, temporary, failed, report, exit, runs,
                 lost, began>>
EndBuild ==
  /\ step = "choose" /\ next > Len(found)
  /\ Ends(IF failed THEN 1 ELSE 0)
  /\ UNCHANGED <<files, found, next, inHand, target, claimed, failed, report, runs, lost, began>>

\* read_text_file; in the commands for one file the session reads before it.
Read ==
  /\ step = "read"
  /\ inHand' = texts[Current]
  /\ Go(IF command = "fmt" THEN "create" ELSE "compile")
  /\ UNCHANGED <<files, command, found, next, target, claimed, temporary, failed, report, exit,
                 runs, lost, began>>
ReadThrows == step = "read" /\ Throws

\* "continue" after a failure; otherwise the source stays in hand until its
\* output is written.
\* Mutant: the loop has moved on before.
PositionAdvancing(ok) == next + 1
Position(ok) == IF ok THEN next ELSE next + 1
\* Mutant: a failure is forgotten with the next success.
FailedForgetting(ok) == ~ok
Failed(ok) == failed \/ ~ok

\* Reports the diagnostics, then writes only what compiled.
Compile ==
  /\ step = "compile"
  /\ report' = Append(report, [source |-> Current, ok |-> inHand.ok])
  /\ \/ /\ command = "build"
        /\ Go(IF inHand.ok THEN "create" ELSE "choose")
        /\ next' = Position(inHand.ok) /\ failed' = Failed(inHand.ok)
        /\ UNCHANGED <<command, temporary, exit>>
     \/ /\ command = "compile" /\ inHand.ok /\ Go("create")
        /\ UNCHANGED <<command, next, temporary, failed, exit>>
     \/ /\ command = "check" \/ (command = "compile" /\ ~inHand.ok)
        /\ Ends(IF inHand.ok THEN 0 ELSE 1)
        /\ UNCHANGED <<next, failed>>
  /\ UNCHANGED <<files, found, inHand, target, claimed, runs, lost, began>>

-----------------------------------------------------------------------------
\* AtomicTextFile: the constructor opens the temporary file, commit() writes it,
\* flushes and closes it, and renames it; the destructor removes it otherwise.
Create ==
  /\ step = "create"
  /\ temporary' = "partial" /\ Go("write")
  /\ UNCHANGED <<files, command, found, next, inHand, target, claimed, failed, report, exit,
                 runs, lost, began>>
CreateThrows == step = "create" /\ Throws

Write ==
  /\ step = "write"
  /\ temporary' = "whole" /\ Go("replace")
  /\ UNCHANGED <<files, command, found, next, inHand, target, claimed, failed, report, exit,
                 runs, lost, began>>
WriteThrows == step = "write" /\ Throws

\* The file that takes its name from the temporary one; what fmt writes is the
\* text it read, tidied.
Replaced ==
  IF command = "fmt"
  THEN /\ texts' = [texts EXCEPT ![target] = [version |-> @.version + 1, ok |-> inHand.ok]]
       /\ UNCHANGED outputs
  ELSE /\ outputs' = [outputs EXCEPT ![target] = [source |-> Current, version |-> inHand.version]]
       /\ UNCHANGED texts
Continues ==
  IF command = "build"
  THEN Go("choose") /\ next' = next + 1 /\ inHand' = None /\ temporary' = None
         /\ UNCHANGED <<command, exit>>
  ELSE Ends(0) /\ UNCHANGED <<next, inHand>>
\* Mutant: the text is written into the file itself, which a failing write
\* leaves without one.
ReplaceInPlace ==
  /\ step = "replace"
  /\ \/ Replaced
     \/ command # "fmt" /\ outputs' = [outputs EXCEPT ![target] = None] /\ UNCHANGED texts
  /\ Continues
  /\ UNCHANGED <<litter, found, target, claimed, failed, report, runs, lost, began>>
Replace ==
  /\ step = "replace" /\ temporary = "whole"
  /\ Replaced /\ Continues
  /\ UNCHANGED <<litter, found, target, claimed, failed, report, runs, lost, began>>
ReplaceThrows == step = "replace" /\ Throws

\* Mutant: the destructor tries until it succeeds.
DiscardForEver == step = "discard" /\ UNCHANGED vars
Discard ==
  /\ step = "discard" /\ Ends(2)
  /\ \/ UNCHANGED <<litter, lost>>
     \/ litter' = litter + 1 /\ lost' = lost + 1     \* the error is ignored
  /\ UNCHANGED <<texts, outputs, found, next, inHand, target, claimed, failed, report, runs, began>>

Run ==
  \/ SessionThrows \/ List \/ RejectDuplicate \/ Choose \/ EndBuild
  \/ Read \/ ReadThrows \/ Compile
  \/ Create \/ CreateThrows \/ Write \/ WriteThrows \/ Replace \/ ReplaceThrows \/ Discard

\* The process is killed, or the machine stops.
Kill ==
  /\ command # None /\ Ends(None)
  /\ IF temporary = None THEN UNCHANGED <<litter, lost>>
     ELSE litter' = litter + 1 /\ lost' = lost + 1
  /\ found' = <<>> /\ next' = 1 /\ inHand' = None /\ target' = None /\ claimed' = {}
  /\ failed' = FALSE /\ report' = <<>>
  /\ UNCHANGED <<texts, outputs, runs, began>>

Save(s) ==
  /\ texts[s].version < MaxSaves
  /\ \E ok \in BOOLEAN :
       texts' = [texts EXCEPT ![s] = [version |-> @.version + 1, ok |-> ok]]
  /\ UNCHANGED <<outputs, litter, command, step, found, next, inHand, target, claimed,
                 temporary, failed, report, exit, runs, lost, began>>

Next == StartFile \/ StartBuild \/ Run \/ Kill \/ \E s \in Source : Save(s)

Spec == Init /\ [][Next]_vars
\* A process that is not killed goes on.
FairSpec == Spec /\ WF_vars(Run)

-----------------------------------------------------------------------------
\* The type invariant.
TypeOK ==
  /\ texts \in [Source -> Text] /\ outputs \in [Output -> Compiled \cup {None}]
  /\ litter \in Nat /\ command \in Commands \cup {None}
  /\ step \in {"none", "list", "choose", "read", "compile", "create", "write", "replace", "discard"}
  /\ found \in Seq(Source) /\ next \in Nat \ {0} /\ inHand \in Text \cup {None}
  /\ target \in Output \cup Source \cup {None} /\ claimed \subseteq Output
  /\ step \notin {"none", "list", "choose", "discard"} => next \in DOMAIN found
  /\ step \in {"compile", "create", "write", "replace"} => inHand \in Text
  /\ temporary \in {None, "partial", "whole"} /\ failed \in BOOLEAN
  /\ report \in Seq([source: Source, ok: BOOLEAN]) /\ exit \in {0, 1, 2, None}
  /\ runs \in Nat /\ lost \in Nat
  /\ began \in [texts: [Source -> Text], outputs: [Output -> Compiled \cup {None}]]

\* An output made from the source since the process started.
IsNew(o, s) ==
  outputs[o] # None /\ outputs[o].source = s /\ outputs[o].version >= began.texts[s].version

\* Exit code 0 of a build means that each source it found has an output of its
\* own, made from a text the source has had since the build began: no failure,
\* no duplicate and no exception of the loop gets lost (command_executor.cpp:261-298).
ZeroMeansCurrent ==
  command = None /\ exit = 0 /\ found # <<>> /\ claimed # {} =>
    \A i \in DOMAIN found : IsNew(OutputOf[found[i]], found[i])

\* What a build has reported of a source is true of the output: new if it said
\* ok, else the one from before, whatever happened to the other sources.  The
\* last entry may still be in the making, or its write may have failed.
ReportIsTrue ==
  \A i \in DOMAIN report :
    LET r == report[i]
        o == IF claimed = {} THEN target ELSE OutputOf[r.source]
    IN o # None =>
         IF r.ok THEN IsNew(o, r.source) \/ (i = Len(report) /\ outputs[o] = began.outputs[o])
         ELSE outputs[o] = began.outputs[o]

\* Temporary files stay behind only where a process was killed or the file
\* system refused to remove one (system.cpp:77-84), and none is in the way of a
\* file that is in place.
LitterAccounted ==
  /\ litter <= lost
  /\ temporary # None <=> step \in {"write", "replace", "discard"}

\* Every command comes to its end (or is killed).
Finishes == command # None ~> command = None

\* Readers of the outputs see what AtomicOutputs promises.
Promise == INSTANCE AtomicOutputs WITH
  text <- [s \in Source |-> texts[s].version], output <- outputs
WritesAreAtomic == Promise!Spec
=============================================================================
