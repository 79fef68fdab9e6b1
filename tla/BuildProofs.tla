---------------------------- MODULE BuildProofs ----------------------------
(***************************************************************************)
(* Proofs about Build, for every set of sources and outputs, every result  *)
(* of the directory walk, and any number of saves and processes.           *)
(***************************************************************************)
EXTENDS Build, TLAPS

\* The commands keep to their own steps and targets.
Shape ==
  /\ command = None <=> step = "none"
  /\ command # None /\ command # "build" => claimed = {} /\ step \notin {"list", "choose"}
  /\ command = "compile" => target \in Output
  /\ command = "fmt" => target \in Source /\ step # "compile" /\ report = <<>>
  /\ command = "check" => target = None /\ step \in {"read", "compile", "discard"}
  /\ command = "build" /\ claimed = {} => step \in {"list", "choose"} /\ report = <<>>
  /\ command = "build" /\ step \notin {"list", "choose", "discard"} => target = OutputOf[Current]
  /\ step = "list" => command = "build"
  /\ temporary # None <=> step \in {"write", "replace", "discard"}

\* Every step is one of these; one action of its own below each.
LEMMA StepCases ==
  ASSUME [Next]_vars, NEW G,
         StartFile => G, StartBuild => G, SessionThrows => G, List => G,
         RejectDuplicate => G, Choose => G, EndBuild => G, Read => G, ReadThrows => G,
         Compile => G, Create => G, CreateThrows => G, Write => G, WriteThrows => G,
         Replace => G, ReplaceThrows => G, Discard => G, Kill => G,
         (\E s \in Source : Save(s)) => G, UNCHANGED vars => G
  PROVE  G
BY DEF Next, Run

-----------------------------------------------------------------------------
LEMMA InitTyped == Init => TypeOK /\ Shape
<1> SUFFICES ASSUME Init PROVE TypeOK /\ Shape
  OBVIOUS
<1> USE NoneAssumption DEF Init
<1>1. texts \in [Source -> Text] /\ outputs \in [Output -> Compiled \cup {None}]
  BY DEF Text
<1>2. began \in [texts: [Source -> Text], outputs: [Output -> Compiled \cup {None}]]
  BY <1>1
<1>3. found \in Seq(Source) /\ report \in Seq([source: Source, ok: BOOLEAN])
  OBVIOUS
<1>4. TypeOK
  <2>1. failed \in BOOLEAN
    OBVIOUS
  <2>2. QED
    BY <1>1, <1>2, <1>3, <2>1 DEF TypeOK
<1>5. Shape
  BY DEF Shape, Commands
<1>6. QED
  BY <1>4, <1>5

LEMMA StartTyped ==
  ASSUME TypeOK, Shape, NEW c \in Commands, NEW sources \in Seq(Source),
         NEW o \in Output \cup Source \cup {None}, Start(c, sources, o),
         c # "build" => sources # <<>>,
         c = "compile" => o \in Output, c = "fmt" => o \in Source, c = "check" => o = None
  PROVE  TypeOK' /\ Shape'
<1>1. 1 \in DOMAIN sources \/ c = "build"
  BY DEF Commands
<1>2. c # None
  BY NoneAssumption
<1>3. TypeOK'
  <2>1. began' \in [texts: [Source -> Text], outputs: [Output -> Compiled \cup {None}]]
    BY DEF TypeOK, Start
  <2>2. found' \in Seq(Source) /\ next' \in Nat \ {0} /\ (step' # "list" => next' \in DOMAIN found')
    BY <1>1 DEF Start, Go
  <2>3. command' \in Commands /\ step' \in {"list", "read"} /\ runs' \in Nat
    BY DEF Start, Go, TypeOK
  <2>4. report' \in Seq([source: Source, ok: BOOLEAN]) /\ claimed' \subseteq Output
    BY DEF Start
  <2>5. target' \in Output \cup Source \cup {None}
    BY DEF Start
  <2>6. QED
    BY <2>1, <2>2, <2>3, <2>4, <2>5 DEF TypeOK, Start, files
<1>4. Shape'
  BY <1>2, NoneAssumption DEF TypeOK, Shape, Start, Go, files, Commands, Current
<1>5. QED
  BY <1>3, <1>4

LEMMA ThrowsTyped ==
  ASSUME TypeOK, Shape, Throws, step # "none"
  PROVE  TypeOK' /\ Shape'
<1>1. TypeOK'
  BY DEF TypeOK, Throws, Ends, Go, files
<1>2. Shape'
  BY NoneAssumption DEF TypeOK, Shape, Throws, Ends, Go, files, Commands, Current
<1>3. QED
  BY <1>1, <1>2

LEMMA StepTyped == TypeOK /\ Shape /\ [Next]_vars => TypeOK' /\ Shape'
<1> SUFFICES ASSUME TypeOK, Shape, [Next]_vars PROVE TypeOK' /\ Shape'
  OBVIOUS
<1> USE NoneAssumption
<1>1. ASSUME StartFile PROVE TypeOK' /\ Shape'
  <2> PICK s \in Source : \/ \E o \in Output : Start("compile", <<s>>, o)
                          \/ Start("check", <<s>>, None)
                          \/ Start("fmt", <<s>>, s)
    BY <1>1 DEF StartFile
  <2> <<s>> \in Seq(Source) /\ <<s>> # <<>>
    OBVIOUS
  <2> {"compile", "check", "fmt"} \subseteq Commands
    BY DEF Commands
  <2>1. ASSUME NEW o \in Output, Start("compile", <<s>>, o) PROVE TypeOK' /\ Shape'
    BY <2>1, StartTyped
  <2>2. ASSUME Start("check", <<s>>, None) PROVE TypeOK' /\ Shape'
    BY <2>2, StartTyped
  <2>3. ASSUME Start("fmt", <<s>>, s) PROVE TypeOK' /\ Shape'
    BY <2>3, StartTyped
  <2>4. QED
    BY <2>1, <2>2, <2>3
<1>2. ASSUME StartBuild PROVE TypeOK' /\ Shape'
  <2>1. "build" \in Commands /\ <<>> \in Seq(Source)
    BY DEF Commands
  <2>2. QED
    BY <1>2, <2>1, StartTyped DEF StartBuild
<1>3. ASSUME SessionThrows \/ ReadThrows \/ CreateThrows \/ WriteThrows \/ ReplaceThrows
      PROVE  TypeOK' /\ Shape'
  <2>1. Throws /\ step # "none"
    BY <1>3 DEF SessionThrows, ReadThrows, CreateThrows, WriteThrows, ReplaceThrows
  <2>2. QED
    BY <2>1, ThrowsTyped
<1>4. ASSUME List PROVE TypeOK' /\ Shape'
  BY <1>4, ListingAssumption DEF List, TypeOK, Shape, Go, files, Commands, Current
<1>5. ASSUME RejectDuplicate PROVE TypeOK' /\ Shape'
  BY <1>5 DEF RejectDuplicate, TypeOK, Shape, files, Commands, Current
<1>6. ASSUME Choose PROVE TypeOK' /\ Shape'
  <2>1. next \in DOMAIN found /\ Current \in Source
    BY <1>6 DEF Choose, TypeOK, Current
  <2>2. QED
    BY <1>6, <2>1, OutputAssumption DEF Choose, TypeOK, Shape, Go, files, Commands, Current
<1>7. ASSUME EndBuild PROVE TypeOK' /\ Shape'
  BY <1>7 DEF EndBuild, Ends, TypeOK, Shape, files, Commands, Current
<1>8. ASSUME Read PROVE TypeOK' /\ Shape'
  <2>1. Current \in Source
    BY <1>8 DEF Read, TypeOK, Current
  <2>2. QED
    BY <1>8, <2>1 DEF Read, TypeOK, Shape, Go, files, Commands, Current
<1>9. ASSUME Compile PROVE TypeOK' /\ Shape'
  <2>1. Current \in Source /\ inHand \in Text /\ inHand.ok \in BOOLEAN
    BY <1>9 DEF Compile, TypeOK, Current, Text
  <2>2. report' \in Seq([source: Source, ok: BOOLEAN])
    BY <1>9, <2>1 DEF Compile, TypeOK
  <2>3. next' \in Nat \ {0}
    BY <1>9 DEF Compile, TypeOK, Position
  <2>4. failed' \in BOOLEAN
    BY <1>9, <2>1 DEF Compile, TypeOK, Failed
  <2>5. TypeOK'
    BY <1>9, <2>1, <2>2, <2>3, <2>4 DEF Compile, Ends, Go, TypeOK, files, Position
  <2>6. Shape'
    BY <1>9, <2>1 DEF Compile, Ends, Go, TypeOK, Shape, Position, Commands, Current, files
  <2>7. QED
    BY <2>5, <2>6
<1>10. ASSUME Create \/ Write PROVE TypeOK' /\ Shape'
  BY <1>10 DEF Create, Write, TypeOK, Shape, Go, files, Commands, Current
<1>11. ASSUME Replace PROVE TypeOK' /\ Shape'
  <2>1. Current \in Source /\ inHand \in Text /\ target \in Output \cup Source
    BY <1>11, OutputAssumption DEF Replace, TypeOK, Shape, Current, Commands
  <2>2. command = "fmt" => target \in Source /\ texts' \in [Source -> Text] /\ outputs' = outputs
    <3>1. SUFFICES ASSUME command = "fmt"
                   PROVE  target \in Source /\ texts' \in [Source -> Text] /\ outputs' = outputs
      OBVIOUS
    <3>2. target \in Source /\ texts[target] \in Text
      BY <1>11, <3>1 DEF Shape, TypeOK
    <3>3. [version |-> texts[target].version + 1, ok |-> inHand.ok] \in Text
      BY <2>1, <3>2 DEF Text
    <3>4. texts' = [texts EXCEPT ![target] = [version |-> texts[target].version + 1,
                                              ok |-> inHand.ok]]
            /\ outputs' = outputs
      BY <1>11, <3>1 DEF Replace, Replaced
    <3>5. QED
      BY <3>2, <3>3, <3>4 DEF TypeOK
  <2>3. command # "fmt" => outputs' \in [Output -> Compiled \cup {None}] /\ texts' = texts
    <3>1. [source |-> Current, version |-> inHand.version] \in Compiled
      BY <2>1 DEF Compiled, Text
    <3>2. SUFFICES ASSUME command # "fmt"
                   PROVE  outputs' \in [Output -> Compiled \cup {None}] /\ texts' = texts
      OBVIOUS
    <3>3. outputs' = [outputs EXCEPT ![target] = [source |-> Current, version |-> inHand.version]]
            /\ texts' = texts
      BY <1>11, <3>2 DEF Replace, Replaced
    <3>4. QED
      BY <3>1, <3>3 DEF TypeOK
  <2>4. TypeOK'
    BY <1>11, <2>1, <2>2, <2>3 DEF Replace, Continues, Ends, Go, TypeOK
  <2>5. Shape'
    BY <1>11 DEF Replace, Continues, Ends, Go, TypeOK, Shape, Commands, Current
  <2>6. QED
    BY <2>4, <2>5
<1>12. ASSUME Discard PROVE TypeOK' /\ Shape'
  BY <1>12 DEF Discard, Ends, TypeOK, Shape, Commands, Current
<1>13. ASSUME Kill PROVE TypeOK' /\ Shape'
  <2>1. found' \in Seq(Source) /\ report' \in Seq([source: Source, ok: BOOLEAN])
    BY <1>13 DEF Kill
  <2>2. failed' \in BOOLEAN
    BY <1>13 DEF Kill
  <2>3. TypeOK'
    BY <1>13, <2>1, <2>2 DEF Kill, Ends, TypeOK
  <2>4. Shape'
    BY <1>13 DEF Kill, Ends, Shape, Commands, Current
  <2>5. QED
    BY <2>3, <2>4
<1>14. ASSUME NEW s \in Source, Save(s) PROVE TypeOK' /\ Shape'
  <2>1. texts' \in [Source -> Text]
    BY <1>14 DEF Save, TypeOK, Text
  <2>2. QED
    BY <1>14, <2>1 DEF Save, TypeOK, Shape, Commands, Current
<1>15. ASSUME UNCHANGED vars PROVE TypeOK' /\ Shape'
  BY <1>15 DEF vars, files, TypeOK, Shape, Commands, Current
<1>16. QED
  <2>1. (\E s \in Source : Save(s)) => TypeOK' /\ Shape'
    BY <1>14
  <2>2. QED
    BY <1>1, <1>2, <1>3, <1>4, <1>5, <1>6, <1>7, <1>8, <1>9, <1>10, <1>11, <1>12, <1>13,
       <1>15, <2>1 DEF Next, Run

LEMMA Typed == Spec => [](TypeOK /\ Shape)
<1>1. QED
  BY InitTyped, StepTyped, PTL DEF Spec

\* The variables keep their types; the source in hand is one that was found,
\* and a text has been read before it is compiled or written.
THEOREM TypeCorrect == Spec => []TypeOK
BY Typed, PTL
-----------------------------------------------------------------------------
(***************************************************************************)
(* Texts only grow, and nothing is made of a text older than what it       *)
(* replaces.                                                               *)
(***************************************************************************)
Made == step \in {"compile", "create", "write", "replace"}
NotOlder ==
  /\ \A s \in Source : began.texts[s].version <= texts[s].version
  /\ \A o \in Output :
       outputs[o] # None => outputs[o].version <= texts[outputs[o].source].version
  /\ Made => /\ began.texts[Current].version <= inHand.version
             /\ inHand.version <= texts[Current].version
             /\ \A o \in Output : outputs[o] # None /\ outputs[o].source = Current
                                    => outputs[o].version <= inHand.version

LEMMA InitNotOlder == Init => NotOlder
BY DEF Init, NotOlder, Made

\* A step that leaves the files and what is in hand alone.
LEMMA KeptNotOlder ==
  ASSUME TypeOK, NotOlder, UNCHANGED <<texts, outputs, began>>,
         Made' => Made /\ UNCHANGED <<found, next, inHand>>
  PROVE  NotOlder'
BY DEF NotOlder, Made, Current

LEMMA StepNotOlder == TypeOK /\ Shape /\ NotOlder /\ [Next]_vars => NotOlder'
<1> SUFFICES ASSUME TypeOK, Shape, NotOlder, [Next]_vars PROVE NotOlder'
  OBVIOUS
<1>1. ASSUME NEW c, NEW sources, NEW o, Start(c, sources, o) PROVE NotOlder'
  <2>1. ~Made' /\ UNCHANGED <<texts, outputs>> /\ began' = [texts |-> texts, outputs |-> outputs]
    BY <1>1 DEF Start, Go, Made, files
  <2>2. \A s \in Source : texts[s].version \in Nat
    BY DEF TypeOK, Text
  <2>3. QED
    BY <2>1, <2>2 DEF NotOlder
<1>2. StartFile \/ StartBuild => NotOlder'
  BY <1>1 DEF StartFile, StartBuild
<1>3. Throws => NotOlder'
  <2> SUFFICES ASSUME Throws PROVE NotOlder'
    OBVIOUS
  <2>1. ~Made' /\ UNCHANGED <<texts, outputs, began>>
    BY DEF Throws, Ends, Go, Made, files
  <2>2. QED
    BY <2>1, KeptNotOlder
<1>4. List \/ RejectDuplicate \/ Choose \/ EndBuild \/ Discard \/ Kill => NotOlder'
  <2> SUFFICES ASSUME List \/ RejectDuplicate \/ Choose \/ EndBuild \/ Discard \/ Kill
               PROVE  NotOlder'
    OBVIOUS
  <2>1. ~Made' /\ UNCHANGED <<texts, outputs, began>>
    BY DEF List, RejectDuplicate, Choose, EndBuild, Discard, Kill, Ends, Go, Made, files
  <2>2. QED
    BY <2>1, KeptNotOlder
<1>5. Read => NotOlder'
  <2> SUFFICES ASSUME Read PROVE NotOlder'
    OBVIOUS
  <2>1. Current \in Source /\ inHand' = texts[Current] /\ texts[Current].version \in Nat
    BY DEF Read, TypeOK, Current, Text
  <2>2. UNCHANGED <<texts, outputs, began, found, next>>
    BY DEF Read, files
  <2>3. QED
    BY <2>1, <2>2 DEF NotOlder, Current
<1>6. Compile \/ Create \/ Write => NotOlder'
  <2> SUFFICES ASSUME Compile \/ Create \/ Write PROVE NotOlder'
    OBVIOUS
  <2>1. UNCHANGED <<texts, outputs, began>>
    BY DEF Compile, Create, Write, files
  <2>2. Made' => Made /\ UNCHANGED <<found, next, inHand>>
    BY DEF Compile, Create, Write, Made, Go, Ends, Position
  <2>3. QED
    BY <2>1, <2>2, KeptNotOlder
<1>7. Replace => NotOlder'
  <2> SUFFICES ASSUME Replace PROVE NotOlder'
    OBVIOUS
  <2>1. ~Made' /\ began' = began /\ Made /\ Current \in Source /\ inHand \in Text
    BY DEF Replace, Continues, Ends, Go, Made, TypeOK, Current
  <2>2. CASE command = "fmt"
    <3>1. target \in Source /\ texts \in [Source -> Text] /\ outputs' = outputs
            /\ texts' = [texts EXCEPT ![target] = [version |-> texts[target].version + 1,
                                                  ok |-> inHand.ok]]
      BY <2>2 DEF Replace, Replaced, Shape, TypeOK
    <3>2. \A s \in Source : texts[s].version \in Nat /\ texts[s].version <= texts'[s].version
      BY <3>1 DEF Text
    <3>3. \A s \in Source : began.texts[s].version \in Nat /\ texts'[s].version \in Nat
      BY <3>1, <3>2 DEF TypeOK, Text
    <3>4. \A o \in Output : outputs[o] # None =>
            outputs[o].source \in Source /\ outputs[o].version \in Nat
      BY DEF TypeOK, Compiled
    <3>5. QED
      BY <2>1, <3>1, <3>2, <3>3, <3>4 DEF NotOlder
  <2>3. CASE command # "fmt"
    <3>1. texts' = texts
            /\ outputs' = [outputs EXCEPT ![target] = [source |-> Current,
                                                       version |-> inHand.version]]
      BY <2>3 DEF Replace, Replaced
    <3>2. \A o \in Output : outputs'[o] = outputs[o]
            \/ outputs'[o] = [source |-> Current, version |-> inHand.version]
      BY <3>1 DEF TypeOK
    <3>3. QED
      BY <2>1, <3>1, <3>2 DEF NotOlder
  <2>4. QED
    BY <2>2, <2>3
<1>8. ASSUME NEW s \in Source, Save(s) PROVE NotOlder'
  <2>1. UNCHANGED <<outputs, began, found, next, inHand, step>>
    BY <1>8 DEF Save
  <2>2. \A t \in Source : /\ texts[t].version \in Nat /\ texts'[t].version \in Nat
                          /\ texts[t].version <= texts'[t].version
    BY <1>8 DEF Save, TypeOK, Text
  <2>3. \A t \in Source : began.texts[t].version \in Nat
    BY DEF TypeOK, Text
  <2>4. \A o \in Output : outputs[o] # None =>
          outputs[o].source \in Source /\ outputs[o].version \in Nat
    BY DEF TypeOK, Compiled
  <2>5. Made => Current \in Source /\ inHand.version \in Nat
    BY DEF TypeOK, Made, Current, Text
  <2>6. QED
    BY <2>1, <2>2, <2>3, <2>4, <2>5 DEF NotOlder, Made, Current
<1>9. UNCHANGED vars => NotOlder'
  BY KeptNotOlder DEF vars, files, Made
<1>10. QED
  BY <1>2, <1>3, <1>4, <1>5, <1>6, <1>7, <1>8, <1>9
     DEF Next, Run, SessionThrows, ReadThrows, CreateThrows, WriteThrows, ReplaceThrows

-----------------------------------------------------------------------------
(***************************************************************************)
(* The refinement: a replacement of an output is Publish, a save or a      *)
(* replacement by fmt is Save, everything else is invisible.               *)
(***************************************************************************)
LEMMA StepPublishes ==
  ASSUME TypeOK, Shape, NotOlder, [Next]_vars
  PROVE  [Promise!Next]_<<[s \in Source |-> texts[s].version], outputs>>
<1> DEFINE abstract == [s \in Source |-> texts[s].version]
<1>1. CASE UNCHANGED <<texts, outputs>>
  BY <1>1
<1>2. ASSUME NEW s \in Source, texts' = [texts EXCEPT ![s] = [version |-> texts[s].version + 1,
                                                            ok |-> texts'[s].ok]],
             outputs' = outputs
      PROVE  Promise!Next
  <2>1. abstract' = [abstract EXCEPT ![s] = @ + 1]
    <3>1. texts \in [Source -> Text]
      BY DEF TypeOK
    <3>2. \A t \in Source : texts'[t].version = IF t = s THEN texts[s].version + 1
                                                ELSE texts[t].version
      BY <1>2, <3>1
    <3>3. abstract' = [t \in Source |-> texts'[t].version]
      OBVIOUS
    <3>4. abstract' = [t \in Source |-> IF t = s THEN texts[s].version + 1
                                       ELSE texts[t].version]
      BY <3>2, <3>3
    <3>5. QED
      BY <3>4
  <2>2. Promise!Save(s)
    BY <1>2, <2>1 DEF Promise!Save
  <2>3. QED
    BY <2>2 DEF Promise!Next
<1>3. ASSUME NEW s \in Source, Save(s) PROVE Promise!Next
  BY <1>2, <1>3 DEF Save, TypeOK
<1>4. CASE Replace
  <2>1. Made /\ Current \in Source /\ inHand.version \in Nat
    BY <1>4 DEF Replace, Made, TypeOK, Current, Text
  <2>2. CASE command = "fmt"
    BY <1>2, <1>4, <2>2 DEF Replace, Replaced, Shape, TypeOK
  <2>3. CASE command # "fmt"
    <3>1. texts' = texts
            /\ outputs' = [outputs EXCEPT ![target] = [source |-> Current,
                                                       version |-> inHand.version]]
      BY <1>4, <2>3 DEF Replace, Replaced
    <3>2. target \in Output
      BY <1>4, <2>1, <2>3, OutputAssumption DEF Replace, Shape, TypeOK, Commands
    <3>3. inHand.version \in 0..abstract[Current]
      BY <2>1 DEF NotOlder, TypeOK, Text
    <3>4. Promise!Publish(target, Current, inHand.version)
      BY <2>1, <3>1, <3>2, <3>3 DEF Promise!Publish, NotOlder
    <3>5. QED
      BY <2>1, <3>2, <3>3, <3>4 DEF Promise!Next
  <2>4. QED
    BY <2>2, <2>3
<1>5. ASSUME NEW c, NEW sources, NEW o, Start(c, sources, o) PROVE UNCHANGED <<texts, outputs>>
  BY <1>5 DEF Start, files
<1>6. StartFile \/ StartBuild => UNCHANGED <<texts, outputs>>
  BY <1>5 DEF StartFile, StartBuild
<1>7. Throws \/ List \/ RejectDuplicate \/ Choose \/ EndBuild \/ Read \/ Compile \/ Create
        \/ Write \/ Discard \/ Kill \/ UNCHANGED vars => UNCHANGED <<texts, outputs>>
  BY DEF Throws, List, RejectDuplicate, Choose, EndBuild, Read, Compile, Create, Write, Discard,
         Kill, vars, files
<1>8. QED
  BY <1>1, <1>3, <1>4, <1>6, <1>7
     DEF Next, Run, SessionThrows, ReadThrows, CreateThrows, WriteThrows, ReplaceThrows

\* Whatever fails and whenever the process is killed, an output is always the
\* old text or the whole new one (README.md:75, "Writes are atomic"), and a
\* build does not replace it by what was made of an older text.
THEOREM BuildRefinesAtomicOutputs == Spec => WritesAreAtomic
<1>1. Init => Promise!Init
  BY DEF Init, Promise!Init
<1>2. Spec => []NotOlder
  BY Typed, InitNotOlder, StepNotOlder, PTL DEF Spec
<1>3. QED
  BY <1>1, <1>2, Typed, StepPublishes, PTL DEF Spec, WritesAreAtomic, Promise!Spec

-----------------------------------------------------------------------------
LEMMA StepLitter ==
  ASSUME TypeOK, litter <= lost, [Next]_vars
  PROVE  litter' <= lost'
<1>1. UNCHANGED <<litter, lost>> \/ (litter' = litter + 1 /\ lost' = lost + 1)
  BY DEF Next, Run, StartFile, StartBuild, Start, SessionThrows, ReadThrows, CreateThrows,
         WriteThrows, ReplaceThrows, Throws, List, RejectDuplicate, Choose, EndBuild, Read,
         Compile, Create, Write, Replace, Replaced, Discard, Kill, Save, vars, files
<1>2. QED
  BY <1>1 DEF TypeOK

\* A temporary file outlives its process only if the process was killed or the
\* file could not be removed.
THEOREM NoLitter == Spec => []LitterAccounted
<1>1. Init => litter <= lost
  BY DEF Init
<1>2. TypeOK /\ Shape /\ litter <= lost /\ [Next]_vars => (litter <= lost)'
  BY StepLitter
<1>3. Shape /\ litter <= lost => LitterAccounted
  BY DEF Shape, LitterAccounted
<1>4. QED
  BY <1>1, <1>2, <1>3, Typed, PTL DEF Spec

-----------------------------------------------------------------------------
(***************************************************************************)
(* What a build has done so far.  The sources up to "Taken" have claimed   *)
(* their outputs, those before the source in hand are dealt with.          *)
(***************************************************************************)
InHand == step \in {"read", "compile", "create", "write", "replace", "discard"}
Taken == IF InHand THEN next ELSE next - 1
Out(j) == OutputOf[found[j]]

\* As long as nothing failed, the sources up to now have outputs of their own,
\* new ones but for the source in hand.
AllNew ==
  /\ Taken <= Len(found)
  /\ claimed = {Out(j) : j \in 1..Taken}
  /\ \A j, k \in 1..Taken : j # k => Out(j) # Out(k)
  /\ \A j \in 1..(next - 1) : IsNew(Out(j), found[j])

Succeeds ==
  /\ command = "build" /\ ~failed => AllNew
  /\ step \in {"list", "choose"} \/ InHand \/ command = None
  /\ step = "list" => next = 1
  /\ command = None /\ exit = 0 /\ claimed # {} =>
       \A i \in DOMAIN found : IsNew(OutputOf[found[i]], found[i])

\* The outputs and the sources that IsNew is about are left alone.
Untouched == UNCHANGED <<outputs, began>>

LEMMA InitSucceeds == Init => Succeeds
<1> SUFFICES ASSUME Init PROVE Succeeds
  OBVIOUS
<1>1. command = None /\ step = "none" /\ claimed = {}
  BY DEF Init
<1>2. command # "build"
  BY <1>1, NoneAssumption DEF Commands
<1>3. QED
  BY <1>1, <1>2 DEF Succeeds

LEMMA StartSucceeds ==
  ASSUME NEW c \in Commands, NEW sources, NEW o, Start(c, sources, o),
         c = "build" => sources = <<>>
  PROVE  Succeeds'
<1>1. command' = c /\ c # None /\ claimed' = {} /\ next' = 1 /\ found' = sources
      /\ step' = IF c = "build" THEN "list" ELSE "read"
  BY NoneAssumption DEF Start, Go
<1>2. c = "build" => AllNew'
  <2>1. SUFFICES ASSUME c = "build" PROVE AllNew'
    OBVIOUS
  <2>2. found' = <<>> /\ ~InHand' /\ next' = 1 /\ claimed' = {}
    BY <1>1, <2>1 DEF InHand
  <2>3. Taken' = 0 /\ Len(found') = 0
    BY <2>2 DEF Taken
  <2>4. QED
    BY <2>2, <2>3 DEF AllNew
<1>3. QED
  BY <1>1, <1>2 DEF Succeeds, InHand

LEMMA ThrowsSucceeds ==
  ASSUME TypeOK, Shape, Succeeds, Throws, InHand \/ step = "list"
  PROVE  Succeeds'
<1>1. /\ UNCHANGED <<found, next, claimed, failed, outputs, began>>
      /\ \/ command' = None /\ exit' = 2 /\ step' = "none"
         \/ command' = command /\ step' = "discard" /\ exit' = exit /\ InHand
  BY DEF Throws, Ends, Go, files, Shape, InHand
<1>2. CASE command' = None /\ exit' = 2 /\ step' = "none"
  BY <1>1, <1>2, NoneAssumption DEF Succeeds, Commands
<1>3. CASE command' = command /\ step' = "discard" /\ exit' = exit /\ InHand
  <2>1. InHand' /\ Taken' = Taken
    BY <1>1, <1>3 DEF InHand, Taken
  <2>2. AllNew => AllNew'
    BY <1>1, <2>1 DEF AllNew, Out, IsNew
  <2>3. command # None
    BY <1>3 DEF Shape, InHand
  <2>4. QED
    BY <1>1, <1>3, <2>1, <2>2, <2>3 DEF Succeeds
<1>4. QED
  BY <1>1, <1>2, <1>3

\* A step within what is done for one source, or one that another command takes.
LEMMA WithinSucceeds ==
  ASSUME TypeOK, Shape, Succeeds, Untouched, UNCHANGED <<found, next, claimed>>,
         failed' = failed \/ failed', command' = command, command # None,
         InHand' <=> InHand, step' \in {"choose"} \/ InHand'
  PROVE  Succeeds'
<1>1. Taken' = Taken
  BY DEF Taken
<1>2. AllNew => AllNew'
  BY <1>1 DEF AllNew, Out, IsNew, Untouched
<1>3. ~failed' => ~failed
  BY DEF TypeOK
<1>4. command' = "build" /\ ~failed' => AllNew'
  BY <1>2, <1>3 DEF Succeeds
<1>5. step' # "list" /\ (step' = "choose" \/ InHand')
  BY DEF InHand
<1>6. QED
  BY <1>4, <1>5 DEF Succeeds

LEMMA ReplaceSucceeds == ASSUME TypeOK, Shape, NotOlder, Succeeds, Replace PROVE Succeeds'
<1>1. /\ step = "replace" /\ Made /\ InHand /\ command # None /\ UNCHANGED <<found, claimed, failed, began>>
      /\ next \in DOMAIN found /\ Current \in Source /\ inHand \in Text
  BY DEF Replace, Made, InHand, Shape, TypeOK, Current
<1>2. CASE command # "build"
  <2>1. command' = None /\ claimed' = {} /\ step' = "none"
    BY <1>1, <1>2 DEF Replace, Continues, Ends, Shape
  <2>2. QED
    BY <2>1, NoneAssumption DEF Succeeds, Commands
<1>3. CASE command = "build"
  <2>1. /\ command' = command /\ step' = "choose" /\ next' = next + 1 /\ command # "fmt"
        /\ outputs' = [outputs EXCEPT ![target] = [source |-> Current, version |-> inHand.version]]
        /\ target = OutputOf[Current] /\ target \in Output
    BY <1>1, <1>3, OutputAssumption DEF Replace, Replaced, Continues, Go, Shape
  <2>2. ~InHand' /\ Taken = next /\ Taken' = next /\ next \in Nat /\ (next + 1) - 1 = next
    BY <1>1, <2>1 DEF InHand, Taken, TypeOK
  <2>3. ASSUME AllNew PROVE AllNew'
    <3>1. \A j \in 1..next : Out(j)' = Out(j)
      BY <1>1 DEF Out
    <3>2. Out(next) = target
      BY <2>1 DEF Out, Current
    <3>3. /\ outputs'[OutputOf[found'[next]]] # None
            /\ outputs'[OutputOf[found'[next]]].source = found'[next]
            /\ outputs'[OutputOf[found'[next]]].version >= began'.texts[found'[next]].version
      <4>1. outputs'[target] = [source |-> Current, version |-> inHand.version]
        BY <2>1 DEF TypeOK
      <4>2. outputs'[target] # None
        <5>1. outputs'[target] \in Compiled
          BY <1>1, <4>1 DEF Compiled, Text
        <5>2. QED
          BY <5>1, NoneAssumption
      <4>3. inHand.version >= began.texts[Current].version
        <5>1. inHand.version \in Nat /\ began.texts[Current].version \in Nat
          BY <1>1 DEF TypeOK, Text
        <5>2. QED
          BY <1>1, <5>1 DEF NotOlder
      <4>4. found' = found /\ began' = began /\ found[next] = Current
        BY <1>1 DEF Current
      <4>5. outputs'[target].source = Current /\ outputs'[target].version = inHand.version
        BY <4>1
      <4>6. QED
        BY <3>2, <4>2, <4>3, <4>4, <4>5 DEF Out
    <3>4. ASSUME NEW j \in 1..(next - 1) PROVE IsNew(Out(j), found[j])'
      <4>1. IsNew(Out(j), found[j]) /\ j \in 1..next /\ next \in 1..next /\ j # next
        BY <1>1, <2>2, <2>3, <3>4 DEF AllNew
      <4>2. Out(j) # target
        BY <2>2, <2>3, <3>2, <4>1 DEF AllNew
      <4>3. found[j] \in Source /\ Out(j) \in Output
        BY <1>1, <2>2, <4>1, OutputAssumption DEF Out, TypeOK
      <4>4. outputs'[Out(j)] = outputs[Out(j)]
        BY <2>1, <4>2, <4>3 DEF TypeOK
      <4>5. QED
        BY <1>1, <3>1, <4>1, <4>4 DEF IsNew, Out
    <3>5. \A j \in 1..next : j = next \/ j \in 1..(next - 1)
      BY <2>2
    <3>6. (\A j \in 1..(next - 1) : IsNew(Out(j), found[j]))'
      <4>1. SUFFICES ASSUME NEW j \in 1..next PROVE IsNew(Out(j), found[j])'
        BY <2>1, <2>2
      <4>2. CASE j = next
        BY <3>3, <4>2 DEF IsNew, Out
      <4>3. CASE j \in 1..(next - 1)
        BY <3>4, <4>3
      <4>4. QED
        BY <3>5, <4>2, <4>3
    <3>7. QED
      BY <1>1, <2>1, <2>2, <2>3, <3>1, <3>6 DEF AllNew
  <2>4. QED
    BY <1>1, <1>3, <2>1, <2>3, NoneAssumption DEF Succeeds, Commands
<1>4. QED
  BY <1>2, <1>3

LEMMA ChooseSucceeds == ASSUME TypeOK, Shape, Succeeds, Choose PROVE Succeeds'
<1>1. /\ step = "choose" /\ step' = "read" /\ command' = command /\ command = "build"
      /\ UNCHANGED <<found, next, failed, outputs, began>>
      /\ claimed' = claimed \cup {Out(next)} /\ Out(next) \notin claimed /\ next <= Len(found)
      /\ next \in Nat \ {0}
  BY DEF Choose, Duplicate, Out, Current, Go, files, Shape, TypeOK, Commands
<1>2. InHand' /\ ~InHand /\ Taken' = next /\ Taken = next - 1
  BY <1>1 DEF InHand, Taken
<1>3. ASSUME AllNew PROVE AllNew'
  <2>1. \A j : Out(j)' = Out(j)
    BY <1>1 DEF Out
  <2>2. 1..next = 1..(next - 1) \cup {next}
    BY <1>1
  <2>3. claimed' = {Out(j) : j \in 1..next}
    BY <1>1, <1>2, <1>3, <2>2 DEF AllNew
  <2>4. \A j, k \in 1..next : j # k => Out(j) # Out(k)
    BY <1>1, <1>2, <1>3, <2>2 DEF AllNew
  <2>5. QED
    BY <1>1, <1>2, <1>3, <2>1, <2>3, <2>4 DEF AllNew, IsNew
<1>4. QED
  BY <1>1, <1>2, <1>3, NoneAssumption DEF Succeeds, Commands

LEMMA CompileSucceeds == ASSUME TypeOK, Shape, Succeeds, Compile PROVE Succeeds'
<1>1. /\ step = "compile" /\ InHand /\ command # None /\ UNCHANGED <<found, claimed, outputs, began>>
      /\ inHand.ok \in BOOLEAN /\ failed \in BOOLEAN
  BY DEF Compile, InHand, Shape, TypeOK, Text, files
<1>2. CASE command = "build"
  <2>1. command' = command /\ (~inHand.ok => failed') /\ (inHand.ok => failed' = failed)
        /\ step' = (IF inHand.ok THEN "create" ELSE "choose") /\ (inHand.ok => next' = next)
    BY <1>1, <1>2, NoneAssumption DEF Compile, Go, Failed, Position, Commands
  <2>2. CASE inHand.ok
    <3>1. InHand' /\ UNCHANGED <<found, next, claimed, failed>>
      BY <1>1, <2>1, <2>2 DEF InHand
    <3>2. QED
      BY <1>1, <2>1, <3>1, WithinSucceeds DEF Untouched
  <2>3. CASE ~inHand.ok
    BY <1>1, <1>2, <2>1, <2>3, NoneAssumption DEF Succeeds, Commands
  <2>4. QED
    BY <1>1, <2>2, <2>3
<1>3. CASE command # "build"
  <2>1. claimed' = {} /\ command' # "build"
    BY <1>1, <1>3, NoneAssumption DEF Compile, Shape, Ends, Commands
  <2>2. \/ step' = "create" \/ command' = None
    BY <1>1, <1>3 DEF Compile, Ends, Go
  <2>3. step' # "list"
    BY <1>1, <1>3 DEF Compile, Ends, Go
  <2>4. QED
    BY <2>1, <2>2, <2>3 DEF Succeeds, InHand
<1>4. QED
  BY <1>2, <1>3

LEMMA EndSucceeds == ASSUME TypeOK, Shape, Succeeds, EndBuild PROVE Succeeds'
<1>1. /\ step = "choose" /\ next > Len(found) /\ command' = None /\ step' = "none"
      /\ exit' = (IF failed THEN 1 ELSE 0) /\ UNCHANGED <<found, next, claimed, outputs, began>>
      /\ command = "build" /\ next \in Nat \ {0} /\ Len(found) \in Nat /\ failed \in BOOLEAN
      /\ DOMAIN found = 1..Len(found)
  BY DEF EndBuild, Ends, Shape, TypeOK, files, Commands
<1>2. exit' = 0 => \A i \in DOMAIN found : IsNew(OutputOf[found[i]], found[i])'
  <2>1. SUFFICES ASSUME exit' = 0, NEW i \in DOMAIN found PROVE IsNew(OutputOf[found[i]], found[i])'
    BY <1>1
  <2>2. AllNew /\ i \in 1..(next - 1)
    BY <1>1, <2>1 DEF Succeeds
  <2>3. QED
    BY <1>1, <2>2 DEF AllNew, IsNew, Out
<1>3. QED
  BY <1>1, <1>2, NoneAssumption DEF Succeeds, Commands

LEMMA StepSucceeds == TypeOK /\ Shape /\ NotOlder /\ Succeeds /\ [Next]_vars => Succeeds'
<1> SUFFICES ASSUME TypeOK, Shape, NotOlder, Succeeds, [Next]_vars PROVE Succeeds'
  OBVIOUS
<1>1. StartFile \/ StartBuild => Succeeds'
  BY StartSucceeds DEF StartFile, StartBuild, Commands
<1>2. SessionThrows \/ ReadThrows \/ CreateThrows \/ WriteThrows \/ ReplaceThrows => Succeeds'
  BY ThrowsSucceeds DEF SessionThrows, ReadThrows, CreateThrows, WriteThrows, ReplaceThrows, InHand
<1>3. List => Succeeds'
  <2> SUFFICES ASSUME List PROVE Succeeds'
    OBVIOUS
  <2>1. /\ command' = command /\ command = "build" /\ step' = "choose" /\ next = 1 /\ next' = 1
        /\ found' \in Seq(Source) /\ ~InHand /\ ~InHand' /\ UNCHANGED <<claimed, failed>>
    BY ListingAssumption DEF List, Go, Shape, Succeeds, InHand
  <2>2. Taken' = 0 /\ Taken = 0 /\ Len(found') \in Nat
    BY <2>1 DEF Taken
  <2>3. AllNew => AllNew'
    BY <2>1, <2>2 DEF AllNew
  <2>4. QED
    BY <2>1, <2>3, NoneAssumption DEF Succeeds, Commands
<1>4. RejectDuplicate => Succeeds'
  <2> SUFFICES ASSUME RejectDuplicate PROVE Succeeds'
    OBVIOUS
  <2>1. failed' /\ command' = command /\ step' = "choose" /\ command # None
    BY DEF RejectDuplicate, Shape
  <2>2. QED
    BY <2>1 DEF Succeeds
<1>5. Choose => Succeeds'
  BY ChooseSucceeds
<1>6. EndBuild => Succeeds'
  BY EndSucceeds
<1>7. Compile => Succeeds'
  BY CompileSucceeds
<1>8. Read \/ Create \/ Write => Succeeds'
  <2> SUFFICES ASSUME Read \/ Create \/ Write PROVE Succeeds'
    OBVIOUS
  <2>1. /\ InHand /\ InHand' /\ command' = command /\ command # None
        /\ UNCHANGED <<found, next, claimed, failed, outputs, began>>
    BY DEF Read, Create, Write, Go, InHand, files, Shape
  <2>2. QED
    BY <2>1, WithinSucceeds DEF Untouched
<1>9. Replace => Succeeds'
  BY ReplaceSucceeds
<1>10. Discard \/ Kill => Succeeds'
  <2> SUFFICES ASSUME Discard \/ Kill PROVE Succeeds'
    OBVIOUS
  <2>1. command' = None /\ exit' # 0 /\ step' = "none"
    BY NoneAssumption DEF Discard, Kill, Ends
  <2>2. QED
    BY <2>1, NoneAssumption DEF Succeeds, Commands
<1>11. (\E s \in Source : Save(s)) => Succeeds'
  <2> SUFFICES ASSUME NEW s \in Source, Save(s) PROVE Succeeds'
    OBVIOUS
  <2>1. UNCHANGED <<outputs, command, step, found, next, claimed, failed, exit, began>>
    BY DEF Save
  <2>2. QED
    BY <2>1 DEF Succeeds, AllNew, Taken, InHand, Out, IsNew
<1>12. UNCHANGED vars => Succeeds'
  BY DEF vars, files, Succeeds, AllNew, Taken, InHand, Out, IsNew
<1>13. QED
  BY <1>1, <1>2, <1>3, <1>4, <1>5, <1>6, <1>7, <1>8, <1>9, <1>10, <1>11, <1>12, StepCases

\* A build that exits with 0 has an output of its own for every source it found,
\* made from a text the source has had since the build began, whatever is saved
\* meanwhile and whichever sources share an output (command_executor.cpp:261-298).
THEOREM ZeroIsCurrent == Spec => []ZeroMeansCurrent
<1>1. Spec => []NotOlder
  BY Typed, InitNotOlder, StepNotOlder, PTL DEF Spec
<1>2. Succeeds => ZeroMeansCurrent
  BY DEF Succeeds, ZeroMeansCurrent
<1>3. QED
  BY <1>1, <1>2, Typed, InitSucceeds, StepSucceeds, PTL DEF Spec

-----------------------------------------------------------------------------
(***************************************************************************)
(* What has been reported of the sources so far.                           *)
(***************************************************************************)
Place(r) == IF claimed = {} THEN target ELSE OutputOf[r.source]
AsBefore(o) == outputs[o] = began.outputs[o]
IsTrue(r) ==
  Place(r) # None => IF r.ok THEN IsNew(Place(r), r.source) ELSE AsBefore(Place(r))

\* Only the last entry may wait for its output.
OnlyLastWaits ==
  /\ \A i \in DOMAIN report : IsTrue(report[i])
                               \/ (report[i].ok /\ i = Len(report) /\ AsBefore(Place(report[i])))
  /\ step \in {"list", "choose", "read", "compile"} =>
       \A i \in DOMAIN report : IsTrue(report[i])
\* No two entries share an output, and an output that is not claimed is left alone.
Apart ==
  command = "build" =>
    /\ \A o \in Output \ claimed : AsBefore(o)
    /\ \A i \in DOMAIN report : OutputOf[report[i].source] \in claimed
    /\ \A i, j \in DOMAIN report : i # j => OutputOf[report[i].source] # OutputOf[report[j].source]
\* The output of the source in hand is nobody else's and not yet replaced.
InTheMaking ==
  /\ step \in {"read", "compile"} =>
       /\ \A i \in DOMAIN report : Place(report[i]) # target
       /\ target \in Output => AsBefore(target)
       /\ command = "build" => target \in claimed
  /\ step \in {"create", "write", "replace"} /\ command # "fmt" =>
       /\ report # <<>> /\ report[Len(report)] = [source |-> Current, ok |-> TRUE]
       /\ \A i \in DOMAIN report :
            i # Len(report) => IsTrue(report[i]) /\ Place(report[i]) # target
       /\ AsBefore(target)
Reported == OnlyLastWaits /\ Apart /\ InTheMaking

LEMMA NothingReported ==
  ASSUME report' = <<>>, outputs' = began'.outputs,
         step' \notin {"create", "write", "replace"}, step' \notin {"read", "compile"} \/ command' # "build"
  PROVE  Reported'
<1>1. DOMAIN report' = {} /\ \A o : AsBefore(o)'
  BY DEF AsBefore
<1>2. QED
  BY <1>1 DEF Reported, OnlyLastWaits, Apart, InTheMaking

\* Whatever leaves the outputs and the report alone.
LEMMA WithinReported ==
  ASSUME Reported, UNCHANGED <<report, outputs, began, claimed, target>>,
         command' = command \/ command' = None,
         \/ step' \in {"none", "discard"}
         \/ step' = step /\ UNCHANGED <<Current, command>>
         \/ step' \in {"list", "choose"} /\ step \in {"list", "choose"}
         \/ step' = "compile" /\ step = "read"
         \/ step' = "create" /\ command' = "fmt"
         \/ step' \in {"create", "write", "replace"} /\ step \in {"create", "write", "replace"}
              /\ UNCHANGED <<Current, command>>
  PROVE  Reported'
<1>1. None \notin {"build", "fmt"}
  BY NoneAssumption DEF Commands
<1>2. /\ \A r : Place(r)' = Place(r) /\ IsTrue(r)' = IsTrue(r)
      /\ \A o : AsBefore(o)' = AsBefore(o)
  BY DEF Place, IsTrue, AsBefore, IsNew
<1>3. OnlyLastWaits'
  BY <1>2 DEF Reported, OnlyLastWaits
<1>4. Apart'
  BY <1>1, <1>2 DEF Reported, Apart
<1>5. InTheMaking'
  BY <1>1, <1>2 DEF Reported, InTheMaking
<1>6. QED
  BY <1>3, <1>4, <1>5 DEF Reported

LEMMA ChooseReported == ASSUME TypeOK, Shape, Reported, Choose PROVE Reported'
<1>1. /\ step = "choose" /\ step' = "read" /\ command = "build" /\ command' = command
      /\ UNCHANGED <<report, outputs, began>> /\ target' = OutputOf[Current]
      /\ claimed' = claimed \cup {target'} /\ target' \notin claimed /\ target' \in Output
  BY OutputAssumption DEF Choose, Duplicate, Current, Go, files, Shape, TypeOK
<1>2. \A i \in DOMAIN report :
        /\ Place(report[i]) = OutputOf[report[i].source] /\ Place(report[i])' = Place(report[i])
        /\ Place(report[i]) \in claimed
  <2>1. SUFFICES ASSUME NEW i \in DOMAIN report
                 PROVE  /\ Place(report[i]) = OutputOf[report[i].source]
                        /\ Place(report[i])' = Place(report[i]) /\ Place(report[i]) \in claimed
    OBVIOUS
  <2>2. OutputOf[report[i].source] \in claimed
    BY <1>1, <2>1 DEF Reported, Apart
  <2>3. claimed # {} /\ claimed' # {}
    BY <1>1, <2>2
  <2>4. QED
    BY <1>1, <2>2, <2>3 DEF Place
<1>3. \A o : AsBefore(o)' = AsBefore(o)
  BY <1>1 DEF AsBefore
<1>4. \A i \in DOMAIN report : IsTrue(report[i])'
  <2>1. \A i \in DOMAIN report : IsTrue(report[i])
    BY <1>1 DEF Reported, OnlyLastWaits
  <2>2. QED
    BY <1>1, <1>2, <2>1 DEF IsTrue, AsBefore, IsNew
<1>5. OnlyLastWaits'
  BY <1>1, <1>4 DEF OnlyLastWaits
<1>6. Apart'
  BY <1>1, <1>3 DEF Reported, Apart
<1>7. InTheMaking'
  <2>1. AsBefore(target')
    BY <1>1 DEF Reported, Apart
  <2>2. AsBefore(target)'
    BY <1>1, <2>1 DEF AsBefore
  <2>3. \A i \in DOMAIN report' : Place(report[i])' # target'
    BY <1>1, <1>2
  <2>4. QED
    BY <1>1, <2>2, <2>3 DEF InTheMaking
<1>8. QED
  BY <1>5, <1>6, <1>7 DEF Reported

LEMMA CompileReported == ASSUME TypeOK, Shape, Reported, Compile PROVE Reported'
<1> DEFINE new == [source |-> Current, ok |-> inHand.ok]
<1>1. /\ step = "compile" /\ report' = Append(report, new)
      /\ UNCHANGED <<outputs, began, claimed, target>> /\ command # None /\ command # "fmt"
      /\ report \in Seq([source: Source, ok: BOOLEAN]) /\ Current \in Source /\ inHand.ok \in BOOLEAN
  BY DEF Compile, files, Shape, TypeOK, Text, Current
<1>2. /\ command' = command \/ command' = None
      /\ step' \in {"create", "choose", "none"}
      /\ step' = "create" => inHand.ok /\ Current' = Current
      /\ step' = "choose" => ~inHand.ok
      /\ step' = "none" /\ inHand.ok => command = "check"
  BY <1>1 DEF Compile, Ends, Go, Position, Current
<1>3. /\ Len(report) \in Nat /\ Len(report') = Len(report) + 1 /\ report'[Len(report')] = new
      /\ DOMAIN report = 1..Len(report) /\ DOMAIN report' = 1..(Len(report) + 1)
      /\ \A i \in DOMAIN report : report'[i] = report[i] /\ i # Len(report')
      /\ \A i \in DOMAIN report' : i \in DOMAIN report \/ i = Len(report')
  <2>1. new \in [source: Source, ok: BOOLEAN]
    BY <1>1
  <2> HIDE DEF new
  <2>2. QED
    BY <1>1, <2>1
<1>4. /\ \A r : Place(r)' = Place(r) /\ IsTrue(r)' = IsTrue(r)
      /\ \A o : AsBefore(o)' = AsBefore(o)
  BY <1>1 DEF Place, IsTrue, AsBefore, IsNew
<1>5. Place(new) = target /\ (command = "build" => target = OutputOf[Current] /\ target \in claimed)
  <2>1. command = "build" => target = OutputOf[Current] /\ target \in claimed
    BY <1>1 DEF Shape, Reported, InTheMaking
  <2>2. command # "build" => claimed = {}
    BY <1>1 DEF Shape
  <2>3. QED
    BY <2>1, <2>2 DEF Place
<1>6. target # None => AsBefore(target)
  <2>1. target # None => target \in Output
    BY <1>1, <1>5, OutputAssumption DEF Shape, TypeOK, Commands
  <2>2. QED
    BY <1>1, <2>1 DEF Reported, InTheMaking
<1>7. \A i \in DOMAIN report : IsTrue(report[i]) /\ Place(report[i]) # target
  BY <1>1 DEF Reported, OnlyLastWaits, InTheMaking
<1>8. new.ok = inHand.ok /\ new.source = Current
  OBVIOUS
<1>9. ~inHand.ok \/ step' = "none" => IsTrue(new)
  <2>1. ~inHand.ok => IsTrue(new)
    BY <1>5, <1>6, <1>8 DEF IsTrue
  <2>2. inHand.ok /\ step' = "none" => target = None
    BY <1>2 DEF Shape
  <2>3. QED
    BY <1>5, <2>1, <2>2 DEF IsTrue
<1> HIDE DEF new
<1>10. OnlyLastWaits'
  <2>1. \A i \in DOMAIN report : IsTrue(report[i])'
    BY <1>1, <1>3, <1>7 DEF IsTrue, Place, AsBefore, IsNew
  <2>2. PICK n \in Nat : n = Len(report')
    BY <1>3
  <2>3. IsTrue(report[n])' \/ ((report[n].ok /\ AsBefore(Place(report[n])))' /\ step' = "create")
    <3>1. IsTrue(new) \/ (new.ok /\ AsBefore(Place(new)) /\ step' = "create")
      <4>1. CASE target = None
        BY <1>5, <4>1 DEF IsTrue
      <4>2. CASE target # None /\ ~(~inHand.ok \/ step' = "none")
        BY <1>1, <1>2, <1>5, <1>6, <1>8, <4>2
      <4>3. QED
        BY <1>9, <4>1, <4>2
    <3>2. report'[n] = new
      BY <1>3, <2>2
    <3>3. QED
      BY <1>1, <3>1, <3>2 DEF IsTrue, Place, AsBefore, IsNew
  <2>4. \A i \in DOMAIN report' : i \in DOMAIN report \/ i = n
    BY <1>3, <2>2
  <2>5. QED
    BY <1>2, <2>2, <2>1, <2>3, <2>4 DEF OnlyLastWaits
<1>11. Apart'
  <2>1. SUFFICES ASSUME command' = "build" PROVE Apart'
    BY DEF Apart
  <2>2. command = "build"
    BY <1>2, <2>1, NoneAssumption DEF Commands
  <2>3. \A i \in DOMAIN report' : OutputOf[report'[i].source] \in claimed'
    BY <1>1, <1>3, <1>5, <1>8, <2>2 DEF Reported, Apart
  <2>4. \A i \in DOMAIN report : OutputOf[report[i].source] # target
    <3>1. claimed # {}
      BY <1>5, <2>2
    <3>2. QED
      BY <1>7, <3>1 DEF Place
  <2>5. \A i, j \in DOMAIN report' :
          i # j => OutputOf[report'[i].source] # OutputOf[report'[j].source]
    BY <1>3, <1>5, <1>8, <2>2, <2>4 DEF Reported, Apart
  <2>6. QED
    BY <1>1, <1>4, <2>2, <2>3, <2>5 DEF Reported, Apart
<1>12. InTheMaking'
  <2>1. SUFFICES ASSUME step' = "create" PROVE InTheMaking'
    BY <1>2 DEF InTheMaking
  <2>2. report' # <<>> /\ report'[Len(report')] = [source |-> Current', ok |-> TRUE]
    <3>1. inHand.ok = TRUE /\ Current' = Current
      BY <1>1, <1>2, <2>1
    <3>2. new = [source |-> Current', ok |-> TRUE]
      BY <3>1 DEF new
    <3>3. QED
      BY <1>1, <1>3, <3>2
  <2>3. \A i \in DOMAIN report' :
          i # Len(report') => IsTrue(report[i])' /\ Place(report[i])' # target'
    BY <1>1, <1>3, <1>7 DEF IsTrue, Place, AsBefore, IsNew
  <2>4. AsBefore(target)'
    <3>1. command \in {"build", "compile"}
      BY <1>1, <2>1 DEF Compile, Ends
    <3>2. target # None
      BY <1>1, <1>5, <3>1, OutputAssumption, NoneAssumption DEF Shape
    <3>3. QED
      BY <1>1, <1>6, <3>2 DEF AsBefore
  <2>5. QED
    BY <2>1, <2>2, <2>3, <2>4 DEF InTheMaking
<1>13. QED
  BY <1>10, <1>11, <1>12 DEF Reported

LEMMA ReplaceReported == ASSUME TypeOK, Shape, NotOlder, Reported, Replace PROVE Reported'
<1>1. /\ step = "replace" /\ UNCHANGED <<report, began, claimed, target>> /\ Current \in Source
      /\ inHand \in Text
      /\ \/ command = "build" /\ step' = "choose" /\ command' = command
         \/ command # "build" /\ step' = "none" /\ command' = None
  BY DEF Replace, Continues, Ends, Go, TypeOK, Current
<1>2. None \notin {"build", "fmt"}
  BY NoneAssumption DEF Commands
<1>3. CASE command = "fmt"
  <2>1. report = <<>> /\ command' # "build" /\ step' = "none"
    BY <1>1, <1>2, <1>3 DEF Shape
  <2>2. DOMAIN report' = {}
    BY <1>1, <2>1
  <2>3. QED
    BY <2>1, <2>2 DEF Reported, OnlyLastWaits, Apart, InTheMaking
<1>4. CASE command # "fmt"
  <2>1. /\ command \in {"build", "compile"} /\ target \in Output
        /\ command = "build" => target = OutputOf[Current]
        /\ command # "build" => claimed = {}
    BY <1>1, <1>4, OutputAssumption DEF Shape, TypeOK, Commands
  <2>2. outputs' = [outputs EXCEPT ![target] = [source |-> Current, version |-> inHand.version]]
    BY <1>4 DEF Replace, Replaced
  <2> DEFINE last == report[Len(report)]
  <2>3. last = [source |-> Current, ok |-> TRUE] /\ Len(report) \in DOMAIN report
    <3>1. report # <<>> /\ last = [source |-> Current, ok |-> TRUE]
      BY <1>1, <1>4 DEF Reported, InTheMaking
    <3>2. QED
      BY <3>1 DEF TypeOK
  <2>4. IsTrue(last)'
    <3>1. Place(last)' = target
      BY <1>1, <2>1, <2>3 DEF Place
    <3>2. outputs'[target] = [source |-> Current, version |-> inHand.version]
      BY <2>1, <2>2 DEF TypeOK
    <3>3. outputs'[target] # None
      <4>1. outputs'[target] \in Compiled
        BY <1>1, <3>2 DEF Compiled, Text
      <4>2. QED
        BY <4>1, NoneAssumption
    <3>4. inHand.version >= began.texts[Current].version
      <4>1. inHand.version \in Nat /\ began.texts[Current].version \in Nat
        BY <1>1 DEF TypeOK, Text
      <4>2. QED
        BY <1>1, <4>1 DEF NotOlder, Made
    <3>5. last.ok /\ last.source = Current /\ UNCHANGED last
      BY <1>1, <2>3
    <3>6. outputs'[target].source = Current /\ outputs'[target].version = inHand.version
      BY <3>2
    <3>7. QED
      BY <1>1, <3>1, <3>3, <3>4, <3>5, <3>6 DEF IsTrue, IsNew
  <2>5. ASSUME NEW i \in DOMAIN report, i # Len(report) PROVE IsTrue(report[i])'
    <3>1. IsTrue(report[i]) /\ Place(report[i]) # target
      BY <1>1, <1>4, <2>5 DEF Reported, InTheMaking
    <3>2. Place(report[i]) \in Output
      <4>1. report[i] \in [source: Source, ok: BOOLEAN]
        <5>1. report \in Seq([source: Source, ok: BOOLEAN])
          BY DEF TypeOK
        <5>2. ASSUME NEW Entry, report \in Seq(Entry) PROVE report[i] \in Entry
          BY <2>5, <5>2
        <5>3. QED
          BY <5>1, <5>2
      <4>2. QED
        BY <3>1, <4>1, OutputAssumption DEF Place
    <3>3. outputs'[Place(report[i])] = outputs[Place(report[i])]
      BY <2>2, <3>1, <3>2 DEF TypeOK
    <3>4. Place(report[i])' = Place(report[i])
      BY <1>1 DEF Place
    <3>5. QED
      BY <1>1, <3>1, <3>3, <3>4 DEF IsTrue, IsNew, AsBefore
  <2>6. \A i \in DOMAIN report' : IsTrue(report[i])'
    BY <1>1, <2>4, <2>5
  <2>7. OnlyLastWaits'
    BY <2>6 DEF OnlyLastWaits
  <2>8. Apart'
    <3>1. SUFFICES ASSUME command = "build" PROVE Apart'
      BY <1>1, <1>2 DEF Apart
    <3>2. target \in claimed
      BY <2>1, <2>3, <3>1 DEF Reported, Apart
    <3>3. \A o \in Output \ claimed : AsBefore(o)'
      BY <1>1, <2>2, <3>1, <3>2 DEF Reported, Apart, AsBefore, TypeOK
    <3>4. QED
      BY <1>1, <3>1, <3>3 DEF Reported, Apart
  <2>9. InTheMaking'
    BY <1>1 DEF InTheMaking
  <2>10. QED
    BY <2>7, <2>8, <2>9 DEF Reported
<1>5. QED
  BY <1>3, <1>4

LEMMA StartReported ==
  ASSUME NEW c, NEW sources, NEW o, Start(c, sources, o) PROVE Reported'
<1>1. /\ report' = <<>> /\ outputs' = began'.outputs /\ step' \in {"list", "read"}
      /\ command' = "build" => step' = "list"
  BY DEF Start, Go, files
<1>2. QED
  BY <1>1, NothingReported

LEMMA StepReported == TypeOK /\ Shape /\ NotOlder /\ Reported /\ [Next]_vars => Reported'
<1> SUFFICES ASSUME TypeOK, Shape, NotOlder, Reported, [Next]_vars PROVE Reported'
  OBVIOUS
<1>1. StartFile \/ StartBuild => Reported'
  BY StartReported DEF StartFile, StartBuild
<1>2. SessionThrows \/ ReadThrows \/ CreateThrows \/ WriteThrows \/ ReplaceThrows => Reported'
  <2> SUFFICES ASSUME Throws PROVE Reported'
    BY DEF SessionThrows, ReadThrows, CreateThrows, WriteThrows, ReplaceThrows
  <2>1. /\ UNCHANGED <<report, outputs, began, claimed, target>>
        /\ command' = command \/ command' = None
        /\ step' \in {"none", "discard"}
    BY DEF Throws, Ends, Go, files
  <2>2. QED
    BY <2>1, WithinReported
<1>3. List \/ RejectDuplicate => Reported'
  <2> SUFFICES ASSUME List \/ RejectDuplicate PROVE Reported'
    OBVIOUS
  <2>1. /\ UNCHANGED <<report, outputs, began, claimed, target, command>>
        /\ step' \in {"list", "choose"} /\ step \in {"list", "choose"}
    BY DEF List, RejectDuplicate, Go, files
  <2>2. QED
    BY <2>1, WithinReported
<1>4. Choose => Reported'
  BY ChooseReported
<1>5. EndBuild \/ Discard => Reported'
  <2> SUFFICES ASSUME EndBuild \/ Discard PROVE Reported'
    OBVIOUS
  <2>1. /\ UNCHANGED <<report, outputs, began, claimed, target>>
        /\ command' = None /\ step' = "none"
    BY DEF EndBuild, Discard, Ends, files
  <2>2. QED
    BY <2>1, WithinReported
<1>6. Compile => Reported'
  BY CompileReported
<1>7. Read => Reported'
  <2> SUFFICES ASSUME Read PROVE Reported'
    OBVIOUS
  <2>1. /\ UNCHANGED <<report, outputs, began, claimed, target, command>>
        /\ \/ step' = "compile" /\ step = "read"
           \/ step' = "create" /\ command' = "fmt"
    BY DEF Read, Go, files
  <2>2. QED
    BY <2>1, WithinReported
<1>8. Create \/ Write => Reported'
  <2> SUFFICES ASSUME Create \/ Write PROVE Reported'
    OBVIOUS
  <2>1. /\ UNCHANGED <<report, outputs, began, claimed, target, command, Current>>
        /\ step' \in {"create", "write", "replace"} /\ step \in {"create", "write", "replace"}
    BY DEF Create, Write, Go, files, Current
  <2>2. QED
    BY <2>1, WithinReported
<1>9. Replace => Reported'
  BY ReplaceReported
<1>10. Kill => Reported'
  <2> SUFFICES ASSUME Kill PROVE Reported'
    OBVIOUS
  <2>1. DOMAIN report' = {} /\ command' = None /\ step' = "none"
    BY DEF Kill, Ends
  <2>2. None # "build"
    BY NoneAssumption DEF Commands
  <2>3. QED
    BY <2>1, <2>2 DEF Reported, OnlyLastWaits, Apart, InTheMaking
<1>11. (\E s \in Source : Save(s)) \/ UNCHANGED vars => Reported'
  <2> SUFFICES ASSUME (\E s \in Source : Save(s)) \/ UNCHANGED vars PROVE Reported'
    OBVIOUS
  <2>1. /\ UNCHANGED <<report, outputs, began, claimed, target, command, Current>>
        /\ step' = step
    BY DEF Save, vars, files, Current
  <2>2. QED
    BY <2>1, WithinReported
<1>12. QED
  BY <1>1, <1>2, <1>3, <1>4, <1>5, <1>6, <1>7, <1>8, <1>9, <1>10, <1>11, StepCases

\* Whatever fails and whatever is saved meanwhile, an output whose source was
\* reported to compile is new, and one whose source was not is the one from before the
\* process; only the last entry may wait for its output (command_executor.cpp:261-298).
THEOREM ReportsAreTrue == Spec => []ReportIsTrue
<1>1. Spec => []NotOlder
  BY Typed, InitNotOlder, StepNotOlder, PTL DEF Spec
<1>2. Init => Reported
  <2> SUFFICES ASSUME Init PROVE Reported
    OBVIOUS
  <2>1. DOMAIN report = {} /\ command # "build" /\ step = "none"
    BY NoneAssumption DEF Init, Commands
  <2>2. QED
    BY <2>1 DEF Reported, OnlyLastWaits, Apart, InTheMaking
<1>3. Reported => ReportIsTrue
  BY DEF Reported, OnlyLastWaits, ReportIsTrue, IsTrue, Place, AsBefore
<1>4. QED
  BY <1>1, <1>2, <1>3, Typed, StepReported, PTL DEF Spec
=============================================================================
