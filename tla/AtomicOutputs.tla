--------------------------- MODULE AtomicOutputs ---------------------------
(***************************************************************************)
(* What the command line promises of the files it writes ("Writes are      *)
(* atomic", README.md:75): whoever looks finds the text that was there     *)
(* before or the whole new one, made from a text of its source, and never  *)
(* one made from an older text than what it replaces.                      *)
(***************************************************************************)
EXTENDS Naturals

CONSTANTS Source, Output, None

VARIABLES
  text,     \* the texts each source has had, as the number of the latest one
  output    \* for each output None or the source and the text it was made of

Published == [source: Source, version: Nat]

Init ==
  /\ text = [s \in Source |-> 0]
  /\ output = [o \in Output |-> None]

\* Somebody saves a source.
Save(s) ==
  /\ text' = [text EXCEPT ![s] = @ + 1]
  /\ UNCHANGED output

\* An output is replaced in one step.
Publish(o, s, version) ==
  /\ version <= text[s]
  /\ output[o] # None /\ output[o].source = s => output[o].version <= version
  /\ output' = [output EXCEPT ![o] = [source |-> s, version |-> version]]
  /\ UNCHANGED text

Next ==
  \/ \E s \in Source : Save(s)
  \/ \E o \in Output, s \in Source : \E version \in 0..text[s] : Publish(o, s, version)

Spec == Init /\ [][Next]_<<text, output>>
=============================================================================
