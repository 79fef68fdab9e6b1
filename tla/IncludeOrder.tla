---------------------------- MODULE IncludeOrder ----------------------------
(***************************************************************************)
(* What the loader promises, without its stack, limits or registry         *)
(* (EMAIL-MARKUP.md, "Includes and projects"): every document is taken     *)
(* once, and, as long as nothing went wrong, only after all the documents  *)
(* it includes.  The files that were taken without trouble therefore form  *)
(* an acyclic graph listed in dependency order.                            *)
(***************************************************************************)
EXTENDS Naturals, Sequences

CONSTANTS Path, Text, NoText

VARIABLES
  order,     \* the documents taken, in order
  docs,      \* the text each was taken with
  troubled   \* whether something may have gone wrong

vars == <<order, docs, troubled>>

Taken == {p \in Path : docs[p] # NoText}

Init ==
  /\ order = <<>>
  /\ docs = [p \in Path |-> NoText]
  /\ troubled \in BOOLEAN

Take(p, t) ==
  /\ p \notin Taken
  /\ troubled \/ \A i \in DOMAIN t.includes : t.includes[i] \in Taken
  /\ order' = Append(order, p)
  /\ docs' = [docs EXCEPT ![p] = t]
  /\ troubled' \in {troubled, TRUE}

GetTroubled ==
  /\ troubled' = TRUE
  /\ UNCHANGED <<order, docs>>

Next == GetTroubled \/ \E p \in Path, t \in Text : Take(p, t)

Spec == Init /\ [][Next]_vars
=============================================================================
