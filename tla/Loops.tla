-------------------------------- MODULE Loops --------------------------------
(***************************************************************************)
(* A loop of the code, as a recursive function of the rounds it has done.  *)
(***************************************************************************)
EXTENDS Integers

Loop(rounds, start, Round(_, _)) ==
  LET after[k \in 0..rounds] == IF k = 0 THEN start ELSE Round(k, after[k - 1])
  IN after[rounds]
=============================================================================
