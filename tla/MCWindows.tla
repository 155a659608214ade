----------------------------- MODULE MCWindows -----------------------------
(***************************************************************************)
(* Windows for TLC: the second session is of another protocol.              *)
(***************************************************************************)
EXTENDS Windows, SequencesExt, TLC

MCKind(s) == IF s < 2 THEN "gg" ELSE "irc"

\* an address of a window is as good as another
Addresses == Permutations(Handles \ {Debug, Status, Contacts})

(***************************************************************************)
(* The loop of window_new() over the numbers of a sorted list, with all of *)
(* its tests, finds the first gap from 2 on, or what comes after the       *)
(* reserved class (here 5 and 6) when there is none before it.             *)
(***************************************************************************)
Search(numbers) ==
  FoldLeft(LAMBDA free, n : CASE n < 2 \/ n > free -> free
                              [] n \in 5 .. 6 -> 7
                              [] OTHER -> n + 1,
           2, numbers)
ASSUME SearchAssumption ==
  \A S \in SUBSET (0 .. 6) :
    LET free == Search(SetToSortSeq(S, <))
    IN IF free < 5 THEN free \notin S /\ 2 .. free - 1 \subseteq S
       ELSE free \in {5, 7} /\ 2 .. 4 \subseteq S
=============================================================================
