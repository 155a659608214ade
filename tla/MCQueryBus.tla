----------------------------- MODULE MCQueryBus -----------------------------
(***************************************************************************)
(* QueryBus for TLC: one protocol listens to both names, the core and the  *)
(* other plugins to the first, and scripts to what they like.              *)
(***************************************************************************)
EXTENDS QueryBus, SequencesExt

CONSTANTS Both, Name
MCHandles(p) == CASE p = Both -> Names
                  [] p = Scripting -> {}
                  [] OTHER -> {Name}
MCDefault(p) == IF p = Scripting THEN 1 ELSE MaxPrio

(***************************************************************************)
(* list_resort3() is list_add_sorted3() of one after the other, before the *)
(* first that query_compare() does not put ahead of it; Resorted says      *)
(* where all of them end up, for any list and any priorities.              *)
(***************************************************************************)
Insert(seq, q, pr) ==
  LET i == SelectInSeq(seq, LAMBDA r : pr[r.plugin] <= pr[q.plugin])
  IN IF i = 0 THEN Append(seq, q) ELSE InsertAt(seq, i, q)
AheadIn(seq) ==
  [q \in Queries |->
     UNION {{seq[j] : j \in 1 .. i - 1} : i \in {k \in DOMAIN seq : seq[k] = q}}]
ASSUME ResortedAssumption ==
  \A seq \in SetToSeqs(Queries), pr \in [Plugins \cup {Core} -> 0 .. MaxPrio] :
    AheadIn(FoldLeft(LAMBDA l, q : Insert(l, q, pr), <<>>, seq))
      = Resorted(Queries, AheadIn(seq), pr)

=============================================================================
