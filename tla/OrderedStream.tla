--------------------------- MODULE OrderedStream ---------------------------
(***************************************************************************)
(* What ekg/connections.c promises the plugin that writes to a connection: *)
(* the peer gets what was said in the order it was said, each piece once   *)
(* and none left out, up to the point where the connection ends.           *)
(***************************************************************************)
EXTENDS Naturals, Sequences

VARIABLES
  said,           \* the pieces handed over, in order
  wire,           \* the pieces the peer was sent
  open            \* may the plugin still write

vars == <<said, wire, open>>

Init == said = <<>> /\ wire = <<>> /\ open = FALSE

Open == /\ ~open /\ said = <<>>
        /\ open' = TRUE /\ UNCHANGED <<said, wire>>

Say == /\ open
       /\ said' = Append(said, Len(said) + 1)
       /\ UNCHANGED <<wire, open>>

\* some of what is under way arrives; pieces may still arrive after the end
Deliver ==
  /\ \E n \in Len(wire) .. Len(said) : wire' = SubSeq(said, 1, n)
  /\ UNCHANGED <<said, open>>

\* the connection ends, perhaps with last words of the plugin, which the
\* peer need not get
Close ==
  /\ open /\ open' = FALSE
  /\ \E n \in {0, 1, 2} :
       said' = said \o [i \in 1 .. n |-> Len(said) + i]
  /\ UNCHANGED wire

Next == Open \/ Say \/ Deliver \/ Close

Spec == Init /\ [][Next]_vars

=============================================================================
