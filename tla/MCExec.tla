------------------------------- MODULE MCExec -------------------------------
\* Exec for TLC.
EXTENDS Exec

(***************************************************************************)
(* The loop of watch_handle_line() hands on what is before the first       *)
(* newline and removes both from the buffer, as long as there is one;      *)
(* Lines and Rest say what all of its rounds together do.                  *)
(***************************************************************************)
Round(b, u, m) ==
  IF u # 0 THEN [b EXCEPT !.rest = Append(@, u)]
  ELSE [rest |-> <<>>,
        lines |-> IF m \in {"print", "cmd"} /\ b.rest = <<>> THEN b.lines
                  ELSE Append(b.lines, b.rest)]
ASSUME LinesAssumption ==
  \A m \in {"print", "msg"}, b \in BoundedSeq(0 .. 2, 5) :
    FoldLeft(LAMBDA l, u : Round(l, u, m), [rest |-> <<>>, lines |-> <<>>], b)
      = [rest |-> Rest(b), lines |-> Lines(b, m)]

=============================================================================
