-------------------------------- MODULE Exec --------------------------------
(***************************************************************************)
(* /exec (ekg/commands.c) on the line watches of ekg/sources.c: a child    *)
(* process writes to two pipes, standard output and standard error; the    *)
(* main loop reads what is there, cuts it into lines and hands them to the *)
(* handler of the command, which prints them, sends them to somebody line  *)
(* by line or as a command each, or gathers them for one message.  One     *)
(* /exec is one behaviour.                                                 *)
(*                                                                         *)
(* A pipe carries units: 0 is a newline and any other number a piece of    *)
(* text, the number being its place in what was written.  A line is the    *)
(* sequence of the pieces between two newlines.                            *)
(***************************************************************************)
EXTENDS Integers, FiniteSets, SequencesExt

CONSTANTS
  MaxOut, MaxErr,   \* bounds: units written to either pipe
  MaxRead           \* units that one read takes at most (1023 bytes)

ASSUME ExecAssumption == MaxOut \in Nat /\ MaxErr \in Nat /\ MaxRead \in Nat \ {0}

VARIABLES
  mode,       \* "none" before the command; then print, msg, bmsg or cmd
  prompt,     \* the command line is to be sent too (-M, -B, -C)
  written,    \* history: the units the child has written, per pipe
  pipe,       \* the units in the pipes
  open,       \* the pipes the child, or a child of it, still holds
  buf,        \* w->buf, per watch
  live,       \* the watches whose source is there
  handled,    \* the lines handed on or gathered, per pipe
  ref,        \* i->ref
  results,    \* messages sent with all that was gathered
  freed       \* the cmd_exec_info_t is freed

child == <<written, open>>
info == <<mode, prompt>>
vars == <<info, child, pipe, buf, live, handled, ref, results, freed>>

Pipes == {"out", "err"}
Bound(s) == IF s = "out" THEN MaxOut ELSE MaxErr

TypeOK ==
  /\ mode \in {"none", "print", "msg", "bmsg", "cmd"} /\ prompt \in BOOLEAN
  /\ {written, pipe, buf} \subseteq [Pipes -> Seq(Nat)]
  /\ open \subseteq Pipes /\ live \subseteq Pipes
  /\ handled \in [Pipes -> Seq(Seq(Nat))]
  /\ ref \in Int /\ results \in Nat /\ freed \in BOOLEAN

-----------------------------------------------------------------------------
\* the loop of watch_handle_line(): the newlines cut b into lines and a rest
Start(b, i) == Max({0} \cup {j \in 1 .. i - 1 : b[j] = 0}) + 1
Line(b, i) == SubSeq(b, Start(b, i), i - 1)
Rest(b) == SubSeq(b, Start(b, Len(b) + 1), Len(b))

\* cmd_exec_watch_handler() with a line: an empty one is neither printed nor
\* made a command
Ends(b, m) ==
  {i \in DOMAIN b : b[i] = 0 /\ (m \in {"print", "cmd"} => Line(b, i) # <<>>)}
Nth(S, k) == CHOOSE i \in S : Cardinality({j \in S : j <= i}) = k
Lines(b, m) ==
  [k \in 1 .. Cardinality(Ends(b, m)) |-> Line(b, Nth(Ends(b, m), k))]

(***************************************************************************)
(* cmd_exec(): the child is started, two watches share the info, and the   *)
(* command line is put into the buffer of that of standard error.          *)
(***************************************************************************)
CmdExecOnce ==                    \* mutant: one reference for two watches
  /\ mode = "none"
  /\ mode' \in {"print", "msg", "bmsg", "cmd"}
  /\ prompt' \in (IF mode' = "print" THEN {FALSE} ELSE BOOLEAN)
  /\ buf' = [buf EXCEPT !["err"] = IF prompt' THEN <<1, 0>> ELSE <<>>]
  /\ written' = buf'
  /\ open' = Pipes /\ live' = Pipes
  /\ ref' = 1
  /\ UNCHANGED <<pipe, handled, results, freed>>
CmdExec ==
  /\ mode = "none"
  /\ mode' \in {"print", "msg", "bmsg", "cmd"}
  /\ prompt' \in (IF mode' = "print" THEN {FALSE} ELSE BOOLEAN)
  /\ buf' = [buf EXCEPT !["err"] = IF prompt' THEN <<1, 0>> ELSE <<>>]
  /\ written' = buf'
  /\ open' = Pipes /\ live' = Pipes
  /\ ref' = 2
  /\ UNCHANGED <<pipe, handled, results, freed>>

\* the child writes a piece of text or a newline, or closes a pipe
Write(s) ==
  /\ s \in open /\ Len(written[s]) < Bound(s)
  /\ \E u \in {0, Len(written[s]) + 1} :
       /\ written' = [written EXCEPT ![s] = Append(@, u)]
       /\ pipe' = [pipe EXCEPT ![s] = Append(@, u)]
  /\ UNCHANGED <<info, open, buf, live, handled, ref, results, freed>>

Close(s) ==
  /\ s \in open /\ open' = open \ {s}
  /\ UNCHANGED <<info, written, pipe, buf, live, handled, ref, results, freed>>

-----------------------------------------------------------------------------
(***************************************************************************)
(* The source of a watch is removed: watch_old_destroy_notify() calls the  *)
(* handler with type 1, which closes the pipe and gives its reference up.  *)
(***************************************************************************)
Destroyed(s) ==
  /\ live' = live \ {s}
  /\ ref' = ref - 1
  /\ IF ref > 0 THEN UNCHANGED <<results, freed>>
     ELSE /\ results' = IF mode = "bmsg" THEN results + 1 ELSE results
          /\ freed' = TRUE

\* watch_handle_line() with the units b in the buffer
TakeKept(s, b) ==                 \* mutant: the newline is not removed
  /\ buf' = [buf EXCEPT ![s] =
                SubSeq(b, Max({1} \cup {i \in DOMAIN b : b[i] = 0}), Len(b))]
  /\ handled' = [handled EXCEPT ![s] = @ \o Lines(b, mode)]
Take(s, b) ==
  /\ buf' = [buf EXCEPT ![s] = Rest(b)]
  /\ handled' = [handled EXCEPT ![s] = @ \o Lines(b, mode)]

(***************************************************************************)
(* watch_old_wrapper() with something to read.  What poll() said of a      *)
(* hang-up, before the handlers of other sources were called, removes the  *)
(* watch after the one read.                                               *)
(***************************************************************************)
Readable(s) ==
  /\ s \in live /\ pipe[s] # <<>>
  /\ LET n == IF Len(pipe[s]) < MaxRead THEN Len(pipe[s]) ELSE MaxRead
     IN /\ Take(s, buf[s] \o SubSeq(pipe[s], 1, n))
        /\ pipe' = [pipe EXCEPT ![s] = SubSeq(@, n + 1, Len(@))]
  /\ \/ UNCHANGED <<live, ref, results, freed>>
     \/ s \notin open /\ Destroyed(s)
  /\ UNCHANGED <<info, child>>

(***************************************************************************)
(* watch_old_wrapper() at the end.  A poll() that calls an empty pipe      *)
(* without writers readable makes the read return 0, which ends the last   *)
(* line; that of Linux only reports the hang-up, and nothing is handled.   *)
(***************************************************************************)
HangUpDeaf(s) ==                  \* mutant: the watch stays
  /\ s \in live /\ pipe[s] = <<>> /\ s \notin open
  /\ UNCHANGED vars
HangUp(s) ==
  /\ s \in live /\ pipe[s] = <<>> /\ s \notin open
  /\ Take(s, Append(buf[s], 0)) \/ UNCHANGED <<buf, handled>>
  /\ Destroyed(s)
  /\ UNCHANGED <<info, child, pipe>>

-----------------------------------------------------------------------------
Init ==
  /\ mode = "none" /\ prompt = FALSE
  /\ written = [s \in Pipes |-> <<>>] /\ open = {}
  /\ pipe = [s \in Pipes |-> <<>>] /\ buf = [s \in Pipes |-> <<>>]
  /\ live = {} /\ handled = [s \in Pipes |-> <<>>]
  /\ ref = 0 /\ results = 0 /\ freed = FALSE

Next ==
  \/ CmdExec
  \/ \E s \in Pipes : Write(s) \/ Close(s) \/ Readable(s) \/ HangUp(s)

\* the main loop calls the watches poll() reports; a child may run for ever
Spec ==
  /\ Init /\ [][Next]_vars
  /\ \A s \in Pipes : WF_vars(Readable(s) \/ HangUp(s))

-----------------------------------------------------------------------------
(***************************************************************************)
(* Wherever the reads cut what the child writes, the handler is given the  *)
(* lines of each pipe whole, once and in the order written, and what it    *)
(* was not given waits in the buffer and the pipe (watch_handle_line).     *)
(***************************************************************************)
LinesInOrder ==
  \A s \in Pipes :
    IF s \in live
    THEN LET waiting == buf[s] \o pipe[s]
             n == Len(written[s]) - Len(waiting)
             before == SubSeq(written[s], 1, n)
         IN /\ written[s] = before \o waiting
            /\ handled[s] = Lines(before, mode)
    ELSE IsPrefix(handled[s], Lines(Append(written[s], 0), mode))

(***************************************************************************)
(* The two watches share one cmd_exec_info_t: it is there, with a          *)
(* reference, for each of them, in whichever order they end.               *)
(***************************************************************************)
HeldWhileWatched == Cardinality(live) <= ref /\ (live # {} => ~freed)

(***************************************************************************)
(* A watch whose pipe has no writer any more is removed and its pipe       *)
(* closed, however much was written before.                                *)
(***************************************************************************)
EndIsNoticed ==
  \A s \in Pipes : s \in live /\ s \notin open ~> s \notin live

(***************************************************************************)
(* -b sends the result in one message (docs/commands-pl.txt).              *)
(***************************************************************************)
ResultIsSent ==
  mode = "bmsg" /\ live = {} => results = 1

\* -M, -B and -C put the command line first (docs/commands-pl.txt)
PromptIsFirst ==
  prompt /\ handled["out"] # <<>> => handled["err"] # <<>>

\* what the child wrote is all handled in the end
NothingLost ==
  \A s \in Pipes :
    mode # "none" /\ s \notin live =>
      handled[s] \in {Lines(written[s], mode), Lines(Append(written[s], 0), mode)}

=============================================================================
