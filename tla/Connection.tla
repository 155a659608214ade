----------------------------- MODULE Connection -----------------------------
(***************************************************************************)
(* One plain connection of ekg/connections.c: a struct ekg_connection with *)
(* its buffered output stream, the buffer wr_buffer for what is written    *)
(* while a flush is under way, the asynchronous read that is always armed, *)
(* and the end of the connection.  One thread runs the callbacks; GIO      *)
(* flushes the stream in the background and reports by a callback.         *)
(*                                                                         *)
(* A piece of output is its number.  A flush that failed has hit a broken  *)
(* socket: no later one gets anything through.                             *)
(***************************************************************************)
EXTENDS Naturals, Sequences

CONSTANTS
  MaxSaid,        \* bound: pieces written to the connection
  HangsUp         \* does it drop the connection from its input callback (icq)

ASSUME ConnectionAssumption ==
  MaxSaid \in Nat /\ HangsUp \in BOOLEAN

VARIABLES
  life,           \* of the struct: "none", "live", "freed"
  reading,        \* an asynchronous read is armed
  stream,         \* what GBufferedOutputStream holds
  flushing,       \* the stream has a pending flush
  backlog,        \* c->wr_buffer
  wire,           \* what went out on the socket
  broken,         \* the socket refuses all output
  said,           \* history: pieces handed over so far
  stray           \* history: code has run on a freed struct

vars == <<life, reading, stream, flushing, backlog, wire, broken, said, stray>>

TypeOK ==
  /\ life \in {"none", "live", "freed"}
  /\ reading \in BOOLEAN /\ flushing \in BOOLEAN
  /\ broken \in BOOLEAN /\ stray \in BOOLEAN
  /\ said \in Nat
  /\ {stream, backlog, wire} \subseteq Seq(1 .. said)

-----------------------------------------------------------------------------
\* ekg_connection_add(): the read is armed at once
Add ==
  /\ life = "none"
  /\ life' = "live" /\ reading' = TRUE
  /\ UNCHANGED <<stream, flushing, backlog, wire, broken, said, stray>>

(***************************************************************************)
(* ekg_connection_write_buf(): a stream with a pending operation takes no  *)
(* data, so that the piece waits in the backlog; else it goes into the     *)
(* stream and a flush is started.                                          *)
(***************************************************************************)
WriteBufNoFlush ==                \* mutant: nobody calls flush_handler
  /\ said < MaxSaid /\ said' = said + 1
  /\ IF flushing
     THEN backlog' = Append(backlog, said') /\ UNCHANGED <<stream, flushing>>
     ELSE stream' = Append(stream, said') /\ UNCHANGED <<backlog, flushing>>
WriteBufPast ==                   \* mutant: one more than was handed over
  /\ said < MaxSaid /\ said' = said + 1
  /\ IF flushing
     THEN /\ backlog' = Append(backlog, said' + 1)
          /\ UNCHANGED <<stream, flushing>>
     ELSE /\ stream' = Append(stream, said') /\ flushing' = TRUE
          /\ UNCHANGED backlog
WriteBuf ==
  /\ said < MaxSaid /\ said' = said + 1
  /\ IF flushing
     THEN backlog' = Append(backlog, said') /\ UNCHANGED <<stream, flushing>>
     ELSE /\ stream' = Append(stream, said') /\ flushing' = TRUE
          /\ UNCHANGED backlog

\* a command or a timer of the plugin writes
Write ==
  /\ life = "live" /\ WriteBuf
  /\ UNCHANGED <<life, reading, wire, broken, stray>>

(***************************************************************************)
(* done_async_write() after a flush that worked: the backlog, if there is  *)
(* one, goes into the stream and is flushed in turn.  The struct may be    *)
(* gone by then; what the callback makes of it then is not defined, here   *)
(* it does nothing more.                                                   *)
(***************************************************************************)
RefillTwice ==                    \* mutant: the backlog is not truncated
  IF life = "live" /\ backlog # <<>>
  THEN stream' = backlog /\ flushing' = TRUE /\ UNCHANGED backlog
  ELSE stream' = <<>> /\ flushing' = FALSE /\ UNCHANGED backlog
RefillLater ==                    \* mutant: the backlog waits for a write
  stream' = <<>> /\ flushing' = FALSE /\ UNCHANGED backlog
Refill ==
  IF life = "live" /\ backlog # <<>>
  THEN stream' = backlog /\ flushing' = TRUE /\ backlog' = <<>>
  ELSE stream' = <<>> /\ flushing' = FALSE /\ UNCHANGED backlog

FlushDone ==
  /\ flushing /\ ~broken
  /\ wire' = wire \o stream
  /\ Refill
  /\ stray' = (stray \/ life = "freed")
  /\ UNCHANGED <<life, reading, broken, said>>

\* done_async_write() after a flush that failed part of the way
FlushFailed ==
  /\ flushing
  /\ \E n \in IF broken THEN {0} ELSE 0 .. Len(stream) :
       /\ wire' = wire \o SubSeq(stream, 1, n)
       /\ stream' = SubSeq(stream, n + 1, Len(stream))
  /\ flushing' = FALSE /\ broken' = TRUE
  /\ stray' = (stray \/ life = "freed")
  /\ UNCHANGED <<life, reading, backlog, said>>

-----------------------------------------------------------------------------
\* ekg_connection_remove(): the struct goes, and the backlog with it; the
\* stream lives on while a flush holds it
Remove == life' = "freed" /\ reading' = FALSE /\ backlog' = <<>>

(***************************************************************************)
(* done_async_read() with input: the plugin's callback, which may write or *)
(* drop the connection, and then setup_async_read() whatever it did.  A    *)
(* callback that does neither changes nothing here.                        *)
(***************************************************************************)
ReadData ==
  /\ life = "live" /\ reading
  /\ \/ /\ WriteBuf
        /\ UNCHANGED <<life, reading, wire, broken, stray>>
     \/ /\ HangsUp /\ Remove
        /\ stray' = TRUE
        /\ UNCHANGED <<stream, flushing, wire, broken, said>>

(***************************************************************************)
(* done_async_read() at the end of the input or on an error: the input     *)
(* callback once more for what it left unread, the failure callback, and   *)
(* then ekg_connection_remove().  Either callback may write, and the first *)
(* may have dropped the connection already.                                *)
(***************************************************************************)
ReadEnd ==
  /\ life = "live" /\ reading
  /\ Remove
  /\ \E n \in {0, 1, 2} :
       /\ said + n <= MaxSaid /\ said' = said + n
       /\ stream' = IF n = 0 \/ flushing THEN stream
                    ELSE Append(stream, said + 1)
       /\ flushing' = (flushing \/ n > 0)
  /\ \E dropped \in {FALSE, HangsUp} : stray' = (stray \/ dropped)
  /\ UNCHANGED <<wire, broken>>

-----------------------------------------------------------------------------
Init ==
  /\ life = "none" /\ reading = FALSE
  /\ stream = <<>> /\ flushing = FALSE /\ backlog = <<>>
  /\ wire = <<>> /\ broken = FALSE
  /\ said = 0 /\ stray = FALSE

Next == Add \/ Write \/ FlushDone \/ FlushFailed \/ ReadData \/ ReadEnd

Spec == Init /\ [][Next]_vars

\* GIO ends every flush it started, one way or the other
FairSpec == Spec /\ WF_vars(FlushDone \/ FlushFailed)

-----------------------------------------------------------------------------
(***************************************************************************)
(* As long as the socket works nothing that was written waits without a    *)
(* flush under way to take it out: neither in the stream nor in the        *)
(* backlog, which no later write would ever look at (done_async_write,     *)
(* ekg_connection_write_buf).                                              *)
(***************************************************************************)
NothingStranded ==
  life = "live" /\ ~broken /\ (stream # <<>> \/ backlog # <<>>) => flushing

(***************************************************************************)
(* Everything written to a connection that neither breaks nor ends goes    *)
(* out on the wire.                                                        *)
(***************************************************************************)
AllGoesOut ==
  \A n \in 1 .. MaxSaid :
    said = n /\ life = "live" ~> Len(wire) >= n \/ broken \/ life = "freed"

(***************************************************************************)
(* The two buffers and the flush implement a stream that keeps the order,  *)
(* repeats nothing and leaves nothing out.                                 *)
(***************************************************************************)
Ordered == INSTANCE OrderedStream
             WITH said <- [i \in 1 .. said |-> i], wire <- wire,
                  open <- (life = "live")
KeepsOrder == Ordered!Spec

(***************************************************************************)
(* No code runs on a struct that ekg_connection_remove() has freed: it is  *)
(* only removed when its output stream has no pending operation, which is  *)
(* the assertion that function carries in an #if 0.                        *)
(***************************************************************************)
FreedIsLeftAlone == ~stray

=============================================================================
