------------------------------ MODULE MsgQueue ------------------------------
(***************************************************************************)
(* The queue of outgoing messages (ekg/msgqueue.c) together with the parts *)
(* of the program that fill and drain it: the /msg commands of the         *)
(* protocol plugins, the handlers of "protocol-connected" and              *)
(* "protocol-message-ack" (ekg/protocol.c), the /queue command, and the    *)
(* files the queue is kept in between two runs of the program.             *)
(*                                                                         *)
(* The list msgs_queue only ever grows at its tail, so it is a set of      *)
(* entries whose id is the moment of their insertion: the list order is    *)
(* the order of the ids, and the "m = m->next" of a loop standing at id c  *)
(* is the entry with the least id above c.                                 *)
(***************************************************************************)
EXTENDS Naturals, FiniteSets

CONSTANTS
  Sessions,     \* the user's accounts
  Acking,       \* those of a plugin that queues until an ack comes (gg)
  Rcpts,        \* nicks a message can be sent to
  Targets,      \* what a user may type as the target of /msg: sets of nicks
  None,         \* "no session is being flushed"
  MaxMsgs,      \* bound: messages the user types
  MaxEntries,   \* bound: queue entries ever created
  MaxRestarts   \* bound: how often the program is started again

ASSUME SessionsAssumption == Acking \subseteq Sessions /\ None \notin Sessions
ASSUME RcptsAssumption ==
  /\ Rcpts \subseteq Nat /\ IsFiniteSet(Rcpts)
  /\ Targets \subseteq (SUBSET Rcpts) \ {{}}
ASSUME BoundsAssumption ==
  MaxMsgs \in Nat /\ MaxEntries \in Nat /\ MaxRestarts \in Nat

VARIABLES
  queue,      \* msgs_queue
  disk,       \* the files of ~/.ekg2/queue
  conn,       \* per session: "absent", "off" or "on" (session_t.connected)
  wire,       \* messages handed to the server on the current connections
  nextSeq,    \* per session: the number the library gives the next message
  flushing,   \* the session msg_queue_flush() runs for, or None
  cursor,     \* id of the entry its loop has dealt with last
  roster,     \* nicks the userlist resolves (get_uid)
  running,    \* is the program running
  restarts,   \* how often it has been started again
  nextId,     \* id of the next queue entry
  nextMsg,    \* number of the next message the user types
  owed        \* history: (message, nick) pairs accepted and not settled yet

vars == <<queue, disk, conn, wire, nextSeq, flushing, cursor, roster,
          running, restarts, nextId, nextMsg, owed>>

(***************************************************************************)
(* seq is "offline", or the "-1" of a failed send: no ack carries either.  *)
(***************************************************************************)
NoSeq == 0

Entry == [id : Nat, msg : Nat, session : Sessions, rcpts : SUBSET Rcpts,
          seq : Nat, mark : BOOLEAN]
Sent  == [session : Sessions, msg : Nat, rcpt : Rcpts, seq : Nat,
          acked : BOOLEAN]
Pair  == [msg : Nat, rcpt : Rcpts]

TypeOK ==
  /\ queue \subseteq Entry
  /\ disk \subseteq Entry
  /\ conn \in [Sessions -> {"absent", "off", "on"}]
  /\ wire \subseteq Sent
  /\ nextSeq \in [Sessions -> Nat]
  /\ flushing \in Sessions \cup {None}
  /\ cursor \in Nat
  /\ roster \subseteq Rcpts
  /\ running \in BOOLEAN
  /\ restarts \in Nat
  /\ nextId \in Nat
  /\ nextMsg \in Nat
  /\ owed \subseteq Pair

-----------------------------------------------------------------------------
Covers(e, p) == e.msg = p.msg /\ p.rcpt \in e.rcpts

\* the pairs of a message no entry stands for any more are settled
StillQueued(pairs, entries) ==
  {p \in pairs : \E e \in entries : Covers(e, p)}

\* place of nick r in the array `nicks' the /msg command loops over
Place(r, K) == Cardinality({k \in K : k < r})

(***************************************************************************)
(* One run of the /msg command for message m to the target T, as typed or  *)
(* as msg_queue_flush() executes it; e is the entry being flushed, if any. *)
(* Nicks get_uid() does not resolve are skipped.  A plugin that waits for  *)
(* acks adds one entry per nick, and gives each the WHOLE target as its    *)
(* recipients; `ok' is whether the library accepted the message.           *)
(***************************************************************************)
SendAndQueue(s, m, T, old, ok) ==
  LET K    == T \cap roster
      live == conn[s] = "on" /\ ok
      seqOf(r) == IF live THEN nextSeq[s] + Place(r, K) ELSE NoSeq
  IN /\ queue' = (queue \ old) \cup
          {[id |-> nextId + Place(r, K), msg |-> m, session |-> s,
            rcpts |-> T, seq |-> seqOf(r), mark |-> FALSE] : r \in K}
     /\ nextId' = nextId + Cardinality(K)
     /\ IF live
        THEN /\ wire' = wire \cup
                  {[session |-> s, msg |-> m, rcpt |-> r, seq |-> seqOf(r),
                    acked |-> FALSE] : r \in K}
             /\ nextSeq' = [nextSeq EXCEPT ![s] = @ + Cardinality(K)]
        ELSE UNCHANGED <<wire, nextSeq>>

(***************************************************************************)
(* The same for a plugin without acks (jabber, icq): a connected session   *)
(* writes the message to its socket and never queues it, an offline one    *)
(* queues it with the seq "offline".                                       *)
(***************************************************************************)
SendOrQueue(s, m, T, old) ==
  LET K == T \cap roster
  IN IF conn[s] = "on"
     THEN /\ queue' = queue \ old
          /\ wire' = wire \cup
               {[session |-> s, msg |-> m, rcpt |-> r, seq |-> nextSeq[s],
                 acked |-> FALSE] : r \in K}
          /\ nextSeq' = [nextSeq EXCEPT ![s] = @ + Cardinality(K)]
          /\ UNCHANGED nextId
     ELSE /\ queue' = (queue \ old) \cup
               {[id |-> nextId, msg |-> m, session |-> s, rcpts |-> T,
                 seq |-> NoSeq, mark |-> FALSE] : r \in K}
          /\ nextId' = nextId + Cardinality(K)
          /\ UNCHANGED <<wire, nextSeq>>

FlushYields == running            \* mutant: the loop lets other events in
Idle == running /\ flushing = None

\* the user types /msg; the bound keeps room for the entries it creates
Submit(s, T, ok) ==
  /\ Idle /\ conn[s] # "absent"
  /\ T \cap roster # {}
  /\ s \notin Acking => ok /\ Cardinality(T) = 1
  /\ nextMsg <= MaxMsgs /\ nextId + Cardinality(T) <= MaxEntries + 1
  /\ IF s \in Acking
     THEN SendAndQueue(s, nextMsg, T, {}, ok)
     ELSE SendOrQueue(s, nextMsg, T, {})
  /\ nextMsg' = nextMsg + 1
  /\ owed' = IF s \notin Acking /\ conn[s] = "on" THEN owed
             ELSE owed \cup [msg : {nextMsg}, rcpt : T \cap roster]
  /\ UNCHANGED <<disk, conn, flushing, cursor, roster, running, restarts>>

-----------------------------------------------------------------------------
(***************************************************************************)
(* protocol_connected(): the session becomes connected, and                *)
(* msg_queue_flush() returns at once for an empty queue, or marks every    *)
(* entry and starts its loop.  MaxEntries bounds the connections: one is   *)
(* made only while the flush has ids left for all it will queue again.     *)
(***************************************************************************)
FlushCost(s) ==
  Cardinality({p \in queue \X Rcpts : /\ p[1].session = s
                                     /\ p[2] \in p[1].rcpts})

Connected(s) ==
  /\ Idle /\ conn[s] = "off"
  /\ nextId + FlushCost(s) <= MaxEntries + 1
  /\ conn' = [conn EXCEPT ![s] = "on"]
  /\ nextSeq' = [nextSeq EXCEPT ![s] = 1]
  /\ queue' = {[e EXCEPT !.mark = TRUE] : e \in queue}
  /\ flushing' = IF queue = {} THEN None ELSE s
  /\ cursor' = 0
  /\ UNCHANGED <<disk, wire, roster, running, restarts, nextId, nextMsg, owed>>

\* the entry the loop looks at next
Ahead == {e \in queue : e.id > cursor}
IsNext(e) == e \in Ahead /\ \A f \in Ahead : e.id <= f.id

SkippedWithoutMark(e) == e.session # flushing                     \* mutant
SkippedWithoutSession(e) == ~e.mark                               \* mutant
SkippedIfNumbered(e) ==           \* mutant: "it only waits for its ack"
  ~e.mark \/ e.session # flushing \/ e.seq # NoSeq

\* added while the queue is being flushed, or another session's: left alone
Skipped(e) == ~e.mark \/ e.session # flushing

FlushSkipStuck(e) ==              \* mutant: `continue' without m = m->next
  /\ flushing # None /\ IsNext(e) /\ Skipped(e)
  /\ UNCHANGED vars

FlushSkip(e) ==
  /\ flushing # None /\ IsNext(e) /\ Skipped(e)
  /\ cursor' = e.id
  /\ UNCHANGED <<queue, disk, conn, wire, nextSeq, flushing, roster, running,
                 restarts, nextId, nextMsg, owed>>

(***************************************************************************)
(* The entry is sent again by executing /msg, and then removed whatever    *)
(* the command has returned.                                               *)
(***************************************************************************)
FlushSend(e, ok) ==
  /\ flushing # None /\ IsNext(e) /\ ~Skipped(e)
  /\ e.session \notin Acking => ok
  /\ nextId + Cardinality(e.rcpts) <= MaxEntries + 1
  /\ IF e.session \in Acking
     THEN SendAndQueue(e.session, e.msg, e.rcpts, {e}, ok)
     ELSE SendOrQueue(e.session, e.msg, e.rcpts, {e})
  /\ owed' = IF e.session \in Acking
             THEN {p \in owed : p.msg = e.msg => p.rcpt \in roster}
             ELSE {p \in owed : p.msg # e.msg}
  /\ cursor' = e.id
  /\ UNCHANGED <<disk, conn, flushing, roster, running, restarts, nextMsg>>

FlushEnd ==
  /\ flushing # None /\ Ahead = {}
  /\ flushing' = None /\ cursor' = 0
  /\ UNCHANGED <<queue, disk, conn, wire, nextSeq, roster, running, restarts,
                 nextId, nextMsg, owed>>

(***************************************************************************)
(* protocol_message_ack(): msg_queue_remove_seq() compares nothing but the *)
(* sequence number.                                                        *)
(***************************************************************************)
AckRemovesByRcpt(e, w) == e.rcpts = {w.rcpt}                      \* mutant
AckRemoves(e, w) == e.seq = w.seq

Ack(w) ==
  /\ Idle /\ w.session \in Acking /\ ~w.acked
  /\ wire' = (wire \ {w}) \cup {[w EXCEPT !.acked = TRUE]}
  /\ queue' = {e \in queue : ~AckRemoves(e, w)}
  /\ owed' = owed \ {[msg |-> w.msg, rcpt |-> w.rcpt]}
  /\ UNCHANGED <<disk, conn, nextSeq, flushing, cursor, roster, running,
                 restarts, nextId, nextMsg>>

\* the connection is gone, and with it the acks still on their way
Hangup(s) == wire' = {w \in wire : w.session # s}

Disconnected(s) ==
  /\ Idle /\ conn[s] = "on"
  /\ conn' = [conn EXCEPT ![s] = "off"]
  /\ Hangup(s)
  /\ UNCHANGED <<queue, disk, nextSeq, flushing, cursor, roster, running,
                 restarts, nextId, nextMsg, owed>>

\* session_remove(): disconnects; the entries of the session stay queued
SessionRemove(s) ==
  /\ Idle /\ conn[s] # "absent"
  /\ conn' = [conn EXCEPT ![s] = "absent"]
  /\ Hangup(s)
  /\ UNCHANGED <<queue, disk, nextSeq, flushing, cursor, roster, running,
                 restarts, nextId, nextMsg, owed>>

SessionAdd(s) ==
  /\ Idle /\ conn[s] = "absent"
  /\ conn' = [conn EXCEPT ![s] = "off"]
  /\ UNCHANGED <<queue, disk, wire, nextSeq, flushing, cursor, roster,
                 running, restarts, nextId, nextMsg, owed>>

-----------------------------------------------------------------------------
\* /queue --clear <uid>: the entries whose recipients are that uid and no other
ClearUid(r) ==
  /\ Idle /\ \E e \in queue : e.rcpts = {r}
  /\ queue' = {e \in queue : e.rcpts # {r}}
  /\ owed' = StillQueued(owed, queue')
  /\ UNCHANGED <<disk, conn, wire, nextSeq, flushing, cursor, roster,
                 running, restarts, nextId, nextMsg>>

\* /queue --clear
ClearAll ==
  /\ Idle /\ queue # {}
  /\ queue' = {} /\ owed' = {}
  /\ UNCHANGED <<disk, conn, wire, nextSeq, flushing, cursor, roster,
                 running, restarts, nextId, nextMsg>>

\* /add and /del of a contact change what get_uid() resolves
RosterChange(r) ==
  /\ Idle
  /\ roster' = IF r \in roster THEN roster \ {r} ELSE roster \cup {r}
  /\ UNCHANGED <<queue, disk, conn, wire, nextSeq, flushing, cursor, running,
                 restarts, nextId, nextMsg, owed>>

-----------------------------------------------------------------------------
\* ekg_exit(): msg_queue_write() writes one file for each entry, mark left out
Quit ==
  /\ Idle /\ restarts < MaxRestarts
  /\ nextId + Cardinality(queue) <= MaxEntries + 1
  /\ disk' = disk \cup {[e EXCEPT !.mark = FALSE] : e \in queue}
  /\ queue' = {} /\ wire' = {}
  /\ conn' = [s \in Sessions |-> IF conn[s] = "on" THEN "off" ELSE conn[s]]
  /\ running' = FALSE
  /\ UNCHANGED <<nextSeq, flushing, cursor, roster, restarts, nextId,
                 nextMsg, owed>>

\* every way readdir() can list the files
Listings ==
  {f \in [disk -> 0 .. Cardinality(disk) - 1] :
     \A d, e \in disk : f[d] = f[e] => d = e}

\* main(): msg_queue_read() queues what the files hold and unlinks them
Start ==
  /\ ~running
  /\ \E f \in Listings :
       queue' = {[e EXCEPT !.id = nextId + f[e]] : e \in disk}
  /\ nextId' = nextId + Cardinality(disk)
  /\ disk' = {}
  /\ running' = TRUE /\ restarts' = restarts + 1
  /\ UNCHANGED <<conn, wire, nextSeq, flushing, cursor, roster, nextMsg, owed>>

-----------------------------------------------------------------------------
Init ==
  /\ queue = {} /\ disk = {} /\ wire = {} /\ owed = {}
  /\ conn = [s \in Sessions |-> "off"]
  /\ nextSeq = [s \in Sessions |-> 1]
  /\ flushing = None /\ cursor = 0
  /\ roster = Rcpts
  /\ running = TRUE /\ restarts = 0
  /\ nextId = 1 /\ nextMsg = 1

FlushStep ==
  \/ \E e \in queue : FlushSkip(e)
  \/ \E e \in queue, ok \in BOOLEAN : FlushSend(e, ok)
  \/ FlushEnd

Next ==
  \/ \E s \in Sessions, T \in Targets, ok \in BOOLEAN : Submit(s, T, ok)
  \/ \E s \in Sessions : Connected(s)
  \/ FlushStep
  \/ \E w \in wire : Ack(w)
  \/ \E s \in Sessions : Disconnected(s)
  \/ \E s \in Sessions : SessionRemove(s)
  \/ \E s \in Sessions : SessionAdd(s)
  \/ \E r \in Rcpts : ClearUid(r)
  \/ ClearAll
  \/ \E r \in Rcpts : RosterChange(r)
  \/ Quit
  \/ Start

(***************************************************************************)
(* msg_queue_flush() is a loop of the one thread: once entered, it runs.   *)
(***************************************************************************)
Spec == Init /\ [][Next]_vars /\ WF_vars(FlushStep)

-----------------------------------------------------------------------------
(***************************************************************************)
(* A message the program said it would deliver stays in the queue, or in   *)
(* the files while the program is down, until it is acked, sent without    *)
(* an ack, cleared by the user or left without a resolvable recipient:     *)
(* flushing, going down and coming up, and acks of other messages lose     *)
(* nothing (msg_queue_flush, msg_queue_write, msg_queue_read,              *)
(* msg_queue_remove_seq).                                                  *)
(***************************************************************************)
NothingForgotten ==
  \A p \in owed : \E e \in queue \cup disk : Covers(e, p)

(***************************************************************************)
(* Outside a flush, an entry of a connected session that bears a sequence  *)
(* number bears one the server still has to ack on THIS connection: no     *)
(* number of an earlier connection survives the flush, and no entry waits  *)
(* for an ack that already came (protocol_connected, protocol_message_ack).*)
(***************************************************************************)
NumbersAreLive ==
  \A e \in queue :
    (flushing = None /\ conn[e.session] = "on" /\ e.seq # NoSeq) =>
      \E w \in wire : /\ w.session = e.session /\ w.seq = e.seq
                      /\ w.msg = e.msg /\ ~w.acked

(***************************************************************************)
(* On one connection a message is handed to the server at most once for    *)
(* each recipient: the flush does not send again what it has just queued   *)
(* again (m->mark in msg_queue_flush).                                     *)
(***************************************************************************)
SentOncePerConnection ==
  \A v, w \in wire :
    v.session = w.session /\ v.msg = w.msg /\ v.rcpt = w.rcpt => v = w

(***************************************************************************)
(* On one connection messages go out in the order the user typed them, the *)
(* queued ones before the new ones (the list is appended to at its tail    *)
(* and flushed from its head, before anything else is sent), as long as    *)
(* the queue has not been through its files, which readdir() lists in any  *)
(* order.                                                                  *)
(***************************************************************************)
SentInOrder ==
  restarts = 0 => \A v, w \in wire :
    v.session = w.session /\ v.seq < w.seq => v.msg <= w.msg

(***************************************************************************)
(* A flush comes to its end although the commands it executes append to    *)
(* the list it walks (the "czy wiadomosc dodano w trakcie oprozniania      *)
(* kolejki?" test of msg_queue_flush).                                     *)
(***************************************************************************)
FlushEnds == flushing # None ~> flushing = None

(***************************************************************************)
(* While one session's queue is flushed, what other sessions have queued   *)
(* stays as it is (the session test of msg_queue_flush).                   *)
(***************************************************************************)
FlushLeavesOthers ==
  [][flushing # None =>
       {e \in queue' : e.session # flushing} =
       {e \in queue : e.session # flushing}]_vars
=============================================================================
