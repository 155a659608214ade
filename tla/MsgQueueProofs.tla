--------------------------- MODULE MsgQueueProofs ---------------------------
(***************************************************************************)
(* What holds of the queue for any sets of sessions and nicks: the types;  *)
(* and, with one account of a plugin that waits for acks and targets of    *)
(* one nick each, that nothing promised is forgotten, that the numbers of  *)
(* queued messages are live, and that nothing is sent twice on one         *)
(* connection.  For any accounts and targets: messages go out in the order *)
(* they were typed, and a flush leaves what other sessions have queued.    *)
(***************************************************************************)
EXTENDS MsgQueue, FiniteSetTheorems, TLAPS

\* the types, and that the lists are finite and real numbers are not NoSeq
TypeInv ==
  /\ TypeOK
  /\ IsFiniteSet(queue) /\ IsFiniteSet(disk)
  /\ \A s \in Sessions : nextSeq[s] > NoSeq

\* The image of a finite set is finite.
LEMMA ImageFinite ==
  ASSUME NEW S, IsFiniteSet(S), NEW f, f = [x \in S |-> f[x]]
  PROVE  IsFiniteSet({f[x] : x \in S})
<1> DEFINE T == {f[x] : x \in S}
<1>1. f \in Surjection(S, T) BY DEF Surjection
<1> QED BY <1>1, FS_Surjection

\* Sets of nicks and places in them are finite and counted by naturals.
LEMMA NicksFinite ==
  ASSUME NEW K \in SUBSET Rcpts
  PROVE  /\ IsFiniteSet(K) /\ Cardinality(K) \in Nat
         /\ \A r \in Rcpts : Place(r, K) \in Nat
<1>1. IsFiniteSet(K) /\ Cardinality(K) \in Nat
  BY RcptsAssumption, FS_Subset, FS_CardinalityType
<1>2. ASSUME NEW r \in Rcpts PROVE Place(r, K) \in Nat
  <2>1. {k \in K : k < r} \in SUBSET K OBVIOUS
  <2>2. IsFiniteSet({k \in K : k < r}) BY <1>1, <2>1, FS_Subset
  <2> QED BY <2>2, FS_CardinalityType DEF Place
<1> QED BY <1>1, <1>2

\* What sending a message leaves has the right types.
LEMMA SendAndQueueTypes ==
  ASSUME TypeInv, NEW s \in Sessions, NEW m \in Nat, NEW T \in SUBSET Rcpts,
         NEW old \in SUBSET queue, NEW ok \in BOOLEAN,
         SendAndQueue(s, m, T, old, ok)
  PROVE  /\ queue' \subseteq Entry /\ IsFiniteSet(queue')
         /\ wire' \subseteq Sent /\ nextId' \in Nat
         /\ nextSeq' \in [Sessions -> Nat]
         /\ \A t \in Sessions : nextSeq'[t] > NoSeq
<1> DEFINE K == T \cap roster
           live == conn[s] = "on" /\ ok
           q(r) == IF live THEN nextSeq[s] + Place(r, K) ELSE NoSeq
           new(r) == [id |-> nextId + Place(r, K), msg |-> m, session |-> s,
                      rcpts |-> T, seq |-> q(r), mark |-> FALSE]
           f == [r \in K |-> new(r)]
<1>1. K \in SUBSET Rcpts BY DEF TypeInv, TypeOK
<1>2. /\ IsFiniteSet(K) /\ Cardinality(K) \in Nat
      /\ \A r \in K : r \in Rcpts /\ Place(r, K) \in Nat
  BY <1>1, NicksFinite
<1>3. nextSeq[s] \in Nat /\ nextSeq[s] > NoSeq /\ nextId \in Nat
      /\ NoSeq = 0 /\ nextSeq \in [Sessions -> Nat]
      /\ \A t \in Sessions : nextSeq[t] > NoSeq
  BY DEF TypeInv, TypeOK, NoSeq
<1>4. \A r \in K : q(r) \in Nat BY <1>2, <1>3
<1>5. queue' = (queue \ old) \cup {f[r] : r \in K}
      /\ nextId' = nextId + Cardinality(K)
  BY DEF SendAndQueue
<1>6. \A r \in K : f[r] \in Entry BY <1>2, <1>3, <1>4 DEF Entry
<1>7. queue' \subseteq Entry BY <1>5, <1>6 DEF TypeInv, TypeOK
<1>8. IsFiniteSet(queue')
  <2>1. IsFiniteSet(queue \ old) BY FS_Subset DEF TypeInv
  <2>2. IsFiniteSet({f[r] : r \in K}) BY <1>2, ImageFinite
  <2> QED BY <1>5, <2>1, <2>2, FS_Union
<1>9. wire' \subseteq Sent
  <2>1. CASE ~live BY <2>1 DEF SendAndQueue, TypeInv, TypeOK
  <2>2. CASE live
    <3>1. wire' = wire \cup {[session |-> s, msg |-> m, rcpt |-> r,
                              seq |-> q(r), acked |-> FALSE] : r \in K}
      BY <2>2 DEF SendAndQueue
    <3>2. \A r \in K : [session |-> s, msg |-> m, rcpt |-> r,
                         seq |-> q(r), acked |-> FALSE] \in Sent
      BY <1>2, <1>4 DEF Sent
    <3>3. wire \subseteq Sent BY DEF TypeInv, TypeOK
    <3> HIDE DEF K, q
    <3> QED BY <3>1, <3>2, <3>3
  <2> QED BY <2>1, <2>2
<1>10. /\ nextSeq' \in [Sessions -> Nat]
       /\ \A t \in Sessions : nextSeq'[t] > NoSeq
  <2>1. nextSeq' = nextSeq
        \/ nextSeq' = [nextSeq EXCEPT ![s] = @ + Cardinality(K)]
    BY DEF SendAndQueue
  <2> QED BY <1>2, <1>3, <2>1
<1> QED BY <1>2, <1>3, <1>5, <1>7, <1>8, <1>9, <1>10

\* The same for a plugin without acks.
LEMMA SendOrQueueTypes ==
  ASSUME TypeInv, NEW s \in Sessions, NEW m \in Nat, NEW T \in SUBSET Rcpts,
         NEW old \in SUBSET queue, SendOrQueue(s, m, T, old)
  PROVE  /\ queue' \subseteq Entry /\ IsFiniteSet(queue')
         /\ wire' \subseteq Sent /\ nextId' \in Nat
         /\ nextSeq' \in [Sessions -> Nat]
         /\ \A t \in Sessions : nextSeq'[t] > NoSeq
<1> DEFINE K == T \cap roster
           new == [id |-> nextId, msg |-> m, session |-> s, rcpts |-> T,
                   seq |-> NoSeq, mark |-> FALSE]
<1>1. K \in SUBSET Rcpts BY DEF TypeInv, TypeOK
<1>2. IsFiniteSet(K) /\ Cardinality(K) \in Nat BY <1>1, NicksFinite
<1>3. nextSeq[s] \in Nat /\ nextId \in Nat /\ NoSeq = 0
      /\ nextSeq \in [Sessions -> Nat]
      /\ \A t \in Sessions : nextSeq[t] > NoSeq
  BY DEF TypeInv, TypeOK, NoSeq
<1>4. new \in Entry BY <1>3 DEF Entry
<1>5. IsFiniteSet(queue \ old) BY FS_Subset DEF TypeInv
<1>6. CASE conn[s] = "on"
  <2>1. /\ queue' = queue \ old /\ nextId' = nextId
        /\ wire' = wire \cup {[session |-> s, msg |-> m, rcpt |-> r,
                               seq |-> nextSeq[s], acked |-> FALSE] : r \in K}
        /\ nextSeq' = [nextSeq EXCEPT ![s] = @ + Cardinality(K)]
    BY <1>6 DEF SendOrQueue
  <2>2. wire' \subseteq Sent
    <3>1. \A r \in K : [session |-> s, msg |-> m, rcpt |-> r,
                         seq |-> nextSeq[s], acked |-> FALSE] \in Sent
      BY <1>1, <1>3 DEF Sent
    <3>2. wire \subseteq Sent BY DEF TypeInv, TypeOK
    <3> HIDE DEF K
    <3> QED BY <2>1, <3>1, <3>2
  <2>3. /\ nextSeq' \in [Sessions -> Nat]
        /\ \A t \in Sessions : nextSeq'[t] > NoSeq
    <3> HIDE DEF K
    <3> QED BY <1>2, <1>3, <2>1
  <2> QED BY <1>3, <1>5, <2>1, <2>2, <2>3 DEF TypeInv, TypeOK
<1>7. CASE conn[s] # "on"
  <2>1. /\ queue' \in SUBSET ((queue \ old) \cup {new})
        /\ nextId' = nextId + Cardinality(K)
        /\ wire' = wire /\ nextSeq' = nextSeq
    BY <1>7 DEF SendOrQueue
  <2>2. IsFiniteSet((queue \ old) \cup {new}) BY <1>5, FS_AddElement
  <2>3. IsFiniteSet(queue') BY <2>1, <2>2, FS_Subset
  <2>4. queue' \subseteq Entry BY <1>4, <2>1 DEF TypeInv, TypeOK
  <2>5. wire' \subseteq Sent BY <2>1 DEF TypeInv, TypeOK
  <2>6. nextId' \in Nat BY <1>2, <1>3, <2>1
  <2> QED BY <1>3, <2>1, <2>3, <2>4, <2>5, <2>6
<1> QED BY <1>6, <1>7

-----------------------------------------------------------------------------
\* The initial states are well typed.
LEMMA InitTypeInv == Init => TypeInv
BY FS_EmptySet, SessionsAssumption
DEF Init, TypeInv, TypeOK, NoSeq

\* Removing entries keeps the types.
LEMMA FewerEntries ==
  ASSUME TypeInv, NEW S \in SUBSET queue
  PROVE  IsFiniteSet(S) /\ S \subseteq Entry
BY FS_Subset DEF TypeInv, TypeOK

\* Every action keeps the types.
LEMMA NextTypeInv == TypeInv /\ [Next]_vars => TypeInv'
<1> SUFFICES ASSUME TypeInv, [Next]_vars PROVE TypeInv'
  OBVIOUS
<1>1. ASSUME NEW s \in Sessions, NEW T \in Targets, NEW ok \in BOOLEAN,
             Submit(s, T, ok)
      PROVE TypeInv'
  <2>1. T \in SUBSET Rcpts /\ nextMsg \in Nat
    BY RcptsAssumption DEF TypeInv, TypeOK
  <2>2. /\ queue' \subseteq Entry /\ IsFiniteSet(queue')
        /\ wire' \subseteq Sent /\ nextId' \in Nat
        /\ nextSeq' \in [Sessions -> Nat]
        /\ \A t \in Sessions : nextSeq'[t] > NoSeq
    <3>1. {} \in SUBSET queue OBVIOUS
    <3>2. \/ SendAndQueue(s, nextMsg, T, {}, ok)
          \/ SendOrQueue(s, nextMsg, T, {})
      BY <1>1 DEF Submit
    <3> QED BY <2>1, <3>1, <3>2, SendAndQueueTypes, SendOrQueueTypes
  <2>3. owed' \subseteq Pair
    <3>1. [msg : {nextMsg}, rcpt : T \cap roster] \subseteq Pair
      BY <2>1 DEF Pair
    <3> QED BY <1>1, <3>1 DEF Submit, TypeInv, TypeOK
  <2> QED BY <1>1, <2>1, <2>2, <2>3 DEF Submit, TypeInv, TypeOK
<1>2. ASSUME NEW s \in Sessions, Connected(s) PROVE TypeInv'
  <2> DEFINE f == [e \in queue |-> [e EXCEPT !.mark = TRUE]]
  <2>1. queue' = {f[e] : e \in queue} BY <1>2 DEF Connected
  <2>2. IsFiniteSet(queue')
    <3>1. f = [e \in queue |-> f[e]] OBVIOUS
    <3> HIDE DEF f
    <3> QED BY <2>1, <3>1, ImageFinite DEF TypeInv
  <2>3. queue' \subseteq Entry BY <2>1 DEF TypeInv, TypeOK, Entry
  <2>4. nextSeq' \in [Sessions -> Nat]
        /\ \A t \in Sessions : nextSeq'[t] > NoSeq
    BY <1>2 DEF Connected, TypeInv, TypeOK, NoSeq
  <2> QED BY <1>2, <2>2, <2>3, <2>4 DEF Connected, TypeInv, TypeOK
<1>3. ASSUME NEW e \in queue, FlushSkip(e) PROVE TypeInv'
  BY <1>3 DEF FlushSkip, TypeInv, TypeOK, Entry
<1>4. ASSUME NEW e \in queue, NEW ok \in BOOLEAN, FlushSend(e, ok)
      PROVE TypeInv'
  <2>1. e \in Entry /\ {e} \in SUBSET queue BY DEF TypeInv, TypeOK
  <2>2. e.session \in Sessions /\ e.msg \in Nat /\ e.rcpts \in SUBSET Rcpts
        /\ e.id \in Nat
    BY <2>1 DEF Entry
  <2>3. /\ queue' \subseteq Entry /\ IsFiniteSet(queue')
        /\ wire' \subseteq Sent /\ nextId' \in Nat
        /\ nextSeq' \in [Sessions -> Nat]
        /\ \A t \in Sessions : nextSeq'[t] > NoSeq
    BY <1>4, <2>1, <2>2, SendAndQueueTypes, SendOrQueueTypes DEF FlushSend
  <2>4. owed' \subseteq Pair BY <1>4 DEF FlushSend, TypeInv, TypeOK
  <2> QED BY <1>4, <2>2, <2>3, <2>4 DEF FlushSend, TypeInv, TypeOK
<1>5. CASE FlushEnd
  BY <1>5 DEF FlushEnd, TypeInv, TypeOK
<1>6. ASSUME NEW w \in wire, Ack(w) PROVE TypeInv'
  <2>1. queue' \in SUBSET queue BY <1>6 DEF Ack
  <2>2. IsFiniteSet(queue') /\ queue' \subseteq Entry BY <2>1, FewerEntries
  <2>3. wire' \subseteq Sent BY <1>6 DEF Ack, TypeInv, TypeOK, Sent
  <2> QED BY <1>6, <2>2, <2>3 DEF Ack, TypeInv, TypeOK
<1>7. ASSUME NEW s \in Sessions, Disconnected(s) \/ SessionRemove(s)
      PROVE TypeInv'
  BY <1>7 DEF Disconnected, SessionRemove, Hangup, TypeInv, TypeOK
<1>8. ASSUME NEW s \in Sessions, SessionAdd(s) PROVE TypeInv'
  BY <1>8 DEF SessionAdd, TypeInv, TypeOK
<1>9. ASSUME NEW r \in Rcpts, ClearUid(r) PROVE TypeInv'
  <2>1. queue' \in SUBSET queue BY <1>9 DEF ClearUid
  <2>2. IsFiniteSet(queue') /\ queue' \subseteq Entry BY <2>1, FewerEntries
  <2> QED BY <1>9, <2>2 DEF ClearUid, StillQueued, TypeInv, TypeOK
<1>10. CASE ClearAll
  BY <1>10, FS_EmptySet DEF ClearAll, TypeInv, TypeOK
<1>11. ASSUME NEW r \in Rcpts, RosterChange(r) PROVE TypeInv'
  BY <1>11 DEF RosterChange, TypeInv, TypeOK
<1>12. CASE Quit
  <2> DEFINE f == [e \in queue |-> [e EXCEPT !.mark = FALSE]]
  <2>1. disk' = disk \cup {f[e] : e \in queue} BY <1>12 DEF Quit
  <2>2. IsFiniteSet({f[e] : e \in queue})
    <3>1. f = [e \in queue |-> f[e]] OBVIOUS
    <3> HIDE DEF f
    <3> QED BY <3>1, ImageFinite DEF TypeInv
  <2>3. IsFiniteSet(disk') BY <2>1, <2>2, FS_Union DEF TypeInv
  <2>4. \A e \in queue : f[e] \in Entry BY DEF TypeInv, TypeOK, Entry
  <2>5. disk' \subseteq Entry BY <2>1, <2>4 DEF TypeInv, TypeOK
  <2>6. conn' \in [Sessions -> {"absent", "off", "on"}]
    BY <1>12 DEF Quit, TypeInv, TypeOK
  <2> QED BY <1>12, <2>3, <2>5, <2>6, FS_EmptySet DEF Quit, TypeInv, TypeOK
<1>13. CASE Start
  <2>1. PICK g \in Listings :
          queue' = {[e EXCEPT !.id = nextId + g[e]] : e \in disk}
    BY <1>13 DEF Start
  <2> DEFINE f == [e \in disk |-> [e EXCEPT !.id = nextId + g[e]]]
  <2>2. Cardinality(disk) \in Nat BY FS_CardinalityType DEF TypeInv
  <2>3. \A e \in disk : g[e] \in Nat BY <2>2 DEF Listings
  <2>4. \A e \in disk : f[e] \in Entry BY <2>3 DEF TypeInv, TypeOK, Entry
  <2>5. queue' = {f[e] : e \in disk} BY <2>1
  <2>6. IsFiniteSet(queue')
    <3>1. f = [e \in disk |-> f[e]] OBVIOUS
    <3> HIDE DEF f
    <3> QED BY <2>5, <3>1, ImageFinite DEF TypeInv
  <2>7. queue' \subseteq Entry BY <2>4, <2>5
  <2>8. nextId' \in Nat BY <1>13, <2>2 DEF Start, TypeInv, TypeOK
  <2> QED BY <1>13, <2>6, <2>7, <2>8, FS_EmptySet DEF Start, TypeInv, TypeOK
<1>14. CASE UNCHANGED vars
  BY <1>14 DEF vars, TypeInv, TypeOK
<1> QED
  BY <1>1, <1>2, <1>3, <1>4, <1>5, <1>6, <1>7, <1>8, <1>9, <1>10, <1>11,
     <1>12, <1>13, <1>14
  DEF Next, FlushStep

\* The types hold in every reachable state.
LEMMA TypeInvariance == Spec => []TypeInv
BY InitTypeInv, NextTypeInv, PTL DEF Spec

\* The variables have their types, whatever targets a message is sent to.
THEOREM TypeCorrect == Spec => []TypeOK
<1>1. TypeInv => TypeOK BY DEF TypeInv
<1> QED BY <1>1, TypeInvariance, PTL

-----------------------------------------------------------------------------
(***************************************************************************)
(* Safety, for one account of a plugin that waits for acks, any number of  *)
(* the others, and targets of one nick.  (Neither condition can be         *)
(* dropped: see the disagreements in the README.)                          *)
(***************************************************************************)
OneAcking == \A s, t \in Acking : s = t
SingleTargets == \A T \in Targets : \E r \in Rcpts : T = {r}

\* every entry is for one nick; only acking plugins number theirs
Shape ==
  \A e \in queue \cup disk :
    /\ \E r \in Rcpts : e.rcpts = {r}
    /\ e.seq # NoSeq => e.session \in Acking
    /\ e.msg < nextMsg

\* the queue is in memory or in the files; a message is there once
Distinct ==
  /\ running => disk = {}
  /\ ~running => /\ queue = {} /\ wire = {} /\ flushing = None
                 /\ \A s \in Sessions : conn[s] # "on"
  /\ \A e, f \in queue : e.msg = f.msg => e = f
  /\ \A e, f \in disk : e.msg = f.msg => e = f

\* a place of the list holds one entry, and the tail is behind all of them
Ids ==
  /\ nextId > 0 /\ \A e \in queue : e.id > 0 /\ e.id < nextId
  /\ \A e, f \in queue : e.id = f.id => e = f

\* what is on the wire belongs to a connection and has a number of its own
WireInv ==
  /\ \A w \in wire : /\ conn[w.session] = "on" /\ w.msg < nextMsg
                     /\ w.seq < nextSeq[w.session] /\ w.seq > NoSeq
  /\ \A v, w \in wire : v.session = w.session /\ v.seq = w.seq => v = w

\* what the flush still has to send is ahead of its loop, and not sent yet
FlushInv ==
  flushing # None =>
    /\ conn[flushing] = "on"
    /\ \A e \in queue : e.session = flushing /\ e.mark =>
         /\ e.id > cursor
         /\ \A w \in wire : ~(w.session = flushing /\ w.msg = e.msg)

\* the server still has to ack this entry
Live(e) ==
  \E w \in wire : /\ w.session = e.session /\ w.seq = e.seq
                  /\ w.msg = e.msg /\ w.rcpt \in e.rcpts /\ ~w.acked

\* NumbersAreLive while a flush is on its way, too
LiveInv ==
  \A e \in queue :
    /\ conn[e.session] = "on" /\ e.seq # NoSeq
    /\ e.session # flushing \/ ~e.mark
    => Live(e)

SInv ==
  /\ Shape /\ Distinct /\ Ids /\ WireInv /\ FlushInv /\ LiveInv
  /\ SentOncePerConnection /\ NothingForgotten

-----------------------------------------------------------------------------
(***************************************************************************)
(* What a run of /msg for one nick does.                                   *)
(***************************************************************************)
NewEntry(s, m, r, q) == [id |-> nextId, msg |-> m, session |-> s,
                         rcpts |-> {r}, seq |-> q, mark |-> FALSE]
NewSent(s, m, r) == [session |-> s, msg |-> m, rcpt |-> r,
                     seq |-> nextSeq[s], acked |-> FALSE]

\* the nick does not resolve
Nothing(r, old) ==
  /\ r \notin roster
  /\ queue' = queue \ old
  /\ UNCHANGED <<nextId, wire, nextSeq>>

\* the message is queued without a number
Queued(s, m, r, old) ==
  /\ r \in roster
  /\ queue' = (queue \ old) \cup {NewEntry(s, m, r, NoSeq)}
  /\ nextId' = nextId + 1
  /\ UNCHANGED <<wire, nextSeq>>

\* the message goes on the wire
OnWire(s, m, r) ==
  /\ r \in roster /\ conn[s] = "on"
  /\ wire' = wire \cup {NewSent(s, m, r)}
  /\ nextSeq' = [nextSeq EXCEPT ![s] = nextSeq[s] + 1]

\* and is queued until its ack comes
SentQueued(s, m, r, old) ==
  /\ OnWire(s, m, r) /\ s \in Acking
  /\ queue' = (queue \ old) \cup {NewEntry(s, m, r, nextSeq[s])}
  /\ nextId' = nextId + 1

\* or is not
SentOnly(s, m, r, old) ==
  /\ OnWire(s, m, r) /\ s \notin Acking
  /\ queue' = queue \ old
  /\ nextId' = nextId

Outcome(s, m, r, old) ==
  \/ Nothing(r, old) \/ Queued(s, m, r, old)
  \/ SentQueued(s, m, r, old) \/ SentOnly(s, m, r, old)

\* One nick: its place is 0, and there is one entry or none.
LEMMA OneNick ==
  ASSUME TypeInv, NEW r \in Rcpts
  PROVE  /\ r \in roster => /\ {r} \cap roster = {r} /\ Cardinality({r}) = 1
                            /\ Place(r, {r}) = 0
         /\ r \notin roster => {r} \cap roster = {} /\ Cardinality({}) = 0
<1>1. ~(r < r) BY RcptsAssumption
<1>2. {k \in {r} : k < r} = {} BY <1>1
<1> QED BY <1>2, FS_Singleton, FS_EmptySet DEF Place

\* The outcomes of /msg for a plugin that waits for acks.
LEMMA SendAndQueueOne ==
  ASSUME TypeInv, NEW s \in Acking, NEW m \in Nat, NEW r \in Rcpts,
         NEW old \in SUBSET queue, NEW ok \in BOOLEAN,
         SendAndQueue(s, m, {r}, old, ok)
  PROVE  Outcome(s, m, r, old)
<1> DEFINE K == {r} \cap roster
           live == conn[s] = "on" /\ ok
           q(x) == IF live THEN nextSeq[s] + Place(x, K) ELSE NoSeq
           new(x) == [id |-> nextId + Place(x, K), msg |-> m, session |-> s,
                      rcpts |-> {r}, seq |-> q(x), mark |-> FALSE]
           sent(x) == [session |-> s, msg |-> m, rcpt |-> x, seq |-> q(x),
                       acked |-> FALSE]
<1>1. /\ nextSeq[s] \in Nat /\ nextId \in Nat
      /\ nextSeq = [nextSeq EXCEPT ![s] = nextSeq[s]]
  BY SessionsAssumption DEF TypeInv, TypeOK
<1>2. queue' = (queue \ old) \cup {new(x) : x \in K}
      /\ nextId' = nextId + Cardinality(K)
  BY DEF SendAndQueue
<1>3. live => /\ wire' = wire \cup {sent(x) : x \in K}
              /\ nextSeq' = [nextSeq EXCEPT ![s] = nextSeq[s] + Cardinality(K)]
  BY DEF SendAndQueue
<1>4. ~live => wire' = wire /\ nextSeq' = nextSeq
  BY DEF SendAndQueue
<1>5. CASE r \notin roster
  <2>1. K = {} /\ Cardinality(K) = 0 BY <1>5, OneNick
  <2>2. {new(x) : x \in K} = {} /\ {sent(x) : x \in K} = {} BY <2>1
  <2>3. nextSeq[s] + Cardinality(K) = nextSeq[s] BY <1>1, <2>1
  <2>4. wire' = wire /\ nextSeq' = nextSeq
    <3>1. CASE live BY <1>1, <1>3, <2>2, <2>3, <3>1
    <3>2. CASE ~live BY <1>4, <3>2
    <3> QED BY <3>1, <3>2
  <2>5. queue' = queue \ old /\ nextId' = nextId BY <1>1, <1>2, <2>1, <2>2
  <2> QED BY <1>5, <2>4, <2>5 DEF Outcome, Nothing
<1>6. CASE r \in roster
  <2>1. K = {r} /\ Cardinality(K) = 1 /\ Place(r, K) = 0 BY <1>6, OneNick
  <2>2. {new(x) : x \in K} = {new(r)} /\ {sent(x) : x \in K} = {sent(r)}
    BY <2>1
  <2>3. CASE live
    <3>1. q(r) = nextSeq[s] /\ nextId + Place(r, K) = nextId
      BY <1>1, <2>1, <2>3
    <3>2. new(r) = NewEntry(s, m, r, nextSeq[s]) /\ sent(r) = NewSent(s, m, r)
      BY <3>1 DEF NewEntry, NewSent
    <3>3. queue' = (queue \ old) \cup {NewEntry(s, m, r, nextSeq[s])}
          /\ nextId' = nextId + 1
      BY <1>2, <2>1, <2>2, <3>2
    <3>4. wire' = wire \cup {NewSent(s, m, r)}
          /\ nextSeq' = [nextSeq EXCEPT ![s] = nextSeq[s] + 1]
      BY <1>3, <2>1, <2>2, <2>3, <3>2
    <3> QED BY <1>6, <2>3, <3>3, <3>4 DEF Outcome, SentQueued, OnWire
  <2>4. CASE ~live
    <3>1. q(r) = NoSeq /\ nextId + Place(r, K) = nextId BY <1>1, <2>1, <2>4
    <3>2. new(r) = NewEntry(s, m, r, NoSeq) BY <3>1 DEF NewEntry
    <3>3. queue' = (queue \ old) \cup {NewEntry(s, m, r, NoSeq)}
          /\ nextId' = nextId + 1
      BY <1>2, <2>1, <2>2, <3>2
    <3> QED BY <1>4, <1>6, <2>4, <3>3 DEF Outcome, Queued
  <2> QED BY <2>3, <2>4
<1> QED BY <1>5, <1>6

\* The outcomes of /msg for the other plugins.
LEMMA SendOrQueueOne ==
  ASSUME TypeInv, NEW s \in Sessions, s \notin Acking, NEW m \in Nat,
         NEW r \in Rcpts, NEW old \in SUBSET queue,
         SendOrQueue(s, m, {r}, old)
  PROVE  Outcome(s, m, r, old)
<1> DEFINE K == {r} \cap roster
           new == NewEntry(s, m, r, NoSeq)
           sent(x) == [session |-> s, msg |-> m, rcpt |-> x,
                       seq |-> nextSeq[s], acked |-> FALSE]
<1>1. /\ nextSeq[s] \in Nat /\ nextId \in Nat
      /\ nextSeq = [nextSeq EXCEPT ![s] = nextSeq[s]]
  BY DEF TypeInv, TypeOK
<1>2. conn[s] = "on" =>
        /\ queue' = queue \ old /\ nextId' = nextId
        /\ wire' = wire \cup {sent(x) : x \in K}
        /\ nextSeq' = [nextSeq EXCEPT ![s] = nextSeq[s] + Cardinality(K)]
  BY DEF SendOrQueue
<1>3. conn[s] # "on" =>
        /\ queue' = (queue \ old) \cup {new : x \in K}
        /\ nextId' = nextId + Cardinality(K)
        /\ wire' = wire /\ nextSeq' = nextSeq
  BY DEF SendOrQueue, NewEntry
<1>4. CASE r \notin roster
  <2>1. K = {} /\ Cardinality(K) = 0 BY <1>4, OneNick
  <2>2. {new : x \in K} = {} /\ {sent(x) : x \in K} = {} BY <2>1
  <2>3. nextSeq[s] + Cardinality(K) = nextSeq[s]
        /\ nextId + Cardinality(K) = nextId
    BY <1>1, <2>1
  <2>4. queue' = queue \ old /\ nextId' = nextId /\ wire' = wire
        /\ nextSeq' = nextSeq
    <3>1. CASE conn[s] = "on" BY <1>1, <1>2, <2>2, <2>3, <3>1
    <3>2. CASE conn[s] # "on" BY <1>3, <2>2, <2>3, <3>2
    <3> QED BY <3>1, <3>2
  <2> QED BY <1>4, <2>4 DEF Outcome, Nothing
<1>5. CASE r \in roster
  <2>1. K = {r} /\ Cardinality(K) = 1 BY <1>5, OneNick
  <2>2. {new : x \in K} = {new} /\ {sent(x) : x \in K} = {NewSent(s, m, r)}
    BY <2>1 DEF NewSent
  <2>3. CASE conn[s] = "on"
    BY <1>2, <1>5, <2>1, <2>2, <2>3 DEF Outcome, SentOnly, OnWire
  <2>4. CASE conn[s] # "on"
    BY <1>3, <1>5, <2>1, <2>2, <2>4 DEF Outcome, Queued
  <2> QED BY <2>3, <2>4
<1> QED BY <1>4, <1>5

-----------------------------------------------------------------------------
(***************************************************************************)
(* A run of /msg for one nick, by the user or by the flush, keeps all but  *)
(* what is owed: m is a message that is neither queued any more nor on     *)
(* the wire of s, and `at' is how far the flush has come by then.          *)
(***************************************************************************)
LEMMA OneSend ==
  ASSUME TypeInv, SInv, running, NEW s \in Sessions, NEW m \in Nat,
         NEW r \in Rcpts, NEW old \in SUBSET queue, Outcome(s, m, r, old),
         \A e \in queue \ old : e.msg # m,
         \A w \in wire : ~(w.session = s /\ w.msg = m),
         UNCHANGED <<disk, conn, flushing, running>>,
         nextMsg' \in Nat, m < nextMsg', nextMsg <= nextMsg',
         flushing # None =>
           /\ s = flushing
           /\ \A e \in queue \ old :
                e.session = flushing /\ e.mark => e.id > cursor'
  PROVE  /\ Shape' /\ Distinct' /\ Ids' /\ WireInv' /\ FlushInv' /\ LiveInv'
         /\ SentOncePerConnection'
<1>1. /\ queue \subseteq Entry /\ wire \subseteq Sent /\ nextId \in Nat
      /\ nextMsg \in Nat /\ NoSeq = 0
      /\ nextSeq \in [Sessions -> Nat]
      /\ \A t \in Sessions : nextSeq[t] > 0
  BY DEF TypeInv, TypeOK, NoSeq
<1>2. /\ \A e \in queue : /\ e.id \in Nat /\ e.msg \in Nat /\ e.seq \in Nat
                          /\ e.session \in Sessions
      /\ \A w \in wire : /\ w.session \in Sessions /\ w.msg \in Nat
                         /\ w.seq \in Nat
  BY <1>1 DEF Entry, Sent
<1>3. /\ Shape /\ Distinct /\ Ids /\ WireInv /\ FlushInv /\ LiveInv
      /\ SentOncePerConnection /\ disk = {}
  BY DEF SInv, Distinct
<1>4. PICK q \in Nat :
        /\ \/ queue' = queue \ old
           \/ /\ queue' = (queue \ old) \cup {NewEntry(s, m, r, q)}
              /\ nextId' = nextId + 1
        /\ q # NoSeq => /\ s \in Acking /\ q = nextSeq[s]
                        /\ wire' = wire \cup {NewSent(s, m, r)}
        /\ nextId' \in {nextId, nextId + 1}
  <2>1. NoSeq \in Nat /\ nextSeq[s] \in Nat BY <1>1
  <2>2. CASE Nothing(r, old) BY <2>1, <2>2 DEF Nothing
  <2>3. CASE Queued(s, m, r, old) BY <2>1, <2>3 DEF Queued
  <2>4. CASE SentQueued(s, m, r, old) BY <2>1, <2>4 DEF SentQueued, OnWire
  <2>5. CASE SentOnly(s, m, r, old) BY <2>1, <2>5 DEF SentOnly
  <2> QED BY <2>2, <2>3, <2>4, <2>5 DEF Outcome
<1>5. \/ wire' = wire /\ nextSeq' = nextSeq
      \/ /\ conn[s] = "on"
         /\ wire' = wire \cup {NewSent(s, m, r)}
         /\ nextSeq' = [nextSeq EXCEPT ![s] = nextSeq[s] + 1]
  BY DEF Outcome, Nothing, Queued, SentQueued, SentOnly, OnWire
<1> DEFINE new == NewEntry(s, m, r, q)
           sent == NewSent(s, m, r)
<1>6. /\ new.id = nextId /\ new.msg = m /\ new.session = s
      /\ new.rcpts = {r} /\ new.seq = q /\ new.mark = FALSE
      /\ sent.session = s /\ sent.msg = m /\ sent.rcpt = r
      /\ sent.seq = nextSeq[s] /\ sent.acked = FALSE
  BY DEF NewEntry, NewSent
<1>7. \A e \in queue' : e \in queue \ old \/ (e = new /\ nextId' = nextId + 1)
  BY <1>4
<1>8. \A w \in wire' : w \in wire \/ (w = sent /\ conn[s] = "on")
  <2>1. CASE wire' = wire BY <2>1
  <2>2. CASE conn[s] = "on" /\ wire' = wire \cup {sent}
    <3> HIDE DEF sent
    <3> QED BY <2>2
  <2> QED BY <1>5, <2>1, <2>2
<1>9. wire \subseteq wire' BY <1>5
<1> HIDE DEF new, sent
<1>10. Shape'
  <2> SUFFICES ASSUME NEW e \in (queue \cup disk)'
      PROVE /\ \E x \in Rcpts : e.rcpts = {x}
            /\ e.seq # NoSeq => e.session \in Acking
            /\ e.msg < nextMsg'
    BY DEF Shape, NoSeq
  <2>1. e \in queue' BY <1>3
  <2>2. CASE e \in queue BY <1>1, <1>2, <1>3, <2>2 DEF Shape
  <2>3. CASE e = new BY <1>4, <1>6, <2>3
  <2> QED BY <1>7, <2>1, <2>2, <2>3
<1>11. Distinct'
  <2>1. \A e, f \in queue' : e.msg = f.msg => e = f
    BY <1>3, <1>6, <1>7 DEF Distinct
  <2> QED BY <1>3, <2>1 DEF Distinct
<1>12. Ids'
  <2>1. nextId' > 0 /\ \A e \in queue' : e.id > 0 /\ e.id < nextId'
    BY <1>1, <1>2, <1>3, <1>4, <1>6, <1>7 DEF Ids
  <2>2. \A e, f \in queue' : e.id = f.id => e = f
    BY <1>1, <1>2, <1>3, <1>6, <1>7 DEF Ids
  <2> QED BY <2>1, <2>2 DEF Ids
<1>13. WireInv'
  <2>1. \A t \in Sessions : nextSeq'[t] \in Nat /\ nextSeq[t] \in Nat
                            /\ nextSeq'[t] >= nextSeq[t]
    BY <1>1, <1>5
  <2>2. sent \in wire' /\ sent \notin wire => nextSeq'[s] = nextSeq[s] + 1
    BY <1>1, <1>5
  <2>3. ASSUME NEW w \in wire'
        PROVE  /\ conn'[w.session] = "on" /\ w.msg < nextMsg'
               /\ w.seq < nextSeq'[w.session] /\ w.seq > NoSeq
    <3>1. CASE w \in wire
      BY <1>1, <1>2, <1>3, <2>1, <3>1 DEF WireInv
    <3>2. CASE w = sent /\ w \notin wire /\ conn[s] = "on"
      BY <1>1, <1>6, <2>1, <2>2, <3>2
    <3> QED BY <1>8, <2>3, <3>1, <3>2
  <2>4. ASSUME NEW v \in wire', NEW w \in wire',
               v.session = w.session, v.seq = w.seq
        PROVE  v = w
    <3>1. \A x \in wire : x.session = s => x.seq < nextSeq[s]
      BY <1>3 DEF WireInv
    <3>2. \A x \in wire : ~(x.session = s /\ x.seq = nextSeq[s])
      BY <1>1, <1>2, <3>1
    <3> QED BY <1>3, <1>6, <1>8, <2>4, <3>2 DEF WireInv
  <2>5. NoSeq' = NoSeq BY DEF NoSeq
  <2> QED BY <2>3, <2>4, <2>5 DEF WireInv
<1>14. FlushInv'
  <2> SUFFICES ASSUME flushing # None
      PROVE  /\ conn[flushing] = "on"
             /\ \A e \in queue' : e.session = flushing /\ e.mark =>
                  /\ e.id > cursor'
                  /\ \A w \in wire' : ~(w.session = flushing /\ w.msg = e.msg)
    BY DEF FlushInv
  <2>1. conn[flushing] = "on" BY <1>3 DEF FlushInv
  <2>2. ASSUME NEW e \in queue', e.session = flushing, e.mark
        PROVE  /\ e.id > cursor'
               /\ \A w \in wire' : ~(w.session = flushing /\ w.msg = e.msg)
    <3>1. e \in queue \ old BY <1>6, <1>7, <2>2
    <3>2. e.id > cursor' BY <2>2, <3>1
    <3>3. \A w \in wire : ~(w.session = flushing /\ w.msg = e.msg)
      BY <1>3, <2>2, <3>1 DEF FlushInv
    <3>4. e.msg # m BY <3>1
    <3> QED BY <1>6, <1>8, <3>2, <3>3, <3>4
  <2> QED BY <2>1, <2>2
<1>15. LiveInv'
  <2> SUFFICES ASSUME NEW e \in queue', conn[e.session] = "on", e.seq # NoSeq,
                      e.session # flushing \/ ~e.mark
               PROVE  \E w \in wire' :
                        /\ w.session = e.session /\ w.seq = e.seq
                        /\ w.msg = e.msg /\ w.rcpt \in e.rcpts /\ ~w.acked
    BY DEF LiveInv, Live, NoSeq
  <2>1. CASE e \in queue BY <1>3, <1>9, <2>1 DEF LiveInv, Live
  <2>2. CASE e = new
    <3>1. q # NoSeq BY <1>6, <2>2
    <3>2. sent \in wire' /\ q = nextSeq[s] BY <1>4, <3>1 DEF sent
    <3> QED BY <1>6, <2>2, <3>2
  <2> QED BY <1>7, <2>1, <2>2
<1>16. SentOncePerConnection'
  BY <1>3, <1>6, <1>8 DEF SentOncePerConnection
<1> QED BY <1>10, <1>11, <1>12, <1>13, <1>14, <1>15, <1>16

-----------------------------------------------------------------------------
\* The invariant holds initially.
LEMMA InitSInv == Init => SInv
BY DEF Init, SInv, Shape, Distinct, Ids, WireInv, FlushInv, LiveInv,
       SentOncePerConnection, NothingForgotten

(***************************************************************************)
(* Steps that leave the entries and the wire alone, and connect nobody.    *)
(***************************************************************************)
LEMMA SameEntries ==
  ASSUME TypeInv, SInv, UNCHANGED <<queue, disk, wire, nextSeq, nextId>>,
         running, running', flushing' = None, NEW s \in Sessions,
         \/ conn' = conn
         \/ conn' = [conn EXCEPT ![s] = "off"] /\ conn[s] # "on",
         nextMsg' = nextMsg, owed' \subseteq owed,
         flushing = None \/ Ahead = {}
  PROVE  SInv'
<1>1. /\ Shape /\ Distinct /\ Ids /\ WireInv /\ FlushInv /\ LiveInv
      /\ SentOncePerConnection /\ NothingForgotten
  BY DEF SInv
<1>2. \A t \in Sessions : conn'[t] = "on" <=> conn[t] = "on"
  BY DEF TypeInv, TypeOK
<1>3. /\ \A e \in queue : e.session \in Sessions /\ e.id \in Nat
      /\ \A w \in wire : w.session \in Sessions
      /\ cursor \in Nat
  BY DEF TypeInv, TypeOK, Entry, Sent
<1>4. Shape' BY <1>1 DEF Shape, NoSeq
<1>5. Distinct' BY <1>1 DEF Distinct
<1>6. Ids' BY <1>1 DEF Ids
<1>7. WireInv' BY <1>1, <1>2, <1>3 DEF WireInv, NoSeq
<1>8. FlushInv' BY DEF FlushInv
<1>9. ASSUME NEW e \in queue, flushing # None, Ahead = {}, e.session = flushing
      PROVE  ~e.mark
  <2>1. ~(e.id > cursor) BY <1>9 DEF Ahead
  <2> QED BY <1>1, <1>9, <2>1 DEF FlushInv
<1>10. LiveInv'
  BY <1>1, <1>2, <1>3, <1>9 DEF LiveInv, Live, NoSeq
<1>11. SentOncePerConnection' BY <1>1 DEF SentOncePerConnection
<1>12. NothingForgotten' BY <1>1 DEF NothingForgotten, Covers
<1> QED BY <1>4, <1>5, <1>6, <1>7, <1>8, <1>10, <1>11, <1>12 DEF SInv

\* Steps that only take entries away, outside a flush.
LEMMA FewerAreFine ==
  ASSUME TypeInv, SInv, flushing = None, running, running', flushing' = None,
         queue' \in SUBSET queue,
         UNCHANGED <<disk, conn, wire, nextSeq, nextId, nextMsg>>,
         NothingForgotten'
  PROVE  SInv'
<1>1. /\ Shape /\ Distinct /\ Ids /\ WireInv /\ LiveInv
      /\ SentOncePerConnection
  BY DEF SInv
<1>2. Shape' BY <1>1 DEF Shape, NoSeq
<1>3. Distinct' BY <1>1 DEF Distinct
<1>4. Ids' BY <1>1 DEF Ids
<1>5. WireInv' BY <1>1 DEF WireInv, NoSeq
<1>6. FlushInv' BY DEF FlushInv
<1>7. LiveInv' BY <1>1 DEF LiveInv, Live, NoSeq
<1>8. SentOncePerConnection' BY <1>1 DEF SentOncePerConnection
<1> QED BY <1>2, <1>3, <1>4, <1>5, <1>6, <1>7, <1>8 DEF SInv

\* The connection of s goes: its messages leave the wire.
LEMMA HangupIsFine ==
  ASSUME TypeInv, SInv, NEW s \in Sessions, Disconnected(s) \/ SessionRemove(s)
  PROVE  SInv'
<1>1. /\ Shape /\ Distinct /\ Ids /\ WireInv /\ FlushInv /\ LiveInv
      /\ SentOncePerConnection /\ NothingForgotten
  BY DEF SInv
<1>2. /\ flushing = None /\ running /\ conn'[s] # "on"
      /\ \A t \in Sessions \ {s} : conn'[t] = conn[t]
      /\ wire' = {w \in wire : w.session # s}
      /\ UNCHANGED <<queue, disk, nextSeq, flushing, running, nextId, nextMsg,
                     owed>>
  BY DEF Disconnected, SessionRemove, Hangup, Idle, TypeInv, TypeOK
<1>3. /\ \A e \in queue : e.session \in Sessions
      /\ \A w \in wire : w.session \in Sessions
  BY DEF TypeInv, TypeOK, Entry, Sent
<1>4. Shape' BY <1>1, <1>2 DEF Shape, NoSeq
<1>5. Distinct' BY <1>1, <1>2 DEF Distinct
<1>6. Ids' BY <1>1, <1>2 DEF Ids
<1>7. WireInv' BY <1>1, <1>2, <1>3 DEF WireInv, NoSeq
<1>8. FlushInv' BY <1>2 DEF FlushInv
<1>9. LiveInv' BY <1>1, <1>2, <1>3 DEF LiveInv, Live, NoSeq
<1>10. SentOncePerConnection' BY <1>1, <1>2 DEF SentOncePerConnection
<1>11. NothingForgotten' BY <1>1, <1>2 DEF NothingForgotten, Covers
<1> QED BY <1>4, <1>5, <1>6, <1>7, <1>8, <1>9, <1>10, <1>11 DEF SInv

-----------------------------------------------------------------------------
\* The user's /msg.
LEMMA SubmitSInv ==
  ASSUME OneAcking, SingleTargets, TypeInv, SInv,
         NEW s \in Sessions, NEW T \in Targets, NEW ok \in BOOLEAN,
         Submit(s, T, ok)
  PROVE  SInv'
<1>1. /\ Shape /\ Distinct /\ WireInv /\ NothingForgotten
      /\ flushing = None /\ running /\ nextMsg \in Nat
      /\ nextMsg' = nextMsg + 1
      /\ UNCHANGED <<disk, conn, flushing, running, cursor>>
  BY DEF SInv, Submit, Idle, TypeInv, TypeOK
<1>2. PICK r \in Rcpts : T = {r} BY DEF SingleTargets
<1>3. Outcome(s, nextMsg, r, {}) /\ r \in roster
  <2>1. {} \in SUBSET queue OBVIOUS
  <2>2. r \in roster BY <1>2 DEF Submit
  <2>3. CASE s \in Acking
    BY <1>1, <1>2, <2>1, <2>3, SendAndQueueOne DEF Submit
  <2>4. CASE s \notin Acking
    BY <1>1, <1>2, <2>1, <2>4, SendOrQueueOne DEF Submit
  <2> QED BY <2>2, <2>3, <2>4
<1>4. /\ \A e \in queue : e.msg # nextMsg /\ e.msg \in Nat
      /\ \A w \in wire : w.msg # nextMsg /\ w.msg \in Nat
  BY <1>1 DEF Shape, WireInv, TypeInv, TypeOK, Entry, Sent
<1>5. /\ Shape' /\ Distinct' /\ Ids' /\ WireInv' /\ FlushInv' /\ LiveInv'
      /\ SentOncePerConnection'
  <2>1. queue \ {} = queue /\ {} \in SUBSET queue OBVIOUS
  <2>2. nextMsg' \in Nat /\ nextMsg < nextMsg' /\ nextMsg <= nextMsg' BY <1>1
  <2> QED BY <1>1, <1>3, <1>4, <2>1, <2>2, OneSend
<1>6. NothingForgotten'
  <2>1. queue \subseteq queue'
    BY <1>3 DEF Outcome, Nothing, Queued, SentQueued, SentOnly
  <2>2. CASE s \notin Acking /\ conn[s] = "on"
    BY <1>1, <2>1, <2>2 DEF Submit, NothingForgotten, Covers
  <2>3. CASE s \in Acking \/ conn[s] # "on"
    <3>1. owed' = owed \cup [msg : {nextMsg}, rcpt : {r}]
      <4>1. T \cap roster = {r} BY <1>2, <1>3
      <4> QED BY <2>3, <4>1 DEF Submit
    <3>2. \E e \in queue' : e.msg = nextMsg /\ e.rcpts = {r}
      <4>1. ~Nothing(r, {}) BY <1>3 DEF Nothing
      <4>2. ~SentOnly(s, nextMsg, r, {})
        BY <2>3 DEF SentOnly, OnWire
      <4>3. CASE Queued(s, nextMsg, r, {})
        <5>1. NewEntry(s, nextMsg, r, NoSeq) \in queue' BY <4>3 DEF Queued
        <5> QED BY <5>1 DEF NewEntry
      <4>4. CASE SentQueued(s, nextMsg, r, {})
        <5>1. NewEntry(s, nextMsg, r, nextSeq[s]) \in queue'
          BY <4>4 DEF SentQueued
        <5> QED BY <5>1 DEF NewEntry
      <4> QED BY <1>3, <4>1, <4>2, <4>3, <4>4 DEF Outcome
    <3>3. ASSUME NEW p \in owed' PROVE \E e \in (queue \cup disk)' : Covers(e, p)
      <4>1. CASE p \in owed
        BY <1>1, <2>1, <4>1 DEF NothingForgotten, Covers
      <4>2. CASE p \in [msg : {nextMsg}, rcpt : {r}]
        <5>1. p.msg = nextMsg /\ p.rcpt = r BY <4>2
        <5> QED BY <3>2, <5>1 DEF Covers
      <4> QED BY <3>1, <4>1, <4>2
    <3> QED BY <3>3 DEF NothingForgotten, Covers
  <2> QED BY <2>2, <2>3
<1> QED BY <1>5, <1>6 DEF SInv

\* The connection is there: every entry is marked, the flush may start.
LEMMA ConnectedSInv ==
  ASSUME TypeInv, SInv, NEW s \in Sessions, Connected(s)
  PROVE  SInv'
<1>1. /\ Shape /\ Distinct /\ Ids /\ WireInv /\ LiveInv
      /\ SentOncePerConnection /\ NothingForgotten
      /\ flushing = None /\ running /\ conn[s] = "off"
  BY DEF SInv, Connected, Idle
<1> DEFINE M == [e \in queue |-> [e EXCEPT !.mark = TRUE]]
<1>2. /\ queue' = {M[e] : e \in queue} /\ cursor' = 0
      /\ flushing' = IF queue = {} THEN None ELSE s
      /\ conn' = [conn EXCEPT ![s] = "on"]
      /\ nextSeq' = [nextSeq EXCEPT ![s] = 1]
      /\ UNCHANGED <<disk, wire, running, nextId, nextMsg, owed>>
  BY DEF Connected
<1>3. /\ \A e \in queue : /\ e.session \in Sessions /\ e.id \in Nat /\ e.id > 0
                          /\ M[e].id = e.id /\ M[e].msg = e.msg
                          /\ M[e].session = e.session /\ M[e].rcpts = e.rcpts
                          /\ M[e].seq = e.seq /\ M[e].mark
      /\ \A w \in wire : w.session \in Sessions /\ w.session # s
  <2>1. \A e \in queue : M[e] = [e EXCEPT !.mark = TRUE] OBVIOUS
  <2> HIDE DEF M
  <2>2. queue \subseteq Entry /\ wire \subseteq Sent
        /\ \A e \in queue : e.id > 0
    BY <1>1 DEF TypeInv, TypeOK, Ids
  <2> QED BY <1>1, <2>1, <2>2 DEF Entry, Sent, WireInv
<1>4. /\ conn'[s] = "on" /\ s # None
      /\ \A t \in Sessions \ {s} : conn'[t] = conn[t] /\ nextSeq'[t] = nextSeq[t]
  BY <1>2, SessionsAssumption DEF TypeInv, TypeOK
<1>5. \A e \in queue' : \E f \in queue : e = M[f] BY <1>2
<1>6. \A f \in queue : M[f] \in queue' BY <1>2
<1> HIDE DEF M
<1>7. Shape' BY <1>1, <1>2, <1>3, <1>5 DEF Shape, NoSeq
<1>8. Distinct'
  <2>1. \A e, f \in queue' : e.msg = f.msg => e = f
    BY <1>1, <1>3, <1>5 DEF Distinct
  <2> QED BY <1>1, <1>2, <2>1 DEF Distinct
<1>9. Ids' BY <1>1, <1>2, <1>3, <1>5 DEF Ids
<1>10. WireInv' BY <1>1, <1>2, <1>3, <1>4 DEF WireInv, NoSeq
<1>11. FlushInv'
  <2>2. CASE flushing' = None BY <2>2 DEF FlushInv
  <2>3. CASE flushing' = s
    <3>1. \A e \in queue' : e.id > cursor' BY <1>2, <1>3, <1>5
    <3> QED BY <1>2, <1>3, <1>4, <2>3, <3>1 DEF FlushInv
  <2> QED BY <1>2, <2>2, <2>3
<1>12. LiveInv'
  <2> SUFFICES ASSUME NEW e \in queue', conn'[e.session] = "on", e.seq # NoSeq,
                      e.session # flushing' \/ ~e.mark
               PROVE  Live(e)'
    BY DEF LiveInv, NoSeq
  <2>1. PICK f \in queue : e = M[f] BY <1>5
  <2>2. queue # {} BY <2>1
  <2>3. flushing' = s /\ e.mark BY <1>2, <1>3, <2>1, <2>2
  <2>4. f.session # s /\ conn[f.session] = "on" /\ f.seq # NoSeq
    BY <1>3, <1>4, <2>1, <2>3
  <2>5. f.session # flushing BY <1>1, <1>3, SessionsAssumption
  <2>6. Live(f) BY <1>1, <2>4, <2>5 DEF LiveInv
  <2> QED BY <1>2, <1>3, <2>1, <2>6 DEF Live
<1>13. SentOncePerConnection' BY <1>1, <1>2 DEF SentOncePerConnection
<1>14. NothingForgotten'
  BY <1>1, <1>2, <1>3, <1>6 DEF NothingForgotten, Covers
<1> QED BY <1>7, <1>8, <1>9, <1>10, <1>11, <1>12, <1>13, <1>14 DEF SInv

\* The loop passes over an entry that is not its own.
LEMMA FlushSkipSInv ==
  ASSUME TypeInv, SInv, NEW e \in queue, FlushSkip(e)
  PROVE  SInv'
<1>1. /\ Shape /\ Distinct /\ Ids /\ WireInv /\ FlushInv /\ LiveInv
      /\ SentOncePerConnection /\ NothingForgotten
  BY DEF SInv
<1>2. cursor' = e.id
      /\ UNCHANGED <<queue, disk, conn, wire, nextSeq, flushing, running,
                     nextId, nextMsg, owed>>
  BY DEF FlushSkip
<1>3. FlushInv'
  <2> SUFFICES ASSUME flushing # None, NEW f \in queue,
                      f.session = flushing, f.mark
               PROVE  f.id > e.id
    BY <1>1, <1>2 DEF FlushInv
  <2>1. f.id > cursor BY <1>1 DEF FlushInv
  <2>2. e.id <= f.id BY <2>1 DEF FlushSkip, IsNext, Ahead
  <2>3. f # e BY DEF FlushSkip, Skipped
  <2>4. f.id # e.id BY <1>1, <2>3 DEF Ids
  <2>5. f.id \in Nat /\ e.id \in Nat BY DEF TypeInv, TypeOK, Entry
  <2> QED BY <2>2, <2>4, <2>5
<1> QED BY <1>1, <1>2, <1>3
  DEF SInv, Shape, Distinct, Ids, WireInv, LiveInv, Live, NoSeq,
      SentOncePerConnection, NothingForgotten, Covers

\* The loop sends an entry and removes it.
LEMMA FlushSendSInv ==
  ASSUME OneAcking, SingleTargets, TypeInv, SInv,
         NEW e \in queue, NEW ok \in BOOLEAN, FlushSend(e, ok)
  PROVE  SInv'
<1>1. /\ Shape /\ Distinct /\ Ids /\ WireInv /\ FlushInv /\ NothingForgotten
      /\ flushing # None /\ e.mark /\ e.session = flushing /\ IsNext(e)
      /\ cursor' = e.id /\ nextMsg' = nextMsg
      /\ UNCHANGED <<disk, conn, flushing, running>>
  BY DEF SInv, FlushSend, Skipped
<1>2. running BY <1>1 DEF Distinct
<1>3. e.session \in Sessions /\ e.msg \in Nat /\ e.id \in Nat
      /\ nextMsg \in Nat /\ e.msg < nextMsg
  BY <1>1 DEF TypeInv, TypeOK, Entry, Shape
<1>4. PICK r \in Rcpts : e.rcpts = {r} BY <1>1 DEF Shape
<1>5. Outcome(e.session, e.msg, r, {e})
  <2>1. {e} \in SUBSET queue OBVIOUS
  <2>2. CASE e.session \in Acking
    BY <1>3, <1>4, <2>1, <2>2, SendAndQueueOne DEF FlushSend
  <2>3. CASE e.session \notin Acking
    BY <1>3, <1>4, <2>1, <2>3, SendOrQueueOne DEF FlushSend
  <2> QED BY <2>2, <2>3
<1>6. conn[e.session] = "on"
      /\ \A w \in wire : ~(w.session = e.session /\ w.msg = e.msg)
  BY <1>1 DEF FlushInv
<1>7. \A f \in queue \ {e} :
        f.msg # e.msg
        /\ (f.session = flushing /\ f.mark => f.id > cursor')
  <2> SUFFICES ASSUME NEW f \in queue \ {e}
               PROVE  /\ f.msg # e.msg
                      /\ f.session = flushing /\ f.mark => f.id > e.id
    BY <1>1
  <2>1. f.msg # e.msg BY <1>1 DEF Distinct
  <2>2. ASSUME f.session = flushing, f.mark PROVE f.id > e.id
    <3>1. f.id > cursor BY <1>1, <2>2 DEF FlushInv
    <3>2. e.id <= f.id BY <1>1, <3>1 DEF IsNext, Ahead
    <3>3. f.id # e.id BY <1>1 DEF Ids
    <3>4. f.id \in Nat BY DEF TypeInv, TypeOK, Entry
    <3> QED BY <1>3, <3>2, <3>3, <3>4
  <2> QED BY <2>1, <2>2
<1>8. /\ Shape' /\ Distinct' /\ Ids' /\ WireInv' /\ FlushInv' /\ LiveInv'
      /\ SentOncePerConnection'
  <2>1. {e} \in SUBSET queue OBVIOUS
  <2>2. nextMsg' \in Nat /\ e.msg < nextMsg' /\ nextMsg <= nextMsg'
    BY <1>1, <1>3
  <2> QED BY <1>1, <1>2, <1>3, <1>5, <1>6, <1>7, <2>1, <2>2, OneSend
<1>9. NothingForgotten'
  <2> SUFFICES ASSUME NEW p \in owed'
               PROVE  \E f \in (queue \cup disk)' : Covers(f, p)
    BY DEF NothingForgotten, Covers
  <2>1. p \in owed BY DEF FlushSend
  <2>2. PICK f \in queue \cup disk : Covers(f, p)
    BY <1>1, <2>1 DEF NothingForgotten
  <2>3. disk = {} BY <1>1, <1>2 DEF Distinct
  <2>4. queue \ {e} \subseteq queue'
    BY <1>5 DEF Outcome, Nothing, Queued, SentQueued, SentOnly
  <2>5. CASE f # e BY <2>2, <2>3, <2>4, <2>5 DEF Covers
  <2>6. CASE f = e
    <3>1. p.msg = e.msg /\ p.rcpt = r BY <1>4, <2>2, <2>6 DEF Covers
    <3>2. e.session \in Acking /\ r \in roster BY <3>1 DEF FlushSend
    <3>3. ~Nothing(r, {e}) /\ ~SentOnly(e.session, e.msg, r, {e})
      BY <3>2 DEF Nothing, SentOnly
    <3>4. CASE Queued(e.session, e.msg, r, {e})
      <4>1. NewEntry(e.session, e.msg, r, NoSeq) \in queue'
        BY <3>4 DEF Queued
      <4>2. Covers(NewEntry(e.session, e.msg, r, NoSeq), p)
        BY <3>1 DEF Covers, NewEntry
      <4> QED BY <4>1, <4>2 DEF Covers
    <3>5. CASE SentQueued(e.session, e.msg, r, {e})
      <4>1. NewEntry(e.session, e.msg, r, nextSeq[e.session]) \in queue'
        BY <3>5 DEF SentQueued
      <4>2. Covers(NewEntry(e.session, e.msg, r, nextSeq[e.session]), p)
        BY <3>1 DEF Covers, NewEntry
      <4> QED BY <4>1, <4>2 DEF Covers
    <3> QED BY <1>5, <3>3, <3>4, <3>5 DEF Outcome
  <2> QED BY <2>5, <2>6
<1> QED BY <1>8, <1>9 DEF SInv

(***************************************************************************)
(* An ack.  With one acking account the entries it removes all stand for   *)
(* the very pair it settles.                                               *)
(***************************************************************************)
LEMMA AckSInv ==
  ASSUME OneAcking, TypeInv, SInv, NEW w \in wire, Ack(w)
  PROVE  SInv'
<1>1. /\ Shape /\ Distinct /\ Ids /\ WireInv /\ LiveInv
      /\ SentOncePerConnection /\ NothingForgotten
      /\ flushing = None /\ running /\ w.session \in Acking
  BY DEF SInv, Ack, Idle
<1> DEFINE a == [w EXCEPT !.acked = TRUE]
<1>2. /\ wire' = (wire \ {w}) \cup {a}
      /\ queue' = {e \in queue : e.seq # w.seq}
      /\ owed' = owed \ {[msg |-> w.msg, rcpt |-> w.rcpt]}
      /\ UNCHANGED <<disk, conn, nextSeq, flushing, cursor, running, nextId,
                     nextMsg>>
  BY DEF Ack, AckRemoves
<1>3. /\ a.session = w.session /\ a.seq = w.seq /\ a.msg = w.msg
      /\ a.rcpt = w.rcpt /\ w.seq # NoSeq
      /\ w.session \in Sessions /\ w.seq \in Nat
  BY <1>1 DEF TypeInv, TypeOK, Sent, WireInv, NoSeq
<1> HIDE DEF a
<1>4. Shape' BY <1>1, <1>2 DEF Shape, NoSeq
<1>5. Distinct' BY <1>1, <1>2 DEF Distinct
<1>6. Ids' BY <1>1, <1>2 DEF Ids
<1>7. WireInv' BY <1>1, <1>2, <1>3 DEF WireInv, NoSeq
<1>8. FlushInv' BY <1>1, <1>2 DEF FlushInv
<1>9. LiveInv'
  <2> SUFFICES ASSUME NEW e \in queue, e.seq # w.seq, conn[e.session] = "on",
                      e.seq # NoSeq, e.session # flushing \/ ~e.mark
               PROVE  Live(e)'
    BY <1>2 DEF LiveInv, NoSeq
  <2>1. Live(e) BY <1>1 DEF LiveInv
  <2> QED BY <1>2, <2>1 DEF Live
<1>10. SentOncePerConnection'
  BY <1>1, <1>2, <1>3 DEF SentOncePerConnection
<1>11. ASSUME NEW e \in queue, e.seq = w.seq, NEW p \in owed, Covers(e, p)
       PROVE  p = [msg |-> w.msg, rcpt |-> w.rcpt]
  <2>1. e.seq # NoSeq /\ e.session = w.session
    BY <1>1, <1>3, <1>11 DEF Shape, OneAcking
  <2>2. conn[e.session] = "on" /\ e.session # flushing
    BY <1>1, <1>3, <2>1, SessionsAssumption DEF WireInv
  <2>3. PICK v \in wire : /\ v.session = e.session /\ v.seq = e.seq
                          /\ v.msg = e.msg /\ v.rcpt \in e.rcpts
    BY <1>1, <2>1, <2>2 DEF LiveInv, Live
  <2>4. v = w BY <1>1, <1>11, <2>1, <2>3 DEF WireInv
  <2>5. PICK r \in Rcpts : e.rcpts = {r} BY <1>1 DEF Shape
  <2>6. p.msg = w.msg /\ p.rcpt = w.rcpt
    BY <1>11, <2>3, <2>4, <2>5 DEF Covers
  <2>7. p \in Pair BY DEF TypeInv, TypeOK
  <2> QED BY <2>6, <2>7 DEF Pair
<1>12. NothingForgotten'
  <2> SUFFICES ASSUME NEW p \in owed, p # [msg |-> w.msg, rcpt |-> w.rcpt]
               PROVE  \E e \in (queue \cup disk)' : Covers(e, p)
    BY <1>2 DEF NothingForgotten, Covers
  <2>1. PICK e \in queue \cup disk : Covers(e, p)
    BY <1>1 DEF NothingForgotten
  <2>2. e \in queue /\ e.seq # w.seq BY <1>1, <1>11, <2>1 DEF Distinct
  <2> QED BY <1>2, <2>1, <2>2 DEF Covers
<1> QED BY <1>4, <1>5, <1>6, <1>7, <1>8, <1>9, <1>10, <1>12 DEF SInv

-----------------------------------------------------------------------------
\* ekg_exit(): the queue goes to the files.
LEMMA QuitSInv ==
  ASSUME TypeInv, SInv, Quit
  PROVE  SInv'
<1> DEFINE M == [e \in queue |-> [e EXCEPT !.mark = FALSE]]
<1>1. /\ Shape /\ Distinct /\ Ids /\ NothingForgotten
      /\ flushing = None /\ disk = {}
  BY DEF SInv, Quit, Idle, Distinct
<1>2. /\ disk' = disk \cup {M[e] : e \in queue}
      /\ queue' = {} /\ wire' = {} /\ running' = FALSE
      /\ \A s \in Sessions : conn'[s] # "on"
      /\ UNCHANGED <<flushing, nextId, nextMsg, owed>>
  BY DEF Quit
<1>3. \A e \in queue : /\ M[e].msg = e.msg /\ M[e].session = e.session
                       /\ M[e].rcpts = e.rcpts /\ M[e].seq = e.seq
  <2>1. \A e \in queue : M[e] = [e EXCEPT !.mark = FALSE] OBVIOUS
  <2> HIDE DEF M
  <2>2. queue \subseteq Entry BY DEF TypeInv, TypeOK
  <2> QED BY <2>1, <2>2 DEF Entry
<1>4. /\ \A e \in disk' : \E f \in queue : e = M[f]
      /\ \A f \in queue : M[f] \in disk'
  BY <1>1, <1>2
<1> HIDE DEF M
<1>5. Shape' BY <1>1, <1>2, <1>3, <1>4 DEF Shape, NoSeq
<1>6. Distinct'
  <2>1. \A e, f \in disk' : e.msg = f.msg => e = f
    BY <1>1, <1>3, <1>4 DEF Distinct
  <2> QED BY <1>1, <1>2, <2>1 DEF Distinct
<1>7. /\ Ids' /\ WireInv' /\ FlushInv' /\ LiveInv' /\ SentOncePerConnection'
  BY <1>1, <1>2
  DEF Ids, WireInv, FlushInv, LiveInv, SentOncePerConnection
<1>8. NothingForgotten'
  <2> SUFFICES ASSUME NEW p \in owed
               PROVE  \E e \in (queue \cup disk)' : Covers(e, p)
    BY <1>2 DEF NothingForgotten, Covers
  <2>1. PICK e \in queue : Covers(e, p) BY <1>1 DEF NothingForgotten
  <2>2. M[e] \in disk' /\ Covers(M[e], p)
    BY <1>3, <1>4, <2>1 DEF Covers
  <2> QED BY <2>2 DEF Covers
<1> QED BY <1>5, <1>6, <1>7, <1>8 DEF SInv

\* main(): the files go to the queue, in any order.
LEMMA StartSInv ==
  ASSUME TypeInv, SInv, Start
  PROVE  SInv'
<1>1. /\ Shape /\ Distinct /\ Ids /\ NothingForgotten
      /\ queue = {} /\ wire = {} /\ flushing = None
      /\ nextId \in Nat /\ Cardinality(disk) \in Nat
  BY FS_CardinalityType DEF SInv, Start, Distinct, TypeInv, TypeOK
<1>2. PICK g \in Listings :
        queue' = {[e EXCEPT !.id = nextId + g[e]] : e \in disk}
  BY DEF Start
<1> DEFINE M == [e \in disk |-> [e EXCEPT !.id = nextId + g[e]]]
<1>3. /\ queue' = {M[e] : e \in disk} /\ disk' = {} /\ running'
      /\ nextId' = nextId + Cardinality(disk)
      /\ UNCHANGED <<conn, wire, nextSeq, flushing, cursor, nextMsg, owed>>
  BY <1>2 DEF Start
<1>4. /\ \A e \in disk : g[e] \in Nat /\ g[e] <= Cardinality(disk) - 1
      /\ \A d, e \in disk : g[d] = g[e] => d = e
  BY <1>1 DEF Listings
<1>5. \A e \in disk : /\ M[e].msg = e.msg /\ M[e].session = e.session
                      /\ M[e].rcpts = e.rcpts /\ M[e].seq = e.seq
                      /\ M[e].id = nextId + g[e]
  <2>1. \A e \in disk : M[e] = [e EXCEPT !.id = nextId + g[e]] OBVIOUS
  <2> HIDE DEF M
  <2>2. disk \subseteq Entry BY DEF TypeInv, TypeOK
  <2> QED BY <2>1, <2>2 DEF Entry
<1>6. /\ \A e \in queue' : \E f \in disk : e = M[f]
      /\ \A f \in disk : M[f] \in queue'
  BY <1>3
<1> HIDE DEF M
<1>7. Shape' BY <1>1, <1>3, <1>5, <1>6 DEF Shape, NoSeq
<1>8. Distinct'
  <2>1. \A e, f \in queue' : e.msg = f.msg => e = f
    BY <1>1, <1>5, <1>6 DEF Distinct
  <2> QED BY <1>1, <1>3, <2>1 DEF Distinct
<1>9. Ids'
  <2>1. nextId' > 0 BY <1>1, <1>3 DEF Ids
  <2>2. ASSUME NEW e \in queue' PROVE e.id > 0 /\ e.id < nextId'
    <3>1. PICK f \in disk : e = M[f] BY <1>6
    <3>2. e.id = nextId + g[f] /\ nextId > 0 BY <1>1, <1>5, <3>1 DEF Ids
    <3> QED BY <1>1, <1>3, <1>4, <3>2
  <2>3. ASSUME NEW e \in queue', NEW f \in queue', e.id = f.id PROVE e = f
    <3>1. PICK c \in disk, d \in disk : e = M[c] /\ f = M[d] BY <1>6
    <3>2. nextId + g[c] = nextId + g[d] BY <1>1, <1>5, <2>3, <3>1
    <3>3. g[c] = g[d] BY <1>1, <1>4, <3>1, <3>2
    <3> QED BY <1>4, <3>1, <3>3
  <2> QED BY <2>1, <2>2, <2>3 DEF Ids
<1>10. WireInv' /\ FlushInv' /\ SentOncePerConnection'
  BY <1>1, <1>3 DEF WireInv, FlushInv, SentOncePerConnection
<1>11. LiveInv'
  <2>1. \A s \in Sessions : conn[s] # "on"
    BY <1>1 DEF Start, Distinct
  <2>2. \A e \in disk : e.session \in Sessions
    BY DEF TypeInv, TypeOK, Entry
  <2> QED BY <1>3, <1>5, <1>6, <2>1, <2>2 DEF LiveInv
<1>12. NothingForgotten'
  <2> SUFFICES ASSUME NEW p \in owed
               PROVE  \E e \in (queue \cup disk)' : Covers(e, p)
    BY <1>3 DEF NothingForgotten, Covers
  <2>1. PICK e \in disk : Covers(e, p) BY <1>1 DEF NothingForgotten
  <2>2. M[e] \in queue' /\ Covers(M[e], p)
    BY <1>5, <1>6, <2>1 DEF Covers
  <2> QED BY <2>2 DEF Covers
<1> QED BY <1>7, <1>8, <1>9, <1>10, <1>11, <1>12 DEF SInv

(***************************************************************************)
(* The inductive invariant is kept by every step.                          *)
(***************************************************************************)
LEMMA NextSInv ==
  ASSUME OneAcking, SingleTargets, TypeInv, SInv, [Next]_vars
  PROVE  SInv'
<1>1. ASSUME NEW s \in Sessions, SessionAdd(s) PROVE SInv'
  <2>1. /\ flushing = None /\ running /\ running' /\ flushing' = None
        /\ conn' = [conn EXCEPT ![s] = "off"] /\ conn[s] # "on"
        /\ UNCHANGED <<queue, disk, wire, nextSeq, nextId, nextMsg, owed>>
    BY <1>1 DEF SessionAdd, Idle
  <2> QED BY <2>1, SameEntries
<1>2. ASSUME NEW r \in Rcpts, RosterChange(r) PROVE SInv'
  BY <1>2 DEF RosterChange, Idle, SInv, Shape, Distinct, Ids, WireInv,
     FlushInv, LiveInv, Live, NoSeq, SentOncePerConnection, NothingForgotten,
     Covers
<1>3. CASE FlushEnd
  <2>1. PICK s \in Sessions : flushing = s
    BY <1>3 DEF FlushEnd, TypeInv, TypeOK
  <2>2. running /\ Ahead = {} /\ flushing' = None
        /\ UNCHANGED <<queue, disk, wire, nextSeq, nextId, nextMsg, owed, conn,
                       running>>
    BY <1>3 DEF FlushEnd, SInv, Distinct
  <2>3. running' /\ conn' = conn /\ nextMsg' = nextMsg /\ owed' \subseteq owed
    BY <1>3, <2>2 DEF FlushEnd
  <2> QED BY <2>1, <2>2, <2>3, SameEntries
<1>4. ASSUME NEW r \in Rcpts, ClearUid(r) PROVE SInv'
  <2>1. /\ flushing = None /\ running /\ running' /\ flushing' = None
        /\ queue' \in SUBSET queue /\ owed' = StillQueued(owed, queue')
        /\ UNCHANGED <<disk, conn, wire, nextSeq, nextId, nextMsg>>
    BY <1>4 DEF ClearUid, Idle
  <2>2. NothingForgotten'
    BY <2>1 DEF NothingForgotten, StillQueued, Covers
  <2> QED BY <2>1, <2>2, FewerAreFine
<1>5. CASE ClearAll
  <2>1. /\ flushing = None /\ running /\ running' /\ flushing' = None
        /\ queue' \in SUBSET queue /\ owed' = {}
        /\ UNCHANGED <<disk, conn, wire, nextSeq, nextId, nextMsg>>
    BY <1>5 DEF ClearAll, Idle
  <2> QED BY <2>1, FewerAreFine DEF NothingForgotten
<1>6. CASE UNCHANGED vars
  BY <1>6 DEF vars, SInv, Shape, Distinct, Ids, WireInv, FlushInv, LiveInv,
     Live, NoSeq, SentOncePerConnection, NothingForgotten, Covers
<1> QED
  BY <1>1, <1>2, <1>3, <1>4, <1>5, <1>6, SubmitSInv, ConnectedSInv,
     FlushSkipSInv, FlushSendSInv, AckSInv, HangupIsFine, QuitSInv, StartSInv
  DEF Next, FlushStep

\* Under the two conditions the invariant holds in every reachable state.
LEMMA SafetyInvariance ==
  ASSUME OneAcking, SingleTargets
  PROVE  Spec => [](TypeInv /\ SInv)
<1>1. Init => TypeInv /\ SInv BY InitTypeInv, InitSInv
<1>2. TypeInv /\ SInv /\ [Next]_vars => (TypeInv /\ SInv)'
  BY NextTypeInv, NextSInv
<1> QED BY <1>1, <1>2, PTL DEF Spec

(***************************************************************************)
(* With one acking account and one nick per message, no message the        *)
(* program promised to deliver is forgotten, through flushes, acks, lost   *)
(* connections, removed sessions and restarts (msgqueue.c, protocol.c).    *)
(***************************************************************************)
THEOREM PromisesAreKept ==
  ASSUME OneAcking, SingleTargets PROVE Spec => []NothingForgotten
<1>1. TypeInv /\ SInv => NothingForgotten BY DEF SInv
<1> QED BY <1>1, SafetyInvariance, PTL

(***************************************************************************)
(* Under the same conditions an entry that bears a number waits for an ack *)
(* that can still come (protocol_connected, protocol_message_ack).         *)
(***************************************************************************)
THEOREM NumbersStayLive ==
  ASSUME OneAcking, SingleTargets PROVE Spec => []NumbersAreLive
<1>1. TypeInv /\ SInv => NumbersAreLive
  BY SessionsAssumption
  DEF TypeInv, TypeOK, Entry, SInv, LiveInv, Live, NumbersAreLive
<1> QED BY <1>1, SafetyInvariance, PTL

(***************************************************************************)
(* Under the same conditions the server is handed a message at most once   *)
(* for each nick on one connection (the mark of msg_queue_flush).          *)
(***************************************************************************)
THEOREM NothingSentTwice ==
  ASSUME OneAcking, SingleTargets PROVE Spec => []SentOncePerConnection
<1>1. TypeInv /\ SInv => SentOncePerConnection BY DEF SInv
<1> QED BY <1>1, SafetyInvariance, PTL

-----------------------------------------------------------------------------
(***************************************************************************)
(* The order of the messages, for any accounts and any targets.  A flush   *)
(* splits what its session has queued into the marked entries, which it    *)
(* still has to send, and those it has queued again; either part is in     *)
(* order, and what is sent or queued again comes before what is marked.    *)
(***************************************************************************)
QueueOrder ==
  \A e, f \in queue :
    /\ e.session = f.session /\ e.id <= f.id
    /\ e.session = flushing => (e.mark <=> f.mark)
    => e.msg <= f.msg

WireOrder ==
  /\ \A w \in wire : /\ w.msg < nextMsg /\ conn[w.session] = "on"
                     /\ w.seq < nextSeq[w.session]
  /\ \A v, w \in wire :
       v.session = w.session /\ v.seq < w.seq => v.msg <= w.msg

OrderBounds ==
  /\ nextId > 0
  /\ \A e \in queue : e.id > 0 /\ e.id < nextId /\ e.msg < nextMsg
  /\ \A e, f \in queue : e.id = f.id => e = f

FlushOrder ==
  flushing # None =>
    /\ conn[flushing] = "on"
    /\ \A e \in queue : e.session = flushing /\ e.mark =>
         /\ e.id > cursor
         /\ \A w \in wire : w.session = flushing => w.msg <= e.msg
         /\ \A f \in queue : f.session = flushing /\ ~f.mark => f.msg <= e.msg

Ordered == QueueOrder /\ WireOrder /\ OrderBounds /\ FlushOrder

OrderInv == restarts = 0 => Ordered

(***************************************************************************)
(* What one run of /msg does to the order, whichever plugin runs it: new   *)
(* entries go to the tail, new numbers are above the old ones.             *)
(***************************************************************************)
Appends(s, m, old) ==
  /\ nextId' \in Nat /\ nextId' >= nextId
  /\ \A e \in queue' :
       \/ e \in queue \ old
       \/ /\ e.session = s /\ e.msg = m /\ ~e.mark
          /\ e.id >= nextId /\ e.id < nextId'
  /\ \A e, f \in queue' \ (queue \ old) : e.id = f.id => e = f
  /\ \A t \in Sessions : nextSeq'[t] >= nextSeq[t]
  /\ \A w \in wire' :
       \/ w \in wire
       \/ /\ w.session = s /\ w.msg = m /\ conn[s] = "on"
          /\ w.seq >= nextSeq[s] /\ w.seq < nextSeq'[s]

\* The place of a nick in the loop of /msg is below the number of nicks.
LEMMA PlaceBound ==
  ASSUME NEW K \in SUBSET Rcpts, NEW r \in K
  PROVE  Place(r, K) \in Nat /\ Place(r, K) < Cardinality(K)
<1> DEFINE B == {k \in K : k < r}
<1>1. IsFiniteSet(K) /\ Cardinality(K) \in Nat /\ Place(r, K) \in Nat
  BY NicksFinite
<1>2. r \in Nat BY RcptsAssumption
<1>3. B \subseteq K \ {r} BY <1>2
<1>4. IsFiniteSet(K \ {r}) /\ Cardinality(K \ {r}) = Cardinality(K) - 1
  BY <1>1, FS_RemoveElement
<1>5. Cardinality(B) <= Cardinality(K \ {r}) BY <1>3, <1>4, FS_Subset
<1>6. Place(r, K) = Cardinality(B) BY DEF Place
<1> HIDE DEF B
<1> QED BY <1>1, <1>4, <1>5, <1>6

\* Two nicks have two places.
LEMMA PlaceInjective ==
  ASSUME NEW K \in SUBSET Rcpts, NEW r \in K, NEW t \in K,
         Place(r, K) = Place(t, K)
  PROVE  r = t
<1> SUFFICES ASSUME NEW a \in K, NEW b \in K, a < b
             PROVE  Place(a, K) < Place(b, K)
  <2>1. r \in Nat /\ t \in Nat BY RcptsAssumption
  <2>2. Place(r, K) \in Nat /\ Place(t, K) \in Nat BY PlaceBound
  <2> QED BY <2>1, <2>2
<1> DEFINE A == {k \in K : k < a}
           B == {k \in K : k < b}
<1>1. /\ a \in Nat /\ b \in Nat /\ \A k \in K : k \in Nat
  BY RcptsAssumption
<1>2. IsFiniteSet(A) /\ IsFiniteSet(B)
  BY RcptsAssumption, FS_Subset, A \subseteq Rcpts, B \subseteq Rcpts
<1>3. a \notin A /\ A \cup {a} \subseteq B
  <2>1. a \notin A BY <1>1
  <2>2. \A k \in A : k < b BY <1>1
  <2> QED BY <2>1, <2>2
<1>4. Cardinality(A \cup {a}) = Cardinality(A) + 1 BY <1>2, <1>3, FS_AddElement
<1>5. Cardinality(A \cup {a}) <= Cardinality(B) BY <1>2, <1>3, FS_Subset
<1>6. Cardinality(A) \in Nat /\ Cardinality(B) \in Nat
  BY <1>2, FS_CardinalityType
<1>7. Place(a, K) = Cardinality(A) /\ Place(b, K) = Cardinality(B)
  BY DEF Place
<1> HIDE DEF A, B
<1> QED BY <1>4, <1>5, <1>6, <1>7

LEMMA SendAndQueueAppends ==
  ASSUME TypeInv, NEW s \in Sessions, NEW m \in Nat, NEW T \in SUBSET Rcpts,
         NEW old \in SUBSET queue, NEW ok \in BOOLEAN,
         SendAndQueue(s, m, T, old, ok)
  PROVE  Appends(s, m, old)
<1> DEFINE K == T \cap roster
           live == conn[s] = "on" /\ ok
           q(r) == IF live THEN nextSeq[s] + Place(r, K) ELSE NoSeq
           new(r) == [id |-> nextId + Place(r, K), msg |-> m, session |-> s,
                      rcpts |-> T, seq |-> q(r), mark |-> FALSE]
           sent(r) == [session |-> s, msg |-> m, rcpt |-> r, seq |-> q(r),
                       acked |-> FALSE]
<1>1. K \in SUBSET Rcpts BY DEF TypeInv, TypeOK
<1>2. Cardinality(K) \in Nat BY <1>1, NicksFinite
<1>3. \A r \in K : Place(r, K) \in Nat /\ Place(r, K) < Cardinality(K)
  BY <1>1, PlaceBound
<1>4. nextId \in Nat /\ nextSeq \in [Sessions -> Nat]
  BY DEF TypeInv, TypeOK
<1>5. /\ queue' = (queue \ old) \cup {new(r) : r \in K}
      /\ nextId' = nextId + Cardinality(K)
  BY DEF SendAndQueue
<1>6. live => /\ wire' = wire \cup {sent(r) : r \in K}
              /\ nextSeq' = [nextSeq EXCEPT ![s] = @ + Cardinality(K)]
  BY DEF SendAndQueue
<1>7. ~live => wire' = wire /\ nextSeq' = nextSeq
  BY DEF SendAndQueue
<1>8. ASSUME NEW e \in queue', e \notin queue \ old
      PROVE  /\ e.session = s /\ e.msg = m /\ ~e.mark
             /\ e.id >= nextId /\ e.id < nextId'
  <2>1. PICK r \in K : e = new(r) BY <1>5, <1>8
  <2>2. e.session = s /\ e.msg = m /\ ~e.mark /\ e.id = nextId + Place(r, K)
    BY <2>1
  <2>3. Place(r, K) \in Nat /\ Place(r, K) < Cardinality(K) BY <1>3
  <2> HIDE DEF K
  <2> QED BY <1>2, <1>4, <1>5, <2>2, <2>3
<1>12. ASSUME NEW e \in queue' \ (queue \ old), NEW f \in queue' \ (queue \ old),
              e.id = f.id
       PROVE  e = f
  <2>1. PICK r \in K : e = new(r) BY <1>5, <1>12
  <2>2. PICK t \in K : f = new(t) BY <1>5, <1>12
  <2>3. nextId + Place(r, K) = nextId + Place(t, K) BY <1>12, <2>1, <2>2
  <2>4. Place(r, K) \in Nat /\ Place(t, K) \in Nat BY <1>3
  <2>5. Place(r, K) = Place(t, K)
    <3> HIDE DEF K
    <3> QED BY <1>4, <2>3, <2>4
  <2>6. r = t BY <1>1, <2>5, PlaceInjective
  <2> QED BY <2>1, <2>2, <2>6
<1>9. ASSUME NEW w \in wire', w \notin wire
      PROVE  /\ w.session = s /\ w.msg = m /\ conn[s] = "on"
             /\ w.seq >= nextSeq[s] /\ w.seq < nextSeq'[s]
  <2>1. live BY <1>7, <1>9
  <2>2. PICK r \in K : w = sent(r) BY <1>6, <1>9, <2>1
  <2>3. w.session = s /\ w.msg = m /\ w.seq = nextSeq[s] + Place(r, K)
    BY <2>1, <2>2
  <2>4. Place(r, K) \in Nat /\ Place(r, K) < Cardinality(K) BY <1>3
  <2>5. nextSeq'[s] = nextSeq[s] + Cardinality(K) BY <1>4, <1>6, <2>1
  <2>6. nextSeq[s] \in Nat BY <1>4
  <2>7. conn[s] = "on" BY <2>1
  <2> HIDE DEF K, live
  <2> QED BY <1>2, <2>3, <2>4, <2>5, <2>6, <2>7
<1>10. \A t \in Sessions : nextSeq'[t] >= nextSeq[t]
  <2> HIDE DEF K
  <2> QED BY <1>2, <1>4, <1>6, <1>7
<1>11. nextId' \in Nat /\ nextId' >= nextId
  <2> HIDE DEF K
  <2> QED BY <1>2, <1>4, <1>5
<1> QED BY <1>8, <1>9, <1>10, <1>11, <1>12 DEF Appends

LEMMA SendOrQueueAppends ==
  ASSUME TypeInv, NEW s \in Sessions, NEW m \in Nat, NEW T \in SUBSET Rcpts,
         NEW old \in SUBSET queue, SendOrQueue(s, m, T, old)
  PROVE  Appends(s, m, old)
<1> DEFINE K == T \cap roster
           new == [id |-> nextId, msg |-> m, session |-> s, rcpts |-> T,
                   seq |-> NoSeq, mark |-> FALSE]
           sent(r) == [session |-> s, msg |-> m, rcpt |-> r,
                       seq |-> nextSeq[s], acked |-> FALSE]
<1>1. K \in SUBSET Rcpts BY DEF TypeInv, TypeOK
<1>2. IsFiniteSet(K) /\ Cardinality(K) \in Nat BY <1>1, NicksFinite
<1>3. nextId \in Nat /\ nextSeq \in [Sessions -> Nat] /\ nextSeq[s] \in Nat
  BY DEF TypeInv, TypeOK
<1>4. \A r \in K : Cardinality(K) > 0 BY <1>1, <1>2, FS_EmptySet
<1>5. CASE conn[s] = "on"
  <2>1. /\ queue' = queue \ old /\ nextId' = nextId
        /\ wire' = wire \cup {sent(r) : r \in K}
        /\ nextSeq' = [nextSeq EXCEPT ![s] = @ + Cardinality(K)]
    BY <1>5 DEF SendOrQueue
  <2>2. nextSeq'[s] = nextSeq[s] + Cardinality(K) BY <1>3, <2>1
  <2>3. ASSUME NEW w \in wire', w \notin wire
        PROVE  /\ w.session = s /\ w.msg = m /\ conn[s] = "on"
               /\ w.seq >= nextSeq[s] /\ w.seq < nextSeq'[s]
    <3>1. PICK r \in K : w = sent(r) BY <2>1, <2>3
    <3>2. w.session = s /\ w.msg = m /\ w.seq = nextSeq[s] BY <3>1
    <3>3. Cardinality(K) > 0 BY <1>4
    <3> HIDE DEF K
    <3> QED BY <1>2, <1>3, <1>5, <2>2, <3>2, <3>3
  <2>4. \A t \in Sessions : nextSeq'[t] >= nextSeq[t]
    <3> HIDE DEF K
    <3> QED BY <1>2, <1>3, <2>1
  <2>5. queue' \ (queue \ old) = {} BY <2>1
  <2> HIDE DEF K, new, sent
  <2> QED BY <1>3, <2>1, <2>3, <2>4, <2>5 DEF Appends
<1>6. CASE conn[s] # "on"
  <2>1. /\ queue' = (queue \ old) \cup {new : r \in K}
        /\ nextId' = nextId + Cardinality(K)
        /\ wire' = wire /\ nextSeq' = nextSeq
    BY <1>6 DEF SendOrQueue
  <2>2. ASSUME NEW e \in queue', e \notin queue \ old
        PROVE  /\ e.session = s /\ e.msg = m /\ ~e.mark
               /\ e.id >= nextId /\ e.id < nextId'
    <3>1. PICK r \in K : e = new BY <2>1, <2>2
    <3>2. e.session = s /\ e.msg = m /\ ~e.mark /\ e.id = nextId BY <3>1
    <3>3. Cardinality(K) > 0 BY <1>4
    <3> HIDE DEF K
    <3> QED BY <1>2, <1>3, <2>1, <3>2, <3>3
  <2>5. \A e, f \in queue' \ (queue \ old) : e = f BY <2>1
  <2>3. nextId' \in Nat /\ nextId' >= nextId
    <3> HIDE DEF K
    <3> QED BY <1>2, <1>3, <2>1
  <2>4. \A t \in Sessions : nextSeq'[t] >= nextSeq[t] BY <1>3, <2>1
  <2> QED BY <2>1, <2>2, <2>3, <2>4, <2>5 DEF Appends
<1> QED BY <1>5, <1>6

-----------------------------------------------------------------------------
\* The order holds at first.
LEMMA InitOrder == Init => OrderInv
BY DEF Init, OrderInv, Ordered, QueueOrder, WireOrder, OrderBounds, FlushOrder

\* A new message goes behind all others.
LEMMA SubmitOrder ==
  ASSUME TypeInv, Ordered, NEW s \in Sessions, NEW T \in Targets,
         NEW ok \in BOOLEAN, Submit(s, T, ok)
  PROVE  Ordered'
<1>1. T \in SUBSET Rcpts /\ nextMsg \in Nat /\ {} \in SUBSET queue
  BY RcptsAssumption DEF TypeInv, TypeOK
<1>2. Appends(s, nextMsg, {})
  <2>1. \/ SendAndQueue(s, nextMsg, T, {}, ok)
        \/ SendOrQueue(s, nextMsg, T, {})
    BY <1>1 DEF Submit
  <2> QED BY <1>1, <2>1, SendAndQueueAppends, SendOrQueueAppends
<1>3. /\ flushing = None /\ flushing' = None /\ nextMsg' = nextMsg + 1
      /\ conn' = conn
  BY DEF Submit, Idle
<1>4. TypeInv' BY NextTypeInv DEF Next
<1>5. /\ queue \subseteq Entry /\ queue' \subseteq Entry
      /\ wire \subseteq Sent /\ wire' \subseteq Sent
      /\ nextSeq \in [Sessions -> Nat] /\ nextSeq' \in [Sessions -> Nat]
      /\ nextId \in Nat /\ nextId' \in Nat
  BY <1>4 DEF TypeInv, TypeOK
<1>6. OrderBounds'
  BY <1>1, <1>2, <1>3, <1>5 DEF Ordered, OrderBounds, Appends, Entry
<1>7. QueueOrder'
  BY <1>1, <1>2, <1>3, <1>5, SessionsAssumption
  DEF Ordered, OrderBounds, QueueOrder, Appends, Entry
<1>8. WireOrder'
  <2>1. \A w \in wire' : /\ w.msg < nextMsg' /\ conn'[w.session] = "on"
                         /\ w.seq < nextSeq'[w.session]
    BY <1>1, <1>2, <1>3, <1>5 DEF Ordered, WireOrder, Appends, Sent
  <2>2. \A v, w \in wire' :
          v.session = w.session /\ v.seq < w.seq => v.msg <= w.msg
    BY <1>1, <1>2, <1>3, <1>5 DEF Ordered, WireOrder, Appends, Sent
  <2> QED BY <2>1, <2>2 DEF WireOrder
<1> QED BY <1>3, <1>6, <1>7, <1>8 DEF Ordered, FlushOrder

\* A new connection has nothing on the wire yet, and everything is marked.
LEMMA ConnectedOrder ==
  ASSUME TypeInv, Ordered, NEW s \in Sessions, Connected(s)
  PROVE  Ordered'
<1>1. /\ flushing = None /\ conn[s] = "off" /\ conn' = [conn EXCEPT ![s] = "on"]
      /\ nextSeq' = [nextSeq EXCEPT ![s] = 1]
      /\ queue' = {[e EXCEPT !.mark = TRUE] : e \in queue}
      /\ cursor' = 0 /\ UNCHANGED <<wire, nextId, nextMsg>>
      /\ flushing' \in {s, None}
  BY DEF Connected, Idle
<1>2. /\ queue \subseteq Entry /\ wire \subseteq Sent
      /\ nextSeq \in [Sessions -> Nat]
      /\ conn \in [Sessions -> {"absent", "off", "on"}]
  BY DEF TypeInv, TypeOK
<1>3. \A e \in queue' : e.mark /\ \E f \in queue :
        e.id = f.id /\ e.msg = f.msg /\ e.session = f.session
  BY <1>1, <1>2 DEF Entry
<1>4. \A w \in wire : w.session \in Sessions /\ w.session # s
  BY <1>1, <1>2 DEF Ordered, WireOrder, Sent
<1>5. OrderBounds'
  <2>1. \A e, f \in queue' : e.id = f.id => e = f
    <3> SUFFICES ASSUME NEW e \in queue', NEW f \in queue', e.id = f.id
                 PROVE  e = f
      OBVIOUS
    <3>1. PICK a \in queue, b \in queue :
            e = [a EXCEPT !.mark = TRUE] /\ f = [b EXCEPT !.mark = TRUE]
      BY <1>1
    <3>2. a.id = b.id BY <1>2, <3>1 DEF Entry
    <3>3. a = b BY <3>2 DEF Ordered, OrderBounds
    <3> QED BY <3>1, <3>3
  <2> QED BY <1>1, <1>3, <2>1 DEF Ordered, OrderBounds
<1>6. QueueOrder'
  <2>1. \A f \in queue : f.session # None
    BY <1>2, SessionsAssumption DEF Entry
  <2> QED BY <1>1, <1>3, <2>1 DEF Ordered, QueueOrder
<1>7. WireOrder' BY <1>1, <1>2, <1>4 DEF Ordered, WireOrder
<1>8. FlushOrder'
  BY <1>1, <1>2, <1>3, <1>4 DEF Ordered, OrderBounds, FlushOrder
<1> QED BY <1>5, <1>6, <1>7, <1>8 DEF Ordered

\* The flush sends the first marked entry, which comes before the others.
LEMMA FlushSendOrder ==
  ASSUME TypeInv, Ordered, NEW e \in queue, NEW ok \in BOOLEAN,
         FlushSend(e, ok)
  PROVE  Ordered'
<1>1. /\ e \in Ahead /\ \A f \in Ahead : e.id <= f.id
      /\ e.mark /\ e.session = flushing /\ flushing \in Sessions
      /\ cursor' = e.id /\ UNCHANGED <<conn, flushing, nextMsg>>
  BY DEF FlushSend, IsNext, Skipped, TypeInv, TypeOK
<1>2. /\ e \in Entry /\ e.rcpts \in SUBSET Rcpts /\ e.msg \in Nat
      /\ {e} \in SUBSET queue
  BY DEF TypeInv, TypeOK, Entry
<1>3. Appends(flushing, e.msg, {e})
  <2>1. \/ SendAndQueue(flushing, e.msg, e.rcpts, {e}, ok)
        \/ SendOrQueue(flushing, e.msg, e.rcpts, {e})
    BY <1>1 DEF FlushSend
  <2> QED BY <1>1, <1>2, <2>1, SendAndQueueAppends, SendOrQueueAppends
<1>4. TypeInv' BY NextTypeInv DEF Next, FlushStep
<1>5. /\ queue \subseteq Entry /\ queue' \subseteq Entry
      /\ wire \subseteq Sent /\ wire' \subseteq Sent
      /\ nextSeq \in [Sessions -> Nat] /\ nextSeq' \in [Sessions -> Nat]
      /\ nextId \in Nat /\ nextId' \in Nat /\ cursor \in Nat /\ nextMsg \in Nat
  BY <1>4 DEF TypeInv, TypeOK
<1>6. OrderBounds'
  BY <1>1, <1>2, <1>3, <1>5 DEF Ordered, OrderBounds, Appends, Entry
<1>7. \A f \in queue : f.session = flushing /\ f.mark =>
        e.id <= f.id /\ e.msg <= f.msg
  <2> SUFFICES ASSUME NEW f \in queue, f.session = flushing, f.mark
               PROVE  e.id <= f.id /\ e.msg <= f.msg
    OBVIOUS
  <2>1. f.id > cursor BY <1>1, SessionsAssumption DEF Ordered, FlushOrder
  <2>2. e.id <= f.id BY <1>1, <2>1 DEF Ahead
  <2> QED BY <1>1, <2>2 DEF Ordered, QueueOrder
<1>8. \A f \in queue : f.session = flushing /\ ~f.mark => f.msg <= e.msg
  BY <1>1, SessionsAssumption DEF Ordered, FlushOrder
<1>9. \A w \in wire : w.session = flushing => w.msg <= e.msg
  BY <1>1, SessionsAssumption DEF Ordered, FlushOrder
<1>10. QueueOrder'
  <2> SUFFICES ASSUME NEW a \in queue', NEW b \in queue',
                      a.session = b.session, a.id <= b.id,
                      a.session = flushing => (a.mark <=> b.mark)
               PROVE  a.msg <= b.msg
    BY <1>1 DEF QueueOrder
  <2>1. a \in Entry /\ b \in Entry BY <1>5
  <2>2. CASE a \in queue /\ b \in queue
    BY <2>2 DEF Ordered, QueueOrder
  <2>3. CASE a \notin queue /\ b \notin queue
    BY <1>3, <2>1, <2>3 DEF Appends, Entry
  <2>4. CASE a \in queue /\ b \notin queue
    BY <1>3, <1>8, <2>4 DEF Appends
  <2>5. CASE a \notin queue /\ b \in queue
    BY <1>3, <1>5, <2>1, <2>5 DEF Appends, Ordered, OrderBounds, Entry
  <2> QED BY <2>2, <2>3, <2>4, <2>5
<1>11. WireOrder'
  <2>1. \A w \in wire' : /\ w.msg < nextMsg' /\ conn'[w.session] = "on"
                         /\ w.seq < nextSeq'[w.session]
    BY <1>1, <1>3, <1>5 DEF Ordered, WireOrder, OrderBounds, Appends, Sent
  <2>2. ASSUME NEW v \in wire', NEW w \in wire', v.session = w.session,
               v.seq < w.seq
        PROVE  v.msg <= w.msg
    <3>1. v \in Sent /\ w \in Sent BY <1>5
    <3>2. CASE v \in wire /\ w \in wire
      BY <2>2, <3>2 DEF Ordered, WireOrder
    <3>3. CASE w \notin wire
      BY <1>2, <1>3, <1>9, <2>2, <3>3 DEF Appends
    <3>4. CASE v \notin wire /\ w \in wire
      BY <1>1, <1>3, <1>5, <2>2, <3>1, <3>4
      DEF Appends, Ordered, WireOrder, Sent
    <3> QED BY <3>2, <3>3, <3>4
  <2> QED BY <2>1, <2>2 DEF WireOrder
<1>12. FlushOrder'
  <2> SUFFICES ASSUME NEW f \in queue', f.session = flushing, f.mark
               PROVE  /\ f.id > e.id
                      /\ \A w \in wire' : w.session = flushing => w.msg <= f.msg
                      /\ \A g \in queue' :
                           g.session = flushing /\ ~g.mark => g.msg <= f.msg
    BY <1>1, SessionsAssumption DEF Ordered, FlushOrder
  <2>1. f \in queue /\ f # e BY <1>3 DEF Appends
  <2>2. f.id > e.id
    BY <1>5, <1>7, <2>1 DEF Ordered, OrderBounds, Entry
  <2>3. e.msg <= f.msg BY <1>7, <2>1
  <2>4. ASSUME NEW w \in wire', w.session = flushing PROVE w.msg <= f.msg
    <3>1. CASE w \in wire
      BY <1>1, <2>1, <2>4, <3>1, SessionsAssumption DEF Ordered, FlushOrder
    <3>2. CASE w \notin wire BY <1>3, <2>3, <3>2 DEF Appends
    <3> QED BY <3>1, <3>2
  <2>5. ASSUME NEW g \in queue', g.session = flushing, ~g.mark
        PROVE  g.msg <= f.msg
    <3>1. CASE g \in queue
      BY <1>1, <2>1, <2>5, <3>1, SessionsAssumption DEF Ordered, FlushOrder
    <3>2. CASE g \notin queue BY <1>3, <2>3, <3>2 DEF Appends
    <3> QED BY <3>1, <3>2
  <2> QED BY <2>2, <2>4, <2>5
<1> QED BY <1>6, <1>10, <1>11, <1>12 DEF Ordered

\* Entries that leave the queue, and acks, disturb no order.
LEMMA FewerOrder ==
  ASSUME Ordered, queue' \subseteq queue,
         \A w \in wire' : \E v \in wire :
           w.session = v.session /\ w.msg = v.msg /\ w.seq = v.seq,
         \A w \in wire' : conn'[w.session] = conn[w.session],
         UNCHANGED <<nextSeq, nextId, nextMsg, cursor>>,
         flushing = None, flushing' = None
  PROVE  Ordered'
<1>1. OrderBounds' BY DEF Ordered, OrderBounds
<1>2. QueueOrder'
  BY DEF Ordered, QueueOrder
<1>3. WireOrder' BY DEF Ordered, WireOrder
<1> QED BY <1>1, <1>2, <1>3 DEF Ordered, FlushOrder

\* At the end of a flush nothing of its session is marked.
LEMMA FlushEndOrder ==
  ASSUME TypeInv, Ordered, FlushEnd
  PROVE  Ordered'
<1>1. /\ Ahead = {} /\ flushing # None /\ flushing' = None
      /\ UNCHANGED <<queue, wire, conn, nextSeq, nextId, nextMsg>>
  BY DEF FlushEnd
<1>2. \A e \in queue : e.session = flushing => ~e.mark
  BY <1>1 DEF Ahead, Ordered, FlushOrder
<1>3. QueueOrder'
  BY <1>1, <1>2 DEF Ordered, QueueOrder
<1> QED BY <1>1, <1>3 DEF Ordered, WireOrder, OrderBounds, FlushOrder

\* An entry that is skipped is not one the flush has to send.
LEMMA FlushSkipOrder ==
  ASSUME TypeInv, Ordered, NEW e \in queue, FlushSkip(e)
  PROVE  Ordered'
<1>1. /\ e \in Ahead /\ \A f \in Ahead : e.id <= f.id
      /\ ~e.mark \/ e.session # flushing
      /\ flushing # None /\ cursor' = e.id
      /\ UNCHANGED <<queue, wire, conn, flushing, nextSeq, nextId, nextMsg>>
  BY DEF FlushSkip, IsNext, Skipped
<1>2. queue \subseteq Entry /\ cursor \in Nat BY DEF TypeInv, TypeOK
<1>3. ASSUME NEW f \in queue, f.session = flushing, f.mark
      PROVE  f.id > e.id
  <2>1. f.id > cursor /\ f # e BY <1>1, <1>3 DEF Ordered, FlushOrder
  <2>2. e.id <= f.id BY <1>1, <2>1 DEF Ahead
  <2>3. e.id # f.id BY <2>1 DEF Ordered, OrderBounds
  <2>4. e.id \in Nat /\ f.id \in Nat BY <1>2 DEF Entry
  <2> QED BY <2>2, <2>3, <2>4
<1>4. FlushOrder' BY <1>1, <1>3 DEF Ordered, FlushOrder
<1> QED BY <1>1, <1>4 DEF Ordered, WireOrder, OrderBounds, QueueOrder

(***************************************************************************)
(* The order is kept by every step, until the program is started again.    *)
(***************************************************************************)
LEMMA NextOrder ==
  ASSUME TypeInv, OrderInv, [Next]_vars
  PROVE  OrderInv'
<1> SUFFICES ASSUME restarts' = 0 PROVE Ordered'
  BY DEF OrderInv
<1>1. CASE Start
  <2>1. restarts \in Nat /\ restarts' = restarts + 1
    BY <1>1 DEF Start, TypeInv, TypeOK
  <2> QED BY <2>1
<1>2. CASE ~Start
  <2> restarts = 0 /\ Ordered
    <3>1. restarts' = restarts
      BY <1>2 DEF Next, FlushStep, Submit, Connected, FlushSkip, FlushSend,
         FlushEnd, Ack, Disconnected, SessionRemove, SessionAdd, ClearUid,
         ClearAll, RosterChange, Quit, vars
    <3> QED BY <3>1 DEF OrderInv
  <2>1. ASSUME NEW w \in wire, Ack(w) PROVE Ordered'
    <3>1. /\ flushing = None /\ flushing' = None /\ queue' \subseteq queue
          /\ wire' = (wire \ {w}) \cup {[w EXCEPT !.acked = TRUE]}
          /\ UNCHANGED <<conn, nextSeq, nextId, nextMsg, cursor>>
      BY <2>1 DEF Ack, Idle
    <3>2. w \in Sent BY DEF TypeInv, TypeOK
    <3>3. \A x \in wire' : \E v \in wire :
            x.session = v.session /\ x.msg = v.msg /\ x.seq = v.seq
      BY <3>1, <3>2 DEF Sent
    <3> QED BY <3>1, <3>3, FewerOrder
  <2>2. ASSUME NEW s \in Sessions, Disconnected(s) \/ SessionRemove(s)
        PROVE Ordered'
    <3>1. /\ flushing = None /\ flushing' = None /\ queue' = queue
          /\ wire' = {w \in wire : w.session # s}
          /\ conn' = [conn EXCEPT ![s] = "off"]
             \/ conn' = [conn EXCEPT ![s] = "absent"]
          /\ UNCHANGED <<nextSeq, nextId, nextMsg, cursor>>
      BY <2>2 DEF Disconnected, SessionRemove, Hangup, Idle
    <3>2. wire \subseteq Sent /\ conn \in [Sessions -> {"absent", "off", "on"}]
      BY DEF TypeInv, TypeOK
    <3>3. \A w \in wire' : conn'[w.session] = conn[w.session]
      BY <3>1, <3>2 DEF Sent
    <3> QED BY <3>1, <3>3, FewerOrder
  <2>3. ASSUME NEW s \in Sessions, SessionAdd(s) PROVE Ordered'
    <3>1. /\ flushing = None /\ flushing' = None /\ conn[s] = "absent"
          /\ conn' = [conn EXCEPT ![s] = "off"]
          /\ UNCHANGED <<queue, wire, nextSeq, nextId, nextMsg, cursor>>
      BY <2>3 DEF SessionAdd, Idle
    <3>2. wire \subseteq Sent /\ conn \in [Sessions -> {"absent", "off", "on"}]
      BY DEF TypeInv, TypeOK
    <3>3. \A w \in wire : conn'[w.session] = conn[w.session]
      BY <3>1, <3>2 DEF Sent, Ordered, WireOrder
    <3> QED BY <3>1, <3>3, FewerOrder
  <2>4. ASSUME NEW r \in Rcpts, ClearUid(r) \/ ClearAll \/ RosterChange(r)
        PROVE Ordered'
    <3>1. /\ flushing = None /\ flushing' = None /\ queue' \subseteq queue
          /\ UNCHANGED <<wire, conn, nextSeq, nextId, nextMsg, cursor>>
      BY <2>4 DEF ClearUid, ClearAll, RosterChange, Idle
    <3> QED BY <3>1, FewerOrder
  <2>5. CASE ClearAll
    <3>1. /\ flushing = None /\ flushing' = None /\ queue' \subseteq queue
          /\ UNCHANGED <<wire, conn, nextSeq, nextId, nextMsg, cursor>>
      BY <2>5 DEF ClearAll, Idle
    <3> QED BY <3>1, FewerOrder
  <2>6. CASE Quit
    <3>1. /\ flushing = None /\ flushing' = None /\ queue' = {} /\ wire' = {}
          /\ UNCHANGED <<nextSeq, nextId, nextMsg, cursor>>
      BY <2>6 DEF Quit, Idle
    <3> QED BY <3>1, FewerOrder
  <2>7. CASE UNCHANGED vars
    BY <2>7 DEF vars, Ordered, QueueOrder, WireOrder, OrderBounds, FlushOrder
  <2> QED
    BY <1>2, <2>1, <2>2, <2>3, <2>4, <2>5, <2>6, <2>7, SubmitOrder,
       ConnectedOrder, FlushSendOrder, FlushSkipOrder, FlushEndOrder
    DEF Next, FlushStep
<1> QED BY <1>1, <1>2

(***************************************************************************)
(* Whatever accounts there are and whatever targets are typed, a           *)
(* connection gets the messages in the order they were typed, until the    *)
(* program is started again (the append of msg_queue_add and the head to   *)
(* tail walk of msg_queue_flush).                                          *)
(***************************************************************************)
THEOREM TypedOrderIsSent == Spec => []SentInOrder
<1>1. Init => TypeInv /\ OrderInv BY InitTypeInv, InitOrder
<1>2. TypeInv /\ OrderInv /\ [Next]_vars => (TypeInv /\ OrderInv)'
  BY NextTypeInv, NextOrder
<1>3. OrderInv => SentInOrder
  BY DEF OrderInv, Ordered, WireOrder, SentInOrder
<1> QED BY <1>1, <1>2, <1>3, PTL DEF Spec

\* A flush never outlasts the program.
Stopped == ~running => flushing = None

LEMMA StoppedInvariance == Spec => []Stopped
<1>1. Init => Stopped BY DEF Init, Stopped
<1>2. Stopped /\ [Next]_vars => Stopped'
  <2> SUFFICES ASSUME Stopped, [Next]_vars PROVE Stopped' OBVIOUS
  <2>1. ASSUME UNCHANGED <<flushing, running>> PROVE Stopped'
    BY <2>1 DEF Stopped
  <2>2. \/ \E r, T, ok : Submit(r, T, ok)
        \/ \E e, ok : FlushSend(e, ok)
        \/ \E e : FlushSkip(e)
        \/ \E w : Ack(w)
        \/ \E r : \/ Disconnected(r) \/ SessionRemove(r) \/ SessionAdd(r)
                 \/ ClearUid(r) \/ RosterChange(r)
        \/ ClearAll \/ UNCHANGED vars
        => UNCHANGED <<flushing, running>>
    BY DEF Submit, FlushSend, FlushSkip, Ack, Disconnected, SessionRemove,
       SessionAdd, ClearUid, RosterChange, ClearAll, vars
  <2>3. (\E s \in Sessions : Connected(s)) \/ FlushEnd \/ Quit \/ Start
        => Stopped'
    BY DEF Stopped, Connected, FlushEnd, Quit, Start, Idle
  <2> QED BY <2>1, <2>2, <2>3 DEF Next, FlushStep
<1> QED BY <1>1, <1>2, PTL DEF Spec

(***************************************************************************)
(* A flush changes nothing that other sessions have queued: it skips their *)
(* entries, and what it appends is for its own session (the session test   *)
(* of msg_queue_flush).                                                    *)
(***************************************************************************)
THEOREM OthersAreLeft == Spec => FlushLeavesOthers
<1> DEFINE A == flushing # None =>
       {e \in queue' : e.session # flushing} =
       {e \in queue : e.session # flushing}
<1>1. ASSUME TypeInv, Stopped, Next, flushing # None
      PROVE  {e \in queue' : e.session # flushing} =
             {e \in queue : e.session # flushing}
  <2>1. ASSUME NEW e \in queue, NEW ok \in BOOLEAN, FlushSend(e, ok)
        PROVE  {f \in queue' : f.session # flushing} =
               {f \in queue : f.session # flushing}
    <3>1. /\ e.session = flushing /\ e.msg \in Nat
          /\ e.rcpts \in SUBSET Rcpts /\ e.session \in Sessions
          /\ {e} \in SUBSET queue
      BY <1>1, <2>1, SessionsAssumption
      DEF FlushSend, Skipped, TypeInv, TypeOK, Entry
    <3>2. \/ SendAndQueue(flushing, e.msg, e.rcpts, {e}, ok)
          \/ SendOrQueue(flushing, e.msg, e.rcpts, {e})
      BY <2>1, <3>1 DEF FlushSend
    <3>3. Appends(flushing, e.msg, {e})
      BY <1>1, <3>1, <3>2, SendAndQueueAppends, SendOrQueueAppends
    <3>4. queue \ {e} \subseteq queue'
      BY <3>2 DEF SendAndQueue, SendOrQueue
    <3> QED BY <3>1, <3>3, <3>4 DEF Appends
  <2>2. \/ \E e \in queue, ok \in BOOLEAN : FlushSend(e, ok)
        \/ \E e \in queue : FlushSkip(e)
        \/ FlushEnd
    BY <1>1 DEF Next, FlushStep, Submit, Connected, Ack, Disconnected,
       SessionRemove, SessionAdd, ClearUid, ClearAll, RosterChange, Quit, Idle,
       Start, Stopped
  <2> QED BY <2>1, <2>2 DEF FlushSkip, FlushEnd
<1>2. TypeInv /\ Stopped /\ [Next]_vars => [A]_vars BY <1>1
<1>3. Spec => [](TypeInv /\ Stopped)
  BY TypeInvariance, StoppedInvariance, PTL
<1> QED BY <1>2, <1>3, PTL DEF Spec, FlushLeavesOthers
=============================================================================
