-------------------------- MODULE IrcSessionProofs --------------------------
(***************************************************************************)
(* Proofs about IrcSession, for any number of connections and servers.     *)
(* That the bits agree with the connection, and that there is only one, is *)
(* proved as long as no stream outlives the next attempt (lagged); that    *)
(* retries go on, without that condition.                                  *)
(***************************************************************************)
EXTENDS IrcSession, TLAPS

LEMMA IrcFacts ==
  /\ None \notin Conns
  /\ Servers \in Nat /\ Servers > 0
  /\ AutoReconnect \in BOOLEAN
BY IrcAssumption

(***************************************************************************)
(* The variables keep their types: in particular a list of servers is      *)
(* never read past its end.                                                *)
(***************************************************************************)
THEOREM TypeCorrect == Spec => []TypeOK
<1> USE IrcFacts
<1>0. 0 \in 0 .. Servers - 1 /\ Servers - 1 \in 0 .. Servers - 1
  OBVIOUS
<1>1. Init => TypeOK
  <2> SUFFICES ASSUME Init PROVE TypeOK
    OBVIOUS
  <2>1. left \in [Conns -> 0 .. Servers - 1]
    BY <1>0 DEF Init
  <2> QED
    BY <2>1 DEF Init, TypeOK
<1>2. TypeOK /\ [Next]_vars => TypeOK'
  <2> SUFFICES ASSUME TypeOK, [Next]_vars PROVE TypeOK'
    OBVIOUS
  <2> USE DEF TypeOK
  <2>0. ASSUME ReallyConnect
        PROVE  /\ connecting' \in BOOLEAN /\ autoreconnecting' \in BOOLEAN
               /\ lagged' \in BOOLEAN
               /\ conn' \in [Conns -> {"none", "trying", "open"}]
               /\ left' \in [Conns -> 0 .. Servers - 1]
    <3>1. CASE connecting \/ connected
      BY <2>0, <3>1 DEF ReallyConnect
    <3>2. CASE ~(connecting \/ connected)
      <4>1. PICK c \in Conns : /\ conn' = [conn EXCEPT ![c] = "trying"]
                               /\ left' = [left EXCEPT ![c] = Servers - 1]
        BY <2>0, <3>2 DEF ReallyConnect
      <4>2. /\ connecting' = TRUE /\ autoreconnecting' = TRUE
            /\ lagged' \in BOOLEAN
        BY <2>0, <3>2 DEF ReallyConnect
      <4> QED
        BY <1>0, <4>1, <4>2
    <3> QED
      BY <3>1, <3>2
  <2>a. ASSUME NEW type, Disconnected(type)
        PROVE  /\ connected' \in BOOLEAN /\ connecting' \in BOOLEAN
               /\ timer' \in BOOLEAN /\ disconnecting' \in BOOLEAN
               /\ retrying' \in BOOLEAN
    BY <2>a DEF Disconnected
  <2>b. ASSUME Quit
        PROVE  disconnecting' \in BOOLEAN /\ closing' \subseteq Conns
    BY <2>b DEF Quit
  <2>1. CASE CmdConnect
    BY <2>1, <2>0 DEF CmdConnect
  <2>2. CASE CmdDisconnect
    BY <2>2, <2>b DEF CmdDisconnect, session
  <2>3. CASE CmdReconnect
    <3>1. disconnecting' \in BOOLEAN /\ closing' \subseteq Conns
      BY <2>3, <2>b DEF CmdReconnect
    <3> QED
      BY <2>3, <2>0, <3>1 DEF CmdReconnect
  <2>4. CASE ReconnectTimer
    BY <2>4, <2>0 DEF ReconnectTimer, history
  <2>5. ASSUME NEW c \in Conns, NextServer(c) PROVE TypeOK'
    BY <2>5 DEF NextServer, session, flags, history
  <2>6. ASSUME NEW c \in Conns, AttemptFails(c) PROVE TypeOK'
    BY <2>6, <2>a DEF AttemptFails
  <2>7. ASSUME NEW c \in Conns, AttemptSucceeds(c) PROVE TypeOK'
    BY <2>7 DEF AttemptSucceeds, session, flags, history
  <2>8. ASSUME NEW c \in Conns, Welcome(c) PROVE TypeOK'
    BY <2>8 DEF Welcome
  <2>9. ASSUME NEW c \in Conns, ErrorLine(c) PROVE TypeOK'
    BY <2>9, <2>a DEF ErrorLine, session
  <2>10. ASSUME NEW c \in Conns, NEW type, End(c, type) PROVE TypeOK'
    BY <2>10, <2>a DEF End
  <2>11. CASE UNCHANGED vars
    BY <2>11 DEF vars, session, streams, flags, history
  <2> QED
    BY <2>1, <2>2, <2>3, <2>4, <2>5, <2>6, <2>7, <2>8, <2>9, <2>10, <2>11
       DEF Next, Eof, Broken
<1> QED
  BY <1>1, <1>2, PTL DEF Spec

-----------------------------------------------------------------------------
(***************************************************************************)
(* The inductive invariant: what the runs check, and that send_stream is   *)
(* the one open stream, the only one a 001 or an ERROR can come from.      *)
(***************************************************************************)
Marks == ~lagged => /\ welcomed \cup closing \subseteq Streams
                    /\ \A c \in Streams : out = c

IInv == /\ TypeOK
        /\ OneAtATime
        /\ BitsAgree
        /\ CommandsHaveAStream
        /\ NoStrayTimer
        /\ Marks

\* a session that is not even closing has no connection at all
LEMMA IdleHasNone ==
  ASSUME IInv, ~lagged, ~connected, ~connecting, closing = {}
  PROVE  \A c \in Conns : conn[c] = "none"
BY DEF IInv, TypeOK, BitsAgree, Streams, Attempts

\* a session is not both connected and connecting
LEMMA NotBoth == ASSUME IInv, ~lagged PROVE ~(connected /\ connecting)
BY DEF IInv, OneAtATime, BitsAgree, Streams, Attempts

Rest == OneAtATime /\ BitsAgree /\ CommandsHaveAStream /\ NoStrayTimer /\ Marks

LEMMA ConnectKeeps ==
  ASSUME IInv, ~lagged, ~lagged', ReallyConnect,
         UNCHANGED <<connected, out, welcomed>>,
         timer' \in {timer, FALSE},
         connected \/ connecting \/ closing' = closing,
         closing' \in {closing, closing \cup {out}},
         (connected /\ out # None) \/ closing' = closing
  PROVE  Rest'
<1> USE IrcFacts DEF IInv, TypeOK, Rest
<1>1. CASE connecting \/ connected
  <2>1. UNCHANGED <<connecting, conn>>
    BY <1>1 DEF ReallyConnect
  <2>2. OneAtATime' /\ NoStrayTimer' /\ CommandsHaveAStream'
    <3>1. OneAtATime'
      BY <2>1 DEF OneAtATime
    <3>2. CommandsHaveAStream'
      BY <2>1 DEF CommandsHaveAStream
    <3>3. NoStrayTimer'
      BY DEF NoStrayTimer
    <3> QED
      BY <3>1, <3>2, <3>3
  <2>3. Streams' = Streams /\ Attempts' = Attempts
    BY <2>1 DEF Streams, Attempts
  <2>4. Marks'
    BY <2>3 DEF Marks, CommandsHaveAStream, Streams
  <2>5. BitsAgree'
    <3>1. CASE closing' = closing
      BY <3>1, <2>1, <2>3 DEF BitsAgree
    <3>2. CASE connected /\ out # None /\ closing' = closing \cup {out}
      BY <3>2, <2>1, <2>3, NotBoth DEF BitsAgree, Marks
    <3> QED
      BY <3>1, <3>2
  <2> QED
    BY <2>2, <2>4, <2>5
<1>2. CASE ~connecting /\ ~connected
  <2>1. PICK c \in Conns : /\ conn[c] = "none" /\ closing = {}
                           /\ conn' = [conn EXCEPT ![c] = "trying"]
                           /\ connecting' = TRUE
    BY <1>2 DEF ReallyConnect
  <2>2. \A d \in Conns : conn[d] = "none"
    BY <1>2, <2>1, IdleHasNone
  <2>3. Streams' = {} /\ Attempts' = {c} /\ Streams = {}
    BY <2>1, <2>2 DEF Streams, Attempts
  <2>4. welcomed' = {} /\ closing' = {}
    BY <1>2, <2>3 DEF Marks
  <2>5. OneAtATime'
    BY <2>1, <2>2 DEF OneAtATime
  <2>6. BitsAgree'
    BY <1>2, <2>1, <2>3 DEF BitsAgree
  <2>7. CommandsHaveAStream' /\ NoStrayTimer'
    BY <1>2, <2>1, <2>2 DEF CommandsHaveAStream, NoStrayTimer
  <2>8. Marks'
    BY <2>3, <2>4 DEF Marks
  <2> QED
    BY <2>5, <2>6, <2>7, <2>8
<1> QED
  BY <1>1, <1>2

LEMMA EndKeeps ==
  ASSUME IInv, ~lagged, ~lagged', NEW c \in Conns, NEW type, End(c, type)
  PROVE  Rest'
<1> USE IrcFacts DEF IInv, TypeOK, Rest
<1>1. conn[c] = "open" /\ conn' = [conn EXCEPT ![c] = "none"] /\ out' = None
  BY DEF End
<1>2. \A d \in Conns : conn'[d] = "none"
  BY <1>1 DEF OneAtATime
<1>3. Streams' = {} /\ Attempts' = {} /\ Streams = {c}
  BY <1>1, <1>2 DEF Streams, Attempts, OneAtATime
<1>4. connected' = FALSE /\ connecting' = FALSE
  BY NotBoth DEF End, Disconnected
<1>5. welcomed' = {} /\ closing' = {}
  BY <1>3 DEF End, Marks
<1> QED
  BY <1>1, <1>2, <1>3, <1>4, <1>5
     DEF OneAtATime, BitsAgree, CommandsHaveAStream, NoStrayTimer, Marks

LEMMA FailsKeeps ==
  ASSUME IInv, ~lagged, ~lagged', NEW c \in Conns, AttemptFails(c)
  PROVE  Rest'
<1> USE IrcFacts DEF IInv, TypeOK, Rest
<1>1. conn[c] = "trying" /\ conn' = [conn EXCEPT ![c] = "none"]
  BY DEF AttemptFails
<1>2. \A d \in Conns : conn'[d] = "none"
  BY <1>1 DEF OneAtATime
<1>3. Streams' = {} /\ Attempts' = {} /\ Streams = {}
  BY <1>1, <1>2 DEF Streams, Attempts, OneAtATime
<1>4. connected' = FALSE /\ connecting' = FALSE
  BY NotBoth DEF AttemptFails, Disconnected
<1>5. welcomed' = {} /\ closing' = {} /\ out' = None
  BY <1>3 DEF AttemptFails, Marks, CommandsHaveAStream, Streams
<1> QED
  BY <1>2, <1>3, <1>4, <1>5
     DEF OneAtATime, BitsAgree, CommandsHaveAStream, NoStrayTimer, Marks

LEMMA SucceedsKeeps ==
  ASSUME IInv, ~lagged, ~lagged', NEW c \in Conns, AttemptSucceeds(c)
  PROVE  Rest'
<1> USE IrcFacts DEF IInv, TypeOK, Rest
<1>1. /\ conn[c] = "trying" /\ conn' = [conn EXCEPT ![c] = "open"] /\ out' = c
      /\ UNCHANGED <<connected, connecting, timer, welcomed, closing>>
  BY DEF AttemptSucceeds, session
<1>2. Streams' = {c} /\ Attempts' = {} /\ Streams = {} /\ Attempts = {c}
  BY <1>1 DEF Streams, Attempts, OneAtATime
<1>3. welcomed = {} /\ closing = {}
  BY <1>2 DEF Marks
<1>4. OneAtATime'
  BY <1>1 DEF OneAtATime
<1> QED
  BY <1>1, <1>2, <1>3, <1>4
     DEF BitsAgree, CommandsHaveAStream, NoStrayTimer, Marks, Streams

LEMMA WelcomeKeeps ==
  ASSUME IInv, ~lagged, ~lagged', NEW c \in Conns, Welcome(c)
  PROVE  Rest'
<1> USE IrcFacts DEF IInv, TypeOK, Rest
<1>1. /\ conn[c] = "open" /\ UNCHANGED <<conn, out, closing>>
      /\ welcomed' = welcomed \cup {c}
      /\ connected' = TRUE /\ connecting' = FALSE /\ timer' = FALSE
  BY DEF Welcome
<1>2. Streams' = {c} /\ Attempts' = {} /\ Streams = {c}
  BY <1>1 DEF Streams, Attempts, OneAtATime
<1>3. OneAtATime'
  BY <1>1 DEF OneAtATime
<1> QED
  BY <1>1, <1>2, <1>3
     DEF BitsAgree, CommandsHaveAStream, NoStrayTimer, Marks, Streams

LEMMA ErrorKeeps ==
  ASSUME IInv, ~lagged, ~lagged', NEW c \in Conns, ErrorLine(c)
  PROVE  Rest'
<1> USE IrcFacts DEF IInv, TypeOK, Rest
<1>1. /\ conn[c] = "open" /\ UNCHANGED <<conn, out, welcomed>>
      /\ c \notin closing /\ closing' = closing \cup {c}
  BY DEF ErrorLine
<1>2. Streams' = {c} /\ Attempts' = {} /\ Streams = {c} /\ Attempts = {}
  BY <1>1 DEF Streams, Attempts, OneAtATime
<1>3. OneAtATime' /\ Marks'
  BY <1>1, <1>2 DEF OneAtATime, Marks
<1>4. CASE connecting
  <2>1. ~connected /\ connected' = FALSE /\ connecting' = FALSE
    BY <1>4, NotBoth DEF ErrorLine, Disconnected
  <2>2. c \notin welcomed
    BY <1>2, <2>1 DEF BitsAgree
  <2> QED
    BY <1>1, <1>2, <1>3, <2>1, <2>2
       DEF BitsAgree, CommandsHaveAStream, NoStrayTimer
<1>5. CASE ~connecting
  <2>1. UNCHANGED <<connected, connecting, timer>>
    BY <1>5 DEF ErrorLine, session
  <2>2. c \in welcomed
    BY <1>1, <1>2, <1>5 DEF BitsAgree
  <2> QED
    BY <1>1, <1>2, <1>3, <1>5, <2>1, <2>2
       DEF BitsAgree, CommandsHaveAStream, NoStrayTimer
<1> QED
  BY <1>4, <1>5

LEMMA InductiveUnlagged ==
  ASSUME IInv, ~lagged, ~lagged', [Next]_vars
  PROVE  Rest'
<1> USE IrcFacts DEF IInv, TypeOK
<1>1. CASE CmdConnect
  BY <1>1, ConnectKeeps DEF CmdConnect
<1>2. CASE CmdDisconnect
  <2>1. /\ UNCHANGED <<connected, connecting, timer, conn, out, welcomed>>
        /\ \/ closing' = closing
           \/ connected /\ out # None /\ closing' = closing \cup {out}
    BY <1>2 DEF CmdDisconnect, Quit, session
  <2>2. Streams' = Streams /\ Attempts' = Attempts
    BY <2>1 DEF Streams, Attempts
  <2>3. OneAtATime' /\ CommandsHaveAStream' /\ NoStrayTimer'
    BY <2>1 DEF OneAtATime, CommandsHaveAStream, NoStrayTimer
  <2>4. Marks'
    BY <2>1, <2>2 DEF Marks, CommandsHaveAStream, Streams
  <2>5. BitsAgree'
    <3>1. CASE closing' = closing
      BY <3>1, <2>1, <2>2 DEF BitsAgree
    <3>2. CASE connected /\ out # None /\ closing' = closing \cup {out}
      BY <3>2, <2>1, <2>2, NotBoth DEF BitsAgree, Marks
    <3> QED
      BY <2>1, <3>1, <3>2
  <2> QED
    BY <2>3, <2>4, <2>5 DEF Rest
<1>3. CASE CmdReconnect
  <2>1. /\ ReallyConnect /\ UNCHANGED <<connected, timer, out, welcomed>>
        /\ \/ closing' = closing
           \/ connected /\ out # None /\ closing' = closing \cup {out}
    BY <1>3 DEF CmdReconnect, Quit
  <2> QED
    BY <2>1, ConnectKeeps
<1>4. CASE ReconnectTimer
  BY <1>4, ConnectKeeps DEF ReconnectTimer, history
<1>5. ASSUME NEW c \in Conns, NextServer(c) PROVE Rest'
  BY <1>5 DEF NextServer, session, Rest, OneAtATime, BitsAgree, Streams,
              Attempts, CommandsHaveAStream, NoStrayTimer, Marks
<1>6. CASE UNCHANGED vars
  BY <1>6 DEF vars, session, streams, Rest, OneAtATime, BitsAgree, Streams,
              Attempts, CommandsHaveAStream, NoStrayTimer, Marks
<1> QED
  BY <1>1, <1>2, <1>3, <1>4, <1>5, <1>6, EndKeeps, FailsKeeps, SucceedsKeeps,
     WelcomeKeeps, ErrorKeeps
     DEF Next, Eof, Broken

(***************************************************************************)
(* send_stream is open even when streams mix: all its owners reset it.     *)
(***************************************************************************)
OutOpen == out # None => conn[out] = "open"

LEMMA OutStaysOpen == ASSUME TypeOK, OutOpen, [Next]_vars PROVE OutOpen'
<1> USE IrcFacts DEF TypeOK, OutOpen
<1>0. ASSUME ReallyConnect, out' = out PROVE OutOpen'
  <2>1. conn' = conn \/ \E c \in Conns : /\ conn[c] = "none"
                                       /\ conn' = [conn EXCEPT ![c] = "trying"]
    BY <1>0 DEF ReallyConnect
  <2> QED
    BY <1>0, <2>1
<1>1. CASE CmdConnect \/ CmdReconnect \/ ReconnectTimer
  BY <1>0, <1>1 DEF CmdConnect, CmdReconnect, ReconnectTimer
<1>2. CASE CmdDisconnect \/ UNCHANGED vars
  BY <1>2 DEF CmdDisconnect, vars, streams
<1>3. ASSUME NEW c \in Conns,
             \/ NextServer(c) \/ AttemptFails(c) \/ AttemptSucceeds(c)
             \/ Welcome(c) \/ ErrorLine(c) \/ \E type : End(c, type)
      PROVE  OutOpen'
  BY <1>3 DEF NextServer, AttemptFails, AttemptSucceeds, Welcome, ErrorLine, End
<1> QED
  BY <1>1, <1>2, <1>3 DEF Next, Eof, Broken

\* what has lagged once does so for ever
LEMMA LaggedStays == ASSUME TypeOK, lagged, [Next]_vars PROVE lagged'
<1>1. ASSUME ReallyConnect PROVE lagged'
  BY <1>1 DEF ReallyConnect
<1> QED
  BY <1>1 DEF Next, CmdConnect, CmdDisconnect, CmdReconnect, ReconnectTimer,
     NextServer, AttemptFails, AttemptSucceeds, Welcome, ErrorLine, Eof, Broken,
     End, vars, history

THEOREM Inductive ==
  ASSUME IInv, [Next]_vars
  PROVE  Rest'
<1>1. CASE lagged'
  <2>1. OutOpen'
    BY OutStaysOpen DEF IInv, CommandsHaveAStream, OutOpen
  <2> QED
    BY <1>1, <2>1 DEF Rest, OneAtATime, BitsAgree, CommandsHaveAStream,
                      NoStrayTimer, Marks, OutOpen
<1>2. CASE ~lagged'
  <2>1. lagged \in BOOLEAN /\ (lagged => lagged')
    BY LaggedStays DEF IInv, TypeOK
  <2> QED
    BY <1>2, <2>1, InductiveUnlagged
<1> QED
  BY <1>1, <1>2

\* The invariant holds in every reachable state.
LEMMA Invariance == Spec => [](TypeOK /\ IInv)
<1>1. Init => Rest
  <2> SUFFICES ASSUME Init PROVE Rest
    OBVIOUS
  <2>1. Streams = {} /\ Attempts = {} /\ welcomed = {} /\ closing = {}
    BY DEF Init, Streams, Attempts
  <2>2. OneAtATime
    BY DEF Init, OneAtATime
  <2>3. ~connected /\ ~connecting /\ out = None
    BY DEF Init
  <2> QED
    BY <2>1, <2>2, <2>3
       DEF Rest, BitsAgree, CommandsHaveAStream, NoStrayTimer, Marks
<1>2. TypeOK /\ Rest /\ [Next]_vars => Rest'
  BY Inductive DEF IInv, Rest
<1>3. TypeOK /\ Rest => IInv
  BY DEF IInv, Rest
<1> QED
  BY <1>1, <1>2, <1>3, TypeCorrect, PTL DEF Spec

(***************************************************************************)
(* As long as no stream outlives the next attempt, an account never has    *)
(* two connections, whatever the order of commands, timer and network.         *)
(***************************************************************************)
THEOREM OnlyOne == Spec => []OneAtATime
<1>1. IInv => OneAtATime
  BY DEF IInv
<1> QED
  BY <1>1, Invariance, PTL

(***************************************************************************)
(* ... and the two bits of the session say what the connection is at.      *)
(***************************************************************************)
THEOREM BitsAreRight == Spec => []BitsAgree
<1>1. IInv => BitsAgree
  BY DEF IInv
<1> QED
  BY <1>1, Invariance, PTL

(***************************************************************************)
(* ... and a connected session always has an open stream for its commands. *)
(***************************************************************************)
THEOREM StreamIsThere == Spec => []CommandsHaveAStream
<1>1. IInv => CommandsHaveAStream
  BY DEF IInv
<1> QED
  BY <1>1, Invariance, PTL

(***************************************************************************)
(* ... and no reconnect timer that could fire (protocol_connected).        *)
(***************************************************************************)
THEOREM TimersNeverStray == Spec => []NoStrayTimer
<1>1. IInv => NoStrayTimer
  BY DEF IInv
<1> QED
  BY <1>1, Invariance, PTL

-----------------------------------------------------------------------------
(***************************************************************************)
(* The invariant behind the retries, which holds even when the end of an   *)
(* old stream is counted against a new attempt: the bit `connecting' is    *)
(* never set without something under way, so a timer that finds it set and *)
(* does nothing loses nothing, and a retry is never pending on a connected *)
(* session, where the timer would be refused.                              *)
(***************************************************************************)
UnderWay == \E c \in Conns : \/ conn[c] = "trying"
                            \/ (conn[c] = "open" /\ c \notin welcomed)

RInv == /\ \A c \in welcomed : conn[c] = "open"
        /\ ~(connected /\ connecting)
        /\ retrying => ~connected
        /\ connecting => UnderWay
        /\ retrying => timer \/ UnderWay

LEMMA RetryConnect ==
  ASSUME TypeOK, RInv, ReallyConnect, UNCHANGED <<connected, welcomed>>
  PROVE  /\ \A c \in welcomed' : conn'[c] = "open"
         /\ ~(connected' /\ connecting')
         /\ connecting' => UnderWay'
         /\ UnderWay => UnderWay'
         /\ connecting \/ ~connected => UnderWay'
<1> USE IrcFacts DEF TypeOK, RInv
<1>1. CASE connecting \/ connected
  <2>1. UNCHANGED <<connecting, conn>>
    BY <1>1 DEF ReallyConnect
  <2>2. UnderWay' <=> UnderWay
    BY <2>1 DEF UnderWay
  <2> QED
    BY <1>1, <2>1, <2>2
<1>2. CASE ~connecting /\ ~connected
  <2>1. PICK c \in Conns : /\ conn[c] = "none"
                           /\ conn' = [conn EXCEPT ![c] = "trying"]
    BY <1>2 DEF ReallyConnect
  <2>2. UnderWay'
    BY <2>1 DEF UnderWay
  <2> QED
    BY <1>2, <2>1, <2>2
<1> QED
  BY <1>1, <1>2

LEMMA RetryDisconnected ==
  ASSUME TypeOK, RInv, NEW type, Disconnected(type)
  PROVE  /\ ~connected' /\ ~connecting'
         /\ retrying' => timer'
BY DEF TypeOK, RInv, Disconnected

LEMMA RetryStep == ASSUME TypeOK, RInv, [Next]_vars PROVE RInv'
<1> USE IrcFacts DEF TypeOK, RInv
<1>1. CASE CmdConnect
  <2>1. UNCHANGED <<connected, timer, welcomed, retrying>> /\ ReallyConnect
    BY <1>1 DEF CmdConnect
  <2> QED
    BY <2>1, RetryConnect
<1>2. CASE CmdDisconnect
  <2>1. UNCHANGED <<connected, connecting, conn, welcomed>> /\ ~retrying'
    BY <1>2 DEF CmdDisconnect, session
  <2> QED
    BY <2>1 DEF UnderWay
<1>3. CASE CmdReconnect
  <2>1. UNCHANGED <<connected, timer, welcomed, retrying>> /\ ReallyConnect
    BY <1>3 DEF CmdReconnect
  <2> QED
    BY <2>1, RetryConnect
<1>4. CASE ReconnectTimer
  <2>1. UNCHANGED <<connected, welcomed, retrying>> /\ ReallyConnect
    BY <1>4 DEF ReconnectTimer
  <2> QED
    BY <2>1, RetryConnect
<1>5. ASSUME NEW c \in Conns, NextServer(c) PROVE RInv'
  BY <1>5 DEF NextServer, session, history, UnderWay
<1>6. ASSUME NEW c \in Conns, AttemptFails(c) PROVE RInv'
  <2>1. /\ \A d \in welcomed' : conn'[d] = "open"
        /\ Disconnected("FAILURE")
    BY <1>6 DEF AttemptFails
  <2> QED
    BY <2>1, RetryDisconnected
<1>7. ASSUME NEW c \in Conns, AttemptSucceeds(c) PROVE RInv'
  <2>1. /\ c \notin welcomed /\ conn' = [conn EXCEPT ![c] = "open"]
        /\ UNCHANGED <<session, welcomed, retrying>>
    BY <1>7 DEF AttemptSucceeds, history
  <2>2. UnderWay'
    BY <2>1 DEF UnderWay
  <2> QED
    BY <2>1, <2>2 DEF session
<1>8. ASSUME NEW c \in Conns, Welcome(c) PROVE RInv'
  <2>1. /\ conn' = conn /\ conn[c] = "open" /\ welcomed' = welcomed \cup {c}
        /\ ~connecting' /\ ~retrying'
    BY <1>8 DEF Welcome
  <2> QED
    BY <2>1
<1>9. ASSUME NEW c \in Conns, ErrorLine(c) PROVE RInv'
  <2>1. conn' = conn /\ welcomed' = welcomed
    BY <1>9 DEF ErrorLine
  <2>2. UnderWay' <=> UnderWay
    BY <2>1 DEF UnderWay
  <2>3. Disconnected("FAILURE") \/ UNCHANGED <<session, retrying>>
    BY <1>9 DEF ErrorLine
  <2> QED
    BY <2>1, <2>2, <2>3, RetryDisconnected DEF session
<1>10. ASSUME NEW c \in Conns, NEW type, End(c, type) PROVE RInv'
  <2>1. \A d \in welcomed' : conn'[d] = "open"
    BY <1>10 DEF End
  <2>2. Disconnected(type)
    BY <1>10 DEF End
  <2> QED
    BY <2>1, <2>2, RetryDisconnected
<1>11. CASE UNCHANGED vars
  BY <1>11 DEF vars, session, streams, history, UnderWay
<1> QED
  BY <1>1, <1>2, <1>3, <1>4, <1>5, <1>6, <1>7, <1>8, <1>9, <1>10, <1>11
     DEF Next, Eof, Broken

(***************************************************************************)
(* Once the core has begun to reconnect an account, a timer, an attempt or *)
(* a fresh stream is there until it is connected or the user says stop     *)
(* (protocol_disconnected_handler, protocol_reconnect_handler,             *)
(* irc_handle_failure), for any number of servers and streams that mix.    *)
(***************************************************************************)
THEOREM RetriesGoOn == Spec => []RetryGoesOn
<1>1. Init => RInv
  BY DEF Init, RInv, UnderWay
<1>2. TypeOK /\ RInv /\ [Next]_vars => RInv'
  BY RetryStep
<1>3. RInv => RetryGoesOn
  BY DEF RInv, RetryGoesOn, UnderWay, Attempts, Streams
<1> QED
  BY <1>1, <1>2, <1>3, TypeCorrect, PTL DEF Spec

=============================================================================
