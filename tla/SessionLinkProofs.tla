-------------------------- MODULE SessionLinkProofs --------------------------
(***************************************************************************)
(* What holds of the sessions' links for any set of sessions: the core's   *)
(* bits follow the plugin's connection, reconnect timers never stray,      *)
(* and, for those whose logins get as far as the wire, the retries go on   *)
(* and an flock is free while idle.  At the end, proofs about SessionLock, *)
(* what the locks themselves guarantee between copies of the program.      *)
(***************************************************************************)
EXTENDS SessionLink, SessionLock, TLAPS

\* the bits of the link of one session follow its connection, and rivchat
\* is never in the middle of an attempt
Agrees(s, l) == /\ l.connected => l.sess = "up"
                /\ l.sess = "up" => l.connected \/ s \in Rivchat
                /\ l.connecting <=> l.sess = "connecting"
                /\ s \in Rivchat => l.sess # "connecting"

AllAgree == \A s \in Sessions : Agrees(s, link[s])

\* session_remove() leaves nothing that could come to life
GoneIsIdle == \A s \in Sessions \ exists : link[s].sess = "none"

IInv == TypeOK /\ AllAgree /\ NoStrayTimer /\ GoneIsIdle

-----------------------------------------------------------------------------
\* protocol_disconnected() leaves an idle, unlocked link that agrees.
LEMMA DisconnectedLink ==
  ASSUME NEW s, NEW l \in Link, Agrees(s, l)
  PROVE  /\ Disconnected(l) \in Link /\ Agrees(s, Disconnected(l))
         /\ Disconnected(l).sess = "none" /\ ~Disconnected(l).connected
         /\ ~Disconnected(l).locked
BY DEF Link, Agrees, Disconnected, ProtocolDisconnected

\* protocol_connected() leaves a connected link that agrees.
LEMMA ConnectedLink ==
  ASSUME NEW s, NEW l \in Link
  PROVE  /\ Connected(l) \in Link /\ Agrees(s, Connected(l))
         /\ Connected(l).connected /\ Connected(l).sess = "up"
BY DEF Link, Agrees, Connected

(***************************************************************************)
(* gg's /connect keeps a link that agrees one that agrees, and does not    *)
(* make it connected.                                                      *)
(***************************************************************************)
LEMMA LoginLink ==
  ASSUME NEW l \in Link, NEW s, Agrees(s, l), s \notin Rivchat,
         NEW m \in Logins(s, l)
  PROVE  /\ m \in Link /\ Agrees(s, m)
         /\ m.connected = l.connected
<1>1. CASE m = l BY <1>1
<1>2. CASE m # l
  <2>1. l.sess = "none" BY <1>2 DEF Logins
  <2>2. PICK b \in BOOLEAN :
          \/ m = [l EXCEPT !.locked = b]
          \/ m = [[l EXCEPT !.locked = b] EXCEPT !.sess = "connecting",
                                                 !.connecting = TRUE]
    BY <1>2 DEF Logins, LockGoesOn
  <2> QED BY <2>1, <2>2 DEF Link, Agrees
<1> QED BY <1>1, <1>2

(***************************************************************************)
(* rivchat's, on a session that exists, agrees too: a failure clears       *)
(* `connected' whatever becomes of the socket.                             *)
(***************************************************************************)
LEMMA RivchatLink ==
  ASSUME NEW l \in Link, NEW s \in Rivchat, Agrees(s, l)
  PROVE  /\ ProtocolDisconnected(l) \in Link
         /\ Agrees(s, ProtocolDisconnected(l))
         /\ ~ProtocolDisconnected(l).connected
BY DEF Link, Agrees, ProtocolDisconnected

\* What the invariant says of one session.
LEMMA LinkFacts ==
  ASSUME IInv, NEW s \in Sessions
  PROVE  /\ link[s] \in Link /\ Agrees(s, link[s])
         /\ s \notin exists => link[s].sess = "none" /\ s \notin timers
BY DEF IInv, AllAgree, TypeOK, NoStrayTimer, GoneIsIdle

(***************************************************************************)
(* A step that changes the link of s alone to one that agrees, and gives s *)
(* at most one timer while it exists and is not connected.                 *)
(***************************************************************************)
LEMMA OneLink ==
  ASSUME IInv, NEW s \in Sessions, NEW l \in Link, Agrees(s, l), Becomes(s, l),
         UNCHANGED exists,
         UNCHANGED config, retrying' \subseteq Sessions,
         timers' \subseteq timers \cup {s},
         s \in timers' => s \in exists /\ ~l.connected,
         s \notin exists => l.sess = "none"
  PROVE  IInv'
<1>1. TypeOK' BY DEF IInv, TypeOK, Becomes, config
<1>2. link'[s] = l /\ \A t \in Sessions \ {s} : link'[t] = link[t]
  BY DEF IInv, TypeOK, Becomes
<1>3. AllAgree' BY <1>2 DEF IInv, AllAgree
<1>4. NoStrayTimer'
  BY <1>1, <1>2 DEF IInv, TypeOK, NoStrayTimer
<1>5. GoneIsIdle' BY <1>2 DEF IInv, GoneIsIdle
<1> QED BY <1>1, <1>3, <1>4, <1>5 DEF IInv

\* rivchat's /connect, on a link without a stray timer.
LEMMA RivchatStep ==
  ASSUME IInv, NEW s \in Rivchat, s \in exists,
         NEW l \in Link, Agrees(s, l), s \in timers => ~l.connected,
         RivchatConnect(s, l), UNCHANGED exists, UNCHANGED config
  PROVE  IInv'
<1> s \in Sessions BY AccountsAssumption
<1>1. CASE Becomes(s, l) /\ UNCHANGED <<timers, retrying>>
  BY <1>1, OneLink DEF IInv, TypeOK
<1>2. CASE Becomes(s, ProtocolDisconnected(l)) /\ ReconnectLater(s)
  <2>1. retrying' \subseteq Sessions /\ timers' \subseteq timers \cup {s}
    BY <1>2 DEF ReconnectLater, IInv, TypeOK
  <2> QED BY <1>2, <2>1, RivchatLink, OneLink
<1>3. CASE Becomes(s, Connected(l)) /\ RemoveTimer(s)
           /\ retrying' = retrying \ {s}
  BY <1>3, ConnectedLink, OneLink DEF RemoveTimer, IInv, TypeOK
<1> QED BY <1>1, <1>2, <1>3 DEF RivchatConnect

-----------------------------------------------------------------------------
\* The initial states satisfy the invariant.
LEMMA InitIInv == Init => IInv
BY DEF Init, Fresh, IInv, TypeOK, Link, AllAgree, Agrees, NoStrayTimer,
       GoneIsIdle

\* Every command, event and timer call keeps the invariant.
LEMMA NextIInv == IInv /\ [Next]_vars => IInv'
<1> SUFFICES ASSUME IInv, [Next]_vars PROVE IInv'
  OBVIOUS
<1>1. ASSUME NEW s \in Sessions, CmdConnect(s) PROVE IInv'
  <2>1. link[s] \in Link /\ Agrees(s, link[s]) BY LinkFacts
  <2>2. CASE s \notin Rivchat
    <3>1. PICK l \in Logins(s, link[s]) :
            Becomes(s, l) /\ UNCHANGED <<timers, retrying>>
      BY <1>1, <2>2 DEF CmdConnect
    <3>2. l \in Link /\ Agrees(s, l) /\ l.connected = link[s].connected
      BY <2>1, <2>2, LoginLink
    <3> QED BY <1>1, <3>1, <3>2, OneLink
            DEF CmdConnect, IInv, TypeOK, NoStrayTimer
  <2>3. CASE s \in Rivchat
    BY <1>1, <2>1, <2>3, RivchatStep DEF CmdConnect, IInv, NoStrayTimer
  <2> QED BY <2>2, <2>3
<1>2. ASSUME NEW s \in Sessions, ReconnectTimer(s) PROVE IInv'
  <2>1. link[s] \in Link /\ Agrees(s, link[s]) BY LinkFacts
  <2>2. s \in exists /\ timers' = timers \ {s}
    BY <1>2 DEF ReconnectTimer, IInv, NoStrayTimer
  <2>3. retrying' \subseteq Sessions BY <1>2 DEF ReconnectTimer, IInv, TypeOK
  <2>4. ASSUME NEW l \in Link, Agrees(s, l), Becomes(s, l) PROVE IInv'
    BY <1>2, <2>2, <2>3, <2>4, OneLink DEF ReconnectTimer, IInv, TypeOK
  <2>5. PICK l \in IF link[s].connected THEN {link[s]}
                   ELSE IF s \in Rivchat THEN RivchatLogins(link[s])
                   ELSE Logins(s, link[s]) : Becomes(s, l)
    BY <1>2 DEF ReconnectTimer
  <2>6. l \in Link /\ Agrees(s, l)
    BY <2>1, <2>5, LoginLink, RivchatLink, ConnectedLink DEF RivchatLogins
  <2> QED BY <2>4, <2>5, <2>6
<1>3. ASSUME NEW s \in Sessions, ConnSuccess(s) PROVE IInv'
  <2>1. link[s] \in Link /\ Agrees(s, link[s]) /\ s \in exists
    BY <1>3, LinkFacts DEF ConnSuccess
  <2>2. Becomes(s, Connected(link[s])) /\ timers' = timers \ {s}
    BY <1>3 DEF ConnSuccess, RemoveTimer
  <2> QED BY <1>3, <2>1, <2>2, ConnectedLink, OneLink
          DEF ConnSuccess, IInv, TypeOK
<1>4. ASSUME NEW s \in Sessions,
             ConnFailed(s) \/ Broken(s) \/ Forced(s)
      PROVE IInv'
  <2>1. link[s] \in Link /\ Agrees(s, link[s]) /\ s \in exists
    BY <1>4, LinkFacts DEF ConnFailed, Broken, Forced
  <2>2. Becomes(s, Disconnected(link[s])) /\ timers' \subseteq timers \cup {s}
    BY <1>4 DEF ConnFailed, Broken, Forced, ReconnectLater
  <2>3. UNCHANGED <<exists, config>>
        /\ retrying' \subseteq Sessions
    BY <1>4 DEF ConnFailed, Broken, Forced, ReconnectLater, IInv, TypeOK
  <2> QED BY <2>1, <2>2, <2>3, DisconnectedLink, OneLink DEF IInv, TypeOK
<1>5. ASSUME NEW s \in Sessions, CmdDisconnect(s) PROVE IInv'
  <2>1. link[s] \in Link /\ Agrees(s, link[s]) BY LinkFacts
  <2>2. s \in exists /\ timers' = timers \ {s}
        /\ UNCHANGED <<exists, config>>
        /\ retrying' \subseteq Sessions
    BY <1>5 DEF CmdDisconnect, RemoveTimer, IInv, TypeOK
  <2>3. \/ Becomes(s, link[s])
        \/ Becomes(s, Disconnected(link[s]))
    BY <1>5 DEF CmdDisconnect, Becomes, IInv, TypeOK
  <2> QED BY <2>1, <2>2, <2>3, DisconnectedLink, OneLink DEF IInv, TypeOK
<1>6. ASSUME NEW s \in Sessions, CmdReconnect(s) PROVE IInv'
  <2> DEFINE l == IF HasLink(s) THEN Disconnected(link[s]) ELSE link[s]
  <2>1. link[s] \in Link /\ Agrees(s, link[s]) BY LinkFacts
  <2>2. l \in Link /\ Agrees(s, l) /\ ~l.connected
    BY <2>1, DisconnectedLink DEF Agrees, HasLink
  <2>3. s \in exists /\ UNCHANGED exists /\ UNCHANGED config
    BY <1>6 DEF CmdReconnect
  <2>4. CASE s \notin Rivchat
    <3>1. PICK m \in Logins(s, l) : Becomes(s, m)
      BY <1>6, <2>4 DEF CmdReconnect
    <3>2. timers' = timers \ {s} /\ retrying' \subseteq Sessions
      BY <1>6, <2>4 DEF CmdReconnect, RemoveTimer, IInv, TypeOK
    <3> HIDE DEF l
    <3>3. m \in Link /\ Agrees(s, m) /\ ~m.connected
      BY <2>2, <2>4, LoginLink
    <3> QED BY <2>3, <3>1, <3>2, <3>3, OneLink DEF IInv, TypeOK
  <2>5. CASE s \in Rivchat
    <3>1. RivchatConnect(s, l) BY <1>6, <2>5 DEF CmdReconnect
    <3> HIDE DEF l
    <3> QED BY <2>2, <2>3, <2>5, <3>1, RivchatStep
  <2> QED BY <2>4, <2>5
<1>7. ASSUME NEW s \in Sessions, SessionRemove(s) PROVE IInv'
  <2>1. link[s] \in Link /\ RemovedLink(link[s]) \in Link
        /\ Agrees(s, RemovedLink(link[s])) /\ RemovedLink(link[s]).sess = "none"
    BY LinkFacts DEF RemovedLink, Fresh, Link, Agrees, IInv, TypeOK
  <2>2. /\ link'[s] = RemovedLink(link[s])
        /\ \A t \in Sessions \ {s} : link'[t] = link[t]
        /\ exists' = exists \ {s} /\ timers' = timers \ {s}
    BY <1>7 DEF SessionRemove, Becomes, IInv, TypeOK
  <2>3. TypeOK' BY <1>7, <2>1 DEF SessionRemove, Becomes, IInv, TypeOK, config
  <2>4. AllAgree' BY <2>1, <2>2 DEF IInv, AllAgree
  <2>5. NoStrayTimer' BY <2>2 DEF IInv, TypeOK, NoStrayTimer
  <2>6. GoneIsIdle' BY <2>1, <2>2 DEF IInv, GoneIsIdle
  <2> QED BY <2>3, <2>4, <2>5, <2>6 DEF IInv
<1>8. ASSUME NEW s \in Sessions, SessionAdd(s) \/ SetAutoReconnect(s)
      PROVE IInv'
  BY <1>8 DEF SessionAdd, SetAutoReconnect, IInv, TypeOK, config, AllAgree,
              NoStrayTimer, GoneIsIdle
<1>9. ASSUME NEW s \in Sessions, CmdUnlock(s) PROVE IInv'
  <2> DEFINE l == [link[s] EXCEPT !.locked = FALSE]
  <2>1. link[s] \in Link /\ Agrees(s, link[s]) BY LinkFacts
  <2>2. l \in Link /\ Agrees(s, l) /\ l.connected = link[s].connected
    BY <2>1 DEF Link, Agrees
  <2>3. Becomes(s, l) /\ s \in exists
        /\ UNCHANGED <<exists, timers, config, retrying>>
    BY <1>9 DEF CmdUnlock
  <2> HIDE DEF l
  <2> QED BY <2>2, <2>3, OneLink DEF IInv, TypeOK, NoStrayTimer
<1>10. CASE UNCHANGED vars
  BY <1>10 DEF vars, config, IInv, TypeOK, AllAgree, NoStrayTimer, GoneIsIdle
<1> QED BY <1>1, <1>2, <1>3, <1>4, <1>5, <1>6, <1>7, <1>8, <1>9, <1>10 DEF Next

\* The inductive invariant holds in every reachable state.
THEOREM Invariance == Spec => []IInv
BY InitIInv, NextIInv, PTL DEF Spec

\* The variables have their types.
THEOREM TypeCorrect == Spec => []TypeOK
<1>1. IInv => TypeOK BY DEF IInv
<1> QED BY <1>1, Invariance, PTL

(***************************************************************************)
(* The bits the core keeps follow the connection the plugin keeps, for any *)
(* accounts of gg and rivchat and logins that may fail: a connected        *)
(* session has a connection, and the converse holds of gg's                *)
(* (protocol_connected, protocol_disconnected, gg_command_connect,         *)
(* rivchat_command_connect).                                               *)
(***************************************************************************)
THEOREM BitsAgree == Spec => []LinkAgrees
<1>1. IInv => LinkAgrees BY DEF IInv, AllAgree, Agrees, LinkAgrees
<1> QED BY <1>1, Invariance, PTL

(***************************************************************************)
(* No reconnect timer of a connected or of a removed session is ever on    *)
(* the list (protocol_connected, session_remove).                          *)
(***************************************************************************)
THEOREM TimersNeverStray == Spec => []NoStrayTimer
<1>1. IInv => NoStrayTimer BY DEF IInv
<1> QED BY <1>1, Invariance, PTL

-----------------------------------------------------------------------------
(***************************************************************************)
(* Locks and retries of the sessions whose logins get as far as the wire.  *)
(* The timer's handler calls /connect, which a lock refuses: that retries  *)
(* go on needs the lock of a retried session to be free while it is idle,  *)
(* and a retried session not to be up already.  Only a lock file that      *)
(* session_remove() left makes an idle session a locked one.               *)
(***************************************************************************)
Kept(s, l, t, r) ==
  /\ l.sess = "none" /\ l.locked => fileLocks /\ s \notin r
  /\ s \in r => l.sess # "up" /\ (s \in t \/ l.sess = "connecting")

RInv == \A s \in Sure : Kept(s, link[s], timers, retrying)

\* A login that gets as far as the wire takes an idle, unlocked link along,
\* and is refused by a locked one.
LEMMA SureLoginLink ==
  ASSUME NEW s \in Sure, NEW l \in Link, NEW m \in Logins(s, l)
  PROVE  /\ m = l \/ (m.sess = "connecting" /\ m \in Link)
         /\ l.sess = "none" /\ ~l.locked => m.sess = "connecting"
<1>1. CASE m = l BY <1>1 DEF Logins, Sure, Link
<1>2. CASE m # l
  <2>1. PICK b \in BOOLEAN :
          m = [[l EXCEPT !.locked = b] EXCEPT !.sess = "connecting",
                                              !.connecting = TRUE]
    BY <1>2 DEF Logins, LockGoesOn, Sure
  <2> QED BY <2>1 DEF Link
<1> QED BY <1>1, <1>2

\* What a step of session s leaves alone of the others.
Others(s) ==
  /\ \A t \in Sessions \ {s} : /\ link'[t] = link[t]
                               /\ t \in timers => t \in timers'
                               /\ t \in retrying' => t \in retrying
  /\ UNCHANGED fileLocks

\* A command, event or timer call of one session leaves the others alone.
LEMMA OneSession ==
  ASSUME IInv, NEW s \in Sessions,
         \/ CmdConnect(s) \/ CmdDisconnect(s) \/ CmdReconnect(s)
         \/ ReconnectTimer(s)
         \/ ConnSuccess(s) \/ ConnFailed(s) \/ Broken(s) \/ Forced(s)
         \/ SessionRemove(s) \/ SessionAdd(s)
         \/ SetAutoReconnect(s) \/ CmdUnlock(s)
  PROVE  Others(s)
<1>1. ASSUME NEW l, Becomes(s, l)
      PROVE  \A t \in Sessions \ {s} : link'[t] = link[t]
  BY <1>1 DEF Becomes, IInv, TypeOK
<1>2. CASE CmdConnect(s)
  BY <1>1, <1>2 DEF CmdConnect, RivchatConnect, ReconnectLater, RemoveTimer,
                    config, Others
<1>3. CASE CmdDisconnect(s)
  BY <1>1, <1>3 DEF CmdDisconnect, RemoveTimer, config, Others
<1>4. CASE CmdReconnect(s)
  BY <1>1, <1>4 DEF CmdReconnect, RivchatConnect, ReconnectLater, RemoveTimer,
                    config, Others
<1>5. CASE ReconnectTimer(s)
  BY <1>1, <1>5 DEF ReconnectTimer, config, Others
<1>6. CASE ConnSuccess(s) \/ ConnFailed(s) \/ Broken(s) \/ Forced(s)
  BY <1>1, <1>6 DEF ConnSuccess, ConnFailed, Broken, Forced, ReconnectLater,
                    RemoveTimer, config, Others
<1>7. CASE SessionRemove(s) \/ SessionAdd(s) \/ SetAutoReconnect(s) \/ CmdUnlock(s)
  BY <1>1, <1>7 DEF SessionRemove, SessionAdd, SetAutoReconnect, CmdUnlock,
                    config, Others
<1> QED BY <1>2, <1>3, <1>4, <1>5, <1>6, <1>7

\* Its own lock and retry stay as they should be.
LEMMA OwnRetry ==
  ASSUME IInv, RInv, NEW s \in Sure,
         \/ CmdConnect(s) \/ CmdDisconnect(s) \/ CmdReconnect(s)
         \/ ReconnectTimer(s)
         \/ ConnSuccess(s) \/ ConnFailed(s) \/ Broken(s) \/ Forced(s)
         \/ SessionRemove(s) \/ SessionAdd(s)
         \/ SetAutoReconnect(s) \/ CmdUnlock(s)
  PROVE  Kept(s, link'[s], timers', retrying')
<1> s \in Sessions /\ s \notin Rivchat BY DEF Sure
<1>1. link[s] \in Link /\ Agrees(s, link[s]) BY LinkFacts
<1>2. Kept(s, link[s], timers, retrying) BY DEF RInv
<1>3. ASSUME NEW l, Becomes(s, l) PROVE link'[s] = l
  BY <1>3 DEF Becomes, IInv, TypeOK
<1>4. Disconnected(link[s]).sess = "none" /\ ~Disconnected(link[s]).locked
  BY <1>1, DisconnectedLink
<1>5. CASE CmdConnect(s)
  <2>1. PICK m \in Logins(s, link[s]) :
          Becomes(s, m) /\ UNCHANGED <<timers, retrying>>
    BY <1>5 DEF CmdConnect, Sure
  <2> QED BY <1>1, <1>2, <1>3, <2>1, SureLoginLink DEF Kept
<1>6. CASE ReconnectTimer(s)
  <2>1. ~link[s].connected BY <1>6 DEF ReconnectTimer, IInv, NoStrayTimer
  <2>2. PICK m \in Logins(s, link[s]) :
          Becomes(s, m) /\ retrying' \subseteq retrying
    BY <1>6, <2>1 DEF ReconnectTimer, Sure
  <2>3. link[s].sess = "none" \/ link[s].sess = "connecting"
    BY <1>1, <2>1, s \notin Rivchat DEF Link, Agrees
  <2>4. link'[s] = m BY <1>3, <2>2
  <2>5. /\ m = link[s] \/ m.sess = "connecting"
        /\ link[s].sess = "none" /\ ~link[s].locked => m.sess = "connecting"
    BY <1>1, <2>2, SureLoginLink
  <2>6. CASE m.sess = "connecting" BY <2>4, <2>6 DEF Kept
  <2>7. CASE m = link[s] /\ m.sess = "none"
    BY <1>2, <2>2, <2>4, <2>5, <2>7 DEF Kept
  <2> QED BY <2>3, <2>5, <2>6, <2>7
<1>7. CASE ConnSuccess(s)
  <2>1. link'[s].sess = "up" /\ s \notin retrying'
    BY <1>1, <1>3, <1>7, ConnectedLink DEF ConnSuccess
  <2> QED BY <2>1 DEF Kept
<1>8. CASE ConnFailed(s) \/ Broken(s)
  BY <1>3, <1>4, <1>8 DEF ConnFailed, Broken, ReconnectLater, Kept
<1>9. CASE Forced(s)
  BY <1>3, <1>4, <1>9 DEF Forced, Kept
<1>10. CASE CmdDisconnect(s)
  <2>1. s \notin retrying' BY <1>10 DEF CmdDisconnect
  <2>2. link'[s] = link[s] \/ link'[s] = Disconnected(link[s])
    BY <1>3, <1>10 DEF CmdDisconnect
  <2> QED BY <1>2, <1>4, <2>1, <2>2 DEF Kept
<1>11. CASE CmdReconnect(s)
  <2> DEFINE l == IF HasLink(s) THEN Disconnected(link[s]) ELSE link[s]
  <2>1. l \in Link /\ (l.sess = "none" /\ l.locked => fileLocks)
    BY <1>1, <1>2, <1>4, DisconnectedLink DEF Kept
  <2>2. PICK m \in Logins(s, l) : Becomes(s, m) /\ s \notin retrying'
    BY <1>11 DEF CmdReconnect, Sure
  <2> HIDE DEF l
  <2> QED BY <1>3, <2>1, <2>2, SureLoginLink DEF Kept
<1>12. CASE SessionRemove(s)
  <2>1. RemovedLink(link[s]).locked => fileLocks
    BY LinkFacts DEF RemovedLink, Fresh, Link
  <2> QED BY <1>3, <1>12, <2>1 DEF SessionRemove, Kept
<1>13. CASE SessionAdd(s) \/ SetAutoReconnect(s)
  BY <1>2, <1>13 DEF SessionAdd, SetAutoReconnect, Kept
<1>14. CASE CmdUnlock(s)
  <2>1. link'[s].sess = link[s].sess /\ ~link'[s].locked
    BY <1>1, <1>3, <1>14 DEF CmdUnlock, Link
  <2> QED BY <1>2, <1>14, <2>1 DEF CmdUnlock, Kept
<1> QED BY <1>5, <1>6, <1>7, <1>8, <1>9, <1>10, <1>11, <1>12, <1>13, <1>14

\* Every step keeps locks and retries as they should be.
LEMMA NextRInv == IInv /\ RInv /\ [Next]_vars => RInv'
<1> SUFFICES ASSUME IInv, RInv, [Next]_vars PROVE RInv'
  OBVIOUS
<1>1. CASE Next
  <2>1. PICK s \in Sessions :
         \/ CmdConnect(s) \/ CmdDisconnect(s) \/ CmdReconnect(s)
         \/ ReconnectTimer(s)
         \/ ConnSuccess(s) \/ ConnFailed(s) \/ Broken(s) \/ Forced(s)
         \/ SessionRemove(s) \/ SessionAdd(s)
         \/ SetAutoReconnect(s) \/ CmdUnlock(s)
    BY <1>1 DEF Next
  <2>2. Others(s) BY <2>1, OneSession
  <2>3. s \in Sure => Kept(s, link'[s], timers', retrying')
    BY <2>1, OwnRetry
  <2> QED BY <2>2, <2>3 DEF RInv, Kept, Others, Sure
<1>2. CASE UNCHANGED vars
  BY <1>2 DEF vars, config, RInv, Kept, Sure
<1> QED BY <1>1, <1>2

\* Locks and retries are as they should be in every reachable state.
LEMMA RetryInvariance == Spec => [](IInv /\ RInv)
<1>1. Init => IInv /\ RInv
  BY InitIInv DEF Init, Fresh, RInv, Kept, Sure
<1>2. IInv /\ RInv /\ [Next]_vars => (IInv /\ RInv)'
  BY NextIInv, NextRInv
<1> QED BY <1>1, <1>2, PTL DEF Spec

(***************************************************************************)
(* A session without a connection, whose logins get as far as the wire,    *)
(* never holds its flock (/session --lock in /connect, --unlock in         *)
(* protocol_disconnected).                                                 *)
(***************************************************************************)
THEOREM IdleLocksAreFree == Spec => []LockFreeWhenIdle
<1>1. IInv /\ RInv => LockFreeWhenIdle BY DEF RInv, Kept, LockFreeWhenIdle
<1> QED BY <1>1, RetryInvariance, PTL

(***************************************************************************)
(* The retries the core took upon itself go on, with either kind of lock:  *)
(* there is a timer or an attempt as long as a session whose logins get as *)
(* far as the wire is retried.                                             *)
(***************************************************************************)
THEOREM RetriesGoOn == Spec => []RetryGoesOn
<1>1. IInv /\ RInv => RetryGoesOn BY DEF RInv, Kept, RetryGoesOn, Tried
<1> QED BY <1>1, RetryInvariance, PTL

-----------------------------------------------------------------------------
(***************************************************************************)
(* The locks themselves, SessionLock, for any number of copies and inodes: *)
(* of the copies whose lock did not fail open, those with session_locks =  *)
(* 2 exclude each other, and with session_locks = 1 exactly those that use *)
(* the session hold flocks.                                                *)
(***************************************************************************)
\* a copy between open() and flock() has the file open, and uses flock()
OpenedHasFd ==
  \A c \in Copies : pc[c] = "opened" => mode = "flock" /\ fd[c] # None

\* a copy that goes without a lock uses the session or is about to unlink()
BareInUse == \A c \in bare : pc[c] \in {"using", "released"}

LockInv ==
  LockTypeOK /\ OpenedHasFd /\ BareInUse /\ FlockIffUsing /\ FileExcludes

\* A fresh start satisfies the invariant.
LEMMA InitLocks ==
  ASSUME LockInit
  PROVE  LockInv
BY CopiesAssumption, InodesAssumption DEF LockInit, LockInv,
       LockTypeOK, OpenedHasFd, BareInUse, FlockIffUsing, FileExcludes

(***************************************************************************)
(* Each system call keeps the invariant.                                   *)
(***************************************************************************)
LEMMA NextLocks ==
  ASSUME LockInv, [LockNext]_lockVars
  PROVE  LockInv'
<1> USE CopiesAssumption, InodesAssumption DEF LockInv, LockTypeOK, BareInUse
<1>1. ASSUME NEW c \in Copies, NEW ino \in Inodes, OpenForFlock(c, ino)
      PROVE LockInv'
  <2>1. LockTypeOK' BY <1>1 DEF OpenForFlock
  <2>2. OpenedHasFd' BY <1>1 DEF OpenedHasFd, OpenForFlock
  <2>3. FlockIffUsing' BY <1>1 DEF FlockIffUsing, OpenForFlock
  <2>4. FileExcludes' BY <1>1 DEF FileExcludes, OpenForFlock
  <2>5. BareInUse' BY <1>1 DEF OpenForFlock
  <2> QED BY <2>1, <2>2, <2>3, <2>4, <2>5
<1>2. ASSUME NEW c \in Copies, NEW ino \in Inodes, OpenExclusive(c, ino)
      PROVE LockInv'
  <2>1. LockTypeOK' BY <1>2 DEF OpenExclusive
  <2>2. OpenedHasFd' BY <1>2 DEF OpenedHasFd, OpenExclusive
  <2>3. FlockIffUsing' BY <1>2 DEF FlockIffUsing, OpenExclusive
  <2>4. FileExcludes'
    \* path was None, so nobody was using or releasing, nobody was in between
    BY <1>2 DEF OpenedHasFd, FileExcludes, OpenExclusive
  <2>5. BareInUse' BY <1>2 DEF OpenExclusive
  <2> QED BY <2>1, <2>2, <2>3, <2>4, <2>5
<1>3. ASSUME NEW c \in Copies, Flock(c) PROVE LockInv'
  <2>1. mode = "flock" /\ fd[c] \in Inodes
    BY <1>3 DEF OpenedHasFd, Flock
  <2>2. LockTypeOK' BY <1>3, <2>1 DEF Flock
  <2>3. OpenedHasFd' BY <1>3 DEF OpenedHasFd, Flock
  <2>4. FlockIffUsing'
    BY <1>3, <2>1 DEF FlockIffUsing, Flock
  <2>5. FileExcludes' BY <1>3, <2>1 DEF FileExcludes, Flock
  <2>6. BareInUse' BY <1>3 DEF Flock
  <2> QED BY <2>2, <2>3, <2>4, <2>5, <2>6
<1>4. ASSUME NEW c \in Copies, Release(c) PROVE LockInv'
  <2>1. LockTypeOK' BY <1>4 DEF Release, Unlocked
  <2>2. OpenedHasFd' BY <1>4 DEF OpenedHasFd, Release
  <2>3. FlockIffUsing'
    BY <1>4 DEF FlockIffUsing, Release, Unlocked
  <2>4. FileExcludes' BY <1>4 DEF FileExcludes, Release
  <2>5. BareInUse' BY <1>4 DEF Release
  <2> QED BY <2>1, <2>2, <2>3, <2>4, <2>5
<1>5. ASSUME NEW c \in Copies, Unlink(c) PROVE LockInv'
  <2>1. LockTypeOK' BY <1>5 DEF Unlink
  <2>2. OpenedHasFd' BY <1>5 DEF OpenedHasFd, Unlink
  <2>3. FlockIffUsing' BY <1>5 DEF FlockIffUsing, Unlink
  <2>4. FileExcludes'
    <3>1. CASE c \in bare
      <4>1. trespass' BY <1>5, <3>1 DEF Unlink
      <4> QED BY <4>1 DEF FileExcludes
    <3>2. CASE c \notin bare
      \* c had locked the session, so the others that had are idle
      <4> SUFFICES ASSUME mode' = "file", ~trespass', NEW d \in Copies \ bare'
                   PROVE  pc'[d] = "idle"
        BY DEF FileExcludes
      <4>1. ~trespass BY <1>5, <3>2 DEF Unlink
      <4> QED BY <1>5, <3>2, <4>1 DEF FileExcludes, Unlink
    <3> QED BY <3>1, <3>2
  <2>5. BareInUse' BY <1>5 DEF Unlink
  <2> QED BY <2>1, <2>2, <2>3, <2>4, <2>5
<1>6. ASSUME NEW c \in Copies, Die(c) PROVE LockInv'
  <2>1. LockTypeOK' BY <1>6 DEF Die, Unlocked
  <2>2. OpenedHasFd' BY <1>6 DEF OpenedHasFd, Die
  <2>3. FlockIffUsing'
    BY <1>6 DEF FlockIffUsing, Die, Unlocked
  <2>4. FileExcludes' BY <1>6 DEF FileExcludes, Die
  <2>5. BareInUse' BY <1>6 DEF Die
  <2> QED BY <2>1, <2>2, <2>3, <2>4, <2>5
<1>7. ASSUME NEW c \in Copies, LockFails(c) PROVE LockInv'
  <2>1. LockTypeOK' BY <1>7 DEF LockFails
  <2>2. OpenedHasFd' BY <1>7 DEF OpenedHasFd, LockFails
  <2>3. FlockIffUsing'
    \* c held no flock: those that hold one are using, and not bare
    BY <1>7 DEF FlockIffUsing, LockFails
  <2>4. FileExcludes' BY <1>7 DEF FileExcludes, LockFails, OpenedHasFd
  <2>5. BareInUse' BY <1>7 DEF LockFails
  <2> QED BY <2>1, <2>2, <2>3, <2>4, <2>5
<1>8. CASE UserUnlock
  BY <1>8 DEF OpenedHasFd, FlockIffUsing, FileExcludes, UserUnlock
<1>9. CASE UNCHANGED lockVars
  BY <1>9 DEF OpenedHasFd, FlockIffUsing, FileExcludes, lockVars
<1> QED BY <1>1, <1>2, <1>3, <1>4, <1>5, <1>6, <1>7, <1>8, <1>9
    DEF LockNext

\* The inductive invariant holds in every reachable state.
THEOREM LockInvariance ==
  LockSpec => []LockInv
<1>1. LockInit => LockInv BY InitLocks
<1>2. LockInv /\ [LockNext]_lockVars => LockInv' BY NextLocks
<1> QED BY <1>1, <1>2, PTL DEF LockSpec

\* The variables have their types.
THEOREM LocksTyped ==
  LockSpec => []LockTypeOK
<1>1. LockInv => LockTypeOK BY DEF LockInv
<1> QED BY <1>1, LockInvariance, PTL

(***************************************************************************)
(* session_locks = 2: no two copies that locked the session are in their   *)
(* use of it, and no unlink() of theirs hits another's file, however many  *)
(* copies there are, whichever of them die and whichever fail to lock and  *)
(* go on, until one of those unlinks the file ("/session --lock",          *)
(* "/session --unlock").                                                   *)
(***************************************************************************)
THEOREM FileLocksExclude ==
  LockSpec => []FileExcludes
<1>1. LockInv => FileExcludes BY DEF LockInv
<1> QED BY <1>1, LockInvariance, PTL

(***************************************************************************)
(* session_locks = 1: the flocks held are those of the copies that use the *)
(* session, each on the inode it has open, and none is that of a copy      *)
(* whose open() or flock() failed and that goes on without (s->lock_fd).   *)
(***************************************************************************)
THEOREM FlocksMatchUse ==
  LockSpec => []FlockIffUsing
<1>1. LockInv => FlockIffUsing BY DEF LockInv
<1> QED BY <1>1, LockInvariance, PTL
=============================================================================
