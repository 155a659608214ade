---------------------------- MODULE SessionLink ----------------------------
(***************************************************************************)
(* The life of the accounts' connections: the /connect, /disconnect and    *)
(* /reconnect commands of the gg and rivchat plugins and the event handler *)
(* of gg, the core handlers of "protocol-connected" and                    *)
(* "protocol-disconnected" (ekg/protocol.c), the "reconnect" timers, the   *)
(* session locks of one copy of the program, and session_remove().  One    *)
(* thread runs all of it, so each command, event and timer call is one     *)
(* action, with every handler it calls.                                    *)
(***************************************************************************)
EXTENDS Naturals

CONSTANTS
  Sessions,       \* the user's accounts
  MayFail,        \* those of gg whose login may fail before anything goes on
                  \* the wire: a missing password, a bad address, no route
  Rivchat         \* those of rivchat, the others are of gg

ASSUME AccountsAssumption ==
  MayFail \subseteq Sessions /\ Rivchat \subseteq Sessions \ MayFail

\* those whose logins get as far as the wire
Sure == Sessions \ (MayFail \cup Rivchat)

VARIABLES
  exists,         \* the sessions there are
  link,           \* per session: connected, connecting, the library's
                  \* connection and the lock, see Link
  timers,         \* the sessions with a "reconnect" timer on the timer list
  autoReconnect,  \* those whose auto_reconnect is neither 0 nor -1
  fileLocks,      \* session_locks = 2, the file is the lock; else 1, flock()
  retrying        \* history: those the core took upon itself to reconnect

config == <<autoReconnect, fileLocks>>
vars == <<exists, link, timers, config, retrying>>

Link == [connected : BOOLEAN, connecting : BOOLEAN,
         sess : {"none", "connecting", "up"}, locked : BOOLEAN]

TypeOK ==
  /\ exists \subseteq Sessions
  /\ link \in [Sessions -> Link]
  /\ timers \subseteq Sessions
  /\ autoReconnect \subseteq Sessions /\ fileLocks \in BOOLEAN
  /\ retrying \subseteq Sessions

(***************************************************************************)
(* `sess' is g->sess of gg and its state, or whether j->fd of rivchat is   *)
(* open, which has no attempts: a UDP socket is bound or it is not.        *)
(***************************************************************************)
Fresh == [connected |-> FALSE, connecting |-> FALSE, sess |-> "none",
          locked |-> FALSE]

Becomes(s, l) == link' = [link EXCEPT ![s] = l]

-----------------------------------------------------------------------------
(***************************************************************************)
(* protocol_disconnected(), the part common to all types: a session that   *)
(* was connected keeps its `connecting' bit, and "/session --unlock"       *)
(* releases the lock whoever took it.                                      *)
(***************************************************************************)
DisconnectedOnlyConnected(l) ==   \* mutant: connecting is not reset
  [l EXCEPT !.connected = FALSE, !.locked = FALSE]
DisconnectedLocked(l) ==          \* mutant: no /session --unlock
  [l EXCEPT !.connected = FALSE,
            !.connecting = IF l.connected THEN @ ELSE FALSE]
ProtocolDisconnected(l) ==
  [l EXCEPT !.connected = FALSE, !.locked = FALSE,
            !.connecting = IF l.connected THEN @ ELSE FALSE]

\* the plugin drops its connection and says so
Disconnected(l) == [ProtocolDisconnected(l) EXCEPT !.sess = "none"]

\* the plugin has its connection and says so: protocol_connected()
Connected(l) == [l EXCEPT !.sess = "up", !.connecting = FALSE,
                          !.connected = TRUE]

ReconnectOnce(s) ==               \* mutant: no timer for a second attempt
  /\ timers' = IF s \in autoReconnect \ retrying THEN timers \cup {s}
               ELSE timers
  /\ retrying' = IF s \in autoReconnect THEN retrying \cup {s}
                 ELSE retrying \ {s}
\* types NETWORK and FAILURE: one reconnect timer, if the user wants one
ReconnectLater(s) ==
  /\ timers' = IF s \in autoReconnect THEN timers \cup {s} ELSE timers
  /\ retrying' = IF s \in timers' THEN retrying \cup {s} ELSE retrying \ {s}

\* timer_remove_session(s, "reconnect")
RemoveTimersByName(s) == timers' = {}           \* mutant: whoever it belongs to
RemoveTimer(s) == timers' = timers \ {s}

(***************************************************************************)
(* gg's /connect.  It refuses a live session.  "/session --lock" refuses a *)
(* locked one, but fails open: it may find that it cannot lock, or, with   *)
(* lock files, that it cannot even see the file there is, and the login    *)
(* goes on.  A login that fails after that leaves the lock.                *)
(***************************************************************************)
\* the lock a login may go on with
LockGoesOn(l) == {b \in BOOLEAN : l.locked => b /\ fileLocks}

\* what gg's /connect makes of the link l of session s
Logins(s, l) ==
  LET allowed == {[l EXCEPT !.locked = b] : b \in LockGoesOn(l)}
  IN IF l.sess # "none" THEN {l}
     ELSE {m \in {l} : l.locked}
          \cup {m \in allowed : s \in MayFail}
          \cup {[m EXCEPT !.sess = "connecting", !.connecting = TRUE] :
                   m \in allowed}

(***************************************************************************)
(* rivchat's /connect, on the link l.  It asks neither whether the session *)
(* is connected nor for a lock.  Without a nickname it just returns; if    *)
(* there is no socket to be had it reports a disconnection                 *)
(* (EKG_DISCONNECT_FAILURE) and leaves the socket of before alone;         *)
(* otherwise it is connected at once, with another socket.                 *)
(***************************************************************************)
RivchatLogins(l) == {l, ProtocolDisconnected(l), Connected(l)}

RivchatConnect(s, l) ==
  \/ /\ Becomes(s, l)
     /\ UNCHANGED <<timers, retrying>>
  \/ /\ Becomes(s, ProtocolDisconnected(l))
     /\ ReconnectLater(s)
  \/ /\ Becomes(s, Connected(l))
     /\ RemoveTimer(s)
     /\ retrying' = retrying \ {s}

CmdConnect(s) ==
  /\ s \in exists
  /\ \/ /\ s \notin Rivchat
        /\ \E l \in Logins(s, link[s]) : Becomes(s, l)
        /\ UNCHANGED <<timers, retrying>>
     \/ /\ s \in Rivchat
        /\ RivchatConnect(s, link[s])
  /\ UNCHANGED <<exists, config>>

(***************************************************************************)
(* timer_wrapper_old() calls protocol_reconnect_handler() while the timer  *)
(* is still on the list, and removes it afterwards because the handler     *)
(* returns -1.  A login that reports its failure inside that call finds    *)
(* the very timer that is firing, and so adds none.                        *)
(***************************************************************************)
ReconnectTimer(s) ==
  /\ s \in timers
  /\ \E l \in IF link[s].connected THEN {link[s]}
             ELSE IF s \in Rivchat THEN RivchatLogins(link[s])
             ELSE Logins(s, link[s]) :
       /\ Becomes(s, l)
       /\ retrying' = IF l.connected THEN retrying \ {s} ELSE retrying
  /\ timers' = timers \ {s}
  /\ UNCHANGED <<exists, config>>

-----------------------------------------------------------------------------
\* GG_EVENT_CONN_SUCCESS: protocol_connected(), which also drops the timer
ConnSuccess(s) ==
  /\ link[s].sess = "connecting"
  /\ Becomes(s, Connected(link[s]))
  /\ RemoveTimer(s)
  /\ retrying' = retrying \ {s}
  /\ UNCHANGED <<exists, config>>

\* GG_EVENT_CONN_FAILED, or the watch timed out: EKG_DISCONNECT_FAILURE
ConnFailed(s) ==
  /\ link[s].sess = "connecting"
  /\ Becomes(s, Disconnected(link[s]))
  /\ ReconnectLater(s)
  /\ UNCHANGED <<exists, config>>

\* gg_watch_fd() fails on an established connection: EKG_DISCONNECT_NETWORK
Broken(s) ==
  /\ s \notin Rivchat /\ link[s].sess = "up"
  /\ Becomes(s, Disconnected(link[s]))
  /\ ReconnectLater(s)
  /\ UNCHANGED <<exists, config>>

\* GG_EVENT_DISCONNECT, the server sends us away: EKG_DISCONNECT_FORCED
Forced(s) ==
  /\ s \notin Rivchat /\ link[s].sess = "up"
  /\ Becomes(s, Disconnected(link[s]))
  /\ retrying' = retrying \ {s}
  /\ UNCHANGED <<exists, timers, config>>

-----------------------------------------------------------------------------
\* what /disconnect and /reconnect ask: gg its connection, rivchat the core
HasLink(s) == IF s \in Rivchat THEN link[s].connected
              ELSE link[s].sess # "none"

(***************************************************************************)
(* /disconnect.  If there was a reconnect timer to remove, the command     *)
(* returns without a look at the connection.                               *)
(***************************************************************************)
CmdDisconnect(s) ==
  /\ s \in exists
  /\ IF s \in timers \/ ~HasLink(s)
     THEN UNCHANGED link
     ELSE Becomes(s, Disconnected(link[s]))
  /\ RemoveTimer(s)
  /\ retrying' = retrying \ {s}
  /\ UNCHANGED <<exists, config>>

(***************************************************************************)
(* /reconnect: the connection goes, and a new login starts.  gg's takes    *)
(* the timer along; rivchat's /disconnect, run only when connected, would  *)
(* return early for one (there is none, see NoStrayTimer).                 *)
(***************************************************************************)
CmdReconnect(s) ==
  LET l == IF HasLink(s) THEN Disconnected(link[s]) ELSE link[s]
  IN /\ s \in exists
     /\ \/ /\ s \notin Rivchat
           /\ \E m \in Logins(s, l) : Becomes(s, m)
           /\ RemoveTimer(s)
           /\ retrying' = retrying \ {s}
        \/ /\ s \in Rivchat
           /\ RivchatConnect(s, l)
     /\ UNCHANGED <<exists, config>>

-----------------------------------------------------------------------------
(***************************************************************************)
(* session_remove(): /disconnect for a connected session; then its watches *)
(* and timers go and the plugin frees its connection.  A flock ends with   *)
(* its descriptor; a lock file stays unless the /disconnect removed it.    *)
(***************************************************************************)
RemovedLink(l) ==
  [Fresh EXCEPT !.locked = fileLocks /\ l.locked /\ ~l.connected]

SessionRemoveKeepsTimers(s) ==    \* mutant: no ekg_source_remove_by_data()
  /\ s \in exists /\ exists' = exists \ {s}
  /\ Becomes(s, RemovedLink(link[s]))
  /\ retrying' = retrying \ {s}
  /\ UNCHANGED <<timers, config>>
SessionRemove(s) ==
  /\ s \in exists /\ exists' = exists \ {s}
  /\ Becomes(s, RemovedLink(link[s]))
  /\ timers' = timers \ {s}
  /\ retrying' = retrying \ {s}
  /\ UNCHANGED config

SessionAdd(s) ==
  /\ s \notin exists /\ exists' = exists \cup {s}
  /\ UNCHANGED <<link, timers, config, retrying>>

\* the user turns the session variable auto_reconnect on or off
SetAutoReconnect(s) ==
  /\ s \in exists
  /\ autoReconnect' = IF s \in autoReconnect THEN autoReconnect \ {s}
                      ELSE autoReconnect \cup {s}
  /\ UNCHANGED <<exists, link, timers, fileLocks, retrying>>

\* the user types /session --unlock
CmdUnlock(s) ==
  /\ s \in exists
  /\ Becomes(s, [link[s] EXCEPT !.locked = FALSE])
  /\ UNCHANGED <<exists, timers, config, retrying>>

-----------------------------------------------------------------------------
Init ==
  /\ exists = Sessions
  /\ link = [s \in Sessions |-> Fresh]
  /\ timers = {}
  /\ autoReconnect \in SUBSET Sessions /\ fileLocks \in BOOLEAN
  /\ retrying = {}

Next ==
  \E s \in Sessions :
    \/ CmdConnect(s) \/ CmdDisconnect(s) \/ CmdReconnect(s)
    \/ ReconnectTimer(s)
    \/ ConnSuccess(s) \/ ConnFailed(s) \/ Broken(s) \/ Forced(s)
    \/ SessionRemove(s) \/ SessionAdd(s)
    \/ SetAutoReconnect(s) \/ CmdUnlock(s)

Spec == Init /\ [][Next]_vars

(***************************************************************************)
(* The main loop calls a timer that is due, and an attempt to connect ends *)
(* (the watch of the attempt has a timeout).  The network is not code: we  *)
(* assume that of attempts repeated for ever one succeeds.                 *)
(***************************************************************************)
FairSpec ==
  /\ Spec
  /\ \A s \in Sessions : /\ WF_vars(ReconnectTimer(s))
                         /\ WF_vars(ConnSuccess(s) \/ ConnFailed(s))
                         /\ SF_vars(ConnSuccess(s))

-----------------------------------------------------------------------------
(***************************************************************************)
(* The two bits the core keeps follow the connection the plugin keeps: the *)
(* windows, the queue and every command go by the bits, the data goes by   *)
(* the connection (protocol_connected, protocol_disconnected and the       *)
(* places of the plugins that call them).  Only rivchat's socket may live  *)
(* on with `connected' cleared, see RivchatConnect.                        *)
(***************************************************************************)
LinkAgrees ==
  \A s \in Sessions :
    /\ link[s].connected => link[s].sess = "up"
    /\ link[s].sess = "up" => link[s].connected \/ s \in Rivchat
    /\ link[s].connecting <=> link[s].sess = "connecting"

\* the same without the exception, which rivchat does not keep
BitsFollowLink ==
  \A s \in Sessions : link[s].connected <=> link[s].sess = "up"

(***************************************************************************)
(* A connected session has no reconnect timer left that could fire, and a  *)
(* removed one has none that would call its handler with a freed session   *)
(* (protocol_connected, session_remove).                                   *)
(***************************************************************************)
NoStrayTimer ==
  \A s \in timers : s \in exists /\ ~link[s].connected

(***************************************************************************)
(* With flock()s a session without a connection does not hold its lock, so *)
(* that the only copy of the program is never refused by a lock of its own *)
(* (/session --lock and --unlock around a connection).  gg's logins that   *)
(* fail before the wire do leave it (gg_command_connect); rivchat takes    *)
(* none.                                                                   *)
(***************************************************************************)
LockFreeWhenIdle ==
  ~fileLocks => \A s \in Sure : link[s].sess = "none" => ~link[s].locked

(***************************************************************************)
(* Once the core has taken it upon itself to reconnect a session, a timer  *)
(* or an attempt is under way until the session is connected again or the  *)
(* user or the server ends it: no attempt that fails on the wire stops the *)
(* retries (protocol_disconnected, types NETWORK and FAILURE: "with        *)
(* reconnection").                                                         *)
(***************************************************************************)
Tried(s) == s \in timers \/ link[s].sess = "connecting"

RetryGoesOn == \A s \in retrying \cap Sure : Tried(s)

(***************************************************************************)
(* The same of every attempt, rivchat's that fail before the wire and      *)
(* report that as EKG_DISCONNECT_FAILURE included ("when we fail to        *)
(* connect to server", "with reconnection").                               *)
(***************************************************************************)
FailureIsRetried == \A s \in retrying \ MayFail : Tried(s)

(***************************************************************************)
(* A session the core retries, and whose logins get as far as the wire, is *)
(* connected in the end, unless the user or the server ends the retrying   *)
(* (the reconnect timer comes back after every failed attempt).            *)
(***************************************************************************)
ReconnectsEventually ==
  \A s \in Sure : s \in retrying ~> s \notin retrying

=============================================================================
