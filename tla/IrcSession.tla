---------------------------- MODULE IrcSession ----------------------------
(***************************************************************************)
(* One irc account: /connect, /disconnect and /reconnect of plugins/irc,   *)
(* the connection starter of ekg/connections.c with its list of servers,   *)
(* the stream of a connection as the plugin sees it (see module Connection *)
(* for the inside), the ERROR and 001 lines of the server, and the core's  *)
(* handlers of "protocol-connected" and "protocol-disconnected" with the   *)
(* reconnect timer.  One thread runs all of it; each callback is an action *)
(* with every handler it calls.                                            *)
(***************************************************************************)
EXTENDS Naturals

CONSTANTS
  Conns,          \* attempts and streams there may be at one time
  None,           \* no stream, a NULL send_stream
  Servers,        \* how many addresses the session variable "server" lists
  AutoReconnect   \* auto_reconnect is neither 0 nor -1

ASSUME IrcAssumption ==
  /\ None \notin Conns
  /\ Servers \in Nat \ {0}
  /\ AutoReconnect \in BOOLEAN

VARIABLES
  connected, connecting,  \* the two bits of the session
  timer,          \* the session has a "reconnect" timer
  conn,           \* per connection: "none", "trying" a server, or "open"
  left,           \* per attempt: servers of the list not tried yet
  out,            \* j->send_stream
  disconnecting,  \* j->disconnecting
  autoreconnecting,   \* j->autoreconnecting
  welcomed,       \* the streams whose 001 has come
  closing,        \* the streams the server is about to close
  retrying,       \* history: the core took it upon itself to reconnect
  returning,      \* history: a /reconnect gave up a connection to get anew
  lagged          \* history: an attempt was begun with the stream of a former
                  \* connection still open, after its ERROR

session == <<connected, connecting, timer>>
streams == <<conn, left, out, welcomed, closing>>
flags == <<disconnecting, autoreconnecting>>
history == <<retrying, returning, lagged>>
vars == <<session, streams, flags, history>>

TypeOK ==
  /\ connected \in BOOLEAN /\ connecting \in BOOLEAN /\ timer \in BOOLEAN
  /\ conn \in [Conns -> {"none", "trying", "open"}]
  /\ left \in [Conns -> 0 .. Servers - 1]
  /\ out \in Conns \cup {None}
  /\ disconnecting \in BOOLEAN /\ autoreconnecting \in BOOLEAN
  /\ welcomed \subseteq Conns /\ closing \subseteq Conns
  /\ retrying \in BOOLEAN /\ returning \in BOOLEAN /\ lagged \in BOOLEAN

Streams == {c \in Conns : conn[c] = "open"}
Attempts == {c \in Conns : conn[c] = "trying"}

-----------------------------------------------------------------------------
(***************************************************************************)
(* irc_handle_disconnect() and the protocol_disconnected() it emits.  The  *)
(* core clears one bit, that of the state it finds; for NETWORK and        *)
(* FAILURE it arms the reconnect timer.  The branch of the plugin that     *)
(* would remove the timer is for STOPPED, a type nothing in it uses.       *)
(***************************************************************************)
DisconnectedForgetful(type) ==    \* mutant: connecting stays as it was
  /\ disconnecting' = FALSE
  /\ connected' = FALSE /\ UNCHANGED connecting
  /\ LET again == AutoReconnect /\ type \in {"NETWORK", "FAILURE"}
     IN timer' = (timer \/ again) /\ retrying' = again
DisconnectedOnce(type) ==         \* mutant: no timer after a second failure
  /\ disconnecting' = FALSE
  /\ connected' = FALSE /\ connecting' = (connected /\ connecting)
  /\ LET again == AutoReconnect /\ type \in {"NETWORK", "FAILURE"}
     IN timer' = (timer \/ (again /\ ~retrying)) /\ retrying' = again
Disconnected(type) ==
  /\ disconnecting' = FALSE
  /\ connected' = FALSE /\ connecting' = (connected /\ connecting)
  /\ LET again == AutoReconnect /\ type \in {"NETWORK", "FAILURE"}
     IN timer' = (timer \/ again) /\ retrying' = again

(***************************************************************************)
(* irc_command_connect(), irc_really_connect(): refused while one of the   *)
(* bits is set; else the starter begins with the first server of the list. *)
(***************************************************************************)
ReallyConnectAlways ==            \* mutant: `connecting' is not looked at
  IF connected
  THEN UNCHANGED <<connecting, conn, left, autoreconnecting, lagged>>
  ELSE /\ lagged' = (lagged \/ closing # {})
       /\ \E c \in Conns :
            /\ conn[c] = "none"
            /\ conn' = [conn EXCEPT ![c] = "trying"]
            /\ left' = [left EXCEPT ![c] = Servers - 1]
       /\ connecting' = TRUE /\ autoreconnecting' = TRUE
ReallyConnect ==
  IF connecting \/ connected
  THEN UNCHANGED <<connecting, conn, left, autoreconnecting, lagged>>
  ELSE /\ lagged' = (lagged \/ closing # {})
       /\ \E c \in Conns :
            /\ conn[c] = "none"
            /\ conn' = [conn EXCEPT ![c] = "trying"]
            /\ left' = [left EXCEPT ![c] = Servers - 1]
       /\ connecting' = TRUE /\ autoreconnecting' = TRUE

CmdConnect ==
  /\ ReallyConnect
  /\ UNCHANGED <<connected, timer, out, welcomed, closing, disconnecting,
                 retrying, returning>>

(***************************************************************************)
(* irc_command_disconnect(): QUIT to the server of a connected session,    *)
(* who will close the stream.  An attempt is not cancelled, the            *)
(* cancellable of the starter was never stored, and the timer is left.     *)
(***************************************************************************)
Quit ==
  IF connected \/ connecting \/ autoreconnecting
  THEN /\ disconnecting' = TRUE
       /\ closing' = IF connected /\ out # None THEN closing \cup {out}
                     ELSE closing
  ELSE UNCHANGED <<disconnecting, closing>>

CmdDisconnect ==
  /\ Quit
  /\ retrying' = FALSE /\ returning' = FALSE
  /\ UNCHANGED <<session, conn, left, out, welcomed, autoreconnecting,
                 lagged>>

\* irc_command_reconnect(): if there is something to end the /disconnect of
\* above, and then /connect, with the bits as they are
CmdReconnect ==
  /\ IF connecting \/ connected THEN Quit
     ELSE UNCHANGED <<disconnecting, closing>>
  /\ ReallyConnect
  /\ returning' = (returning \/ connected)
  /\ UNCHANGED <<connected, timer, out, welcomed, retrying>>

\* protocol_reconnect_handler(): "/connect", and the timer is over
ReconnectTimer ==
  /\ timer /\ timer' = FALSE
  /\ ReallyConnect
  /\ UNCHANGED <<connected, out, welcomed, closing, disconnecting,
                 retrying, returning>>

-----------------------------------------------------------------------------
\* failed_async_connect() with servers left: setup_async_connect()
NextServerPast(c) ==              \* mutant: the end of the list not looked at
  /\ conn[c] = "trying"
  /\ left' = [left EXCEPT ![c] = @ - 1]
  /\ UNCHANGED <<session, conn, out, welcomed, closing, flags, history>>
NextServer(c) ==
  /\ conn[c] = "trying" /\ left[c] > 0
  /\ left' = [left EXCEPT ![c] = @ - 1]
  /\ UNCHANGED <<session, conn, out, welcomed, closing, flags, history>>

\* failed_async_connect() after the last one: irc_handle_connect_failure()
AttemptFails(c) ==
  /\ conn[c] = "trying" /\ left[c] = 0
  /\ conn' = [conn EXCEPT ![c] = "none"]
  /\ Disconnected("FAILURE")
  /\ UNCHANGED <<left, out, welcomed, closing, autoreconnecting, returning,
                 lagged>>

\* succeeded_async_connect(): irc_handle_connect() adds the connection
AttemptSucceeds(c) ==
  /\ conn[c] = "trying"
  /\ conn' = [conn EXCEPT ![c] = "open"]
  /\ left' = [left EXCEPT ![c] = 0]
  /\ out' = c
  /\ UNCHANGED <<session, welcomed, closing, flags, history>>

\* the line 001, irc_c_init() and protocol_connected()
WelcomeKeepsTimer(c) ==           \* mutant: the reconnect timer stays
  /\ conn[c] = "open" /\ c \notin welcomed \cup closing
  /\ welcomed' = welcomed \cup {c}
  /\ connected' = TRUE /\ connecting' = FALSE /\ UNCHANGED timer
  /\ autoreconnecting' = FALSE
  /\ retrying' = FALSE /\ returning' = FALSE
  /\ UNCHANGED <<conn, left, out, closing, disconnecting, lagged>>
Welcome(c) ==
  /\ conn[c] = "open" /\ c \notin welcomed \cup closing
  /\ welcomed' = welcomed \cup {c}
  /\ connected' = TRUE /\ connecting' = FALSE /\ timer' = FALSE
  /\ autoreconnecting' = FALSE
  /\ retrying' = FALSE /\ returning' = FALSE
  /\ UNCHANGED <<conn, left, out, closing, disconnecting, lagged>>

\* the line ERROR, irc_c_error(): only a session that is connecting is told
ErrorLine(c) ==
  /\ conn[c] = "open" /\ c \notin closing
  /\ closing' = closing \cup {c}
  /\ IF connecting THEN Disconnected("FAILURE")
     ELSE UNCHANGED <<session, disconnecting, retrying>>
  /\ UNCHANGED <<conn, left, out, welcomed, autoreconnecting, returning,
                 lagged>>

(***************************************************************************)
(* irc_handle_failure(), before the connection is removed.  An EOF after   *)
(* a /disconnect is the user's doing, all else is the network's.           *)
(***************************************************************************)
EndKeepsStream(c, type) ==        \* mutant: send_stream is not reset
  /\ conn[c] = "open"
  /\ conn' = [conn EXCEPT ![c] = "none"]
  /\ welcomed' = welcomed \ {c} /\ closing' = closing \ {c}
  /\ Disconnected(type)
  /\ UNCHANGED <<left, out, autoreconnecting, returning,
                 lagged>>
End(c, type) ==
  /\ conn[c] = "open"
  /\ conn' = [conn EXCEPT ![c] = "none"]
  /\ welcomed' = welcomed \ {c} /\ closing' = closing \ {c}
  /\ out' = None
  /\ Disconnected(type)
  /\ UNCHANGED <<left, autoreconnecting, returning,
                 lagged>>

Eof(c) == End(c, IF disconnecting THEN "USER" ELSE "NETWORK")
Broken(c) == End(c, "NETWORK")

-----------------------------------------------------------------------------
Init ==
  /\ connected = FALSE /\ connecting = FALSE /\ timer = FALSE
  /\ conn = [c \in Conns |-> "none"] /\ left = [c \in Conns |-> 0]
  /\ out = None /\ welcomed = {} /\ closing = {}
  /\ disconnecting = FALSE /\ autoreconnecting = FALSE
  /\ retrying = FALSE /\ returning = FALSE /\ lagged = FALSE

Next ==
  \/ CmdConnect \/ CmdDisconnect \/ CmdReconnect \/ ReconnectTimer
  \/ \E c \in Conns :
       \/ NextServer(c) \/ AttemptFails(c) \/ AttemptSucceeds(c)
       \/ Welcome(c) \/ ErrorLine(c) \/ Eof(c) \/ Broken(c)

Spec == Init /\ [][Next]_vars

(***************************************************************************)
(* The main loop calls a timer that is due, GIO ends every attempt, and a  *)
(* server closes the stream after a QUIT or an ERROR.  The network is not  *)
(* code: of attempts repeated for ever one gets through to the 001.        *)
(***************************************************************************)
FairSpec ==
  /\ Spec
  /\ WF_vars(ReconnectTimer)
  /\ \A c \in Conns :
       /\ WF_vars(NextServer(c) \/ AttemptFails(c) \/ AttemptSucceeds(c))
       /\ WF_vars(c \in closing /\ Eof(c))
       /\ SF_vars(AttemptSucceeds(c))
       /\ SF_vars(Welcome(c))

-----------------------------------------------------------------------------
(***************************************************************************)
(* As long as no attempt began before the server closed the stream of a    *)
(* former connection, however the commands, the timer and the network      *)
(* interleave, the account never has two attempts or streams at a time,    *)
(* whose events would be taken for each other's (irc_command_connect,      *)
(* protocol_reconnect_handler, irc_handle_failure).                        *)
(***************************************************************************)
OneAtATime ==
  ~lagged =>
    \A c, d \in Conns : conn[c] # "none" /\ conn[d] # "none" => c = d

(***************************************************************************)
(* The bits of the core agree with the starter and the stream: connected   *)
(* from the 001 to the end of the stream, connecting from the start of the *)
(* attempt to the 001, the failure or the ERROR.                           *)
(***************************************************************************)
BitsAgree ==
  ~lagged =>
    /\ connected <=> \E c \in Streams : c \in welcomed
    /\ connecting <=> \/ Attempts # {}
                      \/ \E c \in Streams : c \notin welcomed \cup closing

(***************************************************************************)
(* The stream the commands write to is an open one, never one that has     *)
(* ended and been freed (j->send_stream), and a connected session has one. *)
(***************************************************************************)
CommandsHaveAStream ==
  /\ out # None => conn[out] = "open"
  /\ connected /\ ~lagged => out # None

(***************************************************************************)
(* A connected session has no reconnect timer that could fire.             *)
(***************************************************************************)
NoStrayTimer == connected /\ ~lagged => ~timer

(***************************************************************************)
(* Once the core has taken it upon itself to reconnect, a timer, an        *)
(* attempt or a stream that has yet to be welcomed is there until the      *)
(* session is connected or the user says stop, even if the ends of an old  *)
(* and the events of a new connection mix.                                 *)
(***************************************************************************)
RetryGoesOn ==
  retrying => timer \/ Attempts # {} \/ \E c \in Streams : c \notin welcomed

\* ... and it ends well
ReconnectsEventually == retrying ~> ~retrying

(***************************************************************************)
(* /reconnect disconnects from the server and connects again.              *)
(***************************************************************************)
ReconnectReconnects == returning ~> ~returning

=============================================================================
