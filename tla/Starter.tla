------------------------------- MODULE Starter -------------------------------
(***************************************************************************)
(* The connection starter (ekg/connections.c): from the address to bind to *)
(* and the SRV lookup of a domain through the servers of a list to, with   *)
(* TLS, the handshake, until the plugin is told that it is connected or    *)
(* that it is not.  One starter is one behaviour.                          *)
(*                                                                         *)
(* The servers are numbered in the order of the list; the pointer          *)
(* current_server is the number it stands at, one past the last at the     *)
(* NULL that ends the list, NoList if it is NULL itself, and Dangling if    *)
(* the list it points into was freed.                                      *)
(***************************************************************************)
EXTENDS Integers, Sequences

CONSTANTS MaxServers     \* bound: servers on a list

ASSUME StarterAssumption == MaxServers \in Nat

VARIABLES
  conf,           \* what the plugin set
  servers,        \* the length of the list now; -1 if there is none
  at,             \* current_server
  op,             \* what is under way
  tried,          \* what was tried
  told,           \* the callbacks called
  freed,          \* the starter is freed
  cancelled,      \* the plugin cancelled
  crashed         \* the program ended: a NULL, an assertion, a double free

starterVars == <<conf, servers, at, op, tried, told, freed, cancelled, crashed>>

Confs == [servers : -1 .. MaxServers, domain : BOOLEAN, bind : BOOLEAN,
          tls : BOOLEAN]
NoList == 0
Dangling == -1
Targets == 0 .. MaxServers + 1      \* 0 are the SRV records

StarterTypeOK ==
  /\ conf \in Confs
  /\ servers \in -1 .. MaxServers + 1
  /\ at \in -1 .. MaxServers + 2
  /\ op \in {"new", "connect", "handshake", "none"}
  /\ tried \in Seq(Targets)
  /\ told \in Seq({"connected", "failed"})
  /\ freed \in BOOLEAN /\ cancelled \in BOOLEAN /\ crashed \in BOOLEAN

-----------------------------------------------------------------------------
Crash ==
  /\ crashed' = TRUE /\ op' = "none"
  /\ UNCHANGED <<at, tried, told, freed>>

Tell(what) ==
  /\ told' = Append(told, what) /\ freed' = TRUE /\ op' = "none"
  /\ UNCHANGED <<at, tried, crashed>>

\* setup_async_connect() from the place i on a list of n, with something left
TryServer(i) ==
  /\ op' = "connect" /\ tried' = Append(tried, i) /\ at' = i + 1
  /\ UNCHANGED <<told, freed, crashed>>

\* failed_async_connect() with the pointer at i and a list of n: a
\* cancellation tries no more, NULL is followed, and what a freed list reads
\* as is NULL, an address to crash on, or the list that took its place
FailedAtOnce(i, n, stop) ==       \* mutant: the first failure is the last
  Tell("failed")
FailedSilent(i, n, stop) ==       \* mutant: the end of the list is not told
  IF i > n THEN op' = "none" /\ UNCHANGED <<at, tried, told, freed, crashed>>
  ELSE Tell("failed")
FailedTwice(i, n, stop) ==        \* mutant: the last failure is told, not freed
  IF i > n /\ ~stop
  THEN told' = Append(told, "failed") /\ UNCHANGED <<at, op, tried, freed, crashed>>
  ELSE Tell("failed")
Failed(i, n, stop) ==
  \/ /\ stop \/ (i > n /\ i # NoList) \/ i = Dangling
     /\ Tell("failed")
  \/ /\ ~stop /\ i \in {NoList, Dangling}
     /\ Crash
  \/ /\ ~stop /\ i <= n /\ i # NoList
     /\ TryServer(IF i = Dangling THEN 1 ELSE i)

(***************************************************************************)
(* ekg_connection_starter_run().  A bind address that is not found counts  *)
(* as a failed attempt, right away.  With a domain the SRV records are     *)
(* tried first; a list that is not there or empty is replaced by the       *)
(* domain, but current_server is left where it was.                        *)
(***************************************************************************)
Run ==
  /\ op = "new"
  /\ LET n == conf.servers
         begin == IF n = -1 THEN NoList ELSE 1
     IN \/ /\ conf.bind
           /\ UNCHANGED servers
           /\ Failed(begin, n, FALSE)
        \/ /\ conf.domain
           /\ servers' = IF n < 1 THEN 1 ELSE n
           /\ at' = CASE n = -1 -> NoList [] n = 0 -> Dangling [] OTHER -> 1
           /\ op' = "connect" /\ tried' = Append(tried, 0)
           /\ UNCHANGED <<told, freed, crashed>>
        \/ /\ ~conf.domain
           /\ UNCHANGED servers
           /\ IF n < 1 THEN Crash ELSE TryServer(1)
  /\ UNCHANGED <<conf, cancelled>>

\* done_async_connect(), the connection is there
Connects ==
  /\ op = "connect"
  /\ IF conf.tls
     THEN op' = "handshake" /\ UNCHANGED <<at, tried, told, freed, crashed>>
     ELSE Tell("connected")
  /\ UNCHANGED <<conf, servers, cancelled>>

\* ... or is not, also because it was cancelled
Fails ==
  /\ op = "connect"
  /\ \/ Failed(at, servers, FALSE)
     \/ cancelled /\ Failed(at, servers, TRUE)
  /\ UNCHANGED <<conf, servers, cancelled>>

\* ekg_gnutls_async_handshake(): the handshake succeeds
Shakes ==
  /\ op = "handshake" /\ Tell("connected")
  /\ UNCHANGED <<conf, servers, cancelled>>

(***************************************************************************)
(* ekg_gnutls_handle_handshake_failure(), of the handshake or of the       *)
(* stream: the next server is tried; the connection is freed, and then     *)
(* used or freed again by done_async_read(), which may end the program.    *)
(***************************************************************************)
ShakeFails ==
  /\ op = "handshake"
  /\ Failed(at, servers, FALSE) \/ Crash
  /\ UNCHANGED <<conf, servers, cancelled>>

\* the plugin cancels; neither the handshake nor a callback looks at it
Cancel ==
  /\ op \in {"connect", "handshake"} /\ ~cancelled
  /\ cancelled' = TRUE
  /\ UNCHANGED <<conf, servers, at, op, tried, told, freed, crashed>>

-----------------------------------------------------------------------------
StarterInit ==
  /\ conf \in Confs
  /\ servers = conf.servers
  /\ at = 0
  /\ op = "new"
  /\ tried = <<>> /\ told = <<>>
  /\ freed = FALSE /\ cancelled = FALSE /\ crashed = FALSE

StarterNext == Run \/ Connects \/ Fails \/ Shakes \/ ShakeFails \/ Cancel

\* the starter is run, and GIO answers; a handshake may hang for ever
StarterSpec ==
  /\ StarterInit /\ [][StarterNext]_starterVars
  /\ WF_starterVars(Run) /\ WF_starterVars(Connects \/ Fails)

-----------------------------------------------------------------------------
(***************************************************************************)
(* The plugin is told one thing, once, and the starter is freed with it,   *)
(* through bind, SRV, servers, handshakes and cancellations; as long as    *)
(* something is under way neither has happened.                            *)
(***************************************************************************)
OneOutcome ==
  /\ Len(told) <= 1
  /\ freed <=> told # <<>>
  /\ told # <<>> => op = "none"
  /\ op = "none" /\ ~crashed => told # <<>>

(***************************************************************************)
(* The servers are tried in the order of the list, after the SRV records,  *)
(* none twice and none skipped, and the plugin only hears of a failure     *)
(* when the last one failed, unless it cancelled.                          *)
(***************************************************************************)
AllTried ==
  /\ tried # <<>> => tried[1] \in {0, 1}
  /\ \A i \in 1 .. Len(tried) - 1 : tried[i + 1] = tried[i] + 1
  /\ \A i \in DOMAIN tried : tried[i] <= servers
  /\ told = <<"failed">> /\ ~cancelled =>
       \/ servers < 1
       \/ conf.servers = 0
       \/ (tried # <<>> /\ tried[Len(tried)] = servers)

\* without TLS something is told in the end, or the program has ended
ToldEventually == (~conf.tls) ~> (told # <<>> \/ crashed)

\* "fallback to domainname lookup if 'servers' not set" (connections.c:514)
FallsBack ==
  conf.domain /\ ~conf.bind /\ ~conf.tls /\ conf.servers < 1 /\ op = "none"
    => told = <<"connected">> \/ cancelled \/ \E i \in DOMAIN tried : tried[i] = 1

=============================================================================
