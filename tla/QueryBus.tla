------------------------------ MODULE QueryBus ------------------------------
(***************************************************************************)
(* The queries that connect the core and the plugins (ekg/plugins.c), and  *)
(* the plugins that come, go and change priority while queries are being   *)
(* emitted (plugin_register, plugin_unregister, /plugin).                  *)
(*                                                                         *)
(* query_emit() walks a list and calls the handlers on it.  A handler may  *)
(* do what any command does: emit further queries, load and unload plugins *)
(* and scripts, change priorities.  One list is modelled, a bucket of the  *)
(* hash table: the set of the queries on it and, for each, the set of      *)
(* those ahead of it.                                                      *)
(***************************************************************************)
EXTENDS Integers, Sequences, FiniteSets

CONSTANTS
  Plugins,
  Core,           \* plugin == NULL: the handlers of the core itself
  Names,          \* the names of queries that share the bucket, numbered in
                  \* the order in which a plugin connects to them
  Handles(_),     \* the names that a plugin, or the core, connects to
  Scripting,      \* a plugin whose scripts connect and disconnect, and only they
  Default(_),     \* the priority of a plugin's class
  MaxPrio,        \* bound: the priorities are 1 .. MaxPrio
  Limit,          \* how deep query_emit_inner() nests: 32
  MaxActs         \* bound: what the handlers of one emission do between them

ASSUME QueryBusAssumption ==
  /\ Core \notin Plugins /\ IsFiniteSet(Plugins)
  /\ Names \subseteq Nat /\ IsFiniteSet(Names) /\ Handles(Scripting) = {}
  /\ \A p \in Plugins \cup {Core} : Handles(p) \subseteq Names
  /\ \A p \in Plugins : Default(p) \in 1 .. MaxPrio
  /\ MaxPrio \in Nat \ {0} /\ Limit \in Nat \ {0} /\ MaxActs \in Nat

VARIABLES
  loaded,         \* plugins that are registered
  prio,           \* plugin_t.prio; that of the core is below all
  bucket,         \* the queries on the list
  ahead,          \* per query, those ahead of it on the list
  stack,          \* query_emit() calls under way, the innermost one last
  loading,        \* where plugin_load() runs for a /plugin command: the depth
                  \* of the handler that gave it, 0 for the user
  sorted,         \* nothing was appended since the last queries_reconnect()
  missed,         \* handlers that an emission passed over (for the properties)
  crashed         \* freed memory was used

plugins == <<loaded, prio, loading>>
list == <<bucket, ahead>>
vars == <<plugins, list, stack, sorted, missed, crashed>>

Queries == [plugin : Plugins \cup {Core}, name : Names]

(***************************************************************************)
(* An emission stands at a query whose handler is running.  It has called  *)
(* some; steady are those that were connected all the time; freed is said  *)
(* of the query it stands at, resorted of the list it walks: what it has   *)
(* called is then forgotten.                                               *)
(***************************************************************************)
Emissions == [name : Names, only : Plugins \cup {Core}, at : Queries,
              called : SUBSET Queries, again : BOOLEAN, steady : SUBSET Queries,
              freed : BOOLEAN, resorted : BOOLEAN, acts : 0 .. MaxActs]

TypeOK ==
  /\ loaded \subseteq Plugins
  /\ prio \in [Plugins \cup {Core} -> 0 .. MaxPrio]
  /\ bucket \subseteq Queries /\ ahead \in [Queries -> SUBSET bucket]
  /\ stack \in Seq(Emissions) /\ Len(stack) <= Limit
  /\ missed \subseteq Queries
  /\ loading \subseteq 0 .. Limit
  /\ sorted \in BOOLEAN /\ crashed \in BOOLEAN

\* whom query_emit() calls: only = Core stands for plugin == NULL, everybody
MatchesByHash(q, n, only) == only \in {Core, q.plugin}      \* mutant: no strcmp()
Matches(q, n, only) == q.name = n /\ only \in {Core, q.plugin}

Matching(n, only) == {q \in bucket : Matches(q, n, only)}
FirstOf(S) == CHOOSE q \in S : \A r \in S \ {q} : q \in ahead[r]

\* those after q on the list that an emission is still to call
FollowingAll(q, n, only) ==       \* mutant: the search starts at the head
  Matching(n, only) \ {q}
Following(q, n, only) == {r \in Matching(n, only) : q \in ahead[r]}

(***************************************************************************)
(* queries_reconnect(), list_resort3(): from the head on, each query goes  *)
(* before the first that has no higher priority, so that those of equal    *)
(* priority change order.                                                  *)
(***************************************************************************)
Resorted(qs, before, pr) ==
  [q \in Queries |-> IF q \notin qs THEN {}
     ELSE {r \in qs \ {q} : \/ pr[r.plugin] > pr[q.plugin]
                            \/ pr[r.plugin] = pr[q.plugin] /\ q \in before[r]}]

-----------------------------------------------------------------------------
(***************************************************************************)
(* A command is given by the user, between emissions, or by the handler    *)
(* that is running; of the emissions s, which the command may change, the  *)
(* handler's own has one act less to do.  While it loads a plugin, queries *)
(* are emitted and other plugins may be loaded, but it does nothing else.  *)
(***************************************************************************)
Busy == stack # <<>>
Top == stack[Len(stack)]
Below == SubSeq(stack, 1, Len(stack) - 1)
MayAct == ~crashed /\ (Busy => Top.acts < MaxActs)
Idle == Len(stack) \notin loading
Acted(s) ==
  [i \in DOMAIN s |-> IF i = Len(s) THEN [s[i] EXCEPT !.acts = @ + 1] ELSE s[i]]

\* query_emit(); query_emit_inner() refuses the first handler if too deep
Emit(n, only) ==
  /\ MayAct /\ only \in loaded \cup {Core}
  /\ Matching(n, only) # {} /\ Len(stack) < Limit
  /\ LET q == FirstOf(Matching(n, only))
     IN stack' = Append(Acted(stack),
          [name |-> n, only |-> only, at |-> q, called |-> {q}, again |-> FALSE,
           steady |-> Matching(n, only),
           freed |-> FALSE, resorted |-> FALSE, acts |-> 0])
  /\ UNCHANGED <<plugins, list, sorted, missed, crashed>>

\* the handler returns other than -1: on to g->next
Return ==
  /\ ~crashed /\ Busy /\ Idle /\ ~Top.freed
  /\ LET next == Following(Top.at, Top.name, Top.only)
         q == FirstOf(next)
     IN IF next = {}
        THEN /\ stack' = Below
             /\ missed' = IF Top.resorted THEN missed
                          ELSE missed \cup (Top.steady \ Top.called)
        ELSE /\ stack' = Append(Below,
                           [Top EXCEPT !.at = q,
                              !.called = IF Top.resorted THEN {} ELSE @ \cup {q},
                              !.again = @ \/ q \in Top.called])
             /\ UNCHANGED missed
  /\ UNCHANGED <<plugins, list, sorted, crashed>>

\* ... or -1: nobody else is called
Veto ==
  /\ ~crashed /\ Busy /\ Idle
  /\ stack' = Below
  /\ UNCHANGED <<plugins, list, sorted, missed, crashed>>

\* the query was freed while its handler ran: g->next is NULL or nonsense
ReturnFreed ==
  /\ ~crashed /\ Busy /\ Idle /\ Top.freed
  /\ \/ stack' = Below /\ UNCHANGED crashed
     \/ stack' = <<>> /\ crashed' = TRUE
  /\ UNCHANGED <<plugins, list, sorted, missed>>

\* query_connect(): appended, whatever the priority
Of(p, names) == {[plugin |-> p, name |-> n] : n \in names}
Appended(p, names) ==
  [q \in Queries |-> IF q \in Of(p, names)
                     THEN bucket \cup {r \in Of(p, names) : r.name < q.name}
                     ELSE ahead[q]]
Connect(p, names) ==
  bucket' = bucket \cup Of(p, names) /\ ahead' = Appended(p, names)

\* queries_reconnect() of a list, with the priorities pr and the emissions s
Reconnect(qs, before, pr, s) ==
  /\ bucket' = qs /\ ahead' = Resorted(qs, before, pr) /\ sorted' = TRUE
  /\ stack' = [i \in DOMAIN s |-> [s[i] EXCEPT !.resorted = TRUE,
                                              !.called = {}, !.steady = {}]]

\* plugin_load() up to plugin_init(): it registers and connects
Enter(p, k) ==
  /\ MayAct /\ p \in Plugins \ loaded
  /\ loaded' = loaded \cup {p}
  /\ prio' = [prio EXCEPT ![p] = k]
  /\ Connect(p, Handles(p)) /\ sorted' = FALSE
  /\ stack' = Acted(stack)
  /\ UNCHANGED <<missed, crashed>>

\* a plugin line of the configuration, at the start, at /reload or in that of
\* another plugin; or one that is loaded by default
LoadFromConfig(p, k) == Enter(p, k) /\ UNCHANGED loading

(***************************************************************************)
(* /plugin +p: the rest of plugin_load() emits set-vars-default,           *)
(* session-added and config-postinit over the list as it is; only then     *)
(* everything is resorted.                                                 *)
(***************************************************************************)
LoadBegins(p, k) ==
  Idle /\ Enter(p, k) /\ loading' = loading \cup {Len(stack)}

LoadEnds ==
  /\ ~crashed /\ ~Idle
  /\ loading' = loading \ {Len(stack)}
  /\ Reconnect(bucket, ahead, prio, stack)
  /\ UNCHANGED <<loaded, prio, missed, crashed>>

\* queries leave the list and are freed, also those whose handlers are running
Leave(gone) ==
  /\ bucket' = bucket \ gone
  /\ ahead' = [q \in Queries |-> IF q \in gone THEN {} ELSE ahead[q] \ gone]
  /\ stack' = Acted([i \in DOMAIN stack |->
                       IF stack[i].at \in gone
                       THEN [stack[i] EXCEPT !.freed = TRUE,
                                             !.called = {}, !.steady = {}]
                       ELSE [stack[i] EXCEPT !.called = @ \ gone,
                                             !.steady = @ \ gone]])

\* /plugin -p, plugin_unregister()
RemovedSkips(p) ==                \* mutant: steps over the one after each removed
  {q \in bucket : q.plugin = p /\ \A r \in ahead[q] :
                    r.plugin = p => ahead[q] # ahead[r] \cup {r}}
Removed(p) == {q \in bucket : q.plugin = p}
Unload(p) ==
  /\ MayAct /\ Idle /\ p \in loaded
  /\ loaded' = loaded \ {p}
  /\ prio' = [prio EXCEPT ![p] = 0]       \* set anew when it is loaded again
  /\ Leave(Removed(p))
  /\ UNCHANGED <<loading, sorted, missed, crashed>>

\* a script is loaded and connects, or is unloaded: script_query_bind(),
\* script_query_unbind()
Bind(n) ==
  /\ MayAct /\ Idle /\ Scripting \in loaded
  /\ [plugin |-> Scripting, name |-> n] \notin bucket
  /\ Connect(Scripting, {n}) /\ sorted' = FALSE
  /\ stack' = Acted(stack)
  /\ UNCHANGED <<plugins, missed, crashed>>

Unbind(n) ==
  /\ MayAct /\ Idle /\ [plugin |-> Scripting, name |-> n] \in bucket
  /\ Leave({[plugin |-> Scripting, name |-> n]})
  /\ UNCHANGED <<plugins, sorted, missed, crashed>>

\* /plugin p k: plugin_register() again and queries_reconnect()
SetPrioLate(p, k) ==              \* mutant: queries_reconnect() comes first
  /\ MayAct /\ Idle /\ p \in loaded
  /\ prio' = [prio EXCEPT ![p] = k]
  /\ Reconnect(bucket, ahead, prio, Acted(stack))
  /\ UNCHANGED <<loaded, loading, missed, crashed>>
SetPrio(p, k) ==
  /\ MayAct /\ Idle /\ p \in loaded
  /\ prio' = [prio EXCEPT ![p] = k]
  /\ Reconnect(bucket, ahead, prio', Acted(stack))
  /\ UNCHANGED <<loaded, loading, missed, crashed>>

\* /plugin --default
DefaultPrios ==
  /\ MayAct /\ Idle
  /\ prio' = [p \in Plugins \cup {Core} |-> IF p \in loaded THEN Default(p)
                                            ELSE prio[p]]
  /\ Reconnect(bucket, ahead, prio', Acted(stack))
  /\ UNCHANGED <<loaded, loading, missed, crashed>>

-----------------------------------------------------------------------------
Init ==
  /\ loaded = {}
  /\ prio = [p \in Plugins \cup {Core} |-> 0]
  /\ bucket = Of(Core, Handles(Core))
  /\ ahead = [q \in Queries |-> IF q \notin bucket THEN {}
                                ELSE {r \in bucket : r.name < q.name}]
  /\ stack = <<>>
  /\ loading = {} /\ sorted = FALSE
  /\ missed = {}
  /\ crashed = FALSE

Next ==
  \/ \E n \in Names, only \in Plugins \cup {Core} : Emit(n, only)
  \/ Return \/ Veto \/ ReturnFreed
  \/ LoadEnds \/ DefaultPrios
  \/ \E n \in Names : Bind(n) \/ Unbind(n)
  \/ \E p \in Plugins, k \in 1 .. MaxPrio :
       LoadBegins(p, k) \/ LoadFromConfig(p, k) \/ SetPrio(p, k)
  \/ \E p \in Plugins : Unload(p)

\* handlers and commands are functions of one thread, and return
Spec == /\ Init /\ [][Next]_vars
        /\ WF_vars(Return \/ Veto \/ ReturnFreed \/ LoadEnds)

-----------------------------------------------------------------------------
\* "pozwala ustawic kolejnosc przetwarzania instrukcji przez pluginy", the
\* priority sets the order of the plugins (commands-pl.txt)
PriorityOrders ==
  \A q \in bucket : \A r \in ahead[q] : prio[r.plugin] >= prio[q.plugin]

(***************************************************************************)
(* From the end of a /plugin command on, until something connects (a       *)
(* script, a plugin that is being loaded or that a line of the             *)
(* configuration names), a query meets the plugins in the order of their   *)
(* priorities, whatever is unloaded or given another priority meanwhile.   *)
(***************************************************************************)
InOrder == sorted => PriorityOrders

(***************************************************************************)
(* plugin_unregister() leaves no query of the plugin, whose code is about  *)
(* to be unmapped, and resorting and unloading others lose none of the     *)
(* rest.                                                                   *)
(***************************************************************************)
ListedAreLoaded ==
  /\ \A q \in bucket : q.plugin \in loaded \cup {Core}
  /\ \A p \in loaded \cup {Core} :
       \A n \in Handles(p) : [plugin |-> p, name |-> n] \in bucket

(***************************************************************************)
(* An emission calls the handlers that match, in the order of the list,    *)
(* each once, and those that were connected all the time without           *)
(* exception, although plugins come and go meanwhile; unless the list is   *)
(* resorted or the very handler that runs is freed.                        *)
(***************************************************************************)
EachOnce ==
  /\ missed = {}
  /\ \A i \in DOMAIN stack :
       LET e == stack[i]
       IN ~e.freed /\ ~e.resorted =>
            /\ ~e.again
            /\ \A q \in e.called : q.name = e.name /\ e.only \in {Core, q.plugin}
            /\ \A q \in e.steady :
                 q \in e.called <=> q = e.at \/ q \in ahead[e.at]

\* every emission ends, however its handlers nest, or the program crashes
EmissionsEnd == Busy ~> ~Busy

=============================================================================
