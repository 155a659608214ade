# TLA+ verification of EKG2

EKG2 is an instant messenger for the terminal: a core (`ekg/`) that keeps the
user's accounts, contacts, windows and queued messages, and plugins
(`plugins/`) for protocols (gg, jabber, irc, icq, polchat, nntp, rivchat),
user interfaces, logging and scripting.  This directory holds TLA+ models of
the parts whose correctness depends on the order of events, the TLC runs that
check them and TLAPS proofs about them.  `PROJECT.json` maps every definition
to the lines it is translated from, and lists runs, mutants, findings, hazards
and theorems.

Contents: [the system](#the-system) · [modules](#modules-and-the-code) ·
[runs](#runs) · [divergences](#where-code-and-documentation-disagree) ·
[proofs](#proofs) · [limits](#what-is-not-modelled-and-why) ·
[plan](#plan)

## The system

One thread runs everything: the GLib main loop (`ekg/sources.c`) calls
handlers of timers, watches and asynchronous I/O; handlers execute commands
(text, such as `/connect`) and emit *queries* (named events, `ekg/plugins.c`)
whose handlers run at once, nested.  So a handler with all it calls is one
step, and the interleavings are those of handlers: user commands, timers that
are due, answers of servers, ends of streams.  Only three things interleave at
a finer grain: a loop that runs code of others while it walks a list (the queue
flush, the emission of a query), asynchronous operations of GIO (connect, read, flush), and several
copies of the program sharing a directory (locks).

| Component | State | Operations | What makes it correct | What is hard |
|---|---|---|---|---|
| message queue, `ekg/msgqueue.c` | list of messages not delivered or not acked, files of `~/.ekg2/queue` | add, flush at connect, remove by number (ack) or uid, clear, write at exit, read at start | nothing promised is lost, nothing sent twice, order kept, flush ends | the flush executes `/msg`, which appends to the list being walked; acks matched by number only; restarts |
| session links, `ekg/protocol.c`, `plugins/gg` | `connected`, `connecting`, reconnect timer, libgadu's session | `/connect`, `/disconnect`, `/reconnect`, connected, failed, broken, timer, session add and remove | the bits agree with the connection, retries go on, no stray timer | the timer is still on the list while its handler runs; failures inside commands |
| session locks, `ekg/sessions.c` | lock file, flock, `lock_fd` | `/session --lock`, `--unlock`, death of a copy | one copy uses a session at a time; nobody locked out for ever | system calls of several processes |
| connections, `ekg/connections.c` | streams, `wr_buffer`, pending flush, cancellable | add, write, flush callback, read callback, remove | output in order, once, without gaps; no write waits for nothing; nothing freed is used | asynchronous flush against writes and against the end of the stream |
| irc session, `plugins/irc` | the bits, the streams, `disconnecting`, `autoreconnecting` | commands, attempt callbacks, `001`, `ERROR`, EOF | one connection at a time, bits agree, retries go on | the end of an old stream against a new attempt |
| irc people, `plugins/irc/people.c`, `misc.c` | channels, people, who is on what, the windows' userlists | JOIN, NAMES, PART, KICK, QUIT, NICK, MODE, closing and opening windows, disconnect | the lists agree with each other and with the server | four lists that point at each other; nicks change owners; windows come and go |
| windows, `ekg/windows.c`, `ekg/sessions.c` | window list, numbers, current window, each window's session | new, kill, switch, next, swap, move, cycle, session add, remove and switch | numbers unique and ordered, a current window exists, sessions agree | renumbering; copies of one fact in three places |
| plugins and queries, `ekg/plugins.c`, `ekg/queries.c` | plugin list, priorities, handler lists | load, unload, bind, unbind, priority, emit | every handler bound is called once, none after its unload, in order of priority | unloading while a query is emitted; nested emissions |
| connection starter, `ekg/connections.c` | servers left, what is under way | bind address, SRV lookup, server list, TLS handshake, cancel | every server tried once; the plugin told once | four callers of one failure routine; a bare pointer into a list |
| main loop, `ekg/sources.c` | timers, watches, children | add, remove, call | a removed source is not called; lines are handed on whole and in order | removal inside a handler; reads that cut lines anywhere; hang-ups |
| `/exec`, `ekg/commands.c` | child, two pipes, shared info | start, line, end of either pipe | every line handled, the result sent | which pipe ends first |
| contact lists, `ekg/userlist.c`, `ekg/metacontacts.c` | contacts, resources, metacontacts | add, remove, status | the best resource or item is shown | resources come and go |
| other streams, `plugins/jabber`, `icq`, `polchat` | stream, login state, receive buffers | login, TLS, change of server, end | one stream feeds one buffer | a late end of an old stream |

The other parts (text formatting, themes, completion, configuration files,
user interfaces, logging, interpreters and so on) are listed in
`PROJECT.json` with the reason each is left out.

How they interact: a protocol plugin's stream (*connections*) delivers the
lines that make it emit `protocol-connected` and `protocol-disconnected`
(*session links*), the first of which flushes the *message queue* through the
plugin's own `/msg`; the second arms a timer of the *main loop* and executes
`/session --unlock` (*session locks*).  `protocol-message-ack` removes from
the queue.  The *irc session*'s lines fill the lists of *irc people*, who show
in the *windows*; the *starter* makes every stream.  A handler of a *query* may
execute `/plugin`, which changes the list the query walks.  `session_remove()`
cuts through all of them.

## Modules and the code

Each component has a module with its state, one action per command, event or
callback, and its properties; instances for TLC are in `MC…` modules where
they need definitions; proofs are in `…Proofs`.

**MsgQueue** (`ekg/msgqueue.c`; the handlers of connected and ack in
`ekg/protocol.c`; the `/msg` of gg, jabber and icq).  The list only grows at
its tail, so it is a set of entries with insertion numbers; `cursor` is where
the loop of `msg_queue_flush()` stands.  The flush is not atomic: `FlushSkip`,
`FlushSend`, `FlushEnd` are its iterations, and while it runs no other action
may (`Idle`), which is what one thread means.  `SendAndQueue` is the `/msg` of
gg, which queues every message until its ack, numbered by libgadu;
`SendOrQueue` that of the plugins without acks, which queue only while
offline.  `Quit` and `Start` are the way through the files.  `owed` is a history
variable: pairs of message and nick accepted and not yet settled.

**SessionLink** (`ekg/protocol.c`, `plugins/gg/commands.c`,
`plugins/gg/gg.c`, `ekg/sessions.c`; the commands of
`plugins/rivchat/rivchat.c`).  `link[s]` is the pair of bits, the plugin's
connection and the lock of a session; `ProtocolDisconnected`, `ReconnectLater`
and `RemoveTimer` are the core functions, shared by the actions that call them.
`MayFail` are accounts of gg whose login may fail before anything goes on the
wire, `Rivchat` those of rivchat, whose `/connect` asks neither whether the
session is connected nor for a lock, has no attempts (a UDP socket is bound or
it is not) and reports a failure as a disconnection.  `/session --lock` may
fail open (`LockGoesOn`).  `retrying` is history: the sessions the core took
upon itself to reconnect.

**SessionLock** (`/session --lock`, `--unlock` in `ekg/sessions.c`).  Copies
are processes, and each system call is an action: `open`, `flock`,
`flock(LOCK_UN)` with `close`, `unlink`, and the death of a copy.  A lock file
is an inode that outlives its name.  `LockFails` is every way in which
`--lock` returns 0 without a lock (no path, `open()` or `flock()` failing
otherwise than for a lock); `bare` is history, the copies that use the session
after one, and `trespass` that one of those has unlinked the file on its way
out.  (`LockInit`, `LockNext`, `LockSpec`,
`lockVars` and, below, `StarterSpec` and its like carry the names of their
modules, so that one module of proofs can speak of two.)

**Connection** (`ekg/connections.c`) is one plain connection: GIO's output
stream, `wr_buffer` (`backlog`), the pending flush, and reads whose callbacks
may write or drop the connection.  Pieces of output are numbered; `wire` is
what has gone out.  **OrderedStream** is what it promises: what was said goes
out in order, once, without gaps, until the connection ends.  `Connection`
instantiates it (`Ordered`) with `said` as the sequence of all numbers up to
the last, and `KeepsOrder` is the refinement.

**IrcSession** (`plugins/irc/irc.c`, `plugins/irc/misc.c`, the starter of
`ekg/connections.c`) composes the session's bits and timer with the attempts
of the starter (`NextServer` walks the list of servers) and the streams.
A stream appears only as "open" here, since its inside is `Connection`.
`lagged` is history: an attempt began while the stream of a former connection
was still open after its ERROR.  Nothing in the code prevents that; the safety
properties speak of behaviours in which it has not happened yet, the
properties of retries of all.

**IrcPeople** (`plugins/irc/people.c`, the handlers of `misc.c`).  One line of
the server is one action, which changes both the truth (`members`,
`operators`) and what the plugin makes of it: `j->channels` with `onchan`,
`j->people` with `chans`, and `roster`, the userlist of the channel's window.
People are addresses, so that a freed one that is still pointed at can be told
from another with the same nick.  `AddPerson` and `Remove` are
`irc_add_person_int()` and `irc_del_person_channel_int()`.  `window[c]` tells a
window that `chan->window` points at from one of the same name made later.

**Windows** (`ekg/windows.c`, `session_add()`, `session_remove()` and
`/session --sw` of `ekg/sessions.c`, `/query`).  Windows are addresses on a
list: `windows` is the set of them and `ahead[w]` those before `w`.  `id` is the
number by which commands find them.  `Free` is what the search of
`window_new()` for a free number comes to on a sorted list; `MCWindows` has the
loop itself and an ASSUME that compares the two on every set of small numbers.
`current`, the window's `session` and `sessionCurrent` are three copies of one
fact that every action has to keep together.  `CmdNew` has two disjuncts, for
`window_new()` makes a window or finds one (`__debug`, `__status`, `__current`,
or the one with the target), and writes its session directly; `SetSession` is
`window_session_set()`, which takes debug and status along with each other.

**QueryBus** (`ekg/plugins.c`, `/plugin` of `ekg/commands.c`,
`ekg/scripts.c`).  A stack of emissions walks one bucket of the hash table of
queries, which is a set with, for each query, those `ahead` of it; `Resorted` is
the order `list_resort3()` leaves, and `MCQueryBus` compares it with a loop of
insertions for every list and all priorities of the instance.  Names of queries
are numbered in the order in which a plugin connects to them.  While a handler runs (`Busy`) it may do what a command does: emit
(`Emit`), load, unload, bind, unbind, set priorities, each of which is applied
to the list and to every emission under way by `Acted`.  `Return` goes on to
`g->next`; `ReturnFreed` is what a read of the freed query may do.
A `/plugin +p` is two actions: `LoadBegins` registers and connects, `LoadEnds`
resorts, and between them `plugin_load()` emits queries over the list as it is,
whose handlers act as any (`loading` are the depths of the stack at which a load
is under way; at one of them nothing but emissions and further loads is
possible, see `Idle`).  `LoadFromConfig` is a `plugin` line of a configuration
or a plugin loaded by default, which never sorts.

**Starter** (`ekg/connections.c`): one starter from
`ekg_connection_starter_run()` to the callback of the plugin.  `at` is
`current_server`, with values for NULL and for a pointer into a freed list;
`Failed` is `failed_async_connect()` with its three branches, reached from four
places.

**Exec** (`/exec` of `ekg/commands.c`; `watch_handle_line()` and
`watch_old_wrapper()` of `ekg/sources.c`).  A child writes pieces of text and
newlines to two pipes; a read takes some of what is there.  `Lines` and `Rest`
are what all rounds of the loop of `watch_handle_line()` do together: a line is
what lies between two newlines, found by their places (`Ends`, `Nth`), and the
rest what follows the last; `MCExec` has the loop round by round and an ASSUME
that the two agree on every sequence of up to five units.  `Destroyed` is the removal of a watch with the call of its handler that
releases its reference.

## Runs

Twelve runs: ten pass, two show a disagreement between the code and what its
comments or documentation say.

| Run | Instance | Shows |
|---|---|---|
| `queue` | 1 gg and 1 jabber account, 2 nicks, 2 messages, 6 entries, 1 restart; 145 591 states | nothing owed is lost; numbers of entries are live; nothing twice, nothing out of order; a flush ends and leaves other sessions' entries alone |
| `link` | 3 accounts: gg whose logins reach the wire, gg whose logins may not, rivchat; both kinds of lock, which may fail open; 23 872 states | bits agree, but for rivchat's socket, see below; no stray timer; an flock is free while idle; retries go on and succeed |
| `lock_both` | 3 copies, 3 inodes, both modes, locks that fail open; 7 254 states | file locks exclude the copies that have one, until a copy without unlinks the file; flocks are held by exactly the copies in use, those without excepted |
| `conn` | 5 pieces; the plugin may write in any callback, hang up, the socket may break | types, no output waits without a flush, all goes out, refinement of OrderedStream |
| `irc` | 2 servers, 3 connections, streams that may outlive their ERROR; 14 305 states | until an attempt begins beside an old stream: one connection at a time, bits agree, commands have a stream, no stray timer; in any case the retries go on and succeed |
| `people` | 2 channels, 3 nicks, 3 addresses; 1 072 968 states | what the plugin believes is what the server says; the lists agree; windows list who is there |
| `windows` | 3 windows beside debug, status and contacts, 2 sessions of different protocols, numbers up to 4; 139 721 states | a current window exists; numbers are unique and ordered; `session_current` is the session of the current window |
| `bus` | core, a protocol, an interpreter with scripts; 2 names in a bucket, 2 priorities, emissions 2 deep with 2 acts of their handlers, loads that emit before they sort; 543 292 states | each handler once; none of an unloaded plugin; order of priority from the end of a `/plugin` until something connects; emissions end |
| `starter` | up to 3 servers, or none, or an empty list; domain, bind address, TLS, each or not; 688 states | one outcome told once; all servers tried in order; something is told in the end |
| `exec` | 3 units on either pipe, reads of 2; 76 033 states | lines whole, in order, once; the info is held while a watch is there; the end of a pipe is noticed |
| `windows_removed`, `exec_result` | | violated, see below |

Bounds.  Two messages are needed for an order and for one to be queued again
while another waits; two nicks for an ack of the wrong one; two sessions for a
flush to skip entries; six entries so that both messages can go through two
flushes; one restart puts entries through the files, and the second start
would read files no different from the first.  `MaxEntries` also bounds
connections: one is made only while there are numbers left for the flush.
Sessions of SessionLink do not share state except the lists they are found in,
so one of each kind suffices (gg whose logins reach the wire, gg whose logins
may fail before it, rivchat), and a removal of the wrong timer needs two.
SessionLock's errors need one copy that leaves, one that comes between and one
that comes after.  Five pieces are one in the stream, one being flushed, two
that wait and one more; `ReadEnd` writes at most two last pieces, which is
what its two callbacks can add.  An irc list of two servers has a first, a
next and a last.  Three connections let an old stream, the current one and
the attempt after it exist together.

Two channels let somebody leave one and stay on the other, which is when the
lists may come apart; three nicks are ours, another's, and the one he changes
to, and each needs an address.  Three windows beside the fixed ones are one
before, one at and one behind the number that is killed or moved, and numbers
up to four leave a gap; two sessions of different protocols make a window's
target refuse one.  In the bus a protocol and a scripting plugin differ in all
that matters (who may bind alone, and when), nesting two deep is an emission
that changes the list another walks, and two acts are one that takes a handler
away and one that brings something else; at the limit of nesting `Emit` is
refused, as `query_emit_inner()` refuses at 32.  Three servers have a first, a
middle and a last.  Three units are a line cut in two by a read and one more;
the buffers of the two pipes share nothing but the info.

Deadlock is checked except where the thing modelled has an end: a `Connection`
that has ended with nothing under way or has used up its pieces, a `Starter`
whose outcome was told, an `Exec` whose pipes are closed, and a `QueryBus`
after a use of freed memory.

Fairness.  `MsgQueue`: weak fairness of the flush loop, a loop of the one
thread that nothing else interrupts.  `SessionLink`, `IrcSession`: weak
fairness of a timer that is due (the main loop calls it) and of the end of an
attempt (the gg watch has a timeout, and GIO ends each connect), of a server's
close after a QUIT or an ERROR; and strong fairness of success, which is no
code but the assumption on the network that of attempts repeated for ever one
gets through.  The mutant that stops arming the timer breaks the property
under the same assumption.  `Connection`: weak fairness of the end of a flush.
`QueryBus`: handlers and commands are functions of the one
thread and return.  `Starter`: GIO answers each connect; a handshake with a
server that says nothing has no timeout in the code, so `ToldEventually` is
claimed without TLS only.  `Exec`: the main loop calls the watches that
`poll()` reports; the child may run for ever.  No fairness is assumed of the
user.

Type invariants that are theorems are repeated only by the runs `conn` and
`irc`; TLC checks the others (`TypeOK`, `LockTypeOK`, `StarterTypeOK`) when they
are added to a module's cfg.

## Where code and documentation disagree

- `windows_removed`: `session_remove()` takes the session's windows to another
  session, by `window_session_cycle()`, while the session to be removed is
  still in the list (`ekg/sessions.c:260`); if it is the first there that suits,
  its windows and `session_current` keep the freed session, against the comment
  at `ekg/sessions.c:222`.
- `exec_result`: the two watches of `/exec` share `i->ref = 2`, and each end
  tests `(i->ref--) > 0` (`ekg/commands.c:578`): the second end finds 1, so the
  result of `-b` is never sent and the info never freed, against
  `docs/commands-pl.txt:212`.

Further disagreements that the models contain, but no run is spent on:

- with several nicks as the target, gg queues one entry per nick and gives each
  the whole list (`plugins/gg/commands.c:799`), so a flush sends the message to
  every nick as often as there are nicks (`SentOncePerConnection` with
  `Targets <- NickLists`);
- an ack removes by number alone (`ekg/msgqueue.c:106`); gg accounts number
  independently, and an ack for one account's message removes another's, as a
  comment at `ekg/protocol.c:891` suspects (`NothingForgotten` with two
  sessions in `Acking`);
- rivchat's `/connect` that finds no socket *inside* the reconnect timer reports
  it while that very timer is on the list, so none is armed
  (`ekg/protocol.c:200`), and the firing one is removed when its handler
  returns: the retries end (`SessionLink!FailureIsRetried`);
- rivchat's `/connect` on a connected session that finds no socket clears
  `connected` while the old socket and its watch live on, and the session goes
  on receiving (`plugins/rivchat/rivchat.c:977-1026`,
  `ekg/protocol.c:178-182`; `SessionLink!BitsFollowLink`); one that does find a
  socket leaks the old one;
- `/session --lock` returns 0 without a lock when it has no path or `open()` or
  `flock()` fails otherwise than for a lock (`ekg/sessions.c:1330-1356`): two
  copies then use one session, and the `--unlock` of the one without a lock
  removes the other's file (`SessionLock!MutualExclusion`, and `FileExcludes`
  without its `~trespass`);
- `/session --unlock` closes before it unlinks (`ekg/sessions.c:1385-1392`); a
  copy that opened the file in between locks an inode without a name, and the
  next one locks another (`SessionLock!MutualExclusion` with flocks);
- at the end of the input the connection is freed although a flush is pending,
  whose callback then reads the freed struct (`ekg/connections.c:76-81` and
  `:159`; `Connection!FreedIsLeftAlone`);
- `/reconnect` of a connected irc session sends QUIT and then executes
  `/connect`, which refuses because the session is still connected
  (`plugins/irc/irc.c:676`; `IrcSession!ReconnectReconnects`);
- a MODE line reads `chan->window->userlist` although the user may have closed
  that window since (`plugins/irc/misc.c:1719`;
  `IrcPeople!ModeFindsWindow`);
- handlers are appended whatever their priority (`ekg/plugins.c:690`), and only
  a `/plugin` command sorts, after the queries that `plugin_load()` emits
  (`ekg/plugins.c:282-318`, `ekg/commands.c:3466-3473`); the `plugin` lines of a
  configuration (`ekg/configfile.c:471-475`), also those read by `/reload`,
  never do.  Until then the priorities say nothing, against
  `docs/commands-pl.txt:429-431` (`QueryBus!PriorityOrders`);
- `/window new __status` gives the status window another session without the
  debug window (`ekg/windows.c:614-623`), against the comment at
  `ekg/windows.c:774` (`Windows!DebugIsStatus`);
- with a domain and no servers, `current_server` is taken before the fallback
  replaces the list (`ekg/connections.c:480`, `:514`), so a lookup of SRV
  records that fails follows NULL or a freed list (`Starter!FallsBack`; no
  plugin in the tree sets a domain);
- a bind address that is not found and no server left frees the starter, whose
  cancellable is then returned (`ekg/connections.c:497`);
- a hang-up removes a watch after one read of at most 1023 bytes, and an
  unfinished last line is dropped (`ekg/sources.c:1441`; `Exec!NothingLost`);
- the command line that `/exec -M`, `-B` and `-C` are to send first is put into
  the buffer of standard error, and comes whenever that has its next event
  (`ekg/commands.c:695`, `docs/commands-pl.txt:215-217`;
  `Exec!PromptIsFirst`);
- a gg login that fails after the lock was taken (no password, no server)
  keeps the lock, and the only copy locks itself out
  (`Logins`; `LockFreeWhenIdle` of all accounts instead of `Sure` shows it);
- `/disconnect` of gg with a reconnect timer armed and an attempt already
  running removes the timer and lets the attempt go on (`CmdDisconnect`);
- `/disconnect` of irc during an attempt cancels `connect_cancellable`, which
  is never assigned: the session connects all the same
  (`IrcSession!CmdDisconnect`);
- `session_remove()` of a connecting session with `session_locks=2` leaves the
  lock file (`RemovedLink`);
- `watch_remove()` does nothing, because `FIXME_WATCHES` is never defined
  (`ekg/sources.c:1567`): watches outlive the descriptors their plugins close
  (not modelled).

A property in parentheses is defined in its module; as an INVARIANT or
PROPERTY of the module's cfg it makes TLC print the behaviour.

## Proofs

TLAPS checks, for all values of the constants:

| Module | Theorem | Says |
|---|---|---|
| MsgQueueProofs | `TypeCorrect` | types, whatever the targets |
| | `PromisesAreKept`, `NumbersStayLive`, `NothingSentTwice` | the safety properties, for one acking account and targets of one nick |
| | `TypedOrderIsSent`, `OthersAreLeft` | the order of what is sent, and the action property of the flush, for any accounts and targets |
| SessionLinkProofs | `TypeCorrect`, `BitsAgree`, `TimersNeverStray` | for any accounts of gg and of rivchat |
| | `IdleLocksAreFree`, `RetriesGoOn` | for accounts of gg whose logins reach the wire, beside any others |
| | `LocksTyped`, `FileLocksExclude`, `FlocksMatchUse` | of SessionLock, for any number of copies; of those, and until then, that the properties name: copies that have a lock, no file unlinked by one that has none |
| ConnectionProofs | `TypeCorrect`, `NothingWaitsForNothing` | for any number of pieces |
| | `Refinement` | `Spec => KeepsOrder`: Connection implements OrderedStream |
| | `StarterTyped`, `OutcomeIsOne`, `EveryServer` | of Starter, for lists of any length |
| IrcSessionProofs | `TypeCorrect` | for any number of servers and connections |
| | `OnlyOne`, `BitsAreRight`, `StreamIsThere`, `TimersNeverStray` | as long as no attempt began beside an old stream |
| | `RetriesGoOn` | always |
| IrcPeopleProofs | `TypeCorrect`, `ViewStaysTrue`, `ListsStayTogether`, `RostersStayRight` | for any channels, nicks and addresses |
| WindowsProofs | `WindowsTyped`, `NumbersAreSorted`, `CurrentIsListed`, `CommandsGoToSession` | for any windows, numbers and sessions |
| QueryBusProofs | `BusTyped`, `HandlersInOrder`, `NoHandlerOutlives`, `EmissionsCallOnce` | for any plugins, names, priorities and depth of nesting |
| ExecProofs | `ExecTyped`, `InfoIsHeld`, `ResultIsNeverSent` | for any output and size of reads |
| | `LinesComeWhole` | the same, in any mode of the command |

The arguments:

- *MsgQueue*.  `SInv` strengthens the three properties.  `Ids` and `Distinct`
  say that an insertion number and a message stand for one entry, and that the
  queue is in memory or in the files, never both.  `FlushInv` is the heart:
  marked entries of the session being flushed are ahead of the cursor and not
  on the wire yet; that is why an entry is sent once and why what the flush
  appends is skipped.  `LiveInv` extends `NumbersAreLive` into the flush: the
  unmarked entries wait for a live ack already, marked ones are about to be
  renumbered.  An ack then removes an entry of its own message only, since
  numbers on one connection are distinct (`WireInv`) and only one account has
  them (`OneAcking`).  Neither that assumption nor `SingleTargets` can be
  dropped: the disagreements above are its counterexamples.  The order needs
  neither: `Ordered` says that a session's marked entries and those the flush
  queued again are each in order, and that what is on the wire or queued again
  comes before what is still marked.
- *SessionLink*.  `IInv` adds that a removed session has no connection and that
  rivchat is never in the middle of an attempt (`Agrees`).
  `RInv` (the predicate `Kept`) adds, per session in `Sure`, that a
  retried session is not up and that an idle one is locked only by a file left
  behind, and then is not retried: the timer's `/connect` is never refused.
  Each step is shown to leave other sessions alone (`OneSession`) and to keep
  its own (`OwnRetry`).
- *SessionLock*.  `LockInv` joins the two properties with: a copy between `open`
  and `flock` has a descriptor, and only copies that use or release the session
  go without a lock (`BareInUse`).
- *Connection*.  `OInv`: as long as the socket works, `wire`, `stream` and
  `backlog` are consecutive runs of one counting sequence that ends at the
  last piece.  The refinement then maps each step to a `Say`, a `Deliver`, a
  `Close` or a stutter.
- *IrcSession*.  `IInv` adds `Marks`: `send_stream` is the only open stream,
  and only open streams are welcomed or closing.
- *IrcPeople*.  The three properties hold together or not at all: a nick that
  is taken is nobody's because the server says so (`ViewIsTruth`) and every
  person is on a channel (`ListsAgree`).  `IInv` adds `Freed` (a freed address
  is on no channel, which is what makes it safe to use again) and
  `ServerIsSane` (the server tells of channels we are on).  `AddKeeps` and
  `RemoveKeeps` say what the two helpers do to the lists; `RightFor(c)` is what
  a step has to show of one channel.
- *Windows*.  `Frame` is about the list, sorted by unique numbers, of which
  only the contacts' floating window has one of the reserved class; `Rest` is
  about the sessions.  Commands find a window by its number, so each lemma on
  the list (`InsertSorted`, `KillFrame`, `SwapFrame`, `MoveFrame`) shows first
  which window that is.  That a finite or natural set has a first member
  (`FirstOfIn`, `LeastNatural`) is not an induction over data: it is taken from
  the well-foundedness of the ordering of finite sets (`WFMin`).
- *QueryBus*.  `Order`: `ahead` is a strict total order of the bucket.  Each
  change of the list keeps it (`ResortedOrder`, `AppendedOrder`, `OffOrder`) and
  keeps every emission on the stack `InStep`: it has called the matching queries
  up to the one it stands at, and those that were connected all the time are
  called if and only if it has passed them.  `missed = {}` (in `Calm`) is then
  what `EachOnce` says of an emission that ends.
- *Exec*.  `Counted`: the references are as many as the watches.  That is why
  the info outlives them, and also why it is never freed (`exec_result`).
  For the lines, `Right` says of each pipe that what was written is a part that
  ends with a line and was handled (`Cut`), followed by the buffer and the pipe.
  A read is right because of `LinesCat`: the lines of `c \o d`, where `c` ends
  with a newline, are those of `c` and then those of `d`.  Its proof counts ends
  of lines (`RankCat`: numbers behind others keep their ranks, further on), not
  rounds of the loop, and so needs no induction.
- *Starter*.  `AtFollows`: while something is under way `current_server` is one
  past the last server tried, or NULL or dangling where nothing of the list was
  tried; the order of the tries and the last of them follow.

The assumptions are those the modules state on their constants (`…Assumption`;
TLC evaluates each) and those named in the theorems.

Every safety invariant and every action property of a passing run is stated by
one of these theorems, with the conditions named above.  Where the
program has a loop over a list (windows by number, `list_resort3()`,
`watch_handle_line()`), the modules say what the loop brings about rather than
what it does round by round, since what a recursion computes for every input
cannot be proved here; that the loop does bring it about is an ASSUME of the
MC module, which TLC evaluates on small inputs.

Only model-checked: those ASSUMEs, and the liveness properties `FlushEnds`, both
`ReconnectsEventually`, `AllGoesOut`, `EmissionsEnd`, `ToldEventually` and
`EndIsNoticed`, since reasoning about fairness needs ENABLED, which the prover
does not handle.  No module uses recursive operators.

## What is not modelled, and why

- *MsgQueue*: `msg_queue_flush()` ignores what `/msg` returns and removes the
  entry; a recipient that no longer resolves is settled (the user is told).  An
  ack of type TEMPFAIL removes as any other (`ekg/protocol.c:888`).  Write
  failures of queue files, and a crash, which loses a queue whose files were
  unlinked at start, are left out: the code does nothing about them.  The
  branch for a message of a session that no longer exists
  (`ekg/msgqueue.c:150-154`) skips it like that of another.  The order of files
  is any (`Listings`), so order is claimed before a restart only.
- *SessionLink*: `/connect` of jabber whose `ekg_connection_starter_run()`
  fails at once leaves `connecting` set; this is jabber's and belongs to the
  planned JabberStream.  gg's conference chats and libgadu itself are external.
  The kind of lock does not change during a behaviour
  (`changed_session_locks()` is left out); `session_locks=0` is a lock that
  always fails open.  nntp, whose commands have guards of their own and neither
  lock nor timer, and rivchat's watch, which ends without a word when
  `recvfrom()` fails, are left out.
- *Connection*: GIO is external, modelled from its use: a buffered stream that
  grows never writes short, one operation is pending at a time, a broken socket
  stays broken.  After the struct is freed its further use is not defined; the
  model records it (`stray`) and goes on without effect.  TLS is planned.
- *IrcSession*: PASS, NICK and USER are written in the connect callback and
  have no state; `session_remove()` is planned.  The safety properties are
  claimed until `lagged`: a server that keeps a stream open beyond the next
  connect makes two streams possible, whose lines nothing tells apart.
- *IrcPeople*: `allow_fake_contacts`, a window given to another account's
  session, scripts that veto a line, NAMES with several prefixes, and the QUIT
  line of oneself are left out; so are bans, modes other than `o` and CTCP.
- *Windows*: only the default `make_window` and `window_session_allow`; no
  negative numbers (`/window move` lets them through), no floating window but
  the contact list, no status window with a target.  `/window new` may return a
  reserved number once the numbers below are used up, which `MaxId` excludes.
  `/window new __contacts`, which finds the floating window, is left out.
  The address of a freed session is not used again.
- *QueryBus*: one bucket and handlers; the sessions, variables, watches and
  timers of an unloaded plugin are not modelled, nor the refusal to unload the
  last user interface, a plugin that refuses to start, or one that is unloaded
  while the rest of `plugin_load()` runs for it beyond what happens to the list.  `list_resort3()` turns equal priorities round, so an
  emission that stands in a list being sorted may skip or repeat a handler:
  `EachOnce` does not speak of those (`resorted`), nor of one whose own query
  was freed (`freed`), where the code reads freed memory, as a comment in
  `plugin_unregister()` knows.
- *Starter*: a failed handshake frees the connection that its caller then uses
  or frees again (`ekg/connections.c:693`); the model lets the program end or go
  on.  Failures inside `ekg_connection_starter_run()` are reported before it
  returns, with the plugin not yet in possession of the cancellable.
- *Exec*: the end of the child as such (`SIGCHLD`), a failure to start it,
  quitting while it runs, a command that is `/exec` again, carriage returns and
  NULs in the output.  Both kinds of `poll()`, which report the end of a pipe as
  readable or not, are behaviours of `HangUp`.
- *Watches*: timers of users (`/at`, `/timer`), watches that write, and the
  reuse of a descriptor by a watch that was not removed are planned.
- The remaining components hold no state whose order of change matters
  (formatting, completion, configuration, recoding, logging, screen drawing), or
  wait for a module of the plan; `PROJECT.json` gives the reason for each.
  Two thirds of the repository's lines are user interfaces, protocol parsing and
  formatting, so the map covers a small share of it by design.

## Plan

Done: MsgQueue, SessionLink, SessionLock, OrderedStream with Connection,
IrcSession, which carry the program's promises to the user; then IrcPeople,
Windows, QueryBus, Starter and Exec.

Next modules:

1. **TlsConnection** (`ekg/connections.c`): the slave connection over a master,
   EOF and flush; refines OrderedStream.
2. **Watches** (`ekg/sources.c`): the output buffer of a watch
   (`watch_handle_write`), whose abstract specification is OrderedStream; a
   descriptor used again by nntp; the timers of `/at` and `/timer`.
3. **StreamSession** (`plugins/polchat`, `plugins/icq`): a late end of an old
   stream and a shared receive buffer; the change of servers at login.
4. **JabberStream** (`plugins/jabber`): TLS, SASL, bind, roster; `connecting`
   after a synchronous failure.
5. **Userlist** with metacontacts, **Presence** (status, auto-away).
6. The Starter in place of `NextServer` in IrcSession; `session_remove()` in
   IrcSession; switching `session_locks` in SessionLock.

Theorems, in this order: that Windows and QueryBus implement an abstract
specification each (a numbered shelf; a set of handlers called once per event);
the refinements of OrderedStream by the watch buffer and by
TlsConnection, when those are modelled.
