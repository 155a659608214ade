----------------------------- MODULE IrcPeople -----------------------------
(***************************************************************************)
(* Who is on which channel of an irc account (plugins/irc/people.c and the *)
(* handlers of JOIN, PART, KICK, QUIT, NICK, MODE and 353 in misc.c).  The *)
(* plugin keeps three lists that point at each other, j->channels with     *)
(* onchan, and j->people with channels, and the core shows a fourth, the   *)
(* userlist of the channel's window, which the user may close and open.    *)
(* A line of the server is one action; members and operators are what is   *)
(* true on the server when it wrote the last line that was read.           *)
(***************************************************************************)
EXTENDS Naturals, FiniteSets

CONSTANTS
  Channels, Nicks,
  People,         \* addresses for people_t
  Nobody          \* no channel is being listed

ASSUME PeopleAssumption ==
  /\ Nobody \notin Channels
  /\ IsFiniteSet(Nicks) /\ IsFiniteSet(People)
  /\ Cardinality(People) >= Cardinality(Nicks)

VARIABLES
  members, operators,   \* the server: nicks on a channel, those with +o
  listing,        \* channel whose 353 lines are coming, and nicks still to come
  myNick,         \* j->nick
  channels,       \* j->channels
  onchan,         \* channel_t.onchan: addresses
  people,         \* j->people: addresses
  nick,           \* people_t.nick
  chans,          \* people_t.channels
  opped,          \* ... of which those whose mode has the operator's bit
  window,         \* per channel: "none", "own" (chan->window), or "other"
  roster          \* the userlist of that window

server == <<members, operators, listing>>
lists == <<channels, onchan, people, nick, chans, opped>>
windows == <<window, roster>>
vars == <<server, lists, windows, myNick>>

TypeOK ==
  /\ members \in [Channels -> SUBSET Nicks]
  /\ operators \in [Channels -> SUBSET Nicks]
  /\ listing \in [chan : Channels \cup {Nobody}, rest : SUBSET Nicks]
  /\ myNick \in Nicks
  /\ channels \subseteq Channels /\ people \subseteq People
  /\ onchan \in [Channels -> SUBSET People]
  /\ nick \in [People -> Nicks]
  /\ chans \in [People -> SUBSET Channels]
  /\ opped \in [People -> SUBSET Channels]
  /\ window \in [Channels -> {"none", "own", "other"}]
  /\ roster \in [Channels -> SUBSET Nicks]

NoListing == [chan |-> Nobody, rest |-> {}]
Quiet == listing = NoListing    \* all the 353 lines of a JOIN come at once
Seen == UNION {members[c] : c \in Channels}     \* who the server tells us of
Find(n) == {p \in people : nick[p] = n}         \* irc_find_person()
Names(c) == {nick[p] : p \in onchan[c]}
Open(c) == window[c] # "none"                   \* window_find_s()

-----------------------------------------------------------------------------
(***************************************************************************)
(* irc_add_person_int(): each of the four lists gets what it lacks.        *)
(***************************************************************************)
AddPerson(n, c, op) ==
  \E p \in IF Find(n) = {} THEN People \ people ELSE Find(n) :
    /\ people' = people \cup {p}
    /\ nick' = [nick EXCEPT ![p] = n]
    /\ onchan' = [onchan EXCEPT ![c] = IF n \in Names(c) THEN @
                                       ELSE @ \cup {p}]
    /\ chans' = [chans EXCEPT ![p] = @ \cup {c}]
    /\ opped' = [opped EXCEPT ![p] = IF op /\ c \notin chans[p] THEN @ \cup {c}
                                     ELSE @]
    /\ roster' = [roster EXCEPT ![c] = IF Open(c) THEN @ \cup {n} ELSE @]

\* irc_add_person(), irc_add_people(): nothing for a channel we are not on
Listed(n, c, op) ==
  IF c \in channels THEN AddPerson(n, c, op)
  ELSE UNCHANGED <<onchan, people, nick, chans, opped, roster>>

(***************************************************************************)
(* irc_del_person_channel_int() for the people ps and the channels cs.     *)
(* Someone left without a channel is freed.                                *)
(***************************************************************************)
RemoveForgetful(ps, cs) ==        \* mutant: the freed person stays on onchan
  LET gone == {p \in ps : chans[p] \subseteq cs}
      of == {nick[p] : p \in ps}
  IN /\ people' = people \ gone
     /\ onchan' = [c \in Channels |-> IF c \in cs THEN onchan[c] \ (ps \ gone)
                                      ELSE onchan[c]]
     /\ chans' = [p \in People |-> IF p \in ps THEN chans[p] \ cs ELSE chans[p]]
     /\ opped' = [p \in People |-> IF p \in ps THEN opped[p] \ cs ELSE opped[p]]
     /\ roster' = [c \in Channels |-> IF c \in cs THEN roster[c] \ of
                                      ELSE roster[c]]
Remove(ps, cs) ==
  LET gone == {p \in ps : chans[p] \subseteq cs}
      of == {nick[p] : p \in ps}
  IN /\ people' = people \ gone
     /\ onchan' = [c \in Channels |-> IF c \in cs THEN onchan[c] \ ps
                                      ELSE onchan[c]]
     /\ chans' = [p \in People |-> IF p \in ps THEN chans[p] \ cs ELSE chans[p]]
     /\ opped' = [p \in People |-> IF p \in ps THEN opped[p] \ cs ELSE opped[p]]
     /\ roster' = [c \in Channels |-> IF c \in cs THEN roster[c] \ of
                                      ELSE roster[c]]

\* irc_del_person_channel(): one person, one channel
DelPersonChannel(n, c) ==
  IF c \in channels /\ Find(n) # {} THEN Remove(Find(n), {c})
  ELSE UNCHANGED <<onchan, people, chans, opped, roster>>

\* irc_del_person(): one person, all his channels
DelPerson(n) ==
  IF Find(n) = {} THEN UNCHANGED <<onchan, people, chans, opped, roster>>
  ELSE \E p \in Find(n) : Remove({p}, chans[p])

\* irc_del_channel(): all who are on it, then it, and its window too if the
\* session variable close_windows is set at that time
DelChannel(c) ==
  IF c \notin channels THEN UNCHANGED <<lists, windows>>
  ELSE /\ Remove(onchan[c], {c})
       /\ channels' = channels \ {c}
       /\ \E close \in BOOLEAN :
            window' = [window EXCEPT ![c] = IF Open(c) /\ ~close THEN "other"
                                            ELSE "none"]
       /\ UNCHANGED nick

-----------------------------------------------------------------------------
\* irc_c_join() for oneself: the window of that name, or a new one
JoinMyself(c) ==
  /\ Quiet /\ myNick \notin members[c]
  /\ \E others \in SUBSET (Nicks \ {myNick}) :
       /\ members' = [members EXCEPT ![c] = others \cup {myNick}]
       /\ \E ops \in SUBSET members'[c] :
            operators' = [operators EXCEPT ![c] = ops]
       /\ listing' = [chan |-> c, rest |-> members'[c]]
  /\ window' = [window EXCEPT ![c] = "own"]
  /\ channels' = channels \cup {c}
  /\ UNCHANGED <<onchan, people, nick, chans, opped, roster, myNick>>

\* irc_c_join() for somebody else
Join(n, c) ==
  /\ Quiet /\ myNick \in members[c] /\ n \notin members[c]
  /\ members' = [members EXCEPT ![c] = @ \cup {n}]
  /\ Listed(n, c, FALSE)
  /\ UNCHANGED <<operators, listing, channels, window, myNick>>

\* irc_c_namerpl(), irc_add_people(), one name at a time
NamesLine(n) ==
  /\ n \in listing.rest
  /\ listing' = IF listing.rest = {n} THEN NoListing
                ELSE [listing EXCEPT !.rest = @ \ {n}]
  /\ Listed(n, listing.chan, n \in operators[listing.chan])
  /\ UNCHANGED <<members, operators, channels, window, myNick>>

\* the user asks with /names, on a channel or not
AskNames(c) ==
  /\ Quiet /\ members[c] # {}
  /\ listing' = [chan |-> c, rest |-> members[c]]
  /\ UNCHANGED <<members, operators, lists, windows, myNick>>

\* irc_c_part(), irc_c_kick(): when it is us, the channel goes, and what the
\* server knows of a channel we are not on does not concern us
Leave(n, c) ==
  /\ Quiet /\ n \in members[c]
  /\ LET away == IF n = myNick THEN members[c] ELSE {n}
     IN /\ members' = [members EXCEPT ![c] = @ \ away]
        /\ operators' = [operators EXCEPT ![c] = @ \ away]
  /\ IF n = myNick
     THEN DelChannel(c)
     ELSE DelPersonChannel(n, c) /\ UNCHANGED <<channels, nick, window>>
  /\ UNCHANGED <<listing, myNick>>

\* irc_c_quit(), irc_del_person()
Quit(n) ==
  /\ Quiet /\ n \in Seen /\ n # myNick
  /\ members' = [c \in Channels |-> members[c] \ {n}]
  /\ operators' = [c \in Channels |-> operators[c] \ {n}]
  /\ DelPerson(n)
  /\ UNCHANGED <<listing, channels, nick, window, myNick>>

\* who is called n is called m now
Renamed(n, m, set) == IF n \in set THEN (set \ {n}) \cup {m} ELSE set

\* irc_nick_change(): the person is renamed in place, and in the windows of
\* the channels he is on
NickChange(n, m) ==
  /\ nick' = [p \in People |-> IF p \in Find(n) THEN m ELSE nick[p]]
  /\ roster' = [c \in Channels |->
                  IF \E p \in Find(n) : c \in chans[p]
                  THEN Renamed(n, m, roster[c]) ELSE roster[c]]

\* irc_c_nick()
NickKeepsMine(n, m) ==            \* mutant: j->nick is not brought up to date
  /\ Quiet /\ n \in Seen /\ m \notin Seen \cup {myNick}
  /\ members' = [c \in Channels |-> Renamed(n, m, members[c])]
  /\ operators' = [c \in Channels |-> Renamed(n, m, operators[c])]
  /\ NickChange(n, m) /\ UNCHANGED myNick
  /\ UNCHANGED <<listing, channels, onchan, people, chans, opped, window>>
Nick(n, m) ==
  /\ Quiet /\ n \in Seen /\ m \notin Seen \cup {myNick}
  /\ members' = [c \in Channels |-> Renamed(n, m, members[c])]
  /\ operators' = [c \in Channels |-> Renamed(n, m, operators[c])]
  /\ NickChange(n, m)
  /\ myNick' = IF n = myNick THEN m ELSE myNick
  /\ UNCHANGED <<listing, channels, onchan, people, chans, opped, window>>

\* irc_c_mode() with +o or -o
Mode(n, c, on) ==
  /\ Quiet /\ myNick \in members[c] /\ n \in members[c]
  /\ operators' = [operators EXCEPT ![c] = IF on THEN @ \cup {n} ELSE @ \ {n}]
  /\ opped' = [p \in People |->
                 IF p \in Find(n) /\ c \in chans[p]
                 THEN IF on THEN opped[p] \cup {c} ELSE opped[p] \ {c}
                 ELSE opped[p]]
  /\ UNCHANGED <<members, listing, channels, onchan, people, nick, chans,
                 windows, myNick>>

-----------------------------------------------------------------------------
\* /window kill: irc_window_kill() sends PART, whose echo comes as Leave
KillWindow(c) ==
  /\ Open(c)
  /\ window' = [window EXCEPT ![c] = "none"]
  /\ roster' = [roster EXCEPT ![c] = {}]
  /\ UNCHANGED <<server, lists, myNick>>

\* /query with the channel's name
OpenWindow(c) ==
  /\ ~Open(c)
  /\ window' = [window EXCEPT ![c] = "other"]
  /\ UNCHANGED <<server, lists, roster, myNick>>

\* irc_free_people()
FreePeopleOnly ==                 \* mutant: the windows keep their userlists
  /\ channels' = {} /\ people' = {}
  /\ onchan' = [c \in Channels |-> {}]
  /\ chans' = [p \in People |-> {}] /\ opped' = chans'
  /\ UNCHANGED <<nick, roster>>
FreePeople ==
  /\ channels' = {} /\ people' = {}
  /\ onchan' = [c \in Channels |-> {}]
  /\ chans' = [p \in People |-> {}] /\ opped' = chans'
  /\ roster' = [c \in Channels |-> IF c \in channels THEN {} ELSE roster[c]]
  /\ UNCHANGED nick

\* irc_handle_disconnect()
Disconnect ==
  /\ members' = [c \in Channels |-> {}] /\ operators' = members'
  /\ listing' = NoListing
  /\ window' = [c \in Channels |-> IF Open(c) THEN "other" ELSE "none"]
  /\ FreePeople
  /\ UNCHANGED myNick

-----------------------------------------------------------------------------
Init ==
  /\ members = [c \in Channels |-> {}] /\ operators = members
  /\ listing = NoListing
  /\ myNick \in Nicks
  /\ channels = {} /\ people = {}
  /\ onchan = [c \in Channels |-> {}]
  /\ nick \in [People -> {myNick}]
  /\ chans = [p \in People |-> {}] /\ opped = chans
  /\ window = [c \in Channels |-> "none"]
  /\ roster = [c \in Channels |-> {}]

Next ==
  \/ \E c \in Channels :
       JoinMyself(c) \/ AskNames(c) \/ KillWindow(c) \/ OpenWindow(c)
  \/ \E n \in Nicks : NamesLine(n) \/ Quit(n)
  \/ \E n \in Nicks, c \in Channels : Join(n, c) \/ Leave(n, c)
  \/ \E n, m \in Nicks : Nick(n, m)
  \/ \E n \in Nicks, c \in Channels, on \in BOOLEAN : Mode(n, c, on)
  \/ Disconnect

Spec == Init /\ [][Next]_vars

-----------------------------------------------------------------------------
(***************************************************************************)
(* What the plugin believes is what the server says: the channels we are   *)
(* on, who else is there as far as the 353 lines have come, and who is an  *)
(* operator, through any order of joins, kicks, changed nicks (our own     *)
(* among them), and nicks that are taken again by others.                  *)
(***************************************************************************)
ViewIsTruth ==
  \A c \in Channels :
    LET told == members[c] \ (IF listing.chan = c THEN listing.rest ELSE {})
    IN /\ c \in channels <=> myNick \in members[c]
       /\ told \subseteq Names(c) /\ Names(c) \subseteq members[c]
       /\ {nick[p] : p \in {q \in onchan[c] : c \in opped[q]}}
            = operators[c] \cap Names(c)

(***************************************************************************)
(* The lists that point at each other agree: nobody freed is on a channel, *)
(* nobody keeps a channel that is gone, nobody is kept without a channel   *)
(* and no nick is two people (irc_del_person_channel_int, irc_nick_change, *)
(* irc_free_people).                                                       *)
(***************************************************************************)
ListsAgree ==
  /\ \A c \in Channels : onchan[c] = {p \in people : c \in chans[p]}
  /\ \A p \in people : chans[p] # {} /\ chans[p] \subseteq channels
  /\ \A p, q \in people : nick[p] = nick[q] => p = q

(***************************************************************************)
(* The window of a channel we are on lists exactly the people on it, one   *)
(* that was opened after it was closed at most those, and the window of a  *)
(* channel that we left or lost lists nobody.                              *)
(***************************************************************************)
RostersAreRight ==
  \A c \in Channels :
    IF c \in channels
    THEN /\ roster[c] \subseteq Names(c)
         /\ window[c] = "own" => roster[c] = Names(c)
    ELSE roster[c] = {}

(***************************************************************************)
(* A MODE line reads chan->window->userlist: the window is one that still  *)
(* exists.                                                                 *)
(***************************************************************************)
ModeFindsWindow ==
  [][\A n \in Nicks, c \in Channels, on \in BOOLEAN :
       Mode(n, c, on) /\ Find(n) # {} => window[c] = "own"]_vars

=============================================================================
