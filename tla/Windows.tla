------------------------------ MODULE Windows ------------------------------
(***************************************************************************)
(* The windows of the user interface (ekg/windows.c) and the sessions they *)
(* belong to (session_add, session_remove and --sw of ekg/sessions.c).     *)
(* The list is kept sorted by number, a window is found by its number, and *)
(* a window, the current window and session_current point at sessions that *)
(* come and go.  A command is one action.                                  *)
(*                                                                         *)
(* The list is the set of the windows on it and, for each, the set of      *)
(* those that stand before it.                                             *)
(***************************************************************************)
EXTENDS Integers, FiniteSetsExt

CONSTANTS
  Handles,            \* addresses for window_t
  Debug, Status,      \* window_debug, window_status
  Contacts,           \* a floating window, as ncurses has one for the contacts
  MaxSession,         \* sessions are 1, 2, ... in the order of their uids
  Kinds,              \* the kinds of uids
  Kind(_),            \* the kind that a session handles
  NoTalk,             \* a window without a target
  MaxId,              \* bound: the numbers that the user gives
  ReservedMin         \* WINDOW_RESERVED_MIN_ID, the number of Contacts

ASSUME WindowsAssumption ==
  /\ {Debug, Status, Contacts} \subseteq Handles
  /\ Debug # Status /\ Contacts \notin {Debug, Status}
  /\ MaxSession \in Nat /\ MaxId \in Nat \ {0, 1}
  /\ ReservedMin \in Nat /\ MaxId < ReservedMin
  /\ NoTalk \notin Kinds /\ \A s \in 1 .. MaxSession : Kind(s) \in Kinds

VARIABLES
  windows,        \* the windows on the list
  ahead,          \* per window, those that stand before it on the list
  id,             \* window_t.id
  talk,           \* window_t.target, by the kind of its uid
  session,        \* window_t.session; 0 is NULL
  current,        \* window_current
  sessions,       \* the sessions there are
  sessionCurrent  \* session_current; 0 is NULL

frame == <<windows, ahead, id, current>>
vars == <<frame, talk, session, sessions, sessionCurrent>>

TypeOK ==
  /\ windows \subseteq Handles /\ ahead \in [Handles -> SUBSET windows]
  /\ id \in [Handles -> 0 .. ReservedMin]
  /\ talk \in [Handles -> Kinds \cup {NoTalk}]
  /\ session \in [Handles -> 0 .. MaxSession]
  /\ current \in Handles
  /\ sessions \subseteq 1 .. MaxSession
  /\ sessionCurrent \in 0 .. MaxSession

First(S) == IF S = {} THEN 0 ELSE Min(S)
At(i) == {w \in windows : id[w] = i}                 \* window_exist()
Fixed == windows \ {Contacts}                        \* those not floating
Before(w) == ahead[w] \ {Contacts}
After(w) == {v \in Fixed : w \in ahead[v]}
FirstOf(S) == CHOOSE w \in S : \A v \in S \ {w} : w \in ahead[v]
LastOf(S) == CHOOSE w \in S : S \ {w} \subseteq ahead[w]

(***************************************************************************)
(* windows_add(), list_add_sorted3(), to a list: w is put behind those at  *)
(* its head whose numbers are all below its own.                           *)
(***************************************************************************)
Insert(list, before, w, num) ==
  LET passed == {v \in list : /\ num[v] < num[w]
                              /\ \A u \in before[v] : num[u] < num[w]}
  IN [v \in Handles |-> IF v = w THEN passed
                        ELSE IF v \in list \ passed THEN before[v] \cup {w}
                        ELSE before[v]]

\* windows_unlink() and windows_remove()
Unlinked(ws) == [v \in Handles |-> IF v \in ws THEN {} ELSE ahead[v] \ ws]

(***************************************************************************)
(* window_new(), the search for a number, "because windows are sorted by   *)
(* id": the first gap from 2 on; none if that is past the bound MaxId.     *)
(***************************************************************************)
Free == {i \in 2 .. MaxId : At(i) = {} /\ \A j \in 2 .. i - 1 : At(j) # {}}

\* window_new() with the number i
Create(w, i, t, s) ==
  /\ id' = [id EXCEPT ![w] = i]
  /\ windows' = windows \cup {w}
  /\ ahead' = Insert(windows, ahead, w, id')
  /\ talk' = [talk EXCEPT ![w] = t]
  /\ session' = [session EXCEPT ![w] = s]

\* window_switch() to w, which the same command may have made, renumbered or
\* given another session
SwitchEarly(w) ==                 \* mutant: before its session is written
  /\ current' = w
  /\ sessionCurrent' = IF id'[w] # 0 /\ session[w] # 0 THEN session[w]
                       ELSE sessionCurrent
SwitchTo(w) ==
  /\ current' = w
  /\ sessionCurrent' = IF id'[w] # 0 /\ session'[w] # 0 THEN session'[w]
                       ELSE sessionCurrent

-----------------------------------------------------------------------------
\* /window <number>, /window switch, last, active
CmdSwitch(i) ==
  /\ \E w \in At(i) \ {Contacts} : UNCHANGED <<id, session>> /\ SwitchTo(w)
  /\ UNCHANGED <<windows, ahead, talk, sessions>>

\* window_next(): after the last comes the status window
CmdNext ==
  /\ UNCHANGED <<id, session>>
  /\ SwitchTo(IF After(current) = {} THEN Status ELSE FirstOf(After(current)))
  /\ UNCHANGED <<windows, ahead, talk, sessions>>

\* window_prev(): the debug window is passed over
Prev ==
  IF Before(current) = {} THEN LastOf(Fixed)
  ELSE IF id[LastOf(Before(current))] = 0 THEN LastOf(Fixed)
       ELSE LastOf(Before(current))
CmdPrev ==
  /\ UNCHANGED <<id, session>> /\ SwitchTo(Prev)
  /\ UNCHANGED <<windows, ahead, talk, sessions>>

(***************************************************************************)
(* /window new, with a target or without.  window_new() finds a window     *)
(* that there is: __debug, __status, $ and __current, or the one with the  *)
(* target.  New or found, it is given the session of the current window,   *)
(* or the first, not by window_session_set() but directly.                 *)
(***************************************************************************)
CmdNew ==
  /\ LET s == IF session[current] # 0 THEN session[current]
              ELSE First(sessions)
     IN \/ \E i \in Free, w \in Handles \ windows, t \in Kinds \cup {NoTalk} :
             Create(w, i, t, s) /\ SwitchTo(w)
        \/ \E w \in {Debug, Status, current}
                   \cup {v \in Fixed : talk[v] # NoTalk} :
             /\ session' = [session EXCEPT ![w] = s]
             /\ UNCHANGED <<windows, ahead, id, talk>>
             /\ SwitchTo(w)
  /\ UNCHANGED sessions

\* /query, or a message with make_window: a window for one more contact of s
Query(s) ==
  /\ s \in sessions
  /\ \E i \in Free, w \in Handles \ windows :
       /\ Create(w, i, Kind(s), s)
       /\ SwitchTo(w) \/ UNCHANGED <<current, sessionCurrent>>
  /\ UNCHANGED sessions

(***************************************************************************)
(* window_kill() and the window_switch() after it.  With sort_windows the  *)
(* numbers after that of the window go down by one.  What is freed is set  *)
(* to zero, so that TLC does not tell one freed window from another.       *)
(***************************************************************************)
KillStays(w, sort) ==             \* mutant: no window_prev() before
  /\ w \in windows \ {Debug, Status, Contacts}
  /\ windows' = windows \ {w} /\ ahead' = Unlinked({w})
  /\ id' = [v \in Handles |-> IF v = w THEN 0
                              ELSE IF sort /\ v \in Fixed
                                      /\ id[v] > 1 /\ id[v] > id[w]
                              THEN id[v] - 1 ELSE id[v]]
  /\ talk' = [talk EXCEPT ![w] = NoTalk]
  /\ session' = [session EXCEPT ![w] = 0]
  /\ UNCHANGED sessions
  /\ SwitchTo(current)
Kill(w, sort) ==
  /\ w \in windows \ {Debug, Status, Contacts}
  /\ windows' = windows \ {w} /\ ahead' = Unlinked({w})
  /\ id' = [v \in Handles |-> IF v = w THEN 0
                              ELSE IF sort /\ v \in Fixed
                                      /\ id[v] > 1 /\ id[v] > id[w]
                              THEN id[v] - 1 ELSE id[v]]
  /\ talk' = [talk EXCEPT ![w] = NoTalk]
  /\ session' = [session EXCEPT ![w] = 0]
  /\ UNCHANGED sessions
  /\ SwitchTo(IF w = current THEN Prev ELSE current)

\* /window swap: window_move(), and a new window for a number not in use
Swap(from, to) ==
  /\ \E w \in At(from), v \in IF At(to) = {} THEN Handles \ windows ELSE At(to) :
       /\ id' = [id EXCEPT ![w] = to, ![v] = from]
       /\ windows' = windows \cup {v}
       /\ ahead' = LET rest == windows \ {w, v}
                   IN Insert(rest \cup {w},
                             Insert(rest, Unlinked({w, v}), w, id'), v, id')
       /\ IF v \in windows THEN UNCHANGED <<talk, session>>
          ELSE /\ talk' = [talk EXCEPT ![v] = NoTalk]
               /\ session' = [session EXCEPT ![v] = 0]
       /\ SwitchTo(w)
  /\ UNCHANGED sessions

\* /window move: window_real_move() shifts those between if the number is
\* in use
MoveInPlace(from, to) ==          \* mutant: not taken out and put in again
  /\ \E w \in At(from) :
       /\ id' = [v \in Handles |->
                   IF v = w THEN to
                   ELSE IF v \notin windows \/ At(to) = {} THEN id[v]
                   ELSE IF to <= id[v] /\ id[v] < from THEN id[v] + 1
                   ELSE IF from < id[v] /\ id[v] <= to THEN id[v] - 1
                   ELSE id[v]]
       /\ UNCHANGED ahead
       /\ UNCHANGED session /\ SwitchTo(w)
  /\ UNCHANGED <<windows, talk, sessions>>
Move(from, to) ==
  /\ \E w \in At(from) :
       /\ id' = [v \in Handles |->
                   IF v = w THEN to
                   ELSE IF v \notin windows \/ At(to) = {} THEN id[v]
                   ELSE IF to <= id[v] /\ id[v] < from THEN id[v] + 1
                   ELSE IF from < id[v] /\ id[v] <= to THEN id[v] - 1
                   ELSE id[v]]
       /\ ahead' = Insert(windows \ {w}, Unlinked({w}), w, id')
       /\ UNCHANGED session /\ SwitchTo(w)
  /\ UNCHANGED <<windows, talk, sessions>>

-----------------------------------------------------------------------------
(***************************************************************************)
(* window_session_set() of the windows ws.  If that changes the session of *)
(* debug or status, it is set for the other one, too.                      *)
(***************************************************************************)
Pair == {Debug, Status}
SetSession(ws, s) ==
  LET all == IF \E w \in ws \cap Pair : session[w] # s THEN ws \cup Pair
             ELSE ws
  IN [w \in Handles |-> IF w \in all THEN s ELSE session[w]]

\* window_session_cycle() with window_session_allow = 1: the next session
\* after s, from the first on after the last, that handles the target
NextSession(s, t) ==
  LET good == {k \in sessions \ {s} : t = NoTalk \/ Kind(k) = t}
      later == {k \in good : k > s}
  IN IF s \in sessions /\ later # {} THEN Min(later) ELSE First(good)

\* the key that cycles the sessions of the current window
Cycle ==
  /\ LET s == NextSession(session[current], talk[current])
     IN /\ s # 0
        /\ session' = SetSession({current}, s)
        /\ sessionCurrent' = s
  /\ UNCHANGED <<frame, talk, sessions>>

\* /session --sw: a window with a talk is left for the status window
SessionSwitch(s) ==
  /\ s \in sessions /\ session[current] # s
  /\ LET w == IF talk[current] # NoTalk THEN Status ELSE current
     IN current' = w /\ session' = SetSession({w}, s)
  /\ sessionCurrent' = s
  /\ UNCHANGED <<windows, ahead, id, talk, sessions>>

\* session_add(), of a session whose address nothing points at any more
SessionAdd(s) ==
  /\ s \notin sessions /\ sessionCurrent # s
  /\ \A w \in windows : session[w] # s
  /\ sessions' = sessions \cup {s}
  /\ LET first == session[current] = 0 /\ current \in {Debug, Status}
         set == (IF first THEN {current} ELSE {})
                  \cup {w \in windows : session[w] = 0 /\ talk[w] = Kind(s)}
     IN /\ session' = SetSession(set, s)
        /\ sessionCurrent' = IF current \in set \/ sessionCurrent = 0 THEN s
                             ELSE sessionCurrent
  /\ UNCHANGED <<frame, talk>>

(***************************************************************************)
(* session_remove(): the windows of the session get another one by         *)
(* window_session_cycle(), which looks for it from the first session on,   *)
(* because theirs was set to NULL before, and in a list that still holds   *)
(* the session to be removed.  Debug takes status along, and status debug. *)
(***************************************************************************)
SessionRemove(s) ==
  /\ s \in sessions
  /\ LET with == {w \in windows : session[w] = s}
         next(w) == IF Cardinality(sessions) > 1 THEN NextSession(0, talk[w])
                    ELSE 0
         along == IF \E w \in with \cap Pair : next(w) # 0 THEN Pair ELSE {}
         sc == IF sessionCurrent = s THEN 0 ELSE sessionCurrent
     IN /\ session' = [w \in Handles |-> IF w \in with \cup along THEN next(w)
                                         ELSE session[w]]
        /\ sessionCurrent' = IF /\ current \in with \cup along
                                /\ session'[current] # 0
                                /\ current \in with
                                   \/ session'[current] # session[current]
                             THEN session'[current] ELSE sc
  /\ sessions' = sessions \ {s}
  /\ UNCHANGED <<frame, talk>>

-----------------------------------------------------------------------------
Init ==
  /\ windows = {Debug, Status, Contacts}
  /\ ahead = [w \in Handles |-> CASE w = Status -> {Debug}
                                  [] w = Contacts -> {Debug, Status}
                                  [] OTHER -> {}]
  /\ id = [w \in Handles |-> CASE w = Status -> 1 [] w = Contacts -> ReservedMin
                               [] OTHER -> 0]
  /\ talk = [w \in Handles |-> NoTalk]
  /\ session = [w \in Handles |-> 0]
  /\ current = Status
  /\ sessions = {} /\ sessionCurrent = 0

Numbers == 2 .. MaxId

Next ==
  \/ \E i \in 0 .. MaxId : CmdSwitch(i)
  \/ CmdNext \/ CmdPrev \/ CmdNew \/ Cycle
  \/ \E s \in 1 .. MaxSession :
       Query(s) \/ SessionSwitch(s) \/ SessionAdd(s) \/ SessionRemove(s)
  \/ \E w \in Handles, sort \in BOOLEAN : Kill(w, sort)
  \/ \E from, to \in Numbers : from # to /\ (Swap(from, to) \/ Move(from, to))

Spec == Init /\ [][Next]_vars

-----------------------------------------------------------------------------
(***************************************************************************)
(* The current window is one of the list, whatever was killed, moved or    *)
(* renumbered ("okno aktualne, zawsze na cos musi wskazywac", windows.c).  *)
(***************************************************************************)
CurrentIsThere == current \in Fixed

(***************************************************************************)
(* The numbers, by which every command finds its window, are unique and    *)
(* grow along the list, and 0 and 1 stay those of debug and status, through*)
(* the renumbering of kill, swap and move and the search for a free number.*)
(***************************************************************************)
Numbered ==
  /\ \A v, w \in windows : v # w => id[v] # id[w]
  /\ \A v, w \in windows : v \in ahead[w] <=> id[v] < id[w]
  /\ {Debug, Status} \subseteq windows /\ id[Debug] = 0 /\ id[Status] = 1

(***************************************************************************)
(* The session that commands are given to, session_current, is that of the *)
(* current window, if that has one and is not the debug window, through    *)
(* any order of switching, new and removed sessions and windows.           *)
(***************************************************************************)
SessionsAgree ==
  session[current] # 0 /\ current # Debug => sessionCurrent = session[current]

(***************************************************************************)
(* Not so: "let's sync window_status->session with window_debug->session"  *)
(* (windows.c).  /window new __status sets the one without the other.      *)
(***************************************************************************)
DebugIsStatus == session[Debug] = session[Status]

(***************************************************************************)
(* When a session is removed, the windows and session_current let go of it.*)
(***************************************************************************)
NoFreedSession ==
  /\ \A w \in windows : session[w] \in sessions \cup {0}
  /\ sessionCurrent \in sessions \cup {0}

=============================================================================
