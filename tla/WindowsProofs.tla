--------------------------- MODULE WindowsProofs ---------------------------
(***************************************************************************)
(* Proofs about Windows, for any number of windows, numbers and sessions:  *)
(* the list stays sorted by unique numbers, the current window is on it,   *)
(* and the session that commands are given to is that of the current       *)
(* window.                                                                 *)
(***************************************************************************)
EXTENDS Windows, FiniteSetTheorems, WellFoundedInduction, TLAPS

(***************************************************************************)
(* The list: sorted by unique numbers, and only the floating window has a  *)
(* number of the reserved class, so that no command for a number finds it. *)
(***************************************************************************)
Frame ==
  /\ windows \subseteq Handles
  /\ ahead \in [Handles -> SUBSET windows]
  /\ id \in [Handles -> 0 .. ReservedMin]
  /\ Numbered
  /\ Contacts \in windows /\ id[Contacts] = ReservedMin
  /\ \A w \in Fixed : id[w] <= MaxId

\* The sessions of the windows; debug and status are nobody's talk.
Rest ==
  /\ talk \in [Handles -> Kinds \cup {NoTalk}]
  /\ talk[Debug] = NoTalk /\ talk[Status] = NoTalk
  /\ session \in [Handles -> 0 .. MaxSession]
  /\ sessions \subseteq 1 .. MaxSession
  /\ sessionCurrent \in 0 .. MaxSession
  /\ current \in Fixed
  /\ SessionsAgree

IInv == Frame /\ Rest

-----------------------------------------------------------------------------
(***************************************************************************)
(* Every non-empty set of naturals has a least element: among the          *)
(* intervals from 0 to its elements there is one that includes no other.   *)
(***************************************************************************)
LEMMA LeastNatural ==
  ASSUME NEW S \in SUBSET Nat, S # {}
  PROVE  \E x \in S : \A y \in S : x <= y
<1> DEFINE U == {0 .. x : x \in S}
<1>1. U \subseteq FiniteSubsetsOf(Nat) /\ U # {}
  <2>1. \A x \in S : 0 .. x \in SUBSET Nat /\ IsFiniteSet(0 .. x)
    BY FS_Interval
  <2> QED BY <2>1 DEF FiniteSubsetsOf
<1>2. PICK T \in U : \A V \in U : <<V, T>> \notin StrictSubsetOrdering(Nat)
  <2> HIDE DEF U
  <2> QED BY <1>1, FS_StrictSubsetOrderingWellFounded, WFMin
<1>3. PICK x \in S : T = 0 .. x BY <1>2
<1>4. ASSUME NEW y \in S, y < x PROVE FALSE
  <2>1. 0 .. y \subseteq 0 .. x /\ 0 .. y # 0 .. x BY <1>4
  <2>2. 0 .. y \in SUBSET Nat /\ 0 .. x \in SUBSET Nat OBVIOUS
  <2>3. <<0 .. y, 0 .. x>> \in StrictSubsetOrdering(Nat)
    BY <2>1, <2>2 DEF StrictSubsetOrdering
  <2> QED BY <1>2, <1>3, <2>3
<1> QED BY <1>4

\* The first session of a set is in it, or there is none.
LEMMA FirstIn ==
  ASSUME NEW S \in SUBSET (1 .. MaxSession)
  PROVE  First(S) \in S \cup {0}
<1>1. CASE S = {} BY <1>1 DEF First
<1>2. CASE S # {}
  <2>1. S \in SUBSET Nat OBVIOUS
  <2>2. \E x \in S : \A y \in S : x <= y BY <1>2, <2>1, LeastNatural
  <2> QED BY <1>2, <2>2 DEF First, Min
<1> QED BY <1>1, <1>2

LEMMA NextSessionIn ==
  ASSUME sessions \subseteq 1 .. MaxSession, NEW s \in 0 .. MaxSession, NEW t
  PROVE  NextSession(s, t) \in sessions \cup {0}
<1> DEFINE good == {k \in sessions \ {s} : t = NoTalk \/ Kind(k) = t}
           later == {k \in good : k > s}
<1>1. good \in SUBSET (1 .. MaxSession) /\ later \in SUBSET (1 .. MaxSession)
  OBVIOUS
<1>2. First(good) \in sessions \cup {0} BY <1>1, FirstIn
<1>3. ASSUME later # {} PROVE Min(later) \in sessions
  <2>1. First(later) \in later \cup {0} BY <1>1, FirstIn
  <2>2. Min(later) = First(later) BY <1>3 DEF First
  <2>3. \E x \in later : \A y \in later : x <= y
    <3>1. later \in SUBSET Nat BY <1>1
    <3> QED BY <1>3, <3>1, LeastNatural
  <2>4. Min(later) \in later BY <2>3 DEF Min
  <2> QED BY <2>4
<1>4. NextSession(s, t) = IF s \in sessions /\ later # {} THEN Min(later)
                          ELSE First(good)
  BY DEF NextSession
<1> QED BY <1>2, <1>3, <1>4

\* Debug and status have numbers of their own, and others from 2 on.
LEMMA LowNumbers ==
  ASSUME Frame
  PROVE  /\ Debug \in Fixed /\ Status \in Fixed
         /\ \A w \in windows : w \in Handles /\ id[w] \in Nat
         /\ \A w \in windows \ {Debug, Status} : id[w] >= 2
         /\ \A w \in windows : id[w] <= MaxId => w \in Fixed
BY WindowsAssumption DEF Frame, Numbered, Fixed

(***************************************************************************)
(* In a sorted list any set of windows has a first and a last.             *)
(***************************************************************************)
LEMMA FirstOfIn ==
  ASSUME Frame, NEW S \in SUBSET windows, S # {}
  PROVE  FirstOf(S) \in S
<1>1. \A w \in S : w \in Handles /\ id[w] \in Nat
  BY WindowsAssumption DEF Frame
<1> DEFINE N == {id[w] : w \in S}
<1>2. N \in SUBSET Nat /\ N # {} BY <1>1
<1>3. PICK n \in N : \A m \in N : n <= m
  <2> HIDE DEF N
  <2> QED BY <1>2, LeastNatural
<1>4. PICK w \in S : id[w] = n BY <1>3
<1>5. \A v \in S : id[w] <= id[v] BY <1>3, <1>4
<1>6. \A v \in S \ {w} : w \in ahead[v]
  <2> SUFFICES ASSUME NEW v \in S \ {w} PROVE w \in ahead[v] OBVIOUS
  <2>1. id[v] # id[w] /\ id[w] <= id[v] BY <1>5 DEF Frame, Numbered
  <2> QED BY <1>1, <2>1 DEF Frame, Numbered
<1> QED BY <1>6 DEF FirstOf

LEMMA LastOfIn ==
  ASSUME Frame, NEW S \in SUBSET windows, S # {}
  PROVE  LastOf(S) \in S /\ S \ {LastOf(S)} \subseteq ahead[LastOf(S)]
<1>1. \A w \in S : /\ w \in Handles /\ id[w] \in Nat
                   /\ ReservedMin - id[w] \in Nat
  BY WindowsAssumption DEF Frame
<1> DEFINE N == {ReservedMin - id[w] : w \in S}
<1>2. N \in SUBSET Nat /\ N # {} BY <1>1
<1>3. PICK n \in N : \A m \in N : n <= m
  <2> HIDE DEF N
  <2> QED BY <1>2, LeastNatural
<1>4. PICK w \in S : ReservedMin - id[w] = n BY <1>3
<1>5. ASSUME NEW v \in S PROVE id[v] <= id[w]
  <2>1. ReservedMin - id[v] \in N OBVIOUS
  <2>2. ReservedMin - id[w] <= ReservedMin - id[v] BY <1>3, <1>4, <2>1
  <2>3. ReservedMin \in Nat BY WindowsAssumption
  <2> HIDE DEF N
  <2> QED BY <1>1, <2>2, <2>3
<1>6. S \ {w} \subseteq ahead[w]
  <2> SUFFICES ASSUME NEW v \in S \ {w} PROVE v \in ahead[w] OBVIOUS
  <2>1. id[v] # id[w] /\ id[v] <= id[w] BY <1>5 DEF Frame, Numbered
  <2> QED BY <1>1, <2>1 DEF Frame, Numbered
<1> QED BY <1>6 DEF LastOf

\* The window before the current one is not the floating one.
LEMMA PrevIn ==
  ASSUME Frame, current \in Fixed
  PROVE  Prev \in Fixed
<1>1. /\ current \in Handles /\ Fixed \in SUBSET windows /\ Fixed # {}
      /\ Before(current) \in SUBSET windows /\ Before(current) \subseteq Fixed
  BY DEF Frame, Fixed, Before
<1>2. LastOf(Fixed) \in Fixed BY <1>1, LastOfIn
<1>3. Before(current) # {} => LastOf(Before(current)) \in Fixed
  BY <1>1, LastOfIn
<1> QED BY <1>2, <1>3 DEF Prev

\* The window before one that can be killed is another one.
LEMMA PrevOther ==
  ASSUME Frame, current \in Fixed, current \notin {Debug, Status}
  PROVE  Prev # current
<1> DEFINE last == LastOf(Before(current))
<1>1. /\ Before(current) \subseteq ahead[current] /\ current \in windows
      /\ Before(current) \in SUBSET windows
  BY DEF Frame, Before, Fixed
<1>2. /\ \A w \in windows : id[w] \in Nat
      /\ \A v, w \in windows : v \in ahead[w] <=> id[v] < id[w]
      /\ Debug \in windows /\ Status \in windows
      /\ id[Debug] = 0 /\ id[Status] = 1 /\ id[current] >= 2
  BY <1>1, LowNumbers DEF Frame, Numbered
<1>3. current \notin ahead[current] BY <1>1, <1>2
<1>4. Status \in Before(current)
  BY <1>1, <1>2, WindowsAssumption DEF Before
<1>5. last \in Before(current) /\ Before(current) \ {last} \subseteq ahead[last]
  BY <1>1, <1>4, LastOfIn
<1> HIDE DEF last
<1>6. id[last] # 0
  <2> SUFFICES ASSUME id[last] = 0 PROVE FALSE OBVIOUS
  <2>1. Status # last /\ Status \in ahead[last] BY <1>2, <1>4, <1>5
  <2> QED BY <1>1, <1>2, <1>5, <2>1
<1>7. Prev = last BY <1>4, <1>6 DEF Prev, last
<1> QED BY <1>1, <1>3, <1>5, <1>7

-----------------------------------------------------------------------------
(***************************************************************************)
(* windows_add() keeps a list in the order of the numbers.                 *)
(***************************************************************************)
Sorted(list, before, num) ==
  /\ list \subseteq Handles /\ before \in [Handles -> SUBSET list]
  /\ \A v \in list : num[v] \in Nat
  /\ \A u, v \in list : u \in before[v] <=> num[u] < num[v]

LEMMA InsertSorted ==
  ASSUME NEW list, NEW before, NEW num, Sorted(list, before, num),
         NEW w \in Handles \ list, num[w] \in Nat,
         \A v \in list : num[v] # num[w]
  PROVE  Sorted(list \cup {w}, Insert(list, before, w, num), num)
<1> DEFINE o == Insert(list, before, w, num)
<1> USE DEF Sorted
<1> DEFINE passed == {v \in list : /\ num[v] < num[w]
                                   /\ \A u \in before[v] : num[u] < num[w]}
<1>1. o = [v \in Handles |-> IF v = w THEN passed
                             ELSE IF v \in list \ passed THEN before[v] \cup {w}
                             ELSE before[v]]
  BY DEF Insert
<1>2. \A v \in list : v \in passed <=> num[v] < num[w]
  <2> SUFFICES ASSUME NEW v \in list, num[v] < num[w],
                      NEW u \in before[v]
               PROVE  num[u] < num[w]
    OBVIOUS
  <2>1. u \in list /\ v \in Handles OBVIOUS
  <2>2. num[u] < num[v] BY <2>1
  <2> QED BY <2>1, <2>2
<1>3. passed \subseteq list OBVIOUS
<1> HIDE DEF passed, o
<1>4. o \in [Handles -> SUBSET (list \cup {w})] BY <1>1, <1>3
<1>5. ASSUME NEW u \in list \cup {w}, NEW v \in list \cup {w}
      PROVE  u \in o[v] <=> num[u] < num[v]
  <2>1. CASE v = w BY <1>1, <1>2, <1>3, <2>1
  <2>2. CASE v # w /\ u = w
    <3>1. v \in list /\ w \notin before[v] BY <2>2
    <3>2. u \in o[v] <=> v \notin passed BY <1>1, <2>2, <3>1
    <3>3. v \notin passed <=> num[w] < num[v] BY <1>2, <3>1
    <3> QED BY <2>2, <3>2, <3>3
  <2>3. CASE v # w /\ u # w BY <1>1, <2>3
  <2> QED BY <2>1, <2>2, <2>3
<1> QED BY <1>4, <1>5 DEF o

(***************************************************************************)
(* A window is switched to: session_current follows.                       *)
(***************************************************************************)
LEMMA SwitchRest ==
  ASSUME Frame', NEW w, w \in Fixed', SwitchTo(w),
         talk' \in [Handles -> Kinds \cup {NoTalk}],
         talk'[Debug] = NoTalk, talk'[Status] = NoTalk,
         session' \in [Handles -> 0 .. MaxSession],
         sessions' \subseteq 1 .. MaxSession,
         sessionCurrent \in 0 .. MaxSession
  PROVE  Rest'
<1>1. /\ current' = w
      /\ sessionCurrent' = IF id'[w] # 0 /\ session'[w] # 0 THEN session'[w]
                           ELSE sessionCurrent
  BY DEF SwitchTo
<1>2. w \in windows' /\ w \in Handles BY DEF Frame, Fixed
<1>3. w # Debug => id'[w] # 0 BY <1>2 DEF Frame, Numbered
<1>4. SessionsAgree' BY <1>1, <1>3 DEF SessionsAgree
<1> QED BY <1>1, <1>2, <1>4 DEF Rest

\* The list stays as it is.
LEMMA SameFrame ==
  ASSUME Frame, UNCHANGED <<windows, ahead, id>>
  PROVE  Frame'
BY DEF Frame, Numbered, Fixed

LEMMA CreateFrame ==
  ASSUME Frame, NEW i \in Free, NEW w \in Handles \ windows, NEW t, NEW s,
         Create(w, i, t, s)
  PROVE  Frame' /\ w \in Fixed' /\ Fixed \subseteq Fixed'
<1>1. /\ id' = [id EXCEPT ![w] = i] /\ windows' = windows \cup {w}
      /\ ahead' = Insert(windows, ahead, w, id')
  BY DEF Create
<1>2. i \in 2 .. MaxId /\ \A v \in windows : id[v] # i
  BY DEF Free, At
<1>3. /\ w # Contacts /\ w # Debug /\ w # Status
      /\ id \in [Handles -> 0 .. ReservedMin] /\ windows \subseteq Handles
  BY DEF Frame, Numbered
<1>4. /\ \A v \in windows : id'[v] = id[v]
      /\ id'[w] = i /\ id' \in [Handles -> 0 .. ReservedMin]
  BY <1>1, <1>2, <1>3, WindowsAssumption
<1>5. /\ ahead' \in [Handles -> SUBSET windows']
      /\ \A u, v \in windows' : u \in ahead'[v] <=> id'[u] < id'[v]
  <2>1. \A v \in windows \cup {w} : id'[v] \in Nat
    BY <1>3, <1>4, WindowsAssumption
  <2>2. Sorted(windows, ahead, id')
    BY <1>4, <2>1 DEF Frame, Numbered, Sorted
  <2>3. \A v \in windows : id'[v] # id'[w] BY <1>2, <1>4
  <2>4. Sorted(windows', ahead', id')
    BY <1>1, <2>1, <2>2, <2>3, InsertSorted
  <2> QED BY <2>4 DEF Sorted
<1>6. \A u, v \in windows' : u # v => id'[u] # id'[v]
  BY <1>1, <1>2, <1>4 DEF Frame, Numbered
<1>7. Numbered' BY <1>1, <1>4, <1>5, <1>6 DEF Frame, Numbered
<1>8. Fixed' = Fixed \cup {w} BY <1>1, <1>3 DEF Fixed
<1>9. \A v \in Fixed' : id'[v] <= MaxId
  BY <1>2, <1>4, <1>8 DEF Frame, Fixed
<1> QED BY <1>1, <1>3, <1>4, <1>5, <1>7, <1>8, <1>9 DEF Frame

LEMMA KillFrame ==
  ASSUME Frame, NEW w, NEW sort \in BOOLEAN, Kill(w, sort)
  PROVE  Frame' /\ Fixed' = Fixed \ {w} /\ w \notin {Debug, Status}
<1>1. /\ w \in windows \ {Debug, Status, Contacts}
      /\ windows' = windows \ {w}
      /\ ahead' = [v \in Handles |-> IF v \in {w} THEN {} ELSE ahead[v] \ {w}]
      /\ id' = [v \in Handles |-> IF v = w THEN 0
                                  ELSE IF sort /\ v \in Fixed
                                          /\ id[v] > 1 /\ id[v] > id[w]
                                  THEN id[v] - 1 ELSE id[v]]
  BY DEF Kill, Unlinked
<1>2. /\ windows \subseteq Handles /\ ahead \in [Handles -> SUBSET windows]
      /\ id \in [Handles -> 0 .. ReservedMin] /\ ReservedMin \in Nat
      /\ MaxId \in Nat /\ MaxId < ReservedMin
      /\ \A v \in Handles : id[v] \in Nat /\ id[v] <= ReservedMin
  BY WindowsAssumption DEF Frame
<1>3. w \in Fixed /\ id[w] >= 2 BY <1>1, LowNumbers DEF Fixed
<1>4. Fixed' = Fixed \ {w} BY <1>1 DEF Fixed
<1>5. ahead' \in [Handles -> SUBSET windows'] BY <1>1, <1>2
<1>6. id' \in [Handles -> 0 .. ReservedMin]
  <2> SUFFICES ASSUME NEW v \in Handles PROVE id'[v] \in 0 .. ReservedMin
    BY <1>1
  <2> QED BY <1>1, <1>2
<1>7. \A v \in Fixed \ {w} :
        id'[v] = IF sort /\ id[v] > id[w] THEN id[v] - 1 ELSE id[v]
  <2> SUFFICES ASSUME NEW v \in Fixed \ {w}
               PROVE  id'[v] = IF sort /\ id[v] > id[w] THEN id[v] - 1
                               ELSE id[v]
    OBVIOUS
  <2>1. v \in Handles /\ w \in Handles BY <1>1, <1>2 DEF Fixed
  <2> QED BY <1>1, <1>2, <1>3, <2>1
<1>8. id'[Contacts] = id[Contacts]
  BY <1>1, WindowsAssumption DEF Fixed
<1>9. \A v \in Fixed \ {w} : id'[v] <= MaxId /\ id'[v] \in Nat
  <2> SUFFICES ASSUME NEW v \in Fixed \ {w}
               PROVE  id'[v] <= MaxId /\ id'[v] \in Nat
    OBVIOUS
  <2>1. v \in Handles /\ id[v] <= MaxId /\ w \in Handles
    BY <1>1, <1>2 DEF Frame, Fixed
  <2> QED BY <1>2, <1>3, <1>7, <2>1
<1>10. ASSUME NEW u \in windows', NEW v \in windows'
       PROVE  /\ id'[u] < id'[v] <=> id[u] < id[v]
              /\ id'[u] = id'[v] => u = v
  <2>1. /\ u \in Handles /\ v \in Handles /\ w \in Handles
        /\ u # w /\ v # w /\ u \in windows /\ v \in windows
    BY <1>1, <1>2
  <2>2. /\ id[u] # id[w] /\ id[v] # id[w] /\ (u # v => id[u] # id[v])
    BY <1>1, <2>1 DEF Frame, Numbered
  <2>3. CASE u \in Fixed /\ v \in Fixed
    BY <1>2, <1>7, <2>1, <2>2, <2>3
  <2>4. CASE u \in Fixed /\ v = Contacts
    <3>1. id[u] <= MaxId /\ id'[u] <= MaxId /\ id'[u] \in Nat
      BY <1>9, <2>1, <2>4 DEF Frame
    <3>2. id[v] = ReservedMin /\ id'[v] = ReservedMin
      BY <1>8, <2>4 DEF Frame
    <3> QED BY <1>2, <2>1, <3>1, <3>2
  <2>5. CASE u = Contacts /\ v \in Fixed
    <3>1. id[v] <= MaxId /\ id'[v] <= MaxId /\ id'[v] \in Nat
      BY <1>9, <2>1, <2>5 DEF Frame
    <3>2. id[u] = ReservedMin /\ id'[u] = ReservedMin
      BY <1>8, <2>5 DEF Frame
    <3> QED BY <1>2, <2>1, <3>1, <3>2
  <2>6. CASE u = Contacts /\ v = Contacts
    <3>1. u = v /\ id[u] = ReservedMin /\ id'[u] = ReservedMin
      BY <1>8, <2>6 DEF Frame
    <3> QED BY <1>2, <3>1
  <2>7. /\ u \in Fixed \/ u = Contacts
        /\ v \in Fixed \/ v = Contacts
    BY <2>1 DEF Fixed
  <2> QED BY <2>3, <2>4, <2>5, <2>6, <2>7
<1>11. ASSUME NEW u \in windows', NEW v \in windows'
       PROVE  u \in ahead'[v] <=> id[u] < id[v]
  <2>1. ahead'[v] = ahead[v] \ {w} BY <1>1, <1>2
  <2> QED BY <1>1, <2>1 DEF Frame, Numbered
<1>12. /\ {Debug, Status} \subseteq windows' /\ Contacts \in windows'
       /\ id'[Debug] = 0 /\ id'[Status] = 1
  <2>1. Debug \in Fixed /\ Status \in Fixed BY LowNumbers
  <2>2. id[Debug] = 0 /\ id[Status] = 1 BY DEF Frame, Numbered
  <2>3. w \in Handles BY <1>1, <1>2
  <2>4. id'[Debug] = 0 /\ id'[Status] = 1
    BY <1>1, <1>2, <1>3, <1>7, <2>1, <2>2, <2>3
  <2> QED BY <1>1, <2>1, <2>4 DEF Frame, Fixed
<1>13. Numbered' BY <1>10, <1>11, <1>12 DEF Numbered
<1>14. Frame'
  <2>1. \A v \in Fixed' : id'[v] <= MaxId BY <1>4, <1>9
  <2>2. id'[Contacts] = ReservedMin BY <1>8 DEF Frame
  <2> QED BY <1>1, <1>2, <1>5, <1>6, <1>12, <1>13, <2>1, <2>2 DEF Frame
<1> QED BY <1>1, <1>4, <1>14

\* Taken off the list, the windows ws leave a sorted list.
LEMMA UnlinkedSorted ==
  ASSUME Frame, NEW ws, NEW num,
         \A v \in windows \ ws : num[v] \in Nat,
         \A u, v \in windows \ ws : num[u] < num[v] <=> id[u] < id[v]
  PROVE  Sorted(windows \ ws, Unlinked(ws), num)
<1> DEFINE list == windows \ ws
<1>1. windows \subseteq Handles /\ ahead \in [Handles -> SUBSET windows]
  BY DEF Frame
<1>2. Unlinked(ws) = [v \in Handles |-> IF v \in ws THEN {} ELSE ahead[v] \ ws]
  BY DEF Unlinked
<1>3. Unlinked(ws) \in [Handles -> SUBSET list] BY <1>1, <1>2
<1>4. ASSUME NEW u \in list, NEW v \in list
      PROVE  u \in Unlinked(ws)[v] <=> num[u] < num[v]
  <2>1. u \in windows /\ v \in windows /\ v \in Handles /\ v \notin ws
    BY <1>1
  <2>2. u \in ahead[v] <=> id[u] < id[v] BY <2>1 DEF Frame, Numbered
  <2> QED BY <1>2, <2>1, <2>2
<1> QED BY <1>1, <1>3, <1>4 DEF Sorted

LEMMA SwapFrame ==
  ASSUME Frame, NEW from \in Numbers, NEW to \in Numbers, from # to,
         Swap(from, to)
  PROVE  /\ Frame'
         /\ \E w \in Fixed', v \in Handles :
              /\ v \notin {Debug, Status} /\ SwitchTo(w)
              /\ \/ UNCHANGED <<talk, session>>
                 \/ /\ talk' = [talk EXCEPT ![v] = NoTalk]
                    /\ session' = [session EXCEPT ![v] = 0]
<1>1. PICK w \in At(from),
           v \in IF At(to) = {} THEN Handles \ windows ELSE At(to) :
             /\ id' = [id EXCEPT ![w] = to, ![v] = from]
             /\ windows' = windows \cup {v}
             /\ ahead' = LET rest == windows \ {w, v}
                         IN Insert(rest \cup {w},
                                   Insert(rest, Unlinked({w, v}), w, id'),
                                   v, id')
             /\ SwitchTo(w)
             /\ \/ UNCHANGED <<talk, session>>
                \/ /\ talk' = [talk EXCEPT ![v] = NoTalk]
                   /\ session' = [session EXCEPT ![v] = 0]
  BY DEF Swap
<1> DEFINE rest == windows \ {w, v}
           once == Insert(rest, Unlinked({w, v}), w, id')
<1>2. /\ from \in Nat /\ to \in Nat /\ 2 <= from /\ 2 <= to
      /\ from <= MaxId /\ to <= MaxId /\ MaxId < ReservedMin
      /\ MaxId \in Nat /\ ReservedMin \in Nat
  BY WindowsAssumption DEF Numbers
<1>3. /\ windows \subseteq Handles /\ id \in [Handles -> 0 .. ReservedMin]
      /\ Numbered /\ id[Contacts] = ReservedMin /\ Contacts \in windows
  BY DEF Frame
<1>4. w \in windows /\ id[w] = from BY DEF At
<1>5. v \in Handles /\ (v \in windows => id[v] = to)
      /\ \A u \in windows : id[u] = to => u = v
  BY <1>1, <1>3 DEF At, Numbered
<1>6. w # v BY <1>4, <1>5
<1>7. w \in Handles /\ {w, v} \cap {Debug, Status, Contacts} = {}
  BY <1>2, <1>3, <1>4, <1>5 DEF Numbered
<1>8. /\ \A u \in Handles \ {w, v} : id'[u] = id[u]
      /\ id'[w] = to /\ id'[v] = from
      /\ id' \in [Handles -> 0 .. ReservedMin]
  BY <1>1, <1>2, <1>3, <1>5, <1>6, <1>7
<1>9. \A u \in rest : /\ u \in windows /\ u \in Handles /\ id'[u] = id[u]
                      /\ id[u] # from /\ id[u] # to /\ id[u] \in Nat
  BY <1>2, <1>3, <1>4, <1>5, <1>8 DEF Numbered
<1>10. Sorted(rest, Unlinked({w, v}), id')
  <2> DEFINE num == id'
  <2>1. /\ \A u \in windows \ {w, v} : num[u] \in Nat
        /\ \A u, x \in windows \ {w, v} : num[u] < num[x] <=> id[u] < id[x]
    BY <1>9
  <2> HIDE DEF num
  <2>2. Sorted(windows \ {w, v}, Unlinked({w, v}), num)
    BY <2>1, UnlinkedSorted
  <2> QED BY <2>2 DEF num
<1>11. Sorted(rest \cup {w}, once, id')
  BY <1>2, <1>7, <1>8, <1>9, <1>10, InsertSorted
<1>12. Sorted(windows', ahead', id')
  <2>1. v \in Handles \ (rest \cup {w}) BY <1>5, <1>6
  <2>2. \A u \in rest \cup {w} : id'[u] # id'[v] BY <1>8, <1>9
  <2>3. id'[v] \in Nat BY <1>2, <1>8
  <2>4. windows' = (rest \cup {w}) \cup {v} BY <1>1, <1>4
  <2>5. ahead' = Insert(rest \cup {w}, once, v, id') BY <1>1
  <2> HIDE DEF rest, once
  <2> QED BY <1>11, <2>1, <2>2, <2>3, <2>4, <2>5, InsertSorted
<1>13. windows' = rest \cup {w, v} BY <1>1, <1>4
<1>14. \A u, x \in windows' : id'[u] = id'[x] => u = x
  <2> SUFFICES ASSUME NEW u \in windows', NEW x \in windows',
                      id'[u] = id'[x]
               PROVE  u = x
    OBVIOUS
  <2>1. CASE u \in rest /\ x \in rest
    BY <1>3, <1>9, <2>1 DEF Numbered
  <2>2. CASE u \in {w, v} /\ x \in {w, v} BY <1>8, <2>2
  <2>3. CASE u \in rest /\ x \in {w, v} BY <1>8, <1>9, <2>3
  <2>4. CASE u \in {w, v} /\ x \in rest BY <1>8, <1>9, <2>4
  <2> QED BY <1>13, <2>1, <2>2, <2>3, <2>4
<1>15. /\ {Debug, Status, Contacts} \subseteq windows'
       /\ id'[Debug] = 0 /\ id'[Status] = 1 /\ id'[Contacts] = ReservedMin
  BY <1>1, <1>3, <1>7, <1>8 DEF Numbered
<1>16. \A u \in windows' \ {Contacts} : id'[u] <= MaxId
  BY <1>2, <1>8, <1>9, <1>13 DEF Frame, Fixed
<1>17. Frame'
  BY <1>8, <1>12, <1>14, <1>15, <1>16 DEF Frame, Numbered, Sorted, Fixed
<1>18. w \in Fixed' BY <1>7, <1>13 DEF Fixed
<1> QED BY <1>1, <1>5, <1>7, <1>17, <1>18

LEMMA MoveFrame ==
  ASSUME Frame, NEW from \in Numbers, NEW to \in Numbers, from # to,
         Move(from, to)
  PROVE  Frame' /\ \E w \in Fixed' : SwitchTo(w)
<1>1. PICK w \in At(from) :
        /\ id' = [v \in Handles |->
                    IF v = w THEN to
                    ELSE IF v \notin windows \/ At(to) = {} THEN id[v]
                    ELSE IF to <= id[v] /\ id[v] < from THEN id[v] + 1
                    ELSE IF from < id[v] /\ id[v] <= to THEN id[v] - 1
                    ELSE id[v]]
        /\ ahead' = Insert(windows \ {w}, Unlinked({w}), w, id')
        /\ SwitchTo(w)
  BY DEF Move
<1>2. windows' = windows BY DEF Move
<1>3. /\ from \in Nat /\ to \in Nat /\ 2 <= from /\ 2 <= to
      /\ from <= MaxId /\ to <= MaxId /\ MaxId < ReservedMin
      /\ MaxId \in Nat /\ ReservedMin \in Nat
  BY WindowsAssumption DEF Numbers
<1>4. /\ windows \subseteq Handles /\ id \in [Handles -> 0 .. ReservedMin]
      /\ Numbered /\ id[Contacts] = ReservedMin /\ Contacts \in windows
      /\ \A v \in Handles : id[v] \in Nat /\ id[v] <= ReservedMin
  BY <1>3 DEF Frame
<1>5. w \in windows /\ id[w] = from /\ w \in Handles BY <1>4 DEF At
<1>6. {w} \cap {Debug, Status, Contacts} = {}
  BY <1>3, <1>4, <1>5 DEF Numbered
<1>7. id'[w] = to BY <1>1, <1>5
<1> DEFINE rest == windows \ {w}
<1>8. ASSUME NEW u \in rest
      PROVE  /\ u \in windows /\ u \in Handles /\ id[u] \in Nat /\ id[u] # from
             /\ At(to) = {} => id[u] # to /\ id'[u] = id[u]
             /\ At(to) # {} =>
                  id'[u] = IF to <= id[u] /\ id[u] < from THEN id[u] + 1
                           ELSE IF from < id[u] /\ id[u] <= to THEN id[u] - 1
                           ELSE id[u]
  <2>1. u \in windows /\ u \in Handles /\ u # w /\ id[u] # from
    BY <1>4, <1>5 DEF Numbered
  <2>2. At(to) = {} => id[u] # to BY <2>1 DEF At
  <2> QED BY <1>1, <1>4, <2>1, <2>2
<1>9. ASSUME NEW u \in rest
      PROVE  /\ id'[u] \in Nat /\ id'[u] # to
             /\ id[u] <= MaxId => id'[u] <= MaxId
             /\ id[u] < 2 \/ id[u] > MaxId => id'[u] = id[u]
  <2>1. CASE At(to) = {} BY <1>8, <2>1
  <2>2. CASE At(to) # {} BY <1>3, <1>8, <2>2
  <2> QED BY <2>1, <2>2
<1>10. ASSUME NEW u \in rest, NEW x \in rest
       PROVE  id'[u] < id'[x] <=> id[u] < id[x]
  <2>1. CASE At(to) = {} BY <1>8, <2>1
  <2>2. CASE At(to) # {} BY <1>3, <1>8, <2>2
  <2> QED BY <2>1, <2>2
<1>11. Sorted(rest, Unlinked({w}), id')
  <2> DEFINE num == id'
  <2>1. /\ \A u \in windows \ {w} : num[u] \in Nat
        /\ \A u, x \in windows \ {w} : num[u] < num[x] <=> id[u] < id[x]
    BY <1>9, <1>10
  <2> HIDE DEF num
  <2>2. Sorted(windows \ {w}, Unlinked({w}), num) BY <2>1, UnlinkedSorted
  <2> QED BY <2>2 DEF num
<1>12. Sorted(windows', ahead', id')
  <2>1. w \in Handles \ rest BY <1>5
  <2>2. \A u \in rest : id'[u] # id'[w] BY <1>7, <1>9
  <2>3. id'[w] \in Nat BY <1>3, <1>7
  <2>4. windows' = rest \cup {w} BY <1>2, <1>5
  <2>5. ahead' = Insert(rest, Unlinked({w}), w, id') BY <1>1
  <2> HIDE DEF rest
  <2> QED BY <1>11, <2>1, <2>2, <2>3, <2>4, <2>5, InsertSorted
<1>13. \A u, x \in windows' : id'[u] = id'[x] => u = x
  <2> SUFFICES ASSUME NEW u \in windows', NEW x \in windows',
                      id'[u] = id'[x]
               PROVE  u = x
    OBVIOUS
  <2>1. CASE u = w \/ x = w BY <1>2, <1>7, <1>9, <2>1
  <2>2. CASE u # w /\ x # w
    <3>1. u \in rest /\ x \in rest BY <1>2, <2>2
    <3>2. ~(id'[u] < id'[x]) /\ ~(id'[x] < id'[u]) BY <1>9, <3>1
    <3>3. ~(id[u] < id[x]) /\ ~(id[x] < id[u]) BY <1>10, <3>1, <3>2
    <3>4. id[u] = id[x] BY <1>8, <3>1, <3>3
    <3> QED BY <1>4, <3>1, <3>4 DEF Numbered
  <2> QED BY <2>1, <2>2
<1>14. /\ {Debug, Status, Contacts} \subseteq windows'
       /\ id'[Debug] = 0 /\ id'[Status] = 1 /\ id'[Contacts] = ReservedMin
  <2>1. Debug \in rest /\ Status \in rest /\ Contacts \in rest
    BY <1>4, <1>6 DEF Numbered
  <2>2. id[Debug] = 0 /\ id[Status] = 1 BY <1>4 DEF Numbered
  <2> QED BY <1>2, <1>3, <1>4, <1>9, <2>1, <2>2
<1>15. \A u \in windows' \ {Contacts} : id'[u] <= MaxId
  BY <1>2, <1>3, <1>7, <1>9 DEF Frame, Fixed
<1>16. id' \in [Handles -> 0 .. ReservedMin]
  <2> SUFFICES ASSUME NEW u \in Handles PROVE id'[u] \in 0 .. ReservedMin
    BY <1>1
  <2>1. CASE u \notin windows
    <3>1. id'[u] = id[u] BY <1>1, <1>5, <2>1
    <3> QED BY <1>4, <3>1
  <2>2. CASE u \in windows /\ u # Contacts
    <3>1. id'[u] \in Nat BY <1>3, <1>7, <1>9, <2>2
    <3>2. id'[u] <= MaxId BY <1>2, <1>15, <2>2
    <3> QED BY <1>3, <3>1, <3>2
  <2>3. CASE u = Contacts BY <1>3, <1>14, <2>3
  <2> QED BY <2>1, <2>2, <2>3
<1>17. Frame'
  BY <1>12, <1>13, <1>14, <1>15, <1>16 DEF Frame, Numbered, Sorted, Fixed
<1>18. w \in Fixed' BY <1>2, <1>5, <1>6 DEF Fixed
<1> QED BY <1>1, <1>17, <1>18

-----------------------------------------------------------------------------
\* A window is switched to, and the windows keep their sessions and talks.
LEMMA OnlySwitch ==
  ASSUME IInv, Frame', NEW w \in Fixed', SwitchTo(w),
         UNCHANGED <<talk, session, sessions>>
  PROVE  IInv'
<1>1. Rest' BY SwitchRest DEF IInv, Rest, SessionsAgree
<1> QED BY <1>1 DEF IInv

\* A new window, with a target or not, and in a session or not.
LEMMA NewWindow ==
  ASSUME IInv, NEW i \in Free, NEW w \in Handles \ windows,
         NEW t \in Kinds \cup {NoTalk}, NEW s \in 0 .. MaxSession,
         Create(w, i, t, s), UNCHANGED sessions,
         SwitchTo(w) \/ UNCHANGED <<current, sessionCurrent>>
  PROVE  IInv'
<1>1. Frame' /\ w \in Fixed' /\ Fixed \subseteq Fixed'
  BY CreateFrame DEF IInv
<1>2. /\ talk' = [talk EXCEPT ![w] = t] /\ session' = [session EXCEPT ![w] = s]
  BY DEF Create
<1>3. /\ w # Debug /\ w # Status /\ current # w /\ current \in Handles
      /\ Debug \in Handles /\ Status \in Handles
  BY WindowsAssumption DEF IInv, Frame, Rest, Numbered, Fixed
<1>4. /\ talk' \in [Handles -> Kinds \cup {NoTalk}]
      /\ talk'[Debug] = NoTalk /\ talk'[Status] = NoTalk
      /\ session' \in [Handles -> 0 .. MaxSession]
      /\ session'[current] = session[current]
      /\ sessions' \subseteq 1 .. MaxSession
      /\ sessionCurrent \in 0 .. MaxSession
  BY <1>2, <1>3 DEF IInv, Rest, SessionsAgree
<1>5. CASE SwitchTo(w)
  <2>1. Rest' BY <1>1, <1>4, <1>5, SwitchRest
  <2> QED BY <1>1, <2>1 DEF IInv
<1>6. CASE UNCHANGED <<current, sessionCurrent>>
  <2>1. SessionsAgree' BY <1>4, <1>6 DEF IInv, Rest, SessionsAgree
  <2> QED BY <1>1, <1>4, <1>6, <2>1 DEF IInv, Rest
<1> QED BY <1>5, <1>6

\* A window is switched to, and one that is new or killed has no session.
LEMMA SwitchClears ==
  ASSUME IInv, Frame', NEW w \in Fixed', SwitchTo(w), UNCHANGED sessions,
         NEW v \in Handles, v \notin {Debug, Status},
         talk' = [talk EXCEPT ![v] = NoTalk],
         session' = [session EXCEPT ![v] = 0]
  PROVE  IInv'
<1>1. /\ talk' \in [Handles -> Kinds \cup {NoTalk}]
      /\ talk'[Debug] = NoTalk /\ talk'[Status] = NoTalk
      /\ session' \in [Handles -> 0 .. MaxSession]
  <2>1. v # Debug /\ v # Status /\ 0 \in 0 .. MaxSession
    BY WindowsAssumption
  <2> QED BY <2>1 DEF IInv, Rest
<1>2. Rest' BY <1>1, SwitchRest DEF IInv, Rest
<1> QED BY <1>2 DEF IInv

LEMMA SwapInv ==
  ASSUME IInv, NEW from \in Numbers, NEW to \in Numbers, from # to,
         Swap(from, to)
  PROVE  IInv'
<1>1. PICK w \in Fixed', v \in Handles :
        /\ v \notin {Debug, Status} /\ SwitchTo(w)
        /\ \/ UNCHANGED <<talk, session>>
           \/ /\ talk' = [talk EXCEPT ![v] = NoTalk]
              /\ session' = [session EXCEPT ![v] = 0]
  BY SwapFrame DEF IInv
<1>2. Frame' BY SwapFrame DEF IInv
<1>3. UNCHANGED sessions BY DEF Swap
<1>4. CASE UNCHANGED <<talk, session>> BY <1>1, <1>2, <1>3, <1>4, OnlySwitch
<1>5. CASE /\ talk' = [talk EXCEPT ![v] = NoTalk]
           /\ session' = [session EXCEPT ![v] = 0]
  BY <1>1, <1>2, <1>3, <1>5, SwitchClears
<1> QED BY <1>1, <1>4, <1>5

(***************************************************************************)
(* A session is set for windows, and if debug or status is among them      *)
(* perhaps for both.                                                       *)
(***************************************************************************)
LEMMA SetSessionOf ==
  ASSUME IInv, NEW ws, NEW s \in 0 .. MaxSession,
         session' = SetSession(ws, s)
  PROVE  /\ session' \in [Handles -> 0 .. MaxSession]
         /\ \A w \in Handles : w \in ws => session'[w] = s
         /\ \A w \in Handles : w \notin ws =>
              \/ session'[w] = session[w]
              \/ w \in Pair /\ ws \cap Pair # {}
BY DEF SetSession, IInv, Rest

LEMMA CycleInv ==
  ASSUME IInv, Cycle
  PROVE  IInv'
<1> DEFINE s == NextSession(session[current], talk[current])
<1>1. /\ s # 0 /\ session' = SetSession({current}, s) /\ sessionCurrent' = s
      /\ UNCHANGED <<frame, talk, sessions>>
  BY DEF Cycle
<1>2. current \in Handles /\ session[current] \in 0 .. MaxSession
  BY DEF IInv, Frame, Rest, Fixed
<1>3. s \in 0 .. MaxSession
  <2>1. sessions \subseteq 1 .. MaxSession /\ MaxSession \in Nat
    BY WindowsAssumption DEF IInv, Rest
  <2>2. s \in sessions \cup {0} BY <1>2, <2>1, NextSessionIn
  <2> HIDE DEF s
  <2> QED BY <2>1, <2>2
<1> HIDE DEF s
<1>4. /\ session' \in [Handles -> 0 .. MaxSession]
      /\ session'[current] = s
  BY <1>1, <1>2, <1>3, SetSessionOf
<1>5. Frame' BY <1>1, SameFrame DEF IInv, frame
<1>6. SessionsAgree' BY <1>1, <1>4 DEF SessionsAgree, frame
<1>7. Rest' BY <1>1, <1>3, <1>4, <1>6 DEF IInv, Rest, Fixed, frame
<1> QED BY <1>5, <1>7 DEF IInv

LEMMA SessionSwitchInv ==
  ASSUME IInv, NEW s \in 1 .. MaxSession, SessionSwitch(s)
  PROVE  IInv'
<1> DEFINE w == IF talk[current] # NoTalk THEN Status ELSE current
<1>1. /\ current' = w /\ session' = SetSession({w}, s) /\ sessionCurrent' = s
      /\ UNCHANGED <<windows, ahead, id, talk, sessions>>
  BY DEF SessionSwitch
<1>2. w \in Fixed /\ w \in Handles
  BY LowNumbers DEF IInv, Frame, Rest, Fixed
<1> HIDE DEF w
<1>3. s \in 0 .. MaxSession BY WindowsAssumption
<1>4. /\ session' \in [Handles -> 0 .. MaxSession]
      /\ session'[w] = s
  BY <1>1, <1>2, <1>3, SetSessionOf
<1>5. Frame' BY <1>1, SameFrame DEF IInv
<1>6. SessionsAgree' BY <1>1, <1>4 DEF SessionsAgree
<1>7. Rest' BY <1>1, <1>2, <1>3, <1>4, <1>6 DEF IInv, Rest, Fixed
<1> QED BY <1>5, <1>7 DEF IInv

LEMMA SessionAddInv ==
  ASSUME IInv, NEW s \in 1 .. MaxSession, SessionAdd(s)
  PROVE  IInv'
<1> DEFINE first == session[current] = 0 /\ current \in {Debug, Status}
           set == (IF first THEN {current} ELSE {})
                    \cup {w \in windows : session[w] = 0 /\ talk[w] = Kind(s)}
<1>1. /\ session' = SetSession(set, s)
      /\ sessionCurrent' = IF current \in set \/ sessionCurrent = 0 THEN s
                           ELSE sessionCurrent
      /\ sessions' = sessions \cup {s} /\ UNCHANGED <<frame, talk>>
  BY DEF SessionAdd
<1>2. s \in 0 .. MaxSession /\ Kind(s) # NoTalk BY WindowsAssumption
<1>3. \A w \in Pair : w \in set => w = current
  BY <1>2 DEF IInv, Rest, Pair
<1>4. current \in Handles BY DEF IInv, Frame, Rest, Fixed
<1> HIDE DEF set
<1>6. /\ session' \in [Handles -> 0 .. MaxSession]
      /\ current \in set => session'[current] = s
      /\ current \notin set => \/ session'[current] = session[current]
                               \/ set \cap Pair # {}
  BY <1>1, <1>2, <1>4, SetSessionOf
<1>7. /\ current \in set => session'[current] = s
      /\ current \notin set => session'[current] = session[current]
  BY <1>3, <1>6
<1>8. Frame' BY <1>1, SameFrame DEF IInv, frame
<1>9. SessionsAgree'
  BY <1>1, <1>6, <1>7 DEF IInv, Rest, SessionsAgree, frame
<1>10. sessionCurrent' \in 0 .. MaxSession /\ sessions' \subseteq 1 .. MaxSession
  BY <1>1, <1>2 DEF IInv, Rest
<1>11. Rest'
  BY <1>1, <1>6, <1>9, <1>10 DEF IInv, Rest, Fixed, frame
<1> QED BY <1>8, <1>11 DEF IInv

LEMMA SessionRemoveInv ==
  ASSUME IInv, NEW s \in 1 .. MaxSession, SessionRemove(s)
  PROVE  IInv'
<1> DEFINE with == {w \in windows : session[w] = s}
           next(w) == IF Cardinality(sessions) > 1 THEN NextSession(0, talk[w])
                      ELSE 0
           along == IF \E w \in with \cap Pair : next(w) # 0 THEN Pair ELSE {}
           sc == IF sessionCurrent = s THEN 0 ELSE sessionCurrent
<1>1. /\ session' = [w \in Handles |-> IF w \in with \cup along THEN next(w)
                                       ELSE session[w]]
      /\ sessionCurrent' = IF /\ current \in with \cup along
                              /\ session'[current] # 0
                              /\ current \in with
                                 \/ session'[current] # session[current]
                           THEN session'[current] ELSE sc
      /\ sessions' = sessions \ {s} /\ UNCHANGED <<frame, talk>>
  BY DEF SessionRemove
<1>2. \A w \in Handles : next(w) \in 0 .. MaxSession
  <2> SUFFICES ASSUME NEW w \in Handles PROVE next(w) \in 0 .. MaxSession
    OBVIOUS
  <2>1. 0 \in 0 .. MaxSession /\ sessions \subseteq 1 .. MaxSession
    BY WindowsAssumption DEF IInv, Rest
  <2>2. NextSession(0, talk[w]) \in sessions \cup {0} BY <2>1, NextSessionIn
  <2>3. NextSession(0, talk[w]) \in 0 .. MaxSession
    <3>1. \A x \in 1 .. MaxSession : x \in 0 .. MaxSession OBVIOUS
    <3> QED BY <2>1, <2>2, <3>1
  <2> QED BY <2>1, <2>3
<1> HIDE DEF next, along
<1>3. current \in Fixed /\ current \in Handles
  BY DEF IInv, Frame, Rest, Fixed
<1>4. session' \in [Handles -> 0 .. MaxSession] BY <1>1, <1>2 DEF IInv, Rest
<1>5. /\ current \notin with => session[current] # s
      /\ current \notin with \cup along => session'[current] = session[current]
  BY <1>1, <1>3 DEF Fixed
<1>6. SessionsAgree'
  <2> SUFFICES ASSUME session'[current] # 0, current # Debug
               PROVE  sessionCurrent' = session'[current]
    BY <1>1 DEF SessionsAgree, frame
  <2>1. SessionsAgree BY DEF IInv, Rest
  <2> HIDE DEF with
  <2>2. CASE current \in with BY <1>1, <2>2
  <2>3. CASE current \notin with /\ session'[current] # session[current]
    BY <1>1, <1>5, <2>3
  <2>4. CASE current \notin with /\ session'[current] = session[current]
    BY <1>1, <1>5, <2>1, <2>4 DEF SessionsAgree
  <2> QED BY <2>2, <2>3, <2>4
<1>7. sessionCurrent' \in 0 .. MaxSession /\ sessions' \subseteq 1 .. MaxSession
  BY <1>1, <1>3, <1>4, WindowsAssumption DEF IInv, Rest
<1>8. Frame' BY <1>1, SameFrame DEF IInv, frame
<1>9. Rest'
  BY <1>1, <1>3, <1>4, <1>6, <1>7 DEF IInv, Rest, Fixed, frame
<1> QED BY <1>8, <1>9 DEF IInv

-----------------------------------------------------------------------------
LEMMA InitIInv == Init => IInv
<1> SUFFICES ASSUME Init PROVE IInv OBVIOUS
<1>1. /\ Debug \in Handles /\ Status \in Handles /\ Contacts \in Handles
      /\ Debug # Status /\ Contacts # Debug /\ Contacts # Status
      /\ ReservedMin \in Nat /\ 2 <= ReservedMin /\ MaxId \in Nat /\ 2 <= MaxId
      /\ MaxSession \in Nat
  BY WindowsAssumption
<1>2. /\ windows = {Debug, Status, Contacts}
      /\ ahead[Debug] = {} /\ ahead[Status] = {Debug}
      /\ ahead[Contacts] = {Debug, Status}
      /\ id[Debug] = 0 /\ id[Status] = 1 /\ id[Contacts] = ReservedMin
  BY <1>1 DEF Init
<1>3. ahead \in [Handles -> SUBSET windows] /\ id \in [Handles -> 0 .. ReservedMin]
  BY <1>1 DEF Init
<1>4. \A v, w \in windows : v # w => id[v] # id[w] BY <1>1, <1>2
<1>5. \A v, w \in windows : v \in ahead[w] <=> id[v] < id[w] BY <1>1, <1>2
<1>6. Numbered BY <1>2, <1>4, <1>5 DEF Numbered
<1>7. Frame BY <1>1, <1>2, <1>3, <1>6 DEF Frame, Fixed
<1>8. Rest BY <1>1, <1>2 DEF Init, Rest, SessionsAgree, Fixed
<1> QED BY <1>7, <1>8 DEF IInv

LEMMA NextIInv == IInv /\ [Next]_vars => IInv'
<1> SUFFICES ASSUME IInv, [Next]_vars PROVE IInv' OBVIOUS
<1>1. ASSUME NEW i \in 0 .. MaxId, CmdSwitch(i) PROVE IInv'
  <2>1. PICK w \in At(i) \ {Contacts} : UNCHANGED <<id, session>> /\ SwitchTo(w)
    BY <1>1 DEF CmdSwitch
  <2>2. UNCHANGED <<windows, ahead, talk, sessions>> BY <1>1 DEF CmdSwitch
  <2>3. Frame' BY <2>1, <2>2, SameFrame DEF IInv
  <2>4. w \in Fixed' BY <2>2 DEF At, Fixed
  <2> QED BY <2>1, <2>2, <2>3, <2>4, OnlySwitch
<1>2. CASE CmdNext
  <2> DEFINE w == IF After(current) = {} THEN Status
                  ELSE FirstOf(After(current))
  <2>1. SwitchTo(w) /\ UNCHANGED <<windows, ahead, id, talk, session, sessions>>
    BY <1>2 DEF CmdNext
  <2>2. After(current) \in SUBSET windows /\ After(current) \subseteq Fixed
    BY DEF After, Fixed
  <2>3. w \in Fixed BY <2>2, FirstOfIn, LowNumbers DEF IInv
  <2> HIDE DEF w
  <2>4. Frame' BY <2>1, SameFrame DEF IInv
  <2>5. w \in Fixed' BY <2>1, <2>3 DEF Fixed
  <2> QED BY <2>1, <2>4, <2>5, OnlySwitch
<1>3. CASE CmdPrev
  <2>1. SwitchTo(Prev) /\ UNCHANGED <<windows, ahead, id, talk, session, sessions>>
    BY <1>3 DEF CmdPrev
  <2>2. Prev \in Fixed BY PrevIn DEF IInv, Rest
  <2>3. Frame' BY <2>1, SameFrame DEF IInv
  <2>4. Prev \in Fixed' BY <2>1, <2>2 DEF Fixed
  <2> QED BY <2>1, <2>3, <2>4, OnlySwitch
<1>4. CASE CmdNew
  <2> DEFINE s == IF session[current] # 0 THEN session[current]
                  ELSE First(sessions)
  <2>1. UNCHANGED sessions BY <1>4 DEF CmdNew
  <2>2. s \in 0 .. MaxSession
    <3>1. current \in Handles /\ sessions \in SUBSET (1 .. MaxSession)
      BY DEF IInv, Rest, Frame, Fixed
    <3>2. session[current] \in 0 .. MaxSession BY <3>1 DEF IInv, Rest
    <3>3. First(sessions) \in sessions \cup {0} BY <3>1, FirstIn
    <3>4. 1 .. MaxSession \subseteq 0 .. MaxSession /\ 0 \in 0 .. MaxSession
      BY WindowsAssumption
    <3>5. First(sessions) \in 0 .. MaxSession BY <3>1, <3>3, <3>4
    <3> QED BY <3>2, <3>5
  <2> HIDE DEF s
  <2>3. ASSUME NEW i \in Free, NEW w \in Handles \ windows,
               NEW t \in Kinds \cup {NoTalk},
               Create(w, i, t, s), SwitchTo(w)
        PROVE  IInv'
    BY <2>1, <2>2, <2>3, NewWindow
  <2>4. ASSUME NEW w \in {Debug, Status, current}
                          \cup {v \in Fixed : talk[v] # NoTalk},
               session' = [session EXCEPT ![w] = s],
               UNCHANGED <<windows, ahead, id, talk>>, SwitchTo(w)
        PROVE  IInv'
    <3>1. w \in Fixed BY LowNumbers DEF IInv, Rest
    <3>2. w \in Fixed' BY <2>4, <3>1 DEF Fixed
    <3>3. Frame' BY <2>4, SameFrame DEF IInv
    <3>4. session' \in [Handles -> 0 .. MaxSession]
      BY <2>2, <2>4 DEF IInv, Rest
    <3>5. Rest'
      BY <2>1, <2>4, <3>2, <3>3, <3>4, SwitchRest DEF IInv, Rest
    <3> QED BY <3>3, <3>5 DEF IInv
  <2> QED BY <1>4, <2>3, <2>4 DEF CmdNew, s
<1>5. CASE Cycle BY <1>5, CycleInv
<1>6. ASSUME NEW s \in 1 .. MaxSession, Query(s) PROVE IInv'
  <2>1. PICK i \in Free, w \in Handles \ windows :
          /\ Create(w, i, Kind(s), s)
          /\ SwitchTo(w) \/ UNCHANGED <<current, sessionCurrent>>
    BY <1>6 DEF Query
  <2>2. UNCHANGED sessions BY <1>6 DEF Query
  <2>3. Kind(s) \in Kinds \cup {NoTalk} /\ s \in 0 .. MaxSession
    BY WindowsAssumption
  <2> QED BY <2>1, <2>2, <2>3, NewWindow
<1>7. ASSUME NEW s \in 1 .. MaxSession, SessionSwitch(s) PROVE IInv'
  BY <1>7, SessionSwitchInv
<1>8. ASSUME NEW s \in 1 .. MaxSession, SessionAdd(s) PROVE IInv'
  BY <1>8, SessionAddInv
<1>9. ASSUME NEW s \in 1 .. MaxSession, SessionRemove(s) PROVE IInv'
  BY <1>9, SessionRemoveInv
<1>10. ASSUME NEW w \in Handles, NEW sort \in BOOLEAN, Kill(w, sort)
       PROVE  IInv'
  <2> DEFINE v == IF w = current THEN Prev ELSE current
  <2>1. /\ SwitchTo(v) /\ UNCHANGED sessions /\ w \notin {Debug, Status}
        /\ talk' = [talk EXCEPT ![w] = NoTalk]
        /\ session' = [session EXCEPT ![w] = 0]
    BY <1>10 DEF Kill
  <2>2. Frame' /\ Fixed' = Fixed \ {w} BY <1>10, KillFrame DEF IInv
  <2>3. v \in Fixed /\ v # w
    <3>1. w \notin {Debug, Status} BY <1>10 DEF Kill
    <3>2. current \in Fixed /\ Prev \in Fixed BY PrevIn DEF IInv, Rest
    <3>3. w = current => Prev # current BY <3>1, <3>2, PrevOther DEF IInv
    <3> QED BY <3>2, <3>3
  <2> HIDE DEF v
  <2> QED BY <2>1, <2>2, <2>3, SwitchClears
<1>11. ASSUME NEW from \in Numbers, NEW to \in Numbers, from # to,
              Swap(from, to)
       PROVE  IInv'
  BY <1>11, SwapInv
<1>12. ASSUME NEW from \in Numbers, NEW to \in Numbers, from # to,
              Move(from, to)
       PROVE  IInv'
  <2>1. Frame' /\ \E w \in Fixed' : SwitchTo(w) BY <1>12, MoveFrame DEF IInv
  <2>2. UNCHANGED <<talk, session, sessions>> BY <1>12 DEF Move
  <2> QED BY <2>1, <2>2, OnlySwitch
<1>13. CASE UNCHANGED vars
  <2>1. Frame' BY <1>13, SameFrame DEF IInv, vars, frame
  <2>2. Rest' BY <1>13 DEF IInv, Rest, SessionsAgree, Fixed, vars, frame
  <2> QED BY <2>1, <2>2 DEF IInv
<1> QED
  BY <1>1, <1>2, <1>3, <1>4, <1>5, <1>6, <1>7, <1>8, <1>9, <1>10, <1>11,
     <1>12, <1>13 DEF Next

(***************************************************************************)
(* The list stays sorted by unique numbers, with 0 and 1 for debug and     *)
(* status, through any commands.                                           *)
(***************************************************************************)
THEOREM NumbersAreSorted == Spec => []Numbered
<1>1. IInv => Numbered BY DEF IInv, Frame
<1> QED BY <1>1, InitIInv, NextIInv, PTL DEF Spec

(***************************************************************************)
(* The current window is always one of the list that does not float.       *)
(***************************************************************************)
THEOREM CurrentIsListed == Spec => []CurrentIsThere
<1>1. IInv => CurrentIsThere BY DEF IInv, Rest, CurrentIsThere
<1> QED BY <1>1, InitIInv, NextIInv, PTL DEF Spec

(***************************************************************************)
(* Commands go to the session of the current window: session_current is    *)
(* it, if the window has one and is not the debug window.                  *)
(***************************************************************************)
THEOREM CommandsGoToSession == Spec => []SessionsAgree
<1>1. IInv => SessionsAgree BY DEF IInv, Rest
<1> QED BY <1>1, InitIInv, NextIInv, PTL DEF Spec

\* The variables keep their types.
THEOREM WindowsTyped == Spec => []TypeOK
<1>1. IInv => TypeOK
  BY DEF IInv, Frame, Rest, TypeOK, Fixed
<1> QED BY <1>1, InitIInv, NextIInv, PTL DEF Spec

====
