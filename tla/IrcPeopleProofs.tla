-------------------------- MODULE IrcPeopleProofs --------------------------
(***************************************************************************)
(* Proofs about IrcPeople, for any channels, nicks and addresses.  The     *)
(* three properties are proved together: that the lists agree rests on the *)
(* truth of what they say (a nick somebody takes is nobody's, because the  *)
(* server says so and the people known are those it told us of), and what  *)
(* the windows list rests on both.                                         *)
(***************************************************************************)
EXTENDS IrcPeople, TLAPS

LEMMA NobodyIsNoChannel == Nobody \notin Channels
BY PeopleAssumption

(***************************************************************************)
(* Types of what the helpers change.                                       *)
(***************************************************************************)
LEMMA AddTypes ==
  ASSUME TypeOK, NEW n \in Nicks, NEW c \in Channels, NEW op, AddPerson(n, c, op)
  PROVE  /\ people' \subseteq People
         /\ nick' \in [People -> Nicks]
         /\ onchan' \in [Channels -> SUBSET People]
         /\ chans' \in [People -> SUBSET Channels]
         /\ opped' \in [People -> SUBSET Channels]
         /\ roster' \in [Channels -> SUBSET Nicks]
<1>1. PICK p \in IF Find(n) = {} THEN People \ people ELSE Find(n) :
        /\ people' = people \cup {p}
        /\ nick' = [nick EXCEPT ![p] = n]
        /\ onchan' = [onchan EXCEPT ![c] = IF n \in Names(c) THEN @
                                           ELSE @ \cup {p}]
        /\ chans' = [chans EXCEPT ![p] = @ \cup {c}]
        /\ opped' = [opped EXCEPT ![p] = IF op /\ c \notin chans[p] THEN @ \cup {c}
                                         ELSE @]
        /\ roster' = [roster EXCEPT ![c] = IF Open(c) THEN @ \cup {n} ELSE @]
  BY DEF AddPerson
<1>2. p \in People BY <1>1 DEF Find, TypeOK
<1> QED BY <1>1, <1>2 DEF TypeOK

LEMMA ListedTypes ==
  ASSUME TypeOK, NEW n \in Nicks, NEW c \in Channels, NEW op, Listed(n, c, op)
  PROVE  /\ people' \subseteq People
         /\ nick' \in [People -> Nicks]
         /\ onchan' \in [Channels -> SUBSET People]
         /\ chans' \in [People -> SUBSET Channels]
         /\ opped' \in [People -> SUBSET Channels]
         /\ roster' \in [Channels -> SUBSET Nicks]
BY AddTypes DEF Listed, TypeOK

LEMMA RemoveTypes ==
  ASSUME TypeOK, NEW ps, NEW cs, Remove(ps, cs)
  PROVE  /\ people' \subseteq People
         /\ onchan' \in [Channels -> SUBSET People]
         /\ chans' \in [People -> SUBSET Channels]
         /\ opped' \in [People -> SUBSET Channels]
         /\ roster' \in [Channels -> SUBSET Nicks]
BY DEF Remove, TypeOK

LEMMA RenamedTypes ==
  ASSUME NEW n \in Nicks, NEW m \in Nicks, NEW S \in SUBSET Nicks
  PROVE  Renamed(n, m, S) \in SUBSET Nicks
BY DEF Renamed

\* Every step keeps the types.
LEMMA TypeStep == TypeOK /\ [Next]_vars => TypeOK'
<1> SUFFICES ASSUME TypeOK, [Next]_vars PROVE TypeOK' OBVIOUS
<1> USE NobodyIsNoChannel
<1>1. ASSUME NEW c \in Channels, JoinMyself(c) PROVE TypeOK'
  <2>1. PICK others \in SUBSET (Nicks \ {myNick}) :
          /\ members' = [members EXCEPT ![c] = others \cup {myNick}]
          /\ \E ops \in SUBSET members'[c] :
               operators' = [operators EXCEPT ![c] = ops]
          /\ listing' = [chan |-> c, rest |-> members'[c]]
    BY <1>1 DEF JoinMyself
  <2>2. members' \in [Channels -> SUBSET Nicks] BY <2>1 DEF TypeOK
  <2>3. operators' \in [Channels -> SUBSET Nicks] BY <2>1, <2>2 DEF TypeOK
  <2>4. listing' \in [chan : Channels \cup {Nobody}, rest : SUBSET Nicks]
    BY <2>1, <2>2
  <2> QED BY <1>1, <2>2, <2>3, <2>4 DEF JoinMyself, TypeOK
<1>2. ASSUME NEW c \in Channels, AskNames(c) PROVE TypeOK'
  BY <1>2 DEF AskNames, lists, windows, TypeOK
<1>3. ASSUME NEW c \in Channels, KillWindow(c) PROVE TypeOK'
  BY <1>3 DEF KillWindow, server, lists, TypeOK
<1>4. ASSUME NEW c \in Channels, OpenWindow(c) PROVE TypeOK'
  BY <1>4 DEF OpenWindow, server, lists, TypeOK
<1>5. ASSUME NEW n \in Nicks, NamesLine(n) PROVE TypeOK'
  <2>1. listing.chan \in Channels \cup {Nobody} BY DEF TypeOK
  <2>2. CASE listing.chan = Nobody
    <3>1. listing' \in [chan : Channels \cup {Nobody}, rest : SUBSET Nicks]
      BY <1>5 DEF NamesLine, NoListing, TypeOK
    <3>2. Listed(n, listing.chan, n \in operators[listing.chan])
      BY <1>5 DEF NamesLine
    <3>3. UNCHANGED <<onchan, people, nick, chans, opped, roster>>
      BY <2>2, <3>2 DEF Listed, TypeOK
    <3> QED BY <1>5, <3>1, <3>3 DEF NamesLine, TypeOK
  <2>3. CASE listing.chan \in Channels
    <3>1. listing' \in [chan : Channels \cup {Nobody}, rest : SUBSET Nicks]
      BY <1>5 DEF NamesLine, NoListing, TypeOK
    <3>2. Listed(n, listing.chan, n \in operators[listing.chan])
      BY <1>5 DEF NamesLine
    <3> QED BY <1>5, <2>3, <3>1, <3>2, ListedTypes DEF NamesLine, TypeOK
  <2> QED BY <2>1, <2>2, <2>3
<1>6. ASSUME NEW n \in Nicks, Quit(n) PROVE TypeOK'
  <2>1. /\ members' \in [Channels -> SUBSET Nicks]
        /\ operators' \in [Channels -> SUBSET Nicks]
    BY <1>6 DEF Quit, TypeOK
  <2>2. CASE Find(n) = {}
    BY <1>6, <2>1, <2>2 DEF Quit, DelPerson, TypeOK
  <2>3. CASE Find(n) # {}
    <3>1. PICK p \in Find(n) : Remove({p}, chans[p])
      BY <1>6, <2>3 DEF Quit, DelPerson
    <3> QED BY <1>6, <2>1, <3>1, RemoveTypes DEF Quit, TypeOK
  <2> QED BY <2>2, <2>3
<1>7. ASSUME NEW n \in Nicks, NEW c \in Channels, Join(n, c) PROVE TypeOK'
  <2>1. members' \in [Channels -> SUBSET Nicks] BY <1>7 DEF Join, TypeOK
  <2> QED BY <1>7, <2>1, ListedTypes DEF Join, TypeOK
<1>8. ASSUME NEW n \in Nicks, NEW c \in Channels, Leave(n, c) PROVE TypeOK'
  <2>1. /\ members' \in [Channels -> SUBSET Nicks]
        /\ operators' \in [Channels -> SUBSET Nicks]
    BY <1>8 DEF Leave, TypeOK
  <2>2. CASE n = myNick
    <3>1. DelChannel(c) BY <1>8, <2>2 DEF Leave
    <3>2. CASE c \notin channels
      BY <1>8, <2>1, <3>1, <3>2 DEF Leave, DelChannel, lists, windows, TypeOK
    <3>3. CASE c \in channels
      <4>1. window' \in [Channels -> {"none", "own", "other"}]
        BY <3>1, <3>3 DEF DelChannel, TypeOK
      <4>2. Remove(onchan[c], {c}) BY <3>1, <3>3 DEF DelChannel
      <4>3. channels' = channels \ {c} /\ nick' = nick
        BY <3>1, <3>3 DEF DelChannel
      <4> QED BY <1>8, <2>1, <4>1, <4>2, <4>3, RemoveTypes DEF Leave, TypeOK
    <3> QED BY <3>2, <3>3
  <2>3. CASE n # myNick
    <3>1. DelPersonChannel(n, c) /\ UNCHANGED <<channels, nick, window>>
      BY <1>8, <2>3 DEF Leave
    <3> QED BY <1>8, <2>1, <3>1, RemoveTypes DEF Leave, DelPersonChannel, TypeOK
  <2> QED BY <2>2, <2>3
<1>9. ASSUME NEW n \in Nicks, NEW m \in Nicks, Nick(n, m) PROVE TypeOK'
  <2>1. /\ members' \in [Channels -> SUBSET Nicks]
        /\ operators' \in [Channels -> SUBSET Nicks]
    BY <1>9, RenamedTypes DEF Nick, TypeOK
  <2>2. /\ nick' \in [People -> Nicks]
        /\ roster' \in [Channels -> SUBSET Nicks]
    BY <1>9, RenamedTypes DEF Nick, NickChange, TypeOK
  <2>3. myNick' \in Nicks BY <1>9 DEF Nick, TypeOK
  <2> QED BY <1>9, <2>1, <2>2, <2>3 DEF Nick, TypeOK
<1>10. ASSUME NEW n \in Nicks, NEW c \in Channels, NEW on \in BOOLEAN,
              Mode(n, c, on)
       PROVE TypeOK'
  <2>1. operators' \in [Channels -> SUBSET Nicks] BY <1>10 DEF Mode, TypeOK
  <2>2. opped' \in [People -> SUBSET Channels] BY <1>10 DEF Mode, TypeOK
  <2> QED BY <1>10, <2>1, <2>2 DEF Mode, windows, TypeOK
<1>11. ASSUME Disconnect PROVE TypeOK'
  BY <1>11 DEF Disconnect, FreePeople, NoListing, TypeOK
<1>12. ASSUME UNCHANGED vars PROVE TypeOK'
  BY <1>12 DEF vars, server, lists, windows, TypeOK
<1> QED
  BY <1>1, <1>2, <1>3, <1>4, <1>5, <1>6, <1>7, <1>8, <1>9, <1>10, <1>11, <1>12
  DEF Next

\* The variables have their types.
THEOREM TypeCorrect == Spec => []TypeOK
<1>1. Init => TypeOK
  <2> SUFFICES ASSUME Init PROVE TypeOK OBVIOUS
  <2>1. nick \in [People -> Nicks] BY DEF Init
  <2> QED BY <2>1 DEF Init, NoListing, TypeOK
<1> QED BY <1>1, TypeStep, PTL DEF Spec

-----------------------------------------------------------------------------
(***************************************************************************)
(* The invariant: the three properties, what they need to know of freed    *)
(* addresses, and of the server.                                           *)
(***************************************************************************)
Ops(c) == {nick[p] : p \in {q \in onchan[c] : c \in opped[q]}}

Freed ==
  /\ \A p \in People \ people : chans[p] = {}
  /\ \A p \in People : opped[p] \subseteq chans[p]

\* the server tells us of channels we are on only
ServerIsSane ==
  /\ \A c \in Channels : operators[c] \subseteq members[c]
  /\ \A c \in Channels : members[c] # {} => myNick \in members[c]
  /\ listing.chan \in Channels => listing.rest \subseteq members[listing.chan]
  /\ listing.chan = Nobody => listing.rest = {}

PInv == ListsAgree /\ Freed
IInv == TypeOK /\ PInv /\ ViewIsTruth /\ RostersAreRight /\ ServerIsSane

\* when no 353 lines are to come, the plugin knows everybody
LEMMA QuietNames ==
  ASSUME IInv, Quiet, NEW c \in Channels
  PROVE  Names(c) = members[c] /\ Ops(c) = operators[c]
<1>1. listing.chan # c BY NobodyIsNoChannel DEF Quiet, NoListing
<1>2. members[c] \subseteq Names(c) /\ Names(c) \subseteq members[c]
  BY <1>1 DEF IInv, ViewIsTruth
<1>3. Ops(c) = operators[c] \cap Names(c) BY DEF IInv, ViewIsTruth, Ops
<1> QED BY <1>2, <1>3 DEF IInv, ServerIsSane

\* a nick of a channel is one person of it
LEMMA WhoItIs ==
  ASSUME TypeOK, PInv, NEW c \in Channels, NEW n \in Names(c)
  PROVE  \E p \in people : Find(n) = {p} /\ nick[p] = n /\ c \in chans[p]
<1>1. PICK p \in onchan[c] : nick[p] = n BY DEF Names
<1>2. p \in people /\ c \in chans[p] BY DEF PInv, ListsAgree
<1>3. Find(n) = {p} BY <1>1, <1>2 DEF Find, PInv, ListsAgree
<1> QED BY <1>1, <1>2, <1>3

LEMMA SameNames ==
  ASSUME UNCHANGED <<onchan, nick, opped>>, NEW c \in Channels
  PROVE  Names(c)' = Names(c) /\ Ops(c)' = Ops(c)
BY DEF Names, Ops

(***************************************************************************)
(* irc_add_person_int() for a channel we are on: the lists still agree,    *)
(* the channel has one more name, and the others have what they had.       *)
(***************************************************************************)
LEMMA AddKeeps ==
  ASSUME TypeOK, PInv, NEW n \in Nicks, NEW c \in channels, NEW S,
         AddPerson(n, c, n \in S), channels' = channels
  PROVE  /\ PInv'
         /\ Names(c)' = Names(c) \cup {n}
         /\ Ops(c)' = Ops(c) \cup (IF n \in S /\ n \notin Names(c) THEN {n} ELSE {})
         /\ \A d \in Channels \ {c} : Names(d)' = Names(d) /\ Ops(d)' = Ops(d)
         /\ roster' = [roster EXCEPT ![c] = IF Open(c) THEN @ \cup {n} ELSE @]
<1>0. c \in Channels BY DEF TypeOK
<1>1. PICK p \in IF Find(n) = {} THEN People \ people ELSE Find(n) :
        /\ people' = people \cup {p}
        /\ nick' = [nick EXCEPT ![p] = n]
        /\ onchan' = [onchan EXCEPT ![c] = IF n \in Names(c) THEN @
                                           ELSE @ \cup {p}]
        /\ chans' = [chans EXCEPT ![p] = @ \cup {c}]
        /\ opped' = [opped EXCEPT ![p] = IF n \in S /\ c \notin chans[p] THEN @ \cup {c}
                                         ELSE @]
        /\ roster' = [roster EXCEPT ![c] = IF Open(c) THEN @ \cup {n} ELSE @]
  BY DEF AddPerson
<1>2. p \in People BY <1>1 DEF Find, TypeOK
<1>3. \A q \in people : nick[q] = n => q = p
  <2>1. CASE Find(n) = {} BY <2>1 DEF Find
  <2>2. CASE Find(n) # {}
    <3>1. p \in people /\ nick[p] = n BY <1>1, <2>2 DEF Find
    <3> QED BY <3>1 DEF PInv, ListsAgree
  <2> QED BY <2>1, <2>2
<1>4. p \in people => nick[p] = n BY <1>1 DEF Find
<1>5. n \in Names(c) <=> p \in onchan[c]
  <2>1. onchan[c] \subseteq people BY <1>0 DEF PInv, ListsAgree
  <2> QED BY <1>3, <1>4, <2>1 DEF Names
<1>6. onchan' = [onchan EXCEPT ![c] = @ \cup {p}]
  BY <1>1, <1>5, <1>0 DEF TypeOK
<1>7. p \in onchan[c] <=> c \in chans[p]
  BY <1>0, <1>2 DEF PInv, ListsAgree, Freed
<1>8. \A d \in Channels : onchan'[d] = {q \in people' : d \in chans'[q]}
  <2> SUFFICES ASSUME NEW d \in Channels
               PROVE  onchan'[d] = {q \in people' : d \in chans'[q]}
    OBVIOUS
  <2>1. onchan[d] = {q \in people : d \in chans[q]} BY DEF PInv, ListsAgree
  <2>2. \A q \in People : chans'[q] = IF q = p THEN chans[q] \cup {c} ELSE chans[q]
    BY <1>1, <1>2 DEF TypeOK
  <2>3. p \notin people => chans[p] = {} BY <1>2 DEF PInv, Freed
  <2>4. onchan'[d] = IF d = c THEN onchan[d] \cup {p} ELSE onchan[d]
    BY <1>6, <1>0 DEF TypeOK
  <2>5. people' = people \cup {p} /\ people \subseteq People
    BY <1>1 DEF TypeOK
  <2> QED BY <1>2, <2>1, <2>2, <2>3, <2>4, <2>5
<1>9. \A q \in people' : chans'[q] # {} /\ chans'[q] \subseteq channels'
  <2> SUFFICES ASSUME NEW q \in people'
               PROVE  chans'[q] # {} /\ chans'[q] \subseteq channels'
    OBVIOUS
  <2>1. CASE q = p
    <3>1. chans[p] \subseteq channels
      BY <1>2 DEF PInv, ListsAgree, Freed
    <3>2. chans'[p] = chans[p] \cup {c} BY <1>1, <1>2 DEF TypeOK
    <3> QED BY <2>1, <3>1, <3>2
  <2>2. CASE q # p
    <3>1. q \in people /\ chans'[q] = chans[q]
      BY <1>1, <2>2 DEF TypeOK
    <3> QED BY <3>1 DEF PInv, ListsAgree
  <2> QED BY <2>1, <2>2
<1>10. \A q \in people : nick'[q] = nick[q]
  BY <1>1, <1>2, <1>4 DEF TypeOK
<1>11. nick'[p] = n BY <1>1, <1>2 DEF TypeOK
<1>12. \A q, r \in people' : nick'[q] = nick'[r] => q = r
  <2>1. \A q, r \in people : nick[q] = nick[r] => q = r BY DEF PInv, ListsAgree
  <2> QED BY <1>1, <1>3, <1>10, <1>11, <2>1
<1>13. Freed'
  <2>1. \A q \in People \ people' : chans'[q] = {}
    BY <1>1 DEF PInv, Freed, TypeOK
  <2>2. \A q \in People : opped'[q] \subseteq chans'[q]
    BY <1>1, <1>2 DEF PInv, Freed, TypeOK
  <2> QED BY <2>1, <2>2 DEF Freed
<1>14. \A d \in Channels : onchan[d] \subseteq people
  BY DEF PInv, ListsAgree
<1>15. Names(c)' = Names(c) \cup {n}
  <2>1. onchan'[c] = onchan[c] \cup {p} BY <1>0, <1>6 DEF TypeOK
  <2> QED BY <1>0, <1>10, <1>11, <1>14, <2>1 DEF Names
<1>16. Ops(c)' = Ops(c) \cup (IF n \in S /\ n \notin Names(c) THEN {n} ELSE {})
  <2>1. onchan'[c] = onchan[c] \cup {p} BY <1>0, <1>6 DEF TypeOK
  <2>2. \A q \in onchan[c] \ {p} : nick'[q] = nick[q] /\ opped'[q] = opped[q]
    BY <1>0, <1>1, <1>10, <1>14 DEF TypeOK
  <2>3. CASE p \in onchan[c]
    <3>1. opped' = opped BY <1>1, <1>2, <1>7, <2>3 DEF TypeOK
    <3>2. n \in Names(c) BY <1>5, <2>3
    <3>3. onchan'[c] = onchan[c] BY <2>1, <2>3
    <3>4. \A q \in onchan[c] : nick'[q] = nick[q] BY <1>0, <1>10, <1>14
    <3> QED BY <3>1, <3>2, <3>3, <3>4 DEF Ops
  <2>4. CASE p \notin onchan[c]
    <3>1. c \notin chans[p] /\ c \notin opped[p]
      BY <1>2, <1>7, <2>4 DEF PInv, Freed
    <3>2. c \in opped'[p] <=> n \in S BY <1>1, <1>2, <3>1 DEF TypeOK
    <3>3. n \notin Names(c) BY <1>5, <2>4
    <3>4. {q \in onchan'[c] : c \in opped'[q]}
            = {q \in onchan[c] : c \in opped[q]} \cup (IF n \in S THEN {p} ELSE {})
      BY <2>1, <2>2, <2>4, <3>2
    <3> QED BY <1>11, <2>2, <2>4, <3>3, <3>4 DEF Ops
  <2> QED BY <2>3, <2>4
<1>17. ASSUME NEW d \in Channels \ {c}
       PROVE  Names(d)' = Names(d) /\ Ops(d)' = Ops(d)
  <2>1. onchan'[d] = onchan[d] BY <1>6 DEF TypeOK
  <2>2. \A q \in onchan[d] : nick'[q] = nick[q] BY <1>10, <1>14
  <2>3. \A q \in onchan[d] : d \in opped'[q] <=> d \in opped[q]
    BY <1>1, <1>14 DEF TypeOK
  <2>4. {q \in onchan'[d] : d \in opped'[q]} = {q \in onchan[d] : d \in opped[q]}
    BY <2>1, <2>3
  <2> QED BY <2>1, <2>2, <2>4 DEF Names, Ops
<1> QED
  BY <1>1, <1>8, <1>9, <1>12, <1>13, <1>15, <1>16, <1>17 DEF PInv, ListsAgree

(***************************************************************************)
(* irc_del_person_channel_int(): people, and what they were on.            *)
(***************************************************************************)
LEMMA RemoveKeeps ==
  ASSUME TypeOK, PInv, NEW ps \in SUBSET people, NEW cs \in SUBSET Channels,
         Remove(ps, cs), nick' = nick, channels' \subseteq channels,
         \A c \in channels \ channels' : c \in cs /\ onchan[c] \subseteq ps
  PROVE  /\ PInv'
         /\ \A c \in Channels \ cs : Names(c)' = Names(c) /\ Ops(c)' = Ops(c)
         /\ \A c \in cs :
              /\ Names(c)' = Names(c) \ {nick[p] : p \in ps}
              /\ Ops(c)' = Ops(c) \ {nick[p] : p \in ps}
         /\ \A c \in Channels :
              roster'[c] = IF c \in cs THEN roster[c] \ {nick[p] : p \in ps}
                           ELSE roster[c]
<1> DEFINE gone == {p \in ps : chans[p] \subseteq cs}
<1>1. /\ people' = people \ gone
      /\ onchan' = [c \in Channels |-> IF c \in cs THEN onchan[c] \ ps
                                       ELSE onchan[c]]
      /\ chans' = [p \in People |-> IF p \in ps THEN chans[p] \ cs ELSE chans[p]]
      /\ opped' = [p \in People |-> IF p \in ps THEN opped[p] \ cs ELSE opped[p]]
      /\ roster' = [c \in Channels |-> IF c \in cs
                                       THEN roster[c] \ {nick[p] : p \in ps}
                                       ELSE roster[c]]
  BY DEF Remove
<1>2. people \subseteq People /\ ps \subseteq People BY DEF TypeOK
<1>3. \A c \in Channels : onchan[c] = {p \in people : c \in chans[p]}
  BY DEF PInv, ListsAgree
<1>4. \A p, q \in people : nick[p] = nick[q] => p = q BY DEF PInv, ListsAgree
<1>5. \A c \in Channels : onchan'[c] = {p \in people' : c \in chans'[p]}
  BY <1>1, <1>2, <1>3
<1>6. \A p \in people' : chans'[p] # {} /\ chans'[p] \subseteq channels'
  <2> SUFFICES ASSUME NEW p \in people'
               PROVE  chans'[p] # {} /\ chans'[p] \subseteq channels'
    OBVIOUS
  <2>1. p \in people /\ p \in People BY <1>1, <1>2
  <2>2. chans[p] # {} /\ chans[p] \subseteq channels
    BY <2>1 DEF PInv, ListsAgree
  <2>3. CASE p \in ps
    <3>1. chans'[p] = chans[p] \ cs BY <1>1, <2>1, <2>3
    <3>2. ~(chans[p] \subseteq cs) BY <1>1, <2>3
    <3> QED BY <2>2, <3>1, <3>2
  <2>4. CASE p \notin ps
    <3>1. chans'[p] = chans[p] BY <1>1, <2>1, <2>4
    <3>2. \A c \in chans[p] : c \in channels'
      <4> SUFFICES ASSUME NEW c \in chans[p], c \notin channels' PROVE FALSE
        OBVIOUS
      <4>1. c \in channels /\ c \in Channels BY <2>2 DEF TypeOK
      <4>2. onchan[c] \subseteq ps BY <4>1
      <4> QED BY <1>3, <2>1, <2>4, <4>1, <4>2
    <3> QED BY <2>2, <3>1, <3>2
  <2> QED BY <2>3, <2>4
<1>7. \A p, q \in people' : nick'[p] = nick'[q] => p = q BY <1>1, <1>4
<1>8. \A p \in People \ people' : chans'[p] = {}
  <2>1. \A p \in People \ people : chans[p] = {} BY DEF PInv, Freed
  <2> QED BY <1>1, <1>2, <2>1
<1>9. \A p \in People : opped'[p] \subseteq chans'[p]
  BY <1>1 DEF PInv, Freed
<1>10. ASSUME NEW c \in Channels \ cs
       PROVE  Names(c)' = Names(c) /\ Ops(c)' = Ops(c)
  <2>1. onchan'[c] = onchan[c] BY <1>1
  <2>2. \A p \in onchan[c] : c \in opped'[p] <=> c \in opped[p]
    BY <1>1, <1>2, <1>3
  <2>3. {q \in onchan'[c] : c \in opped'[q]} = {q \in onchan[c] : c \in opped[q]}
    BY <2>1, <2>2
  <2> QED BY <2>1, <2>3 DEF Names, Ops
<1>11. ASSUME NEW c \in cs
       PROVE  /\ Names(c)' = Names(c) \ {nick[p] : p \in ps}
              /\ Ops(c)' = Ops(c) \ {nick[p] : p \in ps}
  <2>1. onchan'[c] = onchan[c] \ ps BY <1>1
  <2>2. \A p \in onchan[c] \ ps : opped'[p] = opped[p] BY <1>1, <1>2, <1>3
  <2>3. \A p \in onchan[c] \ ps : nick[p] \notin {nick[q] : q \in ps}
    BY <1>3, <1>4
  <2>4. {q \in onchan'[c] : c \in opped'[q]}
          = {q \in onchan[c] : c \in opped[q]} \ ps
    BY <2>1, <2>2
  <2>5. Names(c)' = Names(c) \ {nick[p] : p \in ps} BY <2>1, <2>3 DEF Names
  <2>6. Ops(c)' = Ops(c) \ {nick[p] : p \in ps} BY <2>3, <2>4 DEF Ops
  <2> QED BY <2>5, <2>6
<1>12. \A c \in Channels :
         roster'[c] = IF c \in cs THEN roster[c] \ {nick[p] : p \in ps}
                      ELSE roster[c]
  BY <1>1
<1> QED
  BY <1>5, <1>6, <1>7, <1>8, <1>9, <1>10, <1>11, <1>12
  DEF PInv, ListsAgree, Freed

-----------------------------------------------------------------------------
(***************************************************************************)
(* What a channel's lists have to say of it, once the lists agree.         *)
(***************************************************************************)
Told(c) == members[c] \ (IF listing.chan = c THEN listing.rest ELSE {})

RightFor(c) ==
  /\ c \in channels <=> myNick \in members[c]
  /\ Told(c) \subseteq Names(c) /\ Names(c) \subseteq members[c]
  /\ Ops(c) = operators[c] \cap Names(c)
  /\ IF c \in channels
     THEN /\ roster[c] \subseteq Names(c)
          /\ window[c] = "own" => roster[c] = Names(c)
     ELSE roster[c] = {}

LEMMA RightForAll ==
  (ViewIsTruth /\ RostersAreRight) <=> \A c \in Channels : RightFor(c)
BY DEF ViewIsTruth, RostersAreRight, RightFor, Told, Ops

LEMMA IInvIs ==
  IInv <=> TypeOK /\ PInv /\ ServerIsSane /\ \A c \in Channels : RightFor(c)
BY RightForAll DEF IInv

LEMMA IInvNext ==
  ASSUME TypeOK', PInv', ServerIsSane', \A c \in Channels : RightFor(c)'
  PROVE  IInv'
BY DEF IInv, ViewIsTruth, RostersAreRight, RightFor, Told, Ops

\* nobody is on a channel that we are not on
LEMMA EmptyChannel ==
  ASSUME IInv, NEW c \in Channels, c \notin channels
  PROVE  members[c] = {} /\ onchan[c] = {} /\ Names(c) = {} /\ Ops(c) = {}
<1>1. members[c] = {} BY IInvIs DEF RightFor, ServerIsSane
<1>2. onchan[c] = {} BY DEF IInv, PInv, ListsAgree
<1> QED BY <1>1, <1>2 DEF Names, Ops

\* the channel as it was: nothing in RightFor(c) changed
LEMMA Unchanged ==
  ASSUME NEW c \in Channels, RightFor(c), members'[c] = members[c],
         Told(c)' \subseteq Told(c),
         operators'[c] = operators[c], Names(c)' = Names(c), Ops(c)' = Ops(c),
         c \in channels' <=> c \in channels, myNick' = myNick,
         roster'[c] = roster[c], window'[c] = window[c]
  PROVE  RightFor(c)'
BY DEF RightFor

LEMMA QuietTold ==
  ASSUME Quiet, UNCHANGED listing, NEW c \in Channels
  PROVE  Told(c) = members[c] /\ Told(c)' = members'[c]
BY NobodyIsNoChannel DEF Quiet, NoListing, Told

-----------------------------------------------------------------------------
LEMMA InitInv == Init => IInv
<1> SUFFICES ASSUME Init PROVE IInv OBVIOUS
<1>1. TypeOK
  <2>1. nick \in [People -> Nicks] BY DEF Init
  <2> QED BY <2>1 DEF Init, NoListing, TypeOK
<1>2. PInv BY DEF Init, PInv, ListsAgree, Freed
<1>3. ServerIsSane BY NobodyIsNoChannel DEF Init, NoListing, ServerIsSane
<1>4. \A c \in Channels : RightFor(c)
  BY DEF Init, RightFor, Told, Names, Ops
<1> QED BY <1>1, <1>2, <1>3, <1>4, IInvIs

LEMMA JoinMyselfStep ==
  ASSUME IInv, TypeOK', NEW c \in Channels, JoinMyself(c) PROVE IInv'
<1> USE NobodyIsNoChannel
<1>1. PICK others \in SUBSET (Nicks \ {myNick}) :
        /\ members' = [members EXCEPT ![c] = others \cup {myNick}]
        /\ \E ops \in SUBSET members'[c] :
             operators' = [operators EXCEPT ![c] = ops]
        /\ listing' = [chan |-> c, rest |-> members'[c]]
  BY DEF JoinMyself
<1>2. /\ window' = [window EXCEPT ![c] = "own"]
      /\ channels' = channels \cup {c}
      /\ UNCHANGED <<onchan, people, nick, chans, opped, roster, myNick>>
      /\ Quiet /\ myNick \notin members[c]
  BY DEF JoinMyself
<1>3. c \notin channels BY <1>2, IInvIs DEF RightFor
<1>4. PInv' BY <1>2 DEF IInv, PInv, ListsAgree, Freed
<1>5. /\ members'[c] = others \cup {myNick}
      /\ operators'[c] \subseteq members'[c]
      /\ \A d \in Channels \ {c} :
           members'[d] = members[d] /\ operators'[d] = operators[d]
  BY <1>1 DEF IInv, TypeOK
<1>6. ServerIsSane'
  BY <1>1, <1>2, <1>5 DEF IInv, ServerIsSane
<1>7. RightFor(c)'
  <2>1. Names(c)' = {} /\ Ops(c)' = {} BY <1>2, <1>3, EmptyChannel, SameNames
  <2>2. roster'[c] = {} BY <1>2, <1>3, IInvIs DEF RightFor
  <2>3. Told(c)' = {} BY <1>1 DEF Told
  <2> QED BY <1>2, <1>5, <2>1, <2>2, <2>3 DEF RightFor
<1>8. ASSUME NEW d \in Channels \ {c} PROVE RightFor(d)'
  <2>1. Names(d)' = Names(d) /\ Ops(d)' = Ops(d) BY <1>2, SameNames
  <2>2. Told(d)' = members[d] BY <1>1, <1>5 DEF Told
  <2>3. Told(d) = members[d] BY <1>2 DEF Quiet, NoListing, Told
  <2>4. window'[d] = window[d] BY <1>2 DEF IInv, TypeOK
  <2>5. RightFor(d) BY IInvIs
  <2> QED BY <1>2, <1>5, <2>1, <2>2, <2>3, <2>4, <2>5, Unchanged
<1> QED BY <1>4, <1>6, <1>7, <1>8, IInvNext

LEMMA AskNamesStep ==
  ASSUME IInv, TypeOK', NEW c \in Channels, AskNames(c) PROVE IInv'
<1> USE NobodyIsNoChannel
<1>1. /\ listing' = [chan |-> c, rest |-> members[c]]
      /\ UNCHANGED <<members, operators, channels, onchan, people, nick, chans,
                     opped, window, roster, myNick>>
      /\ Quiet
  BY DEF AskNames, lists, windows
<1>2. PInv' BY <1>1 DEF IInv, PInv, ListsAgree, Freed
<1>3. ServerIsSane' BY <1>1 DEF IInv, ServerIsSane
<1>4. ASSUME NEW d \in Channels PROVE RightFor(d)'
  <2>1. Names(d)' = Names(d) /\ Ops(d)' = Ops(d) BY <1>1, SameNames
  <2>2. Told(d) = members[d] BY <1>1 DEF Quiet, NoListing, Told
  <2>3. Told(d)' \subseteq Told(d) BY <1>1, <2>2 DEF Told
  <2>4. RightFor(d) BY IInvIs
  <2> QED BY <1>1, <2>1, <2>3, <2>4, Unchanged
<1> QED BY <1>2, <1>3, <1>4, IInvNext

LEMMA KillWindowStep ==
  ASSUME IInv, TypeOK', NEW c \in Channels, KillWindow(c) PROVE IInv'
<1>1. /\ window' = [window EXCEPT ![c] = "none"]
      /\ roster' = [roster EXCEPT ![c] = {}]
      /\ UNCHANGED <<members, operators, listing, channels, onchan, people,
                     nick, chans, opped, myNick>>
  BY DEF KillWindow, server, lists
<1>2. PInv' BY <1>1 DEF IInv, PInv, ListsAgree, Freed
<1>3. ServerIsSane' BY <1>1 DEF IInv, ServerIsSane
<1>4. ASSUME NEW d \in Channels PROVE RightFor(d)'
  <2>1. Names(d)' = Names(d) /\ Ops(d)' = Ops(d) BY <1>1, SameNames
  <2>2. Told(d)' = Told(d) BY <1>1 DEF Told
  <2>3. RightFor(d) BY IInvIs
  <2>4. CASE d = c
    <3>1. roster'[c] = {} /\ window'[c] = "none" BY <1>1 DEF IInv, TypeOK
    <3> QED BY <1>1, <2>1, <2>2, <2>3, <2>4, <3>1 DEF RightFor
  <2>5. CASE d # c
    <3>1. roster'[d] = roster[d] /\ window'[d] = window[d]
      BY <1>1, <2>5 DEF IInv, TypeOK
    <3> QED BY <1>1, <2>1, <2>2, <2>3, <3>1 DEF RightFor
  <2> QED BY <2>4, <2>5
<1> QED BY <1>2, <1>3, <1>4, IInvNext

LEMMA OpenWindowStep ==
  ASSUME IInv, TypeOK', NEW c \in Channels, OpenWindow(c) PROVE IInv'
<1>1. /\ window' = [window EXCEPT ![c] = "other"]
      /\ UNCHANGED <<members, operators, listing, channels, onchan, people,
                     nick, chans, opped, roster, myNick>>
  BY DEF OpenWindow, server, lists
<1>2. PInv' BY <1>1 DEF IInv, PInv, ListsAgree, Freed
<1>3. ServerIsSane' BY <1>1 DEF IInv, ServerIsSane
<1>4. ASSUME NEW d \in Channels PROVE RightFor(d)'
  <2>1. Names(d)' = Names(d) /\ Ops(d)' = Ops(d) BY <1>1, SameNames
  <2>2. Told(d)' = Told(d) BY <1>1 DEF Told
  <2>3. RightFor(d) BY IInvIs
  <2>4. window'[d] = "own" => window[d] = "own" BY <1>1 DEF IInv, TypeOK
  <2> QED BY <1>1, <2>1, <2>2, <2>3, <2>4 DEF RightFor
<1> QED BY <1>2, <1>3, <1>4, IInvNext

(***************************************************************************)
(* A line that names somebody on a channel: JOIN, or a name of a 353.      *)
(***************************************************************************)
LEMMA NamesLineStep ==
  ASSUME IInv, TypeOK', NEW n \in Nicks, NamesLine(n) PROVE IInv'
<1> USE NobodyIsNoChannel
<1>0. /\ n \in listing.rest
      /\ listing' = IF listing.rest = {n} THEN NoListing
                    ELSE [listing EXCEPT !.rest = @ \ {n}]
      /\ Listed(n, listing.chan, n \in operators[listing.chan])
      /\ UNCHANGED <<members, operators, channels, window, myNick>>
  BY DEF NamesLine
<1>a. listing.chan \in Channels
  <2>1. listing.chan \in Channels \cup {Nobody} BY DEF IInv, TypeOK
  <2> QED BY <1>0, <2>1 DEF IInv, ServerIsSane
<1>b. PICK c \in Channels : c = listing.chan BY <1>a
<1>1. /\ n \in listing.rest
      /\ listing' = IF listing.rest = {n} THEN NoListing
                    ELSE [listing EXCEPT !.rest = @ \ {n}]
      /\ Listed(n, c, n \in operators[c])
      /\ UNCHANGED <<members, operators, channels, window, myNick>>
  BY <1>0, <1>b
<1>2. n \in members[c] BY <1>1, <1>b DEF IInv, ServerIsSane
<1>3. c \in channels BY <1>2, IInvIs DEF RightFor, ServerIsSane
<1>4. AddPerson(n, c, n \in operators[c]) BY <1>1, <1>3 DEF Listed
<1>6. /\ PInv'
      /\ Names(c)' = Names(c) \cup {n}
      /\ Ops(c)' = Ops(c) \cup (IF n \in operators[c] /\ n \notin Names(c)
                                THEN {n} ELSE {})
      /\ \A d \in Channels \ {c} : Names(d)' = Names(d) /\ Ops(d)' = Ops(d)
      /\ roster' = [roster EXCEPT ![c] = IF Open(c) THEN @ \cup {n} ELSE @]
  <2>1. TypeOK /\ PInv /\ channels' = channels BY <1>1 DEF IInv
  <2> QED BY <1>3, <1>4, <2>1, AddKeeps
<1>7. /\ listing'.chan \in Channels => listing'.chan = c
      /\ listing'.rest = listing.rest \ {n}
      /\ listing'.chan = c \/ listing'.rest = {}
      /\ listing'.chan = Nobody => listing'.rest = {}
  <2>1. CASE listing.rest = {n} BY <1>1, <2>1 DEF NoListing
  <2>2. CASE listing.rest # {n}
    <3>1. listing' = [listing EXCEPT !.rest = listing.rest \ {n}]
      BY <1>1, <2>2
    <3>2. listing \in [chan : Channels \cup {Nobody}, rest : SUBSET Nicks]
      BY DEF IInv, TypeOK
    <3>3. listing'.chan = c /\ listing'.rest = listing.rest \ {n}
      BY <3>1, <3>2, <1>b
    <3> QED BY <1>b, <3>3
  <2> QED BY <2>1, <2>2
<1>8. ServerIsSane'
  BY <1>1, <1>7, <1>b DEF IInv, ServerIsSane
<1>9. RightFor(c)'
  <2>1. RightFor(c) BY <1>2, IInvIs
  <2>2. Told(c) = members[c] \ listing.rest BY <1>b DEF Told
  <2>3. Told(c)' \subseteq Told(c) \cup {n} BY <1>1, <1>7, <2>2 DEF Told
  <2>4. Ops(c)' = operators'[c] \cap Names(c)'
    BY <1>1, <1>6, <2>1 DEF RightFor
  <2>5. roster'[c] = IF Open(c) THEN roster[c] \cup {n} ELSE roster[c]
    BY <1>2, <1>6 DEF IInv, TypeOK
  <2>6. window[c] = "own" => Open(c) BY DEF Open
  <2> QED
    BY <1>1, <1>2, <1>3, <1>6, <2>1, <2>3, <2>4, <2>5, <2>6 DEF RightFor
<1>10. ASSUME NEW d \in Channels \ {c} PROVE RightFor(d)'
  <2>1. RightFor(d) BY IInvIs
  <2>2. Told(d)' = Told(d) BY <1>1, <1>7, <1>b DEF Told
  <2>3. roster'[d] = roster[d] BY <1>2, <1>6 DEF IInv, TypeOK
  <2> QED BY <1>1, <1>6, <2>1, <2>2, <2>3, Unchanged
<1> QED BY <1>6, <1>8, <1>9, <1>10, IInvNext

LEMMA JoinStep ==
  ASSUME IInv, TypeOK', NEW n \in Nicks, NEW c \in Channels, Join(n, c)
  PROVE  IInv'
<1>1. /\ Quiet /\ myNick \in members[c] /\ n \notin members[c]
      /\ members' = [members EXCEPT ![c] = @ \cup {n}]
      /\ Listed(n, c, FALSE)
      /\ UNCHANGED <<operators, listing, channels, window, myNick>>
  BY DEF Join
<1>2. c \in channels BY <1>1, IInvIs DEF RightFor
<1>3. AddPerson(n, c, n \in {}) BY <1>1, <1>2 DEF Listed, AddPerson
<1>4. /\ PInv'
      /\ Names(c)' = Names(c) \cup {n}
      /\ Ops(c)' = Ops(c)
      /\ \A d \in Channels \ {c} : Names(d)' = Names(d) /\ Ops(d)' = Ops(d)
      /\ roster' = [roster EXCEPT ![c] = IF Open(c) THEN @ \cup {n} ELSE @]
  <2>1. TypeOK /\ PInv /\ channels' = channels BY <1>1 DEF IInv
  <2>2. /\ PInv'
        /\ Names(c)' = Names(c) \cup {n}
        /\ Ops(c)' = Ops(c) \cup (IF n \in {} /\ n \notin Names(c)
                                  THEN {n} ELSE {})
        /\ \A d \in Channels \ {c} : Names(d)' = Names(d) /\ Ops(d)' = Ops(d)
        /\ roster' = [roster EXCEPT ![c] = IF Open(c) THEN @ \cup {n} ELSE @]
    BY <1>2, <1>3, <2>1, AddKeeps
  <2> QED BY <2>2
<1>5. /\ members'[c] = members[c] \cup {n}
      /\ \A d \in Channels \ {c} : members'[d] = members[d]
  BY <1>1 DEF IInv, TypeOK
<1>6. ServerIsSane'
  BY <1>1, <1>5, NobodyIsNoChannel DEF IInv, ServerIsSane, Quiet, NoListing
<1>7. RightFor(c)'
  <2>1. Names(c) = members[c] /\ Ops(c) = operators[c] BY <1>1, QuietNames
  <2>2. Told(c)' = members'[c] BY <1>1, QuietTold
  <2>3. operators[c] \subseteq members[c] BY DEF IInv, ServerIsSane
  <2>4. roster'[c] = IF Open(c) THEN roster[c] \cup {n} ELSE roster[c]
    BY <1>4 DEF IInv, TypeOK
  <2>5. window[c] = "own" => Open(c) BY DEF Open
  <2>6. RightFor(c) BY IInvIs
  <2> QED
    BY <1>1, <1>2, <1>4, <1>5, <2>1, <2>2, <2>3, <2>4, <2>5, <2>6 DEF RightFor
<1>8. ASSUME NEW d \in Channels \ {c} PROVE RightFor(d)'
  <2>1. RightFor(d) BY IInvIs
  <2>2. Told(d) = members[d] /\ Told(d)' = members'[d] BY <1>1, QuietTold
  <2>3. roster'[d] = roster[d] BY <1>4 DEF IInv, TypeOK
  <2> QED BY <1>1, <1>4, <1>5, <2>1, <2>2, <2>3, Unchanged
<1> QED BY <1>4, <1>6, <1>7, <1>8, IInvNext

-----------------------------------------------------------------------------
(***************************************************************************)
(* We leave: the channel goes, with all who are on it.                     *)
(***************************************************************************)
LEMMA LeaveMyself ==
  ASSUME IInv, TypeOK', NEW c \in Channels, Leave(myNick, c)
  PROVE  IInv'
<1>1. /\ Quiet /\ myNick \in members[c]
      /\ members' = [members EXCEPT ![c] = @ \ members[c]]
      /\ operators' = [operators EXCEPT ![c] = @ \ members[c]]
      /\ DelChannel(c)
      /\ UNCHANGED <<listing, myNick>>
  BY DEF Leave
<1>2. c \in channels BY <1>1, IInvIs DEF RightFor
<1>3. /\ Remove(onchan[c], {c})
      /\ channels' = channels \ {c}
      /\ nick' = nick
      /\ \A d \in Channels \ {c} : window'[d] = window[d]
  BY <1>1, <1>2 DEF DelChannel, IInv, TypeOK
<1>4. /\ PInv'
      /\ \A d \in Channels \ {c} : Names(d)' = Names(d) /\ Ops(d)' = Ops(d)
      /\ Names(c)' = Names(c) \ Names(c)
      /\ Ops(c)' = Ops(c) \ Names(c)
      /\ \A d \in Channels :
           roster'[d] = IF d = c THEN roster[d] \ Names(c) ELSE roster[d]
  <2>1. TypeOK /\ PInv /\ onchan[c] \in SUBSET people
    BY DEF IInv, PInv, ListsAgree
  <2>2. /\ \A d \in channels \ channels' : d \in {c} /\ onchan[d] \subseteq onchan[c]
        /\ {c} \in SUBSET Channels /\ channels' \subseteq channels
    BY <1>3
  <2>3. /\ PInv'
        /\ \A d \in Channels \ {c} : Names(d)' = Names(d) /\ Ops(d)' = Ops(d)
        /\ \A d \in {c} :
             /\ Names(d)' = Names(d) \ {nick[p] : p \in onchan[c]}
             /\ Ops(d)' = Ops(d) \ {nick[p] : p \in onchan[c]}
        /\ \A d \in Channels :
             roster'[d] = IF d \in {c} THEN roster[d] \ {nick[p] : p \in onchan[c]}
                          ELSE roster[d]
    BY <1>3, <2>1, <2>2, RemoveKeeps
  <2> QED BY <2>3 DEF Names
<1>5. /\ members'[c] = {} /\ operators'[c] = {}
      /\ \A d \in Channels \ {c} :
           members'[d] = members[d] /\ operators'[d] = operators[d]
  BY <1>1 DEF IInv, TypeOK, ServerIsSane
<1>6. ServerIsSane'
  BY <1>1, <1>5, NobodyIsNoChannel DEF IInv, ServerIsSane, Quiet, NoListing
<1>7. RightFor(c)'
  <2>1. RightFor(c) BY IInvIs
  <2>2. Told(c)' = {} BY <1>1, <1>5, QuietTold
  <2>3. roster'[c] = {} BY <1>2, <1>4, <2>1 DEF RightFor
  <2>4. Ops(c)' = {} BY <1>4, <2>1 DEF RightFor
  <2> QED BY <1>1, <1>3, <1>4, <1>5, <2>2, <2>3, <2>4 DEF RightFor
<1>8. ASSUME NEW d \in Channels \ {c} PROVE RightFor(d)'
  <2>1. RightFor(d) BY IInvIs
  <2>2. Told(d) = members[d] /\ Told(d)' = members'[d] BY <1>1, QuietTold
  <2>3. d \in channels' <=> d \in channels BY <1>3
  <2>4. roster'[d] = roster[d] /\ Names(d)' = Names(d) /\ Ops(d)' = Ops(d)
    BY <1>4
  <2> QED BY <1>1, <1>3, <1>5, <2>1, <2>2, <2>3, <2>4, Unchanged
<1> QED BY <1>4, <1>6, <1>7, <1>8, IInvNext

\* Somebody else leaves one channel.
LEMMA LeaveOther ==
  ASSUME IInv, TypeOK', NEW n \in Nicks, NEW c \in Channels, Leave(n, c),
         n # myNick
  PROVE  IInv'
<1>1. /\ Quiet /\ n \in members[c]
      /\ members' = [members EXCEPT ![c] = @ \ {n}]
      /\ operators' = [operators EXCEPT ![c] = @ \ {n}]
      /\ DelPersonChannel(n, c)
      /\ UNCHANGED <<channels, nick, window, listing, myNick>>
  BY DEF Leave
<1>2. c \in channels BY <1>1, IInvIs DEF RightFor, ServerIsSane
<1>3. PICK p \in people : Find(n) = {p} /\ nick[p] = n /\ c \in chans[p]
  <2>1. n \in Names(c) BY <1>1, QuietNames
  <2> QED BY <2>1, WhoItIs DEF IInv
<1>4. Remove({p}, {c}) BY <1>1, <1>2, <1>3 DEF DelPersonChannel
<1>5. /\ PInv'
      /\ \A d \in Channels \ {c} : Names(d)' = Names(d) /\ Ops(d)' = Ops(d)
      /\ Names(c)' = Names(c) \ {n} /\ Ops(c)' = Ops(c) \ {n}
      /\ \A d \in Channels :
           roster'[d] = IF d = c THEN roster[d] \ {n} ELSE roster[d]
  <2>1. TypeOK /\ PInv /\ {p} \in SUBSET people BY DEF IInv
  <2>a. {c} \in SUBSET Channels /\ channels' \subseteq channels
        /\ \A d \in channels \ channels' : d \in {c} /\ onchan[d] \subseteq {p}
    BY <1>1
  <2>2. {nick[q] : q \in {p}} = {n} BY <1>3
  <2>3. /\ PInv'
        /\ \A d \in Channels \ {c} : Names(d)' = Names(d) /\ Ops(d)' = Ops(d)
        /\ \A d \in {c} : /\ Names(d)' = Names(d) \ {nick[q] : q \in {p}}
                          /\ Ops(d)' = Ops(d) \ {nick[q] : q \in {p}}
        /\ \A d \in Channels :
             roster'[d] = IF d \in {c} THEN roster[d] \ {nick[q] : q \in {p}}
                          ELSE roster[d]
    BY <1>1, <1>4, <2>1, <2>a, RemoveKeeps
  <2> QED BY <2>2, <2>3
<1>6. /\ members'[c] = members[c] \ {n} /\ operators'[c] = operators[c] \ {n}
      /\ \A d \in Channels \ {c} :
           members'[d] = members[d] /\ operators'[d] = operators[d]
  BY <1>1 DEF IInv, TypeOK
<1>7. ServerIsSane'
  BY <1>1, <1>6, NobodyIsNoChannel DEF IInv, ServerIsSane, Quiet, NoListing
<1>8. RightFor(c)'
  <2>1. RightFor(c) BY IInvIs
  <2>2. Told(c) = members[c] /\ Told(c)' = members'[c] BY <1>1, QuietTold
  <2>3. Names(c)' = Names(c) \ {n} /\ Ops(c)' = Ops(c) \ {n} BY <1>5
  <2>4. roster'[c] = roster[c] \ {n} BY <1>5
  <2>5. Ops(c)' = operators'[c] \cap Names(c)' BY <1>6, <2>1, <2>3 DEF RightFor
  <2>6. myNick' \in members'[c] BY <1>1, <1>2, <1>6, <2>1 DEF RightFor
  <2> QED BY <1>1, <1>2, <1>6, <2>1, <2>2, <2>3, <2>4, <2>5, <2>6 DEF RightFor
<1>9. ASSUME NEW d \in Channels \ {c} PROVE RightFor(d)'
  <2>1. RightFor(d) BY IInvIs
  <2>2. Told(d) = members[d] /\ Told(d)' = members'[d] BY <1>1, QuietTold
  <2> QED BY <1>1, <1>5, <1>6, <2>1, <2>2, Unchanged
<1> QED BY <1>5, <1>7, <1>8, <1>9, IInvNext

\* Somebody leaves the server, and all channels.
LEMMA QuitStep ==
  ASSUME IInv, TypeOK', NEW n \in Nicks, Quit(n) PROVE IInv'
<1>1. /\ Quiet /\ n \in Seen /\ n # myNick
      /\ members' = [c \in Channels |-> members[c] \ {n}]
      /\ operators' = [c \in Channels |-> operators[c] \ {n}]
      /\ DelPerson(n)
      /\ UNCHANGED <<listing, channels, nick, window, myNick>>
  BY DEF Quit
<1>2. PICK b \in Channels : n \in members[b] BY <1>1 DEF Seen
<1>3. PICK p \in people : Find(n) = {p} /\ nick[p] = n
  <2>1. n \in Names(b) BY <1>1, <1>2, QuietNames
  <2> QED BY <2>1, WhoItIs DEF IInv
<1>4. PICK cs \in SUBSET Channels : cs = chans[p]
  BY <1>3 DEF IInv, TypeOK
<1>5. Remove({p}, cs)
  <2>1. PICK q \in Find(n) : Remove({q}, chans[q])
    BY <1>1, <1>3 DEF DelPerson
  <2> QED BY <1>3, <1>4, <2>1
<1>6. \A c \in Channels \ cs : n \notin Names(c) /\ n \notin Ops(c)
  <2>1. \A c \in Channels : Ops(c) \subseteq Names(c) BY DEF Ops, Names
  <2>2. ASSUME NEW c \in Channels \ cs, n \in Names(c) PROVE FALSE
    <3>1. PICK q \in people : Find(n) = {q} /\ c \in chans[q]
      BY <2>2, WhoItIs DEF IInv
    <3> QED BY <1>3, <1>4, <3>1
  <2> QED BY <2>1, <2>2
<1>7. /\ PInv'
      /\ \A c \in Channels : /\ Names(c)' = Names(c) \ {n}
                             /\ Ops(c)' = Ops(c) \ {n}
      /\ \A c \in Channels :
           roster'[c] = IF c \in cs THEN roster[c] \ {n} ELSE roster[c]
  <2>1. TypeOK /\ PInv /\ {p} \in SUBSET people BY DEF IInv
  <2>a. channels' \subseteq channels
        /\ \A d \in channels \ channels' : d \in cs /\ onchan[d] \subseteq {p}
    BY <1>1
  <2>2. {nick[q] : q \in {p}} = {n} BY <1>3
  <2>3. /\ PInv'
        /\ \A c \in Channels \ cs : Names(c)' = Names(c) /\ Ops(c)' = Ops(c)
        /\ \A c \in cs : /\ Names(c)' = Names(c) \ {nick[q] : q \in {p}}
                               /\ Ops(c)' = Ops(c) \ {nick[q] : q \in {p}}
        /\ \A c \in Channels :
             roster'[c] = IF c \in cs THEN roster[c] \ {nick[q] : q \in {p}}
                          ELSE roster[c]
    BY <1>1, <1>5, <2>1, <2>a, RemoveKeeps
  <2> QED BY <1>6, <2>2, <2>3
<1>8. \A c \in Channels : /\ members'[c] = members[c] \ {n}
                          /\ operators'[c] = operators[c] \ {n}
  BY <1>1
<1>9. ServerIsSane'
  BY <1>1, <1>8, NobodyIsNoChannel DEF IInv, ServerIsSane, Quiet, NoListing
<1>10. ASSUME NEW c \in Channels PROVE RightFor(c)'
  <2>1. RightFor(c) BY IInvIs
  <2>2. Told(c) = members[c] /\ Told(c)' = members'[c] BY <1>1, QuietTold
  <2>3. roster'[c] = roster[c] \ {n}
    BY <1>6, <1>7, <2>1 DEF RightFor
  <2> QED BY <1>1, <1>7, <1>8, <2>1, <2>2, <2>3 DEF RightFor
<1> QED BY <1>7, <1>9, <1>10, IInvNext

-----------------------------------------------------------------------------
\* A nick changes: the new one is nobody's, so people keep apart.
LEMMA NickStep ==
  ASSUME IInv, TypeOK', NEW n \in Nicks, NEW m \in Nicks, Nick(n, m)
  PROVE  IInv'
<1>1. /\ Quiet /\ n \in Seen /\ m \notin Seen \cup {myNick}
      /\ members' = [c \in Channels |-> Renamed(n, m, members[c])]
      /\ operators' = [c \in Channels |-> Renamed(n, m, operators[c])]
      /\ NickChange(n, m)
      /\ myNick' = IF n = myNick THEN m ELSE myNick
      /\ UNCHANGED <<listing, channels, onchan, people, chans, opped, window>>
  BY DEF Nick
<1>2. PICK b \in Channels : n \in members[b] BY <1>1 DEF Seen
<1>3. PICK p \in people : Find(n) = {p} /\ nick[p] = n
  <2>1. n \in Names(b) BY <1>1, <1>2, QuietNames
  <2> QED BY <2>1, WhoItIs DEF IInv
<1>4. /\ nick' = [nick EXCEPT ![p] = m]
      /\ roster' = [c \in Channels |-> IF c \in chans[p]
                                       THEN Renamed(n, m, roster[c])
                                       ELSE roster[c]]
  <2>1. nick' = [q \in People |-> IF q = p THEN m ELSE nick[q]]
    BY <1>1, <1>3 DEF NickChange
  <2>2. roster' = [c \in Channels |-> IF c \in chans[p]
                                      THEN Renamed(n, m, roster[c])
                                      ELSE roster[c]]
    BY <1>1, <1>3 DEF NickChange
  <2> QED BY <2>1, <2>2 DEF IInv, TypeOK
<1>5. \A c \in Channels : /\ Names(c) = members[c] /\ Ops(c) = operators[c]
                          /\ m \notin members[c]
  <2>1. \A c \in Channels : Names(c) = members[c] /\ Ops(c) = operators[c]
    BY <1>1, QuietNames
  <2> QED BY <1>1, <2>1 DEF Seen
<1>6. p \in People /\ people \subseteq People BY DEF IInv, TypeOK
<1>7. \A q \in people : nick[q] # m
  <2> SUFFICES ASSUME NEW q \in people, nick[q] = m PROVE FALSE OBVIOUS
  <2>1. PICK c \in chans[q] : TRUE BY DEF IInv, PInv, ListsAgree
  <2>2. c \in Channels BY <1>6, <2>1 DEF IInv, TypeOK
  <2>3. m \in Names(c) BY <2>1, <2>2 DEF Names, IInv, PInv, ListsAgree
  <2> QED BY <1>5, <2>2, <2>3
<1>8. \A q \in people : nick'[q] = IF q = p THEN m ELSE nick[q]
  BY <1>4, <1>6 DEF IInv, TypeOK
<1>9. PInv'
  <2>1. \A q, r \in people' : nick'[q] = nick'[r] => q = r
    BY <1>1, <1>7, <1>8 DEF IInv, PInv, ListsAgree
  <2> QED BY <1>1, <2>1 DEF IInv, PInv, ListsAgree, Freed
<1>10. \A c \in Channels : /\ onchan[c] \subseteq people
                           /\ p \in onchan[c] <=> n \in Names(c)
  <2>1. \A c \in Channels : onchan[c] \subseteq people
    BY DEF IInv, PInv, ListsAgree
  <2>2. ASSUME NEW c \in Channels, n \in Names(c) PROVE p \in onchan[c]
    <3>1. PICK q \in onchan[c] : nick[q] = n BY <2>2 DEF Names
    <3>2. q \in people BY <2>1
    <3> QED BY <1>3, <3>1, <3>2 DEF Find
  <2>3. ASSUME NEW c \in Channels, p \in onchan[c] PROVE n \in Names(c)
    BY <1>3, <2>3 DEF Names
  <2> QED BY <2>1, <2>2, <2>3
<1>11. ASSUME NEW c \in Channels, NEW S \in SUBSET onchan[c]
       PROVE  {nick'[q] : q \in S}
                = IF p \in S THEN ({nick[q] : q \in S} \ {n}) \cup {m}
                  ELSE {nick[q] : q \in S}
  <2>1. S \subseteq people BY <1>10
  <2>2. \A q \in S : nick[q] = n => q = p BY <1>3, <2>1 DEF Find
  <2> QED BY <1>3, <1>8, <2>1, <2>2
<1>12. \A c \in Channels :
         /\ Names(c)' = Renamed(n, m, Names(c))
         /\ Ops(c)' = Renamed(n, m, Ops(c))
  <2> SUFFICES ASSUME NEW c \in Channels
               PROVE  /\ Names(c)' = Renamed(n, m, Names(c))
                      /\ Ops(c)' = Renamed(n, m, Ops(c))
    OBVIOUS
  <2>1. Names(c)' = {nick'[q] : q \in onchan[c]} BY <1>1 DEF Names
  <2>2. Names(c)' = IF p \in onchan[c] THEN (Names(c) \ {n}) \cup {m}
                    ELSE Names(c)
    BY <1>11, <2>1 DEF Names
  <2>3. PICK S \in SUBSET onchan[c] : S = {q \in onchan[c] : c \in opped[q]}
    OBVIOUS
  <2>4. Ops(c)' = {nick'[q] : q \in S} BY <1>1, <2>3 DEF Ops
  <2>5. Ops(c) = {nick[q] : q \in S} BY <2>3 DEF Ops
  <2>6. p \in S <=> n \in Ops(c)
    <3>1. \A q \in S : nick[q] = n => q = p BY <1>3, <1>10 DEF Find
    <3> QED BY <1>3, <2>5, <3>1
  <2> QED BY <1>10, <1>11, <2>2, <2>4, <2>5, <2>6 DEF Renamed
<1>13. \A c \in Channels :
         /\ members'[c] = Renamed(n, m, members[c])
         /\ operators'[c] = Renamed(n, m, operators[c])
  BY <1>1
<1>14. \A c \in Channels : myNick' \in members'[c] <=> myNick \in members[c]
  BY <1>1, <1>5, <1>13 DEF Renamed
<1>15. ServerIsSane'
  <2>1. \A c \in Channels : operators'[c] \subseteq members'[c]
    BY <1>13 DEF IInv, ServerIsSane, Renamed
  <2>2. \A c \in Channels : members'[c] # {} => myNick' \in members'[c]
    BY <1>13, <1>14 DEF IInv, ServerIsSane, Renamed
  <2> QED
    BY <1>1, <2>1, <2>2, NobodyIsNoChannel DEF ServerIsSane, Quiet, NoListing
<1>16. ASSUME NEW c \in Channels PROVE RightFor(c)'
  <2>1. RightFor(c) BY IInvIs
  <2>2. Told(c)' = members'[c] BY <1>1, QuietTold
  <2>3. Names(c)' = members'[c] /\ Ops(c)' = operators'[c]
    BY <1>5, <1>12, <1>13
  <2>4. operators'[c] \subseteq members'[c] BY <1>15 DEF ServerIsSane
  <2>5. c \in channels' <=> myNick' \in members'[c]
    BY <1>1, <1>14, <2>1 DEF RightFor
  <2>6. c \in chans[p] <=> n \in Names(c)
    BY <1>3, <1>10 DEF IInv, PInv, ListsAgree
  <2>7. IF c \in channels
        THEN /\ roster'[c] \subseteq Names(c)'
             /\ window[c] = "own" => roster'[c] = Names(c)'
        ELSE roster'[c] = {}
    <3>1. CASE c \in channels
      <4>1. CASE n \in Names(c)
        <5>1. roster'[c] = Renamed(n, m, roster[c]) BY <1>4, <2>6, <4>1
        <5>2. Names(c)' = (Names(c) \ {n}) \cup {m}
          BY <1>12, <4>1 DEF Renamed
        <5> QED BY <2>1, <3>1, <4>1, <5>1, <5>2 DEF RightFor, Renamed
      <4>2. CASE n \notin Names(c)
        <5>1. roster'[c] = roster[c] BY <1>4, <2>6, <4>2
        <5>2. Names(c)' = Names(c) BY <1>12, <4>2 DEF Renamed
        <5> QED BY <2>1, <3>1, <5>1, <5>2 DEF RightFor
      <4> QED BY <4>1, <4>2
    <3>2. CASE c \notin channels
      <4>1. n \notin Names(c) BY <3>2, EmptyChannel
      <4> QED BY <1>4, <2>1, <2>6, <3>2, <4>1 DEF RightFor
    <3> QED BY <3>1, <3>2
  <2> QED BY <1>1, <2>2, <2>3, <2>4, <2>5, <2>7 DEF RightFor
<1> QED BY <1>9, <1>15, <1>16, IInvNext

\* +o and -o of one person on one channel.
LEMMA ModeStep ==
  ASSUME IInv, TypeOK', NEW n \in Nicks, NEW c \in Channels,
         NEW on \in BOOLEAN, Mode(n, c, on)
  PROVE  IInv'
<1>1. /\ Quiet /\ myNick \in members[c] /\ n \in members[c]
      /\ operators' = [operators EXCEPT ![c] = IF on THEN @ \cup {n}
                                               ELSE @ \ {n}]
      /\ opped' = [q \in People |->
                     IF q \in Find(n) /\ c \in chans[q]
                     THEN IF on THEN opped[q] \cup {c} ELSE opped[q] \ {c}
                     ELSE opped[q]]
      /\ UNCHANGED <<members, listing, channels, onchan, people, nick, chans,
                     window, roster, myNick>>
  BY DEF Mode, windows
<1>2. PICK p \in people : Find(n) = {p} /\ nick[p] = n /\ c \in chans[p]
  <2>1. n \in Names(c) BY <1>1, QuietNames
  <2> QED BY <2>1, WhoItIs DEF IInv
<1>3. p \in People /\ people \subseteq People BY DEF IInv, TypeOK
<1>4. \A q \in People : opped'[q] = IF q = p
                                    THEN IF on THEN opped[p] \cup {c}
                                         ELSE opped[p] \ {c}
                                    ELSE opped[q]
  BY <1>1, <1>2
<1>5. PInv'
  <2>1. \A q \in People : opped'[q] \subseteq chans[q]
    BY <1>2, <1>4 DEF IInv, PInv, Freed
  <2> QED BY <1>1, <2>1 DEF IInv, PInv, ListsAgree, Freed
<1>6. \A d \in Channels : Names(d)' = Names(d) BY <1>1 DEF Names
<1>7. \A d \in Channels : onchan[d] \subseteq people /\ onchan[d] \subseteq People
  BY <1>3 DEF IInv, PInv, ListsAgree
<1>8. \A d \in Channels \ {c} : Ops(d)' = Ops(d)
  <2> SUFFICES ASSUME NEW d \in Channels \ {c} PROVE Ops(d)' = Ops(d) OBVIOUS
  <2>1. \A q \in onchan[d] : d \in opped'[q] <=> d \in opped[q] BY <1>4, <1>7
  <2>2. {q \in onchan[d] : d \in opped'[q]} = {q \in onchan[d] : d \in opped[q]}
    BY <2>1
  <2> QED BY <1>1, <2>2 DEF Ops
<1>9. Ops(c)' = IF on THEN Ops(c) \cup {n} ELSE Ops(c) \ {n}
  <2>1. p \in onchan[c] BY <1>2 DEF IInv, PInv, ListsAgree
  <2>2. \A q \in onchan[c] : nick[q] = n => q = p BY <1>2, <1>7 DEF Find
  <2>3. {q \in onchan[c] : c \in opped'[q]}
          = IF on THEN {q \in onchan[c] : c \in opped[q]} \cup {p}
            ELSE {q \in onchan[c] : c \in opped[q]} \ {p}
    BY <1>4, <1>7, <2>1
  <2>4. PICK S : S = {q \in onchan[c] : c \in opped[q]} OBVIOUS
  <2>5. Ops(c) = {nick[q] : q \in S} BY <2>4 DEF Ops
  <2>6. Ops(c)' = {nick[q] : q \in {r \in onchan[c] : c \in opped'[r]}}
    BY <1>1 DEF Ops
  <2>7. Ops(c)' = {nick[q] : q \in IF on THEN S \cup {p} ELSE S \ {p}}
    BY <2>3, <2>4, <2>6
  <2>8. \A q \in S : nick[q] = n => q = p BY <2>2, <2>4
  <2>9. CASE on BY <1>2, <2>5, <2>7, <2>9
  <2>10. CASE ~on BY <1>2, <2>5, <2>7, <2>8, <2>10
  <2> QED BY <2>9, <2>10
<1>10. /\ operators'[c] = IF on THEN operators[c] \cup {n} ELSE operators[c] \ {n}
       /\ \A d \in Channels \ {c} : operators'[d] = operators[d]
  BY <1>1 DEF IInv, TypeOK
<1>11. ServerIsSane'
  BY <1>1, <1>10 DEF IInv, ServerIsSane
<1>12. RightFor(c)'
  <2>1. RightFor(c) BY IInvIs
  <2>2. Told(c)' = Told(c) BY <1>1 DEF Told
  <2>3. n \in Names(c) BY <1>1, QuietNames
  <2>4. Ops(c)' = operators'[c] \cap Names(c)'
    BY <1>6, <1>9, <1>10, <2>1, <2>3 DEF RightFor
  <2> QED BY <1>1, <1>6, <2>1, <2>2, <2>4 DEF RightFor
<1>13. ASSUME NEW d \in Channels \ {c} PROVE RightFor(d)'
  <2>1. RightFor(d) BY IInvIs
  <2>2. Told(d)' = Told(d) BY <1>1 DEF Told
  <2> QED BY <1>1, <1>6, <1>8, <1>10, <2>1, <2>2, Unchanged
<1> QED BY <1>5, <1>11, <1>12, <1>13, IInvNext

\* The connection ends: nobody is left, and the windows are empty.
LEMMA DisconnectStep ==
  ASSUME IInv, TypeOK', Disconnect PROVE IInv'
<1>1. /\ members' = [c \in Channels |-> {}]
      /\ operators' = [c \in Channels |-> {}]
      /\ listing' = NoListing
      /\ channels' = {} /\ people' = {}
      /\ onchan' = [c \in Channels |-> {}]
      /\ chans' = [p \in People |-> {}]
      /\ opped' = [p \in People |-> {}]
      /\ roster' = [c \in Channels |-> IF c \in channels THEN {} ELSE roster[c]]
  BY DEF Disconnect, FreePeople
<1>2. PInv' BY <1>1 DEF PInv, ListsAgree, Freed
<1>3. ServerIsSane' BY <1>1, NobodyIsNoChannel DEF ServerIsSane, NoListing
<1>4. ASSUME NEW c \in Channels PROVE RightFor(c)'
  <2>1. roster'[c] = {} BY <1>1, IInvIs DEF RightFor
  <2>2. Names(c)' = {} /\ Ops(c)' = {} BY <1>1 DEF Names, Ops
  <2>3. Told(c)' = {} BY <1>1 DEF Told
  <2> QED BY <1>1, <2>1, <2>2, <2>3 DEF RightFor
<1> QED BY <1>2, <1>3, <1>4, IInvNext

LEMMA StutterStep ==
  ASSUME IInv, UNCHANGED vars PROVE IInv'
BY DEF IInv, TypeOK, PInv, ListsAgree, Freed, ViewIsTruth, RostersAreRight,
       ServerIsSane, Names, vars, server, lists, windows

-----------------------------------------------------------------------------
LEMMA InvStep == IInv /\ [Next]_vars => IInv'
<1> SUFFICES ASSUME IInv, [Next]_vars PROVE IInv' OBVIOUS
<1>1. TypeOK' BY TypeStep DEF IInv
<1>2. ASSUME NEW n \in Nicks, NEW c \in Channels, Leave(n, c) PROVE IInv'
  <2>1. CASE n = myNick BY <1>1, <1>2, <2>1, LeaveMyself
  <2>2. CASE n # myNick BY <1>1, <1>2, <2>2, LeaveOther
  <2> QED BY <2>1, <2>2
<1> QED
  BY <1>1, <1>2, JoinMyselfStep, AskNamesStep, KillWindowStep, OpenWindowStep,
     NamesLineStep, JoinStep, QuitStep, NickStep, ModeStep, DisconnectStep,
     StutterStep
  DEF Next

LEMMA Invariance == Spec => []IInv
BY InitInv, InvStep, PTL DEF Spec

(***************************************************************************)
(* The plugin believes of every channel what the server told it: that it   *)
(* is on it, who else is, and who is an operator.                          *)
(***************************************************************************)
THEOREM ViewStaysTrue == Spec => []ViewIsTruth
<1>1. IInv => ViewIsTruth BY DEF IInv
<1> QED BY <1>1, Invariance, PTL

\* No list points at somebody freed, and no nick is two people.
THEOREM ListsStayTogether == Spec => []ListsAgree
<1>1. IInv => ListsAgree BY DEF IInv, PInv
<1> QED BY <1>1, Invariance, PTL

\* The windows of channels list exactly who is there, and others nobody.
THEOREM RostersStayRight == Spec => []RostersAreRight
<1>1. IInv => RostersAreRight BY DEF IInv
<1> QED BY <1>1, Invariance, PTL

=============================================================================
