--------------------------- MODULE QueryBusProofs ---------------------------
(***************************************************************************)
(* Proofs about QueryBus, for any plugins, names, priorities and depth of  *)
(* nesting: the list stays a list, in the order of the priorities from the *)
(* end of a /plugin command until something connects, holds the handlers   *)
(* of exactly the loaded plugins, and every emission calls those it should *)
(* once and in order.                                                      *)
(***************************************************************************)
EXTENDS QueryBus, FiniteSetTheorems, SequenceTheorems, WellFoundedInduction,
        TLAPS

Owners == Plugins \cup {Core}

\* bef says, of every query of the list qs, which are ahead of it
Order(qs, bef) ==
  /\ qs \subseteq Queries /\ bef \in [Queries -> SUBSET qs]
  /\ \A q \in qs : q \notin bef[q]
  /\ \A q, r \in qs : q # r => q \in bef[r] \/ r \in bef[q]
  /\ \A q, r, t \in qs : q \in bef[r] /\ r \in bef[t] => q \in bef[t]

(***************************************************************************)
(* An emission has called the queries that match up to the one it stands   *)
(* at, unless that was freed or the list was resorted.                     *)
(***************************************************************************)
Passed(bef, q, e) == q = e.at \/ q \in bef[e.at]
InStep(qs, bef, e) ==
  /\ e.at \in qs /\ Matches(e.at, e.name, e.only) /\ e.at \in e.called
  /\ ~e.again
  /\ \A q \in e.called : /\ q \in qs /\ Matches(q, e.name, e.only)
                         /\ Passed(bef, q, e)
  /\ \A q \in e.steady : /\ q \in qs /\ Matches(q, e.name, e.only)
                         /\ q \in e.called <=> Passed(bef, q, e)
Good(qs, bef, e) ==
  e \in Emissions /\ (~e.freed /\ ~e.resorted => InStep(qs, bef, e))

\* s are the emissions under way over the list
Emitting(s, qs, bef) ==
  /\ s \in Seq(Emissions) /\ Len(s) <= Limit
  /\ \A i \in 1 .. Len(s) : Good(qs, bef, s[i])

\* What is not of the list and the emissions keeps its type; none is missed.
Calm ==
  /\ loaded \subseteq Plugins /\ prio \in [Owners -> 0 .. MaxPrio]
  /\ loading \subseteq 0 .. Limit /\ sorted \in BOOLEAN /\ crashed \in BOOLEAN
  /\ missed = {}

IInv ==
  /\ Calm /\ Order(bucket, ahead) /\ Emitting(stack, bucket, ahead)
  /\ InOrder /\ ListedAreLoaded

-----------------------------------------------------------------------------
LEMMA QueriesFinite == IsFiniteSet(Queries)
<1> DEFINE P == Owners \X Names
           f == [x \in P |-> [plugin |-> x[1], name |-> x[2]]]
<1>1. IsFiniteSet(Owners)
  BY QueryBusAssumption, FS_AddElement DEF Owners
<1>2. IsFiniteSet(P) BY <1>1, QueryBusAssumption, FS_Product
<1>3. f \in Surjection(P, Queries)
  <2>1. f \in [P -> Queries] BY DEF Queries, Owners
  <2>2. ASSUME NEW q \in Queries PROVE \E x \in P : f[x] = q
    <3>1. <<q.plugin, q.name>> \in P BY DEF Queries, Owners
    <3>2. q = [plugin |-> q.plugin, name |-> q.name] BY DEF Queries
    <3> QED BY <3>1, <3>2
  <2> QED BY <2>1, <2>2 DEF Surjection
<1> QED BY <1>2, <1>3, FS_Surjection

(***************************************************************************)
(* Any queries of a list have a first: of the sets that are ahead of one,  *)
(* there is one that includes no other.                                    *)
(***************************************************************************)
LEMMA FirstOfIn ==
  ASSUME Order(bucket, ahead), NEW S \in SUBSET bucket, S # {}
  PROVE  FirstOf(S) \in S /\ \A r \in S \ {FirstOf(S)} : FirstOf(S) \in ahead[r]
<1> DEFINE U == {ahead[q] : q \in S}
<1>1. \A q \in S : q \in bucket /\ q \in Queries /\ ahead[q] \subseteq bucket
  BY DEF Order
<1>2. U \subseteq FiniteSubsetsOf(bucket) /\ U # {}
  <2>1. \A q \in S : IsFiniteSet(ahead[q])
    BY <1>1, QueriesFinite, FS_Subset DEF Order
  <2> QED BY <1>1, <2>1 DEF FiniteSubsetsOf
<1>3. PICK T \in U : \A V \in U : <<V, T>> \notin StrictSubsetOrdering(bucket)
  <2> HIDE DEF U
  <2> QED BY <1>2, FS_StrictSubsetOrderingWellFounded, WFMin
<1>4. PICK q \in S : T = ahead[q] BY <1>3
<1>5. ASSUME NEW r \in S \ {q} PROVE q \in ahead[r]
  <2> SUFFICES ASSUME r \in ahead[q] PROVE FALSE BY <1>1 DEF Order
  <2>1. ahead[r] \subseteq ahead[q] /\ r \notin ahead[r] BY <1>1 DEF Order
  <2>2. ahead[r] \in SUBSET bucket /\ ahead[q] \in SUBSET bucket BY <1>1
  <2>3. <<ahead[r], ahead[q]>> \in StrictSubsetOrdering(bucket)
    BY <2>1, <2>2 DEF StrictSubsetOrdering
  <2> QED BY <1>3, <1>4, <2>3
<1> QED BY <1>5 DEF FirstOf

\* queries_reconnect() leaves the list in the order of the priorities.
LEMMA ResortedOrder ==
  ASSUME NEW qs, NEW bef, Order(qs, bef), NEW pr \in [Owners -> 0 .. MaxPrio]
  PROVE  /\ Order(qs, Resorted(qs, bef, pr))
         /\ \A q \in qs : \A r \in Resorted(qs, bef, pr)[q] :
              pr[r.plugin] >= pr[q.plugin]
<1> DEFINE o == Resorted(qs, bef, pr)
           P(q) == pr[q.plugin]
<1>1. o = [q \in Queries |->
             IF q \notin qs THEN {}
             ELSE {r \in qs \ {q} : \/ P(r) > P(q)
                                    \/ P(r) = P(q) /\ q \in bef[r]}]
  BY DEF Resorted
<1>2. \A q \in qs : q \in Queries /\ P(q) \in Nat
  BY QueryBusAssumption DEF Order, Queries, Owners
<1>3. \A q, r \in qs : r \in o[q] <=>
        r # q /\ (P(r) > P(q) \/ (P(r) = P(q) /\ q \in bef[r]))
  BY <1>1, <1>2
<1>4. o \in [Queries -> SUBSET qs] BY <1>1
<1> HIDE DEF o, P
<1>5. \A q \in qs : q \notin o[q] BY <1>3
<1>6. \A q, r \in qs : q # r => q \in o[r] \/ r \in o[q]
  <2> SUFFICES ASSUME NEW q \in qs, NEW r \in qs, q # r
               PROVE  q \in o[r] \/ r \in o[q]
    OBVIOUS
  <2>1. P(q) \in Nat /\ P(r) \in Nat /\ (q \in bef[r] \/ r \in bef[q])
    BY <1>2 DEF Order
  <2> QED BY <1>3, <2>1
<1>7. \A q, r, t \in qs : q \in o[r] /\ r \in o[t] => q \in o[t]
  <2> SUFFICES ASSUME NEW q \in qs, NEW r \in qs, NEW t \in qs,
                      q \in o[r], r \in o[t]
               PROVE  q \in o[t]
    OBVIOUS
  <2>1. P(q) \in Nat /\ P(r) \in Nat /\ P(t) \in Nat BY <1>2
  <2>2. /\ P(q) > P(r) \/ (P(q) = P(r) /\ r \in bef[q])
        /\ P(r) > P(t) \/ (P(r) = P(t) /\ t \in bef[r])
    BY <1>3
  <2>3. t \in bef[r] /\ r \in bef[q] => t \in bef[q] /\ t # q
    BY DEF Order
  <2>4. P(q) > P(t) \/ (P(q) = P(t) /\ t \in bef[q] /\ t # q)
    BY <2>1, <2>2, <2>3
  <2> QED BY <1>3, <2>1, <2>4
<1>8. Order(qs, o) BY <1>4, <1>5, <1>6, <1>7 DEF Order
<1>9. \A q \in qs : \A r \in o[q] : P(r) >= P(q)
  <2> SUFFICES ASSUME NEW q \in qs, NEW r \in o[q] PROVE P(r) >= P(q)
    OBVIOUS
  <2>1. r \in qs /\ q \in Queries BY <1>2, <1>4
  <2> QED BY <1>2, <1>3, <2>1
<1> QED BY <1>8, <1>9 DEF o, P

\* query_connect() of queries that are not on the list
LEMMA AppendedOrder ==
  ASSUME Order(bucket, ahead), NEW p \in Owners, NEW names \in SUBSET Names,
         Of(p, names) \cap bucket = {}
  PROVE  Order(bucket \cup Of(p, names), Appended(p, names))
<1> DEFINE new == Of(p, names)
           qs == bucket \cup new
           o == Appended(p, names)
<1>1. /\ new \subseteq Queries /\ \A q \in new : q.name \in Nat
      /\ \A q, r \in new : q # r => q.name # r.name
  BY QueryBusAssumption DEF Of, Queries, Owners
<1>2. /\ bucket \subseteq Queries /\ ahead \in [Queries -> SUBSET bucket]
      /\ new \cap bucket = {}
  BY DEF Order
<1>3. o = [q \in Queries |->
             IF q \in new THEN bucket \cup {r \in new : r.name < q.name}
             ELSE ahead[q]]
  BY DEF Appended
<1> HIDE DEF new, o
<1>4. o \in [Queries -> SUBSET qs] BY <1>2, <1>3
<1>5. \A q \in bucket : o[q] = ahead[q] BY <1>2, <1>3
<1>6. \A q \in new : o[q] = bucket \cup {r \in new : r.name < q.name}
  BY <1>1, <1>3
<1>7. \A q \in qs : q \notin o[q] BY <1>1, <1>2, <1>5, <1>6 DEF Order
<1>8. \A q, r \in qs : q # r => q \in o[r] \/ r \in o[q]
  BY <1>1, <1>2, <1>5, <1>6 DEF Order
<1>9. \A q, r, t \in qs : q \in o[r] /\ r \in o[t] => q \in o[t]
  <2> SUFFICES ASSUME NEW q \in qs, NEW r \in qs, NEW t \in qs,
                      q \in o[r], r \in o[t]
               PROVE  q \in o[t]
    OBVIOUS
  <2>1. CASE t \in bucket BY <1>2, <1>5, <2>1 DEF Order
  <2>2. CASE t \in new /\ r \in bucket BY <1>2, <1>5, <1>6, <2>2 DEF Order
  <2>3. CASE t \in new /\ r \in new BY <1>1, <1>2, <1>6, <2>3
  <2> QED BY <2>1, <2>2, <2>3
<1>10. qs \subseteq Queries BY <1>1, <1>2
<1> QED BY <1>4, <1>7, <1>8, <1>9, <1>10 DEF Order, new, o

\* queries taken off the list
Off(gone) == [q \in Queries |-> IF q \in gone THEN {} ELSE ahead[q] \ gone]
LEMMA OffOrder ==
  ASSUME Order(bucket, ahead), NEW gone
  PROVE  Order(bucket \ gone, Off(gone))
<1>1. /\ bucket \subseteq Queries /\ ahead \in [Queries -> SUBSET bucket]
  BY DEF Order
<1>2. Off(gone) \in [Queries -> SUBSET (bucket \ gone)] BY <1>1 DEF Off
<1>3. \A q, r \in bucket \ gone : q \in Off(gone)[r] <=> q \in ahead[r]
  BY <1>1 DEF Off
<1> QED BY <1>1, <1>2, <1>3 DEF Order

-----------------------------------------------------------------------------
\* The handler that runs has one act less to do, and all else stays.
LEMMA ActedEmitting ==
  ASSUME NEW s, NEW qs, NEW bef, Emitting(s, qs, bef),
         s # <<>> => s[Len(s)].acts < MaxActs
  PROVE  Emitting(Acted(s), qs, bef) /\ Len(Acted(s)) = Len(s)
<1> DEFINE t == Acted(s)
           more(e) == [e EXCEPT !.acts = @ + 1]
<1>1. /\ s \in Seq(Emissions) /\ Len(s) \in Nat /\ DOMAIN s = 1 .. Len(s)
      /\ Len(s) <= Limit
      /\ \A i \in 1 .. Len(s) : s[i] \in Emissions /\ Good(qs, bef, s[i])
  BY DEF Emitting
<1>2. t = [i \in 1 .. Len(s) |-> IF i = Len(s) THEN more(s[i]) ELSE s[i]]
  BY <1>1 DEF Acted
<1>3. ASSUME NEW e \in Emissions, e.acts < MaxActs, Good(qs, bef, e)
      PROVE  more(e) \in Emissions /\ Good(qs, bef, more(e))
  <2>1. e.acts + 1 \in 0 .. MaxActs
    BY <1>3, QueryBusAssumption DEF Emissions
  <2>2. more(e) \in Emissions BY <2>1 DEF Emissions
  <2>3. /\ more(e).name = e.name /\ more(e).only = e.only
        /\ more(e).at = e.at /\ more(e).called = e.called
        /\ more(e).again = e.again /\ more(e).steady = e.steady
        /\ more(e).freed = e.freed /\ more(e).resorted = e.resorted
    BY DEF Emissions
  <2> HIDE DEF more
  <2>4. InStep(qs, bef, e) => InStep(qs, bef, more(e))
    BY <2>3 DEF InStep, Passed
  <2> QED BY <1>3, <2>2, <2>3, <2>4 DEF Good
<1> HIDE DEF more, t
<1>4. ASSUME NEW i \in 1 .. Len(s)
      PROVE  t[i] \in Emissions /\ Good(qs, bef, t[i])
  <2>1. CASE i = Len(s)
    <3>1. s # <<>> BY <1>1
    <3>2. s[i].acts < MaxActs BY <2>1, <3>1
    <3> QED BY <1>1, <1>2, <1>3, <2>1, <3>2
  <2>2. CASE i # Len(s) BY <1>1, <1>2, <2>2
  <2> QED BY <2>1, <2>2
<1>5. t \in Seq(Emissions) /\ Len(t) = Len(s)
  <2>1. t \in [1 .. Len(s) -> Emissions] BY <1>2, <1>4
  <2> QED BY <1>1, <2>1
<1> QED BY <1>1, <1>4, <1>5 DEF Emitting, t

\* Of the emissions that know that the list was resorted nothing is asked.
LEMMA ResortedEmitting ==
  ASSUME NEW s, NEW qs, NEW bef, Emitting(s, qs, bef), NEW qs2, NEW bef2
  PROVE  Emitting([i \in DOMAIN s |-> [s[i] EXCEPT !.resorted = TRUE,
                                           !.called = {}, !.steady = {}]],
                  qs2, bef2)
<1> DEFINE told(e) == [e EXCEPT !.resorted = TRUE, !.called = {}, !.steady = {}]
           t == [i \in DOMAIN s |-> told(s[i])]
<1>1. /\ s \in Seq(Emissions) /\ Len(s) \in Nat /\ DOMAIN s = 1 .. Len(s)
      /\ Len(s) <= Limit
      /\ \A i \in 1 .. Len(s) : s[i] \in Emissions
  BY DEF Emitting
<1>2. ASSUME NEW e \in Emissions
      PROVE  told(e) \in Emissions /\ told(e).resorted
  BY DEF Emissions
<1>3. \A i \in 1 .. Len(s) : t[i] = told(s[i]) BY <1>1
<1> HIDE DEF told
<1>4. t \in Seq(Emissions) /\ Len(t) = Len(s)
  <2>1. t = [i \in 1 .. Len(s) |-> told(s[i])] BY <1>1
  <2>2. \A i \in 1 .. Len(s) : told(s[i]) \in Emissions BY <1>1, <1>2
  <2> HIDE DEF t
  <2>3. t \in [1 .. Len(s) -> Emissions] BY <2>1, <2>2
  <2> QED BY <1>1, <2>3
<1> HIDE DEF t
<1>5. \A i \in 1 .. Len(s) : t[i].resorted /\ t[i] \in Emissions
  BY <1>1, <1>2, <1>3
<1>6. Emitting(t, qs2, bef2) BY <1>1, <1>4, <1>5 DEF Emitting, Good
<1> QED BY <1>6 DEF t, told

\* What is appended is behind all that an emission has passed.
LEMMA AppendedEmitting ==
  ASSUME Order(bucket, ahead), NEW p \in Owners, NEW names \in SUBSET Names,
         Of(p, names) \cap bucket = {}, Emitting(stack, bucket, ahead)
  PROVE  Emitting(stack, bucket \cup Of(p, names), Appended(p, names))
<1>1. \A q \in bucket : Appended(p, names)[q] = ahead[q]
  BY DEF Appended, Order
<1>2. ASSUME NEW e, Good(bucket, ahead, e)
      PROVE  Good(bucket \cup Of(p, names), Appended(p, names), e)
  BY <1>1, <1>2 DEF Good, InStep, Passed
<1> QED BY <1>2 DEF Emitting

\* What leaves the list leaves the emissions, or ends the say of one.
LEMMA OffEmitting ==
  ASSUME Order(bucket, ahead), NEW gone, Emitting(stack, bucket, ahead),
         stack # <<>> => stack[Len(stack)].acts < MaxActs
  PROVE  Emitting(Acted([i \in DOMAIN stack |->
                           IF stack[i].at \in gone
                           THEN [stack[i] EXCEPT !.freed = TRUE,
                                                 !.called = {}, !.steady = {}]
                           ELSE [stack[i] EXCEPT !.called = @ \ gone,
                                                 !.steady = @ \ gone]]),
                  bucket \ gone, Off(gone))
<1> DEFINE less(e) == IF e.at \in gone
                      THEN [e EXCEPT !.freed = TRUE, !.called = {},
                                     !.steady = {}]
                      ELSE [e EXCEPT !.called = @ \ gone,
                                     !.steady = @ \ gone]
           t == [i \in DOMAIN stack |-> less(stack[i])]
           qs == bucket \ gone
<1>1. /\ stack \in Seq(Emissions) /\ Len(stack) \in Nat
      /\ DOMAIN stack = 1 .. Len(stack) /\ Len(stack) <= Limit
      /\ \A i \in 1 .. Len(stack) : /\ stack[i] \in Emissions
                                    /\ Good(bucket, ahead, stack[i])
  BY DEF Emitting
<1>2. \A q, r \in qs : q \in Off(gone)[r] <=> q \in ahead[r]
  BY DEF Off, Order
<1>3. ASSUME NEW e \in Emissions, Good(bucket, ahead, e)
      PROVE  /\ less(e) \in Emissions /\ Good(qs, Off(gone), less(e))
             /\ less(e).acts = e.acts
  <2> DEFINE d == less(e)
  <2>1. /\ d.name = e.name /\ d.only = e.only /\ d.at = e.at
        /\ d.again = e.again /\ d.resorted = e.resorted /\ d.acts = e.acts
        /\ e.at \in gone => d.freed
        /\ e.at \notin gone => /\ d.freed = e.freed
                               /\ d.called = e.called \ gone
                               /\ d.steady = e.steady \ gone
    BY DEF Emissions
  <2>2. d \in Emissions BY DEF Emissions
  <2> HIDE DEF d
  <2>3. ASSUME ~d.freed, ~d.resorted PROVE InStep(qs, Off(gone), d)
    <3>1. e.at \notin gone /\ InStep(bucket, ahead, e)
      BY <1>3, <2>1, <2>3 DEF Good
    <3>2. e.at \in qs BY <3>1 DEF InStep
    <3>3. \A q \in qs : Passed(Off(gone), q, d) <=> Passed(ahead, q, e)
      BY <1>2, <2>1, <3>2 DEF Passed
    <3> QED BY <2>1, <3>1, <3>2, <3>3 DEF InStep
  <2> QED BY <2>1, <2>2, <2>3 DEF Good, d
<1>4. \A i \in 1 .. Len(stack) : t[i] = less(stack[i]) BY <1>1
<1> HIDE DEF less
<1>5. t \in Seq(Emissions) /\ Len(t) = Len(stack) BY <1>1, <1>3
<1> HIDE DEF t
<1>6. \A i \in 1 .. Len(t) : Good(qs, Off(gone), t[i])
  BY <1>1, <1>3, <1>4, <1>5
<1>7. Emitting(t, qs, Off(gone)) BY <1>1, <1>5, <1>6 DEF Emitting
<1>8. t # <<>> => t[Len(t)].acts < MaxActs BY <1>1, <1>3, <1>4, <1>5
<1>9. Emitting(Acted(t), qs, Off(gone)) BY <1>7, <1>8, ActedEmitting
<1> QED BY <1>9 DEF t, less

\* The innermost emission ends, and the others are as they were.
LEMMA BelowEmitting ==
  ASSUME NEW qs, NEW bef, Emitting(stack, qs, bef), stack # <<>>
  PROVE  Emitting(Below, qs, bef) /\ Len(Below) = Len(stack) - 1
<1>1. /\ stack \in Seq(Emissions) /\ Len(stack) \in Nat /\ Len(stack) > 0
      /\ Limit \in Nat
  BY QueryBusAssumption DEF Emitting
<1>2. /\ Below \in Seq(Emissions) /\ Len(Below) = Len(stack) - 1
      /\ \A i \in 1 .. Len(stack) - 1 : Below[i] = stack[i]
  <2> DEFINE n == Len(stack) - 1
  <2>1. n \in Int /\ 1 \in Int /\ \A i \in 1 .. n : stack[i] \in Emissions
    BY <1>1
  <2>2. /\ Below \in Seq(Emissions)
        /\ Len(Below) = IF 1 <= n THEN n - 1 + 1 ELSE 0
        /\ \A i \in 1 .. n - 1 + 1 : Below[i] = stack[1 + i - 1]
    BY <2>1, SubSeqProperties DEF Below
  <2>3. \A i \in 1 .. n : i \in 1 .. n - 1 + 1 /\ 1 + i - 1 = i BY <1>1
  <2>4. \A i \in 1 .. n : Below[i] = stack[i] BY <2>2, <2>3
  <2>5. Len(Below) = n
    <3>1. n \in Nat BY <1>1
    <3> HIDE DEF n
    <3> QED BY <2>2, <3>1
  <2> QED BY <2>2, <2>4, <2>5
<1> QED BY <1>1, <1>2 DEF Emitting

\* One more emission is under way.
LEMMA PushEmitting ==
  ASSUME NEW s, NEW qs, NEW bef, Emitting(s, qs, bef), Len(s) < Limit,
         NEW e, Good(qs, bef, e)
  PROVE  Emitting(Append(s, e), qs, bef)
<1>1. s \in Seq(Emissions) /\ e \in Emissions /\ Limit \in Nat
  BY QueryBusAssumption DEF Emitting, Good
<1>2. /\ Append(s, e) \in Seq(Emissions) /\ Len(Append(s, e)) = Len(s) + 1
      /\ \A i \in 1 .. Len(s) : Append(s, e)[i] = s[i]
      /\ Append(s, e)[Len(s) + 1] = e
  BY <1>1
<1> QED BY <1>1, <1>2 DEF Emitting

-----------------------------------------------------------------------------
\* The queries a plugin connects to are none of those on the list.
LEMMA OfNew ==
  ASSUME IInv, NEW p \in Plugins \ loaded
  PROVE  /\ p \in Owners /\ Handles(p) \in SUBSET Names
         /\ Of(p, Handles(p)) \cap bucket = {}
<1>1. p \in Owners /\ Handles(p) \in SUBSET Names /\ p # Core
  BY QueryBusAssumption DEF Owners
<1>2. \A q \in bucket : q.plugin # p BY <1>1 DEF IInv, ListedAreLoaded
<1>3. \A q \in Of(p, Handles(p)) : q.plugin = p BY DEF Of
<1> QED BY <1>1, <1>2, <1>3

LEMMA EmitStep ==
  ASSUME IInv, NEW n \in Names, NEW only \in Owners, Emit(n, only)
  PROVE  IInv'
<1> DEFINE S == Matching(n, only)
           q == FirstOf(S)
           e == [name |-> n, only |-> only, at |-> q, called |-> {q},
                 again |-> FALSE, steady |-> S,
                 freed |-> FALSE, resorted |-> FALSE, acts |-> 0]
<1>1. /\ MayAct /\ S # {} /\ Len(stack) < Limit
      /\ stack' = Append(Acted(stack), e)
      /\ UNCHANGED <<plugins, list, sorted, missed, crashed>>
  BY DEF Emit
<1>2. S \in SUBSET bucket /\ bucket \subseteq Queries
  BY DEF Matching, IInv, Order
<1>3. q \in S /\ \A r \in S \ {q} : q \in ahead[r]
  BY <1>1, <1>2, FirstOfIn DEF IInv
<1>4. \A r \in S : Matches(r, n, only) BY DEF Matching
<1> HIDE DEF S, q
<1>5. e \in Emissions
  BY <1>2, <1>3, QueryBusAssumption DEF Emissions, Owners
<1>6. \A r \in S : r # q => r \notin ahead[q]
  BY <1>2, <1>3 DEF IInv, Order
<1>7. InStep(bucket, ahead, e)
  BY <1>2, <1>3, <1>4, <1>6 DEF InStep, Passed
<1>8. Emitting(Acted(stack), bucket, ahead) /\ Len(Acted(stack)) = Len(stack)
  BY <1>1, ActedEmitting DEF IInv, MayAct, Busy, Top
<1>9. Good(bucket, ahead, e) BY <1>5, <1>7 DEF Good
<1> HIDE DEF e
<1>10. Emitting(stack', bucket, ahead) BY <1>1, <1>8, <1>9, PushEmitting
<1> QED
  BY <1>1, <1>10
  DEF IInv, Calm, InOrder, PriorityOrders, ListedAreLoaded, plugins, list

LEMMA ReturnStep ==
  ASSUME IInv, Return
  PROVE  IInv'
<1> DEFINE e == Top
           next == Following(e.at, e.name, e.only)
           q == FirstOf(next)
           d == [e EXCEPT !.at = q,
                          !.called = IF e.resorted THEN {} ELSE @ \cup {q},
                          !.again = @ \/ q \in e.called]
<1>1. /\ stack # <<>> /\ ~e.freed
      /\ UNCHANGED <<plugins, list, sorted, crashed>>
      /\ IF next = {}
         THEN /\ stack' = Below
              /\ missed' = IF e.resorted THEN missed
                           ELSE missed \cup (e.steady \ e.called)
         ELSE stack' = Append(Below, d) /\ UNCHANGED missed
  BY DEF Return, Busy
<1>2. /\ Emitting(Below, bucket, ahead) /\ Len(Below) = Len(stack) - 1
      /\ Len(stack) \in Nat /\ Len(stack) <= Limit /\ Limit \in Nat
      /\ e \in Emissions /\ Good(bucket, ahead, e)
  <2>1. /\ stack \in Seq(Emissions) /\ Len(stack) <= Limit /\ Limit \in Nat
        /\ Len(stack) \in 1 .. Len(stack)
    BY <1>1, QueryBusAssumption DEF IInv, Emitting
  <2>2. \A i \in 1 .. Len(stack) : Good(bucket, ahead, stack[i])
    BY DEF IInv, Emitting
  <2>3. Good(bucket, ahead, e) BY <2>1, <2>2 DEF Top
  <2>4. Emitting(stack, bucket, ahead) BY DEF IInv
  <2>5. Emitting(Below, bucket, ahead) /\ Len(Below) = Len(stack) - 1
    BY <1>1, <2>4, BelowEmitting
  <2> HIDE DEF e
  <2> QED BY <2>1, <2>3, <2>5 DEF Good
<1>3. /\ next \in SUBSET bucket /\ bucket \subseteq Queries
      /\ \A r \in bucket : r \in next <=>
                             Matches(r, e.name, e.only) /\ e.at \in ahead[r]
  BY DEF Following, Matching, IInv, Order
<1> HIDE DEF e, next
<1>4. ~e.resorted => InStep(bucket, ahead, e) BY <1>1, <1>2 DEF Good
<1>5. CASE next = {}
  <2>1. ~e.resorted => e.steady \subseteq e.called
    <3> SUFFICES ASSUME ~e.resorted, NEW r \in e.steady PROVE r \in e.called
      OBVIOUS
    <3>1. /\ InStep(bucket, ahead, e) /\ r \in bucket /\ e.at \in bucket
          /\ Matches(r, e.name, e.only)
      BY <1>4 DEF InStep
    <3>2. e.at \notin ahead[r] BY <1>3, <1>5, <3>1
    <3>3. Passed(ahead, r, e) BY <3>1, <3>2 DEF Passed, IInv, Order
    <3> QED BY <3>1, <3>3 DEF InStep
  <2>2. missed' = {} BY <1>1, <1>5, <2>1 DEF IInv, Calm
  <2> QED
    BY <1>1, <1>2, <1>5, <2>2
    DEF IInv, Calm, InOrder, PriorityOrders, ListedAreLoaded, plugins, list
<1>6. CASE next # {}
  <2>1. q \in next /\ \A r \in next \ {q} : q \in ahead[r]
    BY <1>3, <1>6, FirstOfIn DEF IInv
  <2> HIDE DEF q
  <2>2. q \in bucket /\ q \in Queries BY <1>3, <2>1
  <2>3. d \in Emissions BY <1>2, <2>2 DEF Emissions
  <2>4. /\ d.name = e.name /\ d.only = e.only /\ d.at = q
        /\ ~e.resorted => d.called = e.called \cup {q}
        /\ d.again = (e.again \/ q \in e.called)
        /\ d.steady = e.steady /\ d.freed = e.freed /\ d.resorted = e.resorted
    BY <1>2 DEF Emissions
  <2> HIDE DEF d
  <2>5. ASSUME ~d.resorted PROVE InStep(bucket, ahead, d)
    <3>1. InStep(bucket, ahead, e) /\ d.called = e.called \cup {q}
      BY <1>4, <2>4, <2>5
    <3>2. /\ e.at \in bucket /\ e.at \in ahead[q]
          /\ Matches(q, e.name, e.only)
      BY <1>3, <2>1, <2>2, <3>1 DEF InStep
    <3>3. \A r \in bucket : Passed(ahead, r, e) => Passed(ahead, r, d)
      BY <2>2, <2>4, <3>2 DEF Passed, IInv, Order
    <3>4. ~Passed(ahead, q, e)
      BY <2>2, <3>2 DEF Passed, IInv, Order
    <3>5. \A r \in bucket :
            Matches(r, e.name, e.only) /\ Passed(ahead, r, d) /\ r # q
              => Passed(ahead, r, e)
      <4> SUFFICES ASSUME NEW r \in bucket, Matches(r, e.name, e.only),
                          r \in ahead[q], r # q
                   PROVE  Passed(ahead, r, e)
        BY <2>4 DEF Passed
      <4>1. q \notin ahead[r] BY <2>2 DEF IInv, Order
      <4>2. e.at \notin ahead[r] BY <1>3, <2>1, <4>1
      <4> QED BY <3>2, <4>2 DEF Passed, IInv, Order
    <3>6. q \notin e.called BY <3>1, <3>4 DEF InStep
    <3>7. ~d.again BY <2>4, <3>1, <3>6 DEF InStep
    <3>8. /\ d.at \in bucket /\ Matches(d.at, d.name, d.only)
          /\ d.at \in d.called
      BY <2>2, <2>4, <3>1, <3>2
    <3>9. \A r \in d.called : /\ r \in bucket /\ Matches(r, d.name, d.only)
                              /\ Passed(ahead, r, d)
      <4>1. Passed(ahead, q, d) BY <2>4 DEF Passed
      <4> QED BY <2>2, <2>4, <3>1, <3>2, <3>3, <4>1 DEF InStep
    <3>10. \A r \in d.steady : /\ r \in bucket /\ Matches(r, d.name, d.only)
                               /\ r \in d.called <=> Passed(ahead, r, d)
      <4> SUFFICES ASSUME NEW r \in e.steady
                   PROVE  /\ r \in bucket /\ Matches(r, e.name, e.only)
                          /\ r \in e.called \cup {q} <=> Passed(ahead, r, d)
        BY <2>4, <3>1
      <4>1. /\ r \in bucket /\ Matches(r, e.name, e.only)
            /\ r \in e.called <=> Passed(ahead, r, e)
        BY <3>1 DEF InStep
      <4>2. Passed(ahead, q, d) BY <2>4 DEF Passed
      <4> QED BY <3>3, <3>5, <4>1, <4>2
    <3> QED BY <3>7, <3>8, <3>9, <3>10 DEF InStep
  <2>6. Good(bucket, ahead, d) BY <2>3, <2>5 DEF Good
  <2>7. Len(Below) < Limit BY <1>2
  <2>8. Emitting(stack', bucket, ahead)
    BY <1>1, <1>2, <1>6, <2>6, <2>7, PushEmitting
  <2> QED
    BY <1>1, <1>6, <2>8
    DEF IInv, Calm, InOrder, PriorityOrders, ListedAreLoaded, plugins, list
<1> QED BY <1>5, <1>6

\* An emission ends, or the program does.
LEMMA EndStep ==
  ASSUME IInv, Veto \/ ReturnFreed
  PROVE  IInv'
<1>1. /\ stack # <<>> /\ crashed' \in BOOLEAN
      /\ stack' = Below \/ stack' = <<>>
      /\ UNCHANGED <<plugins, list, sorted, missed>>
  BY DEF Veto, ReturnFreed, Busy, IInv, Calm
<1>2. Emitting(stack', bucket, ahead)
  <2>1. Emitting(<<>>, bucket, ahead) BY QueryBusAssumption DEF Emitting
  <2> QED BY <1>1, <2>1, BelowEmitting DEF IInv
<1> QED
  BY <1>1, <1>2
  DEF IInv, Calm, InOrder, PriorityOrders, ListedAreLoaded, plugins, list

\* queries_reconnect() of a list that holds the handlers of the loaded
LEMMA ReconnectStep ==
  ASSUME IInv, NEW s, Emitting(s, bucket, ahead),
         prio' \in [Owners -> 0 .. MaxPrio],
         Reconnect(bucket, ahead, prio', s), loading' \subseteq 0 .. Limit,
         UNCHANGED <<loaded, missed, crashed>>
  PROVE  IInv'
<1>1. /\ bucket' = bucket /\ ahead' = Resorted(bucket, ahead, prio')
      /\ sorted' = TRUE
      /\ stack' = [i \in DOMAIN s |-> [s[i] EXCEPT !.resorted = TRUE,
                                              !.called = {}, !.steady = {}]]
  BY DEF Reconnect
<1>2. /\ Order(bucket', ahead')
      /\ \A q \in bucket' : \A r \in ahead'[q] :
           prio'[r.plugin] >= prio'[q.plugin]
  <2> DEFINE pr == prio'
  <2>1. pr \in [Owners -> 0 .. MaxPrio] /\ Order(bucket, ahead) BY DEF IInv
  <2> HIDE DEF pr
  <2>2. /\ Order(bucket, Resorted(bucket, ahead, pr))
        /\ \A q \in bucket : \A r \in Resorted(bucket, ahead, pr)[q] :
             pr[r.plugin] >= pr[q.plugin]
    BY <2>1, ResortedOrder
  <2> QED BY <1>1, <2>2 DEF pr
<1>3. Emitting(stack', bucket', ahead') BY <1>1, ResortedEmitting
<1>4. InOrder' BY <1>2 DEF InOrder, PriorityOrders
<1>5. ListedAreLoaded' BY <1>1 DEF IInv, ListedAreLoaded
<1>6. Calm' BY <1>1 DEF IInv, Calm
<1> QED BY <1>2, <1>3, <1>4, <1>5, <1>6 DEF IInv

\* A command of the handler that runs leaves it one act less to do.
LEMMA ActedStack ==
  ASSUME IInv, MayAct
  PROVE  Emitting(Acted(stack), bucket, ahead)
BY ActedEmitting DEF IInv, MayAct, Busy, Top

LEMMA EnterStep ==
  ASSUME IInv, NEW p \in Plugins, NEW k \in 1 .. MaxPrio, Enter(p, k),
         loading' \subseteq 0 .. Limit
  PROVE  IInv'
<1>1. /\ MayAct /\ p \in Plugins \ loaded
      /\ loaded' = loaded \cup {p} /\ prio' = [prio EXCEPT ![p] = k]
      /\ bucket' = bucket \cup Of(p, Handles(p))
      /\ ahead' = Appended(p, Handles(p)) /\ sorted' = FALSE
      /\ stack' = Acted(stack) /\ UNCHANGED <<missed, crashed>>
  BY DEF Enter, Connect
<1>2. /\ p \in Owners /\ Handles(p) \in SUBSET Names
      /\ Of(p, Handles(p)) \cap bucket = {}
  BY <1>1, OfNew
<1>3. Order(bucket', ahead') BY <1>1, <1>2, AppendedOrder DEF IInv
<1>4. Emitting(stack, bucket', ahead')
  BY <1>1, <1>2, AppendedEmitting DEF IInv
<1>5. stack # <<>> => stack[Len(stack)].acts < MaxActs
  BY <1>1 DEF MayAct, Busy, Top
<1>6. Emitting(stack', bucket', ahead') BY <1>1, <1>4, <1>5, ActedEmitting
<1>7. Calm'
  <2>1. prio' \in [Owners -> 0 .. MaxPrio]
    <3>1. k \in 0 .. MaxPrio BY QueryBusAssumption
    <3> QED BY <1>1, <3>1 DEF IInv, Calm
  <2> QED BY <1>1, <2>1 DEF IInv, Calm
<1>8. InOrder' BY <1>1 DEF InOrder
<1>9. ListedAreLoaded' BY <1>1 DEF IInv, ListedAreLoaded, Of
<1> QED BY <1>3, <1>6, <1>7, <1>8, <1>9 DEF IInv

\* The depths at which plugins are loaded are those of the emissions.
LEMMA LoadingDepth == IInv => Len(stack) \in 0 .. Limit
BY QueryBusAssumption DEF IInv, Emitting

LEMMA BindStep ==
  ASSUME IInv, NEW n \in Names, Bind(n)
  PROVE  IInv'
<1>1. /\ MayAct /\ Scripting \in loaded
      /\ [plugin |-> Scripting, name |-> n] \notin bucket
      /\ bucket' = bucket \cup Of(Scripting, {n})
      /\ ahead' = Appended(Scripting, {n}) /\ sorted' = FALSE
      /\ stack' = Acted(stack) /\ UNCHANGED <<plugins, missed, crashed>>
  BY DEF Bind, Connect
<1>2. /\ Scripting \in Owners /\ {n} \in SUBSET Names
      /\ Of(Scripting, {n}) \cap bucket = {}
  BY <1>1 DEF Of, IInv, Calm, Owners
<1>3. Order(bucket', ahead') BY <1>1, <1>2, AppendedOrder DEF IInv
<1>4. Emitting(stack, bucket', ahead')
  BY <1>1, <1>2, AppendedEmitting DEF IInv
<1>5. stack # <<>> => stack[Len(stack)].acts < MaxActs
  BY <1>1 DEF MayAct, Busy, Top
<1>6. Emitting(stack', bucket', ahead') BY <1>1, <1>4, <1>5, ActedEmitting
<1>7. Calm' /\ InOrder' BY <1>1 DEF IInv, Calm, InOrder, plugins
<1>8. ListedAreLoaded' BY <1>1 DEF IInv, ListedAreLoaded, Of, plugins
<1> QED BY <1>3, <1>6, <1>7, <1>8 DEF IInv

\* Queries leave the list: the order of the others and the emissions stay.
LEMMA LeaveStep ==
  ASSUME IInv, MayAct, NEW gone, Leave(gone), Calm', sorted' = sorted,
         \A q \in bucket \ gone : prio'[q.plugin] = prio[q.plugin],
         ListedAreLoaded'
  PROVE  IInv'
<1>1. /\ bucket' = bucket \ gone /\ ahead' = Off(gone)
      /\ stack' = Acted([i \in DOMAIN stack |->
                           IF stack[i].at \in gone
                           THEN [stack[i] EXCEPT !.freed = TRUE,
                                                 !.called = {}, !.steady = {}]
                           ELSE [stack[i] EXCEPT !.called = @ \ gone,
                                                 !.steady = @ \ gone]])
  BY DEF Leave, Off
<1>2. Order(bucket', ahead') BY <1>1, OffOrder DEF IInv
<1>3. stack # <<>> => stack[Len(stack)].acts < MaxActs
  BY DEF MayAct, Busy, Top
<1>4. Emitting(stack', bucket', ahead')
  BY <1>1, <1>3, OffEmitting DEF IInv
<1>5. InOrder'
  <2> SUFFICES ASSUME sorted', NEW q \in bucket', NEW r \in ahead'[q]
               PROVE  prio'[r.plugin] >= prio'[q.plugin]
    BY DEF InOrder, PriorityOrders
  <2>1. q \in bucket \ gone /\ q \in Queries BY <1>1 DEF IInv, Order
  <2>2. r \in ahead[q] /\ r \in bucket \ gone
    BY <1>1, <2>1 DEF Off, IInv, Order
  <2>3. prio[r.plugin] >= prio[q.plugin]
    BY <2>1, <2>2 DEF IInv, InOrder, PriorityOrders
  <2> QED BY <2>1, <2>2, <2>3
<1> QED BY <1>2, <1>4, <1>5 DEF IInv

LEMMA UnloadStep ==
  ASSUME IInv, NEW p \in Plugins, Unload(p)
  PROVE  IInv'
<1>1. /\ MayAct /\ p \in loaded /\ loaded' = loaded \ {p}
      /\ prio' = [prio EXCEPT ![p] = 0] /\ Leave(Removed(p))
      /\ UNCHANGED <<loading, sorted, missed, crashed>>
  BY DEF Unload
<1>2. \A q \in bucket : q \in Removed(p) <=> q.plugin = p BY DEF Removed
<1>3. /\ prio \in [Owners -> 0 .. MaxPrio] /\ 0 \in 0 .. MaxPrio
      /\ \A q \in bucket : q.plugin \in Owners
  BY QueryBusAssumption DEF IInv, Calm, Order, Queries, Owners
<1>4. \A q \in bucket \ Removed(p) : prio'[q.plugin] = prio[q.plugin]
  BY <1>1, <1>2, <1>3
<1>5. Calm' BY <1>1, <1>3 DEF IInv, Calm
<1>6. ListedAreLoaded'
  <2>1. bucket' = bucket \ Removed(p) BY <1>1 DEF Leave
  <2>2. \A q \in bucket' : q.plugin \in loaded' \cup {Core}
    BY <1>1, <1>2, <2>1 DEF IInv, ListedAreLoaded
  <2>3. ASSUME NEW o \in loaded' \cup {Core}, NEW n \in Handles(o)
        PROVE  [plugin |-> o, name |-> n] \in bucket'
    <3>1. o # p /\ o \in loaded \cup {Core}
      BY <1>1, QueryBusAssumption
    <3>2. [plugin |-> o, name |-> n] \in bucket
      BY <3>1 DEF IInv, ListedAreLoaded
    <3>3. [plugin |-> o, name |-> n].plugin = o OBVIOUS
    <3> QED BY <1>2, <2>1, <3>1, <3>2, <3>3
  <2> QED BY <2>2, <2>3 DEF ListedAreLoaded
<1> QED BY <1>1, <1>4, <1>5, <1>6, LeaveStep

LEMMA UnbindStep ==
  ASSUME IInv, NEW n \in Names, Unbind(n)
  PROVE  IInv'
<1> DEFINE gone == {[plugin |-> Scripting, name |-> n]}
<1>1. /\ MayAct /\ Leave(gone) /\ UNCHANGED <<plugins, sorted, missed, crashed>>
  BY DEF Unbind
<1>2. Calm' BY <1>1 DEF IInv, Calm, plugins
<1>3. ListedAreLoaded'
  <2>1. bucket' = bucket \ gone BY <1>1 DEF Leave
  <2>2. ASSUME NEW o \in loaded \cup {Core}, NEW m \in Handles(o)
        PROVE  [plugin |-> o, name |-> m] \notin gone
    <3>1. o # Scripting BY QueryBusAssumption
    <3>2. [plugin |-> o, name |-> m].plugin = o OBVIOUS
    <3>3. \A q \in gone : q.plugin = Scripting OBVIOUS
    <3> QED BY <3>1, <3>2, <3>3
  <2> HIDE DEF gone
  <2> QED BY <1>1, <2>1, <2>2 DEF IInv, ListedAreLoaded, plugins
<1>4. \A q \in bucket \ gone : prio'[q.plugin] = prio[q.plugin]
  BY <1>1 DEF plugins
<1> HIDE DEF gone
<1> QED BY <1>1, <1>2, <1>3, <1>4, LeaveStep

-----------------------------------------------------------------------------
\* At first there are the handlers of the core, in the order of connection.
LEMMA InitIInv == Init => IInv
<1> SUFFICES ASSUME Init PROVE IInv OBVIOUS
<1>1. /\ bucket = Of(Core, Handles(Core)) /\ stack = <<>> /\ missed = {}
      /\ ahead = [q \in Queries |->
                    IF q \notin bucket THEN {}
                    ELSE {r \in bucket : r.name < q.name}]
  BY DEF Init
<1>2. /\ bucket \subseteq Queries
      /\ \A q \in bucket : q.name \in Nat /\ q.plugin = Core
      /\ \A q, r \in bucket : q # r => q.name # r.name
  <2>1. Core \in Plugins \cup {Core} /\ Handles(Core) \subseteq Names
    BY QueryBusAssumption
  <2>2. Names \subseteq Nat BY QueryBusAssumption
  <2>3. \A q \in bucket : \E n \in Handles(Core) :
           q = [plugin |-> Core, name |-> n]
    BY <1>1 DEF Of
  <2>4. \A q \in bucket : q.plugin = Core /\ q.name \in Names
                           /\ q = [plugin |-> Core, name |-> q.name]
    BY <2>1, <2>3
  <2>5. \A q \in bucket : q \in Queries BY <2>1, <2>4 DEF Queries
  <2>6. \A q, r \in bucket : q # r => q.name # r.name BY <2>4
  <2> QED BY <2>2, <2>4, <2>5, <2>6
<1>3. /\ ahead \in [Queries -> SUBSET bucket]
      /\ \A q, r \in bucket : q \in ahead[r] <=> q.name < r.name
  BY <1>1, <1>2
<1>4. Order(bucket, ahead) BY <1>2, <1>3 DEF Order
<1>5. Emitting(stack, bucket, ahead)
  BY <1>1, QueryBusAssumption DEF Emitting
<1>6. Calm
  <2>1. 0 \in 0 .. MaxPrio BY QueryBusAssumption
  <2>2. prio = [p \in Owners |-> 0] BY DEF Init, Owners
  <2>3. prio \in [Owners -> 0 .. MaxPrio] BY <2>1, <2>2
  <2> QED BY <2>3 DEF Init, Calm
<1>7. InOrder /\ ListedAreLoaded
  BY <1>1, <1>2 DEF Init, InOrder, ListedAreLoaded, Of
<1> QED BY <1>4, <1>5, <1>6, <1>7 DEF IInv

LEMMA NextIInv == IInv /\ [Next]_vars => IInv'
<1> SUFFICES ASSUME IInv, [Next]_vars PROVE IInv' OBVIOUS
<1>1. ASSUME NEW n \in Names, NEW only \in Owners, Emit(n, only) PROVE IInv'
  BY <1>1, EmitStep
<1>2. CASE Return BY <1>2, ReturnStep
<1>3. CASE Veto \/ ReturnFreed BY <1>3, EndStep
<1>4. CASE LoadEnds
  <2>1. /\ Reconnect(bucket, ahead, prio, stack) /\ prio' = prio
        /\ UNCHANGED <<loaded, missed, crashed>>
        /\ loading' = loading \ {Len(stack)}
    BY <1>4 DEF LoadEnds
  <2>2. Reconnect(bucket, ahead, prio', stack) BY <2>1
  <2>3. /\ prio' \in [Owners -> 0 .. MaxPrio] /\ loading' \subseteq 0 .. Limit
        /\ Emitting(stack, bucket, ahead)
    BY <2>1 DEF IInv, Calm
  <2> QED BY <2>1, <2>2, <2>3, ReconnectStep
<1>5. CASE DefaultPrios
  <2>1. prio' \in [Owners -> 0 .. MaxPrio]
    <3>1. \A p \in Plugins : Default(p) \in 0 .. MaxPrio
      BY QueryBusAssumption
    <3>2. /\ prio' = [p \in Owners |-> IF p \in loaded THEN Default(p)
                                       ELSE prio[p]]
          /\ loaded \subseteq Plugins /\ prio \in [Owners -> 0 .. MaxPrio]
      BY <1>5 DEF DefaultPrios, Owners, IInv, Calm
    <3> QED BY <3>1, <3>2
  <2>2. /\ MayAct /\ Reconnect(bucket, ahead, prio', Acted(stack))
        /\ UNCHANGED <<loaded, loading, missed, crashed>>
    BY <1>5 DEF DefaultPrios
  <2>3. loading' \subseteq 0 .. Limit BY <2>2 DEF IInv, Calm
  <2> QED BY <2>1, <2>2, <2>3, ActedStack, ReconnectStep
<1>6. ASSUME NEW n \in Names, Bind(n) PROVE IInv' BY <1>6, BindStep
<1>7. ASSUME NEW n \in Names, Unbind(n) PROVE IInv' BY <1>7, UnbindStep
<1>8. ASSUME NEW p \in Plugins, NEW k \in 1 .. MaxPrio, LoadBegins(p, k)
      PROVE  IInv'
  <2>1. Enter(p, k) /\ loading' = loading \cup {Len(stack)}
    BY <1>8 DEF LoadBegins
  <2>2. loading' \subseteq 0 .. Limit BY <2>1, LoadingDepth DEF IInv, Calm
  <2> QED BY <2>1, <2>2, EnterStep
<1>9. ASSUME NEW p \in Plugins, NEW k \in 1 .. MaxPrio, LoadFromConfig(p, k)
      PROVE  IInv'
  BY <1>9, EnterStep DEF LoadFromConfig, IInv, Calm
<1>10. ASSUME NEW p \in Plugins, NEW k \in 1 .. MaxPrio, SetPrio(p, k)
       PROVE  IInv'
  <2>1. /\ MayAct /\ prio' = [prio EXCEPT ![p] = k]
        /\ Reconnect(bucket, ahead, prio', Acted(stack))
        /\ UNCHANGED <<loaded, loading, missed, crashed>>
    BY <1>10 DEF SetPrio
  <2>2. prio' \in [Owners -> 0 .. MaxPrio]
    <3>1. k \in 0 .. MaxPrio BY QueryBusAssumption
    <3>2. prio \in [Owners -> 0 .. MaxPrio] BY DEF IInv, Calm
    <3> QED BY <2>1, <3>1, <3>2
  <2>3. loading' \subseteq 0 .. Limit BY <2>1 DEF IInv, Calm
  <2> QED BY <2>1, <2>2, <2>3, ActedStack, ReconnectStep
<1>11. ASSUME NEW p \in Plugins, Unload(p) PROVE IInv' BY <1>11, UnloadStep
<1>12. CASE UNCHANGED vars
  BY <1>12
  DEF vars, plugins, list, IInv, Calm, InOrder, PriorityOrders, ListedAreLoaded
<1> QED
  BY <1>1, <1>2, <1>3, <1>4, <1>5, <1>6, <1>7, <1>8, <1>9, <1>10, <1>11,
     <1>12 DEF Next, Owners

LEMMA Invariance == Spec => []IInv
BY InitIInv, NextIInv, PTL DEF Spec

(***************************************************************************)
(* From the end of a /plugin command on, until a script or a plugin        *)
(* connects, handlers stand in the order of the priorities of their        *)
(* plugins (query_compare(), queries_reconnect()).                         *)
(***************************************************************************)
THEOREM HandlersInOrder == Spec => []InOrder
<1>1. IInv => InOrder BY DEF IInv
<1> QED BY <1>1, Invariance, PTL

(***************************************************************************)
(* The list holds no handler of a plugin that is not loaded, and all of    *)
(* those that are (plugin_unregister(), query_connect()).                  *)
(***************************************************************************)
THEOREM NoHandlerOutlives == Spec => []ListedAreLoaded
<1>1. IInv => ListedAreLoaded BY DEF IInv
<1> QED BY <1>1, Invariance, PTL

(***************************************************************************)
(* An emission calls those that match, once each and in the order of the   *)
(* list, and skips none that was connected all the time, whatever its      *)
(* handlers load, unload and bind, and however deep they emit              *)
(* (query_emit()).                                                         *)
(***************************************************************************)
THEOREM EmissionsCallOnce == Spec => []EachOnce
<1>1. IInv => EachOnce
  <2> SUFFICES ASSUME IInv PROVE EachOnce OBVIOUS
  <2>1. missed = {} BY DEF IInv, Calm
  <2>2. ASSUME NEW i \in DOMAIN stack, ~stack[i].freed, ~stack[i].resorted
        PROVE  InStep(bucket, ahead, stack[i])
    <3>1. i \in 1 .. Len(stack) BY DEF IInv, Emitting
    <3> QED BY <2>2, <3>1 DEF IInv, Emitting, Good
  <2> QED BY <2>1, <2>2 DEF EachOnce, InStep, Passed, Matches
<1> QED BY <1>1, Invariance, PTL

\* The variables keep their types.
THEOREM BusTyped == Spec => []TypeOK
<1>1. IInv => TypeOK
  BY DEF IInv, Calm, Order, Emitting, TypeOK, Owners
<1> QED BY <1>1, Invariance, PTL

=============================================================================
