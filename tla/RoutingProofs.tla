---------------------------- MODULE RoutingProofs ----------------------------
(****************************************************************************)
(* Theorems about Routing, and about Engine, which has the routing: for     *)
(* every tree of routes, every set of rules and every set of events.        *)
(****************************************************************************)
EXTENDS Engine, SequenceTheorems, TLAPS

USE TreeAssumption

\* The calls still to be made are calls for routes the event comes to.
TodoReached == \A i \in DOMAIN todo : Reaches(todo[i], event)

\* A route and those above it.
Path(r) == Above(r) \cup {r}

\* Neither of two routes is above the other, and they differ.
Apart(q, r) == q \notin Path(r) /\ r \notin Path(q)

\* The calls still to be made are for disjoint parts of the tree.
TodoApart == \A i, j \in DOMAIN todo : i # j => Apart(todo[i], todo[j])

\* The call for r is still to be made, by itself or from one for a route above.
Pending(r) == \E i \in DOMAIN todo : todo[i] \in Path(r)

\* How often the rule at e is to send ev.
Expected(e, ev) ==
    IF Sends(e, ev) /\ Reaches(e[1], ev) /\ ~IsDropped(e[1], ev) THEN 1 ELSE 0

\* Every rule has sent what it is to send, or nothing while its route is pending.
SentSoFar ==
    \A e \in Entry : sent[e] = IF Pending(e[1]) THEN 0 ELSE Expected(e, event)

IInv == RoutingTypeOK /\ TodoReached /\ TodoApart /\ SentSoFar

-----------------------------------------------------------------------------
(* The tree *)

\* No route is above the root.
LEMMA NothingAboveRoot == Above(Root) = {}
  <1> SUFFICES ASSUME NEW a \in Above(Root) PROVE FALSE
    OBVIOUS
  <1>1. \A S \in SUBSET Route :
          (\A p, q \in Route : IsSub(p, q) /\ (q = Root \/ q \in S) => p \in S) => a \in S
    BY DEF Above
  <1>2. \A p, q \in Route : ~(IsSub(p, q) /\ (q = Root \/ q \in {}))
    OBVIOUS
  <1>3. a \in {}
    <2>1. {} \in SUBSET Route
      OBVIOUS
    <2>2. (\A p, q \in Route : IsSub(p, q) /\ (q = Root \/ q \in {}) => p \in {}) => a \in {}
      BY <1>1, <2>1
    <2> QED BY <1>2, <2>2
  <1> QED
    BY <1>3

\* The parent of a route and the routes above it are all the routes above.
LEMMA AboveSub ==
  ASSUME NEW r \in Route, NEW c \in Route, IsSub(r, c)
  PROVE  Above(c) \subseteq Above(r) \cup {r}
  <1> DEFINE S == Above(r) \cup {r}
  <1>1. S \in SUBSET Route
    BY DEF Above
  <1>2. ASSUME NEW p \in Route, NEW q \in Route, IsSub(p, q), q = c \/ q \in S
        PROVE  p \in S
    <2>1. CASE q = c
      BY <1>2, <2>1
    <2>2. CASE q = r \/ q \in Above(r)
      <3> SUFFICES ASSUME NEW T \in SUBSET Route,
                          \A x, y \in Route : IsSub(x, y) /\ (y = r \/ y \in T) => x \in T
                   PROVE  p \in T
        BY DEF Above
      <3>1. q = r \/ q \in T
        BY <2>2 DEF Above
      <3> QED BY <1>2, <3>1
    <2> QED BY <1>2, <2>1, <2>2
  <1> SUFFICES ASSUME NEW a \in Above(c) PROVE a \in S
    OBVIOUS
  <1>3. a \in Route /\ \A T \in SUBSET Route :
          (\A p, q \in Route : IsSub(p, q) /\ (q = c \/ q \in T) => p \in T) => a \in T
    BY DEF Above
  <1> HIDE DEF S
  <1> QED
    BY <1>1, <1>2, <1>3

\* The parent of a route above r is above r, and so is all that is above it.
LEMMA AboveClosed ==
  ASSUME NEW r \in Route, NEW p \in Route, NEW q \in Route,
         IsSub(p, q), q = r \/ q \in Above(r)
  PROVE  p \in Above(r)
  <1> SUFFICES ASSUME NEW T \in SUBSET Route,
                      \A x, y \in Route : IsSub(x, y) /\ (y = r \/ y \in T) => x \in T
               PROVE  p \in T
    BY DEF Above
  <1>1. q = r \/ q \in T
    BY DEF Above
  <1> QED
    BY <1>1

\* A set that holds the parent of r and the parents of its members holds all the
\* routes above r: the form in which the definition of Above is used.
LEMMA AboveLeast ==
  ASSUME NEW r \in Route, NEW S \in SUBSET Route,
         \A p, q \in Route : IsSub(p, q) /\ (q = r \/ q \in S) => p \in S
  PROVE  Above(r) \subseteq S
  BY DEF Above

LEMMA AboveTransitive ==
  ASSUME NEW r \in Route, NEW q \in Above(r)
  PROVE  Above(q) \subseteq Above(r)
  <1>1. q \in Route /\ Above(r) \in SUBSET Route
    BY DEF Above
  <1>2. \A x, y \in Route : IsSub(x, y) /\ (y = q \/ y \in Above(r)) => x \in Above(r)
    BY AboveClosed
  <1> QED
    BY <1>1, <1>2, AboveLeast

\* The routes above a sub-route are exactly its parent and those above that.
LEMMA PathSub ==
  ASSUME NEW r \in Route, NEW c \in Route, IsSub(r, c)
  PROVE  Above(c) = Path(r)
  <1>1. r \in Above(c)
    BY AboveClosed
  <1> QED
    BY <1>1, AboveSub, AboveTransitive DEF Path

\* On the way down from a route to one below it comes a sub-route.
LEMMA StepDown ==
  ASSUME NEW x \in Route, NEW r \in Above(x)
  PROVE  \E c \in Route : IsSub(r, c) /\ x \in Route /\ c \in Path(x)
  <1> DEFINE S == {a \in Above(x) : \E c \in Route : IsSub(a, c) /\ c \in Path(x)}
  <1>1. Above(x) \in SUBSET Route
    BY DEF Above
  <1>2. \A p, q \in Route : IsSub(p, q) /\ (q = x \/ q \in S) => p \in S
    BY AboveClosed DEF Path
  <1>3. Above(x) \subseteq S
    <2> HIDE DEF S
    <2>1. S \in SUBSET Route
      BY <1>1 DEF S
    <2> QED
      BY <1>2, <2>1, AboveLeast
  <1> QED
    BY <1>3

\* No route is above itself: its parent would be, too, and in the end the root.
LEMMA NoCycle == \A r \in Route : r \notin Above(r)
  <1> SUFFICES ASSUME NEW r \in Route, r \in Above(r) PROVE FALSE
    OBVIOUS
  <1> DEFINE S == {q \in Route : q \in Above(q)}
  <1>1. \A p, q \in Route : IsSub(p, q) /\ (q = r \/ q \in S) => p \in S
    <2> SUFFICES ASSUME NEW p \in Route, NEW q \in Route, IsSub(p, q), q \in Above(q)
                 PROVE  p \in Above(p)
      OBVIOUS
    <2>1. p \in Above(q) /\ Above(q) = Path(p)
      BY PathSub, AboveClosed
    <2>2. CASE q = p
      BY <2>1, <2>2
    <2>3. CASE q \in Above(p)
      BY <2>1, <2>3, AboveTransitive
    <2> QED
      BY <2>1, <2>2, <2>3 DEF Path
  <1>2. Above(r) \subseteq S
    <2> HIDE DEF S
    <2>1. S \in SUBSET Route
      BY DEF S
    <2> QED
      BY <1>1, <2>1, AboveLeast
  <1>3. Root \in Above(r)
    BY NothingAboveRoot
  <1> QED
    BY <1>2, <1>3, NothingAboveRoot

\* The routes above a route are a chain.
LEMMA PathIsChain ==
  ASSUME NEW x \in Route, NEW a \in Path(x), NEW b \in Path(x)
  PROVE  ~Apart(a, b)
  <1> DEFINE S == {p \in Above(x) : \A q \in Path(x) : ~Apart(p, q)}
  <1>1. Above(x) \in SUBSET Route
    BY DEF Above
  <1>2. ASSUME NEW p \in Route, NEW q \in Route, IsSub(p, q), q = x \/ q \in S
        PROVE  p \in S
    <2>1. p \in Above(x)
      BY <1>2, AboveClosed
    <2>2. Above(q) = Path(p)
      BY <1>2, PathSub
    <2>3. ASSUME NEW d \in Path(x) PROVE ~Apart(p, d)
      <3>1. d \in Route
        BY <1>1 DEF Path
      <3>2. d \in Path(q) \/ q \in Path(d)
        BY <1>2 DEF Apart, Path
      <3>3. CASE d \in Above(q)
        BY <2>2, <3>3 DEF Apart
      <3>4. CASE d = q
        BY <2>2, <3>4 DEF Apart, Path
      <3>5. CASE q \in Above(d)
        BY <1>2, <3>1, <3>5, AboveClosed DEF Apart, Path
      <3> QED
        BY <3>2, <3>3, <3>4, <3>5 DEF Path
    <2> QED
      BY <2>1, <2>3
  <1>3. Above(x) \subseteq S
    <2> HIDE DEF S
    <2>1. S \in SUBSET Route
      BY <1>1 DEF S
    <2> QED
      BY <1>2, <2>1, AboveLeast
  <1> QED
    BY <1>3 DEF Path, Apart

\* Two sub-routes of a route are in disjoint parts of the tree, and so are a
\* sub-route and what is apart from the route.
LEMMA SubsApart ==
  ASSUME NEW r \in Route, NEW c \in Route, IsSub(r, c)
  PROVE  /\ \A d \in Route : IsSub(r, d) /\ c # d => Apart(c, d)
         /\ \A s \in Route : Apart(r, s) => Apart(c, s)
  <1>1. Above(c) = Path(r)
    BY PathSub
  <1>2. r \in Above(c) /\ c \notin Above(r)
    <2>1. r \in Above(c)
      BY <1>1 DEF Path
    <2> QED
      BY <2>1, AboveTransitive, NoCycle
  <1>3. ASSUME NEW d \in Route, IsSub(r, d), c # d PROVE Apart(c, d)
    <2>1. Above(d) = Path(r) /\ d # r /\ d \notin Above(r) /\ c # r
      <3>1. Above(d) = Path(r) /\ r \in Above(d)
        BY <1>3, PathSub DEF Path
      <3> QED
        BY <1>2, <3>1, AboveTransitive, NoCycle
    <2> QED
      BY <1>1, <1>2, <1>3, <2>1 DEF Apart, Path
  <1>4. ASSUME NEW s \in Route, Apart(r, s) PROVE Apart(c, s)
    <2>1. s \notin Path(r) /\ s # c
      BY <1>2, <1>4 DEF Apart, Path
    <2>2. c \notin Above(s)
      BY <1>2, <1>4, AboveTransitive DEF Apart, Path
    <2> QED
      BY <1>1, <2>1, <2>2 DEF Apart, Path
  <1> QED
    BY <1>3, <1>4

\* Where an event comes to a route that lets it pass, it comes to the
\* sub-routes.
LEMMA ReachesSub ==
  ASSUME NEW r \in Route, NEW c \in Route, IsSub(r, c), NEW ev,
         Reaches(r, ev), ~IsDropped(r, ev), MatchesAll(r, ev)
  PROVE  Reaches(c, ev)
  BY AboveSub DEF Reaches

-----------------------------------------------------------------------------
(* The invariant *)

\* A rule sends only where the event comes to its route, and never below a route
\* that drops it or whose rules do not all match.
LEMMA NothingBelow ==
  ASSUME NEW e \in Entry, NEW r \in Route, NEW ev,
         \/ r \in Above(e[1]) /\ (IsDropped(r, ev) \/ ~MatchesAll(r, ev))
         \/ r = e[1] /\ IsDropped(r, ev)
  PROVE  Expected(e, ev) = 0
  BY DEF Expected, Reaches

LEMMA EntryRoute == \A e \in Entry : e[1] \in Route
  BY DEF Entry

\* The first call for a new event is the root's: the whole tree is pending.
LEMMA RootFirst ==
  ASSUME NEW ev \in Event, event' = ev, todo' = <<Root>>, sent' = [e \in Entry |-> 0]
  PROVE  IInv'
  <1>1. RoutingTypeOK'
    BY DEF RoutingTypeOK
  <1>2. TodoReached'
    BY NothingAboveRoot DEF TodoReached, Reaches
  <1>3. TodoApart'
    BY DEF TodoApart
  <1>4. SentSoFar'
    <2>1. \A r \in Route : Root \in Path(r)
      BY DEF Path
    <2>2. \A r \in Route : Pending(r)'
      BY <2>1 DEF Pending
    <2> QED
      BY <2>2, EntryRoute DEF SentSoFar
  <1> QED
    BY <1>1, <1>2, <1>3, <1>4 DEF IInv

\* Before anything is sent the invariant holds.
LEMMA InitIInv == RoutingInit => IInv
  <1> SUFFICES ASSUME RoutingInit PROVE IInv
    OBVIOUS
  <1> USE DEF RoutingInit
  <1>1. RoutingTypeOK /\ TodoApart
    BY DEF RoutingTypeOK, TodoApart
  <1>2. TodoReached
    BY NothingAboveRoot DEF TodoReached, Reaches
  <1>3. SentSoFar
    <2>1. \A r \in Route : Root \in Path(r)
      BY DEF Path
    <2>2. todo[1] = Root /\ 1 \in DOMAIN todo
      OBVIOUS
    <2>3. \A r \in Route : Pending(r)
      BY <2>1, <2>2 DEF Pending
    <2> QED
      BY <2>3, EntryRoute DEF SentSoFar
  <1> QED
    BY <1>1, <1>2, <1>3 DEF IInv

\* What the invariant says of the next call and of those after it.
LEMMA NextCall ==
  ASSUME IInv, todo # <<>>, NEW r, r = Head(todo), NEW rest, rest = Tail(todo)
  PROVE  /\ r \in Route /\ rest \in Seq(Route) /\ Reaches(r, event)
         /\ \A i \in DOMAIN rest : Reaches(rest[i], event) /\ Apart(r, rest[i])
         /\ \A i, j \in DOMAIN rest : i # j => Apart(rest[i], rest[j])
         /\ \A x : Pending(x) <=> r \in Path(x) \/ \E i \in DOMAIN rest : rest[i] \in Path(x)
  <1>1. /\ todo \in Seq(Route) /\ r = todo[1] /\ r \in Route /\ rest \in Seq(Route)
        /\ 1 \in DOMAIN todo /\ DOMAIN todo = 1 .. Len(todo)
        /\ DOMAIN rest = 1 .. Len(todo) - 1 /\ Len(todo) \in Nat
        /\ \A i \in DOMAIN rest : rest[i] = todo[i + 1] /\ i + 1 \in DOMAIN todo
    BY DEF IInv, RoutingTypeOK
  <1>2. \A i \in DOMAIN todo : i = 1 \/ (i - 1 \in DOMAIN rest /\ todo[i] = rest[i - 1])
    BY <1>1
  <1>3. \A i \in DOMAIN rest : Reaches(rest[i], event) /\ Apart(r, rest[i])
    <2> SUFFICES ASSUME NEW i \in DOMAIN rest
                 PROVE  Reaches(rest[i], event) /\ Apart(r, rest[i])
      OBVIOUS
    <2>1. PICK k \in DOMAIN todo : k # 1 /\ rest[i] = todo[k]
      <3>1. i + 1 \in DOMAIN todo /\ i + 1 # 1 /\ rest[i] = todo[i + 1]
        BY <1>1
      <3> QED
        BY <3>1
    <2>2. Reaches(todo[k], event)
      BY <2>1 DEF IInv, TodoReached
    <2>3. Apart(todo[1], todo[k])
      BY <1>1, <2>1 DEF IInv, TodoApart
    <2> QED
      BY <1>1, <2>1, <2>2, <2>3
  <1>4. ASSUME NEW i \in DOMAIN rest, NEW j \in DOMAIN rest, i # j
        PROVE  Apart(rest[i], rest[j])
    <2>1. i + 1 # j + 1
      BY <1>1, <1>4
    <2> QED
      BY <1>1, <2>1 DEF IInv, TodoApart
  <1>5. ASSUME NEW x
        PROVE  Pending(x) <=> r \in Path(x) \/ \E i \in DOMAIN rest : rest[i] \in Path(x)
    BY <1>1, <1>2 DEF Pending
  <1> QED
    BY <1>1, <1>3, <1>4, <1>5 DEF IInv, TodoReached

\* A route that is dropped is done with, and so are those below it.
LEMMA DroppedStep ==
  ASSUME IInv, ProcessDropped
  PROVE  IInv'
  <1> DEFINE r == Head(todo)
             rest == Tail(todo)
  <1>1. /\ IsDropped(r, event) /\ todo' = rest /\ event' = event /\ sent' = sent
        /\ todo # <<>>
    BY DEF ProcessDropped
  <1>2. /\ r \in Route /\ rest \in Seq(Route) /\ Reaches(r, event)
        /\ \A i \in DOMAIN rest : Reaches(rest[i], event) /\ Apart(r, rest[i])
        /\ \A i, j \in DOMAIN rest : i # j => Apart(rest[i], rest[j])
        /\ \A x : Pending(x) <=> r \in Path(x) \/ \E i \in DOMAIN rest : rest[i] \in Path(x)
    BY <1>1, NextCall
  <1> HIDE DEF r, rest
  <1>3. RoutingTypeOK' /\ TodoReached' /\ TodoApart'
    BY <1>1, <1>2 DEF IInv, RoutingTypeOK, TodoReached, TodoApart
  <1>4. ASSUME NEW e \in Entry
        PROVE  sent'[e] = IF Pending(e[1])' THEN 0 ELSE Expected(e, event)
    <2>1. Pending(e[1])' <=> \E i \in DOMAIN rest : rest[i] \in Path(e[1])
      BY <1>1 DEF Pending
    <2>2. CASE r \in Path(e[1])
      <3>1. sent[e] = 0
        BY <1>2, <2>2 DEF IInv, SentSoFar
      <3>2. Expected(e, event) = 0
        BY <1>1, <1>2, <2>2, NothingBelow DEF Path
      <3> QED
        BY <1>1, <3>1, <3>2
    <2>3. CASE r \notin Path(e[1])
      BY <1>1, <1>2, <2>1, <2>3 DEF IInv, SentSoFar
    <2> QED
      BY <2>2, <2>3
  <1> QED
    BY <1>1, <1>3, <1>4 DEF IInv, SentSoFar

\* A route that is processed has sent what it is to send; those below it are
\* pending with its sub-routes, or done with.
LEMMA RouteStep ==
  ASSUME IInv, ProcessRoute
  PROVE  IInv'
  <1> DEFINE r == Head(todo)
             rest == Tail(todo)
             subs == IF MatchesAll(r, event) THEN Sub[r] ELSE <<>>
  <1>1. /\ ~IsDropped(r, event) /\ todo' = subs \o rest /\ event' = event /\ todo # <<>>
        /\ sent' = [e \in Entry |-> sent[e] + IF e[1] = r /\ Sends(e, event) THEN 1 ELSE 0]
    BY DEF ProcessRoute
  <1>2. /\ r \in Route /\ rest \in Seq(Route) /\ Reaches(r, event)
        /\ \A i \in DOMAIN rest : Reaches(rest[i], event) /\ Apart(r, rest[i])
        /\ \A i, j \in DOMAIN rest : i # j => Apart(rest[i], rest[j])
        /\ \A x : Pending(x) <=> r \in Path(x) \/ \E i \in DOMAIN rest : rest[i] \in Path(x)
    BY <1>1, NextCall
  <1> HIDE DEF r, rest
  <1>3. /\ subs \in Seq(Route)
        /\ \A i \in DOMAIN subs : IsSub(r, subs[i]) /\ MatchesAll(r, event)
        /\ \A i, j \in DOMAIN subs : i # j => subs[i] # subs[j]
        /\ \A c \in Route : MatchesAll(r, event) /\ IsSub(r, c) => \E i \in DOMAIN subs : subs[i] = c
    <2>1. Sub[r] \in Seq(Route) /\ \A i \in DOMAIN Sub[r] : IsSub(r, Sub[r][i])
      BY <1>2 DEF IsSub
    <2>2. CASE MatchesAll(r, event)
      BY <1>2, <2>1, <2>2 DEF IsSub
    <2>3. CASE ~MatchesAll(r, event)
      BY <2>3
    <2> QED
      BY <2>2, <2>3
  <1> HIDE DEF subs
  <1>4. \A i \in DOMAIN subs : /\ subs[i] \in Route /\ Reaches(subs[i], event)
                               /\ \A j \in DOMAIN rest : Apart(subs[i], rest[j])
                               /\ \A j \in DOMAIN subs : i # j => Apart(subs[i], subs[j])
    <2> SUFFICES ASSUME NEW i \in DOMAIN subs
                 PROVE  /\ subs[i] \in Route /\ Reaches(subs[i], event)
                        /\ \A j \in DOMAIN rest : Apart(subs[i], rest[j])
                        /\ \A j \in DOMAIN subs : i # j => Apart(subs[i], subs[j])
      OBVIOUS
    <2>1. subs[i] \in Route
      BY <1>3
    <2>2. Reaches(subs[i], event)
      BY <1>1, <1>2, <1>3, <2>1, ReachesSub
    <2>3. \A j \in DOMAIN rest : rest[j] \in Route
      BY <1>2
    <2>4. \A j \in DOMAIN rest : Apart(subs[i], rest[j])
      BY <1>2, <1>3, <2>1, <2>3, SubsApart
    <2>5. \A j \in DOMAIN subs : i # j => Apart(subs[i], subs[j])
      BY <1>2, <1>3, <2>1, SubsApart
    <2> QED
      BY <2>1, <2>2, <2>4, <2>5
  <1>5. /\ todo' \in Seq(Route)
        /\ \A i \in DOMAIN todo' :
             \/ i \in DOMAIN subs /\ todo'[i] = subs[i]
             \/ i - Len(subs) \in DOMAIN rest /\ todo'[i] = rest[i - Len(subs)]
        /\ \A i \in DOMAIN subs : i \in DOMAIN todo' /\ todo'[i] = subs[i]
        /\ \A i \in DOMAIN rest : /\ i + Len(subs) \in DOMAIN todo'
                                  /\ todo'[i + Len(subs)] = rest[i]
        /\ Len(subs) \in Nat /\ DOMAIN todo' = 1 .. Len(todo')
    <2>1. /\ todo' \in Seq(Route) /\ Len(todo') = Len(subs) + Len(rest)
          /\ Len(subs) \in Nat /\ Len(rest) \in Nat
          /\ DOMAIN subs = 1 .. Len(subs) /\ DOMAIN rest = 1 .. Len(rest)
          /\ DOMAIN todo' = 1 .. Len(todo')
      BY <1>1, <1>2, <1>3
    <2>2. \A i \in 1 .. Len(todo') :
            todo'[i] = IF i <= Len(subs) THEN subs[i] ELSE rest[i - Len(subs)]
      BY <1>1, <1>2, <1>3, <2>1
    <2>3. ASSUME NEW i \in 1 .. Len(todo')
          PROVE  \/ i \in 1 .. Len(subs) /\ todo'[i] = subs[i]
                 \/ i - Len(subs) \in 1 .. Len(rest) /\ todo'[i] = rest[i - Len(subs)]
      <3>1. i <= Len(subs) => i \in 1 .. Len(subs)
        BY <2>1
      <3>2. ~(i <= Len(subs)) => i - Len(subs) \in 1 .. Len(rest)
        BY <2>1
      <3> QED
        BY <2>2, <3>1, <3>2
    <2>4. \A i \in 1 .. Len(subs) : i \in 1 .. Len(todo') /\ todo'[i] = subs[i]
      BY <2>1, <2>2
    <2>5. ASSUME NEW i \in 1 .. Len(rest)
          PROVE  i + Len(subs) \in 1 .. Len(todo') /\ todo'[i + Len(subs)] = rest[i]
      <3>1. i + Len(subs) \in 1 .. Len(todo') /\ ~(i + Len(subs) <= Len(subs))
            /\ i + Len(subs) - Len(subs) = i
        BY <2>1
      <3> QED
        BY <2>2, <3>1
    <2> QED
      BY <2>1, <2>3, <2>4, <2>5
  <1>6. RoutingTypeOK'
    BY <1>1, <1>5 DEF IInv, RoutingTypeOK
  <1>7. TodoReached'
    BY <1>1, <1>2, <1>4, <1>5 DEF TodoReached
  <1>8. TodoApart'
    <2> SUFFICES ASSUME NEW i \in DOMAIN todo', NEW j \in DOMAIN todo', i # j
                 PROVE  Apart(todo'[i], todo'[j])
      BY DEF TodoApart
    <2>1. \A q, s : Apart(q, s) <=> Apart(s, q)
      BY DEF Apart
    <2>2. i \in Int /\ j \in Int
      BY <1>5
    <2>3. i - Len(subs) # j - Len(subs)
      BY <1>5, <2>2
    <2>4. CASE i \in DOMAIN subs /\ todo'[i] = subs[i]
      BY <1>4, <1>5, <2>4
    <2>5. CASE i - Len(subs) \in DOMAIN rest /\ todo'[i] = rest[i - Len(subs)]
      <3>1. CASE j \in DOMAIN subs /\ todo'[j] = subs[j]
        BY <1>4, <2>1, <2>5, <3>1
      <3>2. CASE j - Len(subs) \in DOMAIN rest /\ todo'[j] = rest[j - Len(subs)]
        BY <1>2, <2>3, <2>5, <3>2
      <3> QED
        BY <1>5, <3>1, <3>2
    <2> QED
      BY <1>5, <2>4, <2>5
  <1>9. ASSUME NEW e \in Entry
        PROVE  sent'[e] = IF Pending(e[1])' THEN 0 ELSE Expected(e, event)
    <2> DEFINE x == e[1]
               restPending == \E i \in DOMAIN rest : rest[i] \in Path(x)
    <2>1. x \in Route
      BY EntryRoute
    <2>2. Pending(x)' <=> (\E i \in DOMAIN subs : subs[i] \in Path(x)) \/ restPending
      BY <1>5 DEF Pending
    <2>3. r \in Path(x) => ~restPending
      BY <1>2, <2>1, PathIsChain
    <2>4. \A i \in DOMAIN subs : subs[i] \in Path(x) => r \in Above(x)
      <3> SUFFICES ASSUME NEW i \in DOMAIN subs, subs[i] \in Path(x) PROVE r \in Above(x)
        OBVIOUS
      <3>1. IsSub(r, subs[i]) /\ subs[i] \in Route
        BY <1>3
      <3> QED
        BY <1>2, <2>1, <3>1, AboveClosed DEF Path
    <2> HIDE DEF x, restPending
    <2>5. sent[e] \in Nat /\ sent'[e] = sent[e] + IF x = r /\ Sends(e, event) THEN 1 ELSE 0
      BY <1>1 DEF IInv, RoutingTypeOK, x
    <2>6. CASE r = x
      <3>1. r \notin Above(x)
        BY <2>1, <2>6, NoCycle
      <3>2. r \in Path(x)
        BY <2>6 DEF Path
      <3>3. ~Pending(x)'
        BY <2>2, <2>3, <2>4, <3>1, <3>2
      <3>4. sent[e] = 0
        BY <1>2, <3>2 DEF IInv, SentSoFar, x
      <3>5. Expected(e, event) = IF Sends(e, event) THEN 1 ELSE 0
        BY <1>1, <1>2, <2>6 DEF Expected, x
      <3> QED
        BY <2>5, <2>6, <3>3, <3>4, <3>5 DEF x
    <2>7. CASE r \in Above(x) /\ r # x
      <3>1. r \in Path(x)
        BY <2>7 DEF Path
      <3>2. sent[e] = 0
        BY <1>2, <3>1 DEF IInv, SentSoFar, x
      <3>3. CASE MatchesAll(r, event)
        <4>1. PICK c \in Route : IsSub(r, c) /\ c \in Path(x)
          BY <2>1, <2>7, StepDown
        <4>2. Pending(x)'
          BY <1>3, <2>2, <3>3, <4>1
        <4> QED
          BY <2>5, <2>7, <3>2, <4>2 DEF x
      <3>4. CASE ~MatchesAll(r, event)
        <4>1. ~Pending(x)'
          BY <1>3, <2>2, <2>3, <3>1, <3>4
        <4>2. Expected(e, event) = 0
          BY <1>2, <2>7, <3>4, NothingBelow DEF x
        <4> QED
          BY <2>5, <2>7, <3>2, <4>1, <4>2 DEF x
      <3> QED
        BY <3>3, <3>4
    <2>8. CASE r \notin Path(x)
      <3>1. Pending(x)' <=> Pending(x)
        BY <1>2, <2>2, <2>4, <2>8 DEF Path, restPending
      <3>2. r # x
        BY <2>8 DEF Path
      <3> QED
        BY <2>5, <3>1, <3>2 DEF IInv, SentSoFar, x
    <2> QED
      BY <2>6, <2>7, <2>8 DEF Path
  <1> QED
    BY <1>1, <1>6, <1>7, <1>8, <1>9 DEF IInv, SentSoFar

\* Starting an event, dropping a route and processing one preserve the invariant
\* (route.go:14-43).
LEMMA StepIInv == IInv /\ [RoutingNext]_routingVars => IInv'
  <1> SUFFICES ASSUME IInv, [RoutingNext]_routingVars PROVE IInv'
    OBVIOUS
  <1>1. ASSUME NEW ev \in Event, OnEvent(ev) PROVE IInv'
    BY <1>1, RootFirst DEF OnEvent
  <1>2. CASE UNCHANGED routingVars
    BY <1>2 DEF routingVars, IInv, RoutingTypeOK, TodoReached, TodoApart, SentSoFar, Pending
  <1> QED
    BY <1>1, <1>2, DroppedStep, RouteStep DEF RoutingNext

\* The inductive invariant: what the stack holds and what has been sent.
THEOREM Invariance == RoutingSpec => []IInv
  BY InitIInv, StepIInv, PTL DEF RoutingSpec

\* The stack holds routes of the tree only.
THEOREM TypeCorrect == RoutingSpec => []RoutingTypeOK
  <1>1. IInv => RoutingTypeOK
    BY DEF IInv
  <1> QED
    BY <1>1, Invariance, PTL

\* A receiver gets an event only from a matching rule of a route that the
\* event comes to and that does not drop it, whatever the tree.
THEOREM RoutingSound == RoutingSpec => []SentOnlyWhenReached
  <1>1. IInv => SentOnlyWhenReached
    BY DEF IInv, SentSoFar, Expected, SentOnlyWhenReached
  <1> QED
    BY <1>1, Invariance, PTL

\* When ProcessEvent has come back from the root, every matching rule the event
\* comes to has sent it once, and no other has: nothing is left out or sent
\* twice in a tree of any depth (route.go:14-43).
THEOREM RoutingComplete == RoutingSpec => []SentToAllReached
  <1>1. IInv => SentToAllReached
    <2> SUFFICES ASSUME IInv, todo = <<>>, NEW e \in Entry
                 PROVE  sent[e] = Expected(e, event)
      BY DEF SentToAllReached, Expected
    <2>1. ~Pending(e[1])
      BY DEF Pending
    <2> QED
      BY <2>1 DEF IInv, SentSoFar
  <1> QED
    BY <1>1, Invariance, PTL

\* The engine does what the start and the routing do, each by itself: what is
\* proved of either holds of the engine that main runs (main.go:118-144,
\* engine.go:38-41).
THEOREM EngineImplements == EngineSpec => Spec /\ RoutingSpec
  <1>1. EngineInit => Init /\ RoutingInit
    BY DEF EngineInit
  <1>2. ASSUME [EngineNext]_engineVars
        PROVE  [Next]_vars /\ [RoutingNext]_routingVars
    BY <1>2, Zenon DEF EngineNext, Start, Process, engineVars
  <1> QED
    BY <1>1, <1>2, PTL DEF EngineSpec, Spec, RoutingSpec

=============================================================================
