----------------------------- MODULE Updates_proofs -----------------------------
(***************************************************************************)
(* Proofs about checking and updating all apps, for any registry, sources, *)
(* releases and configurations, and any changes while a run is under way.  *)
(*                                                                         *)
(* A run owes an answer for every app: what it has not come to yet is      *)
(* among what it still has to do, what failed is counted, and every other  *)
(* app is at what its source publishes, unless that changed since the run  *)
(* began (Accounted).  This needs that the offer a run is about to install *)
(* is the one the source makes (OfferStands), and that an app just updated *)
(* is not offered the same file again (UpdatedIsCurrent).                  *)
(***************************************************************************)
EXTENDS Updates, FiniteSetTheorems, WellFoundedInduction, TLAPS

Current(a) == row[a].owned => ~OffersUpdate(row[a], Check(row[a], release[a]))

(* Apps that a run is still to look at, or has counted as not done.        *)
Noted == run.failed \cup run.skipped \cup run.unchecked

Accounted ==
  /\ At("scan") => \A a \in AppSet \ moved :
       a \in Range(run.todo) \cup Range(run.offers) \cup run.unchecked \/ Current(a)
  /\ run.at \in {"apply", "probe", "replace"} => \A a \in AppSet \ moved :
       a \in Range(run.todo) \cup Noted \/ Current(a)
  /\ At("ended") /\ run.all /\ ~run.cancelled => \A a \in AppSet \ moved :
       a \in Noted \/ Current(a)

(* What is about to be installed was offered, by the source as it still is. *)
OfferStands ==
  run.at \in {"probe", "replace"} =>
    /\ run.todo # <<>> /\ OffersUpdate(row[Now], run.checked)
    /\ Now \notin moved => run.checked = Check(row[Now], release[Now])

(* A cancel that came early is still to be seen, or was noted.             *)
EarlyIsHeard ==
  early =>
    /\ At("ended") => run.cancelled
    /\ run.at \in {"scan", "apply"} => cancel /\ run.todo # <<>>
    /\ run.at \in {"probe", "replace"} => cancel /\ Len(run.todo) > 1

IInv == TypeOK /\ Accounted /\ OfferStands /\ EarlyIsHeard

-----------------------------------------------------------------------------
(* Every set of numbers that is not empty has a least one.                 *)
LEMMA LeastNatural ==
  ASSUME NEW T, T \subseteq Nat, T # {} PROVE \E n \in T : \A k \in T : n <= k
<1> DEFINE upTo == {1..n : n \in T}
<1>1. upTo \subseteq FiniteSubsetsOf(Nat) /\ upTo # {}
  <2>1. ASSUME NEW n \in T PROVE 1..n \in FiniteSubsetsOf(Nat)
    <3>1. n \in Int /\ 1 \in Int /\ 1..n \in SUBSET Nat
      OBVIOUS
    <3> QED
      BY <3>1, FS_Interval DEF FiniteSubsetsOf
  <2>2. PICK n \in T : TRUE
    OBVIOUS
  <2> QED
    BY <2>1, <2>2
<1>2. PICK X \in upTo : \A Y \in upTo : ~(<<Y, X>> \in StrictSubsetOrdering(Nat))
  <2> HIDE DEF upTo
  <2> QED
    BY <1>1, FS_StrictSubsetOrderingWellFounded, WFMin
<1>3. PICK n \in T : X = 1..n
  OBVIOUS
<1>4. ASSUME NEW k \in T, ~(n <= k) PROVE FALSE
  <2>1. 1..k \in SUBSET Nat /\ 1..n \in SUBSET Nat /\ 1..k \subseteq 1..n
    BY <1>4
  <2>2. n \in 1..n /\ n \notin 1..k
    BY <1>4
  <2>3. <<1..k, 1..n>> \in StrictSubsetOrdering(Nat)
    BY <2>1, <2>2 DEF StrictSubsetOrdering
  <2> QED
    BY <1>2, <1>3, <2>3
<1> QED
  BY <1>4

-----------------------------------------------------------------------------
(* Versions. *)

LEMMA NormalizedVersion ==
  ASSUME NEW v \in Version
  PROVE  /\ Normalize(v) \in Version /\ Normalize(Normalize(v)) = Normalize(v)
         /\ Normalize(v).kind = v.kind /\ Normalize(v).nums = v.nums /\ Normalize(v).tail = v.tail
  BY DEF Version, Normalize

LEMMA NormalizedIsSame ==
  ASSUME NEW v \in Version
  PROVE  /\ SplitNumeric(Normalize(v)) <=> SplitNumeric(v)
         /\ \A i \in Nat : Part(Normalize(v), i) = Part(v, i)
  BY NormalizedVersion DEF SplitNumeric, Part

LEMMA PartIsNat ==
  ASSUME NEW v \in Version, NEW i \in Nat
  PROVE  /\ Part(v, i) \in Nat /\ DOMAIN v.nums = 1..Len(v.nums) /\ Len(v.nums) \in Nat
         /\ i \notin DOMAIN v.nums => Part(v, i) = 0
<1>1. v.nums \in Seq(Nat)
  BY DEF Version
<1> QED
  BY <1>1 DEF Part

(* The comparison part by part finds what comes later in the order that    *)
(* the first unequal part decides.                                         *)
LEMMA GreaterIsNewer ==
  ASSUME NEW a \in Version, NEW b \in Version, SplitNumeric(a), SplitNumeric(b),
         Order(a, b) = "greater"
  PROVE  Newer(a, b)
<1> DEFINE width == IF Len(a.nums) > Len(b.nums) THEN Len(a.nums) ELSE Len(b.nums)
           unequal == {i \in 1..width : Part(a, i) # Part(b, i)}
           first == CHOOSE i \in unequal : \A j \in unequal : i <= j
           places == DOMAIN a.nums \cup DOMAIN b.nums
<1>1. /\ Len(a.nums) \in Nat /\ Len(b.nums) \in Nat
      /\ DOMAIN a.nums = 1..Len(a.nums) /\ DOMAIN b.nums = 1..Len(b.nums)
  BY PartIsNat
<1>2. width \in Nat /\ places = 1..width
  BY <1>1
<1>3. a.tail \in Nat /\ b.tail \in Nat
  BY DEF Version
<1>4. CASE unequal # {}
  <2>1. (IF Part(a, first) < Part(b, first) THEN "greater"
         ELSE IF Part(a, first) > Part(b, first) THEN "less" ELSE "equal") = "greater"
    BY <1>4 DEF Order
  <2>2. Part(a, first) < Part(b, first)
    BY <2>1
  <2> HIDE DEF width
  <2>3. unequal \subseteq Nat
    BY <1>2
  <2>4. \E i \in unequal : \A j \in unequal : i <= j
    BY <1>4, <2>3, LeastNatural
  <2>5. first \in unequal /\ \A j \in unequal : first <= j
    BY <2>4
  <2> HIDE DEF first
  <2>6. first \in places
    BY <1>2, <2>5
  <2>7. ASSUME NEW j \in 1..(first - 1) PROVE Part(a, j) = Part(b, j)
    <3>1. j \in 1..width /\ first \in 1..width /\ ~(first <= j)
      BY <1>2, <2>5
    <3> QED
      BY <2>5, <3>1
  <2> QED
    BY <2>2, <2>6, <2>7 DEF Newer
<1>5. CASE unequal = {}
  <2>1. \A i \in places : Part(a, i) = Part(b, i)
    <3> HIDE DEF width
    <3> QED
      BY <1>2, <1>5
  <2>2. (IF a.tail = 0 \/ b.tail = 0
         THEN IF b.tail < a.tail THEN "greater" ELSE IF b.tail > a.tail THEN "less" ELSE "equal"
         ELSE IF a.tail < b.tail THEN "greater" ELSE IF a.tail > b.tail THEN "less" ELSE "equal")
        = "greater"
    BY <1>5 DEF Order
  <2>3. a.tail # 0 /\ (b.tail = 0 \/ a.tail < b.tail)
    BY <1>3, <2>2
  <2> QED
    BY <2>1, <2>3 DEF Newer
<1> QED
  BY <1>4, <1>5

-----------------------------------------------------------------------------
(* Matching a file name. *)

(* Digits: what counts down in the first counts down in both.              *)
LEMMA CountsDown ==
  ASSUME NEW base \in Nat, NEW a \in Nat, NEW c \in Nat, NEW b \in 0..(base - 1), NEW d \in Nat,
         a < c \/ (a = c /\ b < d)
  PROVE  a * base + b \in Nat /\ a * base + b < c * base + d
<1>1. a * base \in Nat /\ c * base \in Nat
  OBVIOUS
<1>2. CASE a = c /\ b < d
  BY <1>1, <1>2
<1>3. CASE a < c
  <2>1. PICK more \in Nat : c = (a + 1) + more
    <3>1. c - (a + 1) \in Nat /\ c = (a + 1) + (c - (a + 1))
      BY <1>3
    <3> QED
      BY <3>1
  <2>2. c * base = a * base + base + more * base /\ more * base \in Nat
    BY <2>1
  <2> QED
    BY <1>1, <2>2
<1> QED
  BY <1>1, <1>2, <1>3

(* A loop that counts down computes something: a function that says of     *)
(* every state of it what the state it goes to says, or what it stops at.  *)
CountsDownTo(S, bound, left, stops, says, onto) ==
  /\ bound \in Nat /\ left \in [S -> 0..bound] /\ onto \in [S -> S]
  /\ stops \in [S -> BOOLEAN] /\ says \in [S -> BOOLEAN]
  /\ \A s \in S : ~stops[s] => left[onto[s]] < left[s]

LEMMA LoopHasAFunction ==
  ASSUME NEW S, NEW bound, NEW left, NEW stops, NEW says, NEW onto,
         CountsDownTo(S, bound, left, stops, says, onto)
  PROVE  \E f \in [S -> BOOLEAN] : \A s \in S : f[s] = IF stops[s] THEN says[s] ELSE f[onto[s]]
<1> USE DEF CountsDownTo
<1> DEFINE Upto(n) == {s \in S : left[s] < n}
           Fits(f, n) == /\ f \in [Upto(n) -> BOOLEAN]
                         /\ \A s \in Upto(n) : f[s] = IF stops[s] THEN says[s] ELSE f[onto[s]]
           Bad == {n \in Nat : ~\E f : Fits(f, n)}
<1>1. CASE Bad = {}
  <2>3. bound + 1 \in Nat /\ bound + 1 \notin Bad
    <3> HIDE DEF Bad
    <3> QED
      BY <1>1
  <2>1. PICK f : Fits(f, bound + 1)
    BY <2>3
  <2>2. Upto(bound + 1) = S
    OBVIOUS
  <2> QED
    BY <2>1, <2>2
<1>2. CASE Bad # {}
  <2>1. PICK n \in Bad : \A k \in Bad : n <= k
    <3> HIDE DEF Bad
    <3>1. Bad \subseteq Nat
      BY DEF Bad
    <3> QED
      BY <1>2, <3>1, LeastNatural
  <2>2. CASE n = 0
    <3>1. Upto(0) = {}
      OBVIOUS
    <3>2. Fits([s \in {} |-> TRUE], 0)
      BY <3>1
    <3> QED
      BY <2>1, <2>2, <3>2
  <2>3. CASE n # 0
    <3>1. n - 1 \in Nat /\ n - 1 < n
      BY <2>1, <2>3
    <3>8. n - 1 \notin Bad
      <4> HIDE DEF Bad
      <4>1. n \in Nat
        BY DEF Bad
      <4> QED
        BY <2>1, <3>1, <4>1
    <3>2. PICK g : Fits(g, n - 1)
      BY <3>1, <3>8
    <3> DEFINE h == [s \in Upto(n) |-> IF stops[s] THEN says[s] ELSE g[onto[s]]]
    <3>3. ASSUME NEW s \in Upto(n), ~stops[s]
          PROVE  onto[s] \in Upto(n - 1) /\ onto[s] \in Upto(n)
      BY <2>1, <3>1, <3>3
    <3>4. \A s \in Upto(n - 1) : s \in Upto(n) /\ h[s] = g[s] /\ g[s] \in BOOLEAN
      BY <2>1, <3>1, <3>2
    <3>5. h \in [Upto(n) -> BOOLEAN]
      BY <3>3, <3>4
    <3>6. ASSUME NEW s \in Upto(n)
          PROVE  h[s] = IF stops[s] THEN says[s] ELSE h[onto[s]]
      BY <3>3, <3>4
    <3>7. Fits(h, n)
      BY <3>5, <3>6
    <3> QED
      BY <2>1, <3>7
  <2> QED
    BY <2>2, <2>3
<1> QED
  BY <1>1, <1>2

-----------------------------------------------------------------------------
(* How far a place of the walk is from its end: its last star, the text    *)
(* that this one starts at, and the place in the text only go forward.     *)
GlobLeft(p, t, s) == ((p - s.star) * (t + 2) + (t + 1 - s.from)) * (t + 2) + (t + 1 - s.j)

LEMMA PlacesAre ==
  ASSUME NEW p \in Nat, NEW t \in Nat, NEW s \in GlobPlaces(p, t)
  PROVE  /\ s.i \in 1..(p + 1) /\ s.j \in 1..(t + 1)
         /\ s.star \in 0..p /\ s.from \in 1..(t + 1)
         /\ s.star < s.i /\ s.from <= s.j
  BY DEF GlobPlaces

LEMMA PlaceIs ==
  ASSUME NEW p \in Nat, NEW t \in Nat,
         NEW i \in 1..(p + 1), NEW j \in 1..(t + 1),
         NEW star \in 0..p, NEW from \in 1..(t + 1), star < i, from <= j
  PROVE  [i |-> i, j |-> j, star |-> star, from |-> from] \in GlobPlaces(p, t)
  BY DEF GlobPlaces

LEMMA LeftIsBounded ==
  ASSUME NEW p \in Nat, NEW t \in Nat, NEW s \in GlobPlaces(p, t)
  PROVE  GlobLeft(p, t, s) \in 0..(((p + 1) * (t + 2)) * (t + 2))
<1> DEFINE base == t + 2
           a == p - s.star
           b == t + 1 - s.from
           d == t + 1 - s.j
<1>1. /\ base \in Nat /\ a \in Nat /\ b \in 0..(base - 1) /\ d \in 0..(base - 1)
      /\ p + 1 \in Nat /\ a < p + 1
  <2>1. s.j \in 1..(t + 1) /\ s.star \in 0..p /\ s.from \in 1..(t + 1)
    BY PlacesAre
  <2> QED
    BY <2>1
<1>2. GlobLeft(p, t, s) = (a * base + b) * base + d
  BY DEF GlobLeft
<1> HIDE DEF base, a, b, d
<1>3. a * base + b \in Nat /\ a * base + b < (p + 1) * base + 0
  BY <1>1, CountsDown
<1>4. (p + 1) * base \in Nat
  BY <1>1
<1>5. a * base + b < (p + 1) * base
  BY <1>1, <1>3, <1>4
<1>6. /\ (a * base + b) * base + d \in Nat
      /\ (a * base + b) * base + d < ((p + 1) * base) * base + 0
  BY <1>1, <1>3, <1>4, <1>5, CountsDown
<1>7. ((p + 1) * base) * base \in Nat
  BY <1>1, <1>4
<1>8. (a * base + b) * base + d \in 0..(((p + 1) * base) * base)
  BY <1>6, <1>7
<1> QED
  BY <1>2, <1>8 DEF base

(* What moves the star forward, or the text it starts at, is a step to the *)
(* end of the walk.                                                        *)
LEMMA LeftGoesDown ==
  ASSUME NEW p \in Nat, NEW t \in Nat, NEW s \in GlobPlaces(p, t), NEW q \in GlobPlaces(p, t),
         \/ q.star > s.star
         \/ q.star = s.star /\ q.from > s.from
         \/ q.star = s.star /\ q.from = s.from /\ q.j > s.j
  PROVE  GlobLeft(p, t, q) < GlobLeft(p, t, s)
<1> DEFINE base == t + 2
           a == p - q.star
           b == t + 1 - q.from
           c == p - s.star
           d == t + 1 - s.from
           e == t + 1 - q.j
           g == t + 1 - s.j
<1>1. /\ q.j \in 1..(t + 1) /\ q.star \in 0..p /\ q.from \in 1..(t + 1)
      /\ s.j \in 1..(t + 1) /\ s.star \in 0..p /\ s.from \in 1..(t + 1)
  BY PlacesAre
<1>2. /\ base \in Nat /\ a \in Nat /\ c \in Nat /\ b \in 0..(base - 1) /\ d \in Nat
      /\ e \in 0..(base - 1) /\ g \in Nat
  BY <1>1
<1>3. a < c \/ (a = c /\ b < d) \/ (a = c /\ b = d /\ e < g)
  BY <1>1
<1>4. /\ GlobLeft(p, t, q) = (a * base + b) * base + e
      /\ GlobLeft(p, t, s) = (c * base + d) * base + g
  BY DEF GlobLeft
<1> HIDE DEF base, a, b, c, d, e, g
<1>5. a * base + b \in Nat /\ c * base + d \in Nat
  BY <1>2
<1>6. a * base + b < c * base + d \/ (a * base + b = c * base + d /\ e < g)
  <2>1. CASE a < c \/ (a = c /\ b < d)
    BY <1>2, <2>1, CountsDown
  <2>2. CASE a = c /\ b = d /\ e < g
    BY <2>2
  <2> QED
    BY <1>3, <2>1, <2>2
<1>7. (a * base + b) * base + e < (c * base + d) * base + g
  BY <1>2, <1>5, <1>6, CountsDown
<1> QED
  BY <1>4, <1>7

(* A turn of the loop goes on to a place of the walk, closer to its end.   *)
LEMMA TurnGoesOn ==
  ASSUME NEW pattern, NEW text, NEW p \in Nat, NEW t \in Nat, p = Len(pattern), t = Len(text),
         NEW s \in GlobPlaces(p, t), s.j <= t, ~Stuck(pattern, text, s)
  PROVE  /\ GlobTurn(pattern, text, s) \in GlobPlaces(p, t)
         /\ GlobLeft(p, t, GlobTurn(pattern, text, s)) < GlobLeft(p, t, s)
<1>1. /\ s.i \in 1..(p + 1) /\ s.j \in 1..(t + 1) /\ s.star \in 0..p /\ s.from \in 1..(t + 1)
      /\ s.star < s.i /\ s.from <= s.j
  BY PlacesAre
<1>2. s = [i |-> s.i, j |-> s.j, star |-> s.star, from |-> s.from]
  BY DEF GlobPlaces
<1> DEFINE i == s.i
           j == s.j
           star == s.star
           from == s.from
           n == GlobTurn(pattern, text, s)
<1>3. CASE Takes(pattern, text, s)
  <2>5. s.i <= p
    BY <1>3 DEF Takes, Here
  <2>1. i + 1 \in 1..(p + 1) /\ j + 1 \in 1..(t + 1) /\ star < i + 1 /\ from <= j + 1 /\ j < j + 1
    BY <1>1, <2>5
  <2>2. n = [i |-> i + 1, j |-> j + 1, star |-> star, from |-> from]
    BY <1>2, <1>3 DEF GlobTurn
  <2>3. n \in GlobPlaces(p, t)
    <3> HIDE DEF i, j, star, from, n
    <3> QED
      BY <1>1, <2>1, <2>2, PlaceIs DEF star, from
  <2>4. n.star = s.star /\ n.from = s.from /\ n.j > s.j
    BY <1>1, <2>1, <2>2
  <2> HIDE DEF n
  <2> QED
    BY <2>3, <2>4, LeftGoesDown DEF n
<1>4. CASE ~Takes(pattern, text, s) /\ Here(pattern, s, "*")
  <2>1. i + 1 \in 1..(p + 1) /\ i \in 0..p /\ i < i + 1 /\ j <= j
    BY <1>1, <1>4 DEF Here
  <2>2. n = [i |-> i + 1, j |-> j, star |-> i, from |-> j]
    BY <1>2, <1>4 DEF GlobTurn
  <2>3. n \in GlobPlaces(p, t)
    <3> HIDE DEF i, j, star, from, n
    <3> QED
      BY <1>1, <2>1, <2>2, PlaceIs DEF j
  <2>4. n.star > s.star
    BY <1>1, <2>2
  <2> HIDE DEF n
  <2> QED
    BY <2>3, <2>4, LeftGoesDown DEF n
<1>5. CASE ~Takes(pattern, text, s) /\ ~Here(pattern, s, "*")
  <2>1. /\ star + 1 \in 1..(p + 1) /\ from + 1 \in 1..(t + 1)
        /\ star < star + 1 /\ from + 1 <= from + 1
    BY <1>1
  <2>2. n = [i |-> star + 1, j |-> from + 1, star |-> star, from |-> from + 1]
    BY <1>2, <1>5 DEF GlobTurn
  <2>3. n \in GlobPlaces(p, t)
    <3> HIDE DEF i, j, from, n
    <3> QED
      BY <1>1, <2>1, <2>2, PlaceIs
  <2>4. n.star = s.star /\ n.from > s.from
    BY <1>1, <2>2
  <2> HIDE DEF n
  <2> QED
    BY <2>3, <2>4, LeftGoesDown DEF n
<1> QED
  BY <1>3, <1>4, <1>5

(* So the walk is a function with the values its definition says.          *)
LEMMA WalkUnfolds ==
  ASSUME NEW pattern, NEW text, NEW p \in Nat, NEW t \in Nat, p = Len(pattern), t = Len(text),
         NEW s \in GlobPlaces(p, t)
  PROVE  GlobWalk(pattern, text)[s] <=>
           IF s.j > t THEN \A k \in s.i..p : pattern[k] = "*"
           ELSE ~Stuck(pattern, text, s) /\ GlobWalk(pattern, text)[GlobTurn(pattern, text, s)]
<1> DEFINE S == GlobPlaces(p, t)
           Over(q) == q.j > t
           Ends(q) == \A k \in q.i..p : pattern[k] = "*"
           Lost(q) == Stuck(pattern, text, q)
           Turn(q) == GlobTurn(pattern, text, q)
           Body(f, q) == IF Over(q) THEN Ends(q) ELSE ~Lost(q) /\ f[Turn(q)]
           left == [q \in S |-> GlobLeft(p, t, q)]
           bound == ((p + 1) * (t + 2)) * (t + 2)
           stops == [q \in S |-> Over(q) \/ Lost(q)]
           says == [q \in S |-> Over(q) /\ Ends(q)]
           onto == [q \in S |-> IF Over(q) \/ Lost(q) THEN q ELSE Turn(q)]
<1>1. left \in [S -> 0..bound] /\ bound \in Nat
  BY LeftIsBounded
<1>2. stops \in [S -> BOOLEAN] /\ says \in [S -> BOOLEAN]
  OBVIOUS
<1>3. \A q \in S : ~Over(q) /\ ~Lost(q) => Turn(q) \in S /\ left[Turn(q)] < left[q]
  <2> SUFFICES ASSUME NEW q \in S, ~Over(q), ~Lost(q)
               PROVE  Turn(q) \in S /\ left[Turn(q)] < left[q]
    OBVIOUS
  <2>1. q.j <= t
    BY PlacesAre
  <2> QED
    BY <2>1, TurnGoesOn
<1>4. onto \in [S -> S] /\ \A q \in S : ~stops[q] => left[onto[q]] < left[q]
  BY <1>3
<1>5. PICK f \in [S -> BOOLEAN] : \A q \in S : f[q] = IF stops[q] THEN says[q] ELSE f[onto[q]]
  <2> HIDE DEF S, left, bound, stops, says, onto
  <2>1. CountsDownTo(S, bound, left, stops, says, onto)
    BY <1>1, <1>2, <1>4 DEF CountsDownTo
  <2> QED
    BY <2>1, LoopHasAFunction
<1>6. f = [q \in S |-> Body(f, q)]
  BY <1>3, <1>5
<1>7. GlobWalk(pattern, text) = CHOOSE g : g = [q \in S |-> Body(g, q)]
  BY DEF GlobWalk
<1> HIDE DEF Body, S
<1>8. GlobWalk(pattern, text) = [q \in S |-> Body(GlobWalk(pattern, text), q)]
  BY <1>6, <1>7
<1>9. GlobWalk(pattern, text)[s] = Body(GlobWalk(pattern, text), s)
  BY <1>8 DEF S
<1> QED
  BY <1>9 DEF Body

-----------------------------------------------------------------------------
(* From place i of the pattern on it means the text from place j on.       *)
FitsFrom(pattern, text, p, t, i, j) ==
  \E cut \in [0..p -> 0..t] :
    /\ cut[i - 1] = j - 1 /\ cut[p] = t
    /\ \A k \in i..p :
         \/ pattern[k] = "*" /\ cut[k] >= cut[k - 1]
         \/ cut[k] = cut[k - 1] + 1 /\ pattern[k] \in {"?", text[cut[k]]}

LEMMA FitsEnd ==
  ASSUME NEW pattern, NEW text, NEW p \in Nat, NEW t \in Nat, NEW j \in 1..(t + 1)
  PROVE  FitsFrom(pattern, text, p, t, p + 1, j) <=> j = t + 1
<1>1. ASSUME FitsFrom(pattern, text, p, t, p + 1, j) PROVE j = t + 1
  <2>1. PICK cut \in [0..p -> 0..t] : cut[(p + 1) - 1] = j - 1 /\ cut[p] = t
    BY <1>1 DEF FitsFrom
  <2> QED
    BY <2>1
<1>2. ASSUME j = t + 1 PROVE FitsFrom(pattern, text, p, t, p + 1, j)
  <2> DEFINE cut == [k \in 0..p |-> t]
  <2>1. cut \in [0..p -> 0..t] /\ cut[(p + 1) - 1] = j - 1 /\ cut[p] = t /\ (p + 1)..p = {}
    BY <1>2
  <2> QED
    BY <2>1 DEF FitsFrom
<1> QED
  BY <1>1, <1>2

(* A letter or a question mark takes one of the text.                      *)
LEMMA FitsLetter ==
  ASSUME NEW pattern, NEW text, NEW p \in Nat, NEW t \in Nat,
         NEW i \in 1..p, NEW j \in 1..(t + 1), pattern[i] # "*"
  PROVE  FitsFrom(pattern, text, p, t, i, j) <=>
         /\ j <= t /\ pattern[i] \in {"?", text[j]}
         /\ FitsFrom(pattern, text, p, t, i + 1, j + 1)
<1> DEFINE Piece(cut, k) ==
             \/ pattern[k] = "*" /\ cut[k] >= cut[k - 1]
             \/ cut[k] = cut[k - 1] + 1 /\ pattern[k] \in {"?", text[cut[k]]}
<1>1. ASSUME FitsFrom(pattern, text, p, t, i, j)
      PROVE  /\ j <= t /\ pattern[i] \in {"?", text[j]}
             /\ FitsFrom(pattern, text, p, t, i + 1, j + 1)
  <2>1. PICK cut \in [0..p -> 0..t] :
               cut[i - 1] = j - 1 /\ cut[p] = t /\ \A k \in i..p : Piece(cut, k)
    BY <1>1 DEF FitsFrom
  <2>2. Piece(cut, i)
    BY <2>1
  <2>3. cut[i] = j /\ pattern[i] \in {"?", text[j]}
    BY <2>1, <2>2
  <2>4. cut[i] \in 0..t
    OBVIOUS
  <2>5. cut[(i + 1) - 1] = (j + 1) - 1
    BY <2>3
  <2>6. \A k \in (i + 1)..p : Piece(cut, k)
    <3> HIDE DEF Piece
    <3> QED
      BY <2>1
  <2>7. FitsFrom(pattern, text, p, t, i + 1, j + 1)
    BY <2>1, <2>5, <2>6 DEF FitsFrom
  <2> QED
    BY <2>3, <2>4, <2>7
<1>2. ASSUME j <= t, pattern[i] \in {"?", text[j]},
             FitsFrom(pattern, text, p, t, i + 1, j + 1)
      PROVE  FitsFrom(pattern, text, p, t, i, j)
  <2>1. PICK old \in [0..p -> 0..t] :
               old[(i + 1) - 1] = (j + 1) - 1 /\ old[p] = t /\ \A k \in (i + 1)..p : Piece(old, k)
    BY <1>2 DEF FitsFrom
  <2> DEFINE cut == [old EXCEPT ![i - 1] = j - 1]
  <2>2. i - 1 \in 0..p /\ j - 1 \in 0..t /\ i - 1 # p /\ old[i] = j
    BY <2>1
  <2>3. cut \in [0..p -> 0..t] /\ cut[i - 1] = j - 1 /\ cut[p] = t
    BY <2>1, <2>2
  <2>4. \A k \in i..p : cut[k] = old[k]
    BY <2>2
  <2>5. \A k \in (i + 1)..p : cut[k - 1] = old[k - 1]
    BY <2>2
  <2>6. Piece(cut, i)
    BY <1>2, <2>2, <2>3, <2>4
  <2>7. ASSUME NEW k \in i..p PROVE Piece(cut, k)
    <3>1. CASE k = i
      BY <2>6, <3>1
    <3>2. CASE k \in (i + 1)..p
      <4>1. Piece(old, k) /\ cut[k] = old[k] /\ cut[k - 1] = old[k - 1]
        BY <2>1, <2>4, <2>5, <3>2
      <4> HIDE DEF cut
      <4> QED
        BY <4>1
    <3> QED
      BY <3>1, <3>2
  <2> HIDE DEF cut
  <2> QED
    BY <2>3, <2>7 DEF FitsFrom
<1> QED
  BY <1>1, <1>2

(* A star takes as much of the text as there is, or nothing.               *)
LEMMA FitsStar ==
  ASSUME NEW pattern, NEW text, NEW p \in Nat, NEW t \in Nat,
         NEW i \in 1..p, NEW j \in 1..(t + 1), pattern[i] = "*"
  PROVE  FitsFrom(pattern, text, p, t, i, j) <=>
         \E k \in j..(t + 1) : FitsFrom(pattern, text, p, t, i + 1, k)
<1> DEFINE Piece(cut, k) ==
             \/ pattern[k] = "*" /\ cut[k] >= cut[k - 1]
             \/ cut[k] = cut[k - 1] + 1 /\ pattern[k] \in {"?", text[cut[k]]}
<1>1. ASSUME FitsFrom(pattern, text, p, t, i, j)
      PROVE  \E k \in j..(t + 1) : FitsFrom(pattern, text, p, t, i + 1, k)
  <2>1. PICK cut \in [0..p -> 0..t] :
               cut[i - 1] = j - 1 /\ cut[p] = t /\ \A k \in i..p : Piece(cut, k)
    BY <1>1 DEF FitsFrom
  <2>2. Piece(cut, i)
    BY <2>1
  <2>3. cut[i] \in 0..t /\ cut[i] >= j - 1
    BY <2>1, <2>2
  <2>4. cut[i] + 1 \in j..(t + 1) /\ cut[(i + 1) - 1] = (cut[i] + 1) - 1
    BY <2>3
  <2>5. \A k \in (i + 1)..p : Piece(cut, k)
    <3> HIDE DEF Piece
    <3> QED
      BY <2>1
  <2>6. FitsFrom(pattern, text, p, t, i + 1, cut[i] + 1)
    BY <2>1, <2>4, <2>5 DEF FitsFrom
  <2> QED
    BY <2>4, <2>6
<1>2. ASSUME NEW m \in j..(t + 1), FitsFrom(pattern, text, p, t, i + 1, m)
      PROVE  FitsFrom(pattern, text, p, t, i, j)
  <2>1. PICK old \in [0..p -> 0..t] :
               old[(i + 1) - 1] = m - 1 /\ old[p] = t /\ \A k \in (i + 1)..p : Piece(old, k)
    BY <1>2 DEF FitsFrom
  <2> DEFINE cut == [old EXCEPT ![i - 1] = j - 1]
  <2>2. i - 1 \in 0..p /\ j - 1 \in 0..t /\ i - 1 # p /\ old[i] = m - 1 /\ m - 1 >= j - 1
    BY <2>1
  <2>3. cut \in [0..p -> 0..t] /\ cut[i - 1] = j - 1 /\ cut[p] = t
    BY <2>1, <2>2
  <2>4. \A k \in i..p : cut[k] = old[k]
    BY <2>2
  <2>5. \A k \in (i + 1)..p : cut[k - 1] = old[k - 1]
    BY <2>2
  <2>6. Piece(cut, i)
    BY <2>2, <2>3, <2>4
  <2>7. ASSUME NEW k \in i..p PROVE Piece(cut, k)
    <3>1. CASE k = i
      BY <2>6, <3>1
    <3>2. CASE k \in (i + 1)..p
      <4>1. Piece(old, k) /\ cut[k] = old[k] /\ cut[k - 1] = old[k - 1]
        BY <2>1, <2>4, <2>5, <3>2
      <4> HIDE DEF cut
      <4> QED
        BY <4>1
    <3> QED
      BY <3>1, <3>2
  <2> HIDE DEF cut
  <2> QED
    BY <2>3, <2>7 DEF FitsFrom
<1> QED
  BY <1>1, <1>2

(* At the end of the text only stars are left to mean nothing.             *)
LEMMA FitsNothing ==
  ASSUME NEW pattern, NEW text, NEW p \in Nat, NEW t \in Nat, NEW i \in 1..(p + 1)
  PROVE  FitsFrom(pattern, text, p, t, i, t + 1) <=> \A k \in i..p : pattern[k] = "*"
<1> DEFINE Piece(cut, k) ==
             \/ pattern[k] = "*" /\ cut[k] >= cut[k - 1]
             \/ cut[k] = cut[k - 1] + 1 /\ pattern[k] \in {"?", text[cut[k]]}
<1>1. ASSUME \A k \in i..p : pattern[k] = "*" PROVE FitsFrom(pattern, text, p, t, i, t + 1)
  <2> DEFINE cut == [k \in 0..p |-> t]
  <2>1. cut \in [0..p -> 0..t] /\ cut[i - 1] = (t + 1) - 1 /\ cut[p] = t
    OBVIOUS
  <2>2. \A k \in i..p : Piece(cut, k)
    BY <1>1
  <2> HIDE DEF cut
  <2> QED
    BY <2>1, <2>2 DEF FitsFrom
<1>2. ASSUME FitsFrom(pattern, text, p, t, i, t + 1) PROVE \A k \in i..p : pattern[k] = "*"
  <2>1. PICK cut \in [0..p -> 0..t] :
               cut[i - 1] = (t + 1) - 1 /\ cut[p] = t /\ \A k \in i..p : Piece(cut, k)
    BY <1>2 DEF FitsFrom
  <2> DEFINE T == {k \in i..p : cut[k] # t}
  <2>2. ASSUME T # {} PROVE FALSE
    <3>1. T \subseteq Nat
      OBVIOUS
    <3>2. PICK n \in T : \A k \in T : n <= k
      <4> HIDE DEF T
      <4> QED
        BY <2>2, <3>1, LeastNatural
    <3>3. n - 1 \notin T /\ n - 1 \in (i - 1)..p /\ n \in i..p
      BY <3>2
    <3>4. cut[n - 1] = t
      <4>1. CASE n = i
        BY <2>1, <4>1
      <4>2. CASE n # i
        BY <3>3, <4>2
      <4> QED
        BY <4>1, <4>2
    <3>5. Piece(cut, n) /\ cut[n] \in 0..t
      BY <2>1, <3>3
    <3>6. cut[n] = t
      BY <3>4, <3>5
    <3> QED
      BY <3>2, <3>6
  <2>3. ASSUME NEW k \in i..p PROVE pattern[k] = "*"
    <3>1. cut[k] = t
      BY <2>2
    <3>2. cut[k - 1] = t
      <4>1. CASE k = i
        BY <2>1, <4>1
      <4>2. CASE k # i
        BY <2>2, <4>2
      <4> QED
        BY <4>1, <4>2
    <3>3. Piece(cut, k)
      BY <2>1
    <3> QED
      BY <3>1, <3>2, <3>3
  <2> QED
    BY <2>3
<1> QED
  BY <1>1, <1>2

(* What the walk has passed by: the text after the one its last star       *)
(* starts at can still be reached, but only further on than it is now.     *)
PassedBy(pattern, text, p, t, s) ==
  s.star # 0 /\ \E k \in (s.from + 1)..(t + 1) : FitsFrom(pattern, text, p, t, s.star + 1, k)

Ahead(pattern, text, p, t, s) ==
  \E k \in (s.j + 1)..(t + 1) : FitsFrom(pattern, text, p, t, s.i, k)

NothingLost(pattern, text, p, t, s) ==
  PassedBy(pattern, text, p, t, s) => Ahead(pattern, text, p, t, s)

CanMatch(pattern, text, p, t, s) ==
  FitsFrom(pattern, text, p, t, s.i, s.j) \/ PassedBy(pattern, text, p, t, s)

(* A turn loses no way to match, and finds none.                           *)
LEMMA TurnKeepsTheMatch ==
  ASSUME NEW pattern, NEW text, NEW p \in Nat, NEW t \in Nat, p = Len(pattern), t = Len(text),
         \A k \in 1..t : text[k] # "*",
         NEW s \in GlobPlaces(p, t), s.j <= t, ~Stuck(pattern, text, s),
         NothingLost(pattern, text, p, t, s),
         NEW n, n = GlobTurn(pattern, text, s)
  PROVE  /\ NothingLost(pattern, text, p, t, n)
         /\ CanMatch(pattern, text, p, t, s) <=> CanMatch(pattern, text, p, t, n)
<1> DEFINE Fits(i, j) == FitsFrom(pattern, text, p, t, i, j)
           Passed(star, from) == star # 0 /\ \E k \in (from + 1)..(t + 1) : Fits(star + 1, k)
           Further(i, j) == \E k \in (j + 1)..(t + 1) : Fits(i, k)
<1>1. /\ s.i \in 1..(p + 1) /\ s.j \in 1..t /\ s.star \in 0..p /\ s.from \in 1..t
      /\ s.star < s.i /\ s.from <= s.j
  BY PlacesAre
<1>2. s = [i |-> s.i, j |-> s.j, star |-> s.star, from |-> s.from]
  BY DEF GlobPlaces
<1>3. Passed(s.star, s.from) => Further(s.i, s.j)
  BY DEF NothingLost, PassedBy, Ahead
<1>4. CanMatch(pattern, text, p, t, s) <=> Fits(s.i, s.j) \/ Passed(s.star, s.from)
  BY DEF CanMatch, PassedBy
<1>5. ASSUME NEW i \in 1..(p + 1), NEW j \in 1..(t + 1), NEW star \in 0..p, NEW from \in 1..(t + 1),
             n = [i |-> i, j |-> j, star |-> star, from |-> from],
             Passed(star, from) => Further(i, j),
             Fits(s.i, s.j) \/ Passed(s.star, s.from) <=> Fits(i, j) \/ Passed(star, from)
      PROVE  /\ NothingLost(pattern, text, p, t, n)
             /\ CanMatch(pattern, text, p, t, s) <=> CanMatch(pattern, text, p, t, n)
  <2>1. n.i = i /\ n.j = j /\ n.star = star /\ n.from = from
    BY <1>5
  <2>2. NothingLost(pattern, text, p, t, n)
    BY <1>5, <2>1 DEF NothingLost, PassedBy, Ahead
  <2>3. CanMatch(pattern, text, p, t, n) <=> Fits(i, j) \/ Passed(star, from)
    BY <2>1 DEF CanMatch, PassedBy
  <2> QED
    BY <1>4, <1>5, <2>2, <2>3
<1>6. ASSUME s.i <= p, pattern[s.i] # "*", NEW j \in 1..(t + 1)
      PROVE  Fits(s.i, j) <=> j <= t /\ pattern[s.i] \in {"?", text[j]} /\ Fits(s.i + 1, j + 1)
  <2>1. s.i \in 1..p
    BY <1>1, <1>6
  <2> QED
    BY <1>6, <2>1, FitsLetter
<1>7. CASE Takes(pattern, text, s)
  <2>1. s.i <= p /\ pattern[s.i] \in {"?", text[s.j]}
    BY <1>7 DEF Takes, Here
  <2>2. pattern[s.i] # "*"
    BY <1>1, <2>1
  <2>3. n = [i |-> s.i + 1, j |-> s.j + 1, star |-> s.star, from |-> s.from]
    BY <1>2, <1>7 DEF GlobTurn
  <2>4. s.i + 1 \in 1..(p + 1) /\ s.j + 1 \in 1..(t + 1) /\ s.from \in 1..(t + 1)
    BY <1>1, <2>1
  <2>5. Fits(s.i, s.j) <=> Fits(s.i + 1, s.j + 1)
    <3>1. s.j <= t /\ s.j \in 1..(t + 1)
      BY <1>1
    <3> HIDE DEF Fits
    <3> QED
      BY <1>6, <2>1, <2>2, <3>1
  <2>6. ASSUME Further(s.i, s.j) PROVE Further(s.i + 1, s.j + 1)
    <3> HIDE DEF Fits
    <3>1. PICK k \in (s.j + 1)..(t + 1) : Fits(s.i, k)
      BY <2>6
    <3>2. k \in 1..(t + 1)
      BY <1>1
    <3>3. k <= t /\ Fits(s.i + 1, k + 1)
      BY <1>6, <2>1, <2>2, <3>1, <3>2
    <3>4. k + 1 \in ((s.j + 1) + 1)..(t + 1)
      BY <1>1, <3>3
    <3> QED
      BY <3>3, <3>4
  <2> HIDE DEF Fits, Passed, Further
  <2> QED
    BY <1>1, <1>3, <1>5, <2>3, <2>4, <2>5, <2>6
<1>8. CASE ~Takes(pattern, text, s) /\ Here(pattern, s, "*")
  <2>1. s.i \in 1..p /\ pattern[s.i] = "*"
    BY <1>1, <1>8 DEF Here
  <2>2. n = [i |-> s.i + 1, j |-> s.j, star |-> s.i, from |-> s.j]
    BY <1>2, <1>8 DEF GlobTurn
  <2>3. s.i + 1 \in 1..(p + 1) /\ s.j \in 1..(t + 1) /\ s.i \in 0..p /\ s.i # 0
    BY <1>1, <2>1
  <2>4. \A j \in 1..(t + 1) : Fits(s.i, j) <=> \E k \in j..(t + 1) : Fits(s.i + 1, k)
    BY <2>1, FitsStar
  <2> HIDE DEF Fits
  <2>5. Fits(s.i, s.j) <=> Fits(s.i + 1, s.j) \/ Further(s.i + 1, s.j)
    <3>1. \A k : k \in s.j..(t + 1) <=> k = s.j \/ k \in (s.j + 1)..(t + 1)
      BY <2>3
    <3> QED
      BY <2>3, <2>4, <3>1
  <2>6. ASSUME Further(s.i, s.j) PROVE Further(s.i + 1, s.j)
    <3>1. PICK k \in (s.j + 1)..(t + 1) : Fits(s.i, k)
      BY <2>6
    <3>2. k \in 1..(t + 1)
      BY <2>3
    <3>3. PICK m \in k..(t + 1) : Fits(s.i + 1, m)
      BY <2>4, <3>1, <3>2
    <3>4. m \in (s.j + 1)..(t + 1)
      BY <2>3
    <3> QED
      BY <3>3, <3>4
  <2>7. Passed(s.i, s.j) <=> Further(s.i + 1, s.j)
    BY <2>3
  <2> HIDE DEF Passed, Further
  <2> QED
    BY <1>3, <1>5, <2>2, <2>3, <2>5, <2>6, <2>7
<1>9. CASE ~Takes(pattern, text, s) /\ ~Here(pattern, s, "*")
  <2>1. s.star # 0
    BY <1>9 DEF Stuck
  <2>2. n = [i |-> s.star + 1, j |-> s.from + 1, star |-> s.star, from |-> s.from + 1]
    BY <1>2, <1>9 DEF GlobTurn
  <2>3. /\ s.star + 1 \in 1..(p + 1) /\ s.from + 1 \in 1..(t + 1)
        /\ s.j \in 1..(t + 1) /\ s.j # t + 1
    BY <1>1
  <2>4. ~Fits(s.i, s.j)
    <3>1. CASE s.i = p + 1
      BY <2>3, <3>1, FitsEnd
    <3>2. CASE s.i <= p
      <4>1. pattern[s.i] # "*" /\ pattern[s.i] \notin {"?", text[s.j]}
        BY <1>9, <3>2 DEF Takes, Here
      <4> HIDE DEF Fits
      <4> QED
        BY <1>6, <2>3, <3>2, <4>1
    <3> QED
      BY <1>1, <3>1, <3>2
  <2> HIDE DEF Fits
  <2>5. Passed(s.star, s.from) <=>
        Fits(s.star + 1, s.from + 1) \/ Passed(s.star, s.from + 1)
    <3>1. \A k : k \in (s.from + 1)..(t + 1) <=>
                 k = s.from + 1 \/ k \in ((s.from + 1) + 1)..(t + 1)
      BY <2>3
    <3> QED
      BY <2>1, <3>1
  <2>6. Passed(s.star, s.from + 1) => Further(s.star + 1, s.from + 1)
    OBVIOUS
  <2> HIDE DEF Passed, Further
  <2> QED
    BY <1>1, <1>5, <2>2, <2>3, <2>4, <2>5, <2>6
<1> QED
  BY <1>7, <1>8, <1>9

(* The walk finds a match exactly when there is one.                       *)
LEMMA WalkMeans ==
  ASSUME NEW pattern, NEW text, NEW p \in Nat, NEW t \in Nat, p = Len(pattern), t = Len(text),
         \A k \in 1..t : text[k] # "*",
         NEW s \in GlobPlaces(p, t), NothingLost(pattern, text, p, t, s)
  PROVE  GlobWalk(pattern, text)[s] <=> CanMatch(pattern, text, p, t, s)
<1> DEFINE walk == GlobWalk(pattern, text)
           Lost(q) == ~NothingLost(pattern, text, p, t, q)
           Can(q) == CanMatch(pattern, text, p, t, q)
           left(q) == GlobLeft(p, t, q)
           Wrong == {q \in GlobPlaces(p, t) : ~Lost(q) /\ ~(walk[q] <=> Can(q))}
           T == {left(q) : q \in Wrong}
<1>1. CASE T = {}
  <2>1. Wrong = {}
    <3> HIDE DEF Wrong, left
    <3> QED
      BY <1>1
  <2> HIDE DEF walk, Lost, Can
  <2> QED
    BY <2>1 DEF Lost, walk, Can
<1>2. CASE T # {}
  <2>1. T \subseteq Nat
    BY LeftIsBounded
  <2>2. PICK least \in T : \A k \in T : least <= k
    <3> HIDE DEF T
    <3> QED
      BY <1>2, <2>1, LeastNatural
  <2>3. PICK q \in Wrong : least = left(q)
    <3> HIDE DEF left, Wrong
    <3> QED
      BY <2>2
  <2>4. q \in GlobPlaces(p, t) /\ ~Lost(q) /\ ~(walk[q] <=> Can(q))
    <3> HIDE DEF walk, Lost, Can
    <3> QED
      BY <2>3
  <2>5. q.i \in 1..(p + 1) /\ q.j \in 1..(t + 1)
    BY <2>4, PlacesAre
  <2>6. CASE q.j > t
    <3>1. q.j = t + 1
      BY <2>5, <2>6
    <3>2. walk[q] <=> \A k \in q.i..p : pattern[k] = "*"
      BY <2>4, <2>6, WalkUnfolds
    <3>3. ~PassedBy(pattern, text, p, t, q)
      BY <2>4, <3>1 DEF NothingLost, Ahead
    <3>4. Can(q) <=> FitsFrom(pattern, text, p, t, q.i, t + 1)
      BY <3>1, <3>3 DEF CanMatch
    <3> HIDE DEF walk, Can
    <3> QED
      BY <2>4, <2>5, <3>2, <3>4, FitsNothing
  <2>7. CASE q.j <= t /\ Stuck(pattern, text, q)
    <3>1. ~walk[q]
      BY <2>4, <2>5, <2>7, WalkUnfolds
    <3>2. ~PassedBy(pattern, text, p, t, q)
      BY <2>7 DEF Stuck, PassedBy
    <3>3. ~FitsFrom(pattern, text, p, t, q.i, q.j)
      <4>1. CASE q.i = p + 1
        BY <2>5, <2>7, <4>1, FitsEnd
      <4>2. CASE q.i <= p
        <5>1. q.i \in 1..p /\ pattern[q.i] # "*" /\ pattern[q.i] \notin {"?", text[q.j]}
          BY <2>5, <2>7, <4>2 DEF Stuck, Takes, Here
        <5> QED
          BY <2>5, <5>1, FitsLetter
      <4> QED
        BY <2>5, <4>1, <4>2
    <3> QED
      BY <2>4, <3>1, <3>2, <3>3 DEF CanMatch
  <2>8. CASE q.j <= t /\ ~Stuck(pattern, text, q)
    <3> DEFINE n == GlobTurn(pattern, text, q)
    <3>1. n \in GlobPlaces(p, t) /\ left(n) < left(q)
      BY <2>4, <2>8, TurnGoesOn
    <3>2. ~Lost(n) /\ (Can(q) <=> Can(n))
      <4> HIDE DEF n
      <4>1. n = GlobTurn(pattern, text, q)
        BY DEF n
      <4> QED
        BY <2>4, <2>8, <4>1, TurnKeepsTheMatch
    <3>3. walk[q] <=> walk[n]
      <4>1. ~(q.j > t)
        BY <2>5, <2>8
      <4> QED
        BY <2>4, <2>8, <4>1, WalkUnfolds
    <3> HIDE DEF walk, Lost, Can, n
    <3>4. n \in Wrong
      BY <2>4, <3>1, <3>2, <3>3
    <3>5. left(n) \in T
      <4> HIDE DEF Wrong, left
      <4> QED
        BY <3>4
    <3>6. least <= left(n) /\ left(n) < least
      <4> HIDE DEF T, left
      <4> QED
        BY <2>2, <2>3, <3>1, <3>5
    <3>7. least \in Nat /\ left(n) \in Nat
      <4> HIDE DEF T, left
      <4> QED
        BY <2>1, <2>2, <3>5
    <3> HIDE DEF left
    <3> QED
      BY <3>6, <3>7
  <2> QED
    BY <2>5, <2>6, <2>7, <2>8
<1> QED
  BY <1>1, <1>2

(* `glob_match` finds what the pattern means, in a text without a star.    *)
LEMMA GlobMatchMeans ==
  ASSUME NEW pattern \in Letters, NEW text \in Letters, "*" \notin Range(text)
  PROVE  GlobMatch(pattern, text) <=> MeansMatch(pattern, text)
<1> DEFINE p == Len(pattern)
           t == Len(text)
           start == [i |-> 1, j |-> 1, star |-> 0, from |-> 1]
<1>1. p \in Nat /\ t \in Nat /\ DOMAIN pattern = 1..p /\ \A k \in 1..t : text[k] # "*"
  BY DEF Letters, Range
<1>2. start.i = 1 /\ start.j = 1 /\ start.star = 0 /\ start.from = 1
  OBVIOUS
<1>3. MeansMatch(pattern, text) <=> FitsFrom(pattern, text, p, t, 1, 1)
  BY <1>1 DEF MeansMatch, FitsFrom
<1>4. GlobMatch(pattern, text) <=> GlobWalk(pattern, text)[start]
  BY DEF GlobMatch
<1>5. ~PassedBy(pattern, text, p, t, start)
  BY <1>2 DEF PassedBy
<1> HIDE DEF start
<1>6. start \in GlobPlaces(p, t)
  <2> HIDE DEF p, t
  <2>1. 1 \in 1..(p + 1) /\ 1 \in 1..(t + 1) /\ 0 \in 0..p /\ 0 < 1 /\ 1 <= 1
    BY <1>1
  <2> QED
    BY <1>1, <2>1, PlaceIs DEF start
<1>7. NothingLost(pattern, text, p, t, start)
  BY <1>5 DEF NothingLost
<1>8. CanMatch(pattern, text, p, t, start) <=> FitsFrom(pattern, text, p, t, 1, 1)
  BY <1>2, <1>5 DEF CanMatch
<1>9. GlobWalk(pattern, text)[start] <=> CanMatch(pattern, text, p, t, start)
  BY <1>1, <1>6, <1>7, WalkMeans
<1> QED
  BY <1>8, <1>3, <1>4, <1>9

(* A pattern of letters alone means its own name.                          *)
LEMMA LettersMeanThemselves ==
  ASSUME NEW pattern \in Letters, NEW name \in Letters,
         \A i \in DOMAIN pattern : pattern[i] \notin {"*", "?"}
  PROVE  MeansMatch(pattern, name) <=> name = pattern
<1> DEFINE p == Len(pattern)
           t == Len(name)
<1>1. /\ p \in Nat /\ t \in Nat /\ DOMAIN pattern = 1..p
      /\ name \in Seq(Word) /\ pattern \in Seq(Word)
  BY DEF Letters
<1>2. ASSUME MeansMatch(pattern, name) PROVE name = pattern
  <2>1. PICK cut \in [0..p -> 0..t] :
          /\ cut[0] = 0 /\ cut[p] = t
          /\ \A i \in 1..p : cut[i] = cut[i - 1] + 1 /\ pattern[i] \in {"?", name[cut[i]]}
    BY <1>1, <1>2 DEF MeansMatch
  <2> DEFINE T == {k \in 1..p : cut[k] # k}
  <2>2. ASSUME T # {} PROVE FALSE
    <3>1. T \subseteq Nat
      OBVIOUS
    <3>2. PICK n \in T : \A k \in T : n <= k
      <4> HIDE DEF T
      <4> QED
        BY <2>2, <3>1, LeastNatural
    <3>3. n \in 1..p /\ n - 1 \notin T
      BY <1>1, <3>2
    <3>4. cut[n - 1] = n - 1
      BY <1>1, <2>1, <3>3
    <3>5. cut[n] = n
      BY <1>1, <2>1, <3>3, <3>4
    <3> QED
      BY <3>2, <3>5
  <2>3. \A k \in 1..p : cut[k] = k
    BY <2>2
  <2>4. t = p
    BY <1>1, <2>1, <2>3
  <2>5. \A k \in 1..p : name[k] = pattern[k]
    BY <1>1, <2>1, <2>3
  <2> QED
    BY <1>1, <2>4, <2>5
<1>3. ASSUME name = pattern PROVE MeansMatch(pattern, name)
  <2> DEFINE cut == [k \in 0..p |-> k]
  <2>1. cut \in [0..p -> 0..t] /\ cut[0] = 0 /\ cut[p] = t
    BY <1>1, <1>3
  <2>2. \A i \in 1..p : cut[i] = cut[i - 1] + 1 /\ pattern[i] \in {"?", name[cut[i]]}
    BY <1>1, <1>3
  <2> HIDE DEF cut
  <2> QED
    BY <1>1, <2>1, <2>2 DEF MeansMatch
<1> QED
  BY <1>2, <1>3

(* `asset_matches` picks the names that the pattern means.                 *)
LEMMA AssetMatchesMeans ==
  ASSUME NEW pattern \in Letters, NEW name \in Letters, "*" \notin Range(name),
         Len(pattern) <= PatternLimit, Len(name) <= NameLimit
  PROVE  AssetMatches(name, pattern) <=> MeansMatch(pattern, name)
<1>1. CASE \E i \in DOMAIN pattern : pattern[i] \in {"*", "?"}
  BY <1>1, GlobMatchMeans DEF AssetMatches
<1>2. CASE \A i \in DOMAIN pattern : pattern[i] \notin {"*", "?"}
  BY <1>2, LettersMeanThemselves DEF AssetMatches
<1> QED
  BY <1>1, <1>2

-----------------------------------------------------------------------------
(* Sources. *)

LEMMA FirstOfIsOne ==
  ASSUME NEW S, NEW list \in Seq(S), NEW places \in SUBSET DOMAIN list, places # {}
  PROVE  \E i \in places : FirstOf(list, places) = list[i]
<1>1. DOMAIN list \subseteq Nat
  OBVIOUS
<1>2. \E i \in places : \A j \in places : i <= j
  BY <1>1, LeastNatural
<1>3. (CHOOSE i \in places : \A j \in places : i <= j) \in places
  BY <1>2
<1> QED
  BY <1>3 DEF FirstOf

LEMMA FirstOfFits ==
  ASSUME NEW S, NEW list \in Seq(S), NEW places \in SUBSET DOMAIN list, places # {}
  PROVE  FirstOf(list, places) \in S
<1>1. \A i \in DOMAIN list : list[i] \in S
  OBVIOUS
<1> QED
  BY <1>1, FirstOfIsOne

LEMMA NoConfigIsNone == NoConfig \notin Config /\ NoVersion \in Version
<1>1. \A c \in Config : "at" \in DOMAIN c
  BY DEF Config
<1>2. "at" \notin DOMAIN NoConfig
  BY DEF NoConfig
<1>3. NoVersion \in Version
  BY DEF NoVersion, Version
<1> QED
  BY <1>1, <1>2, <1>3

LEMMA NoLetters == <<>> \in Letters
<1>1. \A S : <<>> \in Seq(S)
  OBVIOUS
<1> QED
  BY <1>1, Zenon DEF Letters

LEMMA RowFields ==
  ASSUME NEW app \in Row
  PROVE  /\ app.version \in Version /\ app.sha \in Word /\ app.arch \in Word
         /\ app.config \in Config \cup {NoConfig} /\ app.fields \in Config \cup {NoConfig}
         /\ app.owned \in BOOLEAN
  BY DEF Row

LEMMA EmbeddedIsConfig ==
  ASSUME NEW manager \in STRING, NEW fields \in Config
  PROVE  ConfigFromEmbedded(manager, fields) \in Config
<1>1. PICK pattern \in Letters :
        pattern = IF manager \in {"static", "ftp"} THEN <<>> ELSE fields.pattern
  BY NoLetters DEF Config
<1>2. PICK at \in Word :
        at = IF manager = fields.manager /\ manager \in {"static", "github", "ftp"}
             THEN fields.at ELSE "none"
  BY SourcesAssumption DEF Config
<1>3. ConfigFromEmbedded(manager, fields) =
        [manager |-> manager, at |-> at, host |-> fields.host,
         control |-> fields.control, pattern |-> pattern, package |-> FALSE,
         version |-> NoVersion, local |-> FALSE, anyHost |-> FALSE]
  BY <1>1, <1>2 DEF ConfigFromEmbedded
<1>4. fields.host \in Word /\ fields.control \in BOOLEAN
  BY DEF Config
<1> QED
  BY <1>3, <1>4, NoConfigIsNone DEF Config

LEMMA EffectiveSourceIsConfig ==
  ASSUME NEW app \in Row, EffectiveSource(app) # NoConfig
  PROVE  EffectiveSource(app) \in Config
<1>1. CASE app.config # NoConfig
  BY <1>1, RowFields DEF EffectiveSource
<1>2. CASE app.config = NoConfig /\ app.fields # NoConfig
  <2>1. app.fields \in Config
    BY <1>2, RowFields
  <2>2. EffectiveSource(app) = ConfigFromEmbedded(app.fields.manager, app.fields)
    BY <1>2 DEF EffectiveSource
  <2>3. app.fields.manager \in STRING
    BY <2>1 DEF Config
  <2> QED
    BY <2>1, <2>2, <2>3, EmbeddedIsConfig
<1>3. CASE app.config = NoConfig /\ app.fields = NoConfig
  BY <1>3 DEF EffectiveSource
<1> QED
  BY <1>1, <1>2, <1>3

LEMMA PlainAsset ==
  ASSUME NEW asset \in Asset
  PROVE  /\ [asset EXCEPT !.digest = "none"] \in Asset
         /\ [asset EXCEPT !.digest = "none"].digest = "none"
<1>1. PICK none \in Word : none = "none"
  BY SourcesAssumption
<1>2. [asset EXCEPT !.digest = none] \in Asset /\ [asset EXCEPT !.digest = none].digest = none
  BY DEF Asset
<1> QED
  BY <1>1, <1>2, Zenon

LEMMA FoundIsChecked ==
  ASSUME NEW version \in Version, NEW asset \in Asset
  PROVE  Found(version, asset) \in Checked
  BY DEF Found, Checked

(* What a check answers has its type.                                      *)
LEMMA CheckIsChecked ==
  ASSUME NEW app \in Row, NEW rel \in Release
  PROVE  Check(app, rel) \in Checked
<1>1. Failed \in Checked /\ NoOffer \in Checked
  BY DEF Checked
<1>2. rel.tag \in Version /\ rel.assets \in Seq(Asset)
  BY DEF Release
<1>3. PackageFile \in Asset
  <2>1. "unsaid" \in Word /\ "forge" \in Word /\ "none" \in Word
    BY SourcesAssumption
  <2>2. ASSUME NEW name \in Letters, NEW arch \in Word, arch # "unknown", NEW host \in Word,
               NEW direct \in Word, NEW digest \in Word
        PROVE  [name |-> name, arch |-> arch, host |-> host, direct |-> direct, digest |-> digest]
                 \in Asset
    BY <2>2 DEF Asset
  <2> QED
    BY <2>1, <2>2, NoLetters, Zenon DEF PackageFile
<1> DEFINE config == EffectiveSource(app)
<1>4. CASE config = NoConfig \/ ~ValidConfig(config) \/ ~MayContact(config)
  BY <1>1, <1>4 DEF Check
<1>5. CASE ~(config = NoConfig \/ ~ValidConfig(config) \/ ~MayContact(config))
  <2>1. config \in Config /\ config.version \in Version
    BY <1>5, EffectiveSourceIsConfig DEF Config
  <2> HIDE DEF config
  <2>2. GithubCheck(config, app, rel) \in Checked
    <3> DEFINE fitting == PickForArchitecture(rel, Matching(config, rel), app.arch)
    <3>1. fitting \in SUBSET DOMAIN rel.assets
      BY DEF PickForArchitecture, Matching
    <3> HIDE DEF fitting
    <3>2. fitting # {} => FirstOf(rel.assets, fitting) \in Asset
      BY <1>2, <3>1, FirstOfFits
    <3> QED
      BY <1>1, <1>2, <3>2, FoundIsChecked DEF GithubCheck, fitting
  <2>3. GitlabCheck(config, app, rel) \in Checked
    <3> DEFINE linked == {i \in DOMAIN rel.assets : HostAllowed(config, rel.assets[i].direct)}
               named == {i \in DOMAIN rel.assets :
                           /\ config.pattern \in {<<>>, rel.assets[i].name}
                           /\ HostAllowed(config, rel.assets[i].host)}
    <3>1. linked \in SUBSET DOMAIN rel.assets /\ named \in SUBSET DOMAIN rel.assets
      OBVIOUS
    <3>2. GitlabCheck(config, app, rel) =
            IF named # {} THEN Found(rel.tag, FirstOf(rel.assets, named))
            ELSE IF linked # {}
                 THEN Found(rel.tag, [FirstOf(rel.assets, linked) EXCEPT !.digest = "none"])
            ELSE IF config.package THEN Found(NoVersion, PackageFile) ELSE Failed
      BY DEF GitlabCheck
    <3> HIDE DEF linked, named
    <3>3. /\ named # {} => FirstOf(rel.assets, named) \in Asset
          /\ linked # {} => FirstOf(rel.assets, linked) \in Asset
      BY <1>2, <3>1, FirstOfFits
    <3> QED
      BY <1>1, <1>2, <1>3, <3>2, <3>3, PlainAsset, FoundIsChecked, NoConfigIsNone
  <2>4. ForgejoCheck(config, app, rel) \in Checked
    <3>1. Matching(config, rel) \in SUBSET DOMAIN rel.assets
      BY DEF Matching
    <3>2. Matching(config, rel) # {} => FirstOf(rel.assets, Matching(config, rel)) \in Asset
      BY <1>2, <3>1, FirstOfFits
    <3> QED
      BY <1>1, <1>2, <3>2, PlainAsset, FoundIsChecked DEF ForgejoCheck
  <2>5. FileCheck(config, app, rel) \in Checked
    <3>1. rel.assets # <<>> => rel.assets[1] \in Asset
      BY <1>2
    <3> QED
      BY <1>1, <1>2, <2>1, <3>1, PlainAsset, FoundIsChecked DEF FileCheck
  <2>6. config.manager \in Managers
    BY <1>5 DEF ValidConfig
  <2>7. Check(app, rel) = CASE config.manager = "github" -> GithubCheck(config, app, rel)
                            [] config.manager = "gitlab" -> GitlabCheck(config, app, rel)
                            [] config.manager \in {"codeberg", "forgejo"} -> ForgejoCheck(config, app, rel)
                            [] config.manager \in {"static", "ftp"} -> FileCheck(config, app, rel)
    BY <1>5 DEF Check, config
  <2> QED
    BY <2>2, <2>3, <2>4, <2>5, <2>6, <2>7 DEF Managers
<1> QED
  BY <1>4, <1>5

(* The files a check may pick, and those built for the app's architecture. *)
Fit(config, app, rel) ==
  {asset \in Range(rel.assets) :
     /\ MeansMatch(config.pattern, asset.name) /\ HostAllowed(config, asset.host)
     /\ app.arch = "unknown" \/ asset.arch \in {"unsaid", app.arch}}

Own(config, app, rel) == {asset \in Fit(config, app, rel) : asset.arch = app.arch}

Picks(config, app, rel, answer) ==
  /\ answer.ok <=> Fit(config, app, rel) # {}
  /\ answer.ok /\ answer.available =>
       answer.asset \in (IF Own(config, app, rel) # {} THEN Own(config, app, rel)
                         ELSE Fit(config, app, rel))

(* A GitHub check picks a file that the pattern means, one built for the   *)
(* architecture if there is one; for an unknown one the first that fits.    *)
LEMMA GithubPicks ==
  ASSUME NEW app \in Row, NEW rel \in Release, NEW config \in Config, config.pattern # <<>>,
         Matchable(config, rel)
  PROVE  Picks(config, app, rel, GithubCheck(config, app, rel))
<1> DEFINE answer == GithubCheck(config, app, rel)
           fit == Fit(config, app, rel)
           own == Own(config, app, rel)
           list == rel.assets
           places == Matching(config, rel)
           built(arch) == {i \in places : list[i].arch = arch}
           fitting == PickForArchitecture(rel, places, app.arch)
<1>1. list \in Seq(Asset) /\ config.pattern \in Letters
  BY DEF Release, Config
<1>2. ASSUME NEW i \in DOMAIN list
      PROVE  /\ list[i] \in Range(list)
             /\ AssetMatches(list[i].name, config.pattern) <=>
                MeansMatch(config.pattern, list[i].name)
  <2>1. list[i] \in Asset /\ list[i] \in Range(list)
    BY <1>1 DEF Range
  <2>2. list[i].name \in Letters
    BY <2>1 DEF Asset
  <2>3. /\ "*" \notin Range(list[i].name) /\ Len(list[i].name) <= NameLimit
        /\ Len(config.pattern) <= PatternLimit
    BY DEF Matchable, Range
  <2> QED
    BY <1>1, <2>1, <2>2, <2>3, AssetMatchesMeans
<1>3. places = {i \in DOMAIN list : /\ MeansMatch(config.pattern, list[i].name)
                                    /\ HostAllowed(config, list[i].host)}
  BY <1>2 DEF Matching
<1>4. Range(list) = {list[i] : i \in DOMAIN list}
  BY DEF Range
<1> HIDE DEF list, places
<1>5. /\ fit = {asset \in Range(list) :
                   /\ MeansMatch(config.pattern, asset.name) /\ HostAllowed(config, asset.host)
                   /\ app.arch = "unknown" \/ asset.arch \in {"unsaid", app.arch}}
       /\ own = {asset \in fit : asset.arch = app.arch}
  BY DEF Fit, Own, list
<1> HIDE DEF fit, own
<1>6. /\ \A i \in built(app.arch) : list[i] \in own
      /\ \A i \in built("unsaid") : list[i] \in fit
  BY <1>3, <1>4, <1>5
<1>7. /\ own # {} => built(app.arch) # {}
      /\ app.arch # "unknown" /\ fit # {} => built(app.arch) # {} \/ built("unsaid") # {}
  BY <1>3, <1>4, <1>5
<1>8. fitting = IF app.arch = "unknown" THEN places
                ELSE IF built(app.arch) # {} THEN built(app.arch) ELSE built("unsaid")
  BY DEF PickForArchitecture, list
<1>9. own \subseteq fit /\ built(app.arch) \subseteq DOMAIN list /\ built("unsaid") \subseteq DOMAIN list
  BY <1>3, <1>5
<1>u. app.arch = "unknown" => /\ own = {} /\ places \subseteq DOMAIN list
                              /\ \A i \in places : list[i] \in fit
                              /\ places = {} => fit = {}
  <2>1. \A asset \in Range(list) : asset.arch # "unknown"
    <3>1. Range(list) \subseteq Asset
      BY <1>1, <1>4
    <3>2. \A asset \in Asset : asset.arch # "unknown"
      BY DEF Asset
    <3> QED
      BY <3>1, <3>2
  <2> QED
    BY <1>3, <1>4, <1>5, <2>1
<1> HIDE DEF built
<1>10. fitting \subseteq DOMAIN list /\ (fitting = {} <=> fit = {})
  <2>1. CASE app.arch = "unknown"
    BY <1>8, <1>u, <2>1
  <2>2. CASE app.arch # "unknown"
    BY <1>6, <1>7, <1>8, <1>9, <2>2
  <2> QED
    BY <2>1, <2>2
<1>11. \A i \in fitting : list[i] \in (IF own # {} THEN own ELSE fit)
  BY <1>6, <1>7, <1>8, <1>9, <1>u
<1>12. answer = IF fitting = {} THEN Failed
                ELSE IF rel.tag = NoVersion THEN NoOffer
                ELSE Found(rel.tag, FirstOf(list, fitting))
  BY DEF GithubCheck, list, places
<1> HIDE DEF fitting
<1>13. /\ answer.ok <=> fit # {}
       /\ answer.ok /\ answer.available => answer.asset \in (IF own # {} THEN own ELSE fit)
  <2>1. CASE fitting = {}
    BY <1>10, <1>12, <2>1 DEF Failed
  <2>2. CASE fitting # {}
    <3>1. PICK i \in fitting : FirstOf(list, fitting) = list[i]
      BY <1>1, <1>10, <2>2, FirstOfIsOne
    <3>2. answer = NoOffer \/ answer = Found(rel.tag, list[i])
      BY <1>12, <2>2, <3>1
    <3>3. answer.ok /\ (answer.available => answer.asset = list[i])
      BY <3>2 DEF NoOffer, Found
    <3> QED
      BY <1>10, <1>11, <2>2, <3>1, <3>3
  <2> QED
    BY <2>1, <2>2
<1> QED
  BY <1>13 DEF Picks, fit, own

-----------------------------------------------------------------------------
(* Offers. *)

LEMMA NothingIsNoOffer ==
  ASSUME NEW app PROVE ~OffersUpdate(app, Failed) /\ ~OffersUpdate(app, NoOffer)
  BY DEF OffersUpdate, Failed, NoOffer

LEMMA OfferedFields ==
  ASSUME NEW app, NEW checked \in Checked, OffersUpdate(app, checked)
  PROVE  /\ checked.version \in Version /\ checked.asset \in Asset
         /\ checked.asset.digest \in Word /\ checked # NoOffer
<1>1. checked # Failed /\ checked # NoOffer
  BY NothingIsNoOffer
<1>2. checked.version \in Version /\ checked.asset \in Asset
  BY <1>1 DEF Checked
<1> QED
  BY <1>1, <1>2 DEF Asset

LEMMA RecordedFields ==
  ASSUME NEW app \in Row, NEW checked \in Checked, OffersUpdate(app, checked)
  PROVE  LET new == Recorded(app, checked)
         IN  /\ new \in Row /\ new.version = Normalize(checked.version)
             /\ new.sha = IF checked.asset.digest = "none" THEN "unpublished"
                          ELSE checked.asset.digest
             /\ new.config = app.config /\ new.fields = app.fields /\ new.arch = app.arch
             /\ new.owned = app.owned
<1>1. PICK version \in Version : version = Normalize(checked.version)
  BY OfferedFields, NormalizedVersion
<1>2. PICK sha \in Word :
        sha = IF checked.asset.digest = "none" THEN "unpublished" ELSE checked.asset.digest
  BY OfferedFields, UpdatesAssumption
<1> DEFINE new == [app EXCEPT !.version = version, !.sha = sha]
<1>3. Recorded(app, checked) = new
  BY <1>1, <1>2 DEF Recorded
<1>4. /\ new \in Row /\ new.version = version /\ new.sha = sha
      /\ new.config = app.config /\ new.fields = app.fields /\ new.arch = app.arch
      /\ new.owned = app.owned
  BY DEF Row
<1> HIDE DEF new
<1> QED
  BY <1>1, <1>2, <1>3, <1>4

(* An app without a source gets no offer.                                  *)
LEMMA NoSourceNoOffer ==
  ASSUME NEW app, NEW rel, app.config = NoConfig, app.fields = NoConfig
  PROVE  ~OffersUpdate(app, Check(app, rel))
<1>1. EffectiveSource(app) = NoConfig
  BY DEF EffectiveSource
<1>2. Check(app, rel) = Failed
  BY <1>1 DEF Check
<1> QED
  BY <1>2, NothingIsNoOffer

(* A check looks at an app's source and architecture, and one of a plain   *)
(* file also at its version, to answer that there is nothing new.          *)
LEMMA SourceDecidesCheck ==
  ASSUME NEW app \in Row, NEW new \in Row, NEW rel \in Release,
         new.config = app.config, new.fields = app.fields, new.arch = app.arch,
         Check(app, rel) # NoOffer
  PROVE  Check(new, rel) \in {Check(app, rel), NoOffer}
<1>1. PICK config : config = EffectiveSource(app)
  OBVIOUS
<1>2. config = EffectiveSource(new)
  BY <1>1 DEF EffectiveSource
<1>3. /\ GithubCheck(config, new, rel) = GithubCheck(config, app, rel)
      /\ GitlabCheck(config, new, rel) = GitlabCheck(config, app, rel)
      /\ ForgejoCheck(config, new, rel) = ForgejoCheck(config, app, rel)
  BY Zenon DEF GithubCheck, GitlabCheck, ForgejoCheck
<1>4. FileCheck(config, app, rel) # NoOffer =>
        FileCheck(config, new, rel) \in {FileCheck(config, app, rel), NoOffer}
  BY DEF FileCheck
<1> DEFINE none == config = NoConfig \/ ~ValidConfig(config) \/ ~MayContact(config)
<1>5. CASE none
  <2>1. Check(app, rel) = Failed /\ Check(new, rel) = Failed
    BY <1>1, <1>2, <1>5 DEF Check
  <2> QED
    BY <2>1
<1>6. CASE ~none
  <2>1. config.manager \in Managers
    BY <1>6 DEF ValidConfig
  <2>2. \A x \in {app, new} :
          Check(x, rel) = CASE config.manager = "github" -> GithubCheck(config, x, rel)
                            [] config.manager = "gitlab" -> GitlabCheck(config, x, rel)
                            [] config.manager \in {"codeberg", "forgejo"} -> ForgejoCheck(config, x, rel)
                            [] config.manager \in {"static", "ftp"} -> FileCheck(config, x, rel)
    BY <1>1, <1>2, <1>6 DEF Check
  <2> HIDE DEF none
  <2> QED
    BY <1>3, <1>4, <2>1, <2>2 DEF Managers
<1> QED
  BY <1>5, <1>6

(* An app just updated is not offered what it was updated to.              *)
LEMMA UpdatedIsCurrent ==
  ASSUME NEW app \in Row, NEW rel \in Release,
         OffersUpdate(app, Check(app, rel))
  PROVE  LET new == Recorded(app, Check(app, rel))
         IN  ~OffersUpdate(new, Check(new, rel))
<1>1. PICK checked \in Checked : checked = Check(app, rel)
  BY CheckIsChecked
<1>2. PICK new \in Row : new = Recorded(app, checked)
  BY <1>1, RecordedFields
<1>3. /\ new.version = Normalize(checked.version)
      /\ new.sha = IF checked.asset.digest = "none" THEN "unpublished" ELSE checked.asset.digest
      /\ new.config = app.config /\ new.fields = app.fields /\ new.arch = app.arch
  BY <1>1, <1>2, RecordedFields
<1>4. checked.version \in Version /\ checked # NoOffer
  BY <1>1, OfferedFields
<1>5. Check(new, rel) \in {checked, NoOffer}
  BY <1>1, <1>3, <1>4, SourceDecidesCheck
<1>6. ~IsUpdate(new.version, checked.version)
  BY <1>3, <1>4, NormalizedVersion DEF IsUpdate, Same
<1>7. checked.asset.digest \in {"none", new.sha}
  BY <1>3
<1>8. ~OffersUpdate(new, checked)
  BY <1>6, <1>7 DEF OffersUpdate
<1> QED
  BY <1>1, <1>2, <1>5, <1>8, NothingIsNoOffer

(* Between versions that are numbers an offer is newer, or of the same.    *)
LEMMA OfferGoesForward ==
  ASSUME NEW from \in Version, NEW v \in Version, SplitNumeric(from), SplitNumeric(v),
         IsUpdate(from, v) \/ Same(from, v)
  PROVE  Same(from, Normalize(v)) \/ Newer(from, Normalize(v))
<1>1. Normalize(from) # NoVersion
  BY NormalizedVersion DEF SplitNumeric, NoVersion
<1>2. CASE Same(from, v)
  BY <1>2, NormalizedVersion DEF Same
<1>3. CASE ~Same(from, v)
  <2>1. Order(from, v) \in {"greater", "none"}
    BY <1>1, <1>3 DEF IsUpdate
  <2>2. Order(from, v) # "none"
    <3> DEFINE compare(a, b) == IF a < b THEN "greater" ELSE IF a > b THEN "less" ELSE "equal"
    <3>1. \A a, b : compare(a, b) # "none"
      OBVIOUS
    <3> QED
      BY <3>1 DEF Order
  <2>3. Newer(from, v)
    BY <2>1, <2>2, GreaterIsNewer
  <2>4. /\ Normalize(v).nums = v.nums /\ Normalize(v).tail = v.tail
        /\ \A i : Part(Normalize(v), i) = Part(v, i)
    BY NormalizedVersion DEF Part
  <2> QED
    BY <2>3, <2>4 DEF Newer
<1> QED
  BY <1>2, <1>3

-----------------------------------------------------------------------------
(* Steps of a run. *)

LEMMA FirstAndRest ==
  ASSUME NEW S, NEW s \in Seq(S), s # <<>>
  PROVE  /\ Head(s) \in S /\ Tail(s) \in Seq(S) /\ Range(s) \subseteq S
         /\ Range(s) \subseteq {Head(s)} \cup Range(Tail(s))
         /\ Len(s) > 1 => Tail(s) # <<>>
<1>1. Len(s) \in Nat /\ Len(s) > 0 /\ DOMAIN s = 1..Len(s) /\ Head(s) = s[1]
  OBVIOUS
<1>2. Tail(s) \in Seq(S) /\ Len(Tail(s)) = Len(s) - 1
  OBVIOUS
<1>3. DOMAIN Tail(s) = 1..(Len(s) - 1) /\ \A i \in 1..(Len(s) - 1) : Tail(s)[i] = s[i + 1]
  BY <1>1, <1>2
<1>4. ASSUME NEW i \in DOMAIN s PROVE s[i] \in {Head(s)} \cup Range(Tail(s)) /\ s[i] \in S
  <2>1. CASE i = 1
    BY <1>1, <2>1
  <2>2. CASE i # 1
    <3>1. i - 1 \in 1..(Len(s) - 1) /\ Tail(s)[i - 1] = s[(i - 1) + 1] /\ (i - 1) + 1 = i
      BY <1>1, <1>3, <2>2
    <3>2. s[i] \in Range(Tail(s))
      BY <1>3, <3>1 DEF Range
    <3> QED
      BY <3>2
  <2> QED
    BY <2>1, <2>2
<1>5. Len(s) > 1 => Tail(s) # <<>>
  <2>1. SUFFICES ASSUME Len(s) > 1, Tail(s) = <<>> PROVE FALSE
    OBVIOUS
  <2>2. 1 \in DOMAIN Tail(s)
    BY <1>1, <1>3, <2>1
  <2>3. DOMAIN <<>> = {}
    OBVIOUS
  <2> QED
    BY <2>1, <2>2, <2>3, Zenon
<1> QED
  BY <1>1, <1>2, <1>4, <1>5 DEF Range

LEMMA OneMore ==
  ASSUME NEW S, NEW s \in Seq(S), NEW x \in S
  PROVE  Append(s, x) \in Seq(S) /\ Range(s) \cup {x} \subseteq Range(Append(s, x))
<1>1. /\ Append(s, x) \in Seq(S) /\ Len(s) \in Nat /\ DOMAIN s = 1..Len(s)
      /\ DOMAIN Append(s, x) = 1..(Len(s) + 1)
      /\ \A i \in 1..Len(s) : Append(s, x)[i] = s[i]
      /\ Append(s, x)[Len(s) + 1] = x
  OBVIOUS
<1> QED
  BY <1>1 DEF Range

LEMMA RunFields ==
  ASSUME NEW r \in Run
  PROVE  /\ r.at \in {"idle", "scan", "apply", "probe", "replace", "ended"}
         /\ r.todo \in Seq(AppSet) /\ r.offers \in Seq(AppSet)
         /\ r.failed \subseteq AppSet /\ r.skipped \subseteq AppSet
         /\ r.applied \subseteq AppSet /\ r.unchecked \subseteq AppSet
         /\ r.checked \in Checked
  BY DEF Run

(* An app whose update failed has been counted.                            *)
LEMMA SortedFields ==
  ASSUME NEW a \in AppSet, NEW text, run \in Run, run.todo # <<>>
  PROVE  /\ Sorted(a, text) \in Run /\ Sorted(a, text).at = "apply" /\ Sorted(a, text).todo = Rest
         /\ Noted \cup {a} \subseteq Sorted(a, text).failed \cup Sorted(a, text).skipped
                                     \cup Sorted(a, text).unchecked
<1>1. Rest \in Seq(AppSet) /\ run.failed \cup {a} \subseteq AppSet
      /\ run.skipped \cup {a} \subseteq AppSet
  BY RunFields, FirstAndRest DEF Rest
<1>2. PICK rest \in Seq(AppSet) : rest = Rest
  BY <1>1
<1>3. PICK failed \in SUBSET AppSet : failed = run.failed \cup {a}
  BY <1>1
<1>4. PICK skipped \in SUBSET AppSet : skipped = run.skipped \cup {a}
  BY <1>1
<1> DEFINE skip == [run EXCEPT !.at = "apply", !.todo = rest, !.skipped = skipped]
           fail == [run EXCEPT !.at = "apply", !.todo = rest, !.failed = failed]
<1>5. Sorted(a, text) \in {skip, fail}
  BY <1>2, <1>3, <1>4 DEF Sorted
<1>6. /\ skip \in Run /\ skip.at = "apply" /\ skip.todo = rest /\ skip.skipped = skipped
      /\ skip.failed = run.failed /\ skip.unchecked = run.unchecked
      /\ fail \in Run /\ fail.at = "apply" /\ fail.todo = rest /\ fail.skipped = run.skipped
      /\ fail.failed = failed /\ fail.unchecked = run.unchecked
  BY DEF Run
<1> HIDE DEF skip, fail
<1> QED
  BY <1>2, <1>3, <1>4, <1>5, <1>6 DEF Noted

LEMMA RunMoves ==
  ASSUME TypeOK, run' \in Run, UNCHANGED <<cancel, row, release, running, moved, world, early, runs>>
  PROVE  TypeOK' /\ \A a : Current(a)' <=> Current(a)
  BY DEF TypeOK, Current

(* What every step that counts the app at hand as not done preserves.      *)
LEMMA CountedKeeps ==
  ASSUME IInv, NEW text, run.at \in {"apply", "probe", "replace"}, At("apply") => ~cancel,
         run.todo # <<>>, run' = Sorted(Now, text), UNCHANGED cancel, World, Left
  PROVE  IInv'
<1>1. run \in Run /\ TypeOK /\ Accounted /\ EarlyIsHeard
  BY DEF IInv, TypeOK
<1>2. /\ Now \in AppSet /\ Range(run.todo) \subseteq {Now} \cup Range(Rest)
      /\ Len(run.todo) > 1 => Rest # <<>>
  BY <1>1, RunFields, FirstAndRest DEF Now, Rest
<1>3. /\ run' \in Run /\ run'.at = "apply" /\ run'.todo = Rest
      /\ Noted \cup {Now} \subseteq Noted'
  BY <1>1, <1>2, SortedFields DEF Noted
<1>4. UNCHANGED <<cancel, row, release, running, moved, world, early, runs>>
  BY DEF World, Left
<1>5. TypeOK' /\ \A a : Current(a)' <=> Current(a)
  BY <1>1, <1>3, <1>4, RunMoves
<1>6. Accounted'
  <2>1. ASSUME NEW a \in AppSet \ moved PROVE a \in Range(run.todo) \cup Noted \/ Current(a)
    BY <1>1 DEF Accounted
  <2>2. ASSUME NEW a \in AppSet \ moved PROVE a \in Range(Rest) \cup Noted' \/ Current(a)'
    BY <1>2, <1>3, <1>5, <2>1
  <2> QED
    BY <1>3, <1>4, <2>2 DEF Accounted, At, AppSet
<1>7. OfferStands'
  BY <1>3 DEF OfferStands
<1>8. EarlyIsHeard'
  BY <1>1, <1>2, <1>3, <1>4 DEF EarlyIsHeard, At
<1> QED
  BY <1>5, <1>6, <1>7, <1>8 DEF IInv

LEMMA InitInvariant == Init => IInv
<1> SUFFICES ASSUME Init PROVE IInv
  OBVIOUS
<1>1. run = Idle /\ early = FALSE /\ cancel = FALSE /\ running = {} /\ moved = {}
      /\ runs = 0 /\ world = 0
  BY DEF Init
<1>2. Idle \in Run
  <2>1. <<>> \in Seq(AppSet) /\ Failed \in Checked
    BY DEF Checked
  <2> QED
    BY <2>1 DEF Idle, Run
<1>3. PICK fields \in [AppSet -> UNION Range(Files)], owned \in [AppSet -> BOOLEAN],
           built \in [AppSet -> UNION Range(Built)] :
        /\ \A a \in AppSet : fields[a] \in Files[a] /\ built[a] \in Built[a]
        /\ row = [a \in AppSet |-> [version |-> Number(<<1>>, 0), sha |-> "old", arch |-> built[a],
                                    config |-> NoConfig, fields |-> fields[a],
                                    owned |-> owned[a]]]
  BY DEF Init
<1>4. row \in [AppSet -> Row]
  <2>1. Number(<<1>>, 0) \in Version
    <3>1. <<1>> \in Seq(Nat)
      OBVIOUS
    <3> QED
      BY <3>1 DEF Number, Version
  <2>2. "old" \in Word
    BY UpdatesAssumption
  <2>3. ASSUME NEW a \in AppSet PROVE fields[a] \in Config \cup {NoConfig} /\ built[a] \in Word
    BY <1>3, UpdatesAssumption DEF AppSet
  <2>4. ASSUME NEW version \in Version, NEW sha \in Word, NEW arch \in Word,
               NEW f \in Config \cup {NoConfig}, NEW o \in BOOLEAN
        PROVE  [version |-> version, sha |-> sha, arch |-> arch, config |-> NoConfig,
                fields |-> f, owned |-> o] \in Row
    BY DEF Row
  <2>5. ASSUME NEW a \in AppSet
        PROVE  [version |-> Number(<<1>>, 0), sha |-> "old", arch |-> built[a],
                config |-> NoConfig, fields |-> fields[a], owned |-> owned[a]] \in Row
    <3>1. owned[a] \in BOOLEAN
      OBVIOUS
    <3> QED
      BY <2>1, <2>2, <2>3, <2>4, <3>1, Zenon
  <2> QED
    BY <1>3, <2>5, Zenon
<1>5. release \in [AppSet -> Release]
  <2>1. release \in [AppSet -> UNION Range(Releases)] /\ \A a \in AppSet : release[a] \in Releases[a]
    BY DEF Init
  <2>2. \A a \in AppSet : Releases[a] \subseteq Release
    BY UpdatesAssumption DEF AppSet
  <2> QED
    BY <2>1, <2>2
<1>6. TypeOK
  <2>1. cancel \in BOOLEAN /\ early \in BOOLEAN
    BY <1>1, Zenon
  <2>2. run \in Run /\ running \subseteq AppSet /\ moved \subseteq AppSet /\ {runs, world} \subseteq Nat
    BY <1>1, <1>2
  <2> QED
    BY <1>4, <1>5, <2>1, <2>2 DEF TypeOK
<1>7. run.at = "idle"
  BY <1>1 DEF Idle
<1> QED
  BY <1>1, <1>6, <1>7 DEF IInv, Accounted, OfferStands, EarlyIsHeard, At

(* The scan: what it has not come to is on its list, what made no offer is *)
(* as its source publishes, and what gave no answer is noted.              *)
LEMMA BeginKeeps ==
  ASSUME IInv, Begin PROVE IInv'
<1>1. PICK front \in {"window", "cli"}, all \in BOOLEAN, force \in BOOLEAN :
        run' = [Idle EXCEPT !.at = "scan", !.front = front, !.all = all, !.force = force,
                            !.todo = App]
  BY DEF Begin
<1>2. App \in Seq(AppSet) /\ App # <<>>
  BY UpdatesAssumption DEF AppSet
<1>3. run' = [at |-> "scan", front |-> front, all |-> all, force |-> force, todo |-> App,
              offers |-> <<>>, applied |-> {}, failed |-> {}, skipped |-> {}, unchecked |-> {},
              cancelled |-> FALSE, checked |-> Failed]
  BY <1>1 DEF Idle
<1>4. run' \in Run /\ run'.at = "scan" /\ run'.todo = App
  <2>1. <<>> \in Seq(AppSet) /\ Failed \in Checked
    BY DEF Checked
  <2> QED
    BY <1>2, <1>3, <2>1 DEF Run
<1>5. TypeOK'
  <2>1. cancel' \in BOOLEAN /\ early' \in BOOLEAN
    BY Zenon DEF Begin
  <2>2. /\ {runs', world'} \subseteq Nat /\ moved' \subseteq AppSet
        /\ row' \in [AppSet -> Row] /\ release' \in [AppSet -> Release] /\ running' \subseteq AppSet
    BY DEF Begin, IInv, TypeOK
  <2> QED
    BY <1>4, <2>1, <2>2 DEF TypeOK, AppSet
<1>6. Accounted'
  <2>1. \A a \in AppSet : a \in Range(run'.todo)
    BY <1>4 DEF AppSet
  <2> QED
    BY <1>4, <2>1 DEF Accounted, At, AppSet
<1> QED
  BY <1>4, <1>5, <1>6 DEF Begin, IInv, OfferStands, EarlyIsHeard

LEMMA ScanStepKeeps ==
  ASSUME IInv, ScanPasses \/ ScanOne PROVE IInv'
<1>1. /\ At("scan") /\ run.todo # <<>> /\ ~cancel
      /\ UNCHANGED <<cancel, row, release, running, moved, world, early, runs>>
  BY DEF ScanPasses, ScanOne, World, Left
<1>2. run \in Run /\ TypeOK /\ Accounted /\ EarlyIsHeard
  BY DEF IInv, TypeOK
<1>3. /\ Now \in AppSet /\ Range(run.todo) \subseteq {Now} \cup Range(Rest)
      /\ Rest \in Seq(AppSet)
  BY <1>1, <1>2, RunFields, FirstAndRest DEF Now, Rest
<1>4. /\ row[Now] \in Row /\ release[Now] \in Release
  BY <1>2, <1>3 DEF TypeOK
<1>5. PICK rest \in Seq(AppSet) : rest = Rest
  BY <1>3
<1>6. /\ run' \in Run /\ run'.at = "scan" /\ run'.todo = Rest
      /\ Range(run.offers) \cup run.unchecked \subseteq Range(run'.offers) \cup run'.unchecked
      /\ Now \in Range(run'.offers) \cup run'.unchecked \/ Current(Now)
  <2>1. CASE ScanPasses
    <3> DEFINE m == [run EXCEPT !.todo = rest]
    <3>1. run' = m
      BY <1>5, <2>1 DEF ScanPasses
    <3>2. /\ m \in Run /\ m.at = run.at /\ m.todo = rest
          /\ m.offers = run.offers /\ m.unchecked = run.unchecked
      BY <1>2 DEF Run
    <3> HIDE DEF m
    <3>3. Current(Now)
      <4>1. row[Now].config = NoConfig /\ row[Now].fields = NoConfig
        BY <2>1 DEF ScanPasses, HasSource
      <4> QED
        BY <4>1, NoSourceNoOffer DEF Current
    <3> QED
      BY <1>1, <1>5, <3>1, <3>2, <3>3 DEF At
  <2>2. CASE ScanOne
    <3>1. PICK checked \in {Check(row[Now], release[Now]), Failed} :
            run' = [run EXCEPT !.todo = Rest,
                      !.unchecked = IF checked.ok THEN @ ELSE @ \cup {Now},
                      !.offers = IF OffersUpdate(row[Now], checked) THEN Append(@, Now) ELSE @]
      BY <2>2 DEF ScanOne
    <3>2. run.offers \in Seq(AppSet) /\ run.unchecked \in SUBSET AppSet
      BY <1>2, RunFields
    <3>3. PICK unchecked \in SUBSET AppSet :
            unchecked = IF checked.ok THEN run.unchecked ELSE run.unchecked \cup {Now}
      BY <1>3, <3>2
    <3>4. PICK offers \in Seq(AppSet) :
            /\ offers = IF OffersUpdate(row[Now], checked) THEN Append(run.offers, Now) ELSE run.offers
            /\ Range(run.offers) \subseteq Range(offers)
            /\ OffersUpdate(row[Now], checked) => Now \in Range(offers)
      BY <1>3, <3>2, OneMore
    <3> DEFINE m == [run EXCEPT !.todo = rest, !.unchecked = unchecked, !.offers = offers]
    <3>5. run' = m
      BY <1>5, <3>1, <3>3, <3>4
    <3>6. m \in Run /\ m.at = run.at /\ m.todo = rest /\ m.offers = offers /\ m.unchecked = unchecked
      BY <1>2 DEF Run
    <3> HIDE DEF m
    <3>7. Now \in Range(offers) \cup unchecked \/ Current(Now)
      <4>1. CASE checked = Failed
        BY <3>3, <4>1 DEF Failed
      <4>2. CASE checked = Check(row[Now], release[Now])
        BY <3>4, <4>2 DEF Current
      <4> QED
        BY <4>1, <4>2
    <3> QED
      BY <1>1, <1>5, <3>3, <3>4, <3>5, <3>6, <3>7 DEF At
  <2> QED
    BY <2>1, <2>2
<1>7. TypeOK' /\ \A a : Current(a)' <=> Current(a)
  BY <1>1, <1>2, <1>6, RunMoves
<1>8. Accounted'
  <2>1. ASSUME NEW a \in AppSet \ moved
        PROVE  a \in Range(run.todo) \cup Range(run.offers) \cup run.unchecked \/ Current(a)
    BY <1>1, <1>2 DEF Accounted
  <2>2. ASSUME NEW a \in AppSet \ moved
        PROVE  a \in Range(run'.todo) \cup Range(run'.offers) \cup run'.unchecked \/ Current(a)'
    BY <1>3, <1>6, <1>7, <2>1
  <2> QED
    BY <1>1, <1>6, <2>2 DEF Accounted, At, AppSet
<1> QED
  BY <1>1, <1>2, <1>6, <1>7, <1>8 DEF IInv, OfferStands, EarlyIsHeard, At

LEMMA ScannedKeeps ==
  ASSUME IInv, Scanned PROVE IInv'
<1>1. /\ run \in Run /\ TypeOK /\ Accounted /\ EarlyIsHeard
      /\ run.at = "scan" /\ run.todo = <<>>
      /\ UNCHANGED <<cancel, row, release, running, moved, world, early, runs>>
  BY DEF IInv, TypeOK, Scanned, At, World, Left
<1>2. PICK at \in {"apply", "ended"} : at = IF run.all THEN "apply" ELSE "ended"
  OBVIOUS
<1>3. PICK offers \in Seq(AppSet) : offers = run.offers
  BY <1>1, RunFields
<1> DEFINE m == [run EXCEPT !.at = at, !.todo = offers]
<1>4. run' = m
  BY <1>2, <1>3 DEF Scanned
<1>5. /\ m \in Run /\ m.at = at /\ m.todo = offers /\ m.failed = run.failed
      /\ m.skipped = run.skipped /\ m.unchecked = run.unchecked
      /\ m.all = run.all
  BY <1>1 DEF Run
<1> HIDE DEF m
<1>6. TypeOK' /\ \A a : Current(a)' <=> Current(a)
  BY <1>1, <1>4, <1>5, RunMoves
<1>7. Range(run.todo) = {}
  BY <1>1 DEF Range
<1>8. Accounted'
  <2>1. ASSUME NEW a \in AppSet \ moved
        PROVE  a \in Range(offers) \cup run.unchecked \/ Current(a)'
    BY <1>1, <1>3, <1>6, <1>7 DEF Accounted, At
  <2>2. CASE run.all
    BY <1>1, <1>2, <1>4, <1>5, <2>1, <2>2 DEF Accounted, At, Noted, AppSet
  <2>3. CASE ~run.all
    <3>1. run'.at = "ended" /\ ~run'.all
      BY <1>2, <1>4, <1>5, <2>3
    <3> QED
      BY <3>1 DEF Accounted, At
  <2> QED
    BY <2>2, <2>3
<1>9. ~early'
  BY <1>1 DEF EarlyIsHeard
<1> QED
  BY <1>2, <1>4, <1>5, <1>6, <1>8, <1>9 DEF IInv, OfferStands, EarlyIsHeard

(* A cancel between two apps ends the run as one that was cancelled.       *)
LEMMA CancelledKeeps ==
  ASSUME IInv, ScanCancelled \/ ApplyCancelled PROVE IInv'
<1>1. /\ run \in Run /\ TypeOK
      /\ UNCHANGED <<cancel, row, release, running, moved, world, early, runs>>
      /\ run' = [run EXCEPT !.cancelled = TRUE, !.at = "ended"]
  BY DEF IInv, TypeOK, ScanCancelled, ApplyCancelled, World, Left
<1> DEFINE m == [run EXCEPT !.cancelled = TRUE, !.at = "ended"]
<1>2. m \in Run /\ m.at = "ended" /\ m.cancelled
  BY <1>1 DEF Run
<1> HIDE DEF m
<1>3. run' \in Run /\ run'.at = "ended" /\ run'.cancelled
  BY <1>1, <1>2 DEF m
<1>4. TypeOK'
  BY <1>1, <1>3, RunMoves
<1> QED
  BY <1>3, <1>4 DEF IInv, Accounted, OfferStands, EarlyIsHeard, At

LEMMA PassOverKeeps ==
  ASSUME IInv, PassOver PROVE IInv'
<1>1. /\ run \in Run /\ TypeOK /\ Accounted /\ EarlyIsHeard
      /\ run.at = "apply" /\ run.todo # <<>> /\ ~cancel /\ Current(Now)
      /\ UNCHANGED <<cancel, row, release, running, moved, world, early, runs>>
  BY DEF IInv, TypeOK, PassOver, At, World, Left, Current
<1>2. /\ Now \in AppSet /\ Range(run.todo) \subseteq {Now} \cup Range(Rest)
      /\ Rest \in Seq(AppSet)
  BY <1>1, RunFields, FirstAndRest DEF Now, Rest
<1>3. PICK rest \in Seq(AppSet) : rest = Rest
  BY <1>2
<1> DEFINE m == [run EXCEPT !.todo = rest]
<1>4. run' = m
  BY <1>3 DEF PassOver
<1>5. /\ m \in Run /\ m.at = run.at /\ m.todo = rest /\ m.failed = run.failed
      /\ m.skipped = run.skipped /\ m.unchecked = run.unchecked
  BY <1>1 DEF Run
<1> HIDE DEF m
<1>6. TypeOK' /\ \A a : Current(a)' <=> Current(a)
  BY <1>1, <1>4, <1>5, RunMoves
<1>7. Accounted'
  <2>1. ASSUME NEW a \in AppSet \ moved
        PROVE  a \in Range(run.todo) \cup Noted \/ Current(a)
    BY <1>1 DEF Accounted
  <2>2. Noted' = Noted
    BY <1>4, <1>5 DEF Noted
  <2>3. ASSUME NEW a \in AppSet \ moved
        PROVE  a \in Range(run'.todo) \cup Noted' \/ Current(a)'
    BY <1>1, <1>2, <1>3, <1>4, <1>5, <1>6, <2>1, <2>2
  <2> QED
    BY <1>1, <1>4, <1>5, <2>3 DEF Accounted, At, AppSet
<1> QED
  BY <1>1, <1>4, <1>5, <1>6, <1>7 DEF IInv, OfferStands, EarlyIsHeard

LEMMA ApplyCheckKeeps ==
  ASSUME IInv, ApplyCheck PROVE IInv'
<1>1. /\ run \in Run /\ TypeOK /\ Accounted /\ EarlyIsHeard
      /\ run.at = "apply" /\ run.todo # <<>> /\ ~cancel
      /\ UNCHANGED <<cancel, row, release, running, moved, world, early, runs>>
  BY DEF IInv, TypeOK, ApplyCheck, At, World, Left
<1>2. PICK checked \in {Check(row[Now], release[Now]), Failed} :
        IF OffersUpdate(row[Now], checked)
        THEN run' = [run EXCEPT !.at = "probe", !.checked = checked]
        ELSE \E text \in Text : run' = Sorted(Now, text)
  BY DEF ApplyCheck
<1>3. CASE ~OffersUpdate(row[Now], checked)
  <2>1. PICK text \in Text : run' = Sorted(Now, text)
    BY <1>2, <1>3
  <2>2. World /\ Left /\ UNCHANGED cancel
    BY DEF ApplyCheck
  <2> QED
    BY <1>1, <2>1, <2>2, CountedKeeps
<1>4. CASE OffersUpdate(row[Now], checked)
  <2>1. Now \in AppSet
    BY <1>1, RunFields, FirstAndRest DEF Now
  <2>2. checked = Check(row[Now], release[Now])
    BY <1>2, <1>4, NothingIsNoOffer
  <2>3. checked \in Checked
    <3>1. row[Now] \in Row /\ release[Now] \in Release
      BY <1>1, <2>1 DEF TypeOK
    <3> QED
      BY <2>2, <3>1, CheckIsChecked
  <2> DEFINE m == [run EXCEPT !.at = "probe", !.checked = checked]
  <2>4. run' = m
    BY <1>2, <1>4
  <2>5. /\ m \in Run /\ m.at = "probe" /\ m.todo = run.todo /\ m.failed = run.failed
        /\ m.skipped = run.skipped /\ m.unchecked = run.unchecked /\ m.checked = checked
    BY <1>1, <2>3 DEF Run
  <2> HIDE DEF m
  <2>6. TypeOK' /\ \A a : Current(a)' <=> Current(a)
    BY <1>1, <2>4, <2>5, RunMoves
  <2>7. Noted' = Noted /\ Now' = Now
    BY <2>4, <2>5 DEF Noted, Now
  <2>8. Accounted'
    <3>1. ASSUME NEW a \in AppSet \ moved
          PROVE  a \in Range(run'.todo) \cup Noted' \/ Current(a)'
      BY <1>1, <2>4, <2>5, <2>6, <2>7 DEF Accounted
    <3> QED
      BY <1>1, <2>4, <2>5, <3>1 DEF Accounted, At, AppSet
  <2>9. OfferStands'
    BY <1>1, <1>4, <2>2, <2>4, <2>5, <2>7 DEF OfferStands
  <2> QED
    BY <1>1, <2>4, <2>5, <2>6, <2>8, <2>9 DEF IInv, EarlyIsHeard
<1> QED
  BY <1>3, <1>4

LEMMA CutShortKeeps ==
  ASSUME IInv, CutShort \/ ReplaceFails PROVE IInv'
<1>1. /\ run.at \in {"probe", "replace"} /\ UNCHANGED cancel /\ World /\ Left
      /\ \E text : run' = Sorted(Now, text)
  BY DEF CutShort, ReplaceFails, At
<1>2. run.todo # <<>>
  BY <1>1 DEF IInv, OfferStands
<1>3. PICK text : run' = Sorted(Now, text)
  BY <1>1
<1> QED
  BY <1>1, <1>2, <1>3, CountedKeeps DEF At

LEMMA ProbeKeeps ==
  ASSUME IInv, Probe PROVE IInv'
<1>1. /\ run \in Run /\ TypeOK /\ Accounted /\ OfferStands /\ EarlyIsHeard
      /\ run.at = "probe" /\ run.todo # <<>> /\ ~cancel
      /\ UNCHANGED <<cancel, row, release, running, moved, world, early, runs>>
  BY DEF IInv, TypeOK, Probe, At, World, OfferStands
<1>2. CASE Now \in running /\ ~run.force
  <2>1. run' = Sorted(Now, "is running")
    BY <1>2 DEF Probe
  <2>2. World /\ Left /\ UNCHANGED cancel
    BY <1>1 DEF World, Left
  <2>3. run.at \in {"apply", "probe", "replace"} /\ (At("apply") => ~cancel)
    BY <1>1 DEF At
  <2>4. \A text : run' = Sorted(Now, text) => IInv'
    BY <1>1, <2>2, <2>3, CountedKeeps
  <2> QED
    BY <2>1, <2>4
<1>3. CASE ~(Now \in running /\ ~run.force)
  <2> DEFINE m == [run EXCEPT !.at = "replace"]
  <2>1. run' = m
    BY <1>3 DEF Probe
  <2>2. /\ m \in Run /\ m.at = "replace" /\ m.todo = run.todo /\ m.failed = run.failed
        /\ m.skipped = run.skipped /\ m.unchecked = run.unchecked /\ m.checked = run.checked
    BY <1>1 DEF Run
  <2> HIDE DEF m
  <2>3. TypeOK' /\ \A a : Current(a)' <=> Current(a)
    BY <1>1, <2>1, <2>2, RunMoves
  <2>4. Noted' = Noted /\ Now' = Now
    BY <2>1, <2>2 DEF Noted, Now
  <2>5. Accounted'
    <3>1. ASSUME NEW a \in AppSet \ moved
          PROVE  a \in Range(run'.todo) \cup Noted' \/ Current(a)'
      BY <1>1, <2>1, <2>2, <2>3, <2>4 DEF Accounted
    <3> QED
      BY <1>1, <2>1, <2>2, <3>1 DEF Accounted, At, AppSet
  <2>6. OfferStands'
    BY <1>1, <2>1, <2>2, <2>4 DEF OfferStands
  <2> QED
    BY <1>1, <2>1, <2>2, <2>3, <2>5, <2>6 DEF IInv, EarlyIsHeard
<1> QED
  BY <1>2, <1>3

(* The app at hand is at its offer now: it was what the source makes, if   *)
(* that has not changed, and is not offered again.                         *)
LEMMA ReplaceKeeps ==
  ASSUME IInv, Replace
  PROVE  /\ IInv'
         /\ \A a \in AppSet : row'[a] # row[a] =>
              /\ row[a] \in Row /\ run.checked \in Checked
              /\ OffersUpdate(row[a], run.checked)
              /\ row'[a].version = Normalize(run.checked.version)
<1>1. /\ run \in Run /\ TypeOK /\ Accounted /\ OfferStands /\ EarlyIsHeard
      /\ run.at = "replace" /\ run.todo # <<>>
      /\ OffersUpdate(row[Now], run.checked)
      /\ UNCHANGED <<cancel, release, running, moved, world, early, runs>>
  BY DEF IInv, TypeOK, Replace, At, OfferStands, Left
<1>2. /\ Now \in AppSet /\ Range(run.todo) \subseteq {Now} \cup Range(Rest)
      /\ Rest \in Seq(AppSet)
      /\ Len(run.todo) > 1 => Rest # <<>>
  BY <1>1, RunFields, FirstAndRest DEF Now, Rest
<1>3. run.checked \in Checked /\ run.applied \in SUBSET AppSet
  BY <1>1, RunFields
<1>4. PICK rest \in Seq(AppSet) : rest = Rest
  BY <1>2
<1>5. PICK applied \in SUBSET AppSet : applied = run.applied \cup {Now}
  BY <1>2, <1>3
<1> DEFINE m == [run EXCEPT !.at = "apply", !.todo = rest, !.applied = applied]
<1>6. run' = m
  BY <1>4, <1>5 DEF Replace
<1>7. /\ m \in Run /\ m.at = "apply" /\ m.todo = rest /\ m.failed = run.failed
      /\ m.skipped = run.skipped /\ m.unchecked = run.unchecked
  BY <1>1 DEF Run
<1> HIDE DEF m
<1>8. row[Now] \in Row /\ release[Now] \in Release /\ row \in [AppSet -> Row]
  BY <1>1, <1>2 DEF TypeOK
<1>9. PICK new \in Row :
        /\ new = Recorded(row[Now], run.checked)
        /\ new.version = Normalize(run.checked.version)
  BY <1>1, <1>3, <1>8, RecordedFields
<1>10. /\ row' = [row EXCEPT ![Now] = new] /\ row' \in [AppSet -> Row]
       /\ row'[Now] = new /\ \A a \in AppSet : a # Now => row'[a] = row[a]
  <2>1. row' = [row EXCEPT ![Now] = new]
    BY <1>9 DEF Replace
  <2> QED
    BY <1>2, <1>8, <2>1
<1>11. TypeOK'
  BY <1>1, <1>6, <1>7, <1>10 DEF TypeOK, AppSet
<1>12. Now \in AppSet \ moved => ~OffersUpdate(new, Check(new, release[Now]))
  BY <1>1, <1>8, <1>9, UpdatedIsCurrent DEF OfferStands
<1>13. Accounted'
  <2>1. Noted' = Noted
    BY <1>6, <1>7 DEF Noted
  <2>2. ASSUME NEW a \in AppSet \ moved
        PROVE  a \in Range(rest) \cup Noted \/ Current(a)'
    <3>1. CASE a = Now
      BY <1>1, <1>10, <1>12, <3>1 DEF Current
    <3>2. CASE a # Now
      <4>1. a \in Range(run.todo) \cup Noted \/ Current(a)
        BY <1>1 DEF Accounted
      <4>2. Current(a)' <=> Current(a)
        BY <1>1, <1>10, <3>2 DEF Current
      <4> QED
        BY <1>2, <1>4, <3>2, <4>1, <4>2
    <3> QED
      BY <3>1, <3>2
  <2> QED
    BY <1>1, <1>6, <1>7, <2>1, <2>2 DEF Accounted, At, AppSet
<1>14. OfferStands'
  BY <1>6, <1>7 DEF OfferStands
<1>15. EarlyIsHeard'
  <2>1. early => cancel /\ Len(run.todo) > 1
    BY <1>1 DEF EarlyIsHeard
  <2> QED
    BY <1>1, <1>2, <1>4, <1>6, <1>7, <2>1 DEF EarlyIsHeard, At
<1>16. \A a \in AppSet : row'[a] # row[a] => a = Now
  BY <1>10
<1> QED
  BY <1>1, <1>3, <1>8, <1>9, <1>10, <1>11, <1>13, <1>14, <1>15, <1>16 DEF IInv

LEMMA AppliedKeeps ==
  ASSUME IInv, Applied PROVE IInv'
<1>1. /\ run \in Run /\ TypeOK /\ Accounted /\ EarlyIsHeard
      /\ run.at = "apply" /\ run.todo = <<>>
      /\ UNCHANGED <<cancel, row, release, running, moved, world, early, runs>>
      /\ run' = [run EXCEPT !.at = "ended"]
  BY DEF IInv, TypeOK, Applied, At, World, Left
<1> DEFINE m == [run EXCEPT !.at = "ended"]
<1>2. /\ m \in Run /\ m.at = "ended" /\ m.failed = run.failed
      /\ m.skipped = run.skipped /\ m.unchecked = run.unchecked
  BY <1>1 DEF Run
<1>3. run' = m
  BY <1>1
<1> HIDE DEF m
<1>4. TypeOK' /\ \A a : Current(a)' <=> Current(a)
  BY <1>1, <1>2, <1>3, RunMoves
<1>5. Noted' = Noted /\ Range(run.todo) = {}
  BY <1>1, <1>2, <1>3 DEF Noted, Range
<1>6. ASSUME NEW a \in AppSet \ moved PROVE a \in Noted' \/ Current(a)'
  BY <1>1, <1>4, <1>5 DEF Accounted
<1>7. Accounted'
  BY <1>1, <1>2, <1>3, <1>6 DEF Accounted, At, AppSet
<1>8. ~early'
  BY <1>1 DEF EarlyIsHeard
<1> QED
  BY <1>2, <1>3, <1>4, <1>7, <1>8 DEF IInv, OfferStands, EarlyIsHeard

LEMMA AnswerKeeps ==
  ASSUME IInv, Answer PROVE IInv'
<1>1. Idle \in Run /\ Idle.at = "idle"
  <2>1. <<>> \in Seq(AppSet) /\ Failed \in Checked
    BY DEF Checked
  <2> QED
    BY <2>1 DEF Idle, Run
<1>2. run' = Idle /\ cancel' = FALSE /\ UNCHANGED <<row, release, running, moved, world, early, runs>>
  BY DEF Answer, World
<1>3. cancel' \in BOOLEAN
  BY <1>2, Zenon
<1>4. TypeOK'
  BY <1>1, <1>2, <1>3 DEF IInv, TypeOK, AppSet
<1>5. run'.at = "idle"
  BY <1>1, <1>2
<1> QED
  BY <1>4, <1>5 DEF IInv, Accounted, OfferStands, EarlyIsHeard, At

LEMMA CancelKeeps ==
  ASSUME IInv, Cancel PROVE IInv'
<1>1. /\ UNCHANGED <<run, row, release, running, moved, world, runs>>
      /\ cancel' = TRUE /\ run.at \notin {"idle", "ended"} /\ run \in Run
  BY DEF Cancel, World, At, IInv, TypeOK
<1>2. cancel' \in BOOLEAN /\ early' \in BOOLEAN /\ cancel'
  BY Zenon DEF Cancel
<1>3. early' => \/ run.at \notin {"scan", "apply"} /\ Len(run.todo) > 1
                \/ run.at \in {"scan", "apply"} /\ run.todo # <<>>
  BY DEF Cancel, At
<1>4. TypeOK'
  BY <1>1, <1>2 DEF IInv, TypeOK, AppSet
<1>5. Accounted'
  BY <1>1 DEF IInv, Accounted, At, Noted, Current, AppSet
<1>6. OfferStands'
  BY <1>1 DEF IInv, OfferStands, Now
<1>7. EarlyIsHeard'
  BY <1>1, <1>2, <1>3 DEF EarlyIsHeard, At
<1> QED
  BY <1>4, <1>5, <1>6, <1>7 DEF IInv

LEMMA MeanwhileKeeps ==
  ASSUME IInv, NEW b \in AppSet, Meanwhile(b)
  PROVE  IInv' /\ \A a \in AppSet : row'[a].sha = row[a].sha
<1>1. /\ TypeOK /\ Accounted /\ OfferStands /\ EarlyIsHeard /\ run \in Run
      /\ row \in [AppSet -> Row] /\ release \in [AppSet -> Release]
      /\ UNCHANGED <<run, cancel, early, runs>> /\ world' = world + 1
  BY DEF IInv, TypeOK, Meanwhile
<1>2. CASE StartOrStop(b)
  <2>1. UNCHANGED <<row, release, moved>> /\ running' \subseteq AppSet
    BY <1>1, <1>2 DEF StartOrStop, TypeOK
  <2>2. TypeOK'
    BY <1>1, <2>1 DEF TypeOK, AppSet
  <2>3. Accounted' /\ OfferStands' /\ EarlyIsHeard'
    BY <1>1, <2>1 DEF Accounted, OfferStands, EarlyIsHeard, At, Noted, Current, AppSet, Now
  <2> QED
    BY <2>1, <2>2, <2>3 DEF IInv
<1>3. CASE Publish(b) \/ SetSource(b) \/ UnsetSource(b)
  <2>1. moved' = moved \cup {b} /\ running' = running
    BY <1>3 DEF Publish, SetSource, UnsetSource
  <2>2. /\ row' \in [AppSet -> Row] /\ release' \in [AppSet -> Release]
        /\ \A a \in AppSet : /\ row'[a].sha = row[a].sha /\ row'[a].version = row[a].version
                             /\ a # b => row'[a] = row[a] /\ release'[a] = release[a]
    <3>1. CASE Publish(b)
      <4>1. PICK r \in Releases[b] : release' = [release EXCEPT ![b] = r]
        BY <3>1 DEF Publish
      <4>2. r \in Release /\ row' = row
        BY <3>1, UpdatesAssumption DEF Publish, AppSet
      <4> QED
        BY <1>1, <4>1, <4>2
    <3>2. CASE SetSource(b) \/ UnsetSource(b)
      <4>1. PICK config \in Config \cup {NoConfig} :
              row' = [row EXCEPT ![b].config = config] /\ release' = release
        <5>1. CASE UnsetSource(b)
          BY <5>1 DEF UnsetSource
        <5>2. CASE SetSource(b)
          <6>0. PICK given \in Typed :
                  row' = [row EXCEPT ![b].config =
                            NormalizeConfig(FillConfig(given, row[b].fields), row[b].fields)]
            BY <5>2, Zenon DEF SetSource
          <6>p. given \in Config /\ row[b].fields \in Config \cup {NoConfig}
            BY <1>1, RowFields, UpdatesAssumption
          <6>q. FillConfig(given, row[b].fields) \in Config
            <7>1. CASE FillConfig(given, row[b].fields) = given
              BY <6>p, <7>1
            <7>2. CASE FillConfig(given, row[b].fields) # given
              <8>1. row[b].fields \in Config /\ given.manager \in STRING
                BY <6>p, <7>2 DEF FillConfig, Config
              <8>2. FillConfig(given, row[b].fields) = ConfigFromEmbedded(given.manager, row[b].fields)
                BY <7>2 DEF FillConfig
              <8> QED
                BY <8>1, <8>2, EmbeddedIsConfig
            <7> QED
              BY <7>1, <7>2
          <6>1. PICK typed \in Config :
                  row' = [row EXCEPT ![b].config = NormalizeConfig(typed, row[b].fields)]
            BY <6>0, <6>q
          <6>2. typed \in Config /\ row[b].fields \in Config \cup {NoConfig}
            BY <6>p
          <6>3. NormalizeConfig(typed, row[b].fields) \in Config
            <7>1. CASE NormalizeConfig(typed, row[b].fields) = typed
              BY <6>2, <7>1
            <7>2. CASE NormalizeConfig(typed, row[b].fields) # typed
              <8>1. row[b].fields \in Config
                BY <6>2, <7>2 DEF NormalizeConfig
              <8>2. PICK pattern \in Letters : pattern = row[b].fields.pattern
                BY <8>1 DEF Config
              <8>3. NormalizeConfig(typed, row[b].fields) = [typed EXCEPT !.pattern = pattern]
                BY <7>2, <8>2 DEF NormalizeConfig
              <8>4. [typed EXCEPT !.pattern = pattern] \in Config
                BY <6>2 DEF Config
              <8> QED
                BY <8>3, <8>4
            <7> QED
              BY <7>1, <7>2
          <6>4. release' = release
            BY <5>2 DEF SetSource
          <6> QED
            BY <6>1, <6>3, <6>4
        <5> QED
          BY <3>2, <5>1, <5>2
      <4> DEFINE m == [row[b] EXCEPT !.config = config]
      <4>2. m \in Row /\ m.sha = row[b].sha /\ m.version = row[b].version
        <5>1. row[b] \in Row
          BY <1>1
        <5> QED
          BY <5>1 DEF Row
      <4>3. row' = [row EXCEPT ![b] = m]
        BY <4>1
      <4> HIDE DEF m
      <4> QED
        BY <1>1, <4>1, <4>2, <4>3
    <3> QED
      BY <1>3, <3>1, <3>2
  <2>3. TypeOK'
    BY <1>1, <2>1, <2>2 DEF TypeOK, AppSet
  <2>4. \A a \in AppSet \ moved' : a \in AppSet \ moved /\ (Current(a)' <=> Current(a))
    BY <2>1, <2>2 DEF Current
  <2>5. Accounted'
    BY <1>1, <2>4 DEF Accounted, At, Noted, AppSet
  <2>6. OfferStands'
    <3>1. SUFFICES ASSUME run.at \in {"probe", "replace"}
                   PROVE  OfferStands'
      BY <1>1 DEF OfferStands
    <3>2. /\ run.todo # <<>> /\ OffersUpdate(row[Now], run.checked)
          /\ Now \notin moved => run.checked = Check(row[Now], release[Now])
      BY <1>1, <3>1 DEF OfferStands
    <3>3. Now \in AppSet /\ Now' = Now
      BY <1>1, <3>2, RunFields, FirstAndRest DEF Now
    <3>4. OffersUpdate(row'[Now], run.checked)
      BY <2>2, <3>2, <3>3 DEF OffersUpdate
    <3>5. Now \notin moved' => run.checked = Check(row'[Now], release'[Now])
      BY <2>1, <2>2, <3>2, <3>3
    <3> QED
      BY <1>1, <3>2, <3>3, <3>4, <3>5 DEF OfferStands
  <2>7. EarlyIsHeard'
    BY <1>1 DEF EarlyIsHeard, At
  <2> QED
    BY <2>2, <2>3, <2>5, <2>6, <2>7 DEF IInv
<1> QED
  BY <1>2, <1>3 DEF Meanwhile

LEMMA NextKeeps == IInv /\ [Next]_vars => IInv'
<1> SUFFICES ASSUME IInv, [Next]_vars PROVE IInv'
  OBVIOUS
<1>1. CASE Begin
  BY <1>1, BeginKeeps
<1>2. CASE ScanCancelled \/ ApplyCancelled
  BY <1>2, CancelledKeeps
<1>3. CASE ScanPasses \/ ScanOne
  BY <1>3, ScanStepKeeps
<1>4. CASE Scanned
  BY <1>4, ScannedKeeps
<1>5. CASE PassOver
  BY <1>5, PassOverKeeps
<1>6. CASE ApplyCheck
  BY <1>6, ApplyCheckKeeps
<1>7. CASE CutShort \/ ReplaceFails
  BY <1>7, CutShortKeeps
<1>8. CASE Probe
  BY <1>8, ProbeKeeps
<1>9. CASE Replace
  BY <1>9, ReplaceKeeps
<1>10. CASE Applied
  BY <1>10, AppliedKeeps
<1>11. CASE Answer
  BY <1>11, AnswerKeeps
<1>12. CASE Cancel
  BY <1>12, CancelKeeps
<1>13. CASE \E a \in AppSet : Meanwhile(a)
  BY <1>13, MeanwhileKeeps
<1>14. CASE UNCHANGED vars
  <2>1. UNCHANGED <<row, release, running, run, cancel, moved, early, runs, world>>
    BY <1>14 DEF vars
  <2>2. TypeOK'
    BY <2>1 DEF IInv, TypeOK, AppSet
  <2>3. Accounted' /\ OfferStands' /\ EarlyIsHeard'
    BY <2>1 DEF IInv, Accounted, OfferStands, EarlyIsHeard, At, Noted, Current, AppSet, Now
  <2> QED
    BY <2>2, <2>3 DEF IInv
<1> QED
  BY <1>1, <1>2, <1>3, <1>4, <1>5, <1>6, <1>7, <1>8, <1>9, <1>10, <1>11, <1>12, <1>13, <1>14
     DEF Next, RunStep

THEOREM Invariant == Spec => []IInv
<1>1. Init => IInv
  BY InitInvariant
<1>2. IInv /\ [Next]_vars => IInv'
  BY NextKeeps
<1> QED
  BY <1>1, <1>2, PTL DEF Spec

-----------------------------------------------------------------------------

(* Rows, releases and the run are what they should be: the rows that a     *)
(* batch writes back (updates_service.rs) and the outcome it reports.      *)
THEOREM TypeCorrect == Spec => []TypeOK
<1>1. IInv => TypeOK
  BY DEF IInv
<1> QED
  BY <1>1, Invariant, PTL

(* A window's batch that answers ok and skipped nothing leaves every owned *)
(* app at what its source publishes, unless that changed meanwhile         *)
(* (apply_all_updates, bridge/src/api/updates.rs).                         *)
THEOREM OkUpToDate == Spec => []OkMeansUpToDate
<1>1. IInv => OkMeansUpToDate
  <2> SUFFICES ASSUME IInv, run.at = "ended", run.front = "window", run.all,
                      Outcome = "ok", run.skipped = {}, NEW a \in AppSet \ moved, row[a].owned
               PROVE  ~OffersUpdate(row[a], Check(row[a], release[a]))
    BY DEF OkMeansUpToDate
  <2>1. WindowOutcome = "ok"
    BY DEF Outcome
  <2>2. ~run.cancelled /\ run.failed = {} /\ run.unchecked = {}
    BY <2>1 DEF WindowOutcome
  <2>3. Noted = {}
    BY <2>2 DEF Noted
  <2> QED
    BY <2>2, <2>3 DEF IInv, Accounted, At, Current
<1> QED
  BY <1>1, Invariant, PTL

(* A cancel that came while an app was still to be checked or an offer to  *)
(* be begun is reported as one (check_updates_on and apply_all_updates,    *)
(* bridge/src/api/updates.rs).                                             *)
THEOREM CancelReported == Spec => []CancelledIsReported
<1>1. IInv => CancelledIsReported
  BY DEF IInv, EarlyIsHeard, CancelledIsReported, At
<1> QED
  BY <1>1, Invariant, PTL

(* An installed update never goes back to an older version                 *)
(* (is_update of src/src/versions.rs, offers_update of updates_service.rs).*)
THEOREM GoesForward == Spec => UpdatesGoForward
<1> DEFINE Forward == \A a \in AppSet :
             row'[a].sha # row[a].sha /\ SplitNumeric(row[a].version) /\ SplitNumeric(row'[a].version) =>
               Same(row[a].version, row'[a].version) \/ Newer(row[a].version, row'[a].version)
<1>1. IInv /\ [Next]_vars => [Forward]_vars
  <2> SUFFICES ASSUME IInv, [Next]_vars, NEW a \in AppSet, row'[a].sha # row[a].sha,
                      SplitNumeric(row[a].version), SplitNumeric(row'[a].version)
               PROVE  \/ Same(row[a].version, row'[a].version)
                      \/ Newer(row[a].version, row'[a].version)
    OBVIOUS
  <2>1. row' # row
    OBVIOUS
  <2>2. CASE Replace
    <3>1. /\ row[a] \in Row /\ run.checked \in Checked /\ OffersUpdate(row[a], run.checked)
          /\ row'[a].version = Normalize(run.checked.version)
      BY <2>2, ReplaceKeeps
    <3>2. run.checked.version \in Version /\ row[a].version \in Version
      BY <3>1, OfferedFields, RowFields
    <3>3. SplitNumeric(run.checked.version)
      BY <3>1, <3>2, NormalizedIsSame
    <3>4. IsUpdate(row[a].version, run.checked.version) \/ Same(row[a].version, run.checked.version)
      BY <3>1 DEF OffersUpdate
    <3> QED
      BY <3>1, <3>2, <3>3, <3>4, OfferGoesForward
  <2>3. CASE \E b \in AppSet : Meanwhile(b)
    BY <2>3, MeanwhileKeeps
  <2>4. CASE Begin \/ ScanCancelled \/ ScanPasses \/ ScanOne \/ Scanned
    BY <2>1, <2>4 DEF Begin, ScanCancelled, ScanPasses, ScanOne, Scanned, World
  <2>5. CASE ApplyCancelled \/ PassOver \/ ApplyCheck \/ CutShort \/ Probe \/ ReplaceFails
             \/ Applied \/ Answer \/ Cancel
    BY <2>1, <2>5 DEF ApplyCancelled, PassOver, ApplyCheck, CutShort, Probe, ReplaceFails,
                      Applied, Answer, Cancel, World
  <2>6. CASE UNCHANGED vars
    BY <2>1, <2>6 DEF vars
  <2> QED
    BY <2>2, <2>3, <2>4, <2>5, <2>6 DEF Next, RunStep
<1>2. Spec => [][Forward]_vars
  BY <1>1, Invariant, PTL DEF Spec
<1> QED
  BY <1>2 DEF UpdatesGoForward

(* A check of a GitHub source picks a file that the pattern means, one     *)
(* built for the app's architecture if there is one, none that names       *)
(* another unless the app's is unknown, and fails only when no file of the *)
(* release is fit; within the matcher's limits and without a star in a     *)
(* name (asset_matches, glob_match and pick_for_architecture of            *)
(* src/src/updates_sources.rs).                                            *)
THEOREM CheckPicks == Spec => []CheckPicksTheFile
<1>1. ASSUME IInv, NEW a \in AppSet, NEW config, config = EffectiveSource(row[a]),
             config # NoConfig, config.manager = "github", ValidConfig(config),
             Matchable(config, release[a])
      PROVE  Picks(config, row[a], release[a], Check(row[a], release[a]))
  <2>1. row[a] \in Row /\ release[a] \in Release
    BY <1>1 DEF IInv, TypeOK
  <2>2. config \in Config
    BY <1>1, <2>1, EffectiveSourceIsConfig
  <2>3. config.pattern # <<>> /\ MayContact(config)
    BY <1>1 DEF ValidConfig, MayContact
  <2>4. Check(row[a], release[a]) = GithubCheck(config, row[a], release[a])
    BY <1>1, <2>3 DEF Check
  <2> QED
    BY <1>1, <2>1, <2>2, <2>3, <2>4, GithubPicks
<1>2. IInv => CheckPicksTheFile
  BY <1>1 DEF CheckPicksTheFile, Picks, Fit, Own
<1> QED
  BY <1>2, Invariant, PTL
===============================================================================
