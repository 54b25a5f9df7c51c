---------------------------- MODULE MatchingProofs ----------------------------
(***************************************************************************)
(* Theorems about the allocation planner, the suggestions and the month    *)
(* close.                                                                  *)
(*                                                                         *)
(* The plan is a loop over a computed sequence of turns, so the proofs are *)
(* those of a sequential program: the turns are all the pairs in a strict  *)
(* order (TurnsInOrder), and an invariant of the loop (LoopInv) holds      *)
(* before the first and after each pass (LoopHolds).  What the finished    *)
(* plan satisfies is the invariant at the last pass; that it fits,         *)
(* settles and agrees with the suggestions follows from it and from the    *)
(* balance of the ledger.  That a plan made earlier equals the plan of the *)
(* moment it is applied (SamePlan) runs the two loops side by side.        *)
(*                                                                         *)
(* The report of the month close is last: what its reads find before and   *)
(* after a step of anybody (TornReportClears).                             *)
(***************************************************************************)
EXTENDS MonthClose, LedgerProofs

-----------------------------------------------------------------------------
(* The passes of the loop *)

(***************************************************************************)
(* The loop is defined: each pass follows from the one before.             *)
(***************************************************************************)
Start(got) ==
    [left |-> [p \in DOMAIN got[1] |-> got[1][p].left],
     room |-> got[2], blocked |-> {}, links |-> {}]

(***************************************************************************)
(* The passes of a plan's loop can be built one after the other.           *)
(***************************************************************************)
LEMMA PassesExist ==
    ASSUME NEW got, NEW turns, NEW n \in Nat
    PROVE  \E f : f = [i \in 0 .. n |-> IF i = 0 THEN Start(got)
                                          ELSE Pass(got, f[i - 1], turns[i])]
<1> DEFINE Upto(k, f) == f = [i \in 0 .. k |-> IF i = 0 THEN Start(got)
                                          ELSE Pass(got, f[i - 1], turns[i])]
           S == {k \in 0 .. n : \E f : Upto(k, f)}
<1>1. 0 \in S
  <2> DEFINE f == [i \in 0 .. 0 |-> Start(got)]
  <2>1. Upto(0, f)
    OBVIOUS
  <2> HIDE DEF f, Upto
  <2> QED
    BY <2>1
<1>2. ASSUME NEW k \in 0 .. n, k \in S, k < n
      PROVE  k + 1 \in S
  <2>1. PICK f : Upto(k, f)
    BY <1>2
  <2> DEFINE g == [i \in 0 .. k + 1 |-> IF i <= k THEN f[i]
                                        ELSE Pass(got, f[k], turns[k + 1])]
  <2>2. \A i \in 0 .. k : g[i] = f[i]
    OBVIOUS
  <2>3. ASSUME NEW i \in 0 .. k + 1
        PROVE  g[i] = IF i = 0 THEN Start(got) ELSE Pass(got, g[i - 1], turns[i])
    <3>1. CASE i = 0
      BY <2>1, <3>1
    <3>2. CASE i \in 1 .. k
      <4>1. g[i] = f[i] /\ g[i - 1] = f[i - 1]
        BY <3>2, <2>2
      <4>2. f[i] = Pass(got, f[i - 1], turns[i])
        BY <2>1, <3>2
      <4> HIDE DEF g
      <4> QED
        BY <3>2, <4>1, <4>2
    <3>3. CASE i = k + 1
      <4>1. g[i] = Pass(got, f[k], turns[k + 1]) /\ g[k] = f[k]
        BY <3>3
      <4> HIDE DEF g
      <4> QED
        BY <3>3, <4>1
    <3> QED
      BY <3>1, <3>2, <3>3
  <2>4. Upto(k + 1, g)
    <3>1. g = [i \in 0 .. k + 1 |-> g[i]]
      OBVIOUS
    <3> HIDE DEF g
    <3> QED
      BY <2>3, <3>1
  <2> HIDE DEF g, Upto
  <2> QED
    BY <1>2, <2>4
<1>3. n \in S
  <2> HIDE DEF S
  <2> QED
    BY <1>1, <1>2, StepByStep
<1> QED
  BY <1>3

(***************************************************************************)
(* Passes is that function: its recursive definition holds at every turn.  *)
(***************************************************************************)
LEMMA PassesStep ==
    ASSUME NEW got, Len(Turns(got)) \in Nat
    PROVE  /\ Passes(got)[0] = Start(got)
           /\ \A i \in 1 .. Len(Turns(got)) :
                Passes(got)[i] = Pass(got, Passes(got)[i - 1], Turns(got)[i])
<1> DEFINE n == Len(Turns(got))
           P == Passes(got)
           IsPasses(f) == f = [i \in 0 .. n |-> IF i = 0 THEN Start(got)
                                             ELSE Pass(got, f[i - 1], Turns(got)[i])]
<1>1. IsPasses(P)
  <2>1. \E f : IsPasses(f)
    BY PassesExist
  <2>2. P = CHOOSE f : IsPasses(f)
    BY Zenon DEF Passes, Start
  <2> HIDE DEF P, IsPasses
  <2> QED
    BY <2>1, <2>2, Zenon
<1> HIDE DEF P
<1>2. P[0] = Start(got)
  BY <1>1
<1>3. ASSUME NEW i \in 1 .. n PROVE P[i] = Pass(got, P[i - 1], Turns(got)[i])
  BY <1>1
<1> QED
  BY <1>2, <1>3 DEF P

-----------------------------------------------------------------------------
(* Strict orders and turns *)

(***************************************************************************)
(* The elements of a finite strict order, numbered by how many come before.*)
(***************************************************************************)
Earlier(S, R, c) == {d \in S : <<d, c>> \in R}

(***************************************************************************)
(* A finite strict order numbers its elements from 0 without gaps.         *)
(***************************************************************************)
LEMMA Ranking ==
    ASSUME NEW S, IsFiniteSet(S), NEW R,
           \A a \in S : <<a, a>> \notin R,
           \A a, b, c \in S : <<a, b>> \in R /\ <<b, c>> \in R => <<a, c>> \in R,
           \A a, b \in S : a = b \/ <<a, b>> \in R \/ <<b, a>> \in R
    PROVE  /\ Cardinality(S) \in Nat
           /\ \A c \in S : Cardinality(Earlier(S, R, c)) \in 0 .. Cardinality(S) - 1
           /\ \A i \in 0 .. Cardinality(S) - 1 :
                \E c \in S : Cardinality(Earlier(S, R, c)) = i
           /\ \A a, b \in S : Cardinality(Earlier(S, R, a)) < Cardinality(Earlier(S, R, b))
                                => <<a, b>> \in R
           /\ \A a, b \in S : Cardinality(Earlier(S, R, a)) = Cardinality(Earlier(S, R, b))
                                => a = b
<1> DEFINE n == Cardinality(S)
           E(c) == Earlier(S, R, c)
           rank == [c \in S |-> Cardinality(E(c))]
<1>1. n \in Nat
  BY FS_CardinalityType
<1>2. ASSUME NEW c \in S
      PROVE  IsFiniteSet(E(c)) /\ Cardinality(E(c)) \in 0 .. n - 1
  <2>1. E(c) \in SUBSET (S \ {c})
    BY DEF Earlier
  <2>2. IsFiniteSet(S \ {c}) /\ Cardinality(S \ {c}) = n - 1
    BY FS_RemoveElement
  <2>3. IsFiniteSet(E(c)) /\ Cardinality(E(c)) <= n - 1
    BY <2>1, <2>2, FS_Subset
  <2>4. Cardinality(E(c)) \in Nat
    BY <2>3, FS_CardinalityType
  <2> QED
    BY <1>1, <2>3, <2>4
<1>3. ASSUME NEW a \in S, NEW b \in S, <<a, b>> \in R
      PROVE  Cardinality(E(a)) < Cardinality(E(b))
  <2>1. E(a) \cup {a} \in SUBSET E(b) /\ a \notin E(a)
    BY <1>3 DEF Earlier
  <2>2. Cardinality(E(a) \cup {a}) = Cardinality(E(a)) + 1
    BY <1>2, <2>1, FS_AddElement
  <2>3. Cardinality(E(a) \cup {a}) <= Cardinality(E(b))
    BY <1>2, <2>1, FS_Subset
  <2>4. Cardinality(E(a)) \in Nat /\ Cardinality(E(b)) \in Nat
    BY <1>1, <1>2
  <2> QED
    BY <2>2, <2>3, <2>4
<1>4. rank \in Injection(S, 0 .. n - 1)
  <2>1. rank \in [S -> 0 .. n - 1]
    BY <1>2
  <2>2. ASSUME NEW a \in S, NEW b \in S, rank[a] = rank[b]
        PROVE  a = b
    <3>1. rank[a] = Cardinality(E(a)) /\ rank[b] = Cardinality(E(b))
      OBVIOUS
    <3>2. Cardinality(E(a)) \in 0 .. n - 1 /\ Cardinality(E(b)) \in 0 .. n - 1
      BY <1>2
    <3>3. /\ <<a, b>> \in R => Cardinality(E(a)) < Cardinality(E(b))
          /\ <<b, a>> \in R => Cardinality(E(b)) < Cardinality(E(a))
      BY <1>3
    <3>4. Cardinality(E(a)) = Cardinality(E(b)) /\ Cardinality(E(a)) \in Nat
      BY <1>1, <2>2, <3>1, <3>2
    <3>5. <<a, b>> \notin R /\ <<b, a>> \notin R
      <4> HIDE DEF E, n
      <4> QED
        BY <3>3, <3>4
    <3> QED
      BY <3>5
  <2> HIDE DEF rank
  <2> QED
    BY <2>1, <2>2 DEF Injection, IsInjective
<1>5. IsFiniteSet(0 .. n - 1) /\ Cardinality(0 .. n - 1) = n
  <2>1. 0 \in Int /\ n - 1 \in Int
    BY <1>1
  <2>2. /\ IsFiniteSet(0 .. n - 1)
        /\ Cardinality(0 .. n - 1) = IF 0 > n - 1 THEN 0 ELSE (n - 1) - 0 + 1
    BY <2>1, FS_Interval
  <2> HIDE DEF n
  <2>3. (IF 0 > n - 1 THEN 0 ELSE (n - 1) - 0 + 1) = n
    BY <1>1
  <2> QED
    BY <2>2, <2>3
<1>6. rank \in Surjection(S, 0 .. n - 1)
  <2> HIDE DEF rank
  <2> QED
    BY <1>4, <1>5, FS_Injection
<1>7. ASSUME NEW i \in 0 .. n - 1
      PROVE  \E c \in S : Cardinality(E(c)) = i
  <2>1. PICK c \in S : rank[c] = i
    <3> HIDE DEF rank
    <3> QED
      BY <1>6 DEF Surjection
  <2> QED
    BY <2>1
<1>8. ASSUME NEW a \in S, NEW b \in S, Cardinality(E(a)) <= Cardinality(E(b))
      PROVE  a = b \/ <<a, b>> \in R
  <2>1. Cardinality(E(a)) \in 0 .. n - 1 /\ Cardinality(E(b)) \in 0 .. n - 1
    BY <1>2
  <2>2. <<b, a>> \in R => Cardinality(E(b)) < Cardinality(E(a))
    BY <1>3
  <2> HIDE DEF E
  <2> QED
    BY <1>1, <1>8, <2>1, <2>2
<1>9. ASSUME NEW a \in S, NEW b \in S
      PROVE  /\ Cardinality(E(a)) < Cardinality(E(b)) => <<a, b>> \in R
             /\ Cardinality(E(a)) = Cardinality(E(b)) => a = b
  <2>1. Cardinality(E(a)) \in 0 .. n - 1 /\ Cardinality(E(b)) \in 0 .. n - 1
    BY <1>2
  <2>2. /\ <<b, a>> \in R => Cardinality(E(b)) < Cardinality(E(a))
        /\ <<a, b>> \in R => Cardinality(E(a)) < Cardinality(E(b))
    BY <1>3
  <2> HIDE DEF E
  <2> QED
    BY <1>1, <2>1, <2>2
<1> HIDE DEF rank
<1> QED
  BY <1>1, <1>2, <1>7, <1>9

-----------------------------------------------------------------------------
(* Turns *)

(***************************************************************************)
(* The order of the turns, written out.                                    *)
(***************************************************************************)
LEMMA PrecedesFour ==
    ASSUME NEW s1, NEW s2, NEW s3, NEW s4, NEW t1, NEW t2, NEW t3, NEW t4
    PROVE  Precedes(<<s1, s2, s3, s4>>, <<t1, t2, t3, t4>>)
             <=> \/ s1 < t1
                 \/ s1 = t1 /\ s2 < t2
                 \/ s1 = t1 /\ s2 = t2 /\ s3 < t3
                 \/ s1 = t1 /\ s2 = t2 /\ s3 = t3 /\ s4 < t4
<1> DEFINE s == <<s1, s2, s3, s4>>
           t == <<t1, t2, t3, t4>>
           At(i) == s[i] < t[i] /\ \A j \in 1 .. i - 1 : s[j] = t[j]
<1>1. DOMAIN s = 1 .. 4
  OBVIOUS
<1>2. \A i \in 1 .. 4 : i = 1 \/ i = 2 \/ i = 3 \/ i = 4
  OBVIOUS
<1>3. Precedes(s, t) <=> At(1) \/ At(2) \/ At(3) \/ At(4)
  <2>1. Precedes(s, t) <=> \E i \in 1 .. 4 : At(i)
    BY <1>1 DEF Precedes
  <2> HIDE DEF At
  <2> QED
    BY <1>2, <2>1
<1>4. At(1) <=> s1 < t1
  OBVIOUS
<1>5. At(2) <=> s1 = t1 /\ s2 < t2
  <2>1. \A j \in 1 .. 2 - 1 : j = 1
    OBVIOUS
  <2> QED
    BY <2>1
<1>6. At(3) <=> s1 = t1 /\ s2 = t2 /\ s3 < t3
  <2>1. 1 \in 1 .. 3 - 1 /\ 2 \in 1 .. 3 - 1 /\ \A j \in 1 .. 3 - 1 : j = 1 \/ j = 2
    OBVIOUS
  <2> QED
    BY <2>1
<1>7. At(4) <=> s1 = t1 /\ s2 = t2 /\ s3 = t3 /\ s4 < t4
  <2>1. /\ 1 \in 1 .. 4 - 1 /\ 2 \in 1 .. 4 - 1 /\ 3 \in 1 .. 4 - 1
        /\ \A j \in 1 .. 4 - 1 : j = 1 \/ j = 2 \/ j = 3
    OBVIOUS
  <2> QED
    BY <2>1
<1> HIDE DEF At
<1> QED
  BY <1>3, <1>4, <1>5, <1>6, <1>7

(***************************************************************************)
(* What a planner reads has these columns, at whatever time it reads it.   *)
(***************************************************************************)
PaymentRead(x) ==
    /\ DOMAIN x \in SUBSET Payments
    /\ \A p \in DOMAIN x : x[p].left \in 0 .. MaxAmount /\ x[p].key \in Keys

ObligationRead(x) ==
    /\ DOMAIN x \in SUBSET Obligations /\ x \in [DOMAIN x -> Nat]

WellRead(got) == PaymentRead(got[1]) /\ ObligationRead(got[2])

Pairs(got) ==
    {c \in {p \in Unspent(got) : Eligible(p, got)} \X DOMAIN got[2] :
       terms[c[2]].account \in RelevantAccounts(c[1], got)}

Sooner(got) == {e \in Pairs(got) \X Pairs(got) : Precedes(Turn(e[1], got), Turn(e[2], got))}

(***************************************************************************)
(* An interval that starts at 1 has one upper end.                         *)
(***************************************************************************)
LEMMA SameInterval ==
    ASSUME NEW m \in Nat, NEW n \in Nat, 1 .. m = 1 .. n
    PROVE  m = n
<1>1. (m = 0 \/ m \in 1 .. n) /\ (n = 0 \/ n \in 1 .. m)
  OBVIOUS
<1>2. (m # 0 => m <= n) /\ (n # 0 => n <= m)
  BY <1>1
<1> QED
  BY <1>2

(***************************************************************************)
(* The columns that a pair's turn is made of.                              *)
(***************************************************************************)
LEMMA PairFields ==
    ASSUME terms \in Terms, NEW got, WellRead(got), NEW c \in Pairs(got)
    PROVE  /\ c = <<c[1], c[2]>>
           /\ c[1] \in Payments /\ c[1] \in DOMAIN got[1] /\ Eligible(c[1], got)
           /\ c[2] \in Obligations /\ c[2] \in DOMAIN got[2]
           /\ PaidOn[got[1][c[1]].key] \in Nat /\ PaymentId[c[1]] \in Nat
           /\ terms[c[2]].due \in Nat /\ ObligationId[c[2]] \in Nat
<1>1. c \in (DOMAIN got[1]) \X DOMAIN got[2] /\ Eligible(c[1], got)
  BY DEF Pairs, Unspent
<1>2. c[1] \in Payments /\ got[1][c[1]].key \in Keys
  BY <1>1 DEF WellRead, PaymentRead
<1>3. c[2] \in Obligations /\ terms[c[2]] \in Term
  BY <1>1, MatchingConstants DEF WellRead, ObligationRead
<1> QED
  BY <1>1, <1>2, <1>3, MatchingConstants DEF Term

(***************************************************************************)
(* There are finitely many pairs to give a turn.                           *)
(***************************************************************************)
LEMMA PairsFinite ==
    ASSUME NEW got, WellRead(got)
    PROVE  IsFiniteSet(Pairs(got))
<1>1. Pairs(got) \in SUBSET (Payments \X Obligations)
  BY DEF Pairs, Unspent, WellRead, PaymentRead, ObligationRead
<1> QED
  BY <1>1, MatchingConstants, FS_Product, FS_Subset

(***************************************************************************)
(* Ids tell turns apart, so that no two turns are at once.                 *)
(***************************************************************************)
LEMMA SoonerIsAnOrder ==
    ASSUME terms \in Terms, NEW got, WellRead(got)
    PROVE  /\ \A a \in Pairs(got) : <<a, a>> \notin Sooner(got)
           /\ \A a, b, c \in Pairs(got) :
                <<a, b>> \in Sooner(got) /\ <<b, c>> \in Sooner(got) => <<a, c>> \in Sooner(got)
           /\ \A a, b \in Pairs(got) : a = b \/ <<a, b>> \in Sooner(got) \/ <<b, a>> \in Sooner(got)
<1> DEFINE day(c) == PaidOn[got[1][c[1]].key]
           id(c) == PaymentId[c[1]]
           due(c) == terms[c[2]].due
           oid(c) == ObligationId[c[2]]
           Lex(c, d) == \/ day(c) < day(d)
                        \/ day(c) = day(d) /\ id(c) < id(d)
                        \/ day(c) = day(d) /\ id(c) = id(d) /\ due(c) < due(d)
                        \/ day(c) = day(d) /\ id(c) = id(d) /\ due(c) = due(d) /\ oid(c) < oid(d)
<1>1. \A c, d \in Pairs(got) : <<c, d>> \in Sooner(got) <=> Lex(c, d)
  <2> SUFFICES ASSUME NEW c \in Pairs(got), NEW d \in Pairs(got)
               PROVE  Precedes(Turn(c, got), Turn(d, got)) <=> Lex(c, d)
    BY DEF Sooner
  <2>1. Precedes(<<day(c), id(c), due(c), oid(c)>>, <<day(d), id(d), due(d), oid(d)>>)
          <=> Lex(c, d)
    <3> HIDE DEF day, id, due, oid
    <3> QED
      BY PrecedesFour
  <2>2. /\ Turn(c, got) = <<day(c), id(c), due(c), oid(c)>>
        /\ Turn(d, got) = <<day(d), id(d), due(d), oid(d)>>
    BY DEF Turn
  <2> QED
    BY <2>1, <2>2
<1>2. \A c \in Pairs(got) : day(c) \in Nat /\ id(c) \in Nat /\ due(c) \in Nat /\ oid(c) \in Nat
  BY PairFields
<1>3. \A c, d \in Pairs(got) : id(c) = id(d) /\ oid(c) = oid(d) => c = d
  <2> SUFFICES ASSUME NEW c \in Pairs(got), NEW d \in Pairs(got), id(c) = id(d), oid(c) = oid(d)
               PROVE  c = d
    OBVIOUS
  <2>1. /\ c[1] \in Payments /\ d[1] \in Payments /\ c[2] \in Obligations /\ d[2] \in Obligations
        /\ c = <<c[1], c[2]>> /\ d = <<d[1], d[2]>>
    BY PairFields
  <2>2. c[1] = d[1] /\ c[2] = d[2]
    BY <2>1, MatchingConstants
  <2> QED
    BY <2>1, <2>2
<1> HIDE DEF day, id, due, oid
<1> QED
  BY <1>1, <1>2, <1>3

(***************************************************************************)
(* Turns is the sequence of all pairs, each once, in their order.          *)
(***************************************************************************)
LEMMA TurnsInOrder ==
    ASSUME terms \in Terms, NEW got, WellRead(got)
    PROVE  /\ Len(Turns(got)) \in Nat
           /\ \A i \in 1 .. Len(Turns(got)) : Turns(got)[i] \in Pairs(got)
           /\ \A c \in Pairs(got) : \E i \in 1 .. Len(Turns(got)) : Turns(got)[i] = c
           /\ \A i, j \in 1 .. Len(Turns(got)) :
                i < j => <<Turns(got)[i], Turns(got)[j]>> \in Sooner(got)
<1> DEFINE S == Pairs(got)
           n == Cardinality(S)
           R == Sooner(got)
           rank(c) == Cardinality(Earlier(S, R, c))
           ts == Turns(got)
<1>1. /\ n \in Nat
      /\ \A c \in S : rank(c) \in 0 .. n - 1
      /\ \A i \in 0 .. n - 1 : \E c \in S : rank(c) = i
      /\ \A a, b \in S : rank(a) < rank(b) => <<a, b>> \in R
      /\ \A a, b \in S : rank(a) = rank(b) => a = b
  BY PairsFinite, SoonerIsAnOrder, Ranking
<1>2. ts = [i \in 1 .. n |-> CHOOSE c \in S : rank(c) = i - 1]
  <2>1. \A c \in S : Earlier(S, R, c) = {d \in S : Precedes(Turn(d, got), Turn(c, got))}
    BY DEF Earlier, Sooner
  <2>2. ts = [i \in 1 .. n |-> CHOOSE c \in S :
                Cardinality({d \in S : Precedes(Turn(d, got), Turn(c, got))}) = i - 1]
    BY DEF Turns, Pairs
  <2>3. \A i \in 1 .. n :
          (CHOOSE c \in S : Cardinality({d \in S : Precedes(Turn(d, got), Turn(c, got))}) = i - 1)
            = (CHOOSE c \in S : rank(c) = i - 1)
    BY <2>1
  <2> QED
    BY <2>2, <2>3
<1> HIDE DEF S, n, R, rank, ts
<1>3. ASSUME NEW i \in 1 .. n
      PROVE  ts[i] \in S /\ rank(ts[i]) = i - 1
  <2>1. i - 1 \in 0 .. n - 1
    BY <1>1
  <2>2. \E c \in S : rank(c) = i - 1
    BY <1>1, <2>1
  <2>3. ts[i] = CHOOSE c \in S : rank(c) = i - 1
    BY <1>2
  <2> QED
    BY <2>2, <2>3
<1>4. Len(ts) = n
  <2>1. ts \in [1 .. n -> S]
    BY <1>2, <1>3
  <2>2. ts \in Seq(S)
    BY <1>1, <2>1, SeqDef
  <2>3. Len(ts) \in Nat /\ DOMAIN ts = 1 .. Len(ts)
    BY <2>2, LenProperties
  <2>4. 1 .. Len(ts) = 1 .. n
    BY <2>1, <2>3
  <2> QED
    BY <1>1, <2>3, <2>4, SameInterval
<1>5. ASSUME NEW c \in S
      PROVE  \E i \in 1 .. n : ts[i] = c
  <2>1. rank(c) + 1 \in 1 .. n /\ (rank(c) + 1) - 1 = rank(c)
    BY <1>1
  <2>2. ts[rank(c) + 1] \in S /\ rank(ts[rank(c) + 1]) = rank(c)
    BY <1>3, <2>1
  <2>3. ts[rank(c) + 1] = c
    BY <1>1, <2>2
  <2> QED
    BY <2>1, <2>3
<1>6. ASSUME NEW i \in 1 .. n, NEW j \in 1 .. n, i < j
      PROVE  <<ts[i], ts[j]>> \in R
  <2>1. rank(ts[i]) < rank(ts[j])
    BY <1>1, <1>3, <1>6
  <2> QED
    BY <1>1, <1>3, <2>1
<1> QED
  BY <1>1, <1>3, <1>4, <1>5, <1>6 DEF S, R, ts

(***************************************************************************)
(* The loop: what a pass does, by cases.                                   *)
(***************************************************************************)
State(left, room, blocked, links) ==
    [left |-> left, room |-> room, blocked |-> blocked, links |-> links]

Least(a, b) == IF a < b THEN a ELSE b
Link(p, o, amount) == [payment |-> p, target |-> o, amount |-> amount]

Over(s, c) == s.left[c[1]] = 0 \/ s.room[c[2]] <= 0 \/ c[1] \in s.blocked

(***************************************************************************)
(* A pass of a pair without money, without room or blocked changes         *)
(* nothing.                                                                *)
(***************************************************************************)
LEMMA PassIsOver ==
    ASSUME NEW got, NEW s, NEW c, Over(s, c)
    PROVE  Pass(got, s, c) = s
BY DEF Pass, Over

(***************************************************************************)
(* A pass of a pair that is allocated already blocks the payment.          *)
(***************************************************************************)
LEMMA PassBlocks ==
    ASSUME NEW got, NEW s, NEW c, s = State(s.left, s.room, s.blocked, s.links),
           ~Over(s, c), c \in got[5]
    PROVE  Pass(got, s, c) = State(s.left, s.room, s.blocked \cup {c[1]}, s.links)
<1>1. Pass(got, s, c) = [s EXCEPT !.blocked = s.blocked \cup {c[1]}]
  BY DEF Pass, Over
<1> QED
  BY <1>1 DEF State

-----------------------------------------------------------------------------
(* The invariant of the loop *)

(***************************************************************************)
(* The loop's invariant, after pass i.                                     *)
(***************************************************************************)
LoopType(got, s) ==
    /\ s = State(s.left, s.room, s.blocked, s.links)
    /\ s.left \in [DOMAIN got[1] -> 0 .. MaxAmount]
    /\ s.room \in [DOMAIN got[2] -> Nat]
    /\ s.links \in SUBSET RentRow /\ IsFiniteSet(s.links)
    /\ \A l \in s.links : l.payment \in DOMAIN got[1] /\ l.target \in DOMAIN got[2]

(* What is left and what was planned add up to what was read.              *)
LoopMoney(got, s) ==
    /\ \A p \in DOMAIN got[1] : s.left[p] + Total(RowsOf(p, s.links)) = got[1][p].left
    /\ \A o \in DOMAIN got[2] : s.room[o] + Total(RowsFor(o, s.links)) = got[2][o]

(* Every link is of a pair that had its turn and was not allocated before. *)
LoopPairs(got, i, s) ==
    /\ \A l \in s.links : /\ <<l.payment, l.target>> \notin got[5]
                          /\ \E j \in 1 .. i : Turns(got)[j] = <<l.payment, l.target>>
    /\ \A l, k \in s.links : l.payment = k.payment /\ l.target = k.target => l = k

(* A turn passes for one of three reasons, which last.                     *)
LoopDone(got, i, s) ==
    /\ \A j \in 1 .. i : \/ s.left[Turns(got)[j][1]] = 0
                         \/ s.room[Turns(got)[j][2]] = 0
                         \/ Turns(got)[j][1] \in s.blocked
    /\ \A p \in s.blocked : p \in DOMAIN got[1] /\ s.left[p] > 0

(* What is due earlier on the same account is paid.                        *)
LoopOrder(got, s) ==
    \A l \in s.links, o \in DOMAIN got[2] :
      /\ terms[o].account = terms[l.target].account
      /\ terms[o].due < terms[l.target].due
      => s.room[o] = 0

LoopInv(got, i, s) ==
    /\ LoopType(got, s) /\ LoopMoney(got, s)
    /\ LoopPairs(got, i, s) /\ LoopDone(got, i, s) /\ LoopOrder(got, s)

(***************************************************************************)
(* The invariant holds before the first pass.                              *)
(***************************************************************************)
LEMMA LoopStarts ==
    ASSUME NEW got, WellRead(got)
    PROVE  LoopInv(got, 0, Start(got))
<1> DEFINE s == Start(got)
<1>1. /\ s = State(s.left, s.room, s.blocked, s.links)
      /\ s.left = [p \in DOMAIN got[1] |-> got[1][p].left]
      /\ s.room = got[2] /\ s.blocked = {} /\ s.links = {}
  BY DEF Start, State
<1> HIDE DEF s
<1>2. LoopType(got, s)
  BY <1>1, FS_EmptySet DEF LoopType, WellRead, PaymentRead, ObligationRead
<1>3. LoopMoney(got, s)
  <2>1. \A x : RowsOf(x, {}) = {} /\ RowsFor(x, {}) = {}
    BY DEF RowsOf, RowsFor
  <2>2. \A p \in DOMAIN got[1] : got[1][p].left \in Nat
    BY LedgerConstants DEF WellRead, PaymentRead
  <2>3. \A o \in DOMAIN got[2] : got[2][o] \in Nat
    BY DEF WellRead, ObligationRead
  <2>4. ASSUME NEW p \in DOMAIN got[1]
        PROVE  s.left[p] + Total(RowsOf(p, s.links)) = got[1][p].left
    <3>1. s.left[p] = got[1][p].left /\ Total(RowsOf(p, s.links)) = 0
      BY <1>1, <2>1, TotalEmpty
    <3> QED
      BY <2>2, <3>1
  <2>5. ASSUME NEW o \in DOMAIN got[2]
        PROVE  s.room[o] + Total(RowsFor(o, s.links)) = got[2][o]
    <3>1. s.room[o] = got[2][o] /\ Total(RowsFor(o, s.links)) = 0
      BY <1>1, <2>1, TotalEmpty
    <3> QED
      BY <2>3, <3>1
  <2> QED
    BY <2>4, <2>5 DEF LoopMoney
<1>4. LoopPairs(got, 0, s) /\ LoopDone(got, 0, s) /\ LoopOrder(got, s)
  BY <1>1 DEF LoopPairs, LoopDone, LoopOrder
<1> QED
  BY <1>2, <1>3, <1>4 DEF LoopInv, s

(***************************************************************************)
(* The turns of one payment at one account come by due date.               *)
(***************************************************************************)
DebtsBefore(got, i, p, x) ==
    \A o \in DOMAIN got[2] :
      /\ terms[o].account = terms[x].account
      /\ terms[o].due < terms[x].due
      => \E j \in 1 .. i - 1 : Turns(got)[j] = <<p, o>>

(***************************************************************************)
(* That is the order in which they come.                                   *)
(***************************************************************************)
LEMMA EarlierTurn ==
    ASSUME terms \in Terms, NEW got, WellRead(got),
           NEW i \in 1 .. Len(Turns(got)), NEW p, NEW x, Turns(got)[i] = <<p, x>>
    PROVE  DebtsBefore(got, i, p, x)
<1> SUFFICES ASSUME NEW o \in DOMAIN got[2],
                    terms[o].account = terms[x].account, terms[o].due < terms[x].due
             PROVE  \E j \in 1 .. i - 1 : Turns(got)[j] = <<p, o>>
  BY DEF DebtsBefore
<1> DEFINE c == Turns(got)[i]
           d == <<c[1], o>>
           n == Len(Turns(got))
<1>1. n \in Nat /\ c \in Pairs(got)
  BY TurnsInOrder
<1>2. c[1] = p /\ c[2] = x
  OBVIOUS
<1>3. d \in Pairs(got)
  BY <1>2, <1>1 DEF Pairs
<1>4. <<d, c>> \in Sooner(got)
  <2>1. PaidOn[got[1][c[1]].key] \in Nat /\ PaymentId[c[1]] \in Nat
    BY <1>1, PairFields
  <2>2. Precedes(Turn(d, got), Turn(c, got))
    BY <1>2, <2>1, PrecedesFour DEF Turn
  <2> QED
    BY <1>1, <1>3, <2>2 DEF Sooner
<1> HIDE DEF c, d, n
<1>5. PICK j \in 1 .. n : Turns(got)[j] = d
  BY <1>3, TurnsInOrder DEF n
<1>6. <<c, d>> \notin Sooner(got) /\ c # d
  BY <1>1, <1>3, <1>4, SoonerIsAnOrder
<1>7. j # i /\ ~(i < j)
  <2>1. i < j => <<Turns(got)[i], Turns(got)[j]>> \in Sooner(got)
    BY TurnsInOrder DEF n
  <2> QED
    BY <1>5, <1>6, <2>1 DEF c
<1>8. j \in 1 .. i - 1
  BY <1>1, <1>7 DEF n
<1> QED
  BY <1>2, <1>5, <1>8 DEF c, d

(***************************************************************************)
(* A pass that plans nothing keeps the invariant.                          *)
(***************************************************************************)
LEMMA PassOver ==
    ASSUME terms \in Terms, NEW got, WellRead(got), NEW i \in 1 .. Len(Turns(got)),
           NEW s, LoopInv(got, i - 1, s),
           Over(s, Turns(got)[i]) \/ Turns(got)[i] \in got[5]
    PROVE  LoopInv(got, i, Pass(got, s, Turns(got)[i]))
<1> DEFINE c == Turns(got)[i]
           t == Pass(got, s, c)
<1>1. /\ LoopType(got, s) /\ LoopMoney(got, s) /\ LoopPairs(got, i - 1, s)
      /\ LoopDone(got, i - 1, s) /\ LoopOrder(got, s)
  BY DEF LoopInv
<1>2. /\ Len(Turns(got)) \in Nat
      /\ c[1] \in DOMAIN got[1] /\ c[2] \in DOMAIN got[2]
  BY TurnsInOrder, PairFields
<1>3. /\ s = State(s.left, s.room, s.blocked, s.links)
      /\ s.left[c[1]] \in Nat /\ s.room[c[2]] \in Nat
  BY <1>1, <1>2, LedgerConstants DEF LoopType
<1>4. /\ t = State(t.left, t.room, t.blocked, t.links)
      /\ t.left = s.left /\ t.room = s.room /\ t.links = s.links
      /\ \/ t.blocked = s.blocked /\ Over(s, c)
         \/ t.blocked = s.blocked \cup {c[1]} /\ ~Over(s, c)
  <2>1. CASE Over(s, c)
    <3>1. t = s
      BY <2>1, PassIsOver
    <3> HIDE DEF t
    <3> QED
      BY <1>3, <2>1, <3>1
  <2>2. CASE ~Over(s, c)
    <3>0. c \in got[5]
      BY <2>2
    <3>1. t = State(s.left, s.room, s.blocked \cup {c[1]}, s.links)
      <4> HIDE DEF c
      <4> QED
        BY <1>3, <2>2, <3>0, PassBlocks
    <3> HIDE DEF t
    <3> QED
      BY <2>2, <3>1 DEF State
  <2> QED
    BY <2>1, <2>2
<1> HIDE DEF t
<1>5. LoopType(got, t) /\ LoopMoney(got, t) /\ LoopOrder(got, t)
  BY <1>1, <1>4 DEF LoopType, LoopMoney, LoopOrder
<1>6. LoopPairs(got, i, t)
  <2>1. \A j \in 1 .. i - 1 : j \in 1 .. i
    BY <1>2
  <2> QED
    BY <1>1, <1>4, <2>1 DEF LoopPairs
<1>7. LoopDone(got, i, t)
  <2>1. \/ t.left[c[1]] = 0 \/ t.room[c[2]] = 0 \/ c[1] \in t.blocked
    BY <1>3, <1>4 DEF Over
  <2>2. \A j \in 1 .. i : j \in 1 .. i - 1 \/ j = i
    BY <1>2
  <2>3. \A j \in 1 .. i : \/ t.left[Turns(got)[j][1]] = 0
                          \/ t.room[Turns(got)[j][2]] = 0
                          \/ Turns(got)[j][1] \in t.blocked
    BY <1>1, <1>4, <2>1, <2>2 DEF LoopDone
  <2>4. ~Over(s, c) => s.left[c[1]] > 0
    BY <1>3 DEF Over
  <2>5. \A p \in t.blocked : p \in DOMAIN got[1] /\ t.left[p] > 0
    BY <1>1, <1>2, <1>4, <2>4 DEF LoopDone
  <2> QED
    BY <2>3, <2>5 DEF LoopDone
<1> QED
  BY <1>5, <1>6, <1>7 DEF LoopInv, t

(***************************************************************************)
(* What a pass changes that plans a link of amount a.                      *)
(***************************************************************************)
Adds(got, s, z, p, o, a) ==
    /\ z = State(z.left, z.room, z.blocked, z.links)
    /\ z.left \in [DOMAIN got[1] -> 0 .. MaxAmount]
    /\ z.room \in [DOMAIN got[2] -> Nat]
    /\ \A q \in DOMAIN got[1] : z.left[q] = IF q = p THEN s.left[q] - a ELSE s.left[q]
    /\ \A u \in DOMAIN got[2] : z.room[u] = IF u = o THEN s.room[u] - a ELSE s.room[u]
    /\ z.blocked = s.blocked
    /\ z.links = s.links \cup {Link(p, o, a)}

(***************************************************************************)
(* That is what a pass does that plans a link.                             *)
(***************************************************************************)
LEMMA PassPlans ==
    ASSUME NEW got, NEW s, LoopType(got, s),
           NEW p \in DOMAIN got[1], NEW o \in DOMAIN got[2],
           ~Over(s, <<p, o>>), <<p, o>> \notin got[5],
           NEW a, a = Least(s.left[p], s.room[o])
    PROVE  Adds(got, s, Pass(got, s, <<p, o>>), p, o, a)
<1> DEFINE left == [s.left EXCEPT ![p] = s.left[p] - a]
           room == [s.room EXCEPT ![o] = s.room[o] - a]
           links == s.links \cup {Link(p, o, a)}
<1>1. /\ s.left \in [DOMAIN got[1] -> 0 .. MaxAmount]
      /\ s.room \in [DOMAIN got[2] -> Nat]
  BY DEF LoopType
<1>2. /\ \A q \in DOMAIN got[1] : left[q] = IF q = p THEN s.left[q] - a ELSE s.left[q]
      /\ \A u \in DOMAIN got[2] : room[u] = IF u = o THEN s.room[u] - a ELSE s.room[u]
  BY <1>1
<1>3. s.left[p] - a \in 0 .. MaxAmount /\ s.room[o] - a \in Nat
  <2>1. s.left[p] \in 0 .. MaxAmount /\ s.room[o] \in Nat
    BY <1>1
  <2>2. s.left[p] # 0 /\ ~(s.room[o] <= 0)
    BY DEF Over
  <2> QED
    BY <2>1, <2>2, LedgerConstants DEF Least
<1>4. left \in [DOMAIN got[1] -> 0 .. MaxAmount] /\ room \in [DOMAIN got[2] -> Nat]
  BY <1>1, <1>3
<1>5. Pass(got, s, <<p, o>>) = [s EXCEPT !.left = left, !.room = room, !.links = links]
  <2>1. a = IF s.left[p] < s.room[o] THEN s.left[p] ELSE s.room[o]
    BY DEF Least
  <2> QED
    BY <2>1 DEF Pass, Over, Link
<1>6. s = State(s.left, s.room, s.blocked, s.links)
  BY DEF LoopType
<1> HIDE DEF left, room, links
<1>7. Pass(got, s, <<p, o>>) = State(left, room, s.blocked, links)
  BY <1>5, <1>6 DEF State
<1> QED
  BY <1>2, <1>4, <1>7 DEF Adds, State, links

(***************************************************************************)
(* A pass that plans a link keeps the invariant.                           *)
(***************************************************************************)
LEMMA PassAdds ==
    ASSUME terms \in Terms, NEW got, WellRead(got), NEW i \in 1 .. Len(Turns(got)),
           NEW s, LoopInv(got, i - 1, s),
           NEW p, NEW o, Turns(got)[i] = <<p, o>>,
           <<p, o>> \notin got[5], p \notin s.blocked,
           NEW a, a = Least(s.left[p], s.room[o]),
           s.left[p] # 0, ~(s.room[o] <= 0),
           NEW z, Adds(got, s, z, p, o, a)
    PROVE  LoopInv(got, i, z)
<1>1. /\ LoopType(got, s) /\ LoopMoney(got, s) /\ LoopPairs(got, i - 1, s)
      /\ LoopDone(got, i - 1, s) /\ LoopOrder(got, s)
  BY DEF LoopInv
<1>2. /\ Len(Turns(got)) \in Nat /\ <<p, o>> \in Pairs(got)
      /\ p \in DOMAIN got[1] /\ o \in DOMAIN got[2]
      /\ p \in Payments /\ o \in Obligations
  <2>1. Len(Turns(got)) \in Nat /\ <<p, o>> \in Pairs(got)
    BY TurnsInOrder
  <2>2. p = <<p, o>>[1] /\ o = <<p, o>>[2]
    OBVIOUS
  <2> QED
    BY <2>1, <2>2, PairFields
<1>3. /\ s.left \in [DOMAIN got[1] -> 0 .. MaxAmount]
      /\ s.room \in [DOMAIN got[2] -> Nat]
      /\ s.links \in SUBSET RentRow /\ IsFiniteSet(s.links)
      /\ \A l \in s.links : l.payment \in DOMAIN got[1] /\ l.target \in DOMAIN got[2]
  BY <1>1 DEF LoopType
<1>4. /\ MaxAmount \in Nat
      /\ s.left[p] \in Nat /\ s.left[p] > 0 /\ s.left[p] <= MaxAmount
      /\ s.room[o] \in Nat /\ s.room[o] > 0
  <2>1. s.left[p] \in 0 .. MaxAmount /\ s.room[o] \in Nat
    BY <1>2, <1>3
  <2> QED
    BY <2>1, LedgerConstants
<1>5. /\ a \in Nat /\ a \in Amounts /\ a > 0
      /\ a = s.left[p] \/ a = s.room[o]
  <2>1. a = s.left[p] \/ a = s.room[o]
    BY DEF Least
  <2>2. a <= s.left[p]
    BY <1>4 DEF Least
  <2>3. a \in Nat /\ a > 0 /\ a <= MaxAmount
    BY <1>4, <2>1, <2>2
  <2> QED
    BY <1>4, <2>1, <2>3 DEF Amounts
<1>6. \A l \in s.links : ~(l.payment = p /\ l.target = o)
  <2> SUFFICES ASSUME NEW l \in s.links, l.payment = p, l.target = o PROVE FALSE
    OBVIOUS
  <2>1. PICK j \in 1 .. i - 1 : Turns(got)[j] = <<l.payment, l.target>>
    BY <1>1 DEF LoopPairs
  <2>2. j \in 1 .. Len(Turns(got)) /\ j < i /\ Turns(got)[j] = <<p, o>>
    BY <1>2, <2>1
  <2>3. <<<<p, o>>, <<p, o>>>> \in Sooner(got)
    BY <2>2, TurnsInOrder
  <2> QED
    BY <1>2, <2>3, SoonerIsAnOrder
<1>7. /\ z = State(z.left, z.room, z.blocked, z.links)
      /\ z.left \in [DOMAIN got[1] -> 0 .. MaxAmount]
      /\ z.room \in [DOMAIN got[2] -> Nat]
      /\ z.blocked = s.blocked
      /\ z.links = s.links \cup {Link(p, o, a)}
  BY DEF Adds
<1>8. /\ Link(p, o, a).payment = p /\ Link(p, o, a).target = o /\ Link(p, o, a).amount = a
  BY DEF Link
<1>9. ASSUME NEW q
      PROVE  /\ z.links \in SUBSET RentRow /\ IsFiniteSet(z.links)
             /\ Total(RowsOf(q, s.links)) \in Nat /\ Total(RowsFor(q, s.links)) \in Nat
             /\ Total(RowsOf(q, z.links))
                  = IF q = p THEN Total(RowsOf(q, s.links)) + a
                             ELSE Total(RowsOf(q, s.links))
             /\ Total(RowsFor(q, z.links))
                  = IF q = o THEN Total(RowsFor(q, s.links)) + a
                             ELSE Total(RowsFor(q, s.links))
  <2>1. PICK l \in RentRow : l = Link(p, o, a) /\ l \notin s.links
    <3>1. Link(p, o, a) \in RentRow
      BY <1>2, <1>5 DEF Link, RentRow
    <3> QED
      BY <1>6, <1>8, <3>1
  <2>2. z.links = s.links \cup {l} /\ l.payment = p /\ l.target = o /\ l.amount = a
    BY <1>7, <1>8, <2>1
  <2>3. s.links \in SUBSET RentRow /\ IsFiniteSet(s.links)
    BY <1>3
  <2>4. OneMore(s.links, l)
    BY <2>1, <2>3, LinkTotals
  <2> QED
    BY <2>2, <2>4 DEF OneMore
<1>10. /\ \A q \in DOMAIN got[1] :
            z.left[q] = IF q = p THEN s.left[q] - a ELSE s.left[q]
       /\ \A u \in DOMAIN got[2] :
            z.room[u] = IF u = o THEN s.room[u] - a ELSE s.room[u]
  BY DEF Adds
<1>11. LoopType(got, z)
  <2>3. \A l \in z.links : l.payment \in DOMAIN got[1] /\ l.target \in DOMAIN got[2]
    BY <1>2, <1>3, <1>7, <1>8
  <2> QED
    BY <1>7, <1>9, <2>3 DEF LoopType
<1>12. LoopMoney(got, z)
  <2>1. ASSUME NEW q \in DOMAIN got[1]
        PROVE  z.left[q] + Total(RowsOf(q, z.links)) = got[1][q].left
    <3> DEFINE old == Total(RowsOf(q, s.links))
               new == Total(RowsOf(q, z.links))
    <3>1. s.left[q] + old = got[1][q].left
      BY <1>1 DEF LoopMoney
    <3>2. old \in Nat /\ new = IF q = p THEN old + a ELSE old
      BY <1>9
    <3>3. s.left[q] \in Nat /\ z.left[q] = IF q = p THEN s.left[q] - a ELSE s.left[q]
      <4>1. s.left[q] \in 0 .. MaxAmount
        BY <1>3
      <4> QED
        BY <1>4, <1>10, <4>1
    <3> HIDE DEF old, new
    <3>4. z.left[q] + new = s.left[q] + old
      BY <1>5, <3>2, <3>3
    <3> QED
      BY <3>1, <3>4 DEF new
  <2>2. ASSUME NEW u \in DOMAIN got[2]
        PROVE  z.room[u] + Total(RowsFor(u, z.links)) = got[2][u]
    <3> DEFINE old == Total(RowsFor(u, s.links))
               new == Total(RowsFor(u, z.links))
    <3>1. s.room[u] + old = got[2][u]
      BY <1>1 DEF LoopMoney
    <3>2. old \in Nat /\ new = IF u = o THEN old + a ELSE old
      BY <1>9
    <3>3. s.room[u] \in Nat /\ z.room[u] = IF u = o THEN s.room[u] - a ELSE s.room[u]
      BY <1>3, <1>10
    <3> HIDE DEF old, new
    <3>4. z.room[u] + new = s.room[u] + old
      BY <1>5, <3>2, <3>3
    <3> QED
      BY <3>1, <3>4 DEF new
  <2> QED
    BY <2>1, <2>2 DEF LoopMoney
<1>13. LoopPairs(got, i, z)
  <2>1. i \in 1 .. i /\ \A j \in 1 .. i - 1 : j \in 1 .. i
    BY <1>2
  <2>2. ASSUME NEW l \in z.links
        PROVE  /\ <<l.payment, l.target>> \notin got[5]
               /\ \E j \in 1 .. i : Turns(got)[j] = <<l.payment, l.target>>
    <3>1. CASE l \in s.links
      BY <1>1, <2>1, <3>1 DEF LoopPairs
    <3>2. CASE l = Link(p, o, a)
      BY <1>8, <2>1, <3>2
    <3> QED
      BY <1>7, <3>1, <3>2
  <2>3. \A l, k \in z.links : l.payment = k.payment /\ l.target = k.target => l = k
    <3>1. \A l, k \in s.links : l.payment = k.payment /\ l.target = k.target => l = k
      BY <1>1 DEF LoopPairs
    <3> QED
      BY <1>6, <1>7, <1>8, <3>1
  <2> QED
    BY <2>2, <2>3 DEF LoopPairs
<1>14. LoopDone(got, i, z)
  <2>1. z.left[p] = 0 \/ z.room[o] = 0
    BY <1>2, <1>4, <1>5, <1>10
  <2>2. ASSUME NEW j \in 1 .. i
        PROVE  \/ z.left[Turns(got)[j][1]] = 0
               \/ z.room[Turns(got)[j][2]] = 0
               \/ Turns(got)[j][1] \in z.blocked
    <3>1. CASE j = i
      BY <2>1, <3>1
    <3>2. CASE j \in 1 .. i - 1
      <4>1. PICK q, u : q = Turns(got)[j][1] /\ u = Turns(got)[j][2]
        OBVIOUS
      <4>2. s.left[q] = 0 \/ s.room[u] = 0 \/ q \in z.blocked
        BY <1>1, <1>7, <3>2, <4>1 DEF LoopDone
      <4>3. q \in DOMAIN got[1] /\ u \in DOMAIN got[2]
        <5>1. j \in 1 .. Len(Turns(got))
          BY <1>2
        <5> QED
          BY <4>1, <5>1, TurnsInOrder, PairFields
      <4>4. z.left[q] = s.left[q] \/ q = p
        BY <1>10, <4>3
      <4>5. z.room[u] = s.room[u] \/ u = o
        BY <1>10, <4>3
      <4>6. z.left[q] = 0 \/ z.room[u] = 0 \/ q \in z.blocked
        BY <1>4, <4>2, <4>4, <4>5
      <4> QED
        BY <4>1, <4>6
    <3> QED
      BY <1>2, <3>1, <3>2
  <2>3. \A q \in z.blocked : q \in DOMAIN got[1] /\ z.left[q] > 0
    <3>1. \A q \in s.blocked : q \in DOMAIN got[1] /\ s.left[q] > 0
      BY <1>1 DEF LoopDone
    <3> QED
      BY <1>7, <1>10, <3>1
  <2> QED
    BY <2>2, <2>3 DEF LoopDone
<1>15. DebtsBefore(got, i, p, o)
  BY EarlierTurn
<1>16. LoopOrder(got, z)
  <2> SUFFICES ASSUME NEW l \in z.links, NEW u \in DOMAIN got[2],
                      terms[u].account = terms[l.target].account,
                      terms[u].due < terms[l.target].due
               PROVE  z.room[u] = 0
    BY DEF LoopOrder
  <2>1. s.room[u] = 0
    <3>1. CASE l \in s.links
      BY <1>1, <3>1 DEF LoopOrder
    <3>2. CASE l = Link(p, o, a)
      <4>1. terms[u].account = terms[o].account /\ terms[u].due < terms[o].due
        BY <1>8, <3>2
      <4>2. PICK j \in 1 .. i - 1 : Turns(got)[j] = <<p, u>>
        BY <1>15, <4>1 DEF DebtsBefore
      <4>3. s.left[p] = 0 \/ s.room[u] = 0 \/ p \in s.blocked
        BY <1>1, <4>2 DEF LoopDone
      <4> QED
        BY <4>3
    <3> QED
      BY <1>7, <3>1, <3>2
  <2> QED
    BY <1>4, <1>10, <2>1
<1> QED
  BY <1>11, <1>12, <1>13, <1>14, <1>16 DEF LoopInv

(***************************************************************************)
(* Every pass keeps the invariant.                                         *)
(***************************************************************************)
LEMMA PassKeeps ==
    ASSUME terms \in Terms, NEW got, WellRead(got), NEW i \in 1 .. Len(Turns(got)),
           NEW s, LoopInv(got, i - 1, s)
    PROVE  LoopInv(got, i, Pass(got, s, Turns(got)[i]))
<1>1. CASE Over(s, Turns(got)[i]) \/ Turns(got)[i] \in got[5]
  BY <1>1, PassOver
<1>2. CASE ~Over(s, Turns(got)[i]) /\ Turns(got)[i] \notin got[5]
  <2>1. PICK p, o : p = Turns(got)[i][1] /\ o = Turns(got)[i][2]
    OBVIOUS
  <2>2. Turns(got)[i] = <<p, o>> /\ p \in DOMAIN got[1] /\ o \in DOMAIN got[2]
    BY <2>1, TurnsInOrder, PairFields
  <2>3. LoopType(got, s) /\ s = State(s.left, s.room, s.blocked, s.links)
    BY DEF LoopInv, LoopType
  <2>4. PICK a : a = Least(s.left[p], s.room[o])
    OBVIOUS
  <2>5. s.left[p] # 0 /\ ~(s.room[o] <= 0) /\ p \notin s.blocked
    BY <1>2, <2>1 DEF Over
  <2>6. PICK z : z = Pass(got, s, Turns(got)[i])
    OBVIOUS
  <2>7. ~Over(s, <<p, o>>) /\ <<p, o>> \notin got[5] /\ z = Pass(got, s, <<p, o>>)
    BY <1>2, <2>2, <2>6
  <2>8. Adds(got, s, z, p, o, a)
    BY <2>2, <2>3, <2>4, <2>7, PassPlans
  <2>9. LoopInv(got, i, z)
    BY <1>2, <2>2, <2>4, <2>5, <2>8, PassAdds
  <2> QED
    BY <2>6, <2>9
<1> QED
  BY <1>1, <1>2

(***************************************************************************)
(* The invariant holds after every pass.                                   *)
(***************************************************************************)
LEMMA LoopHolds ==
    ASSUME terms \in Terms, NEW got, WellRead(got)
    PROVE  \A i \in 0 .. Len(Turns(got)) : LoopInv(got, i, Passes(got)[i])
<1> DEFINE n == Len(Turns(got))
           S == {i \in 0 .. n : LoopInv(got, i, Passes(got)[i])}
<1>1. n \in Nat
  BY TurnsInOrder
<1>2. /\ Passes(got)[0] = Start(got)
      /\ \A i \in 1 .. n : Passes(got)[i] = Pass(got, Passes(got)[i - 1], Turns(got)[i])
  BY <1>1, PassesStep
<1>3. 0 \in S
  BY <1>1, <1>2, LoopStarts
<1>4. ASSUME NEW i \in 0 .. n, i \in S, i < n
      PROVE  i + 1 \in S
  <2>1. i + 1 \in 1 .. n /\ i + 1 \in 0 .. n /\ (i + 1) - 1 = i
    BY <1>1, <1>4
  <2>2. LoopInv(got, (i + 1) - 1, Passes(got)[i])
    BY <1>4, <2>1
  <2>3. LoopInv(got, i + 1, Pass(got, Passes(got)[i], Turns(got)[i + 1]))
    BY <2>1, <2>2, PassKeeps
  <2>4. Passes(got)[i + 1] = Pass(got, Passes(got)[i], Turns(got)[i + 1])
    BY <1>2, <2>1
  <2> QED
    BY <2>1, <2>3, <2>4
<1>5. \A i \in 0 .. n : i \in S
  <2> HIDE DEF S, n
  <2> QED
    BY <1>1, <1>3, <1>4, StepByStep
<1> QED
  BY <1>5

(***************************************************************************)
(* Links and blocked payments are never taken back.                        *)
(***************************************************************************)
Within(s, t) == s.links \subseteq t.links /\ s.blocked \subseteq t.blocked

(***************************************************************************)
(* A pass takes back nothing.                                              *)
(***************************************************************************)
LEMMA PassGrows ==
    ASSUME NEW got, NEW c, NEW s, s = State(s.left, s.room, s.blocked, s.links)
    PROVE  Within(s, Pass(got, s, c))
<1>1. PICK a : a = IF s.left[c[1]] < s.room[c[2]] THEN s.left[c[1]] ELSE s.room[c[2]]
  OBVIOUS
<1>2. \/ Pass(got, s, c) = s
      \/ Pass(got, s, c) = [s EXCEPT !.blocked = s.blocked \cup {c[1]}]
      \/ Pass(got, s, c) = [s EXCEPT !.left = [s.left EXCEPT ![c[1]] = s.left[c[1]] - a],
                                     !.room = [s.room EXCEPT ![c[2]] = s.room[c[2]] - a],
                                     !.links = s.links \cup {[payment |-> c[1], target |-> c[2],
                                                              amount |-> a]}]
  BY <1>1 DEF Pass
<1> QED
  BY <1>2 DEF Within, State

(***************************************************************************)
(* What was planned after some pass is in the plan.                        *)
(***************************************************************************)
LEMMA LoopGrows ==
    ASSUME terms \in Terms, NEW got, WellRead(got), NEW i \in 0 .. Len(Turns(got))
    PROVE  Within(Passes(got)[i], Fill(got))
<1> DEFINE n == Len(Turns(got))
           S == {k \in 0 .. n - i : Within(Passes(got)[i], Passes(got)[i + k])}
<1>1. n \in Nat /\ n - i \in Nat /\ i + (n - i) = n
  BY TurnsInOrder
<1>2. 0 \in S
  BY <1>1 DEF Within
<1>3. ASSUME NEW k \in 0 .. n - i, k \in S, k < n - i
      PROVE  k + 1 \in S
  <2>1. /\ k + 1 \in 0 .. n - i /\ i + k \in 0 .. n
        /\ i + (k + 1) \in 1 .. n /\ (i + (k + 1)) - 1 = i + k
    BY <1>1, <1>3
  <2>2. LoopInv(got, i + k, Passes(got)[i + k])
    BY <2>1, LoopHolds
  <2>3. PICK s : s = Passes(got)[i + k]
    OBVIOUS
  <2>4. s = State(s.left, s.room, s.blocked, s.links)
    BY <2>2, <2>3 DEF LoopInv, LoopType
  <2>5. Passes(got)[i + (k + 1)] = Pass(got, s, Turns(got)[i + (k + 1)])
    BY <1>1, <2>1, <2>3, PassesStep
  <2>6. Within(s, Passes(got)[i + (k + 1)])
    BY <2>4, <2>5, PassGrows
  <2>7. Within(Passes(got)[i], Passes(got)[i + (k + 1)])
    BY <1>3, <2>3, <2>6 DEF Within
  <2> QED
    BY <2>1, <2>7
<1>4. \A k \in 0 .. n - i : k \in S
  <2> HIDE DEF S, n
  <2> QED
    BY <1>1, <1>2, <1>3, StepByStep
<1>5. n - i \in S
  <2>1. n - i \in 0 .. n - i
    BY <1>1
  <2> HIDE DEF S, n
  <2> QED
    BY <1>4, <2>1
<1> QED
  BY <1>1, <1>5 DEF Fill

-----------------------------------------------------------------------------
(* Plans and suggestions of the state as it is *)

(***************************************************************************)
(* A finished plan satisfies the loop's invariant.                         *)
(***************************************************************************)
LEMMA FillHolds ==
    ASSUME terms \in Terms, NEW got, WellRead(got)
    PROVE  LoopInv(got, Len(Turns(got)), Fill(got))
<1>1. Len(Turns(got)) \in 0 .. Len(Turns(got))
  BY TurnsInOrder
<1> QED
  BY <1>1, LoopHolds DEF Fill

(***************************************************************************)
(* What a planner reads of the state as it is.                             *)
(***************************************************************************)
LEMMA ReadsAre ==
    ASSUME NEW R
    PROVE  /\ Reads(R)[1] = PaymentSources /\ Reads(R)[2] = ObligationSources(R)
           /\ Reads(R)[3] = alias /\ Reads(R)[4] = member /\ Reads(R)[5] = ExistingPairs
BY DEF Reads

(***************************************************************************)
(* The two money reads, column by column.                                  *)
(***************************************************************************)
LEMMA SourcesAre ==
    ASSUME NEW R
    PROVE  /\ DOMAIN PaymentSources = {q \in Payments : Active(q)}
           /\ \A p \in DOMAIN PaymentSources :
                /\ PaymentSources[p].left = MoneyLeft(p)
                /\ PaymentSources[p].key = payment[p].facts.key
           /\ DOMAIN ObligationSources(R) =
                {o \in Obligations : /\ obligation[o] > 0
                                     /\ R.from <= terms[o].period
                                     /\ terms[o].period <= R.to}
           /\ \A o \in DOMAIN ObligationSources(R) :
                ObligationSources(R)[o] = Outstanding(o)
BY DEF PaymentSources, ObligationSources

(***************************************************************************)
(* A payment as list_payment_sources reads it.                             *)
(***************************************************************************)
LEMMA ReadPayment ==
    ASSUME NEW R, NEW p
    PROVE  /\ p \in DOMAIN Reads(R)[1] <=> p \in Payments /\ Active(p)
           /\ p \in DOMAIN Reads(R)[1] => /\ Reads(R)[1][p].left = MoneyLeft(p)
                                          /\ Reads(R)[1][p].key = payment[p].facts.key
BY ReadsAre, SourcesAre

(***************************************************************************)
(* An obligation as list_obligation_sources reads it.                      *)
(***************************************************************************)
LEMMA ReadObligation ==
    ASSUME NEW R, NEW o \in DOMAIN Reads(R)[2]
    PROVE  o \in Obligations /\ obligation[o] > 0 /\ Reads(R)[2][o] = Outstanding(o)
<1>1. o \in DOMAIN ObligationSources(R) /\ Reads(R)[2] = ObligationSources(R)
  BY ReadsAre
<1> QED
  BY <1>1 DEF ObligationSources

(***************************************************************************)
(* In a balanced database nothing that is left is negative.                *)
(***************************************************************************)
LEMMA MoneyNumbers ==
    ASSUME TypeOK, Balanced
    PROVE  /\ \A p \in Payments : Active(p) =>
                /\ Amount(p) \in 0 .. MaxAmount /\ Combined(p) \in Nat
                /\ Combined(p) <= Amount(p) /\ MoneyLeft(p) \in 0 .. MaxAmount
                /\ payment[p].facts.key \in Keys
           /\ \A o \in Obligations :
                /\ obligation[o] \in Nat /\ Total(RowsFor(o, rentAllocs)) \in Nat
                /\ Total(RowsFor(o, rentAllocs)) <= obligation[o]
                /\ Outstanding(o) \in Nat /\ Outstanding(o) <= obligation[o]
<1>1. ASSUME NEW p \in Payments, Active(p)
      PROVE  /\ Amount(p) \in 0 .. MaxAmount /\ Combined(p) \in Nat
             /\ Combined(p) <= Amount(p) /\ MoneyLeft(p) \in 0 .. MaxAmount
             /\ payment[p].facts.key \in Keys
  <2>1. payment[p].facts \in Facts
    BY <1>1 DEF TypeOK
  <2>2. Amount(p) \in 0 .. MaxAmount /\ payment[p].facts.key \in Keys
    BY <2>1 DEF Facts, Amount
  <2>3. Combined(p) \in Nat /\ Combined(p) <= Amount(p)
    BY TotalsNat DEF Balanced, PaymentCapacity
  <2>4. MoneyLeft(p) = Amount(p) - Combined(p)
    BY DEF MoneyLeft
  <2> QED
    BY <2>2, <2>3, <2>4, LedgerConstants
<1>2. ASSUME NEW o \in Obligations
      PROVE  /\ obligation[o] \in Nat /\ Total(RowsFor(o, rentAllocs)) \in Nat
             /\ Total(RowsFor(o, rentAllocs)) <= obligation[o]
             /\ Outstanding(o) \in Nat /\ Outstanding(o) <= obligation[o]
  <2>1. obligation[o] \in Nat
    BY LedgerConstants DEF TypeOK
  <2>2. Total(RowsFor(o, rentAllocs)) \in Nat
    BY TotalsNat
  <2>3. Total(RowsFor(o, rentAllocs)) <= obligation[o]
    BY DEF Balanced, TargetCapacity
  <2>4. Outstanding(o) = obligation[o] - Total(RowsFor(o, rentAllocs))
    BY DEF Outstanding
  <2> QED
    BY <2>1, <2>2, <2>3, <2>4
<1> QED
  BY <1>1, <1>2

(***************************************************************************)
(* What is read of the state as it is has the columns.                     *)
(***************************************************************************)
LEMMA FreshReadsWell ==
    ASSUME TypeOK, Balanced, NEW R
    PROVE  WellRead(Reads(R))
<1>1. PaymentRead(PaymentSources)
  BY SourcesAre, MoneyNumbers DEF PaymentRead
<1>2. ObligationRead(ObligationSources(R))
  <2>1. \A o \in DOMAIN ObligationSources(R) : ObligationSources(R)[o] \in Nat
    BY SourcesAre, MoneyNumbers
  <2>2. DOMAIN ObligationSources(R) \in SUBSET Obligations
    BY SourcesAre
  <2>3. ObligationSources(R) = [o \in DOMAIN ObligationSources(R) |-> ObligationSources(R)[o]]
    BY DEF ObligationSources
  <2>4. ObligationSources(R) \in [DOMAIN ObligationSources(R) -> Nat]
    BY <2>1, <2>3
  <2> QED
    BY <2>2, <2>4 DEF ObligationRead
<1> QED
  BY <1>1, <1>2, ReadsAre DEF WellRead

(***************************************************************************)
(* The links of a plan, and what they leave.                               *)
(***************************************************************************)
LEMMA LinksAre ==
    ASSUME terms \in Terms, NEW got, WellRead(got)
    PROVE  /\ Links(got) \in SUBSET RentRow /\ IsFiniteSet(Links(got))
           /\ \A l \in Links(got) :
                /\ l.payment \in DOMAIN got[1] /\ l.target \in DOMAIN got[2]
                /\ <<l.payment, l.target>> \notin got[5]
                /\ <<l.payment, l.target>> \in Pairs(got)
                /\ ~HasPair(l, Links(got) \ {l})
           /\ \A p \in DOMAIN got[1] :
                /\ Fill(got).left[p] \in Nat /\ Total(RowsOf(p, Links(got))) \in Nat
                /\ Fill(got).left[p] + Total(RowsOf(p, Links(got))) = got[1][p].left
           /\ \A o \in DOMAIN got[2] :
                /\ Fill(got).room[o] \in Nat /\ Total(RowsFor(o, Links(got))) \in Nat
                /\ Fill(got).room[o] + Total(RowsFor(o, Links(got))) = got[2][o]
<1> DEFINE s == Fill(got)
           n == Len(Turns(got))
<1>1. /\ LoopType(got, s) /\ LoopMoney(got, s) /\ LoopPairs(got, n, s)
      /\ LoopDone(got, n, s) /\ LoopOrder(got, s)
  BY FillHolds DEF LoopInv
<1> HIDE DEF s
<1>2. s.links \in SUBSET RentRow /\ IsFiniteSet(s.links)
  BY <1>1 DEF LoopType
<1>3. ASSUME NEW l \in s.links
      PROVE  /\ l.payment \in DOMAIN got[1] /\ l.target \in DOMAIN got[2]
             /\ <<l.payment, l.target>> \notin got[5]
             /\ <<l.payment, l.target>> \in Pairs(got)
             /\ ~HasPair(l, s.links \ {l})
  <2>1. l.payment \in DOMAIN got[1] /\ l.target \in DOMAIN got[2]
    BY <1>1 DEF LoopType
  <2>2. /\ <<l.payment, l.target>> \notin got[5]
        /\ \E j \in 1 .. n : Turns(got)[j] = <<l.payment, l.target>>
    BY <1>1 DEF LoopPairs
  <2>3. <<l.payment, l.target>> \in Pairs(got)
    BY <2>2, TurnsInOrder
  <2>4. ~HasPair(l, s.links \ {l})
    BY <1>1 DEF LoopPairs, HasPair
  <2> QED
    BY <2>1, <2>2, <2>3, <2>4
<1>4. ASSUME NEW p \in DOMAIN got[1]
      PROVE  /\ s.left[p] \in Nat /\ Total(RowsOf(p, s.links)) \in Nat
             /\ s.left[p] + Total(RowsOf(p, s.links)) = got[1][p].left
  <2>1. s.left[p] \in 0 .. MaxAmount /\ MaxAmount \in Nat
    BY <1>1, LedgerConstants DEF LoopType
  <2>2. s.left[p] + Total(RowsOf(p, s.links)) = got[1][p].left
    BY <1>1 DEF LoopMoney
  <2>3. Total(RowsOf(p, s.links)) \in Nat
    BY <1>2, LinksPriced, TotalType
  <2> QED
    BY <2>1, <2>2, <2>3
<1>5. ASSUME NEW o \in DOMAIN got[2]
      PROVE  /\ s.room[o] \in Nat /\ Total(RowsFor(o, s.links)) \in Nat
             /\ s.room[o] + Total(RowsFor(o, s.links)) = got[2][o]
  <2>1. s.room[o] \in Nat
    BY <1>1 DEF LoopType
  <2>2. s.room[o] + Total(RowsFor(o, s.links)) = got[2][o]
    BY <1>1 DEF LoopMoney
  <2>3. Total(RowsFor(o, s.links)) \in Nat
    BY <1>2, LinksPriced, TotalType
  <2> QED
    BY <2>1, <2>2, <2>3
<1> QED
  BY <1>2, <1>3, <1>4, <1>5 DEF Links, s

(***************************************************************************)
(* A plan of the state as it is passes every check of the insert.          *)
(***************************************************************************)
LEMMA FreshLinksFit ==
    ASSUME TypeOK, Balanced, terms \in Terms, NEW R
    PROVE  CanInsert(Links(Reads(R)))
<1> DEFINE got == Reads(R)
           L == Links(got)
<1>1. WellRead(got)
  BY FreshReadsWell
<1>2. /\ L \in SUBSET RentRow /\ IsFiniteSet(L)
      /\ \A l \in L : /\ l.payment \in DOMAIN got[1] /\ l.target \in DOMAIN got[2]
                      /\ <<l.payment, l.target>> \notin got[5]
                      /\ ~HasPair(l, L \ {l})
      /\ \A p \in DOMAIN got[1] :
           /\ Fill(got).left[p] \in Nat /\ Total(RowsOf(p, L)) \in Nat
           /\ Fill(got).left[p] + Total(RowsOf(p, L)) = got[1][p].left
      /\ \A o \in DOMAIN got[2] :
           /\ Fill(got).room[o] \in Nat /\ Total(RowsFor(o, L)) \in Nat
           /\ Fill(got).room[o] + Total(RowsFor(o, L)) = got[2][o]
  BY <1>1, LinksAre
<1> HIDE DEF L
<1>3. ASSUME NEW l \in L
      PROVE  /\ Active(l.payment) /\ obligation[l.target] > 0
             /\ ~HasPair(l, rentAllocs) /\ ~HasPair(l, L \ {l})
             /\ Combined(l.payment) + Total(RowsOf(l.payment, L)) <= Amount(l.payment)
             /\ Total(RowsFor(l.target, rentAllocs)) + Total(RowsFor(l.target, L))
                  <= obligation[l.target]
  <2>1. PICK p, o : p = l.payment /\ o = l.target
    OBVIOUS
  <2>2. p \in DOMAIN got[1] /\ o \in DOMAIN got[2]
    BY <1>2, <2>1
  <2>3. /\ p \in Payments /\ Active(p) /\ o \in Obligations /\ obligation[o] > 0
        /\ got[1][p].left = MoneyLeft(p) /\ got[2][o] = Outstanding(o)
    BY <2>2, ReadPayment, ReadObligation
  <2>4. ~HasPair(l, rentAllocs)
    <3>1. <<l.payment, l.target>> \notin ExistingPairs
      BY <1>2, ReadsAre
    <3> QED
      BY <3>1 DEF ExistingPairs, HasPair
  <2>5. Combined(p) + Total(RowsOf(p, L)) <= Amount(p)
    <3> DEFINE t == Total(RowsOf(p, L))
               c == Combined(p)
               left == Fill(got).left[p]
    <3>1. left \in Nat /\ t \in Nat /\ left + t = MoneyLeft(p)
      BY <1>2, <2>2, <2>3
    <3>2. c \in Nat /\ Amount(p) \in Nat /\ MoneyLeft(p) = Amount(p) - c
      BY <2>3, MoneyNumbers DEF MoneyLeft
    <3> HIDE DEF t, c, left
    <3>3. c + t <= Amount(p)
      BY <3>1, <3>2
    <3> QED
      BY <3>3 DEF t, c
  <2>6. Total(RowsFor(o, rentAllocs)) + Total(RowsFor(o, L)) <= obligation[o]
    <3> DEFINE t == Total(RowsFor(o, L))
               c == Total(RowsFor(o, rentAllocs))
               room == Fill(got).room[o]
    <3>1. room \in Nat /\ t \in Nat /\ room + t = Outstanding(o)
      BY <1>2, <2>2, <2>3
    <3>2. c \in Nat /\ obligation[o] \in Nat /\ Outstanding(o) = obligation[o] - c
      BY <2>3, MoneyNumbers DEF Outstanding
    <3> HIDE DEF t, c, room
    <3>3. c + t <= obligation[o]
      BY <3>1, <3>2
    <3> QED
      BY <3>3 DEF t, c
  <2> QED
    BY <1>2, <2>1, <2>3, <2>4, <2>5, <2>6
<1> QED
  BY <1>3 DEF CanInsert, L

(***************************************************************************)
(* FreshPlanAccepted follows from types and balance.                       *)
(***************************************************************************)
LEMMA FreshAccepted ==
    ASSUME TypeOK, Balanced, terms \in Terms
    PROVE  FreshPlanAccepted
BY FreshLinksFit DEF FreshPlanAccepted

(***************************************************************************)
(* Actionable plans spend all the money that was read.                     *)
(***************************************************************************)
LEMMA ActionableSpends ==
    ASSUME terms \in Terms, NEW got, WellRead(got), Actionable(got),
           NEW p \in DOMAIN got[1]
    PROVE  Total(RowsOf(p, Links(got))) = got[1][p].left /\ got[1][p].left \in Nat
<1> DEFINE t == Total(RowsOf(p, Links(got)))
           left == Fill(got).left[p]
           read == got[1][p].left
<1>1. left \in Nat /\ t \in Nat /\ left + t = read
  BY LinksAre
<1>2. read = 0 \/ left = 0
  BY DEF Actionable, Unspent
<1> HIDE DEF t, left, read
<1>3. t = read /\ read \in Nat
  BY <1>1, <1>2
<1> QED
  BY <1>3 DEF t, read

(***************************************************************************)
(* FreshPlanSettles follows from types and balance.                        *)
(***************************************************************************)
LEMMA FreshSettles ==
    ASSUME TypeOK, Balanced, terms \in Terms
    PROVE  FreshPlanSettles
<1> SUFFICES ASSUME NEW R \in Ranges, Actionable(Reads(R))
             PROVE  /\ \A p \in Payments : Active(p) =>
                         Total(RowsOf(p, Links(Reads(R)))) = MoneyLeft(p)
                    /\ \A l \in Links(Reads(R)), o \in DOMAIN ObligationSources(R) :
                         /\ terms[o].account = terms[l.target].account
                         /\ terms[o].due < terms[l.target].due
                         => ~(Total(RowsFor(o, Links(Reads(R)))) < Outstanding(o))
  BY DEF FreshPlanSettles
<1> DEFINE got == Reads(R)
<1>1. WellRead(got)
  BY FreshReadsWell
<1>2. ASSUME NEW p \in Payments, Active(p)
      PROVE  Total(RowsOf(p, Links(got))) = MoneyLeft(p)
  <2>1. p \in DOMAIN got[1] /\ got[1][p].left = MoneyLeft(p)
    BY <1>2, ReadPayment
  <2> QED
    BY <1>1, <2>1, ActionableSpends
<1>3. ASSUME NEW l \in Links(got), NEW o \in DOMAIN ObligationSources(R),
             terms[o].account = terms[l.target].account,
             terms[o].due < terms[l.target].due
      PROVE  ~(Total(RowsFor(o, Links(got))) < Outstanding(o))
  <2>1. o \in DOMAIN got[2] /\ got[2][o] = Outstanding(o)
    BY ReadsAre, SourcesAre
  <2>2. Fill(got).room[o] = 0
    <3>1. LoopOrder(got, Fill(got))
      BY <1>1, FillHolds DEF LoopInv
    <3> QED
      BY <1>3, <2>1, <3>1 DEF LoopOrder, Links
  <2> DEFINE t == Total(RowsFor(o, Links(got)))
  <2>3. t \in Nat /\ Fill(got).room[o] + t = Outstanding(o)
    BY <1>1, <2>1, LinksAre
  <2> HIDE DEF t
  <2>4. ~(t < Outstanding(o))
    BY <2>2, <2>3
  <2> QED
    BY <2>4 DEF t
<1> QED
  BY <1>2, <1>3

(***************************************************************************)
(* Suggestions.                                                            *)
(***************************************************************************)
LEMMA SuggestionIs ==
    ASSUME TypeOK, Balanced, NEW p \in Payments, NEW l \in Suggestions(p)
    PROVE  \E x \in Obligations, a \in Nat :
             /\ l = [payment |-> p, target |-> x, amount |-> a]
             /\ a = IF MoneyLeft(p) < Outstanding(x) THEN MoneyLeft(p) ELSE Outstanding(x)
             /\ Active(p) /\ MoneyLeft(p) > 0 /\ Outstanding(x) > 0
             /\ MoneyLeft(p) \in Nat /\ Outstanding(x) \in Nat
             /\ {c \in Accounts : <<c, alias[SenderOf[payment[p].facts.key]]>> \in member}
                  = {terms[x].account}
             /\ \A y \in Obligations : terms[y].account = terms[x].account
                                       /\ Outstanding(y) > 0 => y = x
<1>1. PICK x \in Obligations :
        /\ l = [payment |-> p, target |-> x,
                amount |-> IF MoneyLeft(p) < Outstanding(x) THEN MoneyLeft(p)
                                                            ELSE Outstanding(x)]
        /\ Active(p) /\ MoneyLeft(p) > 0
        /\ {c \in Accounts : <<c, alias[SenderOf[payment[p].facts.key]]>> \in member}
             = {terms[x].account}
        /\ {y \in Obligations : /\ terms[y].account = terms[x].account
                                /\ Outstanding(y) > 0} = {x}
  BY DEF Suggestions
<1>2. MoneyLeft(p) \in Nat /\ Outstanding(x) \in Nat
  BY <1>1, MoneyNumbers, LedgerConstants
<1>3. PICK a : a = IF MoneyLeft(p) < Outstanding(x) THEN MoneyLeft(p) ELSE Outstanding(x)
  OBVIOUS
<1>4. a \in Nat
  BY <1>2, <1>3
<1>5. Outstanding(x) > 0 /\ \A y \in Obligations : terms[y].account = terms[x].account
                                       /\ Outstanding(y) > 0 => y = x
  BY <1>1
<1> QED
  BY <1>1, <1>2, <1>3, <1>4, <1>5

(***************************************************************************)
(* SuggestionFits follows from types and balance.                          *)
(***************************************************************************)
LEMMA SuggestionsFit ==
    ASSUME TypeOK, Balanced
    PROVE  SuggestionFits
<1> SUFFICES ASSUME NEW p \in Payments, NEW l \in Suggestions(p), ~HasPair(l, rentAllocs)
             PROVE  CanInsert({l})
  BY DEF SuggestionFits
<1>1. PICK x \in Obligations, a \in Nat :
        /\ l = [payment |-> p, target |-> x, amount |-> a]
        /\ a = IF MoneyLeft(p) < Outstanding(x) THEN MoneyLeft(p) ELSE Outstanding(x)
        /\ Active(p) /\ MoneyLeft(p) > 0 /\ Outstanding(x) > 0
        /\ MoneyLeft(p) \in Nat /\ Outstanding(x) \in Nat
  BY SuggestionIs
<1>2. l.payment = p /\ l.target = x /\ l.amount = a
  BY <1>1
<1>3. Total(RowsOf(p, {l})) = a /\ Total(RowsFor(x, {l})) = a
  <2>1. RowsOf(p, {l}) = {l} /\ RowsFor(x, {l}) = {l}
    BY <1>2 DEF RowsOf, RowsFor
  <2> QED
    BY <1>2, <2>1, TotalOfOne
<1>4. a <= MoneyLeft(p) /\ a <= Outstanding(x)
  BY <1>1
<1>5. Combined(p) + a <= Amount(p)
  BY <1>1, <1>4, MoneyNumbers, LedgerConstants DEF MoneyLeft
<1>6. Total(RowsFor(x, rentAllocs)) + a <= obligation[x] /\ obligation[x] > 0
  BY <1>1, <1>4, MoneyNumbers DEF Outstanding
<1>7. ~HasPair(l, {l} \ {l})
  BY DEF HasPair
<1> QED
  BY <1>1, <1>2, <1>3, <1>5, <1>6, <1>7 DEF CanInsert

(***************************************************************************)
(* The payer's one account has one obligation with room, so all the        *)
(* payment's money is planned there, in one link.                          *)
(***************************************************************************)
LEMMA SuggestionsAgree ==
    ASSUME TypeOK, Balanced, terms \in Terms
    PROVE  SuggestionAgrees
<1> SUFFICES ASSUME NEW R \in Ranges, Actionable(Reads(R)),
                    NEW p \in Payments, NEW l \in Suggestions(p)
             PROVE  l \in Links(Reads(R))
  BY DEF SuggestionAgrees
<1> DEFINE got == Reads(R)
           L == Links(got)
<1>1. PICK x \in Obligations, a \in Nat :
        /\ l = [payment |-> p, target |-> x, amount |-> a]
        /\ a = IF MoneyLeft(p) < Outstanding(x) THEN MoneyLeft(p) ELSE Outstanding(x)
        /\ Active(p) /\ MoneyLeft(p) > 0 /\ Outstanding(x) > 0
        /\ MoneyLeft(p) \in Nat /\ Outstanding(x) \in Nat
        /\ {c \in Accounts : <<c, alias[SenderOf[payment[p].facts.key]]>> \in member}
             = {terms[x].account}
        /\ \A y \in Obligations : terms[y].account = terms[x].account
                                  /\ Outstanding(y) > 0 => y = x
  BY SuggestionIs
<1>2. WellRead(got)
  BY FreshReadsWell
<1>3. p \in DOMAIN got[1] /\ got[1][p].left = MoneyLeft(p)
      /\ got[1][p].key = payment[p].facts.key
  BY <1>1, ReadPayment
<1>4. Total(RowsOf(p, L)) = MoneyLeft(p)
  BY <1>2, <1>3, ActionableSpends
<1>5. L \in SUBSET RentRow /\ IsFiniteSet(L)
  BY <1>2, LinksAre
<1>6. RelevantAccounts(p, got) \in SUBSET {terms[x].account}
  <2>1. got[3] = alias /\ got[4] = member
    BY ReadsAre
  <2> QED
    BY <1>1, <1>3, <2>1 DEF RelevantAccounts
<1>7. ASSUME NEW k \in RowsOf(p, L)
      PROVE  k.target = x
  <2>1. k \in L /\ k.payment = p
    BY DEF RowsOf
  <2>2. PICK y : y = k.target
    OBVIOUS
  <2>3. y \in DOMAIN got[2] /\ <<p, y>> \in Pairs(got)
    BY <1>2, <2>1, <2>2, LinksAre
  <2>4. terms[y].account = terms[x].account
    BY <1>6, <2>3 DEF Pairs
  <2>5. y \in Obligations /\ got[2][y] = Outstanding(y)
    BY <2>3, ReadObligation
  <2>6. Total(RowsFor(y, L)) > 0
    <3>1. k \in RowsFor(y, L) /\ \A r \in RowsFor(y, L) : r.amount > 0
      BY <1>5, <2>1, <2>2, LedgerConstants DEF RowsFor, RentRow, Amounts
    <3>2. Total(RowsFor(y, L)) # 0 /\ Total(RowsFor(y, L)) \in Nat
      BY <1>5, <3>1, LinksPriced, TotalZero
    <3> QED
      BY <3>2
  <2>7. Outstanding(y) > 0
    <3> DEFINE t == Total(RowsFor(y, L))
               room == Fill(got).room[y]
    <3>1. room \in Nat /\ t \in Nat /\ room + t = Outstanding(y)
      BY <1>2, <2>3, <2>5, LinksAre
    <3> HIDE DEF room, t
    <3>2. t > 0
      BY <2>6 DEF t
    <3> QED
      BY <3>1, <3>2
  <2> QED
    BY <1>1, <2>2, <2>4, <2>5, <2>7
<1>8. PICK k : k \in RowsOf(p, L)
  <2>1. RowsOf(p, L) # {}
    <3> SUFFICES ASSUME RowsOf(p, L) = {} PROVE FALSE
      OBVIOUS
    <3>1. MoneyLeft(p) = 0
      BY <1>4, TotalEmpty
    <3> QED
      BY <1>1, <3>1
  <2> QED
    BY <2>1
<1>9. RowsOf(p, L) = {k} /\ k \in L /\ k.payment = p /\ k.target = x
  <2>1. \A r \in L : ~HasPair(r, L \ {r})
    BY <1>2, LinksAre
  <2>2. ASSUME NEW r \in RowsOf(p, L)
        PROVE  r = k
    <3>1. r \in L /\ k \in L /\ r.payment = k.payment /\ r.target = k.target
      BY <1>7, <1>8 DEF RowsOf
    <3> QED
      BY <2>1, <3>1 DEF HasPair
  <2> QED
    BY <1>7, <1>8, <2>2 DEF RowsOf
<1>10. k \in RentRow /\ k.amount \in Nat
  BY <1>5, <1>9, LedgerConstants DEF RentRow, Amounts
<1>11. k.amount = MoneyLeft(p)
  BY <1>4, <1>9, <1>10, TotalOfOne
<1>12. k.amount <= Outstanding(x)
  <2>1. x \in DOMAIN got[2] /\ got[2][x] = Outstanding(x)
    BY <1>2, <1>9, LinksAre, ReadObligation
  <2>2. {k} \in SUBSET RowsFor(x, L)
    BY <1>9 DEF RowsFor
  <2>3. Total({k}) <= Total(RowsFor(x, L))
    BY <1>5, <2>2, LinksPriced, TotalMonotone
  <2> DEFINE t == Total(RowsFor(x, L))
             room == Fill(got).room[x]
  <2>4. room \in Nat /\ t \in Nat /\ room + t = Outstanding(x)
    BY <1>2, <2>1, LinksAre
  <2>5. k.amount <= t
    BY <1>10, <2>3, TotalOfOne
  <2> HIDE DEF t, room
  <2> QED
    BY <1>10, <2>4, <2>5
<1>13. a = k.amount
  BY <1>1, <1>11, <1>12
<1>14. k = [payment |-> p, target |-> x, amount |-> a]
  BY <1>9, <1>10, <1>13 DEF RentRow
<1> QED
  BY <1>1, <1>9, <1>14

-----------------------------------------------------------------------------
(* A plan that is applied later *)

(***************************************************************************)
(* Turns in terms of the order of pairs.                                   *)
(***************************************************************************)
LEMMA TurnsAre ==
    ASSUME NEW got
    PROVE  Turns(got) = [i \in 1 .. Cardinality(Pairs(got)) |->
                           CHOOSE c \in Pairs(got) :
                             Cardinality(Earlier(Pairs(got), Sooner(got), c)) = i - 1]
<1> DEFINE S == Pairs(got)
<1>1. \A c \in S : Earlier(S, Sooner(got), c) = {d \in S : Precedes(Turn(d, got), Turn(c, got))}
  BY DEF Earlier, Sooner
<1>2. Turns(got) = [i \in 1 .. Cardinality(S) |-> CHOOSE c \in S :
        Cardinality({d \in S : Precedes(Turn(d, got), Turn(c, got))}) = i - 1]
  BY DEF Turns, Pairs
<1>3. \A i \in 1 .. Cardinality(S) :
        (CHOOSE c \in S : Cardinality({d \in S : Precedes(Turn(d, got), Turn(c, got))}) = i - 1)
          = (CHOOSE c \in S : Cardinality(Earlier(S, Sooner(got), c)) = i - 1)
  BY <1>1
<1> QED
  BY <1>2, <1>3

(***************************************************************************)
(* A plan asked for now, where the links of an earlier one still fit.      *)
(***************************************************************************)
StillFits(got, now) ==
    /\ WellRead(got) /\ WellRead(now) /\ Actionable(got) /\ NothingCameFree(got, now)
    /\ \A l \in Links(got) : <<l.payment, l.target>> \notin now[5]
    /\ \A p \in DOMAIN got[1] : Total(RowsOf(p, Links(got))) <= now[1][p].left
    /\ \A o \in DOMAIN got[2] : Total(RowsFor(o, Links(got))) <= now[2][o]

(***************************************************************************)
(* Such a plan spends all it has read and still fits: no payment has less  *)
(* money than was read, either.                                            *)
(***************************************************************************)
LEMMA SameMoney ==
    ASSUME terms \in Terms, NEW got, NEW now, StillFits(got, now)
    PROVE  /\ DOMAIN now[1] = DOMAIN got[1] /\ DOMAIN now[2] = DOMAIN got[2]
           /\ now[3] = got[3] /\ now[4] = got[4]
           /\ \A p \in DOMAIN got[1] : /\ now[1][p].left = got[1][p].left
                                       /\ now[1][p].key = got[1][p].key
<1>1. /\ DOMAIN now[1] = DOMAIN got[1] /\ DOMAIN now[2] = DOMAIN got[2]
      /\ now[3] = got[3] /\ now[4] = got[4]
  BY DEF StillFits, NothingCameFree
<1>2. ASSUME NEW p \in DOMAIN got[1]
      PROVE  now[1][p].left = got[1][p].left /\ now[1][p].key = got[1][p].key
  <2> DEFINE t == Total(RowsOf(p, Links(got)))
  <2>1. t = got[1][p].left /\ got[1][p].left \in Nat
    BY ActionableSpends DEF StillFits
  <2>2. /\ t <= now[1][p].left /\ now[1][p].left <= got[1][p].left
        /\ now[1][p].key = got[1][p].key
    BY DEF StillFits, NothingCameFree
  <2>3. now[1][p].left \in 0 .. MaxAmount /\ MaxAmount \in Nat
    BY <1>1, LedgerConstants DEF StillFits, WellRead, PaymentRead
  <2> HIDE DEF t
  <2> QED
    BY <2>1, <2>2, <2>3
<1> QED
  BY <1>1, <1>2

(***************************************************************************)
(* So the later plan gives the same pairs the same turns.                  *)
(***************************************************************************)
LEMMA SameTurns ==
    ASSUME terms \in Terms, NEW got, NEW now, StillFits(got, now)
    PROVE  /\ Unspent(now) = Unspent(got)
           /\ \A p \in DOMAIN got[1] : Eligible(p, now) <=> Eligible(p, got)
           /\ Turns(now) = Turns(got)
<1>1. /\ DOMAIN now[1] = DOMAIN got[1] /\ DOMAIN now[2] = DOMAIN got[2]
      /\ now[3] = got[3] /\ now[4] = got[4]
      /\ \A p \in DOMAIN got[1] : /\ now[1][p].left = got[1][p].left
                                  /\ now[1][p].key = got[1][p].key
  BY SameMoney
<1>2. \A p \in DOMAIN got[1] : RelevantAccounts(p, now) = RelevantAccounts(p, got)
  BY <1>1 DEF RelevantAccounts
<1>3. Unspent(now) = Unspent(got)
  BY <1>1 DEF Unspent
<1>4. \A p \in DOMAIN got[1] : Eligible(p, now) <=> Eligible(p, got)
  BY <1>1, <1>2 DEF Eligible
<1>5. Pairs(now) = Pairs(got)
  <2>1. \A p \in Unspent(got) : p \in DOMAIN got[1]
    BY DEF Unspent
  <2> QED
    BY <1>1, <1>2, <1>3, <1>4, <2>1 DEF Pairs
<1>6. Sooner(now) = Sooner(got)
  <2>1. \A c \in Pairs(got) : Turn(c, now) = Turn(c, got)
    <3>1. \A c \in Pairs(got) : c[1] \in DOMAIN got[1]
      BY DEF Pairs, Unspent
    <3> QED
      BY <1>1, <3>1 DEF Turn
  <2> QED
    BY <1>5, <2>1 DEF Sooner
<1>7. Turns(now) = Turns(got)
  <2> DEFINE Ranked(S, R) == [i \in 1 .. Cardinality(S) |->
                                CHOOSE c \in S : Cardinality(Earlier(S, R, c)) = i - 1]
  <2>1. /\ Turns(got) = Ranked(Pairs(got), Sooner(got))
        /\ Turns(now) = Ranked(Pairs(now), Sooner(now))
    BY TurnsAre
  <2> HIDE DEF Ranked
  <2> QED
    BY <1>5, <1>6, <2>1
<1> QED
  BY <1>3, <1>4, <1>7

(***************************************************************************)
(* Nothing is blocked on the way to an actionable plan.                    *)
(***************************************************************************)
LEMMA NothingBlocked ==
    ASSUME terms \in Terms, NEW got, WellRead(got), Actionable(got)
    PROVE  Fill(got).blocked = {}
<1> SUFFICES ASSUME NEW p \in Fill(got).blocked PROVE FALSE
  OBVIOUS
<1>1. p \in DOMAIN got[1] /\ Fill(got).left[p] > 0
  BY FillHolds DEF LoopInv, LoopDone
<1> DEFINE t == Total(RowsOf(p, Links(got)))
           left == Fill(got).left[p]
<1>2. left \in Nat /\ t \in Nat /\ left + t = got[1][p].left
  BY <1>1, LinksAre
<1> HIDE DEF t, left
<1>3. got[1][p].left # 0
  BY <1>1, <1>2 DEF left
<1>4. left = 0
  BY <1>1, <1>3 DEF Actionable, Unspent, left
<1> QED
  BY <1>1, <1>4 DEF left

(***************************************************************************)
(* A pair that is allocated already blocks its payment when its turn       *)
(* comes.                                                                  *)
(***************************************************************************)
LEMMA PassBlocked ==
    ASSUME NEW got, NEW s, LoopType(got, s), NEW p, NEW o,
           ~Over(s, <<p, o>>), <<p, o>> \in got[5]
    PROVE  p \in Pass(got, s, <<p, o>>).blocked
<1>1. s = State(s.left, s.room, s.blocked, s.links)
  BY DEF LoopType
<1>2. PICK c : c = <<p, o>> /\ c[1] = p
  OBVIOUS
<1>3. Pass(got, s, c) = State(s.left, s.room, s.blocked \cup {c[1]}, s.links)
  BY <1>1, <1>2, PassBlocks
<1> QED
  BY <1>2, <1>3 DEF State

(***************************************************************************)
(* Both loops plan the same link in each pass.                             *)
(***************************************************************************)
LEMMA SamePass ==
    ASSUME terms \in Terms, NEW got, NEW now, StillFits(got, now),
           NEW i \in 1 .. Len(Turns(got)),
           NEW s, s = Passes(got)[i - 1], NEW t, t = Passes(now)[i - 1],
           t.links = s.links, t.blocked = {}
    PROVE  /\ Passes(now)[i].links = Passes(got)[i].links
           /\ Passes(now)[i].blocked = {}
<1>1. /\ WellRead(got) /\ WellRead(now) /\ Turns(now) = Turns(got)
      /\ Len(Turns(got)) \in Nat
  BY SameTurns, TurnsInOrder DEF StillFits
<1>2. PICK p, o : p = Turns(got)[i][1] /\ o = Turns(got)[i][2]
  OBVIOUS
<1>3. /\ Turns(got)[i] = <<p, o>> /\ p \in DOMAIN got[1] /\ o \in DOMAIN got[2]
      /\ p \in DOMAIN now[1] /\ o \in DOMAIN now[2]
  <2>1. Turns(got)[i] = <<p, o>> /\ p \in DOMAIN got[1] /\ o \in DOMAIN got[2]
    BY <1>1, <1>2, TurnsInOrder, PairFields
  <2> QED
    BY <2>1, SameMoney
<1>4. PICK sn : sn = Passes(got)[i]
  OBVIOUS
<1>5. PICK tn : tn = Passes(now)[i]
  OBVIOUS
<1>6. sn = Pass(got, s, <<p, o>>) /\ tn = Pass(now, t, <<p, o>>)
  <2>1. Passes(got)[i] = Pass(got, Passes(got)[i - 1], Turns(got)[i])
    BY <1>1, PassesStep
  <2>2. Passes(now)[i] = Pass(now, Passes(now)[i - 1], Turns(now)[i])
    BY <1>1, PassesStep
  <2> QED
    BY <1>1, <1>3, <1>4, <1>5, <2>1, <2>2
<1>7. LoopInv(got, i - 1, s) /\ LoopInv(now, i - 1, t) /\ LoopInv(got, i, sn)
  BY <1>1, <1>4, LoopHolds
<1>8. Within(s, Fill(got)) /\ Within(sn, Fill(got)) /\ Fill(got).blocked = {}
  <2>1. i - 1 \in 0 .. Len(Turns(got)) /\ i \in 0 .. Len(Turns(got))
    BY <1>1
  <2> QED
    BY <1>1, <1>4, <2>1, LoopGrows, NothingBlocked DEF StillFits
<1>9. s.blocked = {} /\ sn.blocked = {} /\ sn.links \subseteq Links(got)
  BY <1>8 DEF Within, Links
<1> DEFINE u == Total(RowsFor(o, s.links))
           w == Total(RowsOf(p, s.links))
           x == s.left[p]
           y == s.room[o]
           v == t.room[o]
<1>10. /\ s.links \in SUBSET RentRow /\ IsFiniteSet(s.links)
       /\ LoopType(got, s) /\ LoopType(now, t)
  BY <1>7 DEF LoopInv, LoopType
<1>11. u \in Nat /\ w \in Nat
  BY <1>10, LinksPriced
<1>12. /\ x \in Nat /\ t.left[p] \in Nat /\ y \in Nat /\ v \in Nat
  <2>1. x \in 0 .. MaxAmount /\ t.left[p] \in 0 .. MaxAmount /\ MaxAmount \in Nat
    BY <1>3, <1>10, LedgerConstants DEF LoopType
  <2>2. y \in Nat /\ v \in Nat
    BY <1>3, <1>10 DEF LoopType
  <2> QED
    BY <2>1, <2>2
<1>13. /\ x + w = got[1][p].left /\ y + u = got[2][o]
       /\ t.left[p] + w = now[1][p].left /\ v + u = now[2][o]
  BY <1>3, <1>7 DEF LoopInv, LoopMoney
<1>14. now[1][p].left = got[1][p].left /\ now[2][o] <= got[2][o]
  BY <1>3, SameMoney DEF StillFits, NothingCameFree
<1> HIDE DEF u, w, x, y, v
<1>15. t.left[p] = x /\ v <= y
  <2>1. PICK l : l = t.left[p]
    OBVIOUS
  <2>2. l + w = x + w /\ l \in Nat
    BY <1>12, <1>13, <1>14, <2>1
  <2>3. v + u <= y + u
    BY <1>13, <1>14
  <2>4. x \in Nat /\ w \in Nat
    BY <1>11, <1>12
  <2>5. u \in Nat /\ v \in Nat /\ y \in Nat
    BY <1>11, <1>12
  <2>6. l = x
    BY <2>2, <2>4
  <2>7. v <= y
    BY <2>3, <2>5
  <2> QED
    BY <2>1, <2>6, <2>7
<1>16. CASE Over(s, <<p, o>>)
  <2>1. x = 0 \/ y <= 0
    BY <1>9, <1>16 DEF Over, x, y
  <2>2. t.left[p] = 0 \/ v <= 0
    BY <1>12, <1>15, <2>1
  <2>3. Over(t, <<p, o>>)
    BY <2>2 DEF Over, v
  <2>4. sn = s /\ tn = t
    BY <1>6, <1>16, <2>3, PassIsOver
  <2> QED
    BY <1>4, <1>5, <2>4
<1>17. CASE ~Over(s, <<p, o>>)
  <2>1. <<p, o>> \notin got[5]
    <3> SUFFICES ASSUME <<p, o>> \in got[5] PROVE FALSE
      OBVIOUS
    <3>1. p \in sn.blocked
      BY <1>6, <1>10, <1>17, PassBlocked
    <3> QED
      BY <1>9, <3>1
  <2>2. PICK a : a = Least(x, y)
    OBVIOUS
  <2>3. Adds(got, s, sn, p, o, a)
    BY <1>3, <1>6, <1>10, <1>17, <2>1, <2>2, PassPlans DEF x, y
  <2>4. x # 0 /\ ~(y <= 0)
    BY <1>17 DEF Over, x, y
  <2>5. a \in Nat /\ a > 0 /\ a <= x /\ a <= y /\ (a = x \/ a = y)
    BY <1>12, <2>2, <2>4 DEF Least
  <2>6. Link(p, o, a) \in Links(got)
    BY <1>9, <2>3 DEF Adds
  <2>7. <<p, o>> \notin now[5]
    BY <2>6 DEF StillFits, Link
  <2>8. a <= v
    <3> DEFINE all == Total(RowsFor(o, Links(got)))
               un == Total(RowsFor(o, sn.links))
    <3>1. sn.room[o] = y - a /\ sn.room[o] + un = got[2][o]
      BY <1>3, <1>7, <2>3 DEF LoopInv, LoopMoney, Adds, y
    <3>2. Links(got) \in SUBSET RentRow /\ IsFiniteSet(Links(got))
      BY <1>1, LinksAre
    <3>3. un <= all /\ un \in Nat /\ all \in Nat
      <4>1. RowsFor(o, sn.links) \in SUBSET RowsFor(o, Links(got))
        BY <1>9 DEF RowsFor
      <4>2. Priced(RowsFor(o, Links(got)), MaxAmount)
        BY <3>2, LinksPriced
      <4> QED
        BY <4>1, <4>2, TotalMonotone, TotalType
    <3>4. all <= now[2][o]
      BY <1>3 DEF StillFits
    <3> HIDE DEF all, un
    <3>5. un = u + a
      <4>1. (y - a) + un = y + u
        BY <1>13, <3>1
      <4>2. u \in Nat /\ y \in Nat /\ un \in Nat /\ a \in Nat
        BY <1>11, <1>12, <2>5, <3>3
      <4> QED
        BY <4>1, <4>2
    <3>6. a + u <= now[2][o]
      <4>1. now[2][o] = v + u
        BY <1>13
      <4>2. u \in Nat /\ v \in Nat /\ a \in Nat /\ un \in Nat /\ all \in Nat
        BY <1>11, <1>12, <2>5, <3>3
      <4> QED
        BY <3>3, <3>4, <3>5, <4>1, <4>2
    <3>7. a + u <= v + u
      BY <1>13, <3>6
    <3> QED
      BY <1>11, <1>12, <2>5, <3>7
  <2>9. ~Over(t, <<p, o>>)
    BY <1>12, <1>15, <2>4, <2>5, <2>8 DEF Over, v
  <2>10. a = Least(t.left[p], t.room[o])
    BY <1>12, <1>15, <2>5, <2>8 DEF Least, v
  <2>11. Adds(now, t, tn, p, o, a)
    BY <1>3, <1>6, <1>10, <2>7, <2>9, <2>10, PassPlans
  <2> QED
    BY <1>4, <1>5, <2>3, <2>11 DEF Adds
<1> QED
  BY <1>16, <1>17

(***************************************************************************)
(* Pass by pass, the later plan is the earlier one.                        *)
(***************************************************************************)
LEMMA SamePlan ==
    ASSUME terms \in Terms, NEW got, NEW now, StillFits(got, now)
    PROVE  Links(now) = Links(got) /\ Actionable(now)
<1> DEFINE n == Len(Turns(got))
           S == {i \in 0 .. n : /\ Passes(now)[i].links = Passes(got)[i].links
                                /\ Passes(now)[i].blocked = {}}
<1>1. /\ WellRead(got) /\ WellRead(now) /\ Turns(now) = Turns(got)
      /\ Len(Turns(got)) \in Nat /\ Actionable(got)
  BY SameTurns, TurnsInOrder DEF StillFits
<1>2. 0 \in S
  <2>1. Passes(now)[0] = Start(now) /\ Passes(got)[0] = Start(got)
    BY <1>1, PassesStep
  <2>2. Start(now).links = {} /\ Start(got).links = {} /\ Start(now).blocked = {}
    BY DEF Start
  <2>3. 0 \in 0 .. n
    BY <1>1
  <2> QED
    BY <2>1, <2>2, <2>3
<1>3. ASSUME NEW i \in 0 .. n, i \in S, i < n
      PROVE  i + 1 \in S
  <2>1. i + 1 \in 1 .. n /\ i + 1 \in 0 .. n /\ (i + 1) - 1 = i
    BY <1>1, <1>3
  <2>2. PICK s, t : s = Passes(got)[i] /\ t = Passes(now)[i]
    OBVIOUS
  <2>3. t.links = s.links /\ t.blocked = {}
    BY <1>3, <2>2
  <2>4. s = Passes(got)[(i + 1) - 1] /\ t = Passes(now)[(i + 1) - 1]
    BY <2>1, <2>2
  <2>5. /\ Passes(now)[i + 1].links = Passes(got)[i + 1].links
        /\ Passes(now)[i + 1].blocked = {}
    BY <2>1, <2>3, <2>4, SamePass
  <2> QED
    BY <2>1, <2>5
<1>4. \A i \in 0 .. n : i \in S
  <2> HIDE DEF S, n
  <2>1. n \in Nat
    BY <1>1 DEF n
  <2> QED
    BY <1>2, <1>3, <2>1, StepByStep
<1>5. n \in S
  <2>1. n \in 0 .. n
    BY <1>1
  <2> HIDE DEF S, n
  <2> QED
    BY <1>4, <2>1
<1>6. Links(now) = Links(got)
  BY <1>1, <1>5 DEF Links, Fill
<1>7. ASSUME NEW p \in Unspent(now)
      PROVE  Eligible(p, now) /\ Fill(now).left[p] = 0
  <2>1. /\ p \in Unspent(got) /\ p \in DOMAIN got[1] /\ p \in DOMAIN now[1]
        /\ now[1][p].left = got[1][p].left
    BY SameTurns, SameMoney DEF Unspent
  <2>2. Eligible(p, got) /\ Fill(got).left[p] = 0
    BY <1>1, <2>1 DEF Actionable
  <2>3. Eligible(p, now)
    BY <2>1, <2>2, SameTurns
  <2> DEFINE t == Total(RowsOf(p, Links(got)))
             x == Fill(got).left[p]
             y == Fill(now).left[p]
  <2>4. x \in Nat /\ t \in Nat /\ x + t = got[1][p].left
    BY <1>1, <2>1, LinksAre
  <2>5. y \in Nat /\ y + t = got[1][p].left
    BY <1>1, <1>6, <2>1, LinksAre
  <2> HIDE DEF t, x, y
  <2>6. y = x
    <3>1. x + t = y + t
      BY <2>4, <2>5
    <3> QED
      BY <2>4, <2>5, <3>1
  <2> QED
    BY <2>2, <2>3, <2>6 DEF x, y
<1>8. \A o \in DOMAIN now[2] : now[2][o] >= 0
  <2>1. \A o \in DOMAIN now[2] : now[2][o] \in Nat
    BY <1>1 DEF WellRead, ObligationRead
  <2> QED
    BY <2>1
<1> QED
  BY <1>6, <1>7, <1>8 DEF Actionable

(***************************************************************************)
(* The invariant: the database is balanced, and what a planner has read so *)
(* far has the columns that it had when it was read.                       *)
(***************************************************************************)
Reading(got) ==
    /\ \E S : got \in Seq(S)
    /\ Len(got) <= 5
    /\ Len(got) >= 1 => PaymentRead(got[1])
    /\ Len(got) >= 2 => ObligationRead(got[2])

PlanOK(x) ==
    /\ x = [range |-> x.range, got |-> x.got, meanwhile |-> x.meanwhile]
    /\ Reading(x.got)
    /\ x.got # <<>> => x.range \in Ranges

MatchingInv ==
    /\ TypeOK /\ Balanced
    /\ alias \in [Senders -> Payers \cup {"none"}]
    /\ member \subseteq Accounts \X Payers
    /\ terms \in Terms
    /\ plan = [a \in Planners |-> plan[a]]
    /\ \A a \in Planners : PlanOK(plan[a])

(***************************************************************************)
(* The invariant is stronger than the type invariant.                      *)
(***************************************************************************)
LEMMA InvGivesType == MatchingInv => MatchingTypeOK
<1> SUFFICES ASSUME MatchingInv PROVE MatchingTypeOK
  OBVIOUS
<1>1. \A a \in Planners : Busy(a) => plan[a].range \in Ranges /\ Len(plan[a].got) <= 5
  BY DEF MatchingInv, PlanOK, Reading, Busy
<1> QED
  BY <1>1 DEF MatchingInv, MatchingTypeOK

(***************************************************************************)
(* A planner that has read nothing has nothing wrong.                      *)
(***************************************************************************)
LEMMA IdleOK == PlanOK(Idle)
<1>1. Idle = [range |-> Idle.range, got |-> Idle.got, meanwhile |-> Idle.meanwhile]
  BY DEF Idle
<1>2. Idle.got = <<>> /\ <<>> \in Seq(Nat) /\ Len(<<>>) = 0
  BY DEF Idle
<1>3. Reading(Idle.got)
  BY <1>2 DEF Reading
<1> QED
  BY <1>1, <1>2, <1>3 DEF PlanOK

(***************************************************************************)
(* The invariant holds initially.                                          *)
(***************************************************************************)
LEMMA InitMatching == MatchingInit => MatchingInv
<1> SUFFICES ASSUME MatchingInit PROVE MatchingInv
  OBVIOUS
<1>1. TypeOK /\ Balanced
  BY InitType, InitBalanced DEF MatchingInit
<1>2. /\ alias \in [Senders -> Payers \cup {"none"}]
      /\ member \subseteq Accounts \X Payers /\ terms \in Terms
  BY DEF MatchingInit
<1>3. plan = [a \in Planners |-> plan[a]] /\ \A a \in Planners : PlanOK(plan[a])
  <2>1. plan = [a \in Planners |-> Idle]
    BY DEF MatchingInit
  <2> QED
    BY <2>1, IdleOK
<1> QED
  BY <1>1, <1>2, <1>3 DEF MatchingInv

(***************************************************************************)
(* The first read is that of the payments.                                 *)
(***************************************************************************)
LEMMA ReadingStarts ==
    ASSUME NEW x, PaymentRead(x)
    PROVE  Reading(<<x>>) /\ <<x>> # <<>>
<1>1. <<x>> \in Seq({x}) /\ Len(<<x>>) = 1 /\ <<x>>[1] = x
  OBVIOUS
<1>2. PICK got : got = <<x>>
  OBVIOUS
<1>3. \E S : got \in Seq(S)
  BY <1>1, <1>2
<1>4. Len(got) <= 5 /\ ~(Len(got) >= 2) /\ got[1] = x
  BY <1>1, <1>2
<1>5. Reading(got)
  BY <1>3, <1>4 DEF Reading
<1> QED
  BY <1>2, <1>5

(***************************************************************************)
(* A further read is added at the end; the second one is that of the       *)
(* obligations.                                                            *)
(***************************************************************************)
LEMMA ReadingGoesOn ==
    ASSUME NEW got, Reading(got), got # <<>>, Len(got) < 5, NEW x,
           Len(got) + 1 = 2 => ObligationRead(x)
    PROVE  Reading(Append(got, x))
<1>1. PICK S : got \in Seq(S)
  BY DEF Reading
<1>2. got \in Seq(S \cup {x}) /\ Append(got, x) \in Seq(S \cup {x})
  <2>1. got \in Seq(S \cup {x})
    BY <1>1
  <2> QED
    BY <2>1
<1>3. /\ Len(got) \in Nat /\ Len(got) # 0
      /\ Len(Append(got, x)) = Len(got) + 1
      /\ \A i \in 1 .. Len(got) : Append(got, x)[i] = got[i]
      /\ Append(got, x)[Len(got) + 1] = x
  BY <1>1, <1>2
<1>4. PaymentRead(Append(got, x)[1])
  BY <1>3 DEF Reading
<1>5. Len(Append(got, x)) >= 2 => ObligationRead(Append(got, x)[2])
  <2>1. CASE Len(got) = 1
    BY <1>3, <2>1
  <2>2. CASE Len(got) >= 2
    BY <1>3, <2>2 DEF Reading
  <2> QED
    BY <1>3, <2>1, <2>2
<1> QED
  BY <1>2, <1>3, <1>4, <1>5 DEF Reading

IdentityOK ==
    /\ alias \in [Senders -> Payers \cup {"none"}]
    /\ member \subseteq Accounts \X Payers
    /\ terms \in Terms

PlansOK ==
    /\ plan = [a \in Planners |-> plan[a]]
    /\ \A a \in Planners : PlanOK(plan[a])

(***************************************************************************)
(* The invariant in four parts.                                            *)
(***************************************************************************)
LEMMA InvParts == MatchingInv <=> TypeOK /\ Balanced /\ IdentityOK /\ PlansOK
BY DEF MatchingInv, IdentityOK, PlansOK

(***************************************************************************)
(* The ledger's parts hold when its variables do not change.               *)
(***************************************************************************)
LEMMA UnchangedVars ==
    ASSUME TypeOK, Balanced, UNCHANGED vars
    PROVE  TypeOK' /\ Balanced'
BY NextType, NextBalanced

(***************************************************************************)
(* What others commit keeps the invariant.                                 *)
(***************************************************************************)
LEMMA CommitKeeps ==
    ASSUME MatchingInv, Commit
    PROVE  MatchingInv'
<1>1. TypeOK /\ Balanced /\ IdentityOK /\ PlansOK
  BY InvParts
<1>2. TypeOK' /\ Balanced' /\ IdentityOK'
  <2>1. CASE Next /\ UNCHANGED identityVars
    <3>1. TypeOK' /\ Balanced'
      BY <1>1, <2>1, NextType, NextBalanced
    <3>2. IdentityOK'
      BY <1>1, <2>1 DEF IdentityOK, identityVars
    <3> QED
      BY <3>1, <3>2
  <2>2. ASSUME NEW n \in Senders, NEW y \in Payers, AddAlias(n, y) \/ RemoveAlias(n, y)
        PROVE  TypeOK' /\ Balanced' /\ IdentityOK'
    <3>1. UNCHANGED vars /\ UNCHANGED <<member, terms>>
      BY <2>2 DEF AddAlias, RemoveAlias
    <3>2. alias' \in [Senders -> Payers \cup {"none"}]
      BY <1>1, <2>2 DEF AddAlias, RemoveAlias, IdentityOK
    <3> QED
      BY <1>1, <3>1, <3>2, UnchangedVars DEF IdentityOK
  <2>3. ASSUME NEW c \in Accounts, NEW y \in Payers, AddPayer(c, y) \/ RemovePayer(c, y)
        PROVE  TypeOK' /\ Balanced' /\ IdentityOK'
    <3>1. UNCHANGED vars /\ UNCHANGED <<alias, terms>>
      BY <2>3 DEF AddPayer, RemovePayer
    <3>2. member' \subseteq Accounts \X Payers
      BY <1>1, <2>3 DEF AddPayer, RemovePayer, IdentityOK
    <3> QED
      BY <1>1, <3>1, <3>2, UnchangedVars DEF IdentityOK
  <2> QED
    BY <2>1, <2>2, <2>3 DEF Commit
<1>3. PlansOK'
  <2>1. plan' = [a \in Planners |->
                  IF Busy(a) THEN [plan[a] EXCEPT !.meanwhile = @ + 1]
                             ELSE plan[a]]
    BY DEF Commit
  <2>2. ASSUME NEW a \in Planners
        PROVE  PlanOK(plan'[a])
    <3>1. PlanOK(plan[a])
      BY <1>1 DEF PlansOK
    <3>2. PICK x : x = plan[a]
      OBVIOUS
    <3>3. PICK z : z = plan'[a]
      OBVIOUS
    <3>4. z = x \/ z = [x EXCEPT !.meanwhile = x.meanwhile + 1]
      BY <2>1, <3>2, <3>3
    <3>5. /\ z = [range |-> z.range, got |-> z.got, meanwhile |-> z.meanwhile]
          /\ z.range = x.range /\ z.got = x.got
      BY <3>1, <3>2, <3>4 DEF PlanOK
    <3> QED
      BY <3>1, <3>2, <3>3, <3>5 DEF PlanOK
  <2>3. plan' = [a \in Planners |-> plan'[a]]
    BY <2>1
  <2> QED
    BY <2>2, <2>3 DEF PlansOK
<1> QED
  BY <1>2, <1>3, InvParts DEF MatchingInv, IdentityOK, PlansOK

(***************************************************************************)
(* A planner's own steps change its own row of plan only.                  *)
(***************************************************************************)
LEMMA PlanRow ==
    ASSUME PlansOK, NEW b \in Planners, NEW z, PlanOK(z), plan' = [plan EXCEPT ![b] = z]
    PROVE  PlansOK'
<1>1. plan = [a \in Planners |-> plan[a]]
  BY DEF PlansOK
<1>2. /\ plan' = [a \in Planners |-> plan'[a]]
      /\ \A a \in Planners : plan'[a] = IF a = b THEN z ELSE plan[a]
  BY <1>1
<1>3. \A a \in Planners : PlanOK(plan'[a])
  BY <1>2 DEF PlansOK
<1> QED
  BY <1>2, <1>3 DEF PlansOK

(***************************************************************************)
(* The first read of a plan keeps the invariant.                           *)
(***************************************************************************)
LEMMA StartKeeps ==
    ASSUME MatchingInv, NEW b \in Planners, NEW R \in Ranges, PlanStart(b, R)
    PROVE  MatchingInv'
<1>1. TypeOK /\ Balanced /\ IdentityOK /\ PlansOK
  BY InvParts
<1>2. TypeOK' /\ Balanced' /\ IdentityOK'
  BY <1>1, UnchangedVars DEF PlanStart, IdentityOK, identityVars
<1>3. PICK x : x = Reads(R)[1]
  OBVIOUS
<1>4. PICK z : z = [range |-> R, got |-> <<x>>, meanwhile |-> 0]
  OBVIOUS
<1>5. plan' = [plan EXCEPT ![b] = z]
  BY <1>3, <1>4 DEF PlanStart
<1>6. PaymentRead(x)
  BY <1>1, <1>3, FreshReadsWell DEF WellRead
<1>7. Reading(<<x>>)
  BY <1>6, ReadingStarts
<1>8. PlanOK(z)
  BY <1>4, <1>7 DEF PlanOK
<1>9. PlansOK'
  BY <1>1, <1>5, <1>8, PlanRow
<1> QED
  BY <1>2, <1>9 DEF MatchingInv, IdentityOK, PlansOK

(***************************************************************************)
(* A further read keeps the invariant.                                     *)
(***************************************************************************)
LEMMA ReadKeeps ==
    ASSUME MatchingInv, NEW b \in Planners, PlanRead(b)
    PROVE  MatchingInv'
<1>1. TypeOK /\ Balanced /\ IdentityOK /\ PlansOK
  BY InvParts
<1>2. TypeOK' /\ Balanced' /\ IdentityOK'
  BY <1>1, UnchangedVars DEF PlanRead, IdentityOK, identityVars
<1>3. PICK y : y = plan[b]
  OBVIOUS
<1>4. PlanOK(y) /\ y.got # <<>> /\ Len(y.got) < 5
  BY <1>1, <1>3 DEF PlansOK, PlanRead, Busy
<1>5. PICK x : x = Reads(y.range)[Len(y.got) + 1]
  OBVIOUS
<1>6. PICK z : z = [y EXCEPT !.got = Append(y.got, x)]
  OBVIOUS
<1>7. plan' = [plan EXCEPT ![b] = z]
  <2>1. plan' = [plan EXCEPT ![b] = [plan[b] EXCEPT !.got =
                   Append(plan[b].got, Reads(plan[b].range)[Len(plan[b].got) + 1])]]
    BY DEF PlanRead
  <2> QED
    BY <1>3, <1>5, <1>6, <2>1
<1>8. Len(y.got) + 1 = 2 => ObligationRead(x)
  BY <1>1, <1>5, FreshReadsWell DEF WellRead
<1>9. Reading(Append(y.got, x))
  BY <1>4, <1>8, ReadingGoesOn DEF PlanOK
<1>10. PlanOK(z)
  BY <1>4, <1>6, <1>9 DEF PlanOK
<1>11. PlansOK'
  BY <1>1, <1>7, <1>10, PlanRow
<1> QED
  BY <1>2, <1>11 DEF MatchingInv, IdentityOK, PlansOK

(***************************************************************************)
(* What a planner has when it applies.                                     *)
(***************************************************************************)
LEMMA ReadAll ==
    ASSUME MatchingInv, NEW b \in Planners, Len(plan[b].got) = 5
    PROVE  WellRead(plan[b].got) /\ plan[b].range \in Ranges
<1>1. PICK y : y = plan[b]
  OBVIOUS
<1>2. PlanOK(y) /\ Len(y.got) = 5
  BY <1>1 DEF MatchingInv
<1>3. y.got # <<>>
  <2>1. Len(<<>>) = 0 /\ ~(0 = 5)
    OBVIOUS
  <2> QED
    BY <1>2, <2>1
<1>4. PaymentRead(y.got[1]) /\ ObligationRead(y.got[2])
  BY <1>2 DEF PlanOK, Reading
<1> QED
  BY <1>1, <1>2, <1>3, <1>4 DEF PlanOK, WellRead

(***************************************************************************)
(* An insert of checked links keeps the ledger's types.                    *)
(***************************************************************************)
LEMMA InsertType ==
    ASSUME TypeOK, NEW L \in SUBSET RentRow, IsFiniteSet(L), InsertRent(L)
    PROVE  TypeOK'
<1>1. IsFiniteSet(rentAllocs \cup L)
  BY FS_Union DEF TypeOK
<1> QED
  BY <1>1 DEF InsertRent, TypeOK, Active, manualVars, feeVars

(***************************************************************************)
(* Applying a plan keeps the invariant.                                    *)
(***************************************************************************)
LEMMA ApplyKeeps ==
    ASSUME MatchingInv, NEW b \in Planners, PlanApply(b)
    PROVE  MatchingInv'
<1>1. TypeOK /\ Balanced /\ IdentityOK /\ PlansOK
  BY InvParts
<1>2. WellRead(plan[b].got)
  BY ReadAll DEF PlanApply
<1>3. PICK L : L = Links(plan[b].got)
  OBVIOUS
<1>4. L \in SUBSET RentRow /\ IsFiniteSet(L)
  BY <1>1, <1>2, <1>3, LinksAre DEF IdentityOK
<1>5. InsertRent(L)
  BY <1>3 DEF PlanApply
<1>6. TypeOK' /\ Balanced'
  BY <1>1, <1>4, <1>5, InsertType, InsertBalanced
<1>7. IdentityOK'
  BY <1>1 DEF PlanApply, IdentityOK, identityVars
<1>8. PlansOK'
  BY <1>1, IdleOK, PlanRow DEF PlanApply
<1> QED
  BY <1>6, <1>7, <1>8 DEF MatchingInv, IdentityOK, PlansOK

(***************************************************************************)
(* Ending a plan keeps the invariant.                                      *)
(***************************************************************************)
LEMMA EndKeeps ==
    ASSUME MatchingInv, NEW b \in Planners, PlanEnd(b)
    PROVE  MatchingInv'
<1>1. TypeOK /\ Balanced /\ IdentityOK /\ PlansOK
  BY InvParts
<1>2. TypeOK' /\ Balanced' /\ IdentityOK'
  BY <1>1, UnchangedVars DEF PlanEnd, IdentityOK, identityVars
<1>3. PlansOK'
  BY <1>1, IdleOK, PlanRow DEF PlanEnd
<1> QED
  BY <1>2, <1>3 DEF MatchingInv, IdentityOK, PlansOK

(***************************************************************************)
(* A step that changes nothing keeps the invariant.                        *)
(***************************************************************************)
LEMMA StillKeeps ==
    ASSUME MatchingInv, UNCHANGED matchingVars
    PROVE  MatchingInv'
<1>1. TypeOK /\ Balanced /\ IdentityOK /\ PlansOK
  BY InvParts
<1>2. TypeOK' /\ Balanced' /\ IdentityOK'
  BY <1>1, UnchangedVars DEF matchingVars, IdentityOK, identityVars
<1>3. PlansOK'
  BY <1>1 DEF matchingVars, PlansOK
<1> QED
  BY <1>2, <1>3 DEF MatchingInv, IdentityOK, PlansOK

(***************************************************************************)
(* Every step keeps the invariant.                                         *)
(***************************************************************************)
LEMMA StepKeeps == MatchingInv /\ [MatchingNext]_matchingVars => MatchingInv'
BY CommitKeeps, StartKeeps, ReadKeeps, ApplyKeeps, EndKeeps, StillKeeps DEF MatchingNext

(***************************************************************************)
(* Only applying a plan ends it and changes the allocations at once: what  *)
(* anybody else commits leaves it going on.                                *)
(***************************************************************************)
LEMMA OnlyApply ==
    ASSUME MatchingInv, [MatchingNext]_matchingVars, NEW a \in Planners,
           Busy(a), plan'[a].got = <<>>, rentAllocs' # rentAllocs
    PROVE  PlanApply(a)
<1>1. plan = [b \in Planners |-> plan[b]] /\ plan[a].got # <<>> /\ PlanOK(plan[a])
  BY DEF MatchingInv, Busy
<1>2. CASE Commit
  <2>1. plan'[a] = [plan[a] EXCEPT !.meanwhile = plan[a].meanwhile + 1]
    BY <1>2 DEF Commit
  <2>2. plan'[a].got = plan[a].got
    BY <1>1, <2>1 DEF PlanOK
  <2> QED
    BY <1>1, <2>2
<1>3. ASSUME NEW b \in Planners, NEW R \in Ranges, PlanStart(b, R)
      PROVE  FALSE
  BY <1>3 DEF PlanStart, vars, allocVars
<1>4. ASSUME NEW b \in Planners, PlanRead(b) \/ PlanEnd(b)
      PROVE  FALSE
  BY <1>4 DEF PlanRead, PlanEnd, vars, allocVars
<1>5. ASSUME NEW b \in Planners, PlanApply(b)
      PROVE  PlanApply(a)
  <2>1. CASE b = a
    BY <1>5, <2>1
  <2>2. CASE b # a
    <3>1. plan'[a] = plan[a]
      BY <1>1, <1>5, <2>2 DEF PlanApply
    <3> QED
      BY <1>1, <3>1
  <2> QED
    BY <2>1, <2>2
<1>6. ~ UNCHANGED matchingVars
  BY DEF matchingVars, vars, allocVars
<1> QED
  BY <1>2, <1>3, <1>4, <1>5, <1>6 DEF MatchingNext

(***************************************************************************)
(* What the checks of the insert say of a plan that was made earlier is    *)
(* all that SamePlan needs.                                                *)
(***************************************************************************)
LEMMA AcceptedStillFits ==
    ASSUME TypeOK, Balanced, terms \in Terms, NEW R, NEW got, WellRead(got),
           Actionable(got), NothingCameFree(got, Reads(R)), CanInsert(Links(got))
    PROVE  StillFits(got, Reads(R))
<1> DEFINE now == Reads(R)
           L == Links(got)
<1>1. WellRead(now)
  BY FreshReadsWell
<1>2. \A l \in L : <<l.payment, l.target>> \notin now[5]
  <2>1. ASSUME NEW l \in L, <<l.payment, l.target>> \in ExistingPairs
        PROVE  FALSE
    <3>1. PICK r \in rentAllocs : <<l.payment, l.target>> = <<r.payment, r.target>>
      BY <2>1 DEF ExistingPairs
    <3>2. HasPair(l, rentAllocs)
      BY <3>1 DEF HasPair
    <3> QED
      BY <3>2 DEF CanInsert
  <2> QED
    BY <2>1, ReadsAre
<1>3. ASSUME NEW p \in DOMAIN got[1]
      PROVE  Total(RowsOf(p, L)) <= now[1][p].left
  <2>1. p \in DOMAIN now[1]
    BY DEF NothingCameFree
  <2>2. p \in Payments /\ Active(p) /\ now[1][p].left = MoneyLeft(p)
    BY <2>1, ReadPayment
  <2>3. /\ Amount(p) \in 0 .. MaxAmount /\ Combined(p) \in Nat
        /\ MoneyLeft(p) \in 0 .. MaxAmount /\ MaxAmount \in Nat
    BY <2>2, MoneyNumbers, LedgerConstants
  <2>4. Total(RowsOf(p, L)) \in Nat
    BY LinksAre
  <2>5. CASE RowsOf(p, L) = {}
    BY <2>2, <2>3, <2>5, TotalEmpty
  <2>6. CASE RowsOf(p, L) # {}
    <3>1. PICK l \in L : l.payment = p
      BY <2>6 DEF RowsOf
    <3>2. Combined(p) + Total(RowsOf(p, L)) <= Amount(p)
      BY <3>1 DEF CanInsert
    <3> QED
      BY <2>2, <2>3, <2>4, <3>2 DEF MoneyLeft
  <2> QED
    BY <2>5, <2>6
<1>4. ASSUME NEW o \in DOMAIN got[2]
      PROVE  Total(RowsFor(o, L)) <= now[2][o]
  <2>1. o \in DOMAIN now[2]
    BY DEF NothingCameFree
  <2>2. o \in Obligations /\ now[2][o] = Outstanding(o)
    BY <2>1, ReadObligation
  <2>3. /\ obligation[o] \in Nat /\ Total(RowsFor(o, rentAllocs)) \in Nat
        /\ Outstanding(o) \in Nat
    BY <2>2, MoneyNumbers
  <2>4. Total(RowsFor(o, L)) \in Nat
    BY LinksAre
  <2>5. CASE RowsFor(o, L) = {}
    BY <2>2, <2>3, <2>5, TotalEmpty
  <2>6. CASE RowsFor(o, L) # {}
    <3>1. PICK l \in L : l.target = o
      BY <2>6 DEF RowsFor
    <3>2. Total(RowsFor(o, rentAllocs)) + Total(RowsFor(o, L)) <= obligation[o]
      BY <3>1 DEF CanInsert
    <3> QED
      BY <2>2, <2>3, <2>4, <3>2 DEF Outstanding
  <2> QED
    BY <2>5, <2>6
<1> QED
  BY <1>1, <1>2, <1>3, <1>4 DEF StillFits

(***************************************************************************)
(* The step that applies a plan applies the plan of that moment.           *)
(***************************************************************************)
LEMMA AppliedStep ==
    ASSUME MatchingInv, [MatchingNext]_matchingVars, NEW a \in Planners,
           Busy(a), plan'[a].got = <<>>, rentAllocs' # rentAllocs,
           NothingCameFree(plan[a].got, Reads(plan[a].range))
    PROVE  /\ rentAllocs' = rentAllocs \cup Links(Reads(plan[a].range))
           /\ Actionable(Reads(plan[a].range))
<1>1. PlanApply(a)
  BY OnlyApply
<1>2. PICK got, R : got = plan[a].got /\ R = plan[a].range
  OBVIOUS
<1>3. Len(got) = 5 /\ Actionable(got) /\ InsertRent(Links(got))
  BY <1>1, <1>2 DEF PlanApply
<1>4. WellRead(got)
  BY <1>2, <1>3, ReadAll
<1>5. StillFits(got, Reads(R))
  BY <1>2, <1>3, <1>4, AcceptedStillFits DEF InsertRent, MatchingInv
<1>6. Links(Reads(R)) = Links(got) /\ Actionable(Reads(R))
  BY <1>5, SamePlan DEF MatchingInv
<1> QED
  BY <1>2, <1>3, <1>6 DEF InsertRent

-----------------------------------------------------------------------------
(* The month close *)

(***************************************************************************)
(* What a month that is reported CLEAR owes to the reads that say so.      *)
(***************************************************************************)
Cleared(m) ==
    /\ \A o \in Charged(m) : Outstanding(o) = 0
    /\ \A p \in Payments : Active(p) =>
         /\ MoneyLeft(p) = 0
         /\ alias[SenderOf[payment[p].facts.key]] # "none"
    /\ \A e \in Emails : Stored(e)
    /\ Missing(m) = {}

(***************************************************************************)
(* Without money left there is nothing to plan.                            *)
(***************************************************************************)
LEMMA NothingToPlan ==
    ASSUME TypeOK, Balanced, terms \in Terms, NEW R,
           \A p \in Payments : Active(p) => MoneyLeft(p) = 0
    PROVE  Actionable(Reads(R)) /\ Links(Reads(R)) = {}
<1>1. Unspent(Reads(R)) = {}
  BY ReadPayment DEF Unspent
<1>2. WellRead(Reads(R))
  BY FreshReadsWell
<1>3. \A l \in Links(Reads(R)) : <<l.payment, l.target>> \in Pairs(Reads(R))
  BY <1>2, LinksAre
<1>4. Links(Reads(R)) = {}
  BY <1>1, <1>3 DEF Pairs
<1>5. \A o \in DOMAIN Reads(R)[2] : Reads(R)[2][o] >= 0
  BY ReadObligation, MoneyNumbers
<1> QED
  BY <1>1, <1>4, <1>5 DEF Actionable

(***************************************************************************)
(* In a month that is cleared no command has anything to do.               *)
(***************************************************************************)
LEMMA ClearedIsDone ==
    ASSUME TypeOK, Balanced, terms \in Terms, NEW m \in Months, Cleared(m)
    PROVE  Done(m)
<1>1. \A e \in Parses : Stored(e)
  BY LedgerConstants DEF Cleared
<1>2. \A R \in Ranges : Actionable(Reads(R)) /\ Links(Reads(R)) = {}
  BY NothingToPlan DEF Cleared
<1>3. \A x \in Expected : x.period = m
        => \E o \in Obligations : /\ terms[o].account = x.account
                                  /\ terms[o].period = m /\ obligation[o] > 0
  BY DEF Cleared, Missing, Charged
<1>4. ASSUME NEW o \in Obligations, terms[o].period = m
      PROVE  Total(RowsFor(o, rentAllocs)) = obligation[o]
  <2> DEFINE paid == Total(RowsFor(o, rentAllocs))
             due  == obligation[o]
  <2>1. due \in Nat /\ paid \in Nat /\ paid <= due /\ Outstanding(o) = due - paid
    BY MoneyNumbers DEF Outstanding
  <2>2. due > 0 => Outstanding(o) = 0
    BY <1>4 DEF Cleared, Charged
  <2> HIDE DEF paid, due
  <2>3. paid = due
    BY <2>1, <2>2
  <2> QED
    BY <2>3 DEF paid, due
<1>5. \A r \in rentAllocs : alias[SenderOf[payment[r.payment].facts.key]] # "none"
  BY DEF Cleared, Balanced, LinksJoinActive, TypeOK, RentRow
<1> QED
  BY <1>1, <1>2, <1>3, <1>4, <1>5 DEF Done

(***************************************************************************)
(* So it is in every state; as one fact, for the states before and after a *)
(* step alike.                                                             *)
(***************************************************************************)
ClearedMonthsAreDone == \A m \in Months : Cleared(m) => Done(m)

(***************************************************************************)
(* A reachable state has no cleared month that is not done.                *)
(***************************************************************************)
LEMMA AllClearedDone == MatchingInv => ClearedMonthsAreDone
BY ClearedIsDone DEF MatchingInv, ClearedMonthsAreDone

(***************************************************************************)
(* The checks of the report, of whatever its reads found.                  *)
(***************************************************************************)
LEMMA ClearMixed ==
    ASSUME NEW before, NEW after, NEW k \in 0 .. 7,
           Clear([i \in 1 .. 7 |-> IF i <= k THEN before[i] ELSE after[i]])
    PROVE  /\ (IF k >= 1 THEN before[1] ELSE after[1]) \subseteq {0}
           /\ (IF k >= 6 THEN before[6] ELSE after[6]).payments # {} =>
                /\ (IF k >= 2 THEN before[2] ELSE after[2])
                     \subseteq (IF k >= 3 THEN before[3] ELSE after[3])
                /\ (IF k >= 4 THEN before[4] ELSE after[4]) \subseteq {0}
           /\ (IF k >= 5 THEN before[5] ELSE after[5]) = {}
           /\ (IF k >= 7 THEN before[7] ELSE after[7]) = {}
<1>1. PICK got : got = [i \in 1 .. 7 |-> IF i <= k THEN before[i] ELSE after[i]]
  OBVIOUS
<1>2. /\ got[1] = (IF k >= 1 THEN before[1] ELSE after[1])
      /\ got[2] = (IF k >= 2 THEN before[2] ELSE after[2])
      /\ got[3] = (IF k >= 3 THEN before[3] ELSE after[3])
      /\ got[4] = (IF k >= 4 THEN before[4] ELSE after[4])
      /\ got[5] = (IF k >= 5 THEN before[5] ELSE after[5])
      /\ got[6] = (IF k >= 6 THEN before[6] ELSE after[6])
      /\ got[7] = (IF k >= 7 THEN before[7] ELSE after[7])
  BY <1>1
<1>3. /\ got[1] \subseteq {0}
      /\ got[6].payments # {} => got[2] \subseteq got[3] /\ got[4] \subseteq {0}
      /\ got[5] = {} /\ got[7] = {}
  BY <1>1 DEF Clear
<1> QED
  BY <1>2, <1>3

(***************************************************************************)
(* What neither a command nor the time between two reads takes back.       *)
(***************************************************************************)
LEMMA NothingTakenBack ==
    ASSUME MatchingInv, [MatchingNext]_matchingVars
    PROVE  /\ terms' = terms
           /\ \A o \in Obligations : obligation[o] > 0 => obligation'[o] = obligation[o]
           /\ \A e \in Emails : Stored(e) => Stored(e)'
<1>1. TypeOK
  BY DEF MatchingInv
<1>2. ASSUME [Next]_vars, terms' = terms
      PROVE  /\ terms' = terms
             /\ \A o \in Obligations : obligation[o] > 0 => obligation'[o] = obligation[o]
             /\ \A e \in Emails : Stored(e) => Stored(e)'
  BY <1>1, <1>2, ChargesStay, StoredStays DEF Payments
<1>3. ASSUME NEW a \in Planners, PlanApply(a)
      PROVE  /\ terms' = terms
             /\ \A o \in Obligations : obligation[o] > 0 => obligation'[o] = obligation[o]
             /\ \A e \in Emails : Stored(e) => Stored(e)'
  BY <1>3 DEF PlanApply, InsertRent, identityVars, Stored
<1>4. ASSUME NEW a \in Planners, NEW R, PlanStart(a, R) \/ PlanRead(a) \/ PlanEnd(a)
      PROVE  UNCHANGED vars /\ terms' = terms
  BY <1>4 DEF PlanStart, PlanRead, PlanEnd, identityVars
<1>5. ASSUME NEW n, NEW y, AddAlias(n, y) \/ RemoveAlias(n, y) \/ AddPayer(n, y) \/ RemovePayer(n, y)
      PROVE  UNCHANGED vars /\ terms' = terms
  BY <1>5 DEF AddAlias, RemoveAlias, AddPayer, RemovePayer
<1>6. Commit => [Next]_vars /\ terms' = terms
  BY <1>5 DEF Commit, identityVars
<1> QED
  BY <1>2, <1>3, <1>4, <1>6 DEF MatchingNext, matchingVars, identityVars

(***************************************************************************)
(* What a report says of the state in which all of it was read.            *)
(***************************************************************************)
LEMMA ReportIs ==
    ASSUME NEW m
    PROVE  /\ MonthReads(m)[1] = RentRows(m) /\ MonthReads(m)[2] = ActiveSenders
           /\ MonthReads(m)[3] = KnownSenders /\ MonthReads(m)[4] = UnspentMoney
           /\ MonthReads(m)[5] = UnparsedEmails /\ MonthReads(m)[7] = Missing(m)
           /\ MonthReads(m)[6].payments = ActivePayments
BY DEF MonthReads

(***************************************************************************)
(* What the single reads say when they find nothing; again as one fact.    *)
(***************************************************************************)
ReadsMean ==
    /\ \A m \in Months :
         RentRows(m) \subseteq {0} => \A o \in Charged(m) : Outstanding(o) = 0
    /\ ActiveSenders \subseteq KnownSenders =>
         \A p \in Payments : Active(p) => alias[SenderOf[payment[p].facts.key]] # "none"
    /\ UnspentMoney \subseteq {0} => \A p \in Payments : Active(p) => MoneyLeft(p) = 0
    /\ UnparsedEmails = {} => \A e \in Emails : Stored(e)

(***************************************************************************)
(* That is what they are defined to find.                                  *)
(***************************************************************************)
LEMMA AllReadsMean == ReadsMean
BY DEF ReadsMean, RentRows, ActiveSenders, KnownSenders, ActivePayments, UnspentMoney,
       UnparsedEmails

(***************************************************************************)
(* The sums of a state that satisfies the invariant, as one fact for the   *)
(* states before and after a step alike.                                   *)
(***************************************************************************)
SumsFit ==
    /\ \A o \in Obligations :
         /\ obligation[o] \in Nat /\ Total(RowsFor(o, rentAllocs)) \in Nat
         /\ Total(RowsFor(o, rentAllocs)) <= obligation[o]
         /\ Outstanding(o) = obligation[o] - Total(RowsFor(o, rentAllocs))
         /\ \A R \in SUBSET rentAllocs :
              Total(RowsFor(o, R)) <= Total(RowsFor(o, rentAllocs))
    /\ \A p \in Payments : Active(p) =>
         /\ Amount(p) \in Nat /\ Combined(p) \in Nat /\ Combined(p) <= Amount(p)
         /\ MoneyLeft(p) = Amount(p) - Combined(p)
         /\ \A R \in SUBSET rentAllocs, F \in SUBSET feeAllocs :
              Total(RowsOf(p, R)) + Total(RowsOf(p, F)) <= Combined(p)

(***************************************************************************)
(* Sums fit where types and balance hold.                                  *)
(***************************************************************************)
LEMMA AllSumsFit == MatchingInv => SumsFit
<1> SUFFICES ASSUME TypeOK, Balanced PROVE SumsFit
  BY DEF MatchingInv
<1>1. ASSUME NEW o \in Obligations, NEW R \in SUBSET rentAllocs
      PROVE  Total(RowsFor(o, R)) <= Total(RowsFor(o, rentAllocs))
  <2>1. RowsFor(o, R) \in SUBSET RowsFor(o, rentAllocs)
    BY DEF RowsFor
  <2> QED
    BY <2>1, RowsPriced, TotalMonotone
<1>2. ASSUME NEW p \in Payments, NEW R \in SUBSET rentAllocs, NEW F \in SUBSET feeAllocs
      PROVE  Total(RowsOf(p, R)) + Total(RowsOf(p, F)) <= Combined(p)
  <2> DEFINE a == Total(RowsOf(p, R))           b == Total(RowsOf(p, F))
             x == Total(RowsOf(p, rentAllocs))  y == Total(RowsOf(p, feeAllocs))
  <2>1. /\ RowsOf(p, R) \in SUBSET RowsOf(p, rentAllocs)
        /\ RowsOf(p, F) \in SUBSET RowsOf(p, feeAllocs)
    BY DEF RowsOf
  <2>2. a <= x /\ b <= y /\ a \in Nat /\ b \in Nat
    BY <2>1, RowsPriced, TotalMonotone, TotalType
  <2>3. x \in Nat /\ y \in Nat /\ Combined(p) = x + y
    BY TotalsNat DEF Combined
  <2> HIDE DEF a, b, x, y
  <2>4. a + b <= x + y
    BY <2>2, <2>3
  <2> QED
    BY <2>3, <2>4 DEF a, b
<1> QED
  BY <1>1, <1>2, MoneyNumbers DEF SumsFit, Outstanding, MoneyLeft

(***************************************************************************)
(* Between two reads the rent of the month stays paid, unless the step     *)
(* undoes the close.                                                       *)
(***************************************************************************)
LEMMA RentStaysPaid ==
    ASSUME MatchingInv, [MatchingNext]_matchingVars, SumsFit, SumsFit',
           NEW m, ~Undoes(m), \A o \in Charged(m) : Outstanding(o) = 0
    PROVE  \A o \in Charged(m)' : Outstanding(o)' = 0
<1> SUFFICES ASSUME NEW o \in Charged(m)'
             PROVE  Outstanding(o)' = 0
  OBVIOUS
<1> DEFINE paid == Total(RowsFor(o, rentAllocs))
           now  == Total(RowsFor(o, rentAllocs'))
<1>1. o \in Charged(m) /\ o \in Obligations /\ obligation[o] > 0 /\ Outstanding(o) = 0
  BY DEF Undoes, Charged
<1>2. rentAllocs \in SUBSET rentAllocs'
  BY DEF Undoes
<1>3. obligation'[o] = obligation[o]
  BY <1>1, NothingTakenBack
<1>4. obligation[o] \in Nat /\ paid \in Nat /\ Outstanding(o) = obligation[o] - paid
  BY <1>1 DEF SumsFit
<1>5. now \in Nat /\ now <= obligation'[o] /\ Outstanding(o)' = obligation'[o] - now
  BY <1>1 DEF SumsFit
<1>6. paid <= now
  BY <1>1, <1>2 DEF SumsFit
<1> HIDE DEF paid, now
<1> QED
  BY <1>1, <1>3, <1>4, <1>5, <1>6

(***************************************************************************)
(* The money of a payment stays spent likewise.                            *)
(***************************************************************************)
LEMMA MoneyStaysSpent ==
    ASSUME SumsFit, SumsFit', NEW m, ~Undoes(m), NEW p \in Payments, Active(p)',
           Active(p) => MoneyLeft(p) = 0
    PROVE  MoneyLeft(p)' = 0
<1>1. payment'[p] = payment[p]
  BY DEF Undoes
<1>2. Active(p) /\ Amount(p)' = Amount(p)
  BY <1>1 DEF Active, Amount
<1>3. /\ Amount(p) \in Nat /\ Combined(p) \in Nat
      /\ MoneyLeft(p) = Amount(p) - Combined(p)
  BY <1>2 DEF SumsFit
<1>4. /\ Combined(p)' \in Nat /\ Combined(p)' <= Amount(p)'
      /\ MoneyLeft(p)' = Amount(p)' - Combined(p)'
  BY DEF SumsFit
<1>5. Combined(p) <= Combined(p)'
  BY DEF Undoes, SumsFit, Combined
<1> QED
  BY <1>2, <1>3, <1>4, <1>5

(***************************************************************************)
(* Nor does a payment come or a sender become unknown.                     *)
(***************************************************************************)
LEMMA SendersStayKnown ==
    ASSUME NEW m, ~Undoes(m)
    PROVE  /\ ActivePayments' \subseteq ActivePayments
           /\ ActiveSenders' \subseteq ActiveSenders /\ KnownSenders \subseteq KnownSenders'
<1>1. ASSUME NEW p \in Payments, Active(p)'
      PROVE  Active(p) /\ payment'[p] = payment[p]
  BY <1>1 DEF Undoes, Active
<1> QED
  BY <1>1 DEF Undoes, ActiveSenders, ActivePayments, KnownSenders

(***************************************************************************)
(* Rent that was expected and charged is both after the step.              *)
(***************************************************************************)
LEMMA NothingGoesMissing ==
    ASSUME MatchingInv, [MatchingNext]_matchingVars, NEW m, ~Undoes(m), Missing(m) = {}
    PROVE  Missing(m)' = {}
<1>1. Charged(m)' = Charged(m) /\ terms' = terms
  BY NothingTakenBack DEF Undoes
<1> QED
  BY <1>1 DEF Missing

(***************************************************************************)
(* So a month is cleared after the step when its report, read before the   *)
(* step up to its k-th read and after it from there on, finds nothing.     *)
(***************************************************************************)
LEMMA TornReportClears ==
    ASSUME MatchingInv, [MatchingNext]_matchingVars, SumsFit, SumsFit',
           ReadsMean, ReadsMean', NEW m \in Months,
           NEW k \in IF Undoes(m) THEN {0} ELSE 0 .. 7,
           Clear([i \in 1 .. 7 |-> IF i <= k THEN MonthReads(m)[i] ELSE MonthReads(m)'[i]])
    PROVE  Cleared(m)'
<1>1. k \in 0 .. 7 /\ (Undoes(m) => k = 0)
  OBVIOUS
<1>2. /\ (IF k >= 1 THEN RentRows(m) ELSE RentRows(m)') \subseteq {0}
      /\ (IF k >= 6 THEN ActivePayments ELSE ActivePayments') # {} =>
           /\ (IF k >= 2 THEN ActiveSenders ELSE ActiveSenders')
                \subseteq (IF k >= 3 THEN KnownSenders ELSE KnownSenders')
           /\ (IF k >= 4 THEN UnspentMoney ELSE UnspentMoney') \subseteq {0}
      /\ (IF k >= 5 THEN UnparsedEmails ELSE UnparsedEmails') = {}
      /\ (IF k >= 7 THEN Missing(m) ELSE Missing(m)') = {}
  <2>1. PICK before, after : before = MonthReads(m) /\ after = MonthReads(m)'
    OBVIOUS
  <2>2. /\ (IF k >= 1 THEN before[1] ELSE after[1]) \subseteq {0}
        /\ (IF k >= 6 THEN before[6] ELSE after[6]).payments # {} =>
             /\ (IF k >= 2 THEN before[2] ELSE after[2])
                  \subseteq (IF k >= 3 THEN before[3] ELSE after[3])
             /\ (IF k >= 4 THEN before[4] ELSE after[4]) \subseteq {0}
        /\ (IF k >= 5 THEN before[5] ELSE after[5]) = {}
        /\ (IF k >= 7 THEN before[7] ELSE after[7]) = {}
    BY <1>1, <2>1, ClearMixed
  <2>3. /\ after[1] = RentRows(m)' /\ after[2] = ActiveSenders' /\ after[3] = KnownSenders'
        /\ after[4] = UnspentMoney' /\ after[5] = UnparsedEmails' /\ after[7] = Missing(m)'
        /\ after[6].payments = ActivePayments'
    BY <2>1 DEF MonthReads
  <2> QED
    BY <2>1, <2>2, <2>3, ReportIs
<1>3. \A o \in Charged(m)' : Outstanding(o)' = 0
  <2>1. CASE k >= 1
    BY <1>1, <1>2, <2>1, RentStaysPaid DEF ReadsMean
  <2>2. CASE ~(k >= 1)
    BY <1>2, <2>2 DEF ReadsMean
  <2> QED
    BY <2>1, <2>2
<1>4. Undoes(m) \/ /\ ActivePayments' \subseteq ActivePayments
                   /\ ActiveSenders' \subseteq ActiveSenders
                   /\ KnownSenders \subseteq KnownSenders'
  BY SendersStayKnown
<1>5. ActivePayments' # {} => (IF k >= 6 THEN ActivePayments ELSE ActivePayments') # {}
  BY <1>1, <1>4
<1>6. ASSUME NEW p \in Payments, Active(p)'
      PROVE  MoneyLeft(p)' = 0
  <2>1. (IF k >= 4 THEN UnspentMoney ELSE UnspentMoney') \subseteq {0}
    BY <1>2, <1>5, <1>6 DEF ActivePayments
  <2>2. CASE k >= 4
    BY <1>1, <1>6, <2>1, <2>2, MoneyStaysSpent DEF ReadsMean
  <2>3. CASE ~(k >= 4)
    BY <1>6, <2>1, <2>3 DEF ReadsMean
  <2> QED
    BY <2>2, <2>3
<1>7. \A p \in Payments : Active(p)' => alias'[SenderOf[payment'[p].facts.key]] # "none"
  <2>1. ActivePayments' # {} => ActiveSenders' \subseteq KnownSenders'
    BY <1>1, <1>2, <1>4, <1>5
  <2> QED
    BY <2>1 DEF ReadsMean, ActivePayments
<1>8. \A e \in Emails : Stored(e)'
  <2>1. CASE k >= 5
    BY <1>2, <2>1, NothingTakenBack DEF ReadsMean
  <2>2. CASE ~(k >= 5)
    BY <1>2, <2>2 DEF ReadsMean
  <2> QED
    BY <2>1, <2>2
<1>9. Missing(m)' = {}
  <2>1. CASE k >= 7
    BY <1>1, <1>2, <2>1, NothingGoesMissing
  <2>2. CASE ~(k >= 7)
    BY <1>2, <2>2
  <2> QED
    BY <2>1, <2>2
<1> QED
  BY <1>3, <1>6, <1>7, <1>8, <1>9 DEF Cleared

-----------------------------------------------------------------------------
(* The theorems *)

(***************************************************************************)
(* Whatever is read between the commits of others, the database stays well *)
(* typed and in balance, and a planner's reads have the columns they are   *)
(* used with.                                                              *)
(***************************************************************************)
THEOREM MatchingInvariant == MatchingSpec => []MatchingInv
<1>1. MatchingInit => MatchingInv
  BY InitMatching
<1>2. MatchingInv /\ [MatchingNext]_matchingVars => MatchingInv'
  BY StepKeeps
<1> QED
  BY <1>1, <1>2, PTL DEF MatchingSpec

(***************************************************************************)
(* Every alias names a payer, every plan holds at most its five reads      *)
(* (build_allocation_plan).                                                *)
(***************************************************************************)
THEOREM MatchingTypeCorrect == MatchingSpec => []MatchingTypeOK
<1>1. MatchingInv => MatchingTypeOK
  BY InvGivesType
<1> QED
  BY <1>1, MatchingInvariant, PTL

(***************************************************************************)
(* No payment is spent beyond its amount and no obligation paid beyond its *)
(* own, however many plans are made and applied at a time.                 *)
(***************************************************************************)
THEOREM PlansKeepBalance == MatchingSpec => []Balanced
<1>1. MatchingInv => Balanced
  BY DEF MatchingInv
<1> QED
  BY <1>1, MatchingInvariant, PTL

(***************************************************************************)
(* A plan built of the state as it is passes all the checks of             *)
(* create_many_checked.                                                    *)
(***************************************************************************)
THEOREM FreshPlansAreAccepted == MatchingSpec => []FreshPlanAccepted
<1>1. MatchingInv => FreshPlanAccepted
  BY FreshAccepted DEF MatchingInv
<1> QED
  BY <1>1, MatchingInvariant, PTL

(***************************************************************************)
(* An actionable plan spends every payment it reads, oldest debts first.   *)
(***************************************************************************)
THEOREM FreshPlansSettle == MatchingSpec => []FreshPlanSettles
<1>1. MatchingInv => FreshPlanSettles
  BY FreshSettles DEF MatchingInv
<1> QED
  BY <1>1, MatchingInvariant, PTL

(***************************************************************************)
(* What allocation suggest shows can be entered, unless the payment is     *)
(* linked to that obligation already.                                      *)
(***************************************************************************)
THEOREM SuggestionsCanBeFollowed == MatchingSpec => []SuggestionFits
<1>1. MatchingInv => SuggestionFits
  BY SuggestionsFit DEF MatchingInv
<1> QED
  BY <1>1, MatchingInvariant, PTL

(***************************************************************************)
(* An actionable plan of all periods contains every suggested link as it   *)
(* is suggested.                                                           *)
(***************************************************************************)
THEOREM SuggestionsAgreeWithPlans == MatchingSpec => []SuggestionAgrees
<1>1. MatchingInv => SuggestionAgrees
  BY SuggestionsAgree DEF MatchingInv
<1> QED
  BY <1>1, MatchingInvariant, PTL

(***************************************************************************)
(* A plan that passes the checks when it is applied is the plan of that    *)
(* moment, unless a row it reads was added or changed, or money came free. *)
(***************************************************************************)
THEOREM AppliedPlansAreCurrent == MatchingSpec => AppliedPlanIsCurrent
<1>1. MatchingInv /\ [MatchingNext]_matchingVars
        => [\A a \in Planners :
              /\ Busy(a) /\ plan'[a].got = <<>> /\ rentAllocs' # rentAllocs
              /\ NothingCameFree(plan[a].got, Reads(plan[a].range))
              => /\ rentAllocs' = rentAllocs \cup Links(Reads(plan[a].range))
                 /\ Actionable(Reads(plan[a].range))]_matchingVars
  BY AppliedStep
<1> QED
  BY <1>1, MatchingInvariant, PTL DEF MatchingSpec, AppliedPlanIsCurrent

(***************************************************************************)
(* A month that is reported CLEAR is done, wherever a command committed    *)
(* between the reads of the report, unless that command undoes it.         *)
(***************************************************************************)
THEOREM TornReportIsRight == MatchingSpec => TornCloseIsRight
<1>1. MatchingInv => SumsFit /\ ClearedMonthsAreDone /\ ReadsMean
  BY AllSumsFit, AllClearedDone, AllReadsMean
<1>2. /\ MatchingInv /\ SumsFit /\ ReadsMean
      /\ SumsFit' /\ ReadsMean' /\ ClearedMonthsAreDone'
      /\ [MatchingNext]_matchingVars
      => [\A m \in Months :
            (\E before \in {MonthReads(m)}, after \in {MonthReads(m)'},
                k \in IF Undoes(m) THEN {0} ELSE 0 .. 7 :
               Clear([i \in 1 .. 7 |-> IF i <= k THEN before[i] ELSE after[i]]))
            => Done(m)']_matchingVars
  BY TornReportClears DEF ClearedMonthsAreDone
<1> QED
  BY <1>1, <1>2, MatchingInvariant, PTL DEF MatchingSpec, TornCloseIsRight

=============================================================================
