--------------------------- MODULE SequenceInduction ---------------------------
(***************************************************************************)
(* What the proofs need to know of a sequence of chunks written one after  *)
(* another, of how often a queue holds something, and of folds: how the    *)
(* value changes when the sequence grows or shrinks at an end, and what    *)
(* every step keeps.  The value is defined by a recursive function or a    *)
(* cardinality, so each fact is an induction, by the well-foundedness of < *)
(* on the naturals.                                                        *)
(***************************************************************************)
EXTENDS SequencesExt, SequenceTheorems, FiniteSetTheorems, WellFoundedInduction, TLAPS

(* A nonempty set of naturals has a least member. *)
LEMMA LeastNat ==
    ASSUME NEW T \in SUBSET Nat, T # {}
    PROVE  \E x \in T : \A y \in T : x <= y
<1> DEFINE R == OpToRel(<, Nat)
<1>1. IsWellFoundedOn(R, Nat)
  BY NatLessThanWellFounded
<1>2. PICK x \in T : \A y \in T : ~(<<y, x>> \in R)
  <2> HIDE DEF R
  <2> QED
    BY <1>1, WFMin
<1>3. \A y \in T : ~(y < x)
  BY <1>2 DEF OpToRel
<1> QED
  BY <1>3

(* Induction, with the set of the numbers it holds for in the place of a   *)
(* predicate.                                                              *)
LEMMA Induct ==
    ASSUME NEW T, 0 \in T, \A n \in Nat : n \in T => n + 1 \in T
    PROVE  Nat \subseteq T
<1> SUFFICES ASSUME Nat \ T # {} PROVE FALSE
  OBVIOUS
<1>1. PICK x \in Nat \ T : \A y \in Nat \ T : x <= y
  BY LeastNat
<1>2. x # 0 /\ x - 1 \in Nat
  BY <1>1
<1>3. x - 1 \in T
  BY <1>1, <1>2
<1>4. (x - 1) + 1 \in T
  BY <1>2, <1>3
<1> QED
  BY <1>1, <1>4

(* Induction from 1 up to a bound. *)
LEMMA InductTo ==
    ASSUME NEW n \in Nat, NEW T, n >= 1 => 1 \in T,
           \A i \in 1..n : i \in T /\ i + 1 <= n => i + 1 \in T
    PROVE  1..n \subseteq T
<1> DEFINE U == {i \in Nat : i + 1 <= n => i + 1 \in T}
<1>1. 0 \in U
  OBVIOUS
<1>2. \A i \in Nat : i \in U => i + 1 \in U
  <2> SUFFICES ASSUME NEW i \in Nat, i \in U, (i + 1) + 1 <= n
               PROVE  (i + 1) + 1 \in T
    OBVIOUS
  <2>1. i + 1 \in 1..n /\ i + 1 \in T
    OBVIOUS
  <2> QED
    BY <2>1
<1>3. Nat \subseteq U
  <2> HIDE DEF U
  <2> QED
    BY <1>1, <1>2, Induct
<1>4. ASSUME NEW i \in 1..n PROVE i \in T
  <2>1. i - 1 \in U /\ (i - 1) + 1 <= n /\ (i - 1) + 1 = i
    BY <1>3
  <2> QED
    BY <2>1
<1> QED
  BY <1>4

(* Induction on sequences that grow at the end. *)
LEMMA InductAppend ==
    ASSUME NEW S, NEW T, <<>> \in T,
           \A s \in Seq(S), c \in S : s \in T => Append(s, c) \in T
    PROVE  Seq(S) \subseteq T
<1> DEFINE U == {n \in Nat : \A s \in Seq(S) : Len(s) = n => s \in T}
<1>1. 0 \in U
  <2>1. \A s \in Seq(S) : Len(s) = 0 => s = <<>>
    OBVIOUS
  <2> QED
    BY <2>1
<1>2. ASSUME NEW n \in Nat, n \in U PROVE n + 1 \in U
  <2> SUFFICES ASSUME NEW s \in Seq(S), Len(s) = n + 1 PROVE s \in T
    BY <1>2
  <2>1. s # <<>>
    BY <1>2
  <2>2. PICK r \in Seq(S), c \in S : s = Append(r, c)
    BY <2>1, SequenceEmptyOrAppend
  <2>3. Len(r) = n
    BY <1>2, <2>2
  <2> QED
    BY <1>2, <2>2, <2>3
<1>3. Nat \subseteq U
  <2> HIDE DEF U
  <2> QED
    BY <1>1, <1>2, Induct
<1> QED
  <2> SUFFICES ASSUME NEW s \in Seq(S) PROVE s \in T
    OBVIOUS
  <2>1. Len(s) \in U
    BY <1>3
  <2> QED
    BY <2>1

--------------------------------------------------------------------------------
(* How often a sequence holds a member of a set.                           *)

Spots(s, P) == {k \in DOMAIN s : s[k] \in P}
Tally(s, P) == Cardinality(Spots(s, P))

(* The tally is a number, and 0 where nothing is counted. *)
LEMMA TallyType ==
    ASSUME NEW S, NEW s \in Seq(S), NEW P
    PROVE  /\ IsFiniteSet(Spots(s, P)) /\ Tally(s, P) \in Nat
           /\ Tally(s, P) = 0 <=> \A k \in 1..Len(s) : s[k] \notin P
           /\ Tally(s, P) <= Len(s)
<1>1. IsFiniteSet(1..Len(s)) /\ Cardinality(1..Len(s)) = Len(s)
  <2>1. Len(s) \in Nat
    OBVIOUS
  <2> QED
    BY <2>1, FS_Interval, SMTT(30)
<1>2. Spots(s, P) \in SUBSET (1..Len(s))
  BY DEF Spots
<1>3. IsFiniteSet(Spots(s, P)) /\ Tally(s, P) <= Len(s)
  BY <1>1, <1>2, FS_Subset DEF Tally
<1>4. Tally(s, P) \in Nat
  BY <1>3, FS_CardinalityType DEF Tally
<1>5. Tally(s, P) = 0 <=> Spots(s, P) = {}
  BY <1>3, FS_EmptySet DEF Tally
<1> QED
  BY <1>3, <1>4, <1>5 DEF Spots

(* Nothing is counted in an empty sequence. *)
LEMMA TallyEmpty == \A P : Tally(<<>>, P) = 0
<1> TAKE P
<1>1. Spots(<<>>, P) = {}
  BY DEF Spots
<1> QED
  BY <1>1, FS_EmptySet DEF Tally

(* One more element. *)
LEMMA TallyAppend ==
    ASSUME NEW S, NEW s \in Seq(S), NEW c \in S, NEW P
    PROVE  Tally(Append(s, c), P) = Tally(s, P) + (IF c \in P THEN 1 ELSE 0)
<1> DEFINE t == Append(s, c)
           n == Len(s)
<1>1. n \in Nat /\ DOMAIN t = 1..(n + 1) /\ t[n + 1] = c /\ \A k \in 1..n : t[k] = s[k]
  OBVIOUS
<1>2. DOMAIN s = 1..n /\ 1..(n + 1) = (1..n) \cup {n + 1} /\ n + 1 \notin 1..n
  OBVIOUS
<1>3. IsFiniteSet(Spots(s, P)) /\ Tally(s, P) \in Nat
  BY TallyType
<1> HIDE DEF t, n
<1>4. CASE c \in P
  <2>1. Spots(t, P) = Spots(s, P) \cup {n + 1} /\ n + 1 \notin Spots(s, P)
    BY <1>1, <1>2, <1>4 DEF Spots
  <2>2. Cardinality(Spots(s, P) \cup {n + 1}) = Cardinality(Spots(s, P)) + 1
    BY <1>3, <2>1, FS_AddElement
  <2> QED
    BY <1>4, <2>1, <2>2 DEF Tally, t
<1>5. CASE c \notin P
  <2>1. Spots(t, P) = Spots(s, P)
    BY <1>1, <1>2, <1>5 DEF Spots
  <2> QED
    BY <1>3, <1>5, <2>1 DEF Tally, t
<1> QED
  BY <1>4, <1>5

(* The tally of a concatenation is the sum. *)
LEMMA TallyConcat ==
    ASSUME NEW S, NEW s \in Seq(S), NEW t \in Seq(S), NEW P
    PROVE  Tally(s \o t, P) = Tally(s, P) + Tally(t, P)
<1> DEFINE T == {r \in Seq(S) : Tally(s \o r, P) = Tally(s, P) + Tally(r, P)}
<1>1. <<>> \in T
  <2>1. s \o <<>> = s /\ Tally(<<>>, P) = 0 /\ Tally(s, P) \in Nat
    BY ConcatEmptySeq, TallyEmpty, TallyType
  <2> QED
    BY <2>1
<1>2. ASSUME NEW r \in Seq(S), NEW c \in S, r \in T PROVE Append(r, c) \in T
  <2> DEFINE one == IF c \in P THEN 1 ELSE 0
  <2>1. s \o Append(r, c) = Append(s \o r, c) /\ s \o r \in Seq(S) /\ Append(r, c) \in Seq(S)
    OBVIOUS
  <2>2. Tally(Append(r, c), P) = Tally(r, P) + one /\ Tally(Append(s \o r, c), P) = Tally(s \o r, P) + one
    BY <2>1, TallyAppend
  <2>3. Tally(r, P) \in Nat /\ Tally(s, P) \in Nat /\ one \in Nat
    BY TallyType
  <2>4. Tally(s \o r, P) = Tally(s, P) + Tally(r, P)
    BY <1>2
  <2> DEFINE a == Tally(s, P)
             b == Tally(r, P)
  <2>5. a \in Nat /\ b \in Nat /\ one \in Nat
    BY <2>3
  <2>6. Tally(s \o Append(r, c), P) = (a + b) + one /\ Tally(Append(r, c), P) = b + one
    BY <2>1, <2>2, <2>4
  <2> HIDE DEF one, a, b
  <2>7. (a + b) + one = a + (b + one)
    BY <2>5
  <2>8. Tally(s \o Append(r, c), P) = a + Tally(Append(r, c), P)
    BY <2>6, <2>7
  <2> QED
    BY <2>1, <2>8, Zenon DEF a
<1>3. Seq(S) \subseteq T
  <2> HIDE DEF T
  <2> QED
    BY <1>1, <1>2, InductAppend
<1> QED
  BY <1>3

(* The first member taken off. *)
LEMMA TallyTail ==
    ASSUME NEW S, NEW s \in Seq(S), s # <<>>, NEW P
    PROVE  Tally(s, P) = Tally(Tail(s), P) + (IF Head(s) \in P THEN 1 ELSE 0)
<1> DEFINE h == <<Head(s)>>
           t == Tail(s)
<1>1. h \in Seq(S) /\ t \in Seq(S) /\ h = Append(<<>>, Head(s)) /\ Head(s) \in S
  OBVIOUS
<1>2. s = h \o t
  OBVIOUS
<1>3. Tally(h, P) = (IF Head(s) \in P THEN 1 ELSE 0)
  <2>1. DOMAIN h = {1} /\ h[1] = Head(s)
    OBVIOUS
  <2> HIDE DEF h
  <2>2. Spots(h, P) = IF Head(s) \in P THEN {1} ELSE {}
    BY <2>1 DEF Spots
  <2>3. Cardinality({1}) = 1 /\ Cardinality({}) = 0
    BY FS_Singleton, FS_EmptySet
  <2> QED
    BY <2>2, <2>3 DEF Tally
<1>4. Tally(s, P) = Tally(h, P) + Tally(t, P)
  <2> HIDE DEF h, t
  <2>1. Tally(h \o t, P) = Tally(h, P) + Tally(t, P)
    BY <1>1, TallyConcat
  <2> QED
    BY <1>2, <2>1, Zenon
<1>5. Tally(t, P) \in Nat
  BY <1>1, TallyType
<1> QED
  BY <1>3, <1>4, <1>5

(* What is in one of two sets that share nothing. *)
LEMMA TallySplit ==
    ASSUME NEW S, NEW s \in Seq(S), NEW P, NEW Q, P \cap Q = {}
    PROVE  Tally(s, P \cup Q) = Tally(s, P) + Tally(s, Q)
<1> DEFINE T == {r \in Seq(S) : Tally(r, P \cup Q) = Tally(r, P) + Tally(r, Q)}
<1>1. <<>> \in T
  BY TallyEmpty
<1>2. ASSUME NEW r \in Seq(S), NEW c \in S, r \in T PROVE Append(r, c) \in T
  <2> DEFINE a == Tally(r, P)
             b == Tally(r, Q)
             x == IF c \in P THEN 1 ELSE 0
             y == IF c \in Q THEN 1 ELSE 0
  <2>1. a \in Nat /\ b \in Nat /\ x \in Nat /\ y \in Nat
    BY TallyType
  <2>2. (IF c \in P \cup Q THEN 1 ELSE 0) = x + y
    OBVIOUS
  <2>3. Tally(Append(r, c), P) = a + x /\ Tally(Append(r, c), Q) = b + y
    BY TallyAppend
  <2>4. Tally(Append(r, c), P \cup Q) = Tally(r, P \cup Q) + (x + y)
    <3>1. Tally(Append(r, c), P \cup Q)
            = Tally(r, P \cup Q) + (IF c \in P \cup Q THEN 1 ELSE 0)
      BY TallyAppend
    <3> QED
      BY <2>2, <3>1
  <2>5. Tally(r, P \cup Q) = a + b
    BY <1>2
  <2> HIDE DEF a, b, x, y
  <2>6. (a + b) + (x + y) = (a + x) + (b + y)
    BY <2>1
  <2>7. Tally(Append(r, c), P \cup Q) = Tally(Append(r, c), P) + Tally(Append(r, c), Q)
    BY <2>3, <2>4, <2>5, <2>6
  <2>8. Append(r, c) \in Seq(S)
    OBVIOUS
  <2> QED
    BY <2>7, <2>8, Zenon
<1>3. Seq(S) \subseteq T
  <2> HIDE DEF T
  <2> QED
    BY <1>1, <1>2, InductAppend
<1> QED
  BY <1>3

--------------------------------------------------------------------------------
(* FlattenSeq.                                                             *)

(* The function FlattenSeq takes the last value of, as far as n. *)
Flattening(f, s, n) ==
    f = [i \in 1..n |-> IF i = 1 THEN s[i] ELSE f[i - 1] \o s[i]]

(* There is such a function for every sequence of sequences. *)
LEMMA FlatteningExists ==
    ASSUME NEW S, NEW s \in Seq(Seq(S))
    PROVE  \E f : Flattening(f, s, Len(s))
<1> DEFINE T == {n \in Nat : \E f : Flattening(f, s, n)}
<1>1. 0 \in T
  <2> DEFINE f == [i \in 1..0 |-> s[i]]
  <2>1. Flattening(f, s, 0)
    BY DEF Flattening
  <2> QED
    BY <2>1
<1>2. ASSUME NEW n \in Nat, n \in T PROVE n + 1 \in T
  <2>1. PICK f : Flattening(f, s, n)
    BY <1>2
  <2> DEFINE g == [i \in 1..(n + 1) |-> IF i = 1 THEN s[i] ELSE f[i - 1] \o s[i]]
  <2>2. ASSUME NEW i \in 1..n PROVE g[i] = f[i]
    <3>1. i \in 1..(n + 1)
      OBVIOUS
    <3>2. f[i] = IF i = 1 THEN s[i] ELSE f[i - 1] \o s[i]
      BY <2>1, Zenon DEF Flattening
    <3> QED
      BY <3>1, <3>2
  <2>3. ASSUME NEW i \in 1..(n + 1)
        PROVE  (IF i = 1 THEN s[i] ELSE f[i - 1] \o s[i])
                 = (IF i = 1 THEN s[i] ELSE g[i - 1] \o s[i])
    <3>1. i # 1 => i - 1 \in 1..n
      OBVIOUS
    <3> HIDE DEF g
    <3>2. i # 1 => f[i - 1] = g[i - 1]
      BY <3>1, <2>2
    <3> QED
      BY <3>2
  <2>4. g = [i \in 1..(n + 1) |-> IF i = 1 THEN s[i] ELSE g[i - 1] \o s[i]]
    BY <2>3, Zenon
  <2>5. Flattening(g, s, n + 1)
    BY <2>4 DEF Flattening
  <2> HIDE DEF g
  <2> QED
    BY <2>5
<1>3. Len(s) \in T
  <2>1. Len(s) \in Nat
    OBVIOUS
  <2> HIDE DEF T
  <2> QED
    BY <1>1, <1>2, <2>1, Induct
<1> QED
  BY <1>3

(* FlattenSeq is the last value of the function it chooses. *)
LEMMA FlattenIs ==
    ASSUME NEW S, NEW s \in Seq(Seq(S))
    PROVE  /\ Len(s) = 0 => FlattenSeq(s) = <<>>
           /\ Len(s) # 0 => \E f : Flattening(f, s, Len(s)) /\ FlattenSeq(s) = f[Len(s)]
<1>1. CASE Len(s) = 0
  BY <1>1 DEF FlattenSeq
<1>2. CASE Len(s) # 0
  <2> DEFINE f == CHOOSE g : Flattening(g, s, Len(s))
  <2>1. Flattening(f, s, Len(s))
    BY FlatteningExists
  <2>2. FlattenSeq(s) = f[Len(s)]
    BY <1>2 DEF FlattenSeq, Flattening
  <2> QED
    BY <1>2, <2>1, <2>2
<1> QED
  BY <1>1, <1>2

(* The empty sequence of chunks, and that of one chunk. *)
LEMMA FlattenEmpty == FlattenSeq(<<>>) = <<>>
  BY DEF FlattenSeq

(* Its first value, and each from the one before. *)
LEMMA FlatteningStep ==
    ASSUME NEW f, NEW s, NEW n \in Nat, Flattening(f, s, n)
    PROVE  /\ n >= 1 => f[1] = s[1]
           /\ \A i \in 1..n : i + 1 <= n => f[i + 1] = f[i] \o s[i + 1]
<1>1. \A i \in 1..n : f[i] = IF i = 1 THEN s[i] ELSE f[i - 1] \o s[i]
  BY Zenon DEF Flattening
<1>2. ASSUME NEW i \in 1..n, i + 1 <= n PROVE f[i + 1] = f[i] \o s[i + 1]
  <2>1. i + 1 \in 1..n /\ i + 1 # 1 /\ (i + 1) - 1 = i
    BY <1>2
  <2> QED
    BY <1>1, <2>1
<1>3. n >= 1 => 1 \in 1..n
  OBVIOUS
<1>4. n >= 1 => f[1] = s[1]
  BY <1>1, <1>3
<1> QED
  BY <1>2, <1>4

(* Its values are sequences. *)
LEMMA FlatteningType ==
    ASSUME NEW S, NEW s \in Seq(Seq(S)), NEW f, Flattening(f, s, Len(s))
    PROVE  \A i \in 1..Len(s) : f[i] \in Seq(S)
<1> DEFINE T == {i \in 1..Len(s) : f[i] \in Seq(S)}
<1>1. Len(s) \in Nat /\ \A i \in 1..Len(s) : s[i] \in Seq(S)
  OBVIOUS
<1>2. Len(s) >= 1 => 1 \in T
  <2>1. Len(s) >= 1 => f[1] = s[1]
    BY <1>1, FlatteningStep
  <2> QED
    BY <1>1, <2>1
<1>3. ASSUME NEW i \in 1..Len(s), i \in T, i + 1 <= Len(s)
      PROVE  i + 1 \in T
  <2>1. i + 1 \in 1..Len(s)
    BY <1>1, <1>3
  <2>2. f[i + 1] = f[i] \o s[i + 1]
    BY <1>1, <1>3, FlatteningStep
  <2>3. f[i] \in Seq(S) /\ s[i + 1] \in Seq(S)
    BY <1>1, <1>3, <2>1
  <2>4. f[i] \o s[i + 1] \in Seq(S)
    BY <2>3, ConcatProperties
  <2> QED
    BY <2>1, <2>2, <2>4
<1>4. 1..Len(s) \subseteq T
  <2> HIDE DEF T
  <2> QED
    BY <1>1, <1>2, <1>3, InductTo
<1> QED
  BY <1>4

(* It returns a sequence of the elements. *)
LEMMA FlattenType ==
    ASSUME NEW S, NEW s \in Seq(Seq(S))
    PROVE  FlattenSeq(s) \in Seq(S)
<1>1. CASE Len(s) = 0
  <2>1. FlattenSeq(s) = <<>>
    BY <1>1, FlattenIs
  <2> QED
    BY <2>1
<1>2. CASE Len(s) # 0
  <2>1. PICK f : Flattening(f, s, Len(s)) /\ FlattenSeq(s) = f[Len(s)]
    BY <1>2, FlattenIs
  <2>2. Len(s) \in 1..Len(s)
    BY <1>2
  <2> QED
    BY <2>1, <2>2, FlatteningType
<1> QED
  BY <1>1, <1>2

(* ConcatAssociative, in a form the provers can instantiate. *)
LEMMA Associative ==
    \A S : \A a, b, c \in Seq(S) : (a \o b) \o c = a \o (b \o c)
  BY ConcatAssociative

(* A chunk more at the end. *)
LEMMA FlattenAppend ==
    ASSUME NEW S, NEW s \in Seq(Seq(S)), NEW c \in Seq(S)
    PROVE  FlattenSeq(Append(s, c)) = FlattenSeq(s) \o c
<1> DEFINE t == Append(s, c)
           n == Len(s)
<1>1. /\ t \in Seq(Seq(S)) /\ n \in Nat /\ Len(t) = n + 1 /\ t[n + 1] = c
      /\ \A i \in 1..n : t[i] = s[i]
  OBVIOUS
<1> HIDE DEF t
<1>2. PICK g : Flattening(g, t, n + 1) /\ FlattenSeq(t) = g[n + 1]
  <2>1. Len(t) # 0
    BY <1>1
  <2> QED
    BY <1>1, <2>1, FlattenIs
<1>3. /\ g[1] = t[1]
      /\ \A i \in 1..n : g[i + 1] = g[i] \o t[i + 1]
  <2>1. /\ n + 1 \in Nat /\ n + 1 >= 1
        /\ \A i \in 1..n : i \in 1..(n + 1) /\ i + 1 <= n + 1
    BY <1>1
  <2> QED
    BY <1>2, <2>1, FlatteningStep, ZenonT(30)
<1>5. CASE n = 0
  <2>1. FlattenSeq(s) = <<>>
    BY <1>5, FlattenIs
  <2> QED
    BY <1>1, <1>2, <1>3, <1>5, <2>1, ConcatEmptySeq DEF t
<1>6. CASE n # 0
  <2>1. PICK f : Flattening(f, s, n) /\ FlattenSeq(s) = f[n]
    BY <1>6, FlattenIs
  <2> DEFINE T == {i \in 1..n : g[i] = f[i]}
  <2>2. n >= 1 => 1 \in T
    <3> SUFFICES ASSUME n >= 1 PROVE 1 \in T
      OBVIOUS
    <3>1. 1 \in 1..n
      BY <1>1
    <3>2. f[1] = s[1]
      BY <1>1, <2>1, FlatteningStep
    <3> QED
      BY <1>1, <1>3, <3>1, <3>2
  <2>3. ASSUME NEW i \in 1..n, i \in T, i + 1 <= n
        PROVE  i + 1 \in T
    <3>1. i + 1 \in 1..n
      BY <1>1, <2>3
    <3>2. f[i + 1] = f[i] \o s[i + 1]
      BY <1>1, <2>1, <2>3, FlatteningStep, ZenonT(60)
    <3> QED
      BY <1>1, <1>3, <2>3, <3>1, <3>2
  <2>4. 1..n \subseteq T
    <3> HIDE DEF T
    <3> QED
      BY <1>1, <2>2, <2>3, InductTo
  <2>5. n \in 1..n
    BY <1>1, <1>6
  <2>6. g[n] = f[n]
    BY <2>4, <2>5
  <2> QED
    BY <1>1, <1>2, <1>3, <2>1, <2>5, <2>6 DEF t
<1> QED
  BY <1>5, <1>6

(* The first chunk taken off. *)
LEMMA FlattenTail ==
    ASSUME NEW S, NEW s \in Seq(Seq(S)), s # <<>>
    PROVE  FlattenSeq(s) = Head(s) \o FlattenSeq(Tail(s))
<1>0. \A a, b, c \in Seq(S) : (a \o b) \o c = a \o (b \o c)
  BY ONLY Associative, SMT
<1> DEFINE t == Tail(s)
           n == Len(t)
           h == Head(s)
<1>1. /\ t \in Seq(Seq(S)) /\ n \in Nat /\ Len(s) = n + 1 /\ h = s[1] /\ h \in Seq(S)
      /\ \A i \in 1..n : t[i] = s[i + 1] /\ t[i] \in Seq(S)
  OBVIOUS
<1> HIDE DEF t, h
<1>2. PICK g : Flattening(g, s, n + 1) /\ FlattenSeq(s) = g[n + 1]
  <2>1. Len(s) # 0
    BY <1>1
  <2> QED
    BY <1>1, <2>1, FlattenIs
<1>3. /\ g[1] = h
      /\ \A i \in 1..n : g[i + 1] = g[i] \o t[i]
  <2>1. /\ n + 1 \in Nat /\ n + 1 >= 1
        /\ \A i \in 1..n : i \in 1..(n + 1) /\ i + 1 <= n + 1
    BY <1>1
  <2>2. \A i \in 1..(n + 1) : i + 1 <= n + 1 => g[i + 1] = g[i] \o s[i + 1]
    BY <1>2, <2>1, FlatteningStep
  <2>3. g[1] = s[1]
    BY <1>2, <2>1, FlatteningStep
  <2> QED
    BY <1>1, <2>1, <2>2, <2>3
<1>4. CASE n = 0
  <2>1. FlattenSeq(t) = <<>>
    BY <1>1, <1>4, FlattenIs
  <2>2. h \o <<>> = h
    BY <1>1, ConcatEmptySeq
  <2> QED
    <3>1. FlattenSeq(s) = h \o FlattenSeq(t)
      BY <1>2, <1>3, <1>4, <2>1, <2>2
    <3> QED
      BY <3>1 DEF t, h
<1>5. CASE n # 0
  <2>1. PICK f : Flattening(f, t, n) /\ FlattenSeq(t) = f[n]
    BY <1>1, <1>5, FlattenIs
  <2>2. \A i \in 1..n : f[i] \in Seq(S)
    BY <1>1, <2>1, FlatteningType
  <2> DEFINE T == {i \in 1..n : g[i + 1] = h \o f[i]}
  <2>3. n >= 1 => 1 \in T
    <3> SUFFICES ASSUME n >= 1 PROVE 1 \in T
      OBVIOUS
    <3>1. 1 \in 1..n
      BY <1>1
    <3>2. f[1] = t[1]
      <4>1. \A i \in 1..n : f[i] = IF i = 1 THEN t[i] ELSE f[i - 1] \o t[i]
        BY <2>1, Zenon DEF Flattening
      <4> QED
        BY <3>1, <4>1
    <3>3. g[1 + 1] = g[1] \o t[1]
      BY <1>3, <3>1, Zenon
    <3> QED
      BY <1>3, <3>1, <3>2, <3>3
  <2>4. ASSUME NEW i \in 1..n, i \in T, i + 1 <= n
        PROVE  i + 1 \in T
    <3>1. i + 1 \in 1..n
      BY <1>1, <2>4
    <3>2. f[i + 1] = f[i] \o t[i + 1]
      BY <1>1, <2>1, <2>4, FlatteningStep, ZenonT(30)
    <3>3. g[(i + 1) + 1] = (h \o f[i]) \o t[i + 1]
      BY <1>3, <2>4, <3>1
    <3>4. f[i] \in Seq(S) /\ t[i + 1] \in Seq(S) /\ h \in Seq(S)
      BY <1>1, <2>2, <3>1
    <3>5. (h \o f[i]) \o t[i + 1] = h \o (f[i] \o t[i + 1])
      BY <3>4, <1>0, Zenon
    <3> QED
      BY <3>1, <3>2, <3>3, <3>5
  <2>5. 1..n \subseteq T
    <3> HIDE DEF T
    <3> QED
      BY <1>1, <2>3, <2>4, InductTo
  <2>6. n \in 1..n
    BY <1>1, <1>5
  <2>7. g[n + 1] = h \o f[n]
    BY <2>5, <2>6
  <2> QED
    BY <1>2, <2>1, <2>7, Zenon DEF t, h
<1> QED
  BY <1>4, <1>5

--------------------------------------------------------------------------------
(* Folds, which recur on the subsets of a finite set.                       *)

(* A property that a fold's steps keep, as a set, has its result. *)
Stays(g, S, D, pick) ==
    /\ IsFiniteSet(S) /\ g[{}] \in D
    /\ \A s \in SUBSET S : s # {} => pick[s] \in s
    /\ \A s \in SUBSET S : s # {} /\ g[s \ {pick[s]}] \in D => g[s] \in D

(* What holds at the start and is kept by each element holds of the whole. *)
LEMMA FoldStays ==
    ASSUME NEW g, NEW S, NEW D, NEW pick, Stays(g, S, D, pick)
    PROVE  g[S] \in D
<1>0. /\ IsFiniteSet(S) /\ g[{}] \in D
      /\ \A s \in SUBSET S : s # {} => pick[s] \in s
      /\ \A s \in SUBSET S : s # {} /\ g[s \ {pick[s]}] \in D => g[s] \in D
  BY DEF Stays
<1> DEFINE Bad == {s \in SUBSET S : g[s] \notin D}
<1>1. SUFFICES ASSUME Bad # {} PROVE FALSE
  BY <1>0
<1>2. SUBSET S = FiniteSubsetsOf(S)
  BY <1>0, FS_Subset DEF FiniteSubsetsOf
<1>3. PICK s \in Bad : \A r \in Bad : ~(<<r, s>> \in StrictSubsetOrdering(S))
  <2>1. IsWellFoundedOn(StrictSubsetOrdering(S), FiniteSubsetsOf(S))
    BY FS_StrictSubsetOrderingWellFounded
  <2>2. Bad \subseteq FiniteSubsetsOf(S)
    BY <1>2
  <2> HIDE DEF Bad
  <2> QED
    BY <1>1, <2>1, <2>2, WFMin
<1>4. s \in SUBSET S /\ s # {} /\ pick[s] \in s
  BY <1>0, <1>3
<1>5. s \ {pick[s]} \in SUBSET S /\ s \ {pick[s]} # s /\ s \ {pick[s]} \subseteq s
  BY <1>4
<1>6. <<s \ {pick[s]}, s>> \in StrictSubsetOrdering(S)
  BY <1>4, <1>5, Zenon DEF StrictSubsetOrdering
<1>7. s \ {pick[s]} \notin Bad
  BY <1>3, <1>6
<1> QED
  BY <1>0, <1>3, <1>4, <1>5, <1>7

(* A fold is defined: there is a function of the sets it goes through. *)
Folding(S, D, step, base, pick) ==
    /\ IsFiniteSet(S) /\ step \in [S \X D -> D] /\ base \in D
    /\ \A s \in SUBSET S : s # {} => pick[s] \in s
FoldOf(g, S, D, step, base, pick) ==
    /\ g \in [SUBSET S -> D]
    /\ \A s \in SUBSET S : g[s] = IF s = {} THEN base ELSE step[<<pick[s], g[s \ {pick[s]}]>>]

(* A fold over a finite set has values: they are built up by its subsets. *)
LEMMA FoldExists ==
    ASSUME NEW S, NEW D, NEW step, NEW base, NEW pick, Folding(S, D, step, base, pick)
    PROVE  \E g : FoldOf(g, S, D, step, base, pick)
<1>0. /\ IsFiniteSet(S) /\ step \in [S \X D -> D] /\ base \in D
      /\ \A s \in SUBSET S : s # {} => pick[s] \in s
  BY DEF Folding
<1> DEFINE Below(n) == {s \in SUBSET S : Cardinality(s) <= n}
           Folds(g, n) == \A s \in Below(n) :
              g[s] = IF s = {} THEN base ELSE step[<<pick[s], g[s \ {pick[s]}]>>]
           T == {n \in Nat : \E g \in [Below(n) -> D] : Folds(g, n)}
<1>1. \A s \in SUBSET S : IsFiniteSet(s) /\ Cardinality(s) \in Nat
  BY <1>0, FS_Subset, FS_CardinalityType
<1>2. \A s \in SUBSET S : Cardinality(s) = 0 => s = {}
  BY <1>1, FS_EmptySet
<1>3. \A s \in SUBSET S : s # {} =>
         s \ {pick[s]} \in SUBSET S /\ Cardinality(s \ {pick[s]}) = Cardinality(s) - 1
  BY <1>0, <1>1, FS_RemoveElement
<1>4. 0 \in T
  <2> DEFINE g == [s \in Below(0) |-> base]
  <2>1. \A s \in Below(0) : s = {}
    BY <1>1, <1>2
  <2>2. g \in [Below(0) -> D] /\ Folds(g, 0)
    BY <1>0, <2>1
  <2> HIDE DEF g
  <2> QED
    BY <2>2
<1>5. ASSUME NEW n \in Nat, n \in T PROVE n + 1 \in T
  <2>1. PICK g \in [Below(n) -> D] : Folds(g, n)
    BY <1>5
  <2> DEFINE h == [s \in Below(n + 1) |->
                      IF s = {} THEN base ELSE step[<<pick[s], g[s \ {pick[s]}]>>]]
  <2>2. \A s \in Below(n + 1) : s # {} => s \ {pick[s]} \in Below(n) /\ pick[s] \in S
    BY <1>0, <1>1, <1>3
  <2>3. \A s \in Below(n) : s \in Below(n + 1)
    BY <1>1
  <2>4. \A s \in Below(n) : h[s] = g[s]
    BY <2>1, <2>3
  <2>5. h \in [Below(n + 1) -> D]
    <3> SUFFICES ASSUME NEW s \in Below(n + 1), s # {}
                 PROVE  step[<<pick[s], g[s \ {pick[s]}]>>] \in D
      BY <1>0
    <3> HIDE DEF Below
    <3> QED
      BY <1>0, <2>1, <2>2
  <2>6. Folds(h, n + 1)
    <3> SUFFICES ASSUME NEW s \in Below(n + 1)
                 PROVE  h[s] = IF s = {} THEN base ELSE step[<<pick[s], h[s \ {pick[s]}]>>]
      OBVIOUS
    <3>1. s # {} => h[s \ {pick[s]}] = g[s \ {pick[s]}]
      BY <2>2, <2>4
    <3>2. h[s] = IF s = {} THEN base ELSE step[<<pick[s], g[s \ {pick[s]}]>>]
      OBVIOUS
    <3> HIDE DEF h
    <3> QED
      BY <3>1, <3>2
  <2> HIDE DEF h
  <2>7. \E f \in [Below(n + 1) -> D] : Folds(f, n + 1)
    BY <2>5, <2>6, Zenon
  <2> HIDE DEF Below, Folds
  <2> QED
    BY <2>7
<1>6. Cardinality(S) \in T
  <2>1. Nat \subseteq T
    <3> HIDE DEF T
    <3> QED
      BY <1>4, <1>5, Induct
  <2> QED
    BY <1>0, <1>1, <2>1
<1>7. Below(Cardinality(S)) = SUBSET S
  <2>1. \A s \in SUBSET S : Cardinality(s) <= Cardinality(S)
    BY <1>0, FS_Subset
  <2> QED
    BY <2>1
<1>8. PICK g \in [Below(Cardinality(S)) -> D] : Folds(g, Cardinality(S))
  BY <1>6
<1>9. FoldOf(g, S, D, step, base, pick)
  BY <1>7, <1>8 DEF FoldOf
<1> QED
  BY <1>9

(* The largest of some indices is one of them. *)
LEMMA MaxIsOne ==
    ASSUME NEW n \in Nat, NEW s \in SUBSET (1 .. n), s # {}
    PROVE  Max(s) \in s
<1> DEFINE U == {k \in Nat : \A y \in s : y <= k}
<1>1. U # {}
  <2>1. n \in U
    OBVIOUS
  <2> QED
    BY <2>1
<1>2. PICK k \in U : \A y \in U : k <= y
  BY <1>1, LeastNat
<1>3. k \in s
  <2> SUFFICES ASSUME k \notin s PROVE FALSE
    OBVIOUS
  <2>1. PICK y \in s : y \in 1 .. n
    OBVIOUS
  <2>2. k >= 1 /\ k - 1 \in Nat
    BY <1>2, <2>1
  <2>3. k - 1 \in U
    BY <1>2, <2>2
  <2> QED
    BY <1>2, <2>2, <2>3
<1>4. \E x \in s : \A y \in s : x >= y
  BY <1>2, <1>3
<1> QED
  BY <1>4 DEF Max

-----------------------------------------------------------------------------
(* Functions that recur on the numbers up to a bound.                      *)

(* f starts with base, and each value comes from the one before.           *)
Recurs(f, n, step, base) ==
    \A k \in 0..n : f[k] = IF k = 0 THEN base ELSE step[<<k, f[k - 1]>>]

(* There is such a function. *)
LEMMA RecursionExists ==
    ASSUME NEW n \in Nat, NEW D, NEW base \in D, NEW step \in [(1..n) \X D -> D]
    PROVE  \E f \in [0..n -> D] : Recurs(f, n, step, base)
<1> DEFINE T == {m \in Nat : m <= n => \E f \in [0..m -> D] : Recurs(f, m, step, base)}
<1>1. 0 \in T
  <2> DEFINE f == [k \in 0..0 |-> base]
  <2>1. f \in [0..0 -> D] /\ Recurs(f, 0, step, base)
    BY DEF Recurs
  <2> HIDE DEF f
  <2> QED
    BY <2>1
<1>2. ASSUME NEW m \in Nat, m \in T PROVE m + 1 \in T
  <2> SUFFICES ASSUME m + 1 <= n PROVE \E f \in [0..(m + 1) -> D] : Recurs(f, m + 1, step, base)
    OBVIOUS
  <2>1. PICK g \in [0..m -> D] : Recurs(g, m, step, base)
    BY <1>2
  <2> DEFINE h == [k \in 0..(m + 1) |-> IF k = m + 1 THEN step[<<m + 1, g[m]>>] ELSE g[k]]
  <2>2. g[m] \in D /\ step[<<m + 1, g[m]>>] \in D
    OBVIOUS
  <2>3. h \in [0..(m + 1) -> D] /\ h[m + 1] = step[<<m + 1, g[m]>>] /\ \A k \in 0..m : h[k] = g[k]
    BY <2>2
  <2> HIDE DEF h
  <2>4. ASSUME NEW k \in 0..(m + 1)
        PROVE  h[k] = IF k = 0 THEN base ELSE step[<<k, h[k - 1]>>]
    <3>1. CASE k = m + 1
      BY <2>3, <3>1
    <3>2. CASE k # m + 1
      <4>1. k \in 0..m /\ (k # 0 => k - 1 \in 0..m)
        BY <3>2
      <4> QED
        BY <2>1, <2>3, <4>1 DEF Recurs
    <3> QED
      BY <3>1, <3>2
  <2> QED
    BY <2>3, <2>4 DEF Recurs
<1>3. Nat \subseteq T
  <2> HIDE DEF T
  <2> QED
    BY <1>1, <1>2, Induct
<1> QED
  BY <1>3

(* Its values stay in a set that holds the first and that each step keeps. *)
LEMMA RecursionStays ==
    ASSUME NEW n \in Nat, NEW D, NEW f, f[0] \in D,
           \A k \in 1..n : f[k - 1] \in D => f[k] \in D
    PROVE  \A k \in 0..n : f[k] \in D
<1> DEFINE T == {k \in Nat : k <= n => f[k] \in D}
<1>1. 0 \in T
  OBVIOUS
<1>2. \A k \in Nat : k \in T => k + 1 \in T
  <2> SUFFICES ASSUME NEW k \in Nat, k \in T, k + 1 <= n PROVE f[k + 1] \in D
    OBVIOUS
  <2>1. k + 1 \in 1..n /\ (k + 1) - 1 = k
    OBVIOUS
  <2> QED
    BY <2>1
<1>3. Nat \subseteq T
  <2> HIDE DEF T
  <2> QED
    BY <1>1, <1>2, Induct
<1> QED
  BY <1>3

(* A set of numbers up to a bound that is closed downwards is a segment.   *)
LEMMA Segment ==
    ASSUME NEW m \in Int, m >= -1, NEW K \in SUBSET (0..m), \A k \in K : 0..k \subseteq K
    PROVE  /\ IsFiniteSet(K) /\ Cardinality(K) \in Nat
           /\ K = 0..(Cardinality(K) - 1)
<1>1. m + 1 \in Nat \ K
  OBVIOUS
<1>2. PICK x \in Nat \ K : \A y \in Nat \ K : x <= y
  <2>1. Nat \ K # {} /\ Nat \ K \in SUBSET Nat
    BY <1>1
  <2> QED
    BY <2>1, LeastNat
<1>3. K = 0..(x - 1)
  <2>1. ASSUME NEW k \in K PROVE k \in 0..(x - 1)
    BY <1>2
  <2>2. ASSUME NEW k \in 0..(x - 1) PROVE k \in K
    BY <1>2
  <2> QED
    BY <2>1, <2>2
<1>4. IsFiniteSet(0..(x - 1)) /\ Cardinality(0..(x - 1)) = x
  BY <1>2, FS_Interval
<1> QED
  BY <1>2, <1>3, <1>4
=============================================================================
