----------------------------- MODULE RtPoolProofs -----------------------------
(***************************************************************************)
(* Proofs that the real-time pool stays well formed (PoolWellFormed) and   *)
(* implements Arena, for every size of the arena and every set of          *)
(* requests: the chunks tile it, the lists hold the free ones, find_fit    *)
(* finds the best, and regions keep apart.                                 *)
(*                                                                         *)
(* While an operation is under way the tags of one run of blocks are wrong *)
(* or missing; Apart says that all others are right, and each step of an   *)
(* operation - open a chunk, join a neighbour, cut, tag - leads from one   *)
(* such state to the next.                                                 *)
(***************************************************************************)
EXTENDS RtPool, SequenceInduction

-----------------------------------------------------------------------------
(* Bins.                                                                   *)

(* The powers of two of the eight octaves. *)
LEMMA Powers ==
    /\ 2^7 = 128 /\ 2^8 = 256 /\ 2^9 = 512 /\ 2^10 = 1024 /\ 2^11 = 2048 /\ 2^12 = 4096
    /\ 2^13 = 8192 /\ 2^14 = 16384 /\ 2^15 = 32768 /\ 2^16 = 65536 /\ 2^17 = 131072 /\ 2^18 = 262144
  BY SMT

(* In the octave of 2^k bytes there are eight classes. *)
InOctave(n, i, k, w) == 8 * w <= n /\ n < 16 * w /\ i = 8 * k + n \div w

(* The index of a size from 1024 bytes on. *)
Octaves(n, i) ==
    \/ InOctave(n, i, 7, 128)
    \/ InOctave(n, i, 8, 256)
    \/ InOctave(n, i, 9, 512)
    \/ InOctave(n, i, 10, 1024)
    \/ InOctave(n, i, 11, 2048)
    \/ InOctave(n, i, 12, 4096)
    \/ InOctave(n, i, 13, 8192)
    \/ InOctave(n, i, 14, 16384)

(* The leading bit finds the octave. *)
LEMMA OctaveAt ==
    ASSUME NEW n \in Nat, NEW k \in 10..17, 2^k <= n, n < 2^(k + 1)
    PROVE  Octaves(n, 8 * (k - 3) + n \div 2^(k - 3))
<1>1. CASE k = 10
  <2>1. k + 1 = 11 /\ k - 3 = 7
    BY <1>1, SMT
  <2>2. 2^k = 1024 /\ 2^(k + 1) = 2048 /\ 2^(k - 3) = 128
    BY <1>1, <2>1, Powers, SMT
  <2>3. 8 * 128 <= n /\ n < 16 * 128 /\ 8 * (k - 3) + n \div 2^(k - 3) = 8 * 7 + n \div 128
    BY <2>1, <2>2, SMT
  <2> QED
    BY <2>3, SMT DEF Octaves, InOctave
<1>2. CASE k = 11
  <2>1. k + 1 = 12 /\ k - 3 = 8
    BY <1>2, SMT
  <2>2. 2^k = 2048 /\ 2^(k + 1) = 4096 /\ 2^(k - 3) = 256
    BY <1>2, <2>1, Powers, SMT
  <2>3. 8 * 256 <= n /\ n < 16 * 256 /\ 8 * (k - 3) + n \div 2^(k - 3) = 8 * 8 + n \div 256
    BY <2>1, <2>2, SMT
  <2> QED
    BY <2>3, SMT DEF Octaves, InOctave
<1>3. CASE k = 12
  <2>1. k + 1 = 13 /\ k - 3 = 9
    BY <1>3, SMT
  <2>2. 2^k = 4096 /\ 2^(k + 1) = 8192 /\ 2^(k - 3) = 512
    BY <1>3, <2>1, Powers, SMT
  <2>3. 8 * 512 <= n /\ n < 16 * 512 /\ 8 * (k - 3) + n \div 2^(k - 3) = 8 * 9 + n \div 512
    BY <2>1, <2>2, SMT
  <2> QED
    BY <2>3, SMT DEF Octaves, InOctave
<1>4. CASE k = 13
  <2>1. k + 1 = 14 /\ k - 3 = 10
    BY <1>4, SMT
  <2>2. 2^k = 8192 /\ 2^(k + 1) = 16384 /\ 2^(k - 3) = 1024
    BY <1>4, <2>1, Powers, SMT
  <2>3. 8 * 1024 <= n /\ n < 16 * 1024 /\ 8 * (k - 3) + n \div 2^(k - 3) = 8 * 10 + n \div 1024
    BY <2>1, <2>2, SMT
  <2> QED
    BY <2>3, SMT DEF Octaves, InOctave
<1>5. CASE k = 14
  <2>1. k + 1 = 15 /\ k - 3 = 11
    BY <1>5, SMT
  <2>2. 2^k = 16384 /\ 2^(k + 1) = 32768 /\ 2^(k - 3) = 2048
    BY <1>5, <2>1, Powers, SMT
  <2>3. 8 * 2048 <= n /\ n < 16 * 2048 /\ 8 * (k - 3) + n \div 2^(k - 3) = 8 * 11 + n \div 2048
    BY <2>1, <2>2, SMT
  <2> QED
    BY <2>3, SMT DEF Octaves, InOctave
<1>6. CASE k = 15
  <2>1. k + 1 = 16 /\ k - 3 = 12
    BY <1>6, SMT
  <2>2. 2^k = 32768 /\ 2^(k + 1) = 65536 /\ 2^(k - 3) = 4096
    BY <1>6, <2>1, Powers, SMT
  <2>3. 8 * 4096 <= n /\ n < 16 * 4096 /\ 8 * (k - 3) + n \div 2^(k - 3) = 8 * 12 + n \div 4096
    BY <2>1, <2>2, SMT
  <2> QED
    BY <2>3, SMT DEF Octaves, InOctave
<1>7. CASE k = 16
  <2>1. k + 1 = 17 /\ k - 3 = 13
    BY <1>7, SMT
  <2>2. 2^k = 65536 /\ 2^(k + 1) = 131072 /\ 2^(k - 3) = 8192
    BY <1>7, <2>1, Powers, SMT
  <2>3. 8 * 8192 <= n /\ n < 16 * 8192 /\ 8 * (k - 3) + n \div 2^(k - 3) = 8 * 13 + n \div 8192
    BY <2>1, <2>2, SMT
  <2> QED
    BY <2>3, SMT DEF Octaves, InOctave
<1>8. CASE k = 17
  <2>1. k + 1 = 18 /\ k - 3 = 14
    BY <1>8, SMT
  <2>2. 2^k = 131072 /\ 2^(k + 1) = 262144 /\ 2^(k - 3) = 16384
    BY <1>8, <2>1, Powers, SMT
  <2>3. 8 * 16384 <= n /\ n < 16 * 16384 /\ 8 * (k - 3) + n \div 2^(k - 3) = 8 * 14 + n \div 16384
    BY <2>1, <2>2, SMT
  <2> QED
    BY <2>3, SMT DEF Octaves, InOctave
<1> QED
  BY <1>1, <1>2, <1>3, <1>4, <1>5, <1>6, <1>7, <1>8, SMT

(* The leading bit of a size between the two ends. *)
LEMMA LeadingBitIs ==
    ASSUME NEW n \in Nat, 1024 <= n, n < 262144
    PROVE  LeadingBit(n) \in 10..17 /\ 2^LeadingBit(n) <= n /\ n < 2^(LeadingBit(n) + 1)
<1>1. \E k \in 10..17 : 2^k <= n /\ n < 2^(k + 1)
  <2>1. n >= 1024 /\ n < 2048 => 2^10 <= n /\ n < 2^(10 + 1) /\ 10 \in 10..17
    BY Powers, SMT
  <2>2. n >= 2048 /\ n < 4096 => 2^11 <= n /\ n < 2^(11 + 1) /\ 11 \in 10..17
    BY Powers, SMT
  <2>3. n >= 4096 /\ n < 8192 => 2^12 <= n /\ n < 2^(12 + 1) /\ 12 \in 10..17
    BY Powers, SMT
  <2>4. n >= 8192 /\ n < 16384 => 2^13 <= n /\ n < 2^(13 + 1) /\ 13 \in 10..17
    BY Powers, SMT
  <2>5. n >= 16384 /\ n < 32768 => 2^14 <= n /\ n < 2^(14 + 1) /\ 14 \in 10..17
    BY Powers, SMT
  <2>6. n >= 32768 /\ n < 65536 => 2^15 <= n /\ n < 2^(15 + 1) /\ 15 \in 10..17
    BY Powers, SMT
  <2>7. n >= 65536 /\ n < 131072 => 2^16 <= n /\ n < 2^(16 + 1) /\ 16 \in 10..17
    BY Powers, SMT
  <2>8. n >= 131072 /\ n < 262144 => 2^17 <= n /\ n < 2^(17 + 1) /\ 17 \in 10..17
    BY Powers, SMT
  <2> QED
    BY <2>1, <2>2, <2>3, <2>4, <2>5, <2>6, <2>7, <2>8, SMT
<1> QED
  BY <1>1, SMTT(30) DEF LeadingBit

(* The three kinds of bin. *)
LEMMA BinCases ==
    ASSUME NEW s \in Nat
    PROVE  \/ s * 64 < 1024 /\ BinIndex(s) = 4 * s
           \/ s * 64 >= 262144 /\ BinIndex(s) = 127
           \/ s * 64 >= 1024 /\ s * 64 < 262144 /\ Octaves(s * 64, BinIndex(s))
<1>1. CASE s * 64 < 1024
  <2>1. (s * 64) \div 16 = 4 * s
    BY SMT
  <2> QED
    BY <1>1, <2>1, SMT DEF BinIndex, ALIGN
<1>2. CASE s * 64 >= 262144
  BY <1>2, SMT DEF BinIndex, ALIGN, NUM_BINS
<1>3. CASE s * 64 >= 1024 /\ s * 64 < 262144
  <2> DEFINE n == s * 64
             k == LeadingBit(n)
  <2>1. n \in Nat /\ 1024 <= n /\ n < 262144
    BY <1>3, SMT
  <2>2. BinIndex(s) = 8 * (k - 3) + n \div 2^(k - 3)
    BY <1>3, SMT DEF BinIndex, ALIGN
  <2>3. k \in 10..17 /\ 2^k <= n /\ n < 2^(k + 1)
    BY <2>1, LeadingBitIs, SMT
  <2>4. Octaves(n, 8 * (k - 3) + n \div 2^(k - 3))
    <3>1. n \in Nat
      BY <2>1, SMT
    <3> HIDE DEF n, k
    <3> QED
      BY <3>1, <2>3, OctaveAt, Zenon
  <2> QED
    BY <1>3, <2>2, <2>4, SMT
<1> QED
  BY <1>1, <1>2, <1>3, SMT

(* Octaves follow one another, and their classes within them. *)
LEMMA OctavesGrow ==
    ASSUME NEW n \in Nat, NEW m \in Nat, NEW i, NEW j, n <= m, Octaves(n, i), Octaves(m, j)
    PROVE  i \in 64..127 /\ j \in 64..127 /\ i <= j
<1>1. InOctave(n, i, 7, 128) =>
          /\ i \in (8 * 7 + 8)..(8 * 7 + 15) /\ 8 * 128 <= n /\ n < 16 * 128
          /\ InOctave(m, j, 7, 128) => i <= j
  BY SMT DEF InOctave
<1>11. InOctave(m, j, 7, 128) => j \in (8 * 7 + 8)..(8 * 7 + 15) /\ 8 * 128 <= m /\ m < 16 * 128
  BY SMT DEF InOctave
<1>2. InOctave(n, i, 8, 256) =>
          /\ i \in (8 * 8 + 8)..(8 * 8 + 15) /\ 8 * 256 <= n /\ n < 16 * 256
          /\ InOctave(m, j, 8, 256) => i <= j
  BY SMT DEF InOctave
<1>12. InOctave(m, j, 8, 256) => j \in (8 * 8 + 8)..(8 * 8 + 15) /\ 8 * 256 <= m /\ m < 16 * 256
  BY SMT DEF InOctave
<1>3. InOctave(n, i, 9, 512) =>
          /\ i \in (8 * 9 + 8)..(8 * 9 + 15) /\ 8 * 512 <= n /\ n < 16 * 512
          /\ InOctave(m, j, 9, 512) => i <= j
  BY SMT DEF InOctave
<1>13. InOctave(m, j, 9, 512) => j \in (8 * 9 + 8)..(8 * 9 + 15) /\ 8 * 512 <= m /\ m < 16 * 512
  BY SMT DEF InOctave
<1>4. InOctave(n, i, 10, 1024) =>
          /\ i \in (8 * 10 + 8)..(8 * 10 + 15) /\ 8 * 1024 <= n /\ n < 16 * 1024
          /\ InOctave(m, j, 10, 1024) => i <= j
  BY SMT DEF InOctave
<1>14. InOctave(m, j, 10, 1024) => j \in (8 * 10 + 8)..(8 * 10 + 15) /\ 8 * 1024 <= m /\ m < 16 * 1024
  BY SMT DEF InOctave
<1>5. InOctave(n, i, 11, 2048) =>
          /\ i \in (8 * 11 + 8)..(8 * 11 + 15) /\ 8 * 2048 <= n /\ n < 16 * 2048
          /\ InOctave(m, j, 11, 2048) => i <= j
  BY SMT DEF InOctave
<1>15. InOctave(m, j, 11, 2048) => j \in (8 * 11 + 8)..(8 * 11 + 15) /\ 8 * 2048 <= m /\ m < 16 * 2048
  BY SMT DEF InOctave
<1>6. InOctave(n, i, 12, 4096) =>
          /\ i \in (8 * 12 + 8)..(8 * 12 + 15) /\ 8 * 4096 <= n /\ n < 16 * 4096
          /\ InOctave(m, j, 12, 4096) => i <= j
  BY SMT DEF InOctave
<1>16. InOctave(m, j, 12, 4096) => j \in (8 * 12 + 8)..(8 * 12 + 15) /\ 8 * 4096 <= m /\ m < 16 * 4096
  BY SMT DEF InOctave
<1>7. InOctave(n, i, 13, 8192) =>
          /\ i \in (8 * 13 + 8)..(8 * 13 + 15) /\ 8 * 8192 <= n /\ n < 16 * 8192
          /\ InOctave(m, j, 13, 8192) => i <= j
  BY SMT DEF InOctave
<1>17. InOctave(m, j, 13, 8192) => j \in (8 * 13 + 8)..(8 * 13 + 15) /\ 8 * 8192 <= m /\ m < 16 * 8192
  BY SMT DEF InOctave
<1>8. InOctave(n, i, 14, 16384) =>
          /\ i \in (8 * 14 + 8)..(8 * 14 + 15) /\ 8 * 16384 <= n /\ n < 16 * 16384
          /\ InOctave(m, j, 14, 16384) => i <= j
  BY SMT DEF InOctave
<1>18. InOctave(m, j, 14, 16384) => j \in (8 * 14 + 8)..(8 * 14 + 15) /\ 8 * 16384 <= m /\ m < 16 * 16384
  BY SMT DEF InOctave
<1> QED
  BY <1>1, <1>11, <1>2, <1>12, <1>3, <1>13, <1>4, <1>14, <1>5, <1>15, <1>6, <1>16, <1>7, <1>17, <1>8, <1>18, SMT DEF Octaves

(* A larger chunk is in the same bin or in one further up; a small bin is  *)
(* of one size.                                                            *)
LEMMA BinOrder ==
    ASSUME NEW s \in Nat, NEW t \in Nat
    PROVE  /\ BinIndex(s) \in Bin
           /\ s <= t => BinIndex(s) <= BinIndex(t)
           /\ BinIndex(s) < NUM_SMALL_BINS /\ BinIndex(s) = BinIndex(t) => s = t
<1> DEFINE n == s * 64
           m == t * 64
<1>1. n \in Nat /\ m \in Nat /\ (s <= t => n <= m) /\ (t <= s => m <= n)
  BY SMT
<1>2. Octaves(n, BinIndex(s)) => BinIndex(s) \in 64..127
  <2>1. n \in Nat /\ n <= n
    BY <1>1, SMT
  <2> HIDE DEF n, m
  <2> QED
    BY <2>1, OctavesGrow, Zenon
<1>3. Octaves(m, BinIndex(t)) => BinIndex(t) \in 64..127
  <2>1. m \in Nat /\ m <= m
    BY <1>1, SMT
  <2> HIDE DEF n, m
  <2> QED
    BY <2>1, OctavesGrow, Zenon
<1>4. n <= m /\ Octaves(n, BinIndex(s)) /\ Octaves(m, BinIndex(t)) => BinIndex(s) <= BinIndex(t)
  <2> HIDE DEF n, m
  <2> QED
    BY <1>1, OctavesGrow, SMT
<1>5. BinIndex(s) \in Bin
  BY <1>2, BinCases, SMT DEF Bin, NUM_BINS
<1>6. s <= t => BinIndex(s) <= BinIndex(t)
  BY <1>1, <1>2, <1>3, <1>4, BinCases, SMT
<1>7. BinIndex(s) < NUM_SMALL_BINS /\ BinIndex(s) = BinIndex(t) => s = t
  BY <1>2, <1>3, BinCases, SMT DEF NUM_SMALL_BINS
<1> QED
  BY <1>5, <1>6, <1>7

-----------------------------------------------------------------------------
(* Tags.                                                                   *)

Tags == [size : Nat, used : BOOLEAN]
IsTags(f) == DOMAIN f \subseteq Nat /\ f \in [DOMAIN f -> Tags]

(* A tag and its fields. *)
LEMMA TagIs ==
    ASSUME NEW s \in Nat, NEW u \in BOOLEAN
    PROVE  Tag(s, u) \in Tags /\ Tag(s, u).size = s /\ Tag(s, u).used = u
<1>1. Tag(s, u) \in Tags
  BY Zenon DEF Tag, Tags
<1>2. Tag(s, u).size = s /\ Tag(s, u).used = u
  BY Zenon DEF Tag
<1> QED
  BY <1>1, <1>2

(* Tags with one written, and with some forgotten. *)
Putting(f, x, v, g) ==
    /\ IsTags(g) /\ DOMAIN g = DOMAIN f \cup {x} /\ g[x] = v
    /\ \A y \in DOMAIN f \ {x} : g[y] = f[y]
(* Put writes one tag. *)
LEMMA PutIs ==
    ASSUME NEW f, IsTags(f), NEW x \in Nat, NEW v \in Tags
    PROVE  Putting(f, x, v, Put(f, x, v))
  BY DEF Put, IsTags, Putting

(* Forgetting tags leaves the others. *)
LEMMA WithoutIs ==
    ASSUME NEW f, IsTags(f), NEW S
    PROVE  /\ IsTags(Without(f, S)) /\ DOMAIN Without(f, S) = DOMAIN f \ S
           /\ \A y \in DOMAIN f \ S : Without(f, S)[y] = f[y]
  BY DEF Without, IsTags

(* The boundaries of chunks, when the run of blocks from a to b, if any,   *)
(* has no tag that counts: its own tag at a and the copy at b may be       *)
(* missing or out of date.  No run is meant by one from the end to the     *)
(* start.                                                                  *)
Marks(o, a) == DOMAIN o \cup {a}

(* A chunk ends where its copy is, no boundary is inside it, and it does   *)
(* not touch another free one. *)
Ahead(o, e, a, b, c) ==
    /\ o[c].size >= 2 /\ c + o[c].size \in Marks(o, a) /\ c + o[c].size # b
    /\ e[c + o[c].size] = o[c]
    /\ \A t \in Marks(o, a) : t <= c \/ t >= c + o[c].size
    /\ o[c].used \/ c + o[c].size = a \/ o[c + o[c].size].used

(* The copy at a boundary is that of the chunk before it. *)
Behind(o, e, a, b, x) ==
    x - e[x].size \in Marks(o, a) \ {a, Blocks} /\ o[x - e[x].size] = e[x]

Fence == Tag(0, TRUE)
Apart(o, e, a, b) ==
    /\ IsTags(o) /\ IsTags(e) /\ a \in DOMAIN e /\ b \in DOMAIN o
    /\ Marks(o, a) = DOMAIN e \cup {b} /\ Marks(o, a) \subseteq 0..Blocks
    /\ 0 \in DOMAIN e /\ e[0] = Fence
    /\ Blocks \in DOMAIN o /\ o[Blocks] = Fence
    /\ \A t \in Marks(o, a) : t <= a \/ t >= b
    /\ \A c \in Marks(o, a) \ {a, Blocks} : Ahead(o, e, a, b, c)
    /\ \A x \in Marks(o, a) \ {0, b} : Behind(o, e, a, b, x)

(* The fence is an empty chunk in use. *)
LEMMA FenceIs == Fence \in Tags /\ Fence.size = 0 /\ Fence.used
  BY TagIs DEF Fence

(* What the tags say of a place. *)
LEMMA ApartFacts ==
    ASSUME NEW o, NEW e, NEW a, NEW b, Apart(o, e, a, b)
    PROVE  /\ a \in Nat /\ b \in Nat /\ Blocks \in Nat /\ a <= Blocks /\ b <= Blocks
           /\ \A t \in Marks(o, a) : t \in Nat /\ t <= Blocks
           /\ \A c \in DOMAIN o : o[c] \in Tags /\ o[c].size \in Nat /\ o[c].used \in BOOLEAN
           /\ \A x \in DOMAIN e : e[x] \in Tags /\ e[x].size \in Nat /\ e[x].used \in BOOLEAN
<1>1. a \in Marks(o, a) /\ b \in Marks(o, a) /\ Blocks \in Nat
  BY SizeAssumption DEF Apart, Marks
<1>2. \A t \in Marks(o, a) : t \in Nat /\ t <= Blocks
  BY <1>1 DEF Apart
<1>3. \A f : IsTags(f) => \A x \in DOMAIN f : f[x] \in Tags
  BY DEF IsTags
<1>4. \A v \in Tags : v.size \in Nat /\ v.used \in BOOLEAN
  BY Zenon DEF Tags
<1> QED
  BY <1>1, <1>2, <1>3, <1>4 DEF Apart

(* A chunk is opened: its tag no longer counts. *)
LEMMA Opened ==
    ASSUME NEW o, NEW e, Apart(o, e, Blocks, 0), NEW c \in DOMAIN o \ {Blocks}
    PROVE  /\ Apart(o, e, c, c + o[c].size) /\ c + o[c].size - c = o[c].size
           /\ o[c].size \in Nat /\ o[c].size >= 2 /\ c \in Nat
           /\ e[c].used \/ o[c].used
<1> DEFINE b == c + o[c].size
<1>1. /\ Blocks \in Nat /\ c \in Nat /\ o[c].size \in Nat
      /\ \A t \in Marks(o, Blocks) : t \in Nat /\ t <= Blocks
      /\ \A x \in DOMAIN e : e[x].size \in Nat
  BY ApartFacts DEF Marks
<1>2. Marks(o, Blocks) = DOMAIN o /\ Marks(o, c) = DOMAIN o
  BY DEF Apart, Marks
<1>3. DOMAIN e = DOMAIN o /\ 0 \in DOMAIN o
  BY <1>2 DEF Apart
<1>4. \A d \in DOMAIN o \ {Blocks} : Ahead(o, e, Blocks, 0, d)
  BY <1>2 DEF Apart
<1>5. \A x \in DOMAIN o \ {0} : Behind(o, e, Blocks, 0, x)
  BY <1>2 DEF Apart
<1>6. b \in DOMAIN o /\ b \in Nat /\ o[c].size >= 2 /\ \A t \in DOMAIN o : t <= c \/ t >= b
  BY <1>1, <1>2, <1>4 DEF Ahead
<1>7. ASSUME NEW d \in DOMAIN o \ {c, Blocks} PROVE Ahead(o, e, c, b, d)
  <2>1. Ahead(o, e, Blocks, 0, d) /\ d \in Nat /\ o[d].size \in Nat
    BY <1>2, <1>4, ApartFacts
  <2>2. d + o[d].size # b
    BY <2>1, <1>1, <1>2, <1>6 DEF Ahead
  <2>3. /\ o[d].size >= 2 /\ d + o[d].size \in DOMAIN o /\ e[d + o[d].size] = o[d]
        /\ \A t \in DOMAIN o : t <= d \/ t >= d + o[d].size
        /\ o[d].used \/ d + o[d].size = Blocks \/ o[d + o[d].size].used
    BY <2>1, <1>2 DEF Ahead
  <2>4. o[Blocks].used
    BY FenceIs DEF Apart
  <2> HIDE DEF b
  <2> QED
    BY <2>2, <2>3, <2>4, <1>2 DEF Ahead
<1>8. ASSUME NEW x \in DOMAIN o \ {0, b} PROVE Behind(o, e, c, b, x)
  <2>1. x - e[x].size \in DOMAIN o \ {Blocks} /\ o[x - e[x].size] = e[x]
    BY <1>2, <1>5 DEF Behind
  <2>2. x - e[x].size # c
    BY <2>1, <1>1, <1>2, <1>3
  <2> QED
    BY <2>1, <2>2, <1>2 DEF Behind
<1>9. Apart(o, e, c, b)
  <2> HIDE DEF b
  <2> QED
    BY <1>2, <1>3, <1>6, <1>7, <1>8 DEF Apart
<1>10. e[c].used \/ o[c].used
  <2>1. CASE c = 0
    BY <2>1, FenceIs DEF Apart
  <2>2. CASE c # 0
    <3>1. c - e[c].size \in DOMAIN o \ {Blocks} /\ o[c - e[c].size] = e[c] /\ e[c].size \in Nat
      BY <2>2, <1>1, <1>2, <1>3, <1>5 DEF Behind
    <3> DEFINE d == c - e[c].size
    <3>2. d + o[d].size = c
      BY <3>1, <1>1
    <3>3. o[d].used \/ d + o[d].size = Blocks \/ o[d + o[d].size].used
      BY <3>1, <1>4 DEF Ahead
    <3> HIDE DEF d
    <3> QED
      BY <3>1, <3>2, <3>3 DEF d
  <2> QED
    BY <2>1, <2>2
<1> QED
  BY <1>1, <1>6, <1>9, <1>10

(* The run from a to b gets a tag and its copy, and is a chunk.            *)
LEMMA Filled ==
    ASSUME NEW o, NEW e, NEW a, NEW b, Apart(o, e, a, b), a + 2 <= b,
           NEW v \in Tags, v.size = b - a, v.used \/ (e[a].used /\ o[b].used)
    PROVE  Apart(Put(o, a, v), Put(e, b, v), Blocks, 0)
<1> DEFINE p == Put(o, a, v)
           q == Put(e, b, v)
<1>1. /\ a \in Nat /\ b \in Nat /\ Blocks \in Nat /\ a < b /\ b <= Blocks /\ v.size \in Nat
      /\ \A t \in Marks(o, a) : t \in Nat /\ t <= Blocks
      /\ \A x \in DOMAIN e : e[x].size \in Nat
      /\ \A c \in DOMAIN o : o[c].size \in Nat
  BY ApartFacts
<1>t. IsTags(o) /\ IsTags(e)
  BY DEF Apart
<1>2. /\ IsTags(p) /\ DOMAIN p = DOMAIN o \cup {a} /\ p[a] = v
      /\ \A y \in DOMAIN o \ {a} : p[y] = o[y]
  <2>1. Putting(o, a, v, p)
    BY <1>1, <1>t, PutIs, Zenon
  <2> HIDE DEF p
  <2> QED
    BY <2>1 DEF Putting
<1>3. /\ IsTags(q) /\ DOMAIN q = DOMAIN e \cup {b} /\ q[b] = v
      /\ \A y \in DOMAIN e \ {b} : q[y] = e[y]
  <2>1. Putting(e, b, v, q)
    BY <1>1, <1>t, PutIs, Zenon
  <2> HIDE DEF q
  <2> QED
    BY <2>1 DEF Putting
<1> HIDE DEF p, q
<1> DEFINE T == Marks(o, a)
<1>4. T = DOMAIN p /\ T = DOMAIN q /\ Marks(p, Blocks) = T /\ Blocks \in T /\ 0 \in T /\ a \in T /\ b \in T
  BY <1>2, <1>3 DEF Apart, Marks
<1>5. p[Blocks] = Fence /\ q[0] = Fence
  BY <1>1, <1>2, <1>3 DEF Apart
<1>6. Ahead(p, q, Blocks, 0, a)
  <2>1. a + v.size = b /\ v.size >= 2
    BY <1>1
  <2>2. v.used \/ p[b].used
    BY <1>1, <1>2 DEF Apart
  <2>3. \A t \in T : t <= a \/ t >= b
    BY DEF Apart
  <2>4. a + p[a].size = b /\ p[a].size >= 2 /\ p[a].used = v.used /\ q[b] = p[a] /\ b # 0
    BY <2>1, <1>1, <1>2, <1>3
  <2> HIDE DEF T
  <2> QED
    BY <2>2, <2>3, <2>4, <1>4 DEF Ahead
<1>7. ASSUME NEW c \in T \ {a, Blocks} PROVE Ahead(p, q, Blocks, 0, c)
  <2>1. Ahead(o, e, a, b, c) /\ c \in DOMAIN o \ {a} /\ p[c] = o[c] /\ c \in Nat /\ o[c].size \in Nat
    BY <1>1, <1>2 DEF Apart, Marks
  <2> DEFINE x == c + o[c].size
  <2>2. /\ o[c].size >= 2 /\ x \in T /\ x # b /\ e[x] = o[c] /\ x \in Nat /\ x # 0
        /\ \A t \in T : t <= c \/ t >= x
        /\ o[c].used \/ x = a \/ o[x].used
    BY <2>1, <1>1 DEF Ahead
  <2>3. q[x] = o[c]
    BY <2>2, <1>3, <1>4
  <2>4. p[c].used \/ p[x].used
    <3>1. CASE o[c].used
      BY <3>1, <2>1
    <3>2. CASE x = a
      <4>1. o[c].used \/ v.used
        BY <2>2, <3>2
      <4> QED
        BY <4>1, <3>2, <2>1, <1>2
    <3>3. CASE x # a /\ o[x].used
      <4>1. x \in DOMAIN o \ {a}
        BY <3>3, <2>2, <1>2, <1>4
      <4> QED
        BY <4>1, <3>3, <1>2
    <3> QED
      BY <2>2, <3>1, <3>2, <3>3
  <2> HIDE DEF T, x
  <2>5. c + p[c].size = x
    BY <2>1 DEF x
  <2> QED
    BY <2>1, <2>2, <2>3, <2>4, <2>5, <1>4 DEF Ahead
<1>8. Behind(p, q, Blocks, 0, b)
  <2>1. b - q[b].size = a /\ a # Blocks
    BY <1>1, <1>3
  <2> QED
    BY <2>1, <1>2, <1>3, <1>4 DEF Behind
<1>9. ASSUME NEW x \in T \ {0, b} PROVE Behind(p, q, Blocks, 0, x)
  <2>1. Behind(o, e, a, b, x) /\ x \in DOMAIN e \ {b}
    BY DEF Apart
  <2>2. x - e[x].size \in T \ {a, Blocks} /\ o[x - e[x].size] = e[x] /\ q[x] = e[x]
    BY <2>1, <1>3 DEF Behind
  <2>3. x - e[x].size \in DOMAIN o \ {a}
    BY <2>2, <1>2, <1>4
  <2> QED
    BY <2>2, <2>3, <1>2, <1>4 DEF Behind
<1> HIDE DEF T
<1> QED
  <2>1. T \subseteq 0..Blocks
    BY DEF Apart, T
  <2>2. \A t \in T : t <= Blocks
    BY <1>1 DEF T
  <2>3. \A c \in T \ {Blocks, Blocks} : Ahead(p, q, Blocks, 0, c)
    BY <1>6, <1>7
  <2>4. \A x \in T \ {0, 0} : Behind(p, q, Blocks, 0, x)
    BY <1>8, <1>9
  <2>5. T = DOMAIN q \cup {0} /\ \A t \in T : t <= Blocks \/ t >= 0
    BY <2>2, <1>4
  <2>6. Blocks \in DOMAIN p /\ Blocks \in DOMAIN q /\ 0 \in DOMAIN p /\ 0 \in DOMAIN q
    BY <1>4
  <2>7. /\ Marks(p, Blocks) = DOMAIN q \cup {0} /\ Marks(p, Blocks) \subseteq 0..Blocks
        /\ \A t \in Marks(p, Blocks) : t <= Blocks \/ t >= 0
        /\ \A c \in Marks(p, Blocks) \ {Blocks, Blocks} : Ahead(p, q, Blocks, 0, c)
        /\ \A x \in Marks(p, Blocks) \ {0, 0} : Behind(p, q, Blocks, 0, x)
    BY <2>1, <2>3, <2>4, <2>5, <1>4, Zenon
  <2>8. Apart(p, q, Blocks, 0)
    BY <2>6, <2>7, <1>2, <1>3, <1>5, Zenon DEF Apart
  <2> QED
    BY <2>8 DEF p, q

(* The first n blocks of the run become a chunk in use. *)
LEMMA Cut ==
    ASSUME NEW o, NEW e, NEW a, NEW b, Apart(o, e, a, b), NEW n \in Nat, 2 <= n, a + n < b,
           NEW v \in Tags, v.size = n, v.used
    PROVE  Apart(Put(o, a, v), Put(e, a + n, v), a + n, b)
<1> DEFINE m == a + n
           p == Put(o, a, v)
           q == Put(e, m, v)
<1>1. /\ a \in Nat /\ b \in Nat /\ Blocks \in Nat /\ m \in Nat /\ a < m /\ m < b /\ b <= Blocks
      /\ \A t \in Marks(o, a) : t \in Nat /\ t <= Blocks
      /\ \A x \in DOMAIN e : e[x].size \in Nat
      /\ \A c \in DOMAIN o : o[c].size \in Nat
  BY ApartFacts
<1>t. IsTags(o) /\ IsTags(e)
  BY DEF Apart
<1>2. /\ IsTags(p) /\ DOMAIN p = DOMAIN o \cup {a} /\ p[a] = v
      /\ \A y \in DOMAIN o \ {a} : p[y] = o[y]
  <2>1. Putting(o, a, v, p)
    BY <1>1, <1>t, PutIs, Zenon
  <2> HIDE DEF p
  <2> QED
    BY <2>1 DEF Putting
<1>3. /\ IsTags(q) /\ DOMAIN q = DOMAIN e \cup {m} /\ q[m] = v
      /\ \A y \in DOMAIN e \ {m} : q[y] = e[y]
  <2>1. Putting(e, m, v, q)
    BY <1>1, <1>t, PutIs, Zenon
  <2> HIDE DEF q
  <2> QED
    BY <2>1 DEF Putting
<1>x. a + v.size = m
  BY <1>1
<1> HIDE DEF p, q
<1> DEFINE T == Marks(o, a)
<1>4. /\ T = DOMAIN p /\ T \cup {m} = DOMAIN q \cup {b} /\ Marks(p, m) = T \cup {m}
      /\ Blocks \in T /\ 0 \in T /\ a \in T /\ b \in T
  BY <1>2, <1>3 DEF Apart, Marks
<1>5. \A t \in T : t <= a \/ t >= b
  BY DEF Apart
<1>6. m \notin T
  BY <1>1, <1>5
<1>7. p[Blocks] = Fence /\ q[0] = Fence
  BY <1>1, <1>2, <1>3 DEF Apart
<1>8. Ahead(p, q, m, b, a)
  <2>0. \A t \in T : t \in Nat
    BY <1>1
  <2> HIDE DEF T, m
  <2>1. \A t \in T \cup {m} : t <= a \/ t >= m
    BY <2>0, <1>1, <1>5
  <2>2. a + p[a].size = m /\ p[a].size >= 2 /\ p[a].used /\ q[m] = p[a] /\ m # b
    BY <1>1, <1>2, <1>3, <1>x
  <2> QED
    BY <2>1, <2>2, <1>4 DEF Ahead
<1>9. ASSUME NEW c \in T \ {a, Blocks} PROVE Ahead(p, q, m, b, c)
  <2>1. Ahead(o, e, a, b, c) /\ c \in DOMAIN o \ {a} /\ p[c] = o[c] /\ c \in Nat /\ o[c].size \in Nat
    BY <1>1, <1>2 DEF Apart, Marks
  <2> DEFINE x == c + o[c].size
  <2>2. /\ o[c].size >= 2 /\ x \in T /\ x # b /\ e[x] = o[c] /\ x \in Nat
        /\ \A t \in T : t <= c \/ t >= x
        /\ o[c].used \/ x = a \/ o[x].used
    BY <2>1, <1>1 DEF Ahead
  <2>3. x \in DOMAIN e \ {m}
    BY <2>2, <1>3, <1>4, <1>6 DEF Apart
  <2>4. q[x] = o[c]
    BY <2>2, <2>3, <1>3
  <2>5. p[c].used \/ p[x].used
    <3>1. CASE o[c].used
      BY <3>1, <2>1
    <3>2. CASE x = a
      BY <3>2, <1>2
    <3>3. CASE x # a /\ o[x].used
      <4>1. x \in DOMAIN o \ {a}
        BY <3>3, <2>2, <1>2, <1>4
      <4> QED
        BY <4>1, <3>3, <1>2
    <3> QED
      BY <2>2, <3>1, <3>2, <3>3
  <2>6. m <= c \/ m >= x
    BY <2>1, <2>2, <1>1, <1>4, <1>5
  <2>7. \A t \in T \cup {m} : t <= c \/ t >= x
    BY <2>2, <2>6
  <2> HIDE DEF T, x, m
  <2>8. c + p[c].size = x
    BY <2>1 DEF x
  <2> QED
    BY <2>1, <2>2, <2>4, <2>5, <2>7, <2>8, <1>4 DEF Ahead
<1>10. Behind(p, q, m, b, m)
  <2>1. m - q[m].size = a /\ a # m /\ a # Blocks
    BY <1>1, <1>3
  <2> HIDE DEF m
  <2> QED
    BY <2>1, <1>2, <1>3, <1>4 DEF Behind
<1>11. ASSUME NEW x \in T \ {0, b} PROVE Behind(p, q, m, b, x)
  <2>1. Behind(o, e, a, b, x) /\ x \in DOMAIN e \ {m}
    BY <1>6 DEF Apart
  <2>2. x - e[x].size \in T \ {a, Blocks} /\ o[x - e[x].size] = e[x] /\ q[x] = e[x]
    BY <2>1, <1>3 DEF Behind
  <2>3. x - e[x].size \in DOMAIN o \ {a} /\ x - e[x].size # m
    BY <2>2, <1>2, <1>4, <1>6
  <2> QED
    BY <2>2, <2>3, <1>2, <1>4 DEF Behind
<1> HIDE DEF T, m
<1> QED
  <2>0. T \subseteq 0..Blocks
    BY DEF Apart, T
  <2>1. T \cup {m} \subseteq 0..Blocks
    BY <2>0, <1>1
  <2>2. \A t \in T \cup {m} : t <= m \/ t >= b
    <3>1. \A t \in T : t \in Nat
      BY <2>0, <1>1
    <3> QED
      BY <3>1, <1>1, <1>5
  <2>3. m \in DOMAIN q /\ b \in DOMAIN p /\ 0 \in DOMAIN q /\ Blocks \in DOMAIN p
    BY <1>1, <1>3, <1>4 DEF Apart
  <2>4. \A c \in (T \cup {m}) \ {m, Blocks} : Ahead(p, q, m, b, c)
    BY <1>8, <1>9
  <2>5. \A x \in (T \cup {m}) \ {0, b} : Behind(p, q, m, b, x)
    BY <1>10, <1>11
  <2>7. /\ Marks(p, m) = DOMAIN q \cup {b} /\ Marks(p, m) \subseteq 0..Blocks
        /\ \A t \in Marks(p, m) : t <= m \/ t >= b
        /\ \A c \in Marks(p, m) \ {m, Blocks} : Ahead(p, q, m, b, c)
        /\ \A x \in Marks(p, m) \ {0, b} : Behind(p, q, m, b, x)
    BY <2>1, <2>2, <2>4, <2>5, <1>4, Zenon
  <2>8. Apart(p, q, m, b)
    BY <2>3, <2>7, <1>2, <1>3, <1>7, Zenon DEF Apart
  <2> QED
    BY <2>8 DEF p, q, m

(* The run takes in a free chunk before it: the boundary a is forgotten.   *)
LEMMA JoinedBefore ==
    ASSUME NEW o, NEW e, NEW a, NEW b, Apart(o, e, a, b), a < b, ~e[a].used
    PROVE  LET at == a - e[a].size
           IN  /\ Apart(Without(o, {a}), Without(e, {a}), at, b)
               /\ at \in DOMAIN o \ {a, Blocks} /\ at \in Nat /\ at < a /\ ~o[at].used
               /\ e[at].used /\ at \in DOMAIN e /\ a # Blocks
<1> DEFINE at == a - e[a].size
           p == Without(o, {a})
           q == Without(e, {a})
           T == Marks(o, a)
<1>1. /\ a \in Nat /\ b \in Nat /\ Blocks \in Nat /\ b <= Blocks
      /\ \A t \in T : t \in Nat /\ t <= Blocks
      /\ \A x \in DOMAIN e : e[x].size \in Nat
      /\ \A c \in DOMAIN o : o[c].size \in Nat
  BY ApartFacts
<1>t. IsTags(o) /\ IsTags(e)
  BY DEF Apart
<1>2. /\ IsTags(p) /\ DOMAIN p = DOMAIN o \ {a} /\ \A y \in DOMAIN o \ {a} : p[y] = o[y]
  BY <1>t, WithoutIs, Zenon
<1>3. /\ IsTags(q) /\ DOMAIN q = DOMAIN e \ {a} /\ \A y \in DOMAIN e \ {a} : q[y] = e[y]
  BY <1>t, WithoutIs, Zenon
<1> HIDE DEF p, q
<1>4. /\ a # 0 /\ a # b /\ a \in T /\ b \in T /\ a \in DOMAIN e /\ b \in DOMAIN o
      /\ 0 \in T /\ Blocks \in T /\ T = DOMAIN e \cup {b} /\ T = DOMAIN o \cup {a}
  BY <1>1, FenceIs DEF Apart, Marks
<1>5. Behind(o, e, a, b, a)
  BY <1>4 DEF Apart
<1>6. at \in T \ {a, Blocks} /\ o[at] = e[a] /\ at \in Nat /\ at < a /\ at # b
  <2>1. at \in T \ {a, Blocks} /\ o[at] = e[a]
    BY <1>5 DEF Behind
  <2>2. at \in Nat /\ e[a].size \in Nat
    BY <2>1, <1>1, <1>4
  <2> QED
    BY <2>1, <2>2, <1>1
<1>7. at + o[at].size = a /\ ~o[at].used
  BY <1>1, <1>4, <1>6
<1>8. /\ at \in DOMAIN o /\ at \in DOMAIN e /\ at \in DOMAIN p /\ at \in DOMAIN q
      /\ T \ {a} = Marks(p, at) /\ T \ {a} = DOMAIN q \cup {b} /\ DOMAIN p = T \ {a}
  BY <1>2, <1>3, <1>4, <1>6 DEF Marks
<1>9. Ahead(o, e, a, b, at)
  BY <1>6 DEF Apart
<1> HIDE DEF T, at
<1>10. \A t \in T : (t <= at \/ t >= a) /\ (t <= a \/ t >= b)
  BY <1>7, <1>9 DEF Apart, Ahead, T
<1>11. \A t \in T \ {a} : t <= at \/ t >= b
  BY <1>1, <1>4, <1>10
<1>12. e[at].used
  <2>1. CASE at = 0
    BY <2>1, FenceIs DEF Apart
  <2>2. CASE at # 0
    <3>1. Behind(o, e, a, b, at)
      BY <2>2, <1>6 DEF Apart, T
    <3> DEFINE d == at - e[at].size
    <3>2. d \in T \ {a, Blocks} /\ o[d] = e[at] /\ d \in Nat
      BY <3>1, <1>1 DEF Behind, T
    <3>3. d + o[d].size = at
      BY <3>2, <1>1, <1>6, <1>8
    <3>4. Ahead(o, e, a, b, d)
      BY <3>2 DEF Apart, T
    <3> HIDE DEF d
    <3> QED
      BY <3>2, <3>3, <3>4, <1>6, <1>7 DEF Ahead
  <2> QED
    BY <2>1, <2>2
<1>13. ASSUME NEW c \in (T \ {a}) \ {at, Blocks} PROVE Ahead(p, q, at, b, c)
  <2>1. Ahead(o, e, a, b, c) /\ c \in DOMAIN o \ {a} /\ p[c] = o[c] /\ c \in Nat /\ o[c].size \in Nat
    BY <1>1, <1>2, <1>4 DEF Apart, T
  <2> DEFINE x == c + o[c].size
  <2>2. /\ o[c].size >= 2 /\ x \in T /\ x # b /\ e[x] = o[c] /\ x \in Nat
        /\ \A t \in T : t <= c \/ t >= x
        /\ o[c].used \/ x = a \/ o[x].used
    BY <2>1, <1>1 DEF Ahead, T
  <2>3. x # a
    BY <2>1, <2>2, <1>1, <1>4, <1>6, <1>7
  <2>4. x \in DOMAIN e \ {a} /\ q[x] = o[c]
    BY <2>2, <2>3, <1>3, <1>4
  <2>5. p[c].used \/ x = at \/ p[x].used
    BY <2>1, <2>2, <2>3, <1>2, <1>4
  <2> HIDE DEF x
  <2>6. c + p[c].size = x
    BY <2>1 DEF x
  <2> QED
    BY <2>1, <2>2, <2>3, <2>4, <2>5, <2>6, <1>8 DEF Ahead
<1>14. ASSUME NEW x \in (T \ {a}) \ {0, b} PROVE Behind(p, q, at, b, x)
  <2>1. Behind(o, e, a, b, x) /\ x \in DOMAIN e \ {a}
    BY <1>4 DEF Apart, T
  <2>2. x - e[x].size \in T \ {a, Blocks} /\ o[x - e[x].size] = e[x] /\ q[x] = e[x]
    BY <2>1, <1>3 DEF Behind, T
  <2>3. x - e[x].size # at
    BY <2>1, <2>2, <1>1, <1>4, <1>6, <1>7
  <2> QED
    BY <2>2, <2>3, <1>2, <1>4, <1>8 DEF Behind
<1>15. Apart(p, q, at, b)
  <2>1. T \subseteq 0..Blocks
    BY DEF Apart, T
  <2>2. 0 \in DOMAIN q /\ q[0] = Fence
    BY <1>3, <1>4 DEF Apart
  <2>3. Blocks \in DOMAIN p /\ p[Blocks] = Fence /\ b \in DOMAIN p
    BY <1>1, <1>2, <1>4 DEF Apart
  <2>4. /\ Marks(p, at) = DOMAIN q \cup {b} /\ Marks(p, at) \subseteq 0..Blocks
        /\ \A t \in Marks(p, at) : t <= at \/ t >= b
        /\ \A c \in Marks(p, at) \ {at, Blocks} : Ahead(p, q, at, b, c)
        /\ \A x \in Marks(p, at) \ {0, b} : Behind(p, q, at, b, x)
    BY <2>1, <1>8, <1>11, <1>13, <1>14
  <2> QED
    BY <2>2, <2>3, <2>4, <1>2, <1>3, <1>8, Zenon DEF Apart
<1>16. a # Blocks
  BY <1>1
<1> QED
  BY <1>6, <1>7, <1>8, <1>12, <1>15, <1>16 DEF p, q, at

(* The run takes in a free chunk behind it: the boundary b is forgotten.   *)
LEMMA JoinedBehind ==
    ASSUME NEW o, NEW e, NEW a, NEW b, Apart(o, e, a, b), a < b, ~o[b].used
    PROVE  LET end == b + o[b].size
           IN  /\ Apart(Without(o, {b}), Without(e, {b}), a, end)
               /\ b \in DOMAIN o \ {a, Blocks} /\ end \in Nat /\ b < end /\ end \in DOMAIN o
               /\ o[end].used
<1> DEFINE end == b + o[b].size
           p == Without(o, {b})
           q == Without(e, {b})
           T == Marks(o, a)
<1>1. /\ a \in Nat /\ b \in Nat /\ Blocks \in Nat /\ b <= Blocks
      /\ \A t \in T : t \in Nat /\ t <= Blocks
      /\ \A x \in DOMAIN e : e[x].size \in Nat
      /\ \A c \in DOMAIN o : o[c].size \in Nat
  BY ApartFacts
<1>t. IsTags(o) /\ IsTags(e)
  BY DEF Apart
<1>2. /\ IsTags(p) /\ DOMAIN p = DOMAIN o \ {b} /\ \A y \in DOMAIN o \ {b} : p[y] = o[y]
  BY <1>t, WithoutIs, Zenon
<1>3. /\ IsTags(q) /\ DOMAIN q = DOMAIN e \ {b} /\ \A y \in DOMAIN e \ {b} : q[y] = e[y]
  BY <1>t, WithoutIs, Zenon
<1> HIDE DEF p, q
<1>4. /\ b # 0 /\ a # b /\ b # Blocks /\ a \in T /\ b \in T /\ a \in DOMAIN e /\ b \in DOMAIN o
      /\ 0 \in T /\ Blocks \in T /\ T = DOMAIN e \cup {b} /\ T = DOMAIN o \cup {a}
  BY <1>1, FenceIs DEF Apart, Marks
<1>5. Ahead(o, e, a, b, b)
  BY <1>4 DEF Apart
<1>6. /\ end \in T /\ end # b /\ end \in Nat /\ b < end /\ e[end] = o[b] /\ end # a
      /\ \A t \in T : t <= b \/ t >= end
      /\ o[end].used
  BY <1>1, <1>4, <1>5 DEF Ahead
<1>7. /\ end \in DOMAIN o /\ end \in DOMAIN e /\ end \in DOMAIN p
      /\ T \ {b} = Marks(p, a) /\ T \ {b} = DOMAIN q \cup {end} /\ a \in DOMAIN q
  BY <1>2, <1>3, <1>4, <1>6 DEF Marks
<1> HIDE DEF T, end
<1>8. \A t \in T : t <= a \/ t >= b
  BY DEF Apart, T
<1>9. \A t \in T \ {b} : t <= a \/ t >= end
  BY <1>1, <1>4, <1>6, <1>8
<1>10. ASSUME NEW c \in (T \ {b}) \ {a, Blocks} PROVE Ahead(p, q, a, end, c)
  <2>1. Ahead(o, e, a, b, c) /\ c \in DOMAIN o \ {a} /\ p[c] = o[c] /\ c \in Nat /\ o[c].size \in Nat
    BY <1>1, <1>2, <1>4 DEF Apart, T
  <2> DEFINE x == c + o[c].size
  <2>2. /\ o[c].size >= 2 /\ x \in T /\ x # b /\ e[x] = o[c] /\ x \in Nat
        /\ \A t \in T : t <= c \/ t >= x
        /\ o[c].used \/ x = a \/ o[x].used
    BY <2>1, <1>1 DEF Ahead, T
  <2>3. x # end
    <3>1. e[end].size = o[b].size /\ end = b + o[b].size /\ o[b].size \in Nat
      BY <1>1, <1>4, <1>6 DEF end
    <3> QED
      BY <2>1, <2>2, <3>1, <1>1
  <2>4. x \in DOMAIN e \ {b} /\ q[x] = o[c]
    BY <2>2, <1>3, <1>4
  <2>5. p[c].used \/ x = a \/ p[x].used
    BY <2>1, <2>2, <1>2, <1>4
  <2> HIDE DEF x
  <2>6. c + p[c].size = x
    BY <2>1 DEF x
  <2> QED
    BY <2>1, <2>2, <2>3, <2>4, <2>5, <2>6, <1>7 DEF Ahead
<1>11. ASSUME NEW x \in (T \ {b}) \ {0, end} PROVE Behind(p, q, a, end, x)
  <2>1. Behind(o, e, a, b, x) /\ x \in DOMAIN e \ {b}
    BY <1>4 DEF Apart, T
  <2>2. x - e[x].size \in T \ {a, Blocks} /\ o[x - e[x].size] = e[x] /\ q[x] = e[x]
    BY <2>1, <1>3 DEF Behind, T
  <2>3. x - e[x].size # b
    BY <2>1, <2>2, <1>1, <1>4, <1>6 DEF end
  <2> QED
    BY <2>2, <2>3, <1>2, <1>4, <1>7 DEF Behind
<1>12. Apart(p, q, a, end)
  <2>1. T \subseteq 0..Blocks
    BY DEF Apart, T
  <2>2. 0 \in DOMAIN q /\ q[0] = Fence
    BY <1>3, <1>4 DEF Apart
  <2>3. Blocks \in DOMAIN p /\ p[Blocks] = Fence
    BY <1>1, <1>2, <1>4 DEF Apart
  <2>4. /\ Marks(p, a) = DOMAIN q \cup {end} /\ Marks(p, a) \subseteq 0..Blocks
        /\ \A t \in Marks(p, a) : t <= a \/ t >= end
        /\ \A c \in Marks(p, a) \ {a, Blocks} : Ahead(p, q, a, end, c)
        /\ \A x \in Marks(p, a) \ {0, end} : Behind(p, q, a, end, x)
    BY <2>1, <1>7, <1>9, <1>10, <1>11
  <2> QED
    BY <2>2, <2>3, <2>4, <1>2, <1>3, <1>7, Zenon DEF Apart
<1> QED
  BY <1>4, <1>6, <1>7, <1>12 DEF p, q, end

-----------------------------------------------------------------------------
(* Lists.                                                                  *)

(* What a part of a sequence is. *)
LEMMA PartIs ==
    ASSUME NEW s \in Seq(Nat), NEW m \in 1..(Len(s) + 1), NEW n \in 0..Len(s), m <= n + 1
    PROVE  /\ SubSeq(s, m, n) \in Seq(Nat) /\ Len(SubSeq(s, m, n)) = n - m + 1
           /\ \A i \in 1..(n - m + 1) : SubSeq(s, m, n)[i] = s[m + i - 1]
<1>1. m \in Int /\ n \in Int /\ Len(s) \in Nat
  OBVIOUS
<1>2. \A i \in m..n : s[i] \in Nat
  BY <1>1
<1>3. /\ SubSeq(s, m, n) \in Seq(Nat)
      /\ Len(SubSeq(s, m, n)) = IF m <= n THEN n - m + 1 ELSE 0
      /\ \A i \in 1..(n - m + 1) : SubSeq(s, m, n)[i] = s[m + i - 1]
  BY <1>1, <1>2, SubSeqProperties
<1>4. (IF m <= n THEN n - m + 1 ELSE 0) = n - m + 1
  BY <1>1
<1> QED
  BY <1>3, <1>4

(* What RemoveAt gives. *)
LEMMA RemoveIs ==
    ASSUME NEW s \in Seq(Nat), NEW k \in 1..Len(s)
    PROVE  /\ RemoveAt(s, k) \in Seq(Nat) /\ Len(RemoveAt(s, k)) = Len(s) - 1
           /\ \A i \in 1..(Len(s) - 1) : RemoveAt(s, k)[i] = IF i < k THEN s[i] ELSE s[i + 1]
<1> DEFINE a == SubSeq(s, 1, k - 1)
           b == SubSeq(s, k + 1, Len(s))
<1>0. Len(s) \in Nat /\ k \in Nat /\ 1 <= k /\ k <= Len(s)
  OBVIOUS
<1>1. a \in Seq(Nat) /\ Len(a) = k - 1 /\ \A i \in 1..(k - 1) : a[i] = s[i]
  <2>1. /\ 1 \in 1..(Len(s) + 1) /\ k - 1 \in 0..Len(s) /\ 1 <= k - 1 + 1
        /\ k - 1 - 1 + 1 = k - 1 /\ \A i \in 1..(k - 1) : 1 + i - 1 = i
    BY <1>0
  <2>2. /\ a \in Seq(Nat) /\ Len(a) = k - 1 - 1 + 1
        /\ \A i \in 1..(k - 1 - 1 + 1) : a[i] = s[1 + i - 1]
    BY <2>1, PartIs, Zenon
  <2> HIDE DEF a
  <2> QED
    BY <2>1, <2>2
<1>2. /\ b \in Seq(Nat) /\ Len(b) = Len(s) - k
      /\ \A i \in 1..(Len(s) - k) : b[i] = s[k + i]
  <2>1. /\ k + 1 \in 1..(Len(s) + 1) /\ Len(s) \in 0..Len(s) /\ k + 1 <= Len(s) + 1
        /\ Len(s) - (k + 1) + 1 = Len(s) - k /\ \A i \in 1..(Len(s) - k) : k + 1 + i - 1 = k + i
    BY <1>0
  <2>2. /\ b \in Seq(Nat) /\ Len(b) = Len(s) - (k + 1) + 1
        /\ \A i \in 1..(Len(s) - (k + 1) + 1) : b[i] = s[k + 1 + i - 1]
    BY <2>1, PartIs, Zenon
  <2> HIDE DEF b
  <2> QED
    BY <2>1, <2>2
<1>3. RemoveAt(s, k) = a \o b
  BY DEF RemoveAt
<1> HIDE DEF a, b
<1>4. /\ a \o b \in Seq(Nat) /\ Len(a \o b) = Len(a) + Len(b)
      /\ \A i \in 1..(Len(a) + Len(b)) : (a \o b)[i] = IF i <= Len(a) THEN a[i] ELSE b[i - Len(a)]
  BY <1>0, <1>1, <1>2, ConcatProperties, ZenonT(30)
<1>5. Len(a) + Len(b) = Len(s) - 1
  BY <1>0, <1>1, <1>2
<1>6. ASSUME NEW i \in 1..(Len(s) - 1)
      PROVE  (a \o b)[i] = IF i < k THEN s[i] ELSE s[i + 1]
  <2>1. (a \o b)[i] = IF i <= Len(a) THEN a[i] ELSE b[i - Len(a)]
    BY <1>4, <1>5
  <2>2. CASE i < k
    BY <2>1, <2>2, <1>0, <1>1
  <2>3. CASE i >= k
    <3>1. i - Len(a) \in 1..(Len(s) - k) /\ k + (i - Len(a)) = i + 1 /\ ~(i <= Len(a))
      BY <2>3, <1>0, <1>1
    <3>2. (a \o b)[i] = b[i - Len(a)]
      BY <3>1, <2>1
    <3>3. b[i - Len(a)] = s[k + (i - Len(a))]
      BY <3>1, <1>2
    <3>4. ~(i < k)
      BY <2>3, <1>0, <1>1
    <3> QED
      BY <3>1, <3>2, <3>3, <3>4
  <2>4. i < k \/ i >= k
    BY <1>0, <1>1
  <2> QED
    BY <2>2, <2>3, <2>4, Zenon
<1> QED
  BY <1>3, <1>4, <1>5, <1>6

(* What InsertAt gives. *)
LEMMA InsertIs ==
    ASSUME NEW s \in Seq(Nat), NEW k \in 1..(Len(s) + 1), NEW x \in Nat
    PROVE  /\ InsertAt(s, k, x) \in Seq(Nat) /\ Len(InsertAt(s, k, x)) = Len(s) + 1
           /\ \A i \in 1..(Len(s) + 1) :
                 InsertAt(s, k, x)[i] = IF i < k THEN s[i] ELSE IF i = k THEN x ELSE s[i - 1]
<1> DEFINE a == SubSeq(s, 1, k - 1)
           h == <<x>>
           b == SubSeq(s, k, Len(s))
<1>0. Len(s) \in Nat /\ k \in Nat /\ 1 <= k /\ k <= Len(s) + 1
  OBVIOUS
<1>1. a \in Seq(Nat) /\ Len(a) = k - 1 /\ \A i \in 1..(k - 1) : a[i] = s[i]
  <2>1. /\ 1 \in 1..(Len(s) + 1) /\ k - 1 \in 0..Len(s) /\ 1 <= k - 1 + 1
        /\ k - 1 - 1 + 1 = k - 1 /\ \A i \in 1..(k - 1) : 1 + i - 1 = i
    BY <1>0
  <2>2. /\ a \in Seq(Nat) /\ Len(a) = k - 1 - 1 + 1
        /\ \A i \in 1..(k - 1 - 1 + 1) : a[i] = s[1 + i - 1]
    BY <2>1, PartIs, Zenon
  <2> HIDE DEF a
  <2> QED
    BY <2>1, <2>2
<1>2. /\ b \in Seq(Nat) /\ Len(b) = Len(s) - k + 1
      /\ \A i \in 1..(Len(s) - k + 1) : b[i] = s[k + i - 1]
  <2>1. k \in 1..(Len(s) + 1) /\ Len(s) \in 0..Len(s) /\ k <= Len(s) + 1
    BY <1>0
  <2> QED
    BY <2>1, PartIs, Zenon
<1>3. h \in Seq(Nat) /\ Len(h) = 1 /\ h[1] = x
  OBVIOUS
<1>4. InsertAt(s, k, x) = (a \o h) \o b
  BY DEF InsertAt
<1> HIDE DEF a, b, h
<1>5. /\ a \o h \in Seq(Nat) /\ Len(a \o h) = Len(a) + Len(h)
      /\ \A i \in 1..(Len(a) + Len(h)) : (a \o h)[i] = IF i <= Len(a) THEN a[i] ELSE h[i - Len(a)]
  BY <1>0, <1>1, <1>3, ConcatProperties, Zenon
<1> DEFINE c == a \o h
<1>6. c \in Seq(Nat) /\ Len(c) = k /\ c[k] = x /\ \A i \in 1..(k - 1) : c[i] = s[i]
  BY <1>0, <1>1, <1>3, <1>5
<1> HIDE DEF c
<1>7. /\ c \o b \in Seq(Nat) /\ Len(c \o b) = Len(c) + Len(b)
      /\ \A i \in 1..(Len(c) + Len(b)) : (c \o b)[i] = IF i <= Len(c) THEN c[i] ELSE b[i - Len(c)]
  BY <1>2, <1>6, ConcatProperties, Zenon
<1>8. Len(c) + Len(b) = Len(s) + 1
  BY <1>0, <1>1, <1>2, <1>6
<1>9. ASSUME NEW i \in 1..(Len(s) + 1)
      PROVE  (c \o b)[i] = IF i < k THEN s[i] ELSE IF i = k THEN x ELSE s[i - 1]
  <2>1. (c \o b)[i] = IF i <= Len(c) THEN c[i] ELSE b[i - Len(c)]
    BY <1>7, <1>8
  <2>2. CASE i < k
    BY <2>1, <2>2, <1>0, <1>1, <1>6
  <2>3. CASE i = k
    BY <2>1, <2>3, <1>0, <1>1, <1>6
  <2>4. CASE i > k
    <3>1. i - Len(c) \in 1..(Len(s) - k + 1) /\ k + (i - Len(c)) - 1 = i - 1 /\ ~(i <= Len(c))
      BY <2>4, <1>0, <1>1, <1>6
    <3>2. (c \o b)[i] = b[i - Len(c)]
      BY <3>1, <2>1
    <3>3. b[i - Len(c)] = s[k + (i - Len(c)) - 1]
      BY <3>1, <1>2
    <3>4. ~(i < k) /\ i # k
      BY <2>4, <1>0, <1>1
    <3> QED
      BY <3>1, <3>2, <3>3, <3>4
  <2>5. i < k \/ i = k \/ i > k
    BY <1>0, <1>1
  <2> QED
    BY <2>2, <2>3, <2>4, <2>5, Zenon
<1> QED
  BY <1>4, <1>7, <1>8, <1>9 DEF c

(* The list of a bin: free chunks of its sizes, each once, the larger first. *)
BinOf(o, c) == BinIndex(o[c].size)
Exact(list, bin, o, F) ==
    /\ list \in Seq(Nat)
    /\ \A i \in 1..Len(list) : list[i] \in F /\ BinOf(o, list[i]) = bin
    /\ \A i, j \in 1..Len(list) : i < j =>
          list[i] # list[j] /\ o[list[i]].size >= o[list[j]].size

(* The lists together hold the free chunks F. *)
Listed(free, binmap, o, F) ==
    /\ free \in [Bin -> Seq(Nat)] /\ binmap = {bin \in Bin : free[bin] # <<>>}
    /\ F \subseteq Nat /\ \A c \in F : o[c].size \in Nat
    /\ \A bin \in Bin : Exact(free[bin], bin, o, F)
    /\ \A c \in F : \E i \in 1..Len(free[BinOf(o, c)]) : free[BinOf(o, c)][i] = c

(* Each free chunk has a bin. *)
LEMMA BinOfIs ==
    ASSUME NEW free, NEW binmap, NEW o, NEW F, Listed(free, binmap, o, F), NEW c \in F
    PROVE  BinOf(o, c) \in Bin
  BY BinOrder DEF Listed, BinOf

(* A chunk is taken off its list. *)
LEMMA TakenOff ==
    ASSUME NEW free, NEW binmap, NEW o, NEW F, Listed(free, binmap, o, F), NEW at \in F
    PROVE  LET list == free[BinOf(o, at)]
               k == CHOOSE i \in DOMAIN list : list[i] = at
               rest == RemoveAt(list, k)
           IN  Listed([free EXCEPT ![BinOf(o, at)] = rest],
                      IF rest = <<>> THEN binmap \ {BinOf(o, at)} ELSE binmap, o, F \ {at})
<1> DEFINE index == BinOf(o, at)
           list == free[index]
           k == CHOOSE i \in DOMAIN list : list[i] = at
           rest == RemoveAt(list, k)
           new == [free EXCEPT ![index] = rest]
           map == IF rest = <<>> THEN binmap \ {index} ELSE binmap
<1>1. index \in Bin
  BY BinOfIs
<1>2. /\ list \in Seq(Nat) /\ Exact(list, index, o, F) /\ Len(list) \in Nat
      /\ DOMAIN list = 1..Len(list) /\ free \in [Bin -> Seq(Nat)]
  BY <1>1 DEF Listed
<1>3. k \in 1..Len(list) /\ list[k] = at
  <2>1. \E i \in DOMAIN list : list[i] = at
    BY <1>2 DEF Listed
  <2> QED
    BY <2>1, <1>2
<1> HIDE DEF k
<1>4. /\ rest \in Seq(Nat) /\ Len(rest) = Len(list) - 1
      /\ \A i \in 1..(Len(list) - 1) : rest[i] = IF i < k THEN list[i] ELSE list[i + 1]
  BY <1>2, <1>3, RemoveIs
<1> HIDE DEF rest
<1>5. /\ new \in [Bin -> Seq(Nat)] /\ new[index] = rest
      /\ \A bin \in Bin \ {index} : new[bin] = free[bin]
  BY <1>1, <1>2, <1>4
<1>6. map = {bin \in Bin : new[bin] # <<>>}
  <2>1. binmap = {bin \in Bin : free[bin] # <<>>} /\ list # <<>>
    BY <1>2, <1>3 DEF Listed
  <2> HIDE DEF new
  <2> QED
    BY <2>1, <1>1, <1>5
<1> HIDE DEF index, list, new, map
<1>7. \A i, j \in 1..Len(list) : i # j => list[i] # list[j]
  BY <1>2 DEF Exact
<1>8. Exact(rest, index, o, F \ {at})
  <2>1. ASSUME NEW i \in 1..Len(rest)
        PROVE  rest[i] \in F \ {at} /\ BinOf(o, rest[i]) = index
    <3> DEFINE m == IF i < k THEN i ELSE i + 1
    <3>1. rest[i] = list[m] /\ m \in 1..Len(list) /\ m # k
      BY <1>2, <1>3, <1>4, SMTT(30)
    <3> HIDE DEF m
    <3> QED
      BY <3>1, <1>2, <1>3, <1>7 DEF Exact
  <2>2. ASSUME NEW i \in 1..Len(rest), NEW j \in 1..Len(rest), i < j
        PROVE  rest[i] # rest[j] /\ o[rest[i]].size >= o[rest[j]].size
    <3> DEFINE m == IF i < k THEN i ELSE i + 1
               n == IF j < k THEN j ELSE j + 1
    <3>1. /\ rest[i] = list[m] /\ m \in 1..Len(list) /\ rest[j] = list[n] /\ n \in 1..Len(list)
          /\ m < n
      <4>1. i \in 1..(Len(list) - 1) /\ j \in 1..(Len(list) - 1) /\ i \in Nat /\ j \in Nat
        BY <1>2, <1>4
      <4>2. rest[i] = list[m] /\ rest[j] = list[n]
        BY <4>1, <1>4
      <4>3. m \in 1..Len(list) /\ n \in 1..Len(list) /\ m < n
        BY <4>1, <2>2, <1>2, <1>3
      <4> QED
        BY <4>2, <4>3
    <3> HIDE DEF m, n
    <3> QED
      BY <3>1, <1>2 DEF Exact
  <2> QED
    BY <2>1, <2>2, <1>4 DEF Exact
<1>9. ASSUME NEW bin \in Bin \ {index} PROVE Exact(new[bin], bin, o, F \ {at})
  <2>1. Exact(free[bin], bin, o, F) /\ new[bin] = free[bin]
    BY <1>5 DEF Listed
  <2>2. \A i \in 1..Len(free[bin]) : free[bin][i] # at
    BY <2>1 DEF Exact, index
  <2> QED
    BY <2>1, <2>2 DEF Exact
<1>10. ASSUME NEW c \in F \ {at} PROVE \E i \in 1..Len(new[BinOf(o, c)]) : new[BinOf(o, c)][i] = c
  <2>1. BinOf(o, c) \in Bin
    BY BinOfIs
  <2>2. PICK i \in 1..Len(free[BinOf(o, c)]) : free[BinOf(o, c)][i] = c
    BY DEF Listed
  <2>3. CASE BinOf(o, c) # index
    BY <2>1, <2>2, <2>3, <1>5
  <2>4. CASE BinOf(o, c) = index
    <3>1. i \in 1..Len(list) /\ list[i] = c /\ i # k
      BY <2>2, <2>4, <1>3 DEF list
    <3>2. CASE i < k
      <4>1. i \in 1..Len(rest) /\ rest[i] = c
        BY <3>1, <3>2, <1>2, <1>3, <1>4, SMTT(30)
      <4> QED
        BY <4>1, <2>4, <1>5
    <3>3. CASE i > k
      <4>1. i - 1 \in 1..Len(rest) /\ i - 1 + 1 = i /\ ~(i - 1 < k)
        BY <3>1, <3>3, <1>2, <1>3, <1>4
      <4>2. rest[i - 1] = c
        BY <4>1, <3>1, <1>4
      <4> QED
        BY <4>1, <4>2, <2>4, <1>5
    <3> QED
      BY <3>1, <3>2, <3>3, <1>2, <1>3
  <2> QED
    BY <2>3, <2>4
<1>11. Listed(new, map, o, F \ {at})
  <2>1. \A bin \in Bin : Exact(new[bin], bin, o, F \ {at})
    BY <1>5, <1>8, <1>9
  <2> QED
    BY <2>1, <1>5, <1>6, <1>10 DEF Listed
<1> QED
  BY <1>11 DEF new, map, rest, k, list, index

(* A chunk is put on the list of its bin. *)
LEMMA PutOn ==
    ASSUME NEW free, NEW binmap, NEW o, NEW F, Listed(free, binmap, o, F),
           NEW at \in Nat, at \notin F, o[at].size \in Nat
    PROVE  LET index == BinOf(o, at)
               list == free[index]
               rank == IF index < NUM_SMALL_BINS THEN 1
                       ELSE CHOOSE i \in 1..(Len(list) + 1) :
                               /\ i <= Len(list) => o[list[i]].size <= o[at].size
                               /\ \A j \in 1..(i - 1) : o[list[j]].size > o[at].size
           IN  Listed([free EXCEPT ![index] = InsertAt(list, rank, at)], binmap \cup {index}, o, F \cup {at})
<1> DEFINE size == o[at].size
           index == BinOf(o, at)
           list == free[index]
           R(i) == /\ i <= Len(list) => o[list[i]].size <= size
                   /\ \A j \in 1..(i - 1) : o[list[j]].size > size
           least == CHOOSE i \in 1..(Len(list) + 1) : R(i)
           rank == IF index < NUM_SMALL_BINS THEN 1 ELSE least
           more == InsertAt(list, rank, at)
           new == [free EXCEPT ![index] = more]
           map == binmap \cup {index}
<1>1. index \in Bin
  BY BinOrder DEF BinOf
<1>2. /\ list \in Seq(Nat) /\ Exact(list, index, o, F) /\ Len(list) \in Nat
      /\ free \in [Bin -> Seq(Nat)]
      /\ \A i \in 1..Len(list) : list[i] \in F /\ o[list[i]].size \in Nat /\ BinOf(o, list[i]) = index
  BY <1>1 DEF Listed, Exact
<1>3. size \in Nat
  OBVIOUS
<1>4. /\ rank \in 1..(Len(list) + 1)
      /\ \A i \in 1..Len(list) : i < rank => o[list[i]].size >= size
      /\ \A i \in 1..Len(list) : i >= rank => size >= o[list[i]].size
  <2>1. CASE index < NUM_SMALL_BINS
    <3>1. \A i \in 1..Len(list) : o[list[i]].size = size
      <4> SUFFICES ASSUME NEW i \in 1..Len(list) PROVE o[list[i]].size = size
        OBVIOUS
      <4>1. BinIndex(o[list[i]].size) = index /\ BinIndex(size) = index /\ o[list[i]].size \in Nat
        BY <1>2 DEF BinOf
      <4> HIDE DEF index, list, size
      <4> QED
        BY <4>1, <2>1, <1>3, BinOrder
    <3>2. rank = 1
      BY <2>1
    <3> HIDE DEF rank, size, list
    <3> QED
      BY <3>1, <3>2, <1>2, <1>3
  <2>2. CASE ~(index < NUM_SMALL_BINS)
    <3> HIDE DEF list, size
    <3> DEFINE S == {i \in 1..(Len(list) + 1) : i <= Len(list) => o[list[i]].size <= size}
    <3>1. Len(list) + 1 \in S /\ S \in SUBSET Nat
      BY <1>2
    <3>2. PICK m \in S : \A y \in S : m <= y
      <4> HIDE DEF S
      <4> QED
        BY <3>1, LeastNat
    <3>3. R(m)
      <4> SUFFICES ASSUME NEW j \in 1..(m - 1) PROVE o[list[j]].size > size
        BY <3>2
      <4>1. j \notin S /\ j \in 1..Len(list)
        BY <3>2, <1>2
      <4> QED
        BY <4>1, <1>2, <1>3
    <3>4. m \in 1..(Len(list) + 1)
      BY <3>2
    <3>5. least \in 1..(Len(list) + 1) /\ R(least)
      <4> HIDE DEF R
      <4> QED
        BY <3>3, <3>4
    <3>6. rank = least
      BY <2>2
    <3> HIDE DEF least, rank
    <3>7. ASSUME NEW i \in 1..Len(list), i < rank PROVE o[list[i]].size >= size
      BY <3>5, <3>6, <3>7, <1>2, <1>3
    <3>8. ASSUME NEW i \in 1..Len(list), i >= rank PROVE size >= o[list[i]].size
      <4>1. rank \in 1..Len(list) /\ o[list[rank]].size <= size /\ o[list[rank]].size \in Nat
        BY <3>5, <3>6, <3>8, <1>2
      <4>2. i = rank \/ (rank < i /\ o[list[rank]].size >= o[list[i]].size)
        BY <4>1, <3>8, <1>2 DEF Exact
      <4> QED
        BY <4>1, <4>2, <1>2, <1>3, SMTT(30)
    <3> QED
      BY <3>5, <3>6, <3>7, <3>8
  <2> QED
    BY <2>1, <2>2
<1> HIDE DEF rank, least, R, list
<1>5. /\ more \in Seq(Nat) /\ Len(more) = Len(list) + 1
      /\ \A i \in 1..(Len(list) + 1) :
            more[i] = IF i < rank THEN list[i] ELSE IF i = rank THEN at ELSE list[i - 1]
  BY <1>2, <1>4, InsertIs
<1> HIDE DEF more, index, size
<1>6. /\ new \in [Bin -> Seq(Nat)] /\ new[index] = more
      /\ \A bin \in Bin \ {index} : new[bin] = free[bin]
  BY <1>1, <1>2, <1>5
<1>7. map = {bin \in Bin : new[bin] # <<>>}
  <2>1. binmap = {bin \in Bin : free[bin] # <<>>} /\ more # <<>>
    BY <1>2, <1>5 DEF Listed
  <2> HIDE DEF new
  <2> QED
    BY <2>1, <1>1, <1>6
<1> HIDE DEF new, map
<1>8. Exact(more, index, o, F \cup {at})
  <2>1. ASSUME NEW i \in 1..Len(more)
        PROVE  more[i] \in F \cup {at} /\ BinOf(o, more[i]) = index
    <3>1. i \in Nat /\ i \in 1..(Len(list) + 1)
      BY <1>2, <1>5
    <3>2. CASE i = rank
      BY <3>1, <3>2, <1>5 DEF index
    <3>3. CASE i < rank
      <4>1. i \in 1..Len(list) /\ more[i] = list[i]
        BY <3>1, <3>3, <1>2, <1>4, <1>5
      <4> QED
        BY <4>1, <1>2
    <3>4. CASE i > rank
      <4>1. i - 1 \in 1..Len(list) /\ more[i] = list[i - 1]
        BY <3>1, <3>4, <1>2, <1>4, <1>5
      <4> QED
        BY <4>1, <1>2
    <3> QED
      BY <3>1, <3>2, <3>3, <3>4, <1>4
  <2>2. ASSUME NEW i \in 1..Len(more), NEW j \in 1..Len(more), i < j
        PROVE  more[i] # more[j] /\ o[more[i]].size >= o[more[j]].size
    <3>1. i \in 1..(Len(list) + 1) /\ j \in 1..(Len(list) + 1) /\ i \in Nat /\ j \in Nat /\ rank \in Nat
      BY <1>2, <1>4, <1>5
    <3>2. CASE j = rank
      <4>1. i \in 1..Len(list) /\ i < rank /\ more[i] = list[i] /\ more[j] = at
        BY <2>2, <3>1, <3>2, <1>2, <1>4, <1>5
      <4> QED
        BY <4>1, <1>2, <1>4 DEF size
    <3>3. CASE i = rank
      <4>1. j - 1 \in 1..Len(list) /\ j - 1 >= rank /\ more[i] = at /\ more[j] = list[j - 1]
        BY <2>2, <3>1, <3>3, <1>2, <1>4, <1>5
      <4> QED
        BY <4>1, <1>2, <1>4 DEF size
    <3>4. CASE i # rank /\ j # rank
      <4> DEFINE m == IF i < rank THEN i ELSE i - 1
                 n == IF j < rank THEN j ELSE j - 1
      <4>1. more[i] = list[m] /\ more[j] = list[n]
        BY <3>1, <3>4, <1>5
      <4>2. m \in 1..Len(list) /\ n \in 1..Len(list) /\ m < n
        BY <2>2, <3>1, <3>4, <1>2, <1>4
      <4> HIDE DEF m, n
      <4> QED
        BY <4>1, <4>2, <1>2 DEF Exact
    <3> QED
      BY <3>2, <3>3, <3>4
  <2> QED
    BY <2>1, <2>2, <1>5 DEF Exact
<1>9. ASSUME NEW bin \in Bin \ {index} PROVE Exact(new[bin], bin, o, F \cup {at})
  <2>1. Exact(free[bin], bin, o, F) /\ new[bin] = free[bin]
    BY <1>6 DEF Listed
  <2> QED
    BY <2>1 DEF Exact
<1>10. ASSUME NEW c \in F \cup {at} PROVE \E i \in 1..Len(new[BinOf(o, c)]) : new[BinOf(o, c)][i] = c
  <2>1. CASE c = at
    <3>1. rank \in 1..Len(more) /\ more[rank] = at /\ new[BinOf(o, at)] = more
      BY <1>4, <1>5, <1>6 DEF index
    <3> QED
      BY <3>1, <2>1
  <2>2. CASE c # at
    <3>1. BinOf(o, c) \in Bin /\ c \in F
      BY <2>2, BinOfIs
    <3>2. PICK i \in 1..Len(free[BinOf(o, c)]) : free[BinOf(o, c)][i] = c
      BY <3>1 DEF Listed
    <3>3. CASE BinOf(o, c) # index
      BY <3>1, <3>2, <3>3, <1>6
    <3>4. CASE BinOf(o, c) = index
      <4>1. i \in 1..Len(list) /\ list[i] = c /\ i \in Nat /\ rank \in Nat
        BY <3>2, <3>4, <1>4 DEF list
      <4>2. CASE i < rank
        <5>1. i \in 1..Len(more)
          BY <4>1, <4>2, <1>4, <1>5
        <5>2. more[i] = c
          <6>1. i \in 1..(Len(list) + 1)
            BY <4>1, <1>4
          <6>2. more[i] = IF i < rank THEN list[i] ELSE IF i = rank THEN at ELSE list[i - 1]
            BY <6>1, <1>5
          <6> QED
            BY <6>2, <4>1, <4>2
        <5> QED
          BY <5>1, <5>2, <3>4, <1>6
      <4>3. CASE i >= rank
        <5>1. i + 1 \in 1..(Len(list) + 1) /\ i + 1 - 1 = i /\ ~(i + 1 < rank) /\ i + 1 # rank
          BY <4>1, <4>3, <1>2, <1>4
        <5>2. more[i + 1] = c /\ i + 1 \in 1..Len(more)
          BY <5>1, <4>1, <1>5
        <5> QED
          BY <5>2, <3>4, <1>6
      <4> QED
        BY <4>1, <4>2, <4>3
    <3> QED
      BY <3>3, <3>4
  <2> QED
    BY <2>1, <2>2
<1>11. Listed(new, map, o, F \cup {at})
  <2>1. \A bin \in Bin : Exact(new[bin], bin, o, F \cup {at})
    BY <1>6, <1>8, <1>9
  <2>2. F \cup {at} \subseteq Nat /\ \A c \in F \cup {at} : o[c].size \in Nat
    BY DEF Listed
  <2> QED
    BY <2>1, <2>2, <1>6, <1>7, <1>10 DEF Listed
<1> QED
  BY <1>11 DEF new, map, more, rank, least, R, list, index, size

(* Lists do not depend on the tags of other chunks. *)
LEMMA ListedElsewhere ==
    ASSUME NEW free, NEW binmap, NEW o, NEW p, NEW F, Listed(free, binmap, o, F),
           \A c \in F : p[c] = o[c]
    PROVE  Listed(free, binmap, p, F)
<1>1. \A c \in F : BinOf(p, c) = BinOf(o, c)
  BY DEF BinOf
<1>2. \A bin \in Bin : Exact(free[bin], bin, p, F)
  <2> SUFFICES ASSUME NEW bin \in Bin PROVE Exact(free[bin], bin, p, F)
    OBVIOUS
  <2>1. Exact(free[bin], bin, o, F)
    BY DEF Listed
  <2> QED
    BY <2>1, <1>1 DEF Exact
<1> QED
  BY <1>1, <1>2 DEF Listed

-----------------------------------------------------------------------------
(* The pool.                                                               *)

(* A pool whose tags are right but for the run from a to b, if any, and    *)
(* whose lists hold the other free chunks.                                 *)
IsPool(p) == \E O, E, F, M : p \in [own : O, prev : E, free : F, binmap : M]
Frees(o, a) == {c \in DOMAIN o \ {a, Blocks} : ~o[c].used}
Useds(o, a) == {c \in DOMAIN o \ {a, Blocks} : o[c].used}
Sound(p, a, b) ==
    /\ IsPool(p) /\ Apart(p.own, p.prev, a, b)
    /\ Listed(p.free, p.binmap, p.own, Frees(p.own, a))

(* What the users hold of o is held of p. *)
Keeps(o, U, p) == \A c \in U : p[c] = o[c]

(* Fields of a pool that is changed. *)
NewLists(q, p, i, l, m) ==
    /\ IsPool(q) /\ q.own = p.own /\ q.prev = p.prev
    /\ q.free = [p.free EXCEPT ![i] = l] /\ q.binmap = m
(* The fields of a pool with a list and the marks changed. *)
LEMMA ListsChanged ==
    ASSUME NEW p, IsPool(p), NEW i, NEW l, NEW m
    PROVE  NewLists([p EXCEPT !.free[i] = l, !.binmap = m], p, i, l, m)
<1>1. PICK O, E, F, M : p \in [own : O, prev : E, free : F, binmap : M]
  BY DEF IsPool
<1> DEFINE q == [p EXCEPT !.free[i] = l, !.binmap = m]
<1>2. q.own = p.own /\ q.prev = p.prev /\ q.free = [p.free EXCEPT ![i] = l] /\ q.binmap = m
  BY <1>1
<1>3. q \in [own : O, prev : E, free : {[p.free EXCEPT ![i] = l]}, binmap : {m}]
  BY <1>1
<1> QED
  BY <1>2, <1>3, Zenon DEF IsPool, NewLists

NewTags(q, p, x, y) ==
    IsPool(q) /\ q.own = x /\ q.prev = y /\ q.free = p.free /\ q.binmap = p.binmap
(* The fields of a pool with the tags changed. *)
LEMMA TagsChanged ==
    ASSUME NEW p, IsPool(p), NEW x, NEW y
    PROVE  NewTags([p EXCEPT !.own = x, !.prev = y], p, x, y)
<1>1. PICK O, E, F, M : p \in [own : O, prev : E, free : F, binmap : M]
  BY DEF IsPool
<1> DEFINE q == [p EXCEPT !.own = x, !.prev = y]
<1>2. q.own = x /\ q.prev = y /\ q.free = p.free /\ q.binmap = p.binmap
  BY <1>1
<1>3. q \in [own : {x}, prev : {y}, free : F, binmap : M]
  BY <1>1
<1> QED
  BY <1>2, <1>3, Zenon DEF IsPool, NewTags

(* unlink_free takes the chunk off the lists and touches no tag. *)
LEMMA UnlinkIs ==
    ASSUME NEW p, NEW F, NEW at \in F, IsPool(p), Listed(p.free, p.binmap, p.own, F)
    PROVE  LET q == UnlinkFree(p, at)
           IN  IsPool(q) /\ q.own = p.own /\ q.prev = p.prev /\ Listed(q.free, q.binmap, p.own, F \ {at})
<1> DEFINE index == BinOf(p.own, at)
           list == p.free[index]
           k == CHOOSE i \in DOMAIN list : list[i] = at
           rest == RemoveAt(list, k)
           map == IF rest = <<>> THEN p.binmap \ {index} ELSE p.binmap
<1>1. UnlinkFree(p, at) = [p EXCEPT !.free[index] = rest, !.binmap = map]
  BY DEF UnlinkFree, BinOf
<1>2. Listed([p.free EXCEPT ![index] = rest], map, p.own, F \ {at})
  BY TakenOff
<1> HIDE DEF rest, map, index
<1> DEFINE q == [p EXCEPT !.free[index] = rest, !.binmap = map]
<1>3. NewLists(q, p, index, rest, map)
  BY ListsChanged
<1> HIDE DEF q
<1>4. UnlinkFree(p, at) = q
  BY <1>1 DEF q
<1> QED
  BY <1>2, <1>3, <1>4 DEF NewLists

(* link_free puts the chunk on the lists and touches no tag. *)
LEMMA LinkIs ==
    ASSUME NEW p, NEW F, NEW at \in Nat, at \notin F, p.own[at].size \in Nat,
           IsPool(p), Listed(p.free, p.binmap, p.own, F)
    PROVE  LET q == LinkFree(p, at)
           IN  IsPool(q) /\ q.own = p.own /\ q.prev = p.prev /\ Listed(q.free, q.binmap, p.own, F \cup {at})
<1> DEFINE index == BinOf(p.own, at)
           list == p.free[index]
           size == p.own[at].size
           rank == IF index < NUM_SMALL_BINS THEN 1
                   ELSE CHOOSE i \in 1..(Len(list) + 1) :
                           /\ i <= Len(list) => p.own[list[i]].size <= size
                           /\ \A j \in 1..(i - 1) : p.own[list[j]].size > size
           more == InsertAt(list, rank, at)
           map == p.binmap \cup {index}
<1>1. LinkFree(p, at) = [p EXCEPT !.free[index] = more, !.binmap = map]
  BY DEF LinkFree, BinOf
<1>2. Listed([p.free EXCEPT ![index] = more], map, p.own, F \cup {at})
  BY PutOn
<1> HIDE DEF more, map, index
<1> DEFINE q == [p EXCEPT !.free[index] = more, !.binmap = map]
<1>3. NewLists(q, p, index, more, map)
  BY ListsChanged
<1> HIDE DEF q
<1>4. LinkFree(p, at) = q
  BY <1>1 DEF q
<1> QED
  BY <1>2, <1>3, <1>4 DEF NewLists

(* A tag and its copy are written. *)
LEMMA SetTagIs ==
    ASSUME NEW p, IsPool(p), NEW at, NEW size, NEW used
    PROVE  NewTags(SetTag(p, at, size, used), p, Put(p.own, at, Tag(size, used)),
                   Put(p.prev, at + size, Tag(size, used)))
<1> DEFINE x == Put(p.own, at, Tag(size, used))
           y == Put(p.prev, at + size, Tag(size, used))
<1>1. SetTag(p, at, size, used) = [p EXCEPT !.own = x, !.prev = y]
  BY DEF SetTag
<1> HIDE DEF x, y
<1> DEFINE q == [p EXCEPT !.own = x, !.prev = y]
<1>2. NewTags(q, p, x, y)
  BY TagsChanged
<1> HIDE DEF q
<1>3. SetTag(p, at, size, used) = q
  BY <1>1 DEF q
<1> QED
  BY <1>2, <1>3 DEF x, y

(* A free chunk is taken: unlinked and opened. *)
LEMMA Taken ==
    ASSUME NEW p, Sound(p, Blocks, 0), NEW c \in Frees(p.own, Blocks)
    PROVE  LET q == UnlinkFree(p, c)
           IN  /\ Sound(q, c, c + p.own[c].size) /\ q.own = p.own /\ q.prev = p.prev
               /\ Useds(q.own, c) = Useds(p.own, Blocks)
<1> DEFINE q == UnlinkFree(p, c)
           F == Frees(p.own, Blocks)
<1>1. IsPool(q) /\ q.own = p.own /\ q.prev = p.prev /\ Listed(q.free, q.binmap, p.own, F \ {c})
  BY UnlinkIs DEF Sound
<1>2. c \in DOMAIN p.own \ {Blocks} /\ ~p.own[c].used
  BY DEF Frees
<1>3. Apart(p.own, p.prev, c, c + p.own[c].size)
  BY <1>2, Opened DEF Sound
<1>4. Frees(p.own, c) = F \ {c} /\ Useds(p.own, c) = Useds(p.own, Blocks)
  BY <1>2 DEF Frees, Useds
<1> HIDE DEF q, F
<1> QED
  BY <1>1, <1>3, <1>4 DEF Sound, q

(* The same with the tags o and e in the place of the pool's own, of which *)
(* some have been forgotten. *)
Forgetful(p, o, e, a, b) ==
    /\ IsPool(p) /\ Apart(o, e, a, b) /\ \A c \in DOMAIN o : p.own[c] = o[c]
    /\ Listed(p.free, p.binmap, p.own, Frees(o, a))

(* The free chunk before the run is taken into it. *)
BeforeTaken(p, o, e, a, b, at, q) ==
    /\ Forgetful(q, Without(o, {a}), Without(e, {a}), at, b) /\ q.own = p.own /\ q.prev = p.prev
    /\ Useds(Without(o, {a}), at) = Useds(o, a)
    /\ Without(e, {a})[at].used /\ at \in Nat /\ at < a /\ a # Blocks /\ a # 0
(* The free chunk before the run joins it. *)
LEMMA TakenBefore ==
    ASSUME NEW p, NEW o, NEW e, NEW a, NEW b, Forgetful(p, o, e, a, b), a < b, ~e[a].used
    PROVE  BeforeTaken(p, o, e, a, b, a - e[a].size, UnlinkFree(p, a - e[a].size))
<1> DEFINE at == a - e[a].size
           q == UnlinkFree(p, at)
           r == Without(o, {a})
           s == Without(e, {a})
<1>1. /\ Apart(r, s, at, b)
      /\ at \in DOMAIN o \ {a, Blocks} /\ at \in Nat /\ at < a /\ ~o[at].used
      /\ e[at].used /\ at \in DOMAIN e /\ a # Blocks
  <2>1. Apart(o, e, a, b)
    BY DEF Forgetful
  <2> QED
    BY <2>1, JoinedBefore
<1>2. IsTags(o) /\ IsTags(e) /\ a # 0
  <2>1. a # 0
    BY FenceIs DEF Forgetful, Apart
  <2> QED
    BY <2>1 DEF Forgetful, Apart
<1>3. /\ DOMAIN r = DOMAIN o \ {a} /\ \A y \in DOMAIN o \ {a} : r[y] = o[y]
      /\ \A y \in DOMAIN e \ {a} : s[y] = e[y]
  BY <1>2, WithoutIs, Zenon
<1>4. at \in Frees(o, a)
  BY <1>1 DEF Frees
<1>5. /\ IsPool(q) /\ q.own = p.own /\ q.prev = p.prev
      /\ Listed(q.free, q.binmap, p.own, Frees(o, a) \ {at})
  <2>1. IsPool(p) /\ Listed(p.free, p.binmap, p.own, Frees(o, a))
    BY DEF Forgetful
  <2> HIDE DEF at
  <2> QED
    BY <2>1, <1>4, UnlinkIs
<1> HIDE DEF at, q, r, s
<1>6. Frees(r, at) = Frees(o, a) \ {at}
  <2>1. ASSUME NEW c \in Frees(r, at) PROVE c \in Frees(o, a) \ {at}
    BY <1>3 DEF Frees
  <2>2. ASSUME NEW c \in Frees(o, a) \ {at} PROVE c \in Frees(r, at)
    BY <1>3 DEF Frees
  <2> QED
    BY <2>1, <2>2
<1>7. Useds(r, at) = Useds(o, a)
  <2>1. ASSUME NEW c \in Useds(r, at) PROVE c \in Useds(o, a)
    BY <1>3 DEF Useds
  <2>2. ASSUME NEW c \in Useds(o, a) PROVE c \in Useds(r, at)
    BY <1>1, <1>3 DEF Useds
  <2> QED
    BY <2>1, <2>2
<1>8. Forgetful(q, r, s, at, b)
  <2>1. \A c \in DOMAIN r : q.own[c] = r[c]
    BY <1>3, <1>5 DEF Forgetful
  <2> QED
    BY <2>1, <1>1, <1>5, <1>6 DEF Forgetful
<1>9. s[at].used
  BY <1>1, <1>3
<1> QED
  BY <1>1, <1>2, <1>5, <1>7, <1>8, <1>9 DEF at, q, r, s, BeforeTaken

(* The free chunk behind the run is taken into it. *)
BehindTaken(p, o, e, a, b, end, q) ==
    /\ Forgetful(q, Without(o, {b}), Without(e, {b}), a, end) /\ q.own = p.own /\ q.prev = p.prev
    /\ Useds(Without(o, {b}), a) = Useds(o, a)
    /\ Without(o, {b})[end].used /\ Without(e, {b})[a] = e[a] /\ end \in Nat /\ b < end
(* The free chunk behind the run joins it. *)
LEMMA TakenBehind ==
    ASSUME NEW p, NEW o, NEW e, NEW a, NEW b, Forgetful(p, o, e, a, b), a < b, ~o[b].used
    PROVE  BehindTaken(p, o, e, a, b, b + o[b].size, UnlinkFree(p, b))
<1> DEFINE end == b + o[b].size
           q == UnlinkFree(p, b)
           r == Without(o, {b})
           s == Without(e, {b})
<1>1. /\ Apart(r, s, a, end)
      /\ b \in DOMAIN o \ {a, Blocks} /\ end \in Nat /\ b < end /\ end \in DOMAIN o
      /\ o[end].used
  <2>1. Apart(o, e, a, b)
    BY DEF Forgetful
  <2> QED
    BY <2>1, JoinedBehind
<1>2. IsTags(o) /\ IsTags(e) /\ a \in DOMAIN e
  BY DEF Forgetful, Apart
<1>3. /\ DOMAIN r = DOMAIN o \ {b} /\ \A y \in DOMAIN o \ {b} : r[y] = o[y]
      /\ \A y \in DOMAIN e \ {b} : s[y] = e[y]
  BY <1>2, WithoutIs, Zenon
<1>4. b \in Frees(o, a)
  BY <1>1 DEF Frees
<1>5. /\ IsPool(q) /\ q.own = p.own /\ q.prev = p.prev
      /\ Listed(q.free, q.binmap, p.own, Frees(o, a) \ {b})
  <2>1. IsPool(p) /\ Listed(p.free, p.binmap, p.own, Frees(o, a))
    BY DEF Forgetful
  <2> QED
    BY <2>1, <1>4, UnlinkIs
<1>6. b \in Nat /\ end # b /\ a # b
  BY <1>1, <1>2 DEF IsTags
<1> HIDE DEF end, q, r, s
<1>7. Frees(r, a) = Frees(o, a) \ {b}
  <2>1. ASSUME NEW c \in Frees(r, a) PROVE c \in Frees(o, a) \ {b}
    BY <1>3 DEF Frees
  <2>2. ASSUME NEW c \in Frees(o, a) \ {b} PROVE c \in Frees(r, a)
    BY <1>3 DEF Frees
  <2> QED
    BY <2>1, <2>2
<1>8. Useds(r, a) = Useds(o, a)
  <2>1. ASSUME NEW c \in Useds(r, a) PROVE c \in Useds(o, a)
    BY <1>3 DEF Useds
  <2>2. ASSUME NEW c \in Useds(o, a) PROVE c \in Useds(r, a)
    BY <1>1, <1>3 DEF Useds
  <2> QED
    BY <2>1, <2>2
<1>9. Forgetful(q, r, s, a, end)
  <2>1. \A c \in DOMAIN r : q.own[c] = r[c]
    BY <1>3, <1>5 DEF Forgetful
  <2> QED
    BY <2>1, <1>1, <1>5, <1>7 DEF Forgetful
<1>10. r[end].used /\ s[a] = e[a]
  BY <1>1, <1>2, <1>3, <1>6
<1> QED
  BY <1>1, <1>5, <1>8, <1>9, <1>10 DEF end, q, r, s, BehindTaken

(* The run at a is handed out, size blocks of it, or handed back. *)
Claimed(q, p, a, size) ==
    /\ Sound(q, Blocks, 0) /\ Useds(q.own, Blocks) = Useds(p.own, a) \cup {a}
    /\ Keeps(p.own, Useds(p.own, a), q.own) /\ q.own[a].size = size
Returned(q, p, a) ==
    /\ Sound(q, Blocks, 0) /\ Useds(q.own, Blocks) = Useds(p.own, a)
    /\ Keeps(p.own, Useds(p.own, a), q.own)

(* The whole run is handed out. *)
LEMMA TaggedUsed ==
    ASSUME NEW p, NEW a, NEW b, Sound(p, a, b), a + 2 <= b
    PROVE  Claimed(SetTag(p, a, b - a, TRUE), p, a, b - a)
<1> DEFINE q == SetTag(p, a, b - a, TRUE)
           v == Tag(b - a, TRUE)
           n == a + (b - a)
<1>1. /\ Apart(p.own, p.prev, a, b) /\ IsPool(p) /\ a \in Nat /\ b \in Nat /\ Blocks \in Nat
      /\ b <= Blocks /\ IsTags(p.own)
  BY ApartFacts DEF Sound, Apart
<1>2. NewTags(q, p, Put(p.own, a, v), Put(p.prev, n, v))
  BY <1>1, SetTagIs
<1>3. v \in Tags /\ v.size = b - a /\ v.used /\ n = b
  <2>1. b - a \in Nat /\ n = b
    BY <1>1
  <2>2. v \in Tags /\ v.size = b - a /\ v.used = TRUE
    BY <2>1, TagIs, Zenon
  <2> QED
    BY <2>1, <2>2
<1> HIDE DEF v, q, n
<1>4. /\ IsPool(q) /\ q.own = Put(p.own, a, v) /\ q.prev = Put(p.prev, b, v)
      /\ q.free = p.free /\ q.binmap = p.binmap
  BY <1>2, <1>3 DEF NewTags
<1>5. Apart(q.own, q.prev, Blocks, 0)
  BY <1>1, <1>3, <1>4, Filled
<1>6. Putting(p.own, a, v, q.own)
  BY <1>1, <1>3, <1>4, PutIs
<1>7. Frees(q.own, Blocks) = Frees(p.own, a)
  BY <1>3, <1>6 DEF Putting, Frees
<1>8. Useds(q.own, Blocks) = Useds(p.own, a) \cup {a}
  BY <1>1, <1>3, <1>6 DEF Putting, Useds
<1>9. Listed(q.free, q.binmap, q.own, Frees(q.own, Blocks))
  <2>1. Listed(p.free, p.binmap, p.own, Frees(p.own, a))
    BY DEF Sound
  <2>2. \A c \in Frees(p.own, a) : q.own[c] = p.own[c]
    BY <1>6 DEF Putting, Frees
  <2> QED
    BY <2>1, <2>2, <1>4, <1>7, ListedElsewhere
<1>10. Keeps(p.own, Useds(p.own, a), q.own) /\ q.own[a].size = b - a
  BY <1>3, <1>6 DEF Putting, Useds, Keeps
<1> QED
  BY <1>4, <1>5, <1>8, <1>9, <1>10 DEF Sound, q, Claimed

(* free_chunk: the run is handed back, and joined with its neighbours. *)
LEMMA Freed ==
    ASSUME NEW p, NEW a, NEW b, Sound(p, a, b), a + 2 <= b
    PROVE  Returned(FreeChunk(p, a, b - a), p, a)
<1> DEFINE before == p.prev[a]
           at == IF before.used THEN a ELSE a - before.size
           left == IF before.used THEN p ELSE UnlinkFree(p, at)
           next == a + (b - a)
           after == left.own[next]
           right == IF after.used THEN left ELSE UnlinkFree(left, next)
           end == IF after.used THEN next ELSE next + after.size
           inside == {a, next} \ {at, end}
           merged == [right EXCEPT !.own = Without(@, inside), !.prev = Without(@, inside)]
           tagged == SetTag(merged, at, end - at, FALSE)
           q == LinkFree(tagged, at)
<1>1. FreeChunk(p, a, b - a) = q
  BY DEF FreeChunk
<1>2. /\ Apart(p.own, p.prev, a, b) /\ IsPool(p) /\ a \in Nat /\ b \in Nat /\ a < b /\ next = b
      /\ Listed(p.free, p.binmap, p.own, Frees(p.own, a)) /\ IsTags(p.own) /\ IsTags(p.prev)
      /\ a \in DOMAIN p.prev /\ b \in DOMAIN p.own /\ before.used \in BOOLEAN /\ before.size \in Nat
  <2>1. Apart(p.own, p.prev, a, b)
    BY DEF Sound
  <2>2. a \in Nat /\ b \in Nat /\ before.used \in BOOLEAN /\ before.size \in Nat
    BY <2>1, ApartFacts DEF Apart
  <2> QED
    BY <2>1, <2>2 DEF Sound, Apart
<1>3. \A f : IsTags(f) => Without(f, {}) = f
  BY DEF IsTags, Without
<1> DEFINE I == IF before.used THEN {} ELSE {a}
           o1 == Without(p.own, I)
           e1 == Without(p.prev, I)
<1>4. /\ Forgetful(left, o1, e1, at, b) /\ left.own = p.own /\ left.prev = p.prev
      /\ Useds(o1, at) = Useds(p.own, a) /\ e1[at].used /\ at \in Nat /\ at <= a
      /\ (before.used <=> at = a)
  <2>1. Forgetful(p, p.own, p.prev, a, b)
    BY <1>2 DEF Forgetful
  <2>2. CASE before.used
    <3>1. at = a /\ left = p /\ o1 = p.own /\ e1 = p.prev
      BY <2>2, <1>2, <1>3
    <3> QED
      BY <3>1, <2>1, <2>2, <1>2
  <2>3. CASE ~before.used
    <3>1. at = a - before.size /\ left = UnlinkFree(p, a - before.size) /\ I = {a}
      BY <2>3
    <3>2. BeforeTaken(p, p.own, p.prev, a, b, a - p.prev[a].size, UnlinkFree(p, a - p.prev[a].size))
      BY <2>1, <2>3, <1>2, TakenBefore, Zenon
    <3>3. a - before.size < a => a - before.size <= a /\ a - before.size # a
      BY <1>2
    <3>4. BeforeTaken(p, p.own, p.prev, a, b, at, left) /\ o1 = Without(p.own, {a}) /\ e1 = Without(p.prev, {a})
      BY <3>1, <3>2
    <3>5. at <= a /\ at # a
      BY <3>1, <3>3, <3>4 DEF BeforeTaken
    <3> HIDE DEF at, left, before, o1, e1
    <3> QED
      BY <3>4, <3>5, <2>3 DEF BeforeTaken
  <2> QED
    BY <2>2, <2>3
<1> HIDE DEF left, at
<1>5. after = p.own[b] /\ b \in DOMAIN o1 /\ o1[b] = p.own[b]
  <2>1. b \notin I /\ IsTags(p.own) /\ b \in DOMAIN p.own
    BY <1>2
  <2>2. b \in DOMAIN o1 /\ o1[b] = p.own[b]
    <3> HIDE DEF I
    <3>1. /\ DOMAIN Without(p.own, I) = DOMAIN p.own \ I
          /\ \A y \in DOMAIN p.own \ I : Without(p.own, I)[y] = p.own[y]
      BY <2>1, WithoutIs, Zenon
    <3> QED
      BY <3>1, <2>1
  <2> QED
    BY <2>2, <1>2, <1>4
<1> HIDE DEF after
<1> DEFINE J == IF after.used THEN {} ELSE {b}
           o2 == Without(o1, J)
           e2 == Without(e1, J)
<1>6. /\ Forgetful(right, o2, e2, at, end) /\ right.own = p.own /\ right.prev = p.prev
      /\ Useds(o2, at) = Useds(p.own, a) /\ e2[at].used /\ o2[end].used /\ end \in Nat /\ b <= end
      /\ (after.used <=> end = b)
  <2>1. CASE after.used
    <3>1. IsTags(o1) /\ IsTags(e1)
      BY <1>4 DEF Forgetful, Apart
    <3>2. end = b /\ right = left /\ o2 = o1 /\ e2 = e1
      BY <2>1, <3>1, <1>2, <1>3
    <3> QED
      BY <3>2, <2>1, <1>2, <1>4, <1>5
  <2>2. CASE ~after.used
    <3>1. end = b + o1[b].size /\ right = UnlinkFree(left, b) /\ J = {b} /\ ~o1[b].used
      BY <2>2, <1>2, <1>5
    <3>2. at < b
      BY <1>2, <1>4
    <3> HIDE DEF o1, e1
    <3>3. BehindTaken(left, o1, e1, at, b, b + o1[b].size, UnlinkFree(left, b))
      BY <3>1, <3>2, <1>4, TakenBehind, Zenon
    <3>4. BehindTaken(left, o1, e1, at, b, end, right) /\ o2 = Without(o1, {b}) /\ e2 = Without(e1, {b})
      BY <3>1, <3>3
    <3> HIDE DEF end, right, o2, e2
    <3>5. b <= end /\ b # end
      BY <3>4, <1>2 DEF BehindTaken
    <3> QED
      BY <3>4, <3>5, <2>2, <1>4 DEF BehindTaken
  <2> QED
    BY <2>1, <2>2
<1>7. Without(p.own, inside) = o2 /\ Without(p.prev, inside) = e2
  <2>1. inside = I \cup J
    BY <1>2, <1>4, <1>6
  <2> HIDE DEF inside, I, J
  <2>2. \A f : Without(Without(f, I), J) = Without(f, I \cup J)
    BY DEF Without
  <2> QED
    BY <2>1, <2>2
<1> HIDE DEF right, end, inside, I, J, o1, e1, o2, e2
<1>8. NewTags(merged, right, o2, e2)
  <2> DEFINE z == [right EXCEPT !.own = o2, !.prev = e2]
  <2>1. IsPool(right)
    BY <1>6 DEF Forgetful
  <2>2. NewTags(z, right, o2, e2)
    BY <2>1, TagsChanged
  <2>3. merged = z
    BY <1>6, <1>7
  <2> HIDE DEF z, merged
  <2> QED
    BY <2>2, <2>3
<1> HIDE DEF merged
<1> DEFINE v == Tag(end - at, FALSE)
<1>9. /\ Apart(o2, e2, at, end) /\ at + 2 <= end /\ end - at \in Nat /\ at + (end - at) = end
      /\ IsTags(o2) /\ at < end /\ end <= Blocks
  <2>1. Apart(o2, e2, at, end)
    BY <1>6 DEF Forgetful
  <2>2. end <= Blocks
    BY <2>1, ApartFacts
  <2> QED
    BY <2>1, <2>2, <1>2, <1>4, <1>6 DEF Apart
<1>10. v \in Tags /\ v.size = end - at /\ v.used = FALSE
  BY <1>9, TagIs, Zenon
<1>11. /\ IsPool(tagged) /\ tagged.own = Put(o2, at, v) /\ tagged.prev = Put(e2, end, v)
       /\ tagged.free = right.free /\ tagged.binmap = right.binmap
  <2>1. IsPool(merged) /\ merged.own = o2 /\ merged.prev = e2
    BY <1>8 DEF NewTags
  <2>2. NewTags(tagged, merged, Put(o2, at, v), Put(e2, end, v))
    BY <2>1, <1>9, SetTagIs
  <2> HIDE DEF tagged, v
  <2> QED
    BY <2>2, <1>8 DEF NewTags
<1> HIDE DEF tagged, v
<1>12. Apart(tagged.own, tagged.prev, Blocks, 0)
  BY <1>6, <1>9, <1>10, <1>11, Filled
<1>13. Putting(o2, at, v, tagged.own)
  BY <1>4, <1>9, <1>10, <1>11, PutIs
<1>14. Listed(tagged.free, tagged.binmap, tagged.own, Frees(o2, at))
  <2>1. Listed(right.free, right.binmap, right.own, Frees(o2, at))
    BY <1>6 DEF Forgetful
  <2>2. \A c \in Frees(o2, at) : tagged.own[c] = right.own[c]
    BY <1>6, <1>13 DEF Putting, Frees, Forgetful
  <2> QED
    BY <2>1, <2>2, <1>11, ListedElsewhere
<1>15. /\ IsPool(q) /\ q.own = tagged.own /\ q.prev = tagged.prev
       /\ Listed(q.free, q.binmap, q.own, Frees(o2, at) \cup {at})
  <2>1. at \notin Frees(o2, at) /\ tagged.own[at].size \in Nat
    BY <1>9, <1>10, <1>13 DEF Frees, Putting
  <2> QED
    BY <2>1, <1>4, <1>11, <1>14, LinkIs
<1> HIDE DEF q
<1>16. Frees(q.own, Blocks) = Frees(o2, at) \cup {at} /\ Useds(q.own, Blocks) = Useds(p.own, a)
  <2>1. Putting(o2, at, v, q.own) /\ at # Blocks /\ ~v.used
    BY <1>9, <1>10, <1>13, <1>15, <1>2, <1>4
  <2>2. Frees(q.own, Blocks) = Frees(o2, at) \cup {at}
    BY <2>1 DEF Frees, Putting
  <2>3. Useds(q.own, Blocks) = Useds(o2, at)
    BY <2>1 DEF Useds, Putting
  <2> QED
    BY <2>2, <2>3, <1>6
<1>17. Keeps(p.own, Useds(p.own, a), q.own)
  <2> SUFFICES ASSUME NEW c \in Useds(p.own, a) PROVE q.own[c] = p.own[c]
    BY DEF Keeps
  <2>1. c \in Useds(o2, at)
    BY <1>6
  <2>2. c \in DOMAIN o2 \ {at} /\ right.own[c] = o2[c]
    BY <2>1, <1>6 DEF Useds, Forgetful
  <2> QED
    BY <2>2, <1>6, <1>13, <1>15 DEF Putting
<1> QED
  BY <1>1, <1>12, <1>15, <1>16, <1>17 DEF Sound, Returned

(* split_tail: what is beyond the need is handed back if it is large enough. *)
Trimmed(total, need) == IF total - need >= MIN_CHUNK THEN need ELSE total
(* split_tail hands out what is needed of the run, or all of it. *)
LEMMA SplitIs ==
    ASSUME NEW p, NEW a, NEW b, Sound(p, a, b),
           NEW need \in Nat, need >= 2, need <= b - a
    PROVE  Claimed(SplitTail(p, a, b - a, need), p, a, Trimmed(b - a, need))
<1>1. /\ Apart(p.own, p.prev, a, b) /\ IsPool(p) /\ IsTags(p.own) /\ a \in Nat /\ b \in Nat
      /\ Blocks \in Nat /\ a + 2 <= b /\ b <= Blocks
  <2>1. Apart(p.own, p.prev, a, b) /\ IsPool(p)
    BY DEF Sound
  <2>2. a \in Nat /\ b \in Nat /\ Blocks \in Nat /\ b <= Blocks
    BY <2>1, ApartFacts
  <2> QED
    BY <2>1, <2>2 DEF Apart
<1>2. CASE ~(b - a - need >= MIN_CHUNK)
  <2>1. SplitTail(p, a, b - a, need) = SetTag(p, a, b - a, TRUE) /\ Trimmed(b - a, need) = b - a
    BY <1>2 DEF SplitTail, Trimmed
  <2> QED
    BY <2>1, <1>1, TaggedUsed
<1>3. CASE b - a - need >= MIN_CHUNK
  <2> DEFINE v == Tag(need, TRUE)
             m == a + need
             r == SetTag(p, a, need, TRUE)
             q == FreeChunk(r, m, b - m)
  <2>1. m \in Nat /\ m + 2 <= b /\ m < b /\ a < m /\ b - a - need = b - m
    BY <1>1, <1>3 DEF MIN_CHUNK
  <2>2. SplitTail(p, a, b - a, need) = q /\ Trimmed(b - a, need) = need
    BY <1>3, <2>1 DEF SplitTail, Trimmed
  <2>3. NewTags(r, p, Put(p.own, a, v), Put(p.prev, m, v))
    BY <1>1, SetTagIs
  <2>4. v \in Tags /\ v.size = need /\ v.used = TRUE
    BY TagIs, Zenon
  <2>5. Apart(Put(p.own, a, v), Put(p.prev, a + need, v), a + need, b)
    <3> HIDE DEF v
    <3> QED
      BY <2>1, <2>4, <1>1, Cut
  <2> HIDE DEF v, r, q
  <2>6. /\ IsPool(r) /\ r.own = Put(p.own, a, v) /\ r.prev = Put(p.prev, m, v)
        /\ r.free = p.free /\ r.binmap = p.binmap
    BY <2>3 DEF NewTags
  <2>7. Putting(p.own, a, v, r.own)
    BY <1>1, <2>4, <2>6, PutIs
  <2>8. m \notin DOMAIN p.own
    BY <1>1, <2>1 DEF Apart, Marks
  <2>9. Frees(r.own, m) = Frees(p.own, a)
    BY <2>4, <2>7, <2>8 DEF Putting, Frees
  <2>10. Useds(r.own, m) = Useds(p.own, a) \cup {a}
    BY <1>1, <2>1, <2>4, <2>7, <2>8 DEF Putting, Useds
  <2>11. Listed(r.free, r.binmap, r.own, Frees(r.own, m))
    <3>1. Listed(p.free, p.binmap, p.own, Frees(p.own, a))
      BY DEF Sound
    <3>2. \A c \in Frees(p.own, a) : r.own[c] = p.own[c]
      BY <2>7 DEF Putting, Frees
    <3> QED
      BY <3>1, <3>2, <2>6, <2>9, ListedElsewhere
  <2>12. Sound(r, m, b)
    BY <2>5, <2>6, <2>11 DEF Sound
  <2>13. Returned(q, r, m)
    <3> HIDE DEF m
    <3> QED
      BY <2>1, <2>12, Freed DEF q
  <2>14. Keeps(p.own, Useds(p.own, a), r.own) /\ r.own[a] = v
    BY <2>7 DEF Putting, Useds, Keeps
  <2> HIDE DEF m
  <2>15. Claimed(q, p, a, need)
    BY <2>4, <2>10, <2>13, <2>14 DEF Claimed, Returned, Keeps
  <2> QED
    BY <2>2, <2>15
<1> QED
  BY <1>2, <1>3

(* A chunk in use is opened. *)
LEMMA UsedOpened ==
    ASSUME NEW p, Sound(p, Blocks, 0), NEW c \in Useds(p.own, Blocks)
    PROVE  /\ Sound(p, c, c + p.own[c].size) /\ c + p.own[c].size - c = p.own[c].size
           /\ c + 2 <= c + p.own[c].size /\ p.own[c].size \in Nat /\ c \in Nat
           /\ Useds(p.own, c) = Useds(p.own, Blocks) \ {c}
           /\ Useds(p.own, Blocks) = Useds(p.own, c) \cup {c}
<1>1. c \in DOMAIN p.own \ {Blocks} /\ p.own[c].used
  BY DEF Useds
<1>2. /\ Apart(p.own, p.prev, c, c + p.own[c].size) /\ c + p.own[c].size - c = p.own[c].size
      /\ p.own[c].size \in Nat /\ p.own[c].size >= 2 /\ c \in Nat
  BY <1>1, Opened DEF Sound
<1>3. Frees(p.own, c) = Frees(p.own, Blocks)
  BY <1>1 DEF Frees
<1>4. Useds(p.own, c) = Useds(p.own, Blocks) \ {c} /\ Useds(p.own, Blocks) = Useds(p.own, c) \cup {c}
  BY <1>1 DEF Useds
<1>5. Sound(p, c, c + p.own[c].size)
  BY <1>2, <1>3 DEF Sound
<1>6. c + 2 <= c + p.own[c].size
  BY <1>2
<1> QED
  BY <1>2, <1>4, <1>5, <1>6

(* A chunk in use is handed back. *)
LEMMA FreedUsed ==
    ASSUME NEW p, Sound(p, Blocks, 0), NEW c \in Useds(p.own, Blocks)
    PROVE  Returned(FreeChunk(p, c, p.own[c].size), p, c)
<1> DEFINE b == c + p.own[c].size
<1>1. Sound(p, c, b) /\ c + 2 <= b /\ b - c = p.own[c].size
  BY UsedOpened
<1> HIDE DEF b
<1>2. Returned(FreeChunk(p, c, b - c), p, c)
  BY <1>1, Freed
<1> QED
  BY <1>1, <1>2

(* A chunk in use is cut down. *)
LEMMA ShrunkUsed ==
    ASSUME NEW p, Sound(p, Blocks, 0), NEW c \in Useds(p.own, Blocks),
           NEW need \in Nat, need >= 2, need <= p.own[c].size
    PROVE  Claimed(SplitTail(p, c, p.own[c].size, need), p, c, Trimmed(p.own[c].size, need))
<1> DEFINE b == c + p.own[c].size
<1>1. Sound(p, c, b) /\ b - c = p.own[c].size
  BY UsedOpened
<1> HIDE DEF b
<1>2. Claimed(SplitTail(p, c, b - c, need), p, c, Trimmed(b - c, need))
  BY <1>1, SplitIs
<1> QED
  BY <1>1, <1>2

(* A free chunk is handed out. *)
LEMMA CarvedIs ==
    ASSUME NEW p, Sound(p, Blocks, 0), NEW c \in Frees(p.own, Blocks),
           NEW need \in Nat, need >= 2, need <= p.own[c].size
    PROVE  LET q == SplitTail(UnlinkFree(p, c), c, p.own[c].size, need)
           IN  Sound(q, Blocks, 0) /\ Useds(q.own, Blocks) = Useds(p.own, Blocks) \cup {c}
               /\ Keeps(p.own, Useds(p.own, Blocks), q.own)
               /\ q.own[c].size = Trimmed(p.own[c].size, need)
<1> DEFINE b == c + p.own[c].size
           r == UnlinkFree(p, c)
<1>1. Sound(r, c, b) /\ r.own = p.own /\ Useds(r.own, c) = Useds(p.own, Blocks)
  BY Taken
<1>2. b - c = p.own[c].size
  <2>1. c \in DOMAIN p.own \ {Blocks}
    BY DEF Frees
  <2> QED
    BY <2>1, Opened DEF Sound
<1> HIDE DEF b, r
<1>3. Claimed(SplitTail(r, c, b - c, need), r, c, Trimmed(b - c, need))
  BY <1>1, <1>2, SplitIs
<1> QED
  BY <1>1, <1>2, <1>3 DEF Claimed, r

(* A chunk in use takes in the free one behind it. *)
LEMMA AbsorbedIs ==
    ASSUME NEW p, Sound(p, Blocks, 0), NEW c \in Useds(p.own, Blocks),
           ~p.own[c + p.own[c].size].used
    PROVE  LET next == c + p.own[c].size
               q == [UnlinkFree(p, next) EXCEPT !.own = Without(@, {next}), !.prev = Without(@, {next})]
           IN  /\ Sound(q, c, next + p.own[next].size)
               /\ Useds(q.own, c) = Useds(p.own, c) /\ Keeps(p.own, Useds(p.own, c), q.own)
               /\ next \in Frees(p.own, Blocks)
<1> DEFINE next == c + p.own[c].size
           end == next + p.own[next].size
           r == UnlinkFree(p, next)
           o == Without(p.own, {next})
           e == Without(p.prev, {next})
           q == [r EXCEPT !.own = Without(@, {next}), !.prev = Without(@, {next})]
<1>1. /\ Sound(p, c, next) /\ c \in Nat /\ next \in Nat /\ c < next
      /\ Useds(p.own, Blocks) = Useds(p.own, c) \cup {c}
  BY UsedOpened
<1>2. Forgetful(p, p.own, p.prev, c, next) /\ ~p.own[next].used
  BY <1>1 DEF Forgetful, Sound
<1>3. /\ next \in Frees(p.own, Blocks)
  <2>1. next \in DOMAIN p.own /\ Blocks \in DOMAIN p.own /\ p.own[Blocks] = Fence
    BY <1>1 DEF Sound, Apart
  <2> QED
    BY <2>1, <1>2, FenceIs DEF Frees
<1>4. IsTags(p.own)
  BY <1>1 DEF Sound, Apart
<1> HIDE DEF next
<1>5. BehindTaken(p, p.own, p.prev, c, next, end, r)
  BY <1>1, <1>2, TakenBehind, Zenon
<1> HIDE DEF r, end
<1>6. Forgetful(r, o, e, c, end) /\ r.own = p.own /\ r.prev = p.prev /\ Useds(o, c) = Useds(p.own, c)
  BY <1>5 DEF BehindTaken
<1>7. NewTags(q, r, o, e)
  <2> DEFINE z == [r EXCEPT !.own = o, !.prev = e]
  <2>1. IsPool(r)
    BY <1>6 DEF Forgetful
  <2>2. q = z
    BY <1>6
  <2> HIDE DEF o, e
  <2>3. NewTags(z, r, o, e)
    BY <2>1, TagsChanged
  <2> HIDE DEF z, q
  <2> QED
    BY <2>2, <2>3
<1>8. DOMAIN o = DOMAIN p.own \ {next} /\ \A y \in DOMAIN p.own \ {next} : o[y] = p.own[y]
  BY <1>4, WithoutIs, Zenon
<1> HIDE DEF q, o, e
<1>9. /\ IsPool(q) /\ q.own = o /\ q.prev = e /\ q.free = r.free /\ q.binmap = r.binmap
  BY <1>7 DEF NewTags
<1>10. Listed(q.free, q.binmap, q.own, Frees(o, c))
  <2>1. Listed(r.free, r.binmap, r.own, Frees(o, c))
    BY <1>6 DEF Forgetful
  <2>2. \A d \in Frees(o, c) : q.own[d] = r.own[d]
    BY <1>6, <1>9 DEF Frees, Forgetful
  <2> QED
    BY <2>1, <2>2, <1>9, ListedElsewhere
<1>11. Sound(q, c, end)
  BY <1>6, <1>9, <1>10 DEF Sound, Forgetful
<1>12. Useds(q.own, c) = Useds(p.own, c)
  BY <1>6, <1>9
<1>13. Keeps(p.own, Useds(p.own, c), q.own)
  <2>1. \A d \in Useds(p.own, c) : d \in DOMAIN o
    BY <1>6 DEF Useds
  <2> QED
    BY <2>1, <1>8, <1>9 DEF Keeps
<1> QED
  BY <1>3, <1>11, <1>12, <1>13 DEF next, end, q, r

(* A chunk in use is grown into the free one behind it. *)
LEMMA GrownUsed ==
    ASSUME NEW p, Sound(p, Blocks, 0), NEW c \in Useds(p.own, Blocks),
           ~p.own[c + p.own[c].size].used,
           NEW total, total = p.own[c].size + p.own[c + p.own[c].size].size,
           NEW need \in Nat, need >= 2, need <= total
    PROVE  LET next == c + p.own[c].size
               q == [UnlinkFree(p, next) EXCEPT !.own = Without(@, {next}), !.prev = Without(@, {next})]
           IN  Claimed(SplitTail(q, c, total, need), p, c, Trimmed(total, need))
<1> DEFINE next == c + p.own[c].size
           end == next + p.own[next].size
           q == [UnlinkFree(p, next) EXCEPT !.own = Without(@, {next}), !.prev = Without(@, {next})]
<1>1. /\ Sound(q, c, end) /\ next \in Frees(p.own, Blocks)
      /\ Useds(q.own, c) = Useds(p.own, c) /\ Keeps(p.own, Useds(p.own, c), q.own)
  BY AbsorbedIs
<1>2. end - c = total
  <2>1. c \in Nat /\ p.own[c].size \in Nat
    BY UsedOpened
  <2>2. p.own[next].size \in Nat
    <3>1. Apart(p.own, p.prev, Blocks, 0) /\ next \in DOMAIN p.own
      BY <1>1 DEF Sound, Frees
    <3> HIDE DEF next
    <3> QED
      BY <3>1, ApartFacts
  <2> QED
    BY <2>1, <2>2
<1> HIDE DEF end, q
<1>3. Claimed(SplitTail(q, c, end - c, need), q, c, Trimmed(end - c, need))
  BY <1>1, <1>2, SplitIs
<1>4. Claimed(SplitTail(q, c, total, need), p, c, Trimmed(total, need))
  BY <1>1, <1>2, <1>3 DEF Claimed, Keeps
<1> QED
  BY <1>4 DEF q

-----------------------------------------------------------------------------
(* find_fit.                                                               *)

(* The largest of some numbers up to n. *)
LEMMA Largest ==
    ASSUME NEW n \in Nat, NEW T \in SUBSET (1..n), T # {}
    PROVE  \E i \in T : \A j \in T : j <= i
<1> DEFINE U == {k \in Nat : \A j \in T : j <= k}
<1>1. n \in U
  OBVIOUS
<1>2. PICK k \in U : \A m \in U : k <= m
  <2>1. U \in SUBSET Nat /\ U # {}
    BY <1>1
  <2> HIDE DEF U
  <2> QED
    BY <2>1, LeastNat
<1>3. k \in T
  <2> SUFFICES ASSUME k \notin T PROVE FALSE
    OBVIOUS
  <2>1. \A j \in T : j <= k - 1 /\ j >= 1
    <3> SUFFICES ASSUME NEW j \in T PROVE j <= k - 1 /\ j >= 1
      OBVIOUS
    <3>1. j \in 1..n /\ j <= k /\ k \in Nat /\ j # k
      BY <1>2
    <3> QED
      BY <3>1
  <2>2. k - 1 \in Nat /\ k \in Nat
    <3>1. PICK y \in T : y \in 1..n
      OBVIOUS
    <3>2. y <= k - 1 /\ y >= 1 /\ k \in Nat
      BY <2>1, <1>2
    <3> QED
      BY <3>1, <3>2
  <2>3. k - 1 \in U
    BY <2>1, <2>2
  <2>4. k <= k - 1
    BY <2>3, <1>2
  <2> QED
    BY <2>2, <2>4
<1> QED
  BY <1>2, <1>3

Fits(p, need, c) == c \in Frees(p.own, Blocks) /\ p.own[c].size >= need
Best(p, need, c) ==
    IF \E d \in Frees(p.own, Blocks) : Fits(p, need, d)
    THEN Fits(p, need, c) /\ \A d \in Frees(p.own, Blocks) : Fits(p, need, d) => p.own[c].size <= p.own[d].size
    ELSE c = NIL
(* find_fit finds the best fit whenever there is one. *)
LEMMA FindFitIs ==
    ASSUME NEW p, Sound(p, Blocks, 0), NEW need \in Nat
    PROVE  Best(p, need, FindFit(p, need)) /\ FindFit(p, need) \in Nat \cup {NIL}
<1> DEFINE o == p.own
           F == Frees(p.own, Blocks)
           list(bin) == p.free[bin]
           fitting(bin) == {i \in DOMAIN list(bin) :
                               \A j \in 1..i : p.own[list(bin)[j]].size >= need}
           bins == {bin \in p.binmap : bin >= BinIndex(need) /\ fitting(bin) # {}}
           first == CHOOSE b \in bins : \A c \in bins : b <= c
           pick == IF first < NUM_SMALL_BINS THEN 1
                   ELSE CHOOSE i \in fitting(first) : \A j \in fitting(first) : j <= i
           chunk == list(first)[pick]
<1>1. FindFit(p, need) = IF bins = {} THEN NIL ELSE chunk
  BY DEF FindFit
<1>2. Listed(p.free, p.binmap, o, F)
  BY DEF Sound
<1>3. /\ F \subseteq Nat /\ \A c \in F : o[c].size \in Nat /\ BinOf(o, c) \in Bin
      /\ \A bin \in Bin : Exact(list(bin), bin, o, F) /\ list(bin) \in Seq(Nat)
      /\ p.binmap = {bin \in Bin : list(bin) # <<>>} /\ Bin \subseteq Nat
  <2>1. Bin \subseteq Nat
    BY SMT DEF Bin, NUM_BINS
  <2>2. \A c \in F : BinOf(o, c) \in Bin
    <3> HIDE DEF F, o
    <3> QED
      BY <1>2, BinOfIs, Zenon
  <2> QED
    BY <1>2, <2>1, <2>2 DEF Listed
<1>4. ASSUME NEW c \in F, o[c].size >= need
      PROVE  /\ BinOf(o, c) \in bins
             /\ \E i \in fitting(BinOf(o, c)) : list(BinOf(o, c))[i] = c
  <2> DEFINE bin == BinOf(o, c)
  <2>1. PICK i \in 1..Len(list(bin)) : list(bin)[i] = c
    BY <1>2 DEF Listed
  <2>2. bin \in Bin /\ Exact(list(bin), bin, o, F) /\ list(bin) \in Seq(Nat)
    BY <1>3
  <2>3. ASSUME NEW j \in 1..i PROVE o[list(bin)[j]].size >= need
    <3>1. j = i \/ (j < i /\ j \in 1..Len(list(bin)))
      BY <2>2
    <3>2. CASE j = i
      BY <3>2, <2>1, <1>4
    <3>3. CASE j < i /\ j \in 1..Len(list(bin))
      <4>1. o[list(bin)[j]].size >= o[c].size
        BY <3>3, <2>1, <2>2 DEF Exact
      <4>2. o[list(bin)[j]].size \in Nat /\ o[c].size \in Nat
        BY <3>3, <2>2, <1>3 DEF Exact
      <4> HIDE DEF list, bin, o
      <4> QED
        BY <4>1, <4>2, <1>4
    <3> QED
      BY <3>1, <3>2, <3>3
  <2>4. i \in fitting(bin)
    BY <2>1, <2>2, <2>3
  <2>5. bin >= BinIndex(need)
    <3>1. o[c].size \in Nat /\ need <= o[c].size
      BY <1>3, <1>4
    <3>2. BinIndex(need) <= BinIndex(o[c].size)
      BY <3>1, BinOrder
    <3>3. BinIndex(need) \in Bin
      BY BinOrder
    <3> QED
      BY <3>2, <3>3, <2>2, <1>3 DEF BinOf
  <2>6. list(bin) # <<>>
    BY <2>1, <2>2
  <2> HIDE DEF fitting
  <2> QED
    BY <2>1, <2>2, <2>4, <2>5, <2>6, <1>3
<1>5. CASE bins = {}
  <2>1. ~\E d \in F : Fits(p, need, d)
    BY <1>4, <1>5 DEF Fits
  <2> QED
    BY <2>1, <1>1, <1>5 DEF Best
<1>6. CASE bins # {}
  <2>1. first \in bins /\ \A c \in bins : first <= c
    <3>1. bins \in SUBSET Nat
      BY <1>3
    <3>2. \E b \in bins : \A c \in bins : b <= c
      <4> HIDE DEF bins
      <4> QED
        BY <3>1, <1>6, LeastNat
    <3> HIDE DEF bins
    <3> QED
      BY <3>2
  <2>2. /\ first \in Bin /\ first \in Nat /\ fitting(first) # {}
        /\ Exact(list(first), first, o, F) /\ list(first) \in Seq(Nat)
    BY <2>1, <1>3
  <2> HIDE DEF first, bins
  <2>3. fitting(first) \in SUBSET (1..Len(list(first))) /\ Len(list(first)) \in Nat
    BY <2>2, SMTT(30)
  <2>4. /\ pick \in fitting(first)
        /\ first >= NUM_SMALL_BINS => \A j \in fitting(first) : j <= pick
    <3>1. CASE first < NUM_SMALL_BINS
      <4>1. PICK i \in fitting(first) : TRUE
        BY <2>2
      <4>2. 1 \in 1..i /\ 1 \in DOMAIN list(first) /\ o[list(first)[1]].size >= need
        BY <4>1, <2>2
      <4>3. 1 \in fitting(first)
        BY <4>2
      <4>4. ~(first >= NUM_SMALL_BINS)
        BY <3>1, <2>2 DEF NUM_SMALL_BINS
      <4> HIDE DEF fitting
      <4> QED
        BY <4>3, <4>4, <3>1
    <3>2. CASE ~(first < NUM_SMALL_BINS)
      <4> HIDE DEF fitting
      <4>1. \E i \in fitting(first) : \A j \in fitting(first) : j <= i
        BY <2>2, <2>3, Largest
      <4> QED
        BY <4>1, <3>2
    <3> QED
      BY <3>1, <3>2
  <2> HIDE DEF pick
  <2>5. /\ pick \in 1..Len(list(first)) /\ chunk \in F /\ o[chunk].size >= need
        /\ BinOf(o, chunk) = first
    <3>1. pick \in 1..Len(list(first)) /\ pick \in 1..pick
      BY <2>3, <2>4
    <3>2. o[chunk].size >= need
      BY <3>1, <2>4
    <3> QED
      BY <3>1, <3>2, <2>2 DEF Exact
  <2>6. ASSUME NEW d \in F, o[d].size >= need PROVE o[chunk].size <= o[d].size
    <3>1. BinOf(o, d) \in bins /\ \E i \in fitting(BinOf(o, d)) : list(BinOf(o, d))[i] = d
      BY <2>6, <1>4
    <3>2. first <= BinOf(o, d) /\ o[d].size \in Nat /\ o[chunk].size \in Nat /\ BinOf(o, d) \in Nat
      BY <3>1, <2>1, <2>5, <1>3
    <3>3. CASE first < BinOf(o, d)
      <4>1. BinIndex(o[chunk].size) < BinIndex(o[d].size)
        BY <3>3, <2>5 DEF BinOf
      <4>2. o[d].size <= o[chunk].size => BinIndex(o[d].size) <= BinIndex(o[chunk].size)
        BY <3>2, BinOrder
      <4>3. BinIndex(o[d].size) \in Nat /\ BinIndex(o[chunk].size) \in Nat
        BY <3>2, <2>2, <2>5 DEF BinOf
      <4> QED
        BY <4>1, <4>2, <4>3, <3>2
    <3>4. CASE first = BinOf(o, d) /\ first < NUM_SMALL_BINS
      <4>1. BinIndex(o[chunk].size) = BinIndex(o[d].size) /\ BinIndex(o[chunk].size) < NUM_SMALL_BINS
        BY <3>4, <2>5 DEF BinOf
      <4>2. o[chunk].size = o[d].size
        BY <4>1, <3>2, BinOrder
      <4> QED
        BY <4>2, <3>2
    <3>5. CASE first = BinOf(o, d) /\ first >= NUM_SMALL_BINS
      <4>1. PICK i \in fitting(first) : list(first)[i] = d
        BY <3>1, <3>5
      <4>2. i <= pick /\ i \in 1..Len(list(first)) /\ i \in Nat /\ pick \in Nat
        <5> HIDE DEF fitting
        <5> QED
          BY <4>1, <2>3, <2>4, <2>5, <3>5
      <4>3. i < pick => o[list(first)[i]].size >= o[chunk].size
        BY <4>2, <2>2, <2>5 DEF Exact
      <4> QED
        BY <4>1, <4>2, <4>3, <3>2
    <3>6. first < NUM_SMALL_BINS \/ first >= NUM_SMALL_BINS
      BY <2>2 DEF NUM_SMALL_BINS
    <3> QED
      BY <3>2, <3>3, <3>4, <3>5, <3>6, <2>2
  <2> HIDE DEF chunk
  <2>7. FindFit(p, need) = chunk /\ chunk \in Nat
    BY <2>5, <1>1, <1>3, <1>6
  <2>8. Fits(p, need, chunk) /\ \A d \in F : Fits(p, need, d) => o[chunk].size <= o[d].size
    BY <2>5, <2>6 DEF Fits
  <2> QED
    BY <2>5, <2>7, <2>8 DEF Best
<1> QED
  BY <1>5, <1>6

-----------------------------------------------------------------------------
(* The invariant.                                                          *)

PoolInv ==
    /\ Sound(pool, Blocks, 0)
    /\ DOMAIN owned = Useds(pool.own, Blocks)
    /\ \A c \in DOMAIN owned : owned[c] \in Nat /\ owned[c] + HEADER <= ALIGN * pool.own[c].size

(* A request rounds up, and what is kept of a chunk is enough. *)
LEMMA NeedIs ==
    ASSUME NEW bytes \in Requests
    PROVE  /\ bytes \in Nat /\ RequestToSize(bytes) \in Nat /\ RequestToSize(bytes) >= 2
           /\ \A size \in Nat : size >= RequestToSize(bytes) => bytes + HEADER <= ALIGN * size
<1>1. bytes \in Nat
  BY SizeAssumption
<1>2. RequestToSize(bytes) \in Nat /\ RequestToSize(bytes) >= 2 /\ bytes + 16 <= 64 * RequestToSize(bytes)
  BY <1>1, SMT DEF RequestToSize, HEADER, ALIGN, MIN_CHUNK
<1> QED
  BY <1>1, <1>2, SMT DEF HEADER, ALIGN
(* What is kept of a chunk is no less than the need. *)
LEMMA TrimmedIs ==
    ASSUME NEW total \in Nat, NEW need \in Nat, need <= total
    PROVE  Trimmed(total, need) \in Nat /\ need <= Trimmed(total, need)
  BY DEF Trimmed

(* A function after a write, and with a place dropped. *)
Written(f, x, v, g) ==
    DOMAIN g = DOMAIN f \cup {x} /\ g[x] = v /\ \A y \in DOMAIN f \ {x} : g[y] = f[y]
(* Put writes one place. *)
LEMMA WrittenIs ==
    ASSUME NEW f, NEW x, NEW v
    PROVE  Written(f, x, v, Put(f, x, v))
  BY DEF Put, Written
Dropped(f, x, g) == DOMAIN g = DOMAIN f \ {x} /\ \A y \in DOMAIN f \ {x} : g[y] = f[y]
(* Without drops one place. *)
LEMMA DroppedIs ==
    ASSUME NEW f, NEW x
    PROVE  Dropped(f, x, Without(f, {x}))
  BY DEF Without, Dropped

(* At first there is one free chunk, as if just freed. *)
LEMMA InvAtFirst == Init => PoolInv
<1> SUFFICES ASSUME Init PROVE PoolInv
  OBVIOUS
<1> DEFINE o == [b \in {Blocks} |-> Tag(0, TRUE)]
           e == [b \in {0} |-> Tag(0, TRUE)]
           f == [bin \in Bin |-> <<>>]
           p == [own |-> o, prev |-> e, free |-> f, binmap |-> {}]
<1>1. Blocks \in Nat /\ 0 + 2 <= Blocks /\ Blocks - 0 = Blocks /\ 0 + Blocks = Blocks
  BY SizeAssumption
<1>2. /\ DOMAIN o = {Blocks} /\ o[Blocks] = Fence /\ DOMAIN e = {0} /\ e[0] = Fence
      /\ IsTags(o) /\ IsTags(e)
  <2>1. o = [b \in {Blocks} |-> Fence] /\ e = [b \in {0} |-> Fence]
    BY DEF Fence
  <2>2. \A n \in Nat : LET g == [b \in {n} |-> Fence]
                      IN  DOMAIN g = {n} /\ g[n] = Fence /\ IsTags(g)
    BY FenceIs DEF IsTags
  <2> HIDE DEF o, e
  <2> QED
    BY <2>1, <2>2, <1>1
<1> HIDE DEF o, e
<1>3. Apart(o, e, 0, Blocks)
  BY <1>1, <1>2 DEF Apart, Marks
<1>4. Frees(o, 0) = {} /\ Useds(o, 0) = {}
  BY <1>2 DEF Frees, Useds
<1>5. Listed(f, {}, o, {})
  <2>1. /\ f \in [Bin -> Seq(Nat)] /\ \A bin \in Bin : f[bin] = <<>>
    OBVIOUS
  <2> HIDE DEF f
  <2>2. ASSUME NEW bin \in Bin PROVE Exact(f[bin], bin, o, {})
    <3>1. f[bin] = <<>> /\ Len(f[bin]) = 0 /\ f[bin] \in Seq(Nat)
      BY <2>1
    <3> QED
      BY <3>1 DEF Exact
  <2> QED
    BY <2>1, <2>2 DEF Listed
<1> HIDE DEF f
<1>6. IsPool(p) /\ p.own = o /\ p.prev = e /\ p.free = f /\ p.binmap = {}
  <2>1. p \in [own : {o}, prev : {e}, free : {f}, binmap : {{}}]
    OBVIOUS
  <2>2. p.own = o /\ p.prev = e /\ p.free = f /\ p.binmap = {}
    OBVIOUS
  <2> QED
    BY <2>1, <2>2, Zenon DEF IsPool
<1>7. pool = LinkFree(SetTag(p, 0, Blocks, FALSE), 0) /\ owned = [at \in {} |-> 0]
  BY DEF Init, o, e, f
<1> HIDE DEF p
<1>8. Sound(p, 0, Blocks)
  BY <1>3, <1>4, <1>5, <1>6 DEF Sound
<1>9. FreeChunk(p, 0, Blocks) = pool
  <2> DEFINE z == [p EXCEPT !.own = Without(@, {}), !.prev = Without(@, {})]
  <2>1. p.prev[0].used /\ p.own[0 + Blocks].used /\ {0, 0 + Blocks} \ {0, 0 + Blocks} = {}
    BY <1>1, <1>2, <1>6, FenceIs
  <2>2. FreeChunk(p, 0, Blocks) = LinkFree(SetTag(z, 0, 0 + Blocks - 0, FALSE), 0)
    <3> DEFINE before == p.prev[0]
               at == IF before.used THEN 0 ELSE 0 - before.size
               left == IF before.used THEN p ELSE UnlinkFree(p, at)
               next == 0 + Blocks
               after == left.own[next]
               right == IF after.used THEN left ELSE UnlinkFree(left, next)
               end == IF after.used THEN next ELSE next + after.size
               inside == {0, next} \ {at, end}
               merged == [right EXCEPT !.own = Without(@, inside), !.prev = Without(@, inside)]
    <3>1. FreeChunk(p, 0, Blocks) = LinkFree(SetTag(merged, at, end - at, FALSE), at)
      BY DEF FreeChunk
    <3>2. at = 0 /\ left = p
      BY <2>1
    <3> HIDE DEF at, left
    <3>3. right = p /\ end = 0 + Blocks
      BY <2>1, <3>2
    <3> HIDE DEF right, end
    <3>4. inside = {}
      BY <2>1, <3>2, <3>3
    <3> HIDE DEF inside
    <3>5. merged = z
      BY <3>3, <3>4
    <3> HIDE DEF merged, z, after, next, before
    <3>6. at = 0 /\ end = Blocks /\ 0 + Blocks - 0 = Blocks
      BY <3>2, <3>3, <1>1
    <3>7. end - at = 0 + Blocks - 0
      BY <3>6, <1>1
    <3> QED
      BY <3>1, <3>2, <3>5, <3>7, Zenon
  <2>3. z = p
    <3>1. Without(o, {}) = o /\ Without(e, {}) = e
      BY <1>2 DEF Without, IsTags
    <3>2. z = [p EXCEPT !.own = o, !.prev = e]
      BY <3>1, <1>6
    <3>3. [p EXCEPT !.own = o, !.prev = e] = p
      BY <1>6 DEF p
    <3> QED
      BY <3>2, <3>3
  <2> HIDE DEF z
  <2> QED
    BY <2>2, <2>3, <1>1, <1>7
<1>10. Returned(FreeChunk(p, 0, Blocks - 0), p, 0)
  BY <1>1, <1>8, Freed
<1>11. Sound(pool, Blocks, 0) /\ Useds(pool.own, Blocks) = {}
  BY <1>1, <1>4, <1>6, <1>9, <1>10 DEF Returned
<1>12. DOMAIN owned = {}
  BY <1>7
<1> QED
  BY <1>11, <1>12 DEF PoolInv

(* A step after which the users hold those in S as before, and c. *)
LEMMA InvAfterClaim ==
    ASSUME PoolInv, NEW S \in SUBSET DOMAIN owned, NEW c, NEW bytes \in Requests,
           Sound(pool', Blocks, 0), Useds(pool'.own, Blocks) = S \cup {c},
           Keeps(pool.own, S, pool'.own), pool'.own[c].size >= RequestToSize(bytes),
           DOMAIN owned' = S \cup {c}, owned'[c] = bytes, \A d \in S \ {c} : owned'[d] = owned[d]
    PROVE  PoolInv'
<1>1. pool'.own[c].size \in Nat
  <2>1. Apart(pool'.own, pool'.prev, Blocks, 0) /\ c \in DOMAIN pool'.own
    BY DEF Sound, Useds
  <2>2. \A o, e : Apart(o, e, Blocks, 0) => \A x \in DOMAIN o : o[x].size \in Nat
    BY ApartFacts
  <2> QED
    BY <2>1, <2>2
<1>2. bytes \in Nat /\ bytes + HEADER <= ALIGN * pool'.own[c].size
  BY <1>1, NeedIs
<1>3. ASSUME NEW d \in S \cup {c}
      PROVE  owned'[d] \in Nat /\ owned'[d] + HEADER <= ALIGN * pool'.own[d].size
  <2>1. CASE d = c
    BY <2>1, <1>2
  <2>2. CASE d # c
    <3>1. d \in S \ {c} /\ d \in DOMAIN owned
      BY <2>2
    <3>2. owned'[d] = owned[d] /\ pool'.own[d] = pool.own[d]
      BY <3>1 DEF Keeps
    <3>3. owned[d] \in Nat /\ owned[d] + HEADER <= ALIGN * pool.own[d].size
      BY <3>1 DEF PoolInv
    <3> QED
      BY <3>2, <3>3
  <2> QED
    BY <2>1, <2>2
<1> QED
  BY <1>3 DEF PoolInv

(* What is handed out, and of which chunk. *)
LEMMA AllocIs ==
    ASSUME PoolInv, NEW bytes \in Requests, Alloc(bytes)
    PROVE  LET need == RequestToSize(bytes)
               c == FindFit(pool, need)
           IN  /\ c \in Frees(pool.own, Blocks) /\ pool.own[c].size >= need
               /\ DOMAIN owned' = DOMAIN owned \cup {c} /\ Keeps(pool.own, DOMAIN owned, pool'.own)
               /\ pool'.own[c].size = Trimmed(pool.own[c].size, need)
               /\ Trimmed(pool.own[c].size, need) >= need
               /\ Sound(pool', Blocks, 0) /\ Useds(pool'.own, Blocks) = DOMAIN owned \cup {c}
               /\ Written(owned, c, bytes, owned')
<1> DEFINE need == RequestToSize(bytes)
           c == FindFit(pool, need)
           F == Frees(pool.own, Blocks)
           U == Useds(pool.own, Blocks)
<1>1. need \in Nat /\ need >= 2
  BY NeedIs
<1>2. c \in F /\ pool.own[c].size >= need
  <2>1. c # NIL
    BY DEF Alloc
  <2> HIDE DEF need
  <2>2. Best(pool, need, c)
    BY <1>1, FindFitIs DEF PoolInv
  <2> HIDE DEF c
  <2> QED
    BY <2>1, <2>2 DEF Best, Fits
<1>3. pool' = SplitTail(UnlinkFree(pool, c), c, pool.own[c].size, need) /\ owned' = Put(owned, c, bytes)
  BY DEF Alloc, Carved
<1> HIDE DEF c, need
<1>4. pool.own[c].size \in Nat /\ c \notin U
  BY <1>2, ApartFacts DEF PoolInv, Sound, Frees, Useds
<1>5. /\ Sound(pool', Blocks, 0) /\ Useds(pool'.own, Blocks) = U \cup {c}
      /\ Keeps(pool.own, U, pool'.own) /\ pool'.own[c].size = Trimmed(pool.own[c].size, need)
  BY <1>1, <1>2, <1>3, <1>4, CarvedIs, ZenonT(30) DEF PoolInv
<1>6. Trimmed(pool.own[c].size, need) >= need
  BY <1>1, <1>2, <1>4, TrimmedIs
<1>7. Written(owned, c, bytes, owned')
  BY <1>3, WrittenIs
<1>8. DOMAIN owned' = DOMAIN owned \cup {c} /\ U = DOMAIN owned
  BY <1>7 DEF PoolInv, Written
<1> HIDE DEF U, F
<1> QED
  BY <1>2, <1>5, <1>6, <1>7, <1>8 DEF need, c, F

(* Alloc. *)
LEMMA AllocKeepsInv ==
    ASSUME PoolInv, NEW bytes \in Requests, Alloc(bytes)
    PROVE  PoolInv'
<1> DEFINE need == RequestToSize(bytes)
           c == FindFit(pool, need)
           S == DOMAIN owned
<1>1. /\ Keeps(pool.own, S, pool'.own) /\ pool'.own[c].size = Trimmed(pool.own[c].size, need)
      /\ Trimmed(pool.own[c].size, need) >= need
      /\ Sound(pool', Blocks, 0) /\ Useds(pool'.own, Blocks) = S \cup {c}
      /\ Written(owned, c, bytes, owned')
  BY AllocIs
<1> HIDE DEF c
<1>2. DOMAIN owned' = S \cup {c} /\ owned'[c] = bytes /\ \A d \in S \ {c} : owned'[d] = owned[d]
  BY <1>1 DEF Written
<1>3. S \in SUBSET DOMAIN owned /\ pool'.own[c].size >= RequestToSize(bytes)
  BY <1>1
<1> HIDE DEF S
<1> QED
  BY <1>1, <1>2, <1>3, InvAfterClaim

(* Dealloc. *)
LEMMA DeallocKeepsInv ==
    ASSUME PoolInv, NEW c \in DOMAIN owned, Dealloc(c)
    PROVE  PoolInv'
<1>1. /\ c \in Useds(pool.own, Blocks) /\ Sound(pool, Blocks, 0) /\ DOMAIN owned = Useds(pool.own, Blocks)
      /\ pool' = FreeChunk(pool, c, pool.own[c].size) /\ owned' = Without(owned, {c})
  BY DEF PoolInv, Dealloc
<1>2. Returned(pool', pool, c)
  BY <1>1, FreedUsed
<1>3. Useds(pool.own, c) = Useds(pool.own, Blocks) \ {c}
  BY <1>1, UsedOpened
<1>4. DOMAIN owned' = DOMAIN owned \ {c} /\ \A d \in DOMAIN owned' : owned'[d] = owned[d]
  <2>1. Dropped(owned, c, owned')
    BY <1>1, DroppedIs
  <2> QED
    BY <2>1 DEF Dropped
<1>5. \A d \in DOMAIN owned' : pool'.own[d] = pool.own[d]
  BY <1>1, <1>2, <1>3, <1>4 DEF Returned, Keeps
<1>6. Sound(pool', Blocks, 0) /\ DOMAIN owned' = Useds(pool'.own, Blocks)
  BY <1>1, <1>2, <1>3, <1>4 DEF Returned
<1>7. ASSUME NEW d \in DOMAIN owned'
      PROVE  owned'[d] \in Nat /\ owned'[d] + HEADER <= ALIGN * pool'.own[d].size
  <2>1. owned[d] \in Nat /\ owned[d] + HEADER <= ALIGN * pool.own[d].size
    BY <1>4 DEF PoolInv
  <2> QED
    BY <2>1, <1>4, <1>5
<1> QED
  BY <1>6, <1>7 DEF PoolInv

(* Where a chunk in use is next to, and what room there is. *)
LEMMA RoomIs ==
    ASSUME PoolInv, NEW c \in DOMAIN owned
    PROVE  /\ c \in Useds(pool.own, Blocks) /\ c \in Nat
           /\ pool.own[c].size \in Nat /\ Room(c) \in Nat
           /\ ~pool.own[c + pool.own[c].size].used =>
                 Room(c) = pool.own[c].size + pool.own[c + pool.own[c].size].size
           /\ pool.own[c + pool.own[c].size].used => Room(c) = pool.own[c].size
<1> DEFINE next == c + pool.own[c].size
<1>1. c \in Useds(pool.own, Blocks) /\ Sound(pool, Blocks, 0)
  BY DEF PoolInv
<1>2. c \in Nat /\ pool.own[c].size \in Nat /\ Sound(pool, c, next)
  BY <1>1, UsedOpened
<1>3. pool.own[next].size \in Nat
  <2> HIDE DEF next
  <2>1. Apart(pool.own, pool.prev, c, next) /\ next \in DOMAIN pool.own
    BY <1>2 DEF Sound, Apart
  <2> QED
    BY <2>1, ApartFacts
<1>4. Room(c) = IF pool.own[next].used THEN pool.own[c].size ELSE pool.own[c].size + pool.own[next].size
  BY DEF Room
<1> HIDE DEF next
<1>5. Room(c) \in Nat
  BY <1>2, <1>3, <1>4
<1> QED
  BY <1>1, <1>2, <1>4, <1>5 DEF next

(* What a region becomes when it is resized where it is. *)
LEMMA ResizedIs ==
    ASSUME PoolInv, NEW c \in DOMAIN owned, NEW bytes \in Requests, Resize(c, bytes)
    PROVE  LET need == RequestToSize(bytes)
               size == pool.own[c].size
           IN  /\ need <= size => Claimed(pool', pool, c, Trimmed(size, need))
               /\ need > size => /\ Claimed(pool', pool, c, Trimmed(Room(c), need))
                                 /\ ~pool.own[c + size].used
               /\ need <= Room(c) /\ owned' = Put(owned, c, bytes)
<1> DEFINE need == RequestToSize(bytes)
           size == pool.own[c].size
           next == c + size
           absorbed == [UnlinkFree(pool, next) EXCEPT !.own = Without(@, {next}),
                                                      !.prev = Without(@, {next})]
<1>1. /\ need <= Room(c) /\ owned' = Put(owned, c, bytes)
      /\ pool' = IF need <= size THEN SplitTail(pool, c, size, need)
                 ELSE SplitTail(absorbed, c, Room(c), need)
  BY DEF Resize
<1>2. /\ Sound(pool, Blocks, 0) /\ c \in Useds(pool.own, Blocks)
      /\ need \in Nat /\ need >= 2 /\ size \in Nat /\ Room(c) \in Nat
      /\ ~pool.own[next].used => Room(c) = size + pool.own[next].size
      /\ pool.own[next].used => Room(c) = size
  BY RoomIs, NeedIs DEF PoolInv
<1>3. CASE need <= size
  <2>1. Claimed(SplitTail(pool, c, size, need), pool, c, Trimmed(size, need))
    BY <1>2, <1>3, ShrunkUsed
  <2>2. pool' = SplitTail(pool, c, size, need) /\ ~(need > size)
    BY <1>1, <1>2, <1>3
  <2> QED
    BY <2>1, <2>2, <1>1
<1>4. CASE need > size
  <2>1. ~pool.own[next].used /\ ~(need <= size)
    BY <1>1, <1>2, <1>4
  <2>2. Claimed(SplitTail(absorbed, c, Room(c), need), pool, c, Trimmed(Room(c), need))
    <3> HIDE DEF need
    <3> QED
      BY <2>1, <1>1, <1>2, GrownUsed
  <2> QED
    BY <2>1, <2>2, <1>1, <1>4
<1> QED
  BY <1>2, <1>3, <1>4

(* Resize. *)
LEMMA ResizeKeepsInv ==
    ASSUME PoolInv, NEW c \in DOMAIN owned, NEW bytes \in Requests, Resize(c, bytes)
    PROVE  PoolInv'
<1> DEFINE need == RequestToSize(bytes)
           S == Useds(pool.own, c)
<1>1. \E size \in Nat : size >= need /\ Claimed(pool', pool, c, size)
  <2>1. need \in Nat /\ pool.own[c].size \in Nat /\ Room(c) \in Nat
    BY NeedIs, RoomIs
  <2>2. need <= pool.own[c].size => Claimed(pool', pool, c, Trimmed(pool.own[c].size, need))
    BY ResizedIs
  <2>3. /\ need > pool.own[c].size => Claimed(pool', pool, c, Trimmed(Room(c), need))
        /\ need <= Room(c)
    BY ResizedIs
  <2> HIDE DEF need
  <2> QED
    BY <2>1, <2>2, <2>3, TrimmedIs
<1>2. owned' = Put(owned, c, bytes)
  BY DEF Resize
<1>3. DOMAIN owned = S \cup {c} /\ S = DOMAIN owned \ {c}
  <2>1. Sound(pool, Blocks, 0) /\ c \in Useds(pool.own, Blocks) /\ DOMAIN owned = Useds(pool.own, Blocks)
    BY DEF PoolInv
  <2>2. /\ Useds(pool.own, c) = Useds(pool.own, Blocks) \ {c}
        /\ Useds(pool.own, Blocks) = Useds(pool.own, c) \cup {c}
    BY <2>1, UsedOpened
  <2> QED
    BY <2>1, <2>2
<1>4. DOMAIN owned' = S \cup {c} /\ owned'[c] = bytes /\ \A d \in S \ {c} : owned'[d] = owned[d]
  <2>1. Written(owned, c, bytes, owned')
    BY <1>2, WrittenIs
  <2> QED
    BY <2>1, <1>3 DEF Written
<1> HIDE DEF S
<1>5. /\ Sound(pool', Blocks, 0) /\ Useds(pool'.own, Blocks) = S \cup {c}
      /\ Keeps(pool.own, S, pool'.own) /\ pool'.own[c].size >= RequestToSize(bytes)
  BY <1>1 DEF Claimed, S
<1> QED
  BY <1>3, <1>4, <1>5, InvAfterClaim

(* What becomes of a region that moves, and of the chunk it leaves. *)
LEMMA RelocatedIs ==
    ASSUME PoolInv, NEW c \in DOMAIN owned, NEW bytes \in Requests, Relocate(c, bytes)
    PROVE  LET need == RequestToSize(bytes)
               fresh == FindFit(pool, need)
               S == DOMAIN owned \ {c}
           IN  /\ fresh \in Frees(pool.own, Blocks) /\ pool.own[fresh].size >= need
               /\ Sound(pool', Blocks, 0) /\ Useds(pool'.own, Blocks) = S \cup {fresh}
               /\ Keeps(pool.own, S, pool'.own)
               /\ pool'.own[fresh].size = Trimmed(pool.own[fresh].size, need)
               /\ owned' = Put(Without(owned, {c}), fresh, bytes) /\ need > Room(c)
<1> DEFINE need == RequestToSize(bytes)
           fresh == FindFit(pool, need)
           carved == SplitTail(UnlinkFree(pool, fresh), fresh, pool.own[fresh].size, need)
           U == Useds(pool.own, Blocks)
           S == DOMAIN owned \ {c}
<1>1. /\ need > Room(c) /\ fresh # NIL /\ pool' = FreeChunk(carved, c, carved.own[c].size)
      /\ owned' = Put(Without(owned, {c}), fresh, bytes)
  BY DEF Relocate, Carved
<1>2. need \in Nat /\ need >= 2 /\ Sound(pool, Blocks, 0) /\ U = DOMAIN owned /\ c \in U
  BY NeedIs DEF PoolInv
<1>3. fresh \in Frees(pool.own, Blocks) /\ pool.own[fresh].size >= need
  <2> HIDE DEF need
  <2>1. Best(pool, need, fresh)
    BY <1>2, FindFitIs
  <2> HIDE DEF fresh
  <2> QED
    BY <2>1, <1>1 DEF Best, Fits
<1>4. fresh \notin U /\ pool.own[fresh].size \in Nat
  BY <1>2, <1>3, ApartFacts DEF Sound, Frees, Useds
<1> HIDE DEF need, fresh
<1>5. /\ Sound(carved, Blocks, 0) /\ Useds(carved.own, Blocks) = U \cup {fresh}
      /\ Keeps(pool.own, U, carved.own) /\ carved.own[fresh].size = Trimmed(pool.own[fresh].size, need)
  BY <1>2, <1>3, <1>4, CarvedIs
<1> HIDE DEF carved
<1>6. c \in Useds(carved.own, Blocks)
  BY <1>2, <1>5
<1>7. Returned(pool', carved, c)
  BY <1>1, <1>5, <1>6, FreedUsed
<1>8. Useds(carved.own, c) = Useds(carved.own, Blocks) \ {c}
  BY <1>5, <1>6, UsedOpened
<1>9. Useds(carved.own, c) = S \cup {fresh}
  BY <1>2, <1>4, <1>5, <1>8
<1> HIDE DEF U, S
<1>10. Sound(pool', Blocks, 0) /\ Useds(pool'.own, Blocks) = S \cup {fresh}
  BY <1>7, <1>9 DEF Returned
<1>11. Keeps(pool.own, S, pool'.own) /\ pool'.own[fresh].size = Trimmed(pool.own[fresh].size, need)
  <2>1. S \subseteq U
    BY <1>2 DEF S
  <2> QED
    BY <2>1, <1>5, <1>7, <1>9 DEF Returned, Keeps
<1> QED
  BY <1>1, <1>3, <1>10, <1>11 DEF need, fresh, S

(* Relocate. *)
LEMMA RelocateKeepsInv ==
    ASSUME PoolInv, NEW c \in DOMAIN owned, NEW bytes \in Requests, Relocate(c, bytes)
    PROVE  PoolInv'
<1> DEFINE need == RequestToSize(bytes)
           fresh == FindFit(pool, need)
           S == DOMAIN owned \ {c}
<1>1. /\ fresh \in Frees(pool.own, Blocks) /\ pool.own[fresh].size >= need
      /\ Sound(pool', Blocks, 0) /\ Useds(pool'.own, Blocks) = S \cup {fresh}
      /\ Keeps(pool.own, S, pool'.own)
      /\ pool'.own[fresh].size = Trimmed(pool.own[fresh].size, need)
      /\ owned' = Put(Without(owned, {c}), fresh, bytes)
  BY RelocatedIs
<1>2. need \in Nat /\ Trimmed(pool.own[fresh].size, need) >= need
  <2>1. need \in Nat /\ pool.own[fresh].size \in Nat
    <3>1. need \in Nat
      BY NeedIs
    <3>2. fresh \in DOMAIN pool.own /\ Apart(pool.own, pool.prev, Blocks, 0)
      BY <1>1 DEF PoolInv, Sound, Frees
    <3> HIDE DEF fresh, need
    <3> QED
      BY <3>1, <3>2, ApartFacts
  <2> HIDE DEF fresh, need
  <2> QED
    BY <2>1, <1>1, TrimmedIs
<1> HIDE DEF fresh
<1>3. /\ DOMAIN owned' = S \cup {fresh} /\ owned'[fresh] = bytes
      /\ \A d \in S \ {fresh} : owned'[d] = owned[d]
  <2>1. Dropped(owned, c, Without(owned, {c}))
    BY DroppedIs
  <2>2. Written(Without(owned, {c}), fresh, bytes, owned')
    BY <1>1, WrittenIs
  <2> QED
    BY <2>1, <2>2 DEF Written, Dropped
<1>4. S \in SUBSET DOMAIN owned
  OBVIOUS
<1>5. pool'.own[fresh].size >= RequestToSize(bytes)
  BY <1>1, <1>2
<1> HIDE DEF S
<1> QED
  BY <1>1, <1>3, <1>4, <1>5, InvAfterClaim

(* A step keeps the invariant. *)
LEMMA InvKept == PoolInv /\ [Next]_vars => PoolInv'
<1> SUFFICES ASSUME PoolInv, [Next]_vars PROVE PoolInv'
  OBVIOUS
<1>1. CASE UNCHANGED vars
  BY <1>1 DEF vars, PoolInv, Sound
<1>2. CASE Next
  <2>1. ASSUME NEW bytes \in Requests, Alloc(bytes) PROVE PoolInv'
    BY <2>1, AllocKeepsInv
  <2>2. ASSUME NEW c \in DOMAIN owned, Dealloc(c) PROVE PoolInv'
    BY <2>2, DeallocKeepsInv
  <2>3. ASSUME NEW c \in DOMAIN owned, NEW bytes \in Requests, Resize(c, bytes) PROVE PoolInv'
    BY <2>3, ResizeKeepsInv
  <2>4. ASSUME NEW c \in DOMAIN owned, NEW bytes \in Requests, Relocate(c, bytes) PROVE PoolInv'
    BY <2>4, RelocateKeepsInv
  <2> QED
    BY <1>2, <2>1, <2>2, <2>3, <2>4 DEF Next
<1> QED
  BY <1>1, <1>2

-----------------------------------------------------------------------------
(* What the invariant says.                                                *)

(* The invariant implies that the chunks tile the arena. *)
LEMMA InvTiles == PoolInv => Tiled
<1> SUFFICES ASSUME PoolInv PROVE Tiled
  OBVIOUS
<1> DEFINE o == pool.own
           e == pool.prev
<1>1. Apart(o, e, Blocks, 0) /\ Blocks \in Nat /\ Marks(o, Blocks) = DOMAIN o /\ DOMAIN e = DOMAIN o
  BY SizeAssumption DEF PoolInv, Sound, Apart, Marks
<1>2. /\ 0 \in DOMAIN o /\ o[Blocks] = Tag(0, TRUE) /\ o[Blocks].used
      /\ DOMAIN e = DOMAIN o /\ e[0].used
  <2>1. o[Blocks] = Fence /\ e[0] = Fence /\ 0 \in DOMAIN e
    BY <1>1 DEF Apart
  <2> QED
    BY <2>1, <1>1, FenceIs DEF Fence
<1>3. ASSUME NEW c \in Chunks
      PROVE  LET end == c + o[c].size
             IN /\ o[c].size >= MIN_CHUNK
                /\ end \in DOMAIN o /\ e[end] = o[c]
                /\ (c + 1)..(end - 1) \cap DOMAIN o = {}
                /\ o[c].used \/ o[end].used
  <2> DEFINE end == c + o[c].size
  <2>1. Ahead(o, e, Blocks, 0, c)
    BY <1>1 DEF Apart, Chunks
  <2>2. /\ o[c].size >= 2 /\ end \in DOMAIN o /\ e[end] = o[c]
        /\ \A t \in DOMAIN o : t <= c \/ t >= end
        /\ o[c].used \/ end = Blocks \/ o[end].used
    BY <2>1, <1>1 DEF Ahead
  <2>3. \A t \in DOMAIN o : t \in Nat
    BY <1>1, ApartFacts
  <2>4. c \in Nat /\ end \in Nat
    BY <2>2, <2>3 DEF Chunks
  <2>5. (c + 1)..(end - 1) \cap DOMAIN o = {}
    <3> HIDE DEF end
    <3> QED
      BY <2>2, <2>3, <2>4
  <2> QED
    BY <2>2, <2>5, <1>2 DEF MIN_CHUNK
<1>4. DOMAIN owned = Chunks \ FreeChunks
  BY DEF PoolInv, Useds, Chunks, FreeChunks
<1>5. \A c \in DOMAIN owned : owned[c] + HEADER <= ALIGN * o[c].size
  BY DEF PoolInv
<1> QED
  BY <1>2, <1>3, <1>4, <1>5 DEF Tiled

(* The invariant implies that the lists are exact. *)
LEMMA InvLists == PoolInv => ListsExact
<1> SUFFICES ASSUME PoolInv PROVE ListsExact
  OBVIOUS
<1> DEFINE o == pool.own
           listed == [bin \in pool.binmap |-> ToSet(pool.free[bin])]
<1>1. FreeChunks = Frees(o, Blocks)
  BY DEF FreeChunks, Chunks, Frees
<1>2. Listed(pool.free, pool.binmap, o, FreeChunks)
  BY <1>1 DEF PoolInv, Sound
<1>3. /\ pool.binmap = {bin \in Bin : pool.free[bin] # <<>>}
      /\ \A bin \in Bin : Exact(pool.free[bin], bin, o, FreeChunks)
      /\ FreeChunks \subseteq Nat /\ \A c \in FreeChunks : o[c].size \in Nat
  BY <1>2 DEF Listed
<1>4. \A bin \in pool.binmap :
         /\ pool.free[bin] \in Seq(Nat) /\ Exact(pool.free[bin], bin, o, FreeChunks)
         /\ listed[bin] = {pool.free[bin][i] : i \in 1..Len(pool.free[bin])}
  <2> SUFFICES ASSUME NEW bin \in pool.binmap
               PROVE  /\ pool.free[bin] \in Seq(Nat) /\ Exact(pool.free[bin], bin, o, FreeChunks)
                      /\ listed[bin] = {pool.free[bin][i] : i \in 1..Len(pool.free[bin])}
    OBVIOUS
  <2>1. Exact(pool.free[bin], bin, o, FreeChunks)
    BY <1>3
  <2>2. pool.free[bin] \in Seq(Nat)
    BY <2>1 DEF Exact
  <2>3. listed[bin] = ToSet(pool.free[bin])
    OBVIOUS
  <2>4. DOMAIN pool.free[bin] = 1..Len(pool.free[bin])
    BY <2>2
  <2> HIDE DEF listed
  <2> QED
    BY <2>1, <2>2, <2>3, <2>4 DEF ToSet
<1> HIDE DEF o, listed
<1>5. DOMAIN listed = pool.binmap
  BY DEF listed
<1>6. UNION {listed[bin] : bin \in pool.binmap} = FreeChunks
  <2>1. ASSUME NEW bin \in pool.binmap, NEW c \in listed[bin] PROVE c \in FreeChunks
    BY <1>4 DEF Exact
  <2>2. ASSUME NEW c \in FreeChunks PROVE \E bin \in pool.binmap : c \in listed[bin]
    <3> DEFINE bin == BinOf(o, c)
    <3>1. PICK i \in 1..Len(pool.free[bin]) : pool.free[bin][i] = c
      BY <1>2 DEF Listed
    <3>2. bin \in Bin
      BY <1>2, BinOfIs
    <3> HIDE DEF bin
    <3>3. pool.free[bin] # <<>>
      <4>1. pool.free[bin] \in Seq(Nat)
        BY <3>2, <1>3 DEF Exact
      <4> QED
        BY <4>1, <3>1
    <3> QED
      BY <3>1, <3>2, <3>3, <1>3, <1>4
  <2> QED
    BY <2>1, <2>2
<1>7. ASSUME NEW bin \in pool.binmap
      PROVE  LET list == pool.free[bin]
             IN /\ \A c \in listed[bin] : BinIndex(o[c].size) = bin
                /\ Len(list) = Cardinality(listed[bin])
                /\ \A i \in 2..Len(list) : o[list[i - 1]].size >= o[list[i]].size
  <2> DEFINE list == pool.free[bin]
  <2>1. /\ list \in Seq(Nat) /\ Exact(list, bin, o, FreeChunks) /\ Len(list) \in Nat
        /\ listed[bin] = {list[i] : i \in 1..Len(list)}
    BY <1>4
  <2>2. \A c \in listed[bin] : BinIndex(o[c].size) = bin
    BY <2>1 DEF Exact, BinOf
  <2>3. \A i, j \in 1..Len(list) : i < j => list[i] # list[j] /\ o[list[i]].size >= o[list[j]].size
    BY <2>1 DEF Exact
  <2> HIDE DEF list
  <2>4. Len(list) = Cardinality(listed[bin])
    <3> DEFINE f == [i \in 1..Len(list) |-> list[i]]
    <3>1. f \in Bijection(1..Len(list), listed[bin])
      <4>1. f \in [1..Len(list) -> listed[bin]]
        BY <2>1
      <4>2. \A i, j \in 1..Len(list) : f[i] = f[j] => i = j
        <5> SUFFICES ASSUME NEW i \in 1..Len(list), NEW j \in 1..Len(list), list[i] = list[j]
                     PROVE  i = j
          OBVIOUS
        <5>1. ~(i < j) /\ ~(j < i)
          BY <2>3
        <5> QED
          BY <5>1, <2>1
      <4>3. \A c \in listed[bin] : \E i \in 1..Len(list) : f[i] = c
        BY <2>1
      <4> HIDE DEF f
      <4> QED
        BY <4>1, <4>2, <4>3, ZenonT(30) DEF Bijection, Injection, Surjection, IsInjective
    <3>2. ExistsBijection(1..Len(list), listed[bin])
      BY <3>1 DEF ExistsBijection
    <3> QED
      BY <3>2, <2>1, FS_CountingElements
  <2>5. \A i \in 2..Len(list) : o[list[i - 1]].size >= o[list[i]].size
    <3> SUFFICES ASSUME NEW i \in 2..Len(list) PROVE o[list[i - 1]].size >= o[list[i]].size
      OBVIOUS
    <3>1. i - 1 \in 1..Len(list) /\ i \in 1..Len(list) /\ i - 1 < i
      BY <2>1
    <3> QED
      BY <3>1, <2>3
  <2> QED
    BY <2>2, <2>4, <2>5 DEF list
<1> QED
  BY <1>3, <1>6, <1>7 DEF ListsExact, listed, o

(* The invariant implies that the best fit is found. *)
LEMMA InvFits == PoolInv => BestFit
<1> SUFFICES ASSUME PoolInv, NEW bytes \in Requests
             PROVE  LET need == RequestToSize(bytes)
                        fitting == {c \in FreeChunks : pool.own[c].size >= need}
                        chunk == FindFit(pool, need)
                    IN IF fitting = {} THEN chunk = NIL
                       ELSE chunk \in fitting /\ \A c \in fitting : pool.own[chunk].size <= pool.own[c].size
  BY DEF BestFit
<1> DEFINE need == RequestToSize(bytes)
           fitting == {c \in FreeChunks : pool.own[c].size >= need}
           chunk == FindFit(pool, need)
<1>1. need \in Nat
  BY NeedIs
<1>2. FreeChunks = Frees(pool.own, Blocks)
  BY DEF FreeChunks, Chunks, Frees
<1> HIDE DEF need
<1>3. Best(pool, need, chunk)
  BY <1>1, FindFitIs DEF PoolInv
<1> HIDE DEF chunk
<1>4. fitting = {c \in Frees(pool.own, Blocks) : Fits(pool, need, c)}
  BY <1>2 DEF Fits
<1> HIDE DEF fitting
<1>5. IF fitting = {} THEN chunk = NIL
      ELSE chunk \in fitting /\ \A c \in fitting : pool.own[chunk].size <= pool.own[c].size
  BY <1>3, <1>4 DEF Best, Fits
<1> QED
  BY <1>5 DEF fitting, chunk, need

(* After any sequence of calls the arena is tiled, every free chunk can be *)
(* found again, and the one found is the best. *)
THEOREM PoolStaysWellFormed == Spec => []PoolWellFormed
<1>1. PoolInv => PoolWellFormed
  BY InvTiles, InvLists, InvFits DEF PoolWellFormed
<1> QED
  BY InvAtFirst, InvKept, <1>1, PTL DEF Spec

-----------------------------------------------------------------------------
(* The pool implements Arena.                                              *)

(* The region of each chunk in use. *)
Held(o, own) == [c \in DOMAIN own |-> o[c].size]

(* A free chunk is a whole gap. *)
LEMMA GapAt ==
    ASSUME PoolInv, NEW c \in Frees(pool.own, Blocks)
    PROVE  [at |-> c, size |-> pool.own[c].size] \in Regions!Gaps(Held(pool.own, owned))
<1> DEFINE o == pool.own
           e == pool.prev
           h == Held(o, owned)
           end == c + o[c].size
           gap == [at |-> c, size |-> o[c].size]
           from == {0} \cup {at + h[at] : at \in DOMAIN h}
           to == {Blocks} \cup DOMAIN h
<1>1. /\ Apart(o, e, Blocks, 0) /\ Marks(o, Blocks) = DOMAIN o /\ DOMAIN e = DOMAIN o
      /\ c \in DOMAIN o \ {Blocks} /\ ~o[c].used
  BY SizeAssumption DEF PoolInv, Sound, Apart, Marks, Frees
<1>2. DOMAIN h = {d \in DOMAIN o \ {Blocks} : o[d].used} /\ \A d \in DOMAIN h : h[d] = o[d].size
  BY DEF PoolInv, Useds, Held
<1>3. /\ \A t \in DOMAIN o : t \in Nat /\ o[t].size \in Nat
      /\ \A t \in DOMAIN e : e[t].size \in Nat
  BY <1>1, ApartFacts
<1> HIDE DEF h
<1>4. ASSUME NEW d \in DOMAIN o \ {Blocks}
      PROVE  /\ o[d].size >= 2 /\ d + o[d].size \in DOMAIN o
             /\ \A t \in DOMAIN o : t <= d \/ t >= d + o[d].size
             /\ o[d].used \/ d + o[d].size = Blocks \/ o[d + o[d].size].used
  <2>1. Ahead(o, e, Blocks, 0, d)
    BY <1>1 DEF Apart
  <2> QED
    BY <2>1, <1>1 DEF Ahead
<1>5. end \in to
  <2>1. end \in DOMAIN o /\ (end = Blocks \/ o[end].used)
    BY <1>1, <1>4
  <2> HIDE DEF end
  <2> QED
    BY <2>1, <1>2
<1>6. c \in from
  <2>1. CASE c = 0
    BY <2>1
  <2>2. CASE c # 0
    <3> DEFINE d == c - e[c].size
    <3>1. Behind(o, e, Blocks, 0, c)
      BY <2>2, <1>1 DEF Apart
    <3>2. d \in DOMAIN o \ {Blocks} /\ o[d] = e[c]
      BY <3>1, <1>1 DEF Behind
    <3>3. d + o[d].size = c
      BY <3>2, <1>1, <1>3
    <3> HIDE DEF d
    <3>4. d \in DOMAIN h
      BY <3>2, <3>3, <1>1, <1>2, <1>4
    <3> QED
      BY <3>3, <3>4, <1>2
  <2> QED
    BY <2>1, <2>2
<1>7. o[c].size = end - c /\ o[c].size > 0 /\ c \in Nat /\ end \in Nat
  BY <1>1, <1>3, <1>4
<1>8. \A at \in DOMAIN h : at + h[at] <= c \/ c + o[c].size <= at
  <2> SUFFICES ASSUME NEW d \in DOMAIN h PROVE d + h[d] <= c \/ c + o[c].size <= d
    OBVIOUS
  <2>1. d \in DOMAIN o \ {Blocks} /\ h[d] = o[d].size /\ d # c
    BY <1>1, <1>2
  <2>2. (c <= d \/ c >= d + o[d].size) /\ (d <= c \/ d >= c + o[c].size)
    BY <2>1, <1>1, <1>4
  <2>3. d \in Nat /\ o[d].size \in Nat /\ c \in Nat /\ o[c].size \in Nat
    BY <2>1, <1>1, <1>3
  <2> QED
    BY <2>1, <2>2, <2>3
<1> HIDE DEF end, from, to
<1>9. /\ gap \in {[at |-> a, size |-> b - a] : a \in from, b \in to}
      /\ gap.size > 0
      /\ \A at \in DOMAIN h : at + h[at] <= gap.at \/ gap.at + gap.size <= at
  <2>1. gap = [at |-> c, size |-> end - c] /\ gap.at = c /\ gap.size = o[c].size
    BY <1>7
  <2> QED
    BY <2>1, <1>5, <1>6, <1>7, <1>8
<1> HIDE DEF gap
<1>10. gap \in Regions!Gaps(h)
  BY <1>9 DEF Regions!Gaps, from, to
<1> QED
  BY <1>10 DEF gap, h

(* The regions after a step that hands out c and leaves those in S. *)
HandsOut(h, S, c, o, p, own) ==
    /\ DOMAIN own = S \cup {c} /\ Keeps(o, S, p) /\ c \notin S
    /\ DOMAIN h = S \/ DOMAIN h = S \cup {c}
    /\ \A d \in S : h[d] = o[d].size
Gets(k, h, c, size) == k = [d \in DOMAIN h \cup {c} |-> IF d = c THEN size ELSE h[d]]
(* The regions then are those before and c's. *)
LEMMA HeldAfter ==
    ASSUME NEW h, NEW S, NEW c, NEW o, NEW p, NEW own, HandsOut(h, S, c, o, p, own)
    PROVE  Gets(Held(p, own), h, c, p[c].size)
  BY DEF HandsOut, Held, Keeps, Gets

(* What Arena keeps of a gap is what split_tail keeps of a chunk. *)
LEMMA TrimIs ==
    ASSUME NEW total, NEW need
    PROVE  Regions!Trim(total, need) = Trimmed(total, need)
  BY DEF Regions!Trim, Trimmed

(* The regions of the mapping. *)
LEMMA HeldIs ==
    ASSUME PoolInv
    PROVE  /\ DOMAIN Held(pool.own, owned) = DOMAIN owned
           /\ \A d \in DOMAIN owned : Held(pool.own, owned)[d] = pool.own[d].size
  BY DEF Held

(* Alloc takes the start of a gap that holds the need. *)
LEMMA AllocArena ==
    ASSUME PoolInv, NEW bytes \in Requests, Alloc(bytes)
    PROVE  \E gap \in Regions!Gaps(Held(pool.own, owned)) :
              /\ gap.size >= RequestToSize(bytes)
              /\ Held(pool'.own, owned') = Regions!Holds(Held(pool.own, owned), gap.at,
                                                         Regions!Trim(gap.size, RequestToSize(bytes)))
<1> DEFINE need == RequestToSize(bytes)
           c == FindFit(pool, need)
           h == Held(pool.own, owned)
           gap == [at |-> c, size |-> pool.own[c].size]
<1>1. /\ c \in Frees(pool.own, Blocks) /\ pool.own[c].size >= need
      /\ DOMAIN owned' = DOMAIN owned \cup {c} /\ Keeps(pool.own, DOMAIN owned, pool'.own)
      /\ pool'.own[c].size = Trimmed(pool.own[c].size, need)
  BY AllocIs
<1>2. c \notin DOMAIN owned
  BY <1>1 DEF PoolInv, Frees, Useds
<1>3. gap \in Regions!Gaps(h)
  <2> HIDE DEF c
  <2> QED
    BY <1>1, GapAt
<1>4. DOMAIN h = DOMAIN owned /\ \A d \in DOMAIN owned : h[d] = pool.own[d].size
  BY HeldIs
<1> HIDE DEF c, h
<1>5. Held(pool'.own, owned') = Regions!Holds(h, c, pool'.own[c].size)
  <2>1. HandsOut(h, DOMAIN owned, c, pool.own, pool'.own, owned')
    BY <1>1, <1>2, <1>4 DEF HandsOut
  <2>2. Gets(Held(pool'.own, owned'), h, c, pool'.own[c].size)
    BY <2>1, HeldAfter, Zenon
  <2> QED
    BY <2>2, Zenon DEF Gets, Regions!Holds
<1>6. gap.at = c /\ gap.size = pool.own[c].size
  OBVIOUS
<1> HIDE DEF gap
<1>7. Regions!Trim(gap.size, need) = pool'.own[c].size
  BY <1>1, <1>6, TrimIs
<1> HIDE DEF need
<1>8. gap.size >= need /\ Held(pool'.own, owned') = Regions!Holds(h, gap.at, Regions!Trim(gap.size, need))
  BY <1>1, <1>5, <1>6, <1>7
<1> QED
  BY <1>3, <1>8 DEF h, need

(* Dealloc gives the region back and no other. *)
LEMMA DeallocArena ==
    ASSUME PoolInv, NEW c \in DOMAIN owned, Dealloc(c)
    PROVE  Held(pool'.own, owned') = Regions!Drop(Held(pool.own, owned), c)
<1>1. /\ c \in Useds(pool.own, Blocks) /\ Sound(pool, Blocks, 0) /\ DOMAIN owned = Useds(pool.own, Blocks)
      /\ pool' = FreeChunk(pool, c, pool.own[c].size) /\ owned' = Without(owned, {c})
  BY DEF PoolInv, Dealloc
<1>2. Returned(pool', pool, c)
  BY <1>1, FreedUsed
<1>3. Useds(pool.own, c) = Useds(pool.own, Blocks) \ {c}
  BY <1>1, UsedOpened
<1>4. DOMAIN owned' = DOMAIN owned \ {c}
  <2>1. Dropped(owned, c, owned')
    BY <1>1, DroppedIs
  <2> QED
    BY <2>1 DEF Dropped
<1>5. \A d \in DOMAIN owned' : pool'.own[d] = pool.own[d]
  BY <1>1, <1>2, <1>3, <1>4 DEF Returned, Keeps
<1> QED
  BY <1>4, <1>5 DEF Held, Regions!Drop

(* Resize shrinks the region or grows it into the gap behind. *)
LEMMA ResizeArena ==
    ASSUME PoolInv, NEW c \in DOMAIN owned, NEW bytes \in Requests, Resize(c, bytes)
    PROVE  LET need == RequestToSize(bytes)
               h == Held(pool.own, owned)
               k == Held(pool'.own, owned')
           IN  \/ need <= h[c] /\ k = Regions!Holds(h, c, Regions!Trim(h[c], need))
               \/ /\ need > h[c]
                  /\ \E gap \in Regions!Gaps(h) :
                        /\ gap.at = c + h[c]
                        /\ h[c] + gap.size >= need
                        /\ k = Regions!Holds(h, c, Regions!Trim(h[c] + gap.size, need))
<1> DEFINE need == RequestToSize(bytes)
           h == Held(pool.own, owned)
           k == Held(pool'.own, owned')
           size == pool.own[c].size
           next == c + size
           S == Useds(pool.own, c)
<1>1. /\ need <= size => Claimed(pool', pool, c, Trimmed(size, need))
      /\ need > size => /\ Claimed(pool', pool, c, Trimmed(Room(c), need))
                        /\ ~pool.own[next].used
      /\ need <= Room(c) /\ owned' = Put(owned, c, bytes)
  BY ResizedIs
<1>2. /\ Sound(pool, Blocks, 0) /\ c \in Useds(pool.own, Blocks)
      /\ need \in Nat /\ size \in Nat
      /\ ~pool.own[next].used => Room(c) = size + pool.own[next].size
  BY RoomIs, NeedIs DEF PoolInv
<1>3. S = DOMAIN owned \ {c} /\ c \in Nat /\ next \in Nat /\ c < next
  <2>1. DOMAIN owned = Useds(pool.own, Blocks)
    BY DEF PoolInv
  <2>2. S = Useds(pool.own, Blocks) \ {c} /\ c \in Nat /\ c + 2 <= next
    BY <1>2, UsedOpened
  <2> QED
    BY <2>1, <2>2, <1>2
<1>4. DOMAIN h = DOMAIN owned /\ \A d \in DOMAIN owned : h[d] = pool.own[d].size
  BY HeldIs
<1>5. DOMAIN owned' = S \cup {c}
  <2>1. Written(owned, c, bytes, owned')
    BY <1>1, WrittenIs
  <2> QED
    BY <2>1, <1>3 DEF Written
<1>6. ASSUME NEW t, Claimed(pool', pool, c, t) PROVE k = Regions!Holds(h, c, t)
  <2>1. Keeps(pool.own, S, pool'.own) /\ pool'.own[c].size = t
    BY <1>6 DEF Claimed
  <2> HIDE DEF S, h
  <2>2. HandsOut(h, S, c, pool.own, pool'.own, owned')
    BY <2>1, <1>3, <1>4, <1>5 DEF HandsOut
  <2>3. Held(pool'.own, owned') = Regions!Holds(h, c, pool'.own[c].size)
    <3>1. Gets(Held(pool'.own, owned'), h, c, pool'.own[c].size)
      BY <2>2, HeldAfter, Zenon
    <3> QED
      BY <3>1, Zenon DEF Gets, Regions!Holds
  <2> QED
    BY <2>1, <2>3
<1> HIDE DEF need, h, k, S
<1>7. CASE need <= size
  BY <1>1, <1>4, <1>6, <1>7, TrimIs DEF need, h, k
<1>8. CASE need > size
  <2> DEFINE gap == [at |-> next, size |-> pool.own[next].size]
  <2>1. gap \in Regions!Gaps(h) /\ gap.at = next /\ gap.size = pool.own[next].size
    <3>1. next \in Frees(pool.own, Blocks)
      BY <1>1, <1>2, <1>8, AbsorbedIs
    <3> HIDE DEF next
    <3>2. gap \in Regions!Gaps(h)
      BY <3>1, GapAt DEF h
    <3> QED
      BY <3>2
  <2> HIDE DEF gap, next
  <2>2. h[c] = size /\ Room(c) = h[c] + gap.size /\ gap.at = c + h[c]
    BY <2>1, <1>1, <1>2, <1>4, <1>8 DEF next
  <2>3. k = Regions!Holds(h, c, Regions!Trim(h[c] + gap.size, need))
    BY <2>2, <1>1, <1>6, <1>8, TrimIs
  <2>4. need > h[c] /\ h[c] + gap.size >= need
    BY <2>2, <1>1, <1>2, <1>8
  <2> QED
    BY <2>1, <2>2, <2>3, <2>4 DEF need, h, k
<1> QED
  BY <1>2, <1>7, <1>8

(* Relocate gives the region back and takes a gap that was one before. *)
LEMMA RelocateArena ==
    ASSUME PoolInv, NEW c \in DOMAIN owned, NEW bytes \in Requests, Relocate(c, bytes)
    PROVE  LET need == RequestToSize(bytes)
               h == Held(pool.own, owned)
           IN  /\ need > h[c]
               /\ \E gap \in Regions!Gaps(h) :
                     /\ gap.size >= need
                     /\ Held(pool'.own, owned') =
                           Regions!Holds(Regions!Drop(h, c), gap.at, Regions!Trim(gap.size, need))
<1> DEFINE need == RequestToSize(bytes)
           h == Held(pool.own, owned)
           g == Regions!Drop(h, c)
           fresh == FindFit(pool, need)
           S == DOMAIN owned \ {c}
           gap == [at |-> fresh, size |-> pool.own[fresh].size]
<1>1. /\ fresh \in Frees(pool.own, Blocks) /\ pool.own[fresh].size >= need
      /\ Sound(pool', Blocks, 0) /\ Useds(pool'.own, Blocks) = S \cup {fresh}
      /\ Keeps(pool.own, S, pool'.own)
      /\ pool'.own[fresh].size = Trimmed(pool.own[fresh].size, need)
      /\ owned' = Put(Without(owned, {c}), fresh, bytes) /\ need > Room(c)
  BY RelocatedIs
<1>2. fresh \notin DOMAIN owned
  <2> HIDE DEF fresh
  <2> QED
    BY <1>1 DEF PoolInv, Frees, Useds
<1>3. gap \in Regions!Gaps(h)
  <2> HIDE DEF fresh
  <2> QED
    BY <1>1, GapAt
<1>4. DOMAIN h = DOMAIN owned /\ \A d \in DOMAIN owned : h[d] = pool.own[d].size
  BY HeldIs
<1>5. need > h[c]
  <2>1. Sound(pool, Blocks, 0) /\ need \in Nat /\ pool.own[c].size \in Nat /\ Room(c) \in Nat
    BY NeedIs, RoomIs DEF PoolInv
  <2>2. Room(c) >= pool.own[c].size
    <3> DEFINE next == c + pool.own[c].size
    <3>1. pool.own[next].used => Room(c) = pool.own[c].size
      BY RoomIs
    <3>2. ~pool.own[next].used => Room(c) = pool.own[c].size + pool.own[next].size
      BY RoomIs
    <3>3. ~pool.own[next].used => pool.own[next].size \in Nat
      <4>1. c \in Useds(pool.own, Blocks)
        BY RoomIs
      <4>2. ~pool.own[next].used => next \in Frees(pool.own, Blocks)
        BY <4>1, <2>1, AbsorbedIs
      <4> HIDE DEF next
      <4> QED
        BY <4>2, ApartFacts DEF PoolInv, Sound, Frees
    <3> HIDE DEF next
    <3> QED
      BY <3>1, <3>2, <3>3, <2>1
  <2> QED
    BY <2>1, <2>2, <1>1, <1>4
<1> HIDE DEF fresh, h
<1>6. DOMAIN g = S /\ \A d \in S : g[d] = pool.own[d].size
  BY <1>4 DEF Regions!Drop
<1>7. DOMAIN owned' = S \cup {fresh}
  <2>1. Dropped(owned, c, Without(owned, {c}))
    BY DroppedIs
  <2>2. Written(Without(owned, {c}), fresh, bytes, owned')
    BY <1>1, WrittenIs
  <2> QED
    BY <2>1, <2>2 DEF Written, Dropped
<1> HIDE DEF S, g
<1>8. Held(pool'.own, owned') = Regions!Holds(g, fresh, pool'.own[fresh].size)
  <2>1. fresh \notin S
    BY <1>2 DEF S
  <2>2. HandsOut(g, S, fresh, pool.own, pool'.own, owned')
    BY <2>1, <1>1, <1>6, <1>7 DEF HandsOut
  <2>3. Gets(Held(pool'.own, owned'), g, fresh, pool'.own[fresh].size)
    BY <2>2, HeldAfter, Zenon
  <2> QED
    BY <2>3, Zenon DEF Gets, Regions!Holds
<1>9. gap.at = fresh /\ gap.size = pool.own[fresh].size
  OBVIOUS
<1> HIDE DEF gap, need
<1>10. Regions!Trim(gap.size, need) = pool'.own[fresh].size /\ gap.size >= need
  BY <1>1, <1>9, TrimIs
<1>11. Held(pool'.own, owned') = Regions!Holds(g, gap.at, Regions!Trim(gap.size, need))
  BY <1>8, <1>9, <1>10
<1> QED
  BY <1>3, <1>5, <1>10, <1>11 DEF g, h, need

-----------------------------------------------------------------------------
(* The pool implements Arena: regions are disjoint, gaps are whole, and a  *)
(* region that is resized stays or moves as Arena says.                    *)
THEOREM PoolImplementsArena == Spec => ImplementsArena
<1>1. Init => Regions!Init
  BY DEF Init, Regions!Init
<1>2. PoolInv /\ [Next]_vars => [Regions!Next]_(Held(pool.own, owned))
  <2> SUFFICES ASSUME PoolInv, [Next]_vars
               PROVE  Regions!Next \/ Held(pool'.own, owned') = Held(pool.own, owned)
    OBVIOUS
  <2> DEFINE Needs == {RequestToSize(bytes) : bytes \in Requests}
  <2>1. CASE UNCHANGED vars
    BY <2>1 DEF vars, Held
  <2>2. ASSUME NEW bytes \in Requests, Alloc(bytes) PROVE Regions!Next
    <3>1. Regions!Alloc(RequestToSize(bytes))
      BY <2>2, AllocArena DEF Regions!Alloc, Held
    <3> QED
      BY <3>1 DEF Regions!Next
  <2>3. ASSUME NEW c \in DOMAIN owned, Dealloc(c) PROVE Regions!Next
    <3>1. Regions!Dealloc(c)
      BY <2>3, DeallocArena DEF Regions!Dealloc, Held
    <3> QED
      BY <3>1 DEF Regions!Next
  <2>4. ASSUME NEW c \in DOMAIN owned, NEW bytes \in Requests, Resize(c, bytes) PROVE Regions!Next
    <3>1. Regions!Shrink(c, RequestToSize(bytes)) \/ Regions!Grow(c, RequestToSize(bytes))
      BY <2>4, ResizeArena DEF Regions!Shrink, Regions!Grow, Held
    <3> QED
      BY <3>1 DEF Regions!Next
  <2>5. ASSUME NEW c \in DOMAIN owned, NEW bytes \in Requests, Relocate(c, bytes) PROVE Regions!Next
    <3>1. Regions!Relocate(c, RequestToSize(bytes))
      BY <2>5, RelocateArena DEF Regions!Relocate, Held
    <3> QED
      BY <3>1 DEF Regions!Next
  <2> QED
    BY <2>1, <2>2, <2>3, <2>4, <2>5 DEF Next
<1> QED
  BY InvAtFirst, InvKept, <1>1, <1>2, PTL DEF Spec, ImplementsArena, Regions!Spec, Held
=============================================================================
