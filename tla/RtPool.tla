------------------------------- MODULE RtPool -------------------------------
(***************************************************************************)
(* rt-alloc: the pool that the audio thread allocates from.  The arena is  *)
(* cut into chunks; each carries its own size and a copy of the size of    *)
(* the chunk before it, both with an in-use flag, so that a free chunk is  *)
(* merged with its neighbours on either side.  Free chunks are on the list *)
(* of their bin.                                                           *)
(*                                                                         *)
(* Sizes and places count blocks of ALIGN (64) bytes from PROLOGUE on: all *)
(* chunk sizes are multiples of it.  A list is a sequence; the next and    *)
(* prev links in the body of free chunks are not modelled one by one.      *)
(***************************************************************************)
EXTENDS Integers, SequencesExt, FiniteSets

CONSTANTS
    Blocks,    \* blocks between the fences
    Requests,  \* sizes asked for, in bytes
    MaxRegions,\* most regions handed out at a time (a bound of the model)
    NIL        \* no chunk

ASSUME SizeAssumption == Blocks \in Nat /\ Blocks >= 2 /\ Requests \subseteq Nat
ASSUME NilAssumption == NIL \notin Int

VARIABLES
    pool,      \* own, prev: tags by first block; free: the lists; binmap: the non-empty bins
    owned      \* the regions handed out: first block of the chunk -> payload bytes

vars == <<pool, owned>>

ALIGN == 64
HEADER == 16
MIN_CHUNK == 2
NUM_BINS == 128
NUM_SMALL_BINS == 64
Bin == 0..(NUM_BINS - 1)

(* request_to_size *)
RequestToSize(bytes) ==
    IF bytes + HEADER <= MIN_CHUNK * ALIGN THEN MIN_CHUNK
    ELSE (bytes + HEADER + ALIGN - 1) \div ALIGN

(* bin_index: classes of 16 bytes below 1024, then eight per power of two. *)
LeadingBit(n) == CHOOSE k \in 10..17 : 2^k <= n /\ n < 2^(k + 1)
BinIndex(size) ==
    LET bytes == size * ALIGN
        bits == LeadingBit(bytes) - 3
    IN IF bytes < 1024 THEN bytes \div 16
       ELSE IF bytes >= 262144 THEN NUM_BINS - 1
       ELSE 8 * bits + bytes \div 2^bits

-----------------------------------------------------------------------------
(* Tags and lists.                                                         *)

Tag(size, used) == [size |-> size, used |-> used]
Put(f, x, v) == [y \in DOMAIN f \cup {x} |-> IF y = x THEN v ELSE f[y]]
Without(f, S) == [x \in DOMAIN f \ S |-> f[x]]

(* Mutant: the copy behind the chunk is not written. *)
SetTagOwnOnly(p, at, size, used) ==
    [p EXCEPT !.own = Put(@, at, Tag(size, used)),
              !.prev = IF at + size \in DOMAIN @ THEN @ ELSE Put(@, at + size, Tag(size, used))]

(* set_free, set_in_use: the chunk's tag and its copy in the next chunk.   *)
SetTag(p, at, size, used) ==
    [p EXCEPT !.own = Put(@, at, Tag(size, used)),
              !.prev = Put(@, at + size, Tag(size, used))]

(* Mutant: always at the front of the list. *)
LinkFreeFirst(p, at) ==
    LET index == BinIndex(p.own[at].size)
    IN [p EXCEPT !.free[index] = <<at>> \o @, !.binmap = @ \cup {index}]

(* link_free: in front of a small bin's list, by falling size in a large   *)
(* bin's.                                                                  *)
LinkFree(p, at) ==
    LET size == p.own[at].size
        index == BinIndex(size)
        list == p.free[index]
        rank == IF index < NUM_SMALL_BINS THEN 1
                ELSE CHOOSE i \in 1..(Len(list) + 1) :
                        /\ i <= Len(list) => p.own[list[i]].size <= size
                        /\ \A j \in 1..(i - 1) : p.own[list[j]].size > size
    IN [p EXCEPT !.free[index] = InsertAt(list, rank, at), !.binmap = @ \cup {index}]

(* unlink_free *)
UnlinkFree(p, at) ==
    LET index == BinIndex(p.own[at].size)
        list == p.free[index]
        rest == RemoveAt(list, CHOOSE i \in DOMAIN list : list[i] = at)
    IN [p EXCEPT !.free[index] = rest,
                 !.binmap = IF rest = <<>> THEN @ \ {index} ELSE @]

(* free_chunk: merge with a free chunk on either side, then tag and link.  *)
(* The tags inside the merged chunk are forgotten: reading one afterwards  *)
(* would be an error here.                                                 *)
FreeChunk(p, chunk, size) ==
    LET before == p.prev[chunk]
        at == IF before.used THEN chunk ELSE chunk - before.size
        left == IF before.used THEN p ELSE UnlinkFree(p, at)
        next == chunk + size
        after == left.own[next]
        right == IF after.used THEN left ELSE UnlinkFree(left, next)
        end == IF after.used THEN next ELSE next + after.size
        inside == {chunk, next} \ {at, end}
    IN LinkFree(SetTag([right EXCEPT !.own = Without(@, inside), !.prev = Without(@, inside)],
                       at, end - at, FALSE), at)

(* split_tail: hand back what is beyond the need, unless too small for a   *)
(* chunk of its own.                                                       *)
SplitTail(p, chunk, total, need) ==
    IF total - need >= MIN_CHUNK
    THEN FreeChunk(SetTag(p, chunk, need, TRUE), chunk + need, total - need)
    ELSE SetTag(p, chunk, total, TRUE)

(* find_fit: in the first marked bin, from that of the size on, that has a *)
(* chunk large enough: the first of a small bin, and of a large bin the    *)
(* last before the sizes fall below the need.                              *)
FindFit(p, need) ==
    LET list(bin) == p.free[bin]
        fitting(bin) == {i \in DOMAIN list(bin) :
                            \A j \in 1..i : p.own[list(bin)[j]].size >= need}
        bins == {bin \in p.binmap : bin >= BinIndex(need) /\ fitting(bin) # {}}
        first == CHOOSE b \in bins : \A c \in bins : b <= c
        pick == IF first < NUM_SMALL_BINS THEN 1
                ELSE CHOOSE i \in fitting(first) : \A j \in fitting(first) : j <= i
    IN IF bins = {} THEN NIL ELSE list(first)[pick]

-----------------------------------------------------------------------------
(* The operations.                                                         *)

(* from_blocks, init: one free chunk between two fences that are in use.   *)
Init ==
    /\ pool = LinkFree(
                SetTag([own |-> [b \in {Blocks} |-> Tag(0, TRUE)],
                        prev |-> [b \in {0} |-> Tag(0, TRUE)],
                        free |-> [bin \in Bin |-> <<>>],
                        binmap |-> {}], 0, Blocks, FALSE), 0)
    /\ owned = [at \in {} |-> 0]

Carved(chunk, need) ==
    SplitTail(UnlinkFree(pool, chunk), chunk, pool.own[chunk].size, need)

Alloc(bytes) ==
    LET need == RequestToSize(bytes)
        chunk == FindFit(pool, need)
    IN /\ Cardinality(DOMAIN owned) < MaxRegions
       /\ chunk # NIL
       /\ pool' = Carved(chunk, need)
       /\ owned' = Put(owned, chunk, bytes)

Dealloc(chunk) ==
    /\ pool' = FreeChunk(pool, chunk, pool.own[chunk].size)
    /\ owned' = Without(owned, {chunk})

(* realloc: smaller in place, larger into a free next chunk, or by copying *)
(* to a fresh region; an exhausted pool leaves the region as it is.        *)
Room(chunk) ==
    LET size == pool.own[chunk].size
        next == pool.own[chunk + size]
    IN IF next.used THEN size ELSE size + next.size
Resize(chunk, bytes) ==
    LET need == RequestToSize(bytes)
        size == pool.own[chunk].size
        next == chunk + size
        absorbed == [UnlinkFree(pool, next) EXCEPT !.own = Without(@, {next}),
                                                   !.prev = Without(@, {next})]
    IN /\ need <= Room(chunk)
       /\ pool' = IF need <= size THEN SplitTail(pool, chunk, size, need)
                  ELSE SplitTail(absorbed, chunk, Room(chunk), need)
       /\ owned' = Put(owned, chunk, bytes)
Relocate(chunk, bytes) ==
    LET need == RequestToSize(bytes)
        fresh == FindFit(pool, need)
        carved == Carved(fresh, need)
    IN /\ need > Room(chunk) /\ fresh # NIL
       /\ pool' = FreeChunk(carved, chunk, carved.own[chunk].size)
       /\ owned' = Put(Without(owned, {chunk}), fresh, bytes)

Next ==
    \/ \E bytes \in Requests : Alloc(bytes)
    \/ \E chunk \in DOMAIN owned :
          Dealloc(chunk) \/ \E bytes \in Requests : Resize(chunk, bytes) \/ Relocate(chunk, bytes)

Spec == Init /\ [][Next]_vars

-----------------------------------------------------------------------------
(* Properties.                                                             *)

Chunks == DOMAIN pool.own \ {Blocks}
FreeChunks == {c \in Chunks : ~pool.own[c].used}

(* The chunks tile the arena and each tag has an equal copy behind it, so  *)
(* a chunk can be reached from either side; no two free chunks touch; and  *)
(* the chunks in use are exactly the regions handed out, each large enough *)
(* for its payload.                                                        *)
Tiled ==
    /\ 0 \in DOMAIN pool.own /\ pool.own[Blocks] = Tag(0, TRUE)
    /\ DOMAIN pool.prev = DOMAIN pool.own /\ pool.prev[0].used
    /\ \A c \in Chunks :
          LET end == c + pool.own[c].size
          IN /\ pool.own[c].size >= MIN_CHUNK
             /\ end \in DOMAIN pool.own /\ pool.prev[end] = pool.own[c]
             /\ (c + 1)..(end - 1) \cap DOMAIN pool.own = {}
             /\ pool.own[c].used \/ pool.own[end].used
    /\ DOMAIN owned = Chunks \ FreeChunks
    /\ \A c \in DOMAIN owned : owned[c] + HEADER <= ALIGN * pool.own[c].size

(* Each free chunk is once on the list of its bin and nowhere else, large  *)
(* bins are in falling order, and the marked bins are the non-empty ones.  *)
ListsExact ==
    LET listed == [bin \in pool.binmap |-> ToSet(pool.free[bin])]
    IN /\ pool.binmap = {bin \in Bin : pool.free[bin] # <<>>}
       /\ UNION {listed[bin] : bin \in pool.binmap} = FreeChunks
       /\ \A bin \in pool.binmap :
             LET list == pool.free[bin]
             IN /\ \A c \in listed[bin] : BinIndex(pool.own[c].size) = bin
                /\ Len(list) = Cardinality(listed[bin])
                /\ \A i \in 2..Len(list) :
                      pool.own[list[i - 1]].size >= pool.own[list[i]].size

(* A request is refused only when no free chunk holds it, and otherwise    *)
(* gets one of the smallest that do: best fit over bins and lists.         *)
BestFit ==
    \A bytes \in Requests :
        LET need == RequestToSize(bytes)
            fitting == {c \in FreeChunks : pool.own[c].size >= need}
            chunk == FindFit(pool, need)
        IN IF fitting = {} THEN chunk = NIL
           ELSE chunk \in fitting /\ \A c \in fitting : pool.own[chunk].size <= pool.own[c].size

(* After any sequence of calls the arena is tiled, every free chunk can be *)
(* found again, and the one found is the best.                             *)
PoolWellFormed == Tiled /\ ListsExact /\ BestFit

(* The pool implements Arena: regions are disjoint, gaps are whole, and a  *)
(* region that is resized stays or moves as Arena says.                    *)
Regions == INSTANCE Arena WITH
    Least <- MIN_CHUNK,
    Needs <- {RequestToSize(bytes) : bytes \in Requests},
    held <- [c \in DOMAIN owned |-> pool.own[c].size]
ImplementsArena == Regions!Spec
=============================================================================
