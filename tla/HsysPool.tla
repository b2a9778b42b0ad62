------------------------------- MODULE HsysPool -------------------------------
(***************************************************************************)
(* The buffer pool (hsys_pool.cpp): one static arena carved into size      *)
(* classes, one free list (an array used as a stack) per class.  A block   *)
(* is its offset in s_backing_arena.  Allocation and release each run in   *)
(* one critical section, so each is one step.                              *)
(***************************************************************************)
EXTENDS Naturals, FiniteSets

CONSTANTS
  NumClasses,  \* s_class_count
  Size,        \* [1..NumClasses -> Nat]: block_size, ascending
  Count,       \* [1..NumClasses -> Nat]: block_count
  ArenaBytes,  \* HSYS_POOL_MAX_BYTES
  ArenaSlots,  \* HSYS_POOL_MAX_BLOCKS
  Requests,    \* payload sizes the clients ask for
  Null         \* nullptr

Classes == 1..NumClasses

\* The carving loop of hsys_pool_init: storage of each class, and one past the end.
Base[c \in 1..(NumClasses + 1)] ==
  IF c = 1 THEN 0 ELSE Base[c - 1] + Size[c - 1] * Count[c - 1]

Storage(c) == Base[c]
End(c) == Storage(c) + Size[c] * Count[c]

\* The slots of s_freelist_arena that belong to a class, and all of them.
SlotsOf(c) == {c} \X (0..(Count[c] - 1))
Slots == UNION {SlotsOf(c) : c \in Classes}

\* The block a slot of the free list holds at first: backing + b * block_size.
Address(s) == Storage(s[1]) + s[2] * Size[s[1]]
Blocks == {Address(s) : s \in Slots}

\* Variant of InClass: the end of a class taken for a part of it.
InClassInclusive(p, c) == Storage(c) <= p /\ p <= End(c)

\* The address range test of hsys_pool_free.
InClass(p, c) == Storage(c) <= p /\ p < End(c)
BlocksOf(c) == {p \in Blocks : InClass(p, c)}
ClassOf(p) == CHOOSE c \in Classes : InClass(p, c)

(***************************************************************************)
(* The class table is ascending, as hsys_pool.h asks, and passed the two   *)
(* limit checks of hsys_pool_init.  The last conjunct is what the carving  *)
(* computes: the classes lie one after the other.                          *)
(***************************************************************************)
ASSUME PoolAssumption ==
  /\ NumClasses \in Nat \ {0}
  /\ Size \in [Classes -> Nat \ {0}]
  /\ Count \in [Classes -> Nat]
  /\ \A c, d \in Classes : c < d => Size[c] < Size[d]
  /\ Requests \subseteq Nat \ {0}
  /\ ArenaBytes \in Nat
  /\ Null \notin Blocks
  /\ End(NumClasses) <= ArenaBytes
  /\ Cardinality(Slots) <= ArenaSlots
  /\ \A c \in Classes : Storage(c) \in Nat
  /\ \A c, d \in Classes : c < d => End(c) <= Storage(d)

VARIABLES
  fl,     \* [Slots -> Blocks]: s_freelist_arena, stale entries included
  cnt,    \* [Classes -> Nat]: free_count
  peak,   \* [Classes -> Nat]: peak_used
  lent,   \* history: bytes asked for, for each block; 0 while in the pool
  ret     \* what the last hsys_pool_alloc returned

poolVars == <<fl, cnt, peak, lent, ret>>

PoolInit ==
  /\ fl = [s \in Slots |-> Address(s)]
  /\ cnt = Count
  /\ peak = [c \in Classes |-> 0]
  /\ lent = [p \in Blocks |-> 0]
  /\ ret = Null

\* Variants of Candidates: a block one byte short, or no spill to a larger class.
CandidatesShort(n)  == {c \in Classes : Size[c] + 1 >= n /\ cnt[c] > 0}
CandidatesStrict(n) ==
  {c \in Classes : Size[c] >= n /\ cnt[c] > 0 /\ \A d \in Classes : d < c => Size[d] < n}

\* The classes the search of hsys_pool_alloc stops at.
Candidates(n) == {c \in Classes : Size[c] >= n /\ cnt[c] > 0}

\* Variant of Max2: a watermark that keeps the least.
Min2(i, j) == IF i < j THEN i ELSE j

Max2(i, j) == IF i < j THEN j ELSE i

\* block = free_list[--free_count], from the first class that will do.
Alloc(n) ==
  \E c \in Candidates(n) :
    /\ \A d \in Candidates(n) : c <= d
    /\ cnt' = [cnt EXCEPT ![c] = @ - 1]
    /\ peak' = [peak EXCEPT ![c] = Max2(@, Count[c] - cnt'[c])]
    /\ ret' = fl[<<c, cnt[c] - 1>>]
    /\ lent' = [lent EXCEPT ![ret'] = n]
    /\ UNCHANGED fl

AllocFails(n) ==
  /\ Candidates(n) = {}
  /\ ret' = Null
  /\ UNCHANGED <<fl, cnt, peak, lent>>

\* free_list[free_count++] = ptr in the first class whose range holds ptr; a
\* class that is already full ignores it.
Give(p) ==
  /\ lent[p] > 0
  /\ \E c \in Classes :
       /\ InClass(p, c)
       /\ \A d \in Classes : InClass(p, d) => c <= d
       /\ \/ /\ cnt[c] < Count[c]
             /\ fl' = [fl EXCEPT ![<<c, cnt[c]>>] = p]
             /\ cnt' = [cnt EXCEPT ![c] = @ + 1]
          \/ cnt[c] >= Count[c] /\ UNCHANGED <<fl, cnt>>
  /\ lent' = [lent EXCEPT ![p] = 0]
  /\ UNCHANGED <<peak, ret>>

PoolNext == \/ \E n \in Requests : Alloc(n) \/ AllocFails(n)
        \/ \E p \in Blocks : Give(p)

PoolSpec == PoolInit /\ [][PoolNext]_poolVars

-----------------------------------------------------------------------------
(* Properties                                                              *)

\* The types of the pool state.
PoolTypeOK ==
  /\ fl \in [Slots -> Blocks]
  /\ cnt \in [Classes -> Nat] /\ \A c \in Classes : cnt[c] <= Count[c]
  /\ peak \in [Classes -> Nat] /\ \A c \in Classes : peak[c] <= Count[c]
  /\ lent \in [Blocks -> Requests \cup {0}]
  /\ ret \in Blocks \cup {Null}

Stacked(s) == s \in Slots /\ s[2] < cnt[s[1]]

\* Every block is either lent or on the free list of its own class, exactly once:
\* whatever the order of allocations and releases, none is lost or handed out twice.
NoBlockTwice ==
  /\ \A s \in Slots : Stacked(s) => InClass(fl[s], s[1]) /\ lent[fl[s]] = 0
  /\ \A s, r \in Slots : Stacked(s) /\ Stacked(r) /\ fl[s] = fl[r] => s = r
  /\ \A p \in Blocks : lent[p] = 0 => \E s \in Slots : Stacked(s) /\ fl[s] = p

\* No owner asked for more bytes than the blocks of the class hold.
Housed == \A p \in Blocks, c \in Classes : InClass(p, c) => lent[p] <= Size[c]

\* The bytes two owners may write never overlap, and stay inside the arena.
BuffersDisjoint ==
  /\ Housed
  /\ \A p, q \in Blocks : lent[p] > 0 /\ lent[q] > 0 =>
       /\ p + lent[p] <= ArenaBytes
       /\ p < q => p + lent[p] <= q

LentOf(c) == {p \in BlocksOf(c) : lent[p] > 0}

\* free_count is what is not lent, and the watermark never falls short of what is.
CountsExact ==
  \A c \in Classes : /\ cnt[c] + Cardinality(LentOf(c)) = Count[c]
                     /\ Cardinality(LentOf(c)) <= peak[c]

Capacity == [p \in Blocks |-> Size[ClassOf(p)]]

\* The pool does what hsys_pool.h promises: "the smallest available block that
\* fits", NULL only "if no suitable block is available".
Contract == INSTANCE HsysPoolSpec
Promise == Contract!Spec
=============================================================================
