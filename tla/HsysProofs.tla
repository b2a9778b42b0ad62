----------------------------- MODULE HsysProofs -----------------------------
(***************************************************************************)
(* Proofs about two parts of the framework that stand on their own: the    *)
(* buffer pool (HsysPool) and the start-up barrier (HsysTaskMgr).          *)
(***************************************************************************)
EXTENDS HsysPool, HsysTaskMgr, FiniteSetTheorems, TLAPS

-----------------------------------------------------------------------------
(***************************************************************************)
(* The buffer pool, for every class table and every mix of requests: the   *)
(* invariants of HsysPool, and that it keeps its promise.                  *)
(***************************************************************************)

-----------------------------------------------------------------------------
(* Arithmetic of the carving                                               *)

\* The k-th block of a class ends within the class.
LEMMA BlockInside ==
  ASSUME NEW k \in Nat, NEW n \in Nat, NEW w \in Nat, k < n
  PROVE  k * w + w <= n * w
<1>1. PICK d \in Nat : n = k + 1 + d
  <2>1. n - (k + 1) \in Nat /\ n = k + 1 + (n - (k + 1))  OBVIOUS
  <2> QED  BY <2>1
<1>2. n * w = k * w + w + d * w  BY <1>1
<1>3. d * w \in Nat  BY <1>1
<1>4. k * w \in Nat  OBVIOUS
<1> QED  BY <1>2, <1>3, <1>4

\* A slot is a class and an index below the number of its blocks.
LEMMA SlotParts ==
  ASSUME NEW s
  PROVE  s \in Slots <=> /\ s = <<s[1], s[2]>>
                         /\ s[1] \in Classes
                         /\ s[2] \in 0..(Count[s[1]] - 1)
<1>1. ASSUME s \in Slots
      PROVE  s = <<s[1], s[2]>> /\ s[1] \in Classes /\ s[2] \in 0..(Count[s[1]] - 1)
  <2>1. PICK c \in Classes : s \in SlotsOf(c)  BY <1>1 DEF Slots
  <2> QED  BY <2>1 DEF SlotsOf
<1>2. ASSUME s = <<s[1], s[2]>>, s[1] \in Classes, s[2] \in 0..(Count[s[1]] - 1)
      PROVE  s \in Slots
  <2>1. s \in SlotsOf(s[1])  BY <1>2 DEF SlotsOf
  <2> QED  BY <1>2, <2>1 DEF Slots
<1> QED  BY <1>1, <1>2

\* A block lies in the range of the class it was carved for, and its bytes too.
LEMMA AddressRange ==
  ASSUME NEW s \in Slots
  PROVE  /\ Address(s) \in Nat
         /\ InClass(Address(s), s[1])
         /\ Address(s) + Size[s[1]] <= End(s[1])
<1>1. s[1] \in Classes /\ s[2] \in Nat /\ s[2] < Count[s[1]] /\ Count[s[1]] \in Nat
  BY SlotParts, PoolAssumption
<1>2. Size[s[1]] \in Nat \ {0} /\ Storage(s[1]) \in Nat  BY <1>1, PoolAssumption
<1>3. s[2] * Size[s[1]] + Size[s[1]] <= Count[s[1]] * Size[s[1]]  BY <1>1, <1>2, BlockInside
<1>4. s[2] * Size[s[1]] \in Nat /\ Count[s[1]] * Size[s[1]] \in Nat  BY <1>1, <1>2
<1>5. Count[s[1]] * Size[s[1]] = Size[s[1]] * Count[s[1]]  BY <1>1, <1>2
<1> QED  BY <1>2, <1>3, <1>4, <1>5 DEF Address, InClass, End

\* The range test of hsys_pool_free finds one class.
LEMMA OneClass ==
  ASSUME NEW p \in Nat, NEW c \in Classes, NEW d \in Classes, InClass(p, c), InClass(p, d)
  PROVE  c = d
<1>1. Storage(c) \in Nat /\ Storage(d) \in Nat /\ Classes \subseteq Nat
  BY PoolAssumption DEF Classes
<1>2. Size[c] * Count[c] \in Nat /\ Size[d] * Count[d] \in Nat  BY PoolAssumption
<1>3. ~(c < d)  BY <1>1, <1>2, PoolAssumption DEF InClass, End
<1>4. ~(d < c)  BY <1>1, <1>2, PoolAssumption DEF InClass, End
<1> QED  BY <1>1, <1>3, <1>4

\* Two slots of the initial free lists hold different blocks.
LEMMA AddressInjective ==
  ASSUME NEW s \in Slots, NEW r \in Slots, Address(s) = Address(r)
  PROVE  s = r
<1>1. s[1] = r[1]
  BY AddressRange, OneClass, SlotParts
<1>2. s[2] \in Nat /\ r[2] \in Nat /\ Size[s[1]] \in Nat \ {0} /\ Storage(s[1]) \in Nat
  BY SlotParts, PoolAssumption
<1>3. s[2] * Size[s[1]] = r[2] * Size[s[1]]
  <2>1. s[2] * Size[s[1]] \in Nat /\ r[2] * Size[s[1]] \in Nat  BY <1>2
  <2> QED  BY <1>1, <1>2, <2>1 DEF Address
<1>4. ASSUME NEW i \in Nat, NEW j \in Nat, NEW w \in Nat \ {0}, i < j  PROVE i * w # j * w
  <2>1. i * w + w <= j * w  BY <1>4, BlockInside
  <2>2. i * w \in Nat /\ j * w \in Nat  OBVIOUS
  <2> QED  BY <2>1, <2>2
<1>5. s[2] = r[2]
  <2>1. ASSUME NEW i \in Nat, NEW j \in Nat, NEW w \in Nat \ {0}, i * w = j * w  PROVE i = j
    <3>1. ~(i < j)  BY <1>4, <2>1
    <3>2. ~(j < i)  BY <1>4, <2>1
    <3> QED  BY <3>1, <3>2
  <2> QED  BY <1>2, <1>3, <2>1
<1> QED  BY <1>1, <1>5, SlotParts
-----------------------------------------------------------------------------
(* The invariant                                                           *)

PoolInv == PoolTypeOK /\ NoBlockTwice /\ CountsExact /\ Housed

\* A block is an address, and in the range of some class.
LEMMA BlockFacts ==
  /\ Blocks \subseteq Nat
  /\ \A s \in Slots : Address(s) \in Blocks
  /\ \A p \in Blocks : \E c \in Classes : InClass(p, c)
<1>1. \A s \in Slots : Address(s) \in Blocks  BY DEF Blocks
<1>2. ASSUME NEW p \in Blocks  PROVE p \in Nat /\ \E c \in Classes : InClass(p, c)
  <2>1. PICK s \in Slots : p = Address(s)  BY DEF Blocks
  <2> QED  BY <2>1, AddressRange, SlotParts
<1> QED  BY <1>1, <1>2

\* The arena is finite, so each class has finitely many blocks.
LEMMA FiniteClass ==
  ASSUME NEW c \in Classes
  PROVE  IsFiniteSet(BlocksOf(c))
<1>1. Storage(c) \in Nat /\ Size[c] * Count[c] \in Nat  BY PoolAssumption
<1>2. End(c) \in Nat  BY <1>1 DEF End
<1>3. IsFiniteSet(0..End(c))  BY <1>2, FS_Interval
<1>4. ASSUME NEW p \in BlocksOf(c)  PROVE p \in 0..End(c)
  <2>1. p \in Nat  BY BlockFacts DEF BlocksOf
  <2>2. p < End(c)  BY DEF BlocksOf, InClass
  <2> QED  BY <1>2, <2>1, <2>2
<1> QED  BY <1>3, <1>4, FS_Subset

\* hsys_pool_init establishes the invariant.
THEOREM PoolInitInv == PoolInit => PoolInv
<1> SUFFICES ASSUME PoolInit  PROVE PoolInv  OBVIOUS
<1> USE DEF PoolInit
<1>1. PoolTypeOK  BY PoolAssumption, BlockFacts DEF PoolTypeOK
<1>2. NoBlockTwice
  <2>1. \A s \in Slots : InClass(fl[s], s[1]) /\ lent[fl[s]] = 0
    BY AddressRange, BlockFacts
  <2>2. \A s, r \in Slots : fl[s] = fl[r] => s = r  BY AddressInjective
  <2>3. \A s \in Slots : Stacked(s)
    BY SlotParts, PoolAssumption DEF Stacked
  <2>4. \A p \in Blocks : \E s \in Slots : fl[s] = p  BY DEF Blocks
  <2> QED  BY <2>1, <2>2, <2>3, <2>4 DEF NoBlockTwice
<1>3. CountsExact
  <2> SUFFICES ASSUME NEW c \in Classes
               PROVE  /\ cnt[c] + Cardinality(LentOf(c)) = Count[c]
                      /\ Cardinality(LentOf(c)) <= peak[c]
    BY DEF CountsExact
  <2>1. LentOf(c) = {}  BY DEF LentOf, BlocksOf
  <2> QED  BY <2>1, FS_EmptySet, PoolAssumption
<1>4. Housed  BY PoolAssumption DEF Housed
<1> QED  BY <1>1, <1>2, <1>3, <1>4 DEF PoolInv

-----------------------------------------------------------------------------
(* Allocation                                                              *)

\* What the search of hsys_pool_alloc finds on top of the stack.
LEMMA TopOfStack ==
  ASSUME PoolInv, NEW c \in Classes, cnt[c] > 0
  PROVE  LET top == <<c, cnt[c] - 1>>
         IN /\ top \in Slots /\ Stacked(top)
            /\ fl[top] \in BlocksOf(c) /\ lent[fl[top]] = 0
<1> DEFINE top == <<c, cnt[c] - 1>>
<1>1. cnt[c] \in Nat /\ cnt[c] <= Count[c] /\ Count[c] \in Nat
  BY PoolAssumption DEF PoolInv, PoolTypeOK
<1>2. top[1] = c /\ top[2] = cnt[c] - 1 /\ top[2] \in 0..(Count[c] - 1)  BY <1>1
<1>3. top \in Slots  BY <1>2, SlotParts
<1>4. Stacked(top)  BY <1>1, <1>2, <1>3 DEF Stacked
<1>5. fl[top] \in Blocks  BY <1>3 DEF PoolInv, PoolTypeOK
<1> QED  BY <1>2, <1>3, <1>4, <1>5 DEF PoolInv, NoBlockTwice, BlocksOf

\* hsys_pool_alloc keeps the invariant.
LEMMA AllocKeeps ==
  ASSUME PoolInv, NEW n \in Requests, Alloc(n)
  PROVE  PoolInv'
<1> USE DEF PoolInv
<1>1. PICK c \in Candidates(n) :
        /\ \A d \in Candidates(n) : c <= d
        /\ cnt' = [cnt EXCEPT ![c] = @ - 1]
        /\ peak' = [peak EXCEPT ![c] = Max2(@, Count[c] - cnt'[c])]
        /\ ret' = fl[<<c, cnt[c] - 1>>]
        /\ lent' = [lent EXCEPT ![ret'] = n]
        /\ UNCHANGED fl
  BY DEF Alloc
<1> DEFINE top == <<c, cnt[c] - 1>>
           p == fl[top]
<1>2. c \in Classes /\ cnt[c] > 0  BY DEF Candidates
<1>3. top \in Slots /\ Stacked(top) /\ p \in BlocksOf(c) /\ lent[p] = 0
  BY <1>2, TopOfStack
<1>4. p \in Blocks /\ InClass(p, c)  BY <1>3 DEF BlocksOf
<1>5. n \in Nat /\ n > 0  BY PoolAssumption
<1>6. cnt[c] \in Nat /\ cnt[c] <= Count[c] /\ Count[c] \in Nat
      /\ peak[c] \in Nat /\ peak[c] <= Count[c]
  BY <1>2, PoolAssumption DEF PoolTypeOK
<1>7. lent' = [lent EXCEPT ![p] = n] /\ ret' = p  BY <1>1
<1>8. cnt'[c] = cnt[c] - 1 /\ \A d \in Classes : d # c => cnt'[d] = cnt[d]
  BY <1>1, <1>2 DEF PoolTypeOK
<1>9. \A q \in Blocks : lent'[q] = IF q = p THEN n ELSE lent[q]  BY <1>4, <1>7 DEF PoolTypeOK
<1>10. /\ peak'[c] \in Nat /\ peak'[c] >= peak[c]
       /\ peak'[c] >= Count[c] - cnt'[c] /\ peak'[c] <= Count[c]
  BY <1>1, <1>2, <1>6, <1>8 DEF PoolTypeOK, Max2
<1>11. PoolTypeOK'
  <2>1. cnt' \in [Classes -> Nat] /\ \A d \in Classes : cnt'[d] <= Count[d]
    BY <1>1, <1>2, <1>6, <1>8 DEF PoolTypeOK
  <2>2. peak' \in [Classes -> Nat] /\ \A d \in Classes : peak'[d] <= Count[d]
    BY <1>1, <1>2, <1>10 DEF PoolTypeOK
  <2>3. lent' \in [Blocks -> Requests \cup {0}]  BY <1>4, <1>7 DEF PoolTypeOK
  <2> QED  BY <1>1, <1>4, <1>7, <2>1, <2>2, <2>3 DEF PoolTypeOK
<1>12. \A s \in Slots : (Stacked(s))' <=> Stacked(s) /\ s # top
  <2> SUFFICES ASSUME NEW s \in Slots  PROVE (Stacked(s))' <=> Stacked(s) /\ s # top
    OBVIOUS
  <2>1. s = <<s[1], s[2]>> /\ s[1] \in Classes /\ s[2] \in Nat  BY SlotParts, PoolAssumption
  <2>2. CASE s[1] = c
    <3>1. (s[2] < cnt'[c]) <=> s[2] < cnt[c] /\ s[2] # cnt[c] - 1  BY <1>6, <1>8, <2>1
    <3> QED  BY <2>1, <2>2, <3>1 DEF Stacked
  <2>3. CASE s[1] # c
    BY <1>8, <2>1, <2>3 DEF Stacked
  <2> QED  BY <2>2, <2>3
<1>13. NoBlockTwice'
  <2>1. ASSUME NEW s \in Slots, (Stacked(s))'
        PROVE  InClass(fl'[s], s[1]) /\ lent'[fl'[s]] = 0
    <3>1. Stacked(s) /\ s # top /\ fl[s] # p
      BY <1>3, <1>12, <2>1 DEF NoBlockTwice
    <3>2. fl[s] \in Blocks  BY DEF PoolTypeOK
    <3> QED  BY <1>1, <1>9, <3>1, <3>2 DEF NoBlockTwice
  <2>2. ASSUME NEW s \in Slots, NEW r \in Slots, (Stacked(s))', (Stacked(r))', fl'[s] = fl'[r]
        PROVE  s = r
    BY <1>1, <1>12, <2>2 DEF NoBlockTwice
  <2>3. ASSUME NEW q \in Blocks, lent'[q] = 0
        PROVE  \E s \in Slots : (Stacked(s))' /\ fl'[s] = q
    <3>1. q # p /\ lent[q] = 0  BY <1>5, <1>9, <2>3
    <3>2. PICK s \in Slots : Stacked(s) /\ fl[s] = q  BY <3>1 DEF NoBlockTwice
    <3> QED  BY <1>1, <1>12, <3>1, <3>2
  <2> QED  BY <2>1, <2>2, <2>3 DEF NoBlockTwice, InClass, Storage, End
<1>14. CountsExact'
  <2> SUFFICES ASSUME NEW d \in Classes
               PROVE  /\ cnt'[d] + Cardinality(LentOf(d)') = Count[d]
                      /\ Cardinality(LentOf(d)') <= peak'[d]
    BY DEF CountsExact
  <2>1. IsFiniteSet(LentOf(d))  BY FiniteClass, FS_Subset DEF LentOf
  <2>2. CASE d = c
    <3>1. LentOf(c)' = LentOf(c) \cup {p} /\ p \notin LentOf(c)
      BY <1>3, <1>4, <1>5, <1>9 DEF LentOf, BlocksOf
    <3>2. Cardinality(LentOf(c)') = Cardinality(LentOf(c)) + 1
      BY <2>1, <2>2, <3>1, FS_AddElement
    <3>3. Cardinality(LentOf(c)) \in Nat  BY <2>1, <2>2, FS_CardinalityType
    <3> QED  BY <1>2, <1>6, <1>8, <1>10, <2>2, <3>2, <3>3 DEF CountsExact
  <2>3. CASE d # c
    <3>1. p \notin BlocksOf(d)  BY <1>2, <1>4, <2>3, OneClass, BlockFacts DEF BlocksOf
    <3>2. LentOf(d)' = LentOf(d)  BY <1>9, <3>1 DEF LentOf, BlocksOf
    <3>3. peak'[d] = peak[d]  BY <1>1, <2>3 DEF PoolTypeOK
    <3> QED  BY <1>8, <2>3, <3>2, <3>3 DEF CountsExact
  <2> QED  BY <2>2, <2>3
<1>15. Housed'
  <2> SUFFICES ASSUME NEW q \in Blocks, NEW d \in Classes, InClass(q, d)
               PROVE  lent'[q] <= Size[d]
    BY DEF Housed, InClass, Storage, End
  <2>1. CASE q = p
    <3>1. c = d  BY <1>2, <1>4, <2>1, OneClass, BlockFacts
    <3> QED  BY <1>9, <2>1, <3>1, PoolAssumption DEF Candidates
  <2>2. CASE q # p  BY <1>9, <2>2 DEF Housed
  <2> QED  BY <2>1, <2>2
<1> QED  BY <1>11, <1>13, <1>14, <1>15

-----------------------------------------------------------------------------
(* Release                                                                 *)

\* The stack of a class has room for a block that is lent: the guard of
\* hsys_pool_free never turns one away.
LEMMA RoomForLent ==
  ASSUME PoolInv, NEW c \in Classes, NEW p \in BlocksOf(c), lent[p] > 0
  PROVE  cnt[c] < Count[c]
<1>1. IsFiniteSet(LentOf(c))  BY FiniteClass, FS_Subset DEF LentOf
<1>2. p \in LentOf(c)  BY DEF LentOf
<1>3. Cardinality(LentOf(c)) \in Nat /\ Cardinality(LentOf(c)) # 0
  BY <1>1, <1>2, FS_CardinalityType, FS_EmptySet
<1> QED  BY <1>3, PoolAssumption DEF PoolInv, PoolTypeOK, CountsExact

\* hsys_pool_free keeps the invariant.
LEMMA GiveKeeps ==
  ASSUME PoolInv, NEW p \in Blocks, Give(p)
  PROVE  PoolInv'
<1> USE DEF PoolInv
<1>1. PICK c \in Classes :
        /\ InClass(p, c)
        /\ \/ /\ cnt[c] < Count[c]
              /\ fl' = [fl EXCEPT ![<<c, cnt[c]>>] = p]
              /\ cnt' = [cnt EXCEPT ![c] = @ + 1]
           \/ cnt[c] >= Count[c] /\ UNCHANGED <<fl, cnt>>
  BY DEF Give
<1>2. lent[p] > 0 /\ lent' = [lent EXCEPT ![p] = 0] /\ UNCHANGED <<peak, ret>>
  BY DEF Give
<1> DEFINE top == <<c, cnt[c]>>
<1>3. p \in BlocksOf(c)  BY <1>1 DEF BlocksOf
<1>4. cnt[c] \in Nat /\ Count[c] \in Nat /\ cnt[c] < Count[c]
  BY <1>2, <1>3, RoomForLent, PoolAssumption DEF PoolTypeOK
<1>5. fl' = [fl EXCEPT ![top] = p] /\ cnt' = [cnt EXCEPT ![c] = @ + 1]
  BY <1>1, <1>4
<1>6. top \in Slots /\ top[1] = c /\ top[2] = cnt[c]
  <2>1. top[1] = c /\ top[2] = cnt[c] /\ cnt[c] \in 0..(Count[c] - 1)  BY <1>4
  <2> QED  BY <2>1, SlotParts
<1>7. cnt'[c] = cnt[c] + 1 /\ \A d \in Classes : d # c => cnt'[d] = cnt[d]
  BY <1>5 DEF PoolTypeOK
<1>8. \A q \in Blocks : lent'[q] = IF q = p THEN 0 ELSE lent[q]  BY <1>2 DEF PoolTypeOK
<1>9. \A s \in Slots : fl'[s] = IF s = top THEN p ELSE fl[s]  BY <1>5, <1>6 DEF PoolTypeOK
<1>10. ~Stacked(top)  BY <1>4, <1>6 DEF Stacked
<1>11. PoolTypeOK'
  <2>1. cnt' \in [Classes -> Nat] /\ \A d \in Classes : cnt'[d] <= Count[d]
    BY <1>4, <1>5, <1>7 DEF PoolTypeOK
  <2>2. lent' \in [Blocks -> Requests \cup {0}]  BY <1>2 DEF PoolTypeOK
  <2>3. fl' \in [Slots -> Blocks]  BY <1>5 DEF PoolTypeOK
  <2> QED  BY <1>2, <2>1, <2>2, <2>3 DEF PoolTypeOK
<1>12. \A s \in Slots : (Stacked(s))' <=> Stacked(s) \/ s = top
  <2> SUFFICES ASSUME NEW s \in Slots  PROVE (Stacked(s))' <=> Stacked(s) \/ s = top
    OBVIOUS
  <2>1. s = <<s[1], s[2]>> /\ s[1] \in Classes /\ s[2] \in Nat  BY SlotParts, PoolAssumption
  <2>2. CASE s[1] = c
    <3>1. (s[2] < cnt'[c]) <=> s[2] < cnt[c] \/ s[2] = cnt[c]  BY <1>4, <1>7, <2>1
    <3> QED  BY <1>6, <2>1, <2>2, <3>1 DEF Stacked
  <2>3. CASE s[1] # c
    BY <1>6, <1>7, <2>1, <2>3 DEF Stacked
  <2> QED  BY <2>2, <2>3
<1>13. NoBlockTwice'
  <2>1. ASSUME NEW s \in Slots, (Stacked(s))'
        PROVE  InClass(fl'[s], s[1]) /\ lent'[fl'[s]] = 0
    <3>1. CASE s = top  BY <1>1, <1>6, <1>8, <1>9, <3>1
    <3>2. CASE s # top
      <4>1. Stacked(s) /\ fl[s] \in Blocks  BY <1>12, <2>1, <3>2 DEF PoolTypeOK
      <4> QED  BY <1>8, <1>9, <3>2, <4>1 DEF NoBlockTwice
    <3> QED  BY <3>1, <3>2
  <2>2. ASSUME NEW s \in Slots, NEW r \in Slots, (Stacked(s))', (Stacked(r))', fl'[s] = fl'[r]
        PROVE  s = r
    <3>1. \A u \in Slots : (Stacked(u))' /\ u # top => Stacked(u) /\ fl'[u] = fl[u] /\ fl[u] # p
      BY <1>2, <1>9, <1>12 DEF NoBlockTwice
    <3> QED  BY <1>9, <2>2, <3>1 DEF NoBlockTwice
  <2>3. ASSUME NEW q \in Blocks, lent'[q] = 0
        PROVE  \E s \in Slots : (Stacked(s))' /\ fl'[s] = q
    <3>1. CASE q = p  BY <1>6, <1>9, <1>12, <3>1
    <3>2. CASE q # p
      <4>1. PICK s \in Slots : Stacked(s) /\ fl[s] = q  BY <1>8, <2>3, <3>2 DEF NoBlockTwice
      <4>2. s # top  BY <1>10, <4>1
      <4> QED  BY <1>9, <1>12, <4>1, <4>2
    <3> QED  BY <3>1, <3>2
  <2> QED  BY <2>1, <2>2, <2>3 DEF NoBlockTwice, InClass, Storage, End
<1>14. CountsExact'
  <2> SUFFICES ASSUME NEW d \in Classes
               PROVE  /\ cnt'[d] + Cardinality(LentOf(d)') = Count[d]
                      /\ Cardinality(LentOf(d)') <= peak'[d]
    BY DEF CountsExact
  <2>1. IsFiniteSet(LentOf(d))  BY FiniteClass, FS_Subset DEF LentOf
  <2>2. Cardinality(LentOf(d)) \in Nat  BY <2>1, FS_CardinalityType
  <2>3. CASE d = c
    <3>1. LentOf(c)' = LentOf(c) \ {p} /\ p \in LentOf(c)
      BY <1>2, <1>3, <1>8 DEF LentOf, BlocksOf
    <3>2. Cardinality(LentOf(c)') = Cardinality(LentOf(c)) - 1
      BY <2>1, <2>3, <3>1, FS_RemoveElement
    <3> QED  BY <1>2, <1>4, <1>7, <2>2, <2>3, <3>2 DEF CountsExact, PoolTypeOK
  <2>4. CASE d # c
    <3>1. p \notin BlocksOf(d)  BY <1>1, <2>4, OneClass, BlockFacts DEF BlocksOf
    <3>2. LentOf(d)' = LentOf(d)  BY <1>8, <3>1 DEF LentOf, BlocksOf
    <3> QED  BY <1>2, <1>7, <2>4, <3>2 DEF CountsExact
  <2> QED  BY <2>3, <2>4
<1>15. Housed'
  <2> SUFFICES ASSUME NEW q \in Blocks, NEW d \in Classes, InClass(q, d)
               PROVE  lent'[q] <= Size[d]
    BY DEF Housed, InClass, Storage, End
  <2> QED  BY <1>8, PoolAssumption DEF Housed
<1> QED  BY <1>11, <1>13, <1>14, <1>15

-----------------------------------------------------------------------------
(* The theorems                                                            *)

\* Every step keeps the invariant.
THEOREM StepInv == PoolInv /\ [PoolNext]_poolVars => PoolInv'
<1> SUFFICES ASSUME PoolInv, [PoolNext]_poolVars  PROVE PoolInv'  OBVIOUS
<1>1. ASSUME NEW n \in Requests, Alloc(n)  PROVE PoolInv'  BY <1>1, AllocKeeps
<1>2. ASSUME NEW n \in Requests, AllocFails(n)  PROVE PoolInv'
  BY <1>2 DEF AllocFails, PoolInv, PoolTypeOK, NoBlockTwice, CountsExact, Housed, Stacked, LentOf,
              InClass, Storage, End, BlocksOf
<1>3. ASSUME NEW p \in Blocks, Give(p)  PROVE PoolInv'  BY <1>3, GiveKeeps
<1>4. CASE UNCHANGED poolVars
  BY <1>4 DEF poolVars, PoolInv, PoolTypeOK, NoBlockTwice, CountsExact, Housed, Stacked, LentOf,
              InClass, Storage, End, BlocksOf
<1> QED  BY <1>1, <1>2, <1>3, <1>4 DEF PoolNext

\* The state of the pool is well typed in every reachable state.
THEOREM PoolTypes == PoolSpec => []PoolTypeOK
<1>1. PoolInv => PoolTypeOK  BY DEF PoolInv
<1> QED  BY <1>1, PoolInitInv, StepInv, PTL DEF PoolSpec

\* No sequence of allocations and releases loses a block or hands one out twice
\* (hsys_pool_alloc, hsys_pool_free).
THEOREM PoolPartition == PoolSpec => []NoBlockTwice
<1>1. PoolInv => NoBlockTwice  BY DEF PoolInv
<1> QED  BY <1>1, PoolInitInv, StepInv, PTL DEF PoolSpec

\* free_count and peak_used agree with what is lent.
THEOREM PoolCounts == PoolSpec => []CountsExact
<1>1. PoolInv => CountsExact  BY DEF PoolInv
<1> QED  BY <1>1, PoolInitInv, StepInv, PTL DEF PoolSpec

\* Every class lies within the arena, below the classes after it.
LEMMA ClassBounds ==
  ASSUME NEW c \in Classes
  PROVE  /\ c \in Nat /\ Size[c] \in Nat /\ Storage(c) \in Nat /\ End(c) \in Nat
         /\ End(c) <= ArenaBytes
<1>1. c \in Nat /\ c <= NumClasses /\ NumClasses \in Classes /\ NumClasses \in Nat
  BY PoolAssumption DEF Classes
<1>2. Storage(c) \in Nat /\ Size[c] \in Nat /\ Size[c] * Count[c] \in Nat  BY PoolAssumption
<1>3. End(c) \in Nat  BY <1>2 DEF End
<1> DEFINE last == NumClasses
<1>4. Storage(last) \in Nat /\ Size[last] * Count[last] \in Nat  BY <1>1, PoolAssumption
<1>5. End(last) \in Nat /\ Storage(last) <= End(last)  BY <1>4 DEF End
<1>6. End(last) <= ArenaBytes /\ ArenaBytes \in Nat  BY PoolAssumption
<1>7. End(c) <= ArenaBytes
  <2>1. CASE c = last  BY <1>6, <2>1
  <2>2. CASE c < last
    <3>1. End(c) <= Storage(last)  BY <1>1, <2>2, PoolAssumption
    <3> HIDE DEF last
    <3> QED  BY <1>3, <1>4, <1>5, <1>6, <3>1
  <2> QED  BY <1>1, <2>1, <2>2
<1> QED  BY <1>1, <1>2, <1>3, <1>7

\* Two blocks of one class: the lower one ends where the other begins, or before.
LEMMA Neighbours ==
  ASSUME NEW i \in Nat, NEW j \in Nat, NEW w \in Nat, i * w < j * w
  PROVE  i * w + w <= j * w
<1>1. i * w \in Nat /\ j * w \in Nat  OBVIOUS
<1>2. CASE i < j  BY <1>2, BlockInside
<1>3. CASE i = j  BY <1>1, <1>3
<1>4. CASE j < i
  <2>1. j * w + w <= i * w  BY <1>4, BlockInside
  <2> QED  BY <1>1, <2>1
<1> QED  BY <1>2, <1>3, <1>4

\* Two blocks of the arena do not overlap, and lie within it.
LEMMA NoOverlap ==
  ASSUME NEW s \in Slots, NEW r \in Slots
  PROVE  /\ Address(s) + Size[s[1]] <= ArenaBytes
         /\ Address(s) < Address(r) => Address(s) + Size[s[1]] <= Address(r)
<1> SUFFICES ASSUME NEW c \in Classes, NEW d \in Classes, c = s[1], d = r[1]
             PROVE  /\ Address(s) + Size[c] <= ArenaBytes
                    /\ Address(s) < Address(r) => Address(s) + Size[c] <= Address(r)
  BY SlotParts
<1>1. /\ c \in Nat /\ Size[c] \in Nat /\ Storage(c) \in Nat /\ End(c) \in Nat
      /\ d \in Nat /\ Size[d] \in Nat /\ Storage(d) \in Nat /\ End(d) \in Nat
      /\ End(c) <= ArenaBytes /\ ArenaBytes \in Nat
  BY ClassBounds, PoolAssumption
<1>2. Address(s) \in Nat /\ Address(r) \in Nat /\ Address(s) + Size[c] <= End(c)
      /\ Storage(d) <= Address(r) /\ Address(r) < End(d) /\ Storage(c) <= Address(s)
  BY AddressRange DEF InClass
<1>3. ASSUME Address(s) < Address(r)  PROVE Address(s) + Size[c] <= Address(r)
  <2>1. CASE c = d
    <3>1. s[2] \in Nat /\ r[2] \in Nat  BY SlotParts
    <3>2. s[2] * Size[c] \in Nat /\ r[2] * Size[c] \in Nat  BY <1>1, <3>1
    <3>3. Address(s) = Storage(c) + s[2] * Size[c] /\ Address(r) = Storage(c) + r[2] * Size[c]
      BY <2>1 DEF Address
    <3>4. s[2] * Size[c] < r[2] * Size[c]  BY <1>1, <1>3, <3>2, <3>3
    <3>5. s[2] * Size[c] + Size[c] <= r[2] * Size[c]  BY <1>1, <3>1, <3>4, Neighbours
    <3> QED  BY <1>1, <3>2, <3>3, <3>5
  <2>2. CASE c < d
    <3>1. End(c) <= Storage(d)  BY <2>2, PoolAssumption
    <3> QED  BY <1>1, <1>2, <3>1
  <2>3. CASE d < c
    <3>1. End(d) <= Storage(c)  BY <2>3, PoolAssumption
    <3> QED  BY <1>1, <1>2, <1>3, <3>1
  <2> QED  BY <1>1, <2>1, <2>2, <2>3
<1> QED  BY <1>1, <1>2, <1>3

\* What two owners may write never overlaps and stays in the arena.
THEOREM PoolBuffersDisjoint == PoolSpec => []BuffersDisjoint
<1>1. PoolInv => BuffersDisjoint
  <2> SUFFICES ASSUME PoolInv, NEW p \in Blocks, NEW q \in Blocks, lent[p] > 0, lent[q] > 0
               PROVE  p + lent[p] <= ArenaBytes /\ (p < q => p + lent[p] <= q)
    BY DEF BuffersDisjoint, PoolInv
  <2>1. PICK s \in Slots : p = Address(s)  BY DEF Blocks
  <2>2. PICK r \in Slots : q = Address(r)  BY DEF Blocks
  <2>3. InClass(p, s[1]) /\ s[1] \in Classes  BY <2>1, AddressRange, SlotParts
  <2>4. lent[p] \in Nat /\ lent[p] <= Size[s[1]]
    <3>1. lent[p] \in Requests \cup {0}  BY DEF PoolInv, PoolTypeOK
    <3>2. \A n \in Requests \cup {0} : n \in Nat  BY PoolAssumption
    <3>3. lent[p] \in Nat  BY <3>1, <3>2
    <3>4. lent[p] <= Size[s[1]]  BY <2>3 DEF PoolInv, Housed
    <3> QED  BY <3>3, <3>4
  <2>5. Size[s[1]] \in Nat /\ p \in Nat /\ q \in Nat /\ ArenaBytes \in Nat
    BY <2>3, BlockFacts, PoolAssumption
  <2>6. p + Size[s[1]] <= ArenaBytes /\ (p < q => p + Size[s[1]] <= q)
    BY <2>1, <2>2, NoOverlap
  <2> QED  BY <2>4, <2>5, <2>6
<1> QED  BY <1>1, PoolInitInv, StepInv, PTL DEF PoolSpec

-----------------------------------------------------------------------------
(* Refinement                                                              *)

\* A block holds as many bytes as the block_size of its class.
LEMMA CapacityIs ==
  ASSUME NEW p \in Blocks, NEW c \in Classes, InClass(p, c)
  PROVE  Capacity[p] = Size[c]
<1>1. ClassOf(p) \in Classes /\ InClass(p, ClassOf(p))  BY DEF ClassOf
<1>2. ClassOf(p) = c  BY <1>1, BlockFacts, OneClass
<1> QED  BY <1>2 DEF Capacity

\* A block that is free and large enough belongs to a class the search considers.
LEMMA FitsIsCandidate ==
  ASSUME PoolInv, NEW n \in Requests, NEW x \in Contract!Fits(n)
  PROVE  \E d \in Candidates(n) : InClass(x, d)
<1>1. x \in Blocks /\ lent[x] = 0 /\ Capacity[x] >= n  BY DEF Contract!Fits, Contract!Free
<1>2. PICK s \in Slots : Stacked(s) /\ fl[s] = x  BY <1>1 DEF PoolInv, NoBlockTwice
<1>3. InClass(x, s[1]) /\ s[1] \in Classes  BY <1>2, SlotParts DEF PoolInv, NoBlockTwice
<1>4. cnt[s[1]] > 0
  BY <1>2, <1>3, SlotParts, PoolAssumption DEF Stacked, PoolInv, PoolTypeOK
<1>5. Size[s[1]] >= n  BY <1>1, <1>3, CapacityIs
<1> QED  BY <1>3, <1>4, <1>5 DEF Candidates

\* The first class with a free block large enough has the smallest such block.
LEMMA AllocRefines ==
  ASSUME PoolInv, NEW n \in Requests, Alloc(n)
  PROVE  Contract!Take(n)
<1>1. PICK c \in Candidates(n) :
        /\ \A d \in Candidates(n) : c <= d
        /\ ret' = fl[<<c, cnt[c] - 1>>]
        /\ lent' = [lent EXCEPT ![ret'] = n]
  BY DEF Alloc
<1> DEFINE p == fl[<<c, cnt[c] - 1>>]
<1>2. c \in Classes /\ cnt[c] > 0 /\ Size[c] >= n  BY DEF Candidates
<1>3. p \in BlocksOf(c) /\ lent[p] = 0  BY <1>2, TopOfStack
<1>4. p \in Blocks /\ InClass(p, c) /\ Capacity[p] = Size[c]
  BY <1>2, <1>3, CapacityIs DEF BlocksOf
<1>5. p \in Contract!Fits(n)  BY <1>2, <1>3, <1>4 DEF Contract!Fits, Contract!Free
<1>6. ASSUME NEW x \in Contract!Fits(n)  PROVE Capacity[p] <= Capacity[x]
  <2>1. PICK d \in Candidates(n) : InClass(x, d)  BY FitsIsCandidate
  <2>2. x \in Blocks /\ d \in Classes  BY DEF Contract!Fits, Candidates
  <2>3. Capacity[x] = Size[d]  BY <2>1, <2>2, CapacityIs
  <2>4. c <= d  BY <1>1
  <2>5. Size[c] <= Size[d]
    <3>1. c \in Nat /\ d \in Nat /\ Size[c] \in Nat /\ Size[d] \in Nat
      BY <1>2, <2>2, PoolAssumption DEF Classes
    <3> QED  BY <1>2, <2>2, <2>4, <3>1, PoolAssumption
  <2> QED  BY <1>4, <2>3, <2>5
<1> QED  BY <1>1, <1>5, <1>6 DEF Contract!Take

\* Every step of the pool is a step its header promises, or none at all.
LEMMA StepRefines ==
  ASSUME PoolInv, [PoolNext]_poolVars
  PROVE  [Contract!Next]_<<lent, ret>>
<1>1. ASSUME NEW n \in Requests, Alloc(n)  PROVE Contract!Next
  BY <1>1, AllocRefines DEF Contract!Next
<1>2. ASSUME NEW n \in Requests, AllocFails(n)  PROVE Contract!Next
  <2>1. Contract!Fits(n) = {}  BY <1>2, FitsIsCandidate DEF AllocFails
  <2> QED  BY <1>2, <2>1 DEF AllocFails, Contract!Next, Contract!Refuse
<1>3. ASSUME NEW p \in Blocks, Give(p)  PROVE Contract!Next
  <2>1. lent[p] # 0  BY <1>3 DEF Give
  <2> QED  BY <1>3, <2>1 DEF Give, Contract!Next, Contract!Give, Contract!Free
<1>4. CASE UNCHANGED poolVars  BY <1>4 DEF poolVars
<1> QED  BY <1>1, <1>2, <1>3, <1>4 DEF PoolNext

\* hsys_pool_alloc and hsys_pool_free do what hsys_pool.h promises of them.
THEOREM PoolKeepsItsPromise == PoolSpec => Promise
<1>1. PoolInit => Contract!Init  BY DEF PoolInit, Contract!Init
<1>2. PoolInv /\ [PoolNext]_poolVars => [Contract!Next]_<<lent, ret>>  BY StepRefines
<1> QED  BY <1>1, <1>2, PoolInitInv, StepInv, PTL DEF PoolSpec, Promise, Contract!Spec

-----------------------------------------------------------------------------
(***************************************************************************)
(* The start-up barrier for every number of tasks, every choice of the     *)
(* calls that fail and both event groups: the types, and that no task goes *)
(* past a barrier before the tasks it was opened for.                      *)
(*                                                                         *)
(* The counter of a phase is the number of tasks that have finished it, so *)
(* a task that finds it no smaller than s_task_count, which is never less  *)
(* than the number of tasks there are, finds that all have finished.       *)
(***************************************************************************)

\* The tasks that have run the phase.
FinishedSet(p) == {i \in Tasks : Finished(i, p)}

\* The tasks there are: those the main thread is done with.
Made == IF main.pc = "ready" THEN 1..main.task ELSE 1..(main.task - 1)

\* A registered task counts before it exists.
Extra == IF main.pc \in {"spawn", "undo"} THEN 1 ELSE 0

\* The main thread: who exists, and s_task_count against them.
Creation ==
  /\ Born = Made
  /\ \A i \in Tasks : thr[i].pc = "unborn" => thr[i].phase = 1
  /\ count = Cardinality(Made) + Extra
  /\ main.pc = "ready" => main.task = N

\* The counters of the phases, and what a task read from its own.
Counting ==
  /\ \A p \in Phases : done[p] = Cardinality(FinishedSet(p))
  /\ \A i \in Tasks : thr[i].pc = "compare" => thr[i].val <= done[thr[i].phase]

\* The barriers: opened by a comparison, passed through their bits.
Opening ==
  /\ \A p \in Phases : \A j \in cohort[p] : Finished(j, p)
  /\ \A i \in Tasks : thr[i].pc = "set" => cohort[thr[i].phase] # {}
  /\ \A p \in bits : cohort[p] # {}
  /\ \A p \in Phases : \A i \in Tasks : Past(i, p) => p \in bits

IInv == TypeOK /\ Creation /\ Counting /\ Opening

-----------------------------------------------------------------------------
(* Counting sets of tasks                                                  *)

\* The tasks there are can be counted, and registration never runs behind.
LEMMA MadeFacts ==
  ASSUME IInv
  PROVE  /\ IsFiniteSet(Made) /\ Made \subseteq Tasks
         /\ Cardinality(Made) \in Nat
         /\ Cardinality(Made) <= count /\ count <= 255
<1>1. main.task \in Nat /\ main.task >= 1 /\ main.task <= N /\ N \in Nat
  BY TaskMgrAssumption DEF IInv, TypeOK, Tasks
<1>2. 1 \in Int /\ main.task \in Int /\ main.task - 1 \in Int  BY <1>1
<1>3. IsFiniteSet(Made) /\ Made \subseteq Tasks
  <2>1. IsFiniteSet(1..main.task)  BY <1>2, FS_Interval
  <2>2. IsFiniteSet(1..(main.task - 1))  BY <1>2, FS_Interval
  <2>3. 1..main.task \subseteq Tasks /\ 1..(main.task - 1) \subseteq Tasks
    BY <1>1 DEF Tasks
  <2> QED  BY <2>1, <2>2, <2>3 DEF Made
<1>4. Cardinality(Made) \in Nat  BY <1>3, FS_CardinalityType
<1>5. count \in Nat /\ count <= 255  BY TaskMgrAssumption DEF IInv, TypeOK
<1>6. count = Cardinality(Made) + Extra  BY DEF IInv, Creation
<1>7. Extra \in {0, 1}  BY DEF Extra
<1> QED  BY <1>3, <1>4, <1>5, <1>6, <1>7

\* The counter of a phase counts tasks there are.
LEMMA DoneFacts ==
  ASSUME IInv, NEW p \in Phases
  PROVE  /\ FinishedSet(p) \subseteq Made /\ IsFiniteSet(FinishedSet(p))
         /\ done[p] = Cardinality(FinishedSet(p)) /\ done[p] \in Nat
         /\ done[p] <= Cardinality(Made)
         /\ done[p] = Cardinality(Made) => FinishedSet(p) = Made
<1>1. ASSUME NEW i \in Tasks, Finished(i, p)  PROVE i \in Born
  <2>1. thr[i].pc = "unborn" => thr[i].phase = 1  BY DEF IInv, Creation
  <2>2. p \in Nat /\ p >= 1  BY DEF Phases
  <2> QED  BY <1>1, <2>1, <2>2 DEF Finished, Born
<1>2. FinishedSet(p) \subseteq Made  BY <1>1 DEF FinishedSet, IInv, Creation
<1>3. done[p] = Cardinality(FinishedSet(p))  BY DEF IInv, Counting
<1>4. FinishedSet(p) \in SUBSET Made  BY <1>2
<1>5. IsFiniteSet(FinishedSet(p)) /\ Cardinality(FinishedSet(p)) <= Cardinality(Made)
      /\ (Cardinality(Made) = Cardinality(FinishedSet(p)) => Made = FinishedSet(p))
  BY <1>4, MadeFacts, FS_Subset
<1>6. done[p] \in Nat  BY <1>3, <1>5, FS_CardinalityType
<1> QED  BY <1>2, <1>3, <1>5, <1>6

\* A task that has not finished the phase can be counted in one byte.
LEMMA RoomToCount ==
  ASSUME IInv, NEW i \in Tasks, thr[i].pc = "run"
  PROVE  LET p == thr[i].phase IN
         /\ p \in Phases /\ ~Finished(i, p)
         /\ done[p] + 1 <= 255 /\ (done[p] + 1) % 256 = done[p] + 1
<1> DEFINE p == thr[i].phase
<1>1. p \in Phases /\ p \in Nat  BY DEF IInv, TypeOK, Phases
<1>2. ~Finished(i, p)  BY <1>1 DEF Finished
<1>3. i \in Made  BY DEF Born, IInv, Creation
<1>4. FinishedSet(p) # Made  BY <1>2, <1>3 DEF FinishedSet
<1>5. done[p] \in Nat /\ done[p] < Cardinality(Made)
  BY <1>1, <1>4, DoneFacts, MadeFacts
<1>6. done[p] + 1 <= 255  BY <1>5, MadeFacts, TaskMgrAssumption DEF IInv, TypeOK
<1> QED  BY <1>1, <1>2, <1>5, <1>6

-----------------------------------------------------------------------------
(* The invariant holds at first                                            *)

\* hsys_task_mgr_init establishes the invariant.
LEMMA InitInv == Init => IInv
<1> SUFFICES ASSUME Init PROVE IInv  OBVIOUS
<1>1. TypeOK  BY TaskMgrAssumption DEF Init, TypeOK, Tasks, Phases, Unborn
<1>2. Made = {} /\ Extra = 0 /\ Born = {}
  BY TaskMgrAssumption DEF Init, Made, Extra, Born, Unborn, Tasks
<1>3. Creation  BY <1>2, FS_EmptySet DEF Init, Creation, Unborn
<1>4. ASSUME NEW p \in Phases  PROVE FinishedSet(p) = {} /\ \A i \in Tasks : ~Past(i, p)
  <2>1. p \in Nat /\ p >= 1  BY DEF Phases
  <2> QED  BY <2>1 DEF Init, FinishedSet, Finished, Past, Unborn
<1>5. Counting  BY <1>4, FS_EmptySet DEF Init, Counting, Unborn
<1>6. Opening  BY <1>4 DEF Init, Opening, Unborn
<1> QED  BY <1>1, <1>3, <1>5, <1>6 DEF IInv

-----------------------------------------------------------------------------
(* Every step keeps it                                                     *)

\* The steps of the main thread finish no phase, and neither do those of a
\* task other than Bump: what is finished stays as it is.
SameFinished == \A p \in Phases, i \in Tasks : Finished(i, p)' = Finished(i, p)
SamePast     == \A p \in Phases, i \in Tasks : Past(i, p)' = Past(i, p)

\* While no thread moves, nothing is finished or passed.
LEMMA Untouched ==
  ASSUME UNCHANGED thr
  PROVE  SameFinished /\ SamePast /\ Born' = Born
BY DEF SameFinished, SamePast, Finished, Past, Born

\* Between finishing a phase and leaving its barrier.
AtBarrier == {"compare", "set", "notify", "wait", "block", "asleep"}

\* Moving about inside a barrier finishes nothing and passes nothing.
LEMMA InsideBarrier ==
  ASSUME \A j \in Tasks : \/ thr'[j] = thr[j]
                          \/ /\ thr[j].pc \in AtBarrier /\ thr'[j].pc \in AtBarrier
                             /\ thr'[j].phase = thr[j].phase
  PROVE  SameFinished /\ SamePast /\ Born' = Born
<1>1. ASSUME NEW p \in Phases, NEW j \in Tasks
      PROVE  Finished(j, p)' = Finished(j, p) /\ Past(j, p)' = Past(j, p)
  <2>1. CASE thr'[j] = thr[j]  BY <2>1 DEF Finished, Past
  <2>2. CASE /\ thr[j].pc \in AtBarrier /\ thr'[j].pc \in AtBarrier
             /\ thr'[j].phase = thr[j].phase
    BY <2>2 DEF Finished, Past, AtBarrier
  <2> QED  BY <2>1, <2>2
<1>2. ASSUME NEW j \in Tasks  PROVE (thr'[j].pc # "unborn") = (thr[j].pc # "unborn")
  BY DEF AtBarrier
<1>3. Born' = Born  BY <1>2 DEF Born
<1> QED  BY <1>1, <1>3 DEF SameFinished, SamePast

\* A step that finishes nothing keeps the counters right.
LEMMA KeepsCounting ==
  ASSUME IInv, SameFinished, UNCHANGED done,
         \A i \in Tasks : thr'[i].pc = "compare" => thr'[i] = thr[i]
  PROVE  Counting'
<1>1. ASSUME NEW p \in Phases  PROVE FinishedSet(p)' = FinishedSet(p)
  BY DEF FinishedSet, SameFinished
<1>2. \A p \in Phases : done'[p] = Cardinality(FinishedSet(p)')
  BY <1>1 DEF IInv, Counting
<1>3. \A i \in Tasks : thr'[i].pc = "compare" => thr'[i].val <= done'[thr'[i].phase]
  BY DEF IInv, Counting
<1> QED  BY <1>2, <1>3 DEF Counting

\* A step of a task creates none.
LEMMA KeepsCreation ==
  ASSUME IInv, UNCHANGED <<main, count>>, Born' = Born,
         \A i \in Tasks : thr'[i].pc = "unborn" => thr'[i] = thr[i]
  PROVE  Creation'
<1>1. Made' = Made /\ Extra' = Extra  BY DEF Made, Extra
<1>2. \A i \in Tasks : thr'[i].pc = "unborn" => thr'[i].phase = 1
  BY DEF IInv, Creation
<1> QED  BY <1>1, <1>2 DEF IInv, Creation

\* A step that opens and passes no barrier keeps the barriers right.
LEMMA KeepsOpening ==
  ASSUME IInv, SameFinished, SamePast, UNCHANGED <<bits, cohort>>,
         \A i \in Tasks : thr'[i].pc = "set" => thr'[i] = thr[i]
  PROVE  Opening'
<1>1. TypeOK /\ Opening  BY DEF IInv
<1>2. \A p \in Phases : \A j \in cohort'[p] : Finished(j, p)'
  BY <1>1 DEF TypeOK, Opening, SameFinished
<1>3. \A i \in Tasks : thr'[i].pc = "set" => cohort'[thr'[i].phase] # {}
  BY <1>1 DEF Opening
<1>4. \A p \in bits' : cohort'[p] # {}  BY <1>1 DEF Opening
<1>5. \A p \in Phases : \A i \in Tasks : Past(i, p)' => p \in bits'
  BY <1>1 DEF Opening, SamePast
<1> QED  BY <1>2, <1>3, <1>4, <1>5 DEF Opening

\* Registration, its failures and the creation that fails: only s_task_count
\* and the main thread change.
LEMMA MainStep ==
  ASSUME IInv, Register \/ RegisterFails \/ SpawnFails \/ Undo
  PROVE  IInv'
<1> USE DEF MainGoes
<1>1. UNCHANGED <<done, bits, thr, cohort>>
  BY DEF Register, RegisterFails, SpawnFails, Undo
<1>2. TypeOK /\ main'.task = main.task /\ main.pc # "ready"
  BY DEF IInv, TypeOK, Register, RegisterFails, SpawnFails, Undo
<1>3. Made' = Made /\ main'.pc # "ready"
  BY <1>2 DEF TypeOK, Made, Register, RegisterFails, SpawnFails, Undo
<1>4. SameFinished /\ SamePast /\ Born' = Born  BY <1>1, Untouched
<1>5. /\ Cardinality(Made) \in Nat /\ count = Cardinality(Made) + Extra
      /\ MaxTasks \in Nat /\ count \in 0..MaxTasks
  BY MadeFacts, TaskMgrAssumption DEF IInv, Creation, TypeOK
<1>6. count' = Cardinality(Made) + Extra' /\ count' \in 0..MaxTasks
  BY <1>2, <1>5 DEF TypeOK, Extra, Register, RegisterFails, SpawnFails, Undo
<1>7. TypeOK'
  <2>1. main' \in [pc : {"queue", "spawn", "undo", "ready", "failed", "undone"}, task : Tasks]
    BY <1>2 DEF TypeOK, Register, RegisterFails, SpawnFails, Undo
  <2> QED  BY <1>1, <1>2, <1>6, <2>1 DEF TypeOK
<1>8. Creation'  BY <1>1, <1>3, <1>4, <1>6 DEF IInv, Creation
<1>9. Counting'  BY <1>1, <1>4, KeepsCounting
<1>10. Opening'  BY <1>1, <1>4, KeepsOpening
<1> QED  BY <1>7, <1>8, <1>9, <1>10 DEF IInv

\* hsys_task_create succeeds: one more task, which has finished nothing.
LEMMA SpawnStep ==
  ASSUME IInv, Spawn
  PROVE  IInv'
<1> DEFINE t == main.task
<1>1. TypeOK /\ t \in Tasks /\ t \in Nat /\ t >= 1 /\ t <= N /\ N \in Nat
      /\ main.pc = "spawn" /\ UNCHANGED <<count, done, bits, cohort>>
  BY TaskMgrAssumption DEF IInv, TypeOK, Tasks, Spawn
<1>2. Made = 1..(t - 1) /\ Made' = 1..t
  BY <1>1 DEF Made, Spawn, Tasks, TypeOK
<1>3. t \notin Made /\ Made' = Made \cup {t}  BY <1>1, <1>2
<1>4. Cardinality(Made') = Cardinality(Made) + 1
  BY <1>3, MadeFacts, FS_AddElement
<1>5. thr[t].pc = "unborn" /\ thr[t].phase = 1
  BY <1>1, <1>3 DEF IInv, Creation, Born
<1>6. thr' = [thr EXCEPT ![t].pc = "run"]  BY DEF Spawn
<1>7. /\ thr'[t].pc = "run" /\ thr'[t].phase = 1
      /\ \A j \in Tasks : j # t => thr'[j] = thr[j]
  BY <1>1, <1>5, <1>6 DEF TypeOK
<1>8. Born' = Born \cup {t}  BY <1>1, <1>5, <1>7 DEF Born
<1>9. SameFinished /\ SamePast
  <2>1. ASSUME NEW p \in Phases, NEW j \in Tasks
        PROVE  Finished(j, p)' = Finished(j, p) /\ Past(j, p)' = Past(j, p)
    <3>1. p \in Nat /\ p >= 1  BY DEF Phases
    <3>2. CASE j = t  BY <1>5, <1>7, <3>1, <3>2 DEF Finished, Past
    <3>3. CASE j # t  BY <1>7, <3>3 DEF Finished, Past
    <3> QED  BY <3>2, <3>3
  <2> QED  BY <2>1 DEF SameFinished, SamePast
<1>10. TypeOK'
  <2>1. main' \in [pc : {"queue", "spawn", "undo", "ready", "failed", "undone"}, task : Tasks]
    BY <1>1 DEF Spawn, TypeOK, Tasks
  <2>2. thr' \in [Tasks -> [pc : {"unborn", "run", "compare", "set", "notify", "wait",
                                 "block", "asleep", "loop"},
                           phase : Phases, val : 0..255]]
    BY <1>1, <1>6 DEF TypeOK
  <2> QED  BY <1>1, <2>1, <2>2 DEF TypeOK
<1>11. Creation'
  <2>1. Extra = 1 /\ Extra' = 0 /\ (main'.pc = "ready" => main'.task = N)
    BY <1>1 DEF Extra, Spawn, TypeOK
  <2>2. Cardinality(Made) \in Nat /\ count = Cardinality(Made) + 1 /\ Born = Made
    BY <2>1, MadeFacts DEF IInv, Creation
  <2>3. count' = Cardinality(Made') + Extra'  BY <1>1, <1>4, <2>1, <2>2
  <2>4. \A i \in Tasks : thr'[i].pc = "unborn" => thr'[i].phase = 1
    BY <1>7 DEF IInv, Creation
  <2> QED  BY <1>3, <1>8, <2>1, <2>2, <2>3, <2>4 DEF Creation
<1>12. Counting'  BY <1>1, <1>7, <1>9, KeepsCounting
<1>13. Opening'  BY <1>1, <1>7, <1>9, KeepsOpening
<1> QED  BY <1>10, <1>11, <1>12, <1>13 DEF IInv

\* barrier_complete_phase under its mutex: the task is counted once.
LEMMA BumpStep ==
  ASSUME IInv, NEW i \in Tasks, Bump(i)
  PROVE  IInv'
<1> PICK p \in Phases : p = thr[i].phase  BY DEF IInv, TypeOK
<1>1. /\ TypeOK /\ thr[i].pc = "run" /\ UNCHANGED <<main, count, bits, cohort>>
      /\ thr[i].phase = p
  BY DEF IInv, TypeOK, Bump
<1>2. ~Finished(i, p) /\ done[p] \in Nat /\ done[p] + 1 <= 255
      /\ (done[p] + 1) % 256 = done[p] + 1
  BY <1>1, RoomToCount, DoneFacts
<1>3. /\ done' = [done EXCEPT ![p] = done[p] + 1]
      /\ thr' = [thr EXCEPT ![i] = [pc |-> "compare", phase |-> p, val |-> done[p] + 1]]
  BY <1>2 DEF Bump
<1>4. /\ thr'[i].pc = "compare" /\ thr'[i].phase = p /\ thr'[i].val = done[p] + 1
      /\ \A j \in Tasks : j # i => thr'[j] = thr[j]
  BY <1>1, <1>3 DEF TypeOK
<1>5. /\ done'[p] = done[p] + 1
      /\ \A q \in Phases : q # p => done'[q] = done[q]
  BY <1>1, <1>2, <1>3 DEF TypeOK
<1>6. /\ Finished(i, p)'
      /\ \A j \in Tasks, q \in Phases :
            ~(j = i /\ q = p) => Finished(j, q)' = Finished(j, q)
      /\ \A j \in Tasks, q \in Phases : Past(j, q)' = Past(j, q)
  <2>1. Finished(i, p)'  BY <1>4 DEF Finished
  <2>2. ASSUME NEW j \in Tasks, NEW q \in Phases
        PROVE  /\ ~(j = i /\ q = p) => Finished(j, q)' = Finished(j, q)
               /\ Past(j, q)' = Past(j, q)
    <3>1. CASE j = i  BY <1>1, <1>4, <3>1 DEF Finished, Past
    <3>2. CASE j # i  BY <1>4, <3>2 DEF Finished, Past
    <3> QED  BY <3>1, <3>2
  <2> QED  BY <2>1, <2>2
<1>7. TypeOK'
  <2>1. done[p] + 1 \in 0..255  BY <1>2
  <2>2. done \in [Phases -> 0..255]  BY <1>1 DEF TypeOK
  <2>4. done' \in [Phases -> 0..255]  BY <1>3, <2>1, <2>2
  <2>3. thr' \in [Tasks -> [pc : {"unborn", "run", "compare", "set", "notify", "wait",
                                 "block", "asleep", "loop"},
                           phase : Phases, val : 0..255]]
    BY <1>1, <1>3, <2>1 DEF TypeOK
  <2> QED  BY <1>1, <2>3, <2>4 DEF TypeOK
<1>8. Creation'
  <2>1. Born' = Born  BY <1>1, <1>4 DEF Born
  <2> QED  BY <1>1, <1>4, <2>1, KeepsCreation
<1>9. Counting'
  <2>1. ASSUME NEW q \in Phases  PROVE done'[q] = Cardinality(FinishedSet(q)')
    <3>1. CASE q = p
      <4>1. FinishedSet(p)' = FinishedSet(p) \cup {i} /\ i \notin FinishedSet(p)
        BY <1>1, <1>2, <1>6 DEF FinishedSet
      <4>2. Cardinality(FinishedSet(p)') = Cardinality(FinishedSet(p)) + 1
        BY <1>1, <4>1, DoneFacts, FS_AddElement
      <4>3. done[p] = Cardinality(FinishedSet(p))  BY <1>1, DoneFacts
      <4>4. done'[p] = Cardinality(FinishedSet(p)')  BY <1>5, <4>2, <4>3
      <4> QED  BY <3>1, <4>4
    <3>2. CASE q # p
      <4>1. FinishedSet(q)' = FinishedSet(q)  BY <1>6, <3>2 DEF FinishedSet
      <4> QED  BY <1>5, <3>2, <4>1, DoneFacts
    <3> QED  BY <3>1, <3>2
  <2>2. ASSUME NEW j \in Tasks, thr'[j].pc = "compare"
        PROVE  thr'[j].val <= done'[thr'[j].phase]
    <3>1. CASE j = i  BY <1>2, <1>4, <1>5, <3>1
    <3>2. CASE j # i
      <4> DEFINE q == thr[j].phase
      <4>1. thr'[j] = thr[j] /\ q \in Phases /\ thr[j].val \in Nat
        BY <1>1, <1>4, <3>2 DEF TypeOK
      <4>2. thr[j].val <= done[q]  BY <2>2, <4>1 DEF IInv, Counting
      <4>3. done[q] \in Nat /\ done'[q] \in Nat /\ done'[q] >= done[q]
        <5>. done \in [Phases -> 0..255]  BY <1>1 DEF TypeOK
        <5>0. done[q] \in 0..255  BY <4>1
        <5>1. done[q] \in Nat  BY <5>0
        <5>2. CASE q = p  BY <1>2, <1>5, <5>2
        <5>3. CASE q # p  BY <1>5, <4>1, <5>1, <5>3
        <5> QED  BY <5>2, <5>3
      <4> QED  BY <4>1, <4>2, <4>3
    <3> QED  BY <3>1, <3>2
  <2> QED  BY <2>1, <2>2 DEF Counting
<1>10. Opening'
  <2>1. Opening  BY DEF IInv
  <2>2. \A q \in Phases : \A j \in cohort'[q] : Finished(j, q)'
    BY <1>1, <1>6, <2>1 DEF Opening, TypeOK
  <2>3. \A j \in Tasks : thr'[j].pc = "set" => cohort'[thr'[j].phase] # {}
    BY <1>1, <1>4, <2>1 DEF Opening
  <2>4. \A q \in bits' : cohort'[q] # {}  BY <1>1, <2>1 DEF Opening
  <2>5. \A q \in Phases : \A j \in Tasks : Past(j, q)' => q \in bits'
    BY <1>1, <1>6, <2>1 DEF Opening
  <2> QED  BY <2>2, <2>3, <2>4, <2>5 DEF Opening
<1> QED  BY <1>7, <1>8, <1>9, <1>10 DEF IInv

\* What the comparison outside the mutex tells a task that opens the barrier.
LEMMA OpensMeansAllFinished ==
  ASSUME IInv, NEW i \in Tasks, thr[i].pc = "compare", Opens(i)
  PROVE  \A j \in Born : Finished(j, thr[i].phase)
<1> DEFINE p == thr[i].phase
<1>1. p \in Phases /\ thr[i].val \in Nat
  <2>1. thr[i].val \in 0..255 /\ p \in Phases  BY DEF IInv, TypeOK
  <2> QED  BY <2>1
<1>2. thr[i].val <= done[p] /\ thr[i].val >= count
  BY DEF IInv, Counting, Opens
<1>3. count \in Nat  BY TaskMgrAssumption DEF IInv, TypeOK
<1>4. done[p] = Cardinality(Made)  BY <1>1, <1>2, <1>3, DoneFacts, MadeFacts
<1>5. FinishedSet(p) = Made  BY <1>1, <1>4, DoneFacts
<1>6. Born = Made  BY DEF IInv, Creation
<1> QED  BY <1>5, <1>6 DEF FinishedSet

\* The comparison and what it leads to.
LEMMA CompareStep ==
  ASSUME IInv, NEW i \in Tasks, Compare(i)
  PROVE  IInv'
<1> PICK p \in Phases : p = thr[i].phase  BY DEF IInv, TypeOK
<1>1. /\ TypeOK /\ Opening /\ thr[i].pc = "compare" /\ thr[i].phase = p
      /\ UNCHANGED <<main, count, done, bits>>
  BY DEF IInv, TypeOK, Compare
<1>2. PICK pc \in {"set", "wait"} : thr' = [thr EXCEPT ![i].pc = pc]
  BY DEF Compare, Goes
<1>3. /\ thr'[i].pc = pc /\ thr'[i].phase = p
      /\ \A j \in Tasks : j # i => thr'[j] = thr[j]
  BY <1>1, <1>2 DEF TypeOK
<1>4. SameFinished /\ SamePast /\ Born' = Born
  BY <1>1, <1>3, InsideBarrier DEF AtBarrier
<1>5. i \in Born /\ Born \subseteq Tasks  BY <1>1 DEF Born
<1>6. \/ cohort' = cohort /\ (pc = "set" => cohort[p] # {})
      \/ cohort' = [cohort EXCEPT ![p] = Born] /\ Opens(i)
  <2>1. CASE Opens(i) /\ cohort[p] = {}  BY <2>1 DEF Compare
  <2>2. CASE Opens(i) /\ cohort[p] # {}  BY <2>2 DEF Compare
  <2>3. CASE ~Opens(i)
    <3>1. thr' = [thr EXCEPT ![i].pc = "wait"] /\ cohort' = cohort
      BY <2>3 DEF Compare, Goes
    <3>2. thr'[i].pc = "wait"  BY <1>1, <3>1 DEF TypeOK
    <3> QED  BY <1>3, <3>1, <3>2
  <2> QED  BY <2>1, <2>2, <2>3
<1>7. /\ cohort' \in [Phases -> SUBSET Tasks]
      /\ \A q \in Phases : cohort[q] # {} => cohort'[q] # {}
      /\ pc = "set" => cohort'[p] # {}
      /\ \A q \in Phases : \A j \in cohort'[q] : Finished(j, q)
  <2>1. CASE cohort' = cohort /\ (pc = "set" => cohort[p] # {})
    BY <1>1, <2>1 DEF TypeOK, Opening
  <2>2. CASE cohort' = [cohort EXCEPT ![p] = Born] /\ Opens(i)
    <3>1. \A j \in Born : Finished(j, p)  BY <1>1, <2>2, OpensMeansAllFinished
    <3>2. cohort'[p] = Born /\ \A q \in Phases : q # p => cohort'[q] = cohort[q]
      BY <1>1, <2>2 DEF TypeOK
    <3>3. cohort' \in [Phases -> SUBSET Tasks]  BY <1>1, <1>5, <2>2 DEF TypeOK
    <3>4. \A q \in Phases : \A j \in cohort'[q] : Finished(j, q)
      BY <1>1, <3>1, <3>2 DEF Opening
    <3> QED  BY <1>5, <3>2, <3>3, <3>4
  <2> QED  BY <1>6, <2>1, <2>2
<1>8. TypeOK'
  <2>1. thr' \in [Tasks -> [pc : {"unborn", "run", "compare", "set", "notify", "wait",
                                 "block", "asleep", "loop"},
                           phase : Phases, val : 0..255]]
    BY <1>1, <1>2 DEF TypeOK
  <2> QED  BY <1>1, <1>7, <2>1 DEF TypeOK
<1>9. Creation'  BY <1>1, <1>3, <1>4, KeepsCreation
<1>10. Counting'  BY <1>1, <1>3, <1>4, KeepsCounting
<1>11. Opening'
  <2>1. \A q \in Phases : \A j \in cohort'[q] : Finished(j, q)'
    BY <1>4, <1>7 DEF SameFinished
  <2>2. \A j \in Tasks : thr'[j].pc = "set" => cohort'[thr'[j].phase] # {}
    BY <1>1, <1>3, <1>7 DEF Opening, TypeOK
  <2>3. \A q \in bits' : cohort'[q] # {}  BY <1>1, <1>7 DEF Opening, TypeOK
  <2>4. \A q \in Phases : \A j \in Tasks : Past(j, q)' => q \in bits'
    BY <1>1, <1>4 DEF Opening, SamePast
  <2> QED  BY <2>1, <2>2, <2>3, <2>4 DEF Opening
<1> QED  BY <1>8, <1>9, <1>10, <1>11 DEF IInv

ThreadType == [pc : {"unborn", "run", "compare", "set", "notify", "wait",
                     "block", "asleep", "loop"},
               phase : Phases, val : 0..255]

\* Steps inside a barrier that neither open nor pass it.
LEMMA QuietStep ==
  ASSUME IInv, UNCHANGED <<main, count, done, bits, cohort>>,
         thr' \in [Tasks -> ThreadType],
         \A j \in Tasks : \/ thr'[j] = thr[j]
                         \/ /\ thr[j].pc \in AtBarrier
                            /\ thr'[j].pc \in AtBarrier \ {"compare", "set"}
                            /\ thr'[j].phase = thr[j].phase
  PROVE  IInv'
<1>1. SameFinished /\ SamePast /\ Born' = Born  BY InsideBarrier
<1>2. TypeOK'  BY DEF IInv, TypeOK, ThreadType
<1>3. \A j \in Tasks : thr'[j].pc \in {"unborn", "compare", "set"} => thr'[j] = thr[j]
  BY DEF AtBarrier
<1>4. Creation'  BY <1>1, <1>3, KeepsCreation
<1>5. Counting'  BY <1>1, <1>3, KeepsCounting
<1>6. Opening'  BY <1>1, <1>3, KeepsOpening
<1> QED  BY <1>2, <1>4, <1>5, <1>6 DEF IInv

\* The bit is set only by a task whose comparison opened the barrier.
LEMMA SetBitsStep ==
  ASSUME IInv, NEW i \in Tasks, SetBits(i)
  PROVE  IInv'
<1> PICK p \in Phases : p = thr[i].phase  BY DEF IInv, TypeOK
<1>1. /\ TypeOK /\ Opening /\ thr[i].pc = "set" /\ thr[i].phase = p
      /\ UNCHANGED <<main, count, done, cohort>> /\ bits' = bits \cup {p}
  BY DEF IInv, SetBits
<1>2. PICK pc \in {"wait", "notify"} : thr' = [thr EXCEPT ![i].pc = pc]
  BY DEF SetBits, Goes
<1>3. /\ thr'[i].pc = pc /\ thr'[i].phase = p
      /\ \A j \in Tasks : j # i => thr'[j] = thr[j]
  BY <1>1, <1>2 DEF TypeOK
<1>4. SameFinished /\ SamePast /\ Born' = Born
  BY <1>1, <1>3, InsideBarrier DEF AtBarrier
<1>5. thr' \in [Tasks -> ThreadType]  BY <1>1, <1>2 DEF TypeOK, ThreadType
<1>6. TypeOK'  BY <1>1, <1>5 DEF TypeOK, ThreadType
<1>7. Creation'  BY <1>1, <1>3, <1>4, KeepsCreation
<1>8. Counting'  BY <1>1, <1>3, <1>4, KeepsCounting
<1>9. Opening'
  <2>1. \A q \in Phases : \A j \in cohort'[q] : Finished(j, q)'
    BY <1>1, <1>4 DEF SameFinished, Opening, TypeOK
  <2>2. \A j \in Tasks : thr'[j].pc = "set" => cohort'[thr'[j].phase] # {}
    BY <1>1, <1>3 DEF Opening
  <2>3. cohort[p] # {}  BY <1>1 DEF Opening
  <2>4. \A q \in bits' : cohort'[q] # {}  BY <1>1, <2>3 DEF Opening
  <2>5. \A q \in Phases : \A j \in Tasks : Past(j, q)' => q \in bits'
    BY <1>1, <1>4 DEF Opening, SamePast
  <2> QED  BY <2>1, <2>2, <2>4, <2>5 DEF Opening
<1> QED  BY <1>6, <1>7, <1>8, <1>9 DEF IInv

\* A task passes a barrier whose bit it saw set.
LEMMA PassStep ==
  ASSUME IInv, NEW i \in Tasks, Pass(i)
  PROVE  IInv'
<1> PICK p \in Phases : p = thr[i].phase  BY DEF IInv, TypeOK
<1> p \in Nat /\ p + 1 \in Nat /\ p >= 1 /\ p <= 3  BY DEF Phases
<1>1. /\ TypeOK /\ Opening /\ thr[i].pc = "wait" /\ thr[i].phase = p /\ p \in bits
      /\ UNCHANGED <<main, count, done, bits, cohort>>
  BY DEF IInv, Pass
<1>2. /\ \/ p = 3 /\ thr' = [thr EXCEPT ![i].pc = "loop"]
         \/ p # 3 /\ thr' = [thr EXCEPT ![i] = [pc |-> "run", phase |-> p + 1, val |-> 0]]
      /\ \A j \in Tasks : j # i => thr'[j] = thr[j]
  BY <1>1 DEF TypeOK, Pass
<1>3. \/ p = 3 /\ thr'[i].pc = "loop" /\ thr'[i].phase = 3
      \/ p # 3 /\ thr'[i].pc = "run" /\ thr'[i].phase = p + 1
  BY <1>1, <1>2 DEF TypeOK
<1>4. ASSUME NEW q \in Phases, NEW j \in Tasks
      PROVE  Finished(j, q)' = Finished(j, q) /\ (Past(j, q)' => q \in bits)
  <2>1. q \in Nat  BY DEF Phases
  <2>2. Past(j, q) => q \in bits  BY <1>1 DEF Opening
  <2>3. CASE j # i  BY <1>2, <2>2, <2>3 DEF Finished, Past
  <2>4. CASE j = i
    <3>1. CASE p = 3 /\ thr'[i].pc = "loop" /\ thr'[i].phase = 3
      <4>1. Finished(i, q)' = Finished(i, q)  BY <1>1, <3>1 DEF Finished
      <4>2. Past(i, q)' => q = p \/ Past(i, q)  BY <1>1, <2>1, <3>1 DEF Past
      <4> QED  BY <1>1, <2>2, <2>4, <4>1, <4>2
    <3>2. CASE p # 3 /\ thr'[i].pc = "run" /\ thr'[i].phase = p + 1
      <4>1. Finished(i, q)' = Finished(i, q)  BY <1>1, <2>1, <3>2 DEF Finished
      <4>2. Past(i, q)' => q = p \/ Past(i, q)  BY <1>1, <2>1, <3>2 DEF Past
      <4> QED  BY <1>1, <2>2, <2>4, <4>1, <4>2
    <3> QED  BY <1>3, <3>1, <3>2
  <2> QED  BY <2>3, <2>4
<1>5. SameFinished  BY <1>4 DEF SameFinished
<1>6. thr' \in [Tasks -> ThreadType]
  <2>1. CASE p = 3 /\ thr' = [thr EXCEPT ![i].pc = "loop"]
    BY <1>1, <2>1 DEF TypeOK, ThreadType
  <2>2. CASE p # 3 /\ thr' = [thr EXCEPT ![i] = [pc |-> "run", phase |-> p + 1, val |-> 0]]
    <3>1. p + 1 \in Phases /\ 0 \in 0..255  BY <2>2 DEF Phases
    <3>2. [pc |-> "run", phase |-> p + 1, val |-> 0] \in ThreadType
      BY <3>1 DEF ThreadType
    <3> QED  BY <1>1, <2>2, <3>2 DEF TypeOK, ThreadType
  <2> QED  BY <1>2, <2>1, <2>2
<1>7. TypeOK'  BY <1>1, <1>6 DEF TypeOK, ThreadType
<1>8. thr'[i].pc \notin {"unborn", "compare", "set"}  BY <1>3
<1>9. Born' = Born  BY <1>1, <1>2, <1>8 DEF Born
<1>10. Creation'  BY <1>1, <1>2, <1>8, <1>9, KeepsCreation
<1>11. Counting'  BY <1>1, <1>2, <1>5, <1>8, KeepsCounting
<1>12. Opening'
  <2>1. \A q \in Phases : \A j \in cohort'[q] : Finished(j, q)'
    BY <1>1, <1>4 DEF Opening, TypeOK
  <2>2. \A j \in Tasks : thr'[j].pc = "set" => cohort'[thr'[j].phase] # {}
    BY <1>1, <1>2, <1>8 DEF Opening
  <2>3. \A q \in bits' : cohort'[q] # {}  BY <1>1 DEF Opening
  <2>4. \A q \in Phases : \A j \in Tasks : Past(j, q)' => q \in bits'
    BY <1>1, <1>4
  <2> QED  BY <2>1, <2>2, <2>3, <2>4 DEF Opening
<1> QED  BY <1>7, <1>10, <1>11, <1>12 DEF IInv

\* The condition variable: whoever it wakes, and whenever, tests again.
LEMMA WaitingStep ==
  ASSUME IInv, NEW i \in Tasks,
         Notify(i) \/ FindClear(i) \/ Sleep(i) \/ SpuriousWake(i)
  PROVE  IInv'
<1> USE DEF AtBarrier, ThreadType
<1>1. TypeOK  BY DEF IInv
<1>2. UNCHANGED <<main, count, done, bits, cohort>>
  BY DEF Notify, FindClear, Sleep, SpuriousWake
<1>3. CASE Notify(i)
  <2>1. thr' = [j \in Tasks |-> IF j = i \/ thr[j].pc = "asleep"
                               THEN [thr[j] EXCEPT !.pc = "wait"] ELSE thr[j]]
        /\ thr[i].pc = "notify"
    BY <1>3 DEF Notify
  <2>2. thr' \in [Tasks -> ThreadType]  BY <1>1, <2>1 DEF TypeOK
  <2>3. ASSUME NEW j \in Tasks
        PROVE  \/ thr'[j] = thr[j]
               \/ /\ thr[j].pc \in AtBarrier
                  /\ thr'[j].pc \in AtBarrier \ {"compare", "set"}
                  /\ thr'[j].phase = thr[j].phase
    BY <1>1, <2>1 DEF TypeOK
  <2> QED  BY <1>2, <2>2, <2>3, QuietStep
<1>4. CASE FindClear(i) \/ Sleep(i) \/ SpuriousWake(i)
  <2>1. PICK pc \in {"block", "asleep", "wait"} : thr' = [thr EXCEPT ![i].pc = pc]
    BY <1>4 DEF FindClear, Sleep, SpuriousWake, Goes
  <2>2. thr[i].pc \in {"wait", "block", "asleep"}
    BY <1>4 DEF FindClear, Sleep, SpuriousWake
  <2>3. thr' \in [Tasks -> ThreadType]  BY <1>1, <2>1 DEF TypeOK
  <2>4. /\ thr'[i].pc = pc /\ thr'[i].phase = thr[i].phase
        /\ \A j \in Tasks : j # i => thr'[j] = thr[j]
    BY <1>1, <2>1 DEF TypeOK
  <2> QED  BY <1>2, <2>2, <2>3, <2>4, QuietStep
<1> QED  BY <1>3, <1>4

-----------------------------------------------------------------------------
(* The theorems                                                            *)

\* The invariant is inductive.
LEMMA NextInv == IInv /\ [Next]_vars => IInv'
<1> SUFFICES ASSUME IInv, [Next]_vars PROVE IInv'  OBVIOUS
<1>1. CASE Main  BY <1>1, MainStep, SpawnStep DEF Main
<1>2. CASE \E i \in Tasks : Run(i) \/ SpuriousWake(i)
  <2> PICK i \in Tasks : Run(i) \/ SpuriousWake(i)  BY <1>2
  <2> QED  BY BumpStep, CompareStep, SetBitsStep, PassStep, WaitingStep DEF Run
<1>3. CASE UNCHANGED vars
  <2>1. UNCHANGED <<main, count, done, bits, thr, cohort>>  BY <1>3 DEF vars
  <2>2. thr' \in [Tasks -> ThreadType]  BY <2>1 DEF IInv, TypeOK, ThreadType
  <2> QED  BY <2>1, <2>2, QuietStep
<1> QED  BY <1>1, <1>2, <1>3 DEF Next

\* Every behaviour of the start-up keeps the invariant.
LEMMA StartInv == Spec => []IInv
<1> QED  BY InitInv, NextInv, PTL DEF Spec

\* The variables of the start-up keep their types: s_task_count never falls
\* below zero nor exceeds HSYS_MAX_TASKS, and no phase counter wraps.
THEOREM StartTypes == Spec => []TypeOK
<1>1. IInv => TypeOK  BY DEF IInv
<1> QED  BY <1>1, StartInv, PTL

\* barrier_complete_phase: whatever the number of tasks, whichever creations
\* fail and however they interleave with the phases, no task goes past a
\* barrier before the tasks it was opened for have finished the phase.
THEOREM StartBarrier == Spec => []BarrierHolds
<1>1. IInv => BarrierHolds
  <2> SUFFICES ASSUME IInv, NEW p \in Phases, NEW i \in Tasks, Past(i, p)
               PROVE  cohort[p] # {} /\ \A j \in cohort[p] : Finished(j, p)
    BY DEF BarrierHolds
  <2> QED  BY DEF IInv, Opening
<1> QED  BY <1>1, StartInv, PTL
=============================================================================
