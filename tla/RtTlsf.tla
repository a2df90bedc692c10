------------------------------ MODULE RtTlsf ------------------------------
(***************************************************************************)
(* The real time heap (src/malloc/malloc.c with CONFIG_RTAI_USE_TLSF): a   *)
(* list of extents, each of them a pool of the Two Level Segregated Fit    *)
(* allocator.  Everything is measured in units of BLOCK_ALIGN: a header    *)
(* (BHDR_OVERHEAD) and the smallest block (MIN_BLOCK_SIZE) take one unit   *)
(* each.  The services run under the lock of the heap, hence one action    *)
(* each.  A header that was merged into another block is forgotten, its    *)
(* memory belongs to the block.                                            *)
(***************************************************************************)
EXTENDS Integers, Sequences, FiniteSets, FiniteSetsExt, SequencesExt

CONSTANTS
    Extents,        \* the number of extents
    Area,           \* the size of the first block of an extent
    Requests,       \* the sizes asked for
    MaxLog2Sli,     \* MAX_LOG2_SLI
    FliOffset       \* FLI_OFFSET

MaxSli == 2^MaxLog2Sli
SmallBlock == 2^(FliOffset + 1)

TlsfAssumption ==
    /\ Extents \in Nat \ {0} /\ Area \in Nat \ {0}
    /\ Requests \subseteq Nat
    /\ MaxLog2Sli \in Nat /\ FliOffset \in Nat
    /\ SmallBlock \div MaxSli = 1

VARIABLES
    pool,       \* of an extent
    live        \* what the users of the heap hold: the size they asked for

vars == <<pool, live>>

----------------------------------------------------------------------------
\* The two levels

MsBit(r) == CHOOSE k \in 0..r : 2^k <= r /\ r < 2^(k + 1)

(* The class of a block of size r.                                         *)
MappingInsert(r) ==
    IF r < SmallBlock THEN <<0, r>>
    ELSE <<MsBit(r) - FliOffset, (r \div 2^(MsBit(r) - MaxLog2Sli)) - MaxSli>>

\* a block of the class of the request may be smaller than the request
RoundedDown(r) ==
    LET step == 2^(MsBit(r) - MaxLog2Sli) IN
    IF r < SmallBlock THEN r ELSE (r \div step) * step

(* The size r is rounded up to the start of a class, which is also the     *)
(* class where the search starts.                                          *)
RoundedUp(r) ==
    LET step == 2^(MsBit(r) - MaxLog2Sli) IN
    IF r < SmallBlock THEN r ELSE ((r + step - 1) \div step) * step
MappingSearch(r) == [size |-> RoundedUp(r), class |-> MappingInsert(RoundedUp(r))]

Class == {MappingInsert(r) : r \in 0..(2 * Area)}
NoClass == <<-1, -1>>

----------------------------------------------------------------------------
\* The lists of free blocks and their bitmaps

InsertBlock(p, b) ==
    LET c == MappingInsert(p.hdr[b].size) IN
    [p EXCEPT !.matrix[c] = <<b>> \o @, !.sl_bitmap = @ \cup {c}, !.fl_bitmap = @ \cup {c[1]}]

(* The bits are cleared with the last block of a list.                     *)
ClearedBits(p, c) == p.matrix[c] = <<>>

(* A first level bit stays while a list of its row has blocks.             *)
FlBits(p) == {c[1] : c \in p.sl_bitmap}

ExtractBlock(p, b) ==
    LET c == MappingInsert(p.hdr[b].size)
        q == [p EXCEPT !.matrix[c] = SelectSeq(@, LAMBDA x : x # b)]
        r == IF ClearedBits(q, c) THEN [q EXCEPT !.sl_bitmap = @ \ {c}] ELSE q
    IN  [r EXCEPT !.fl_bitmap = @ \cap FlBits(r)]

FindSuitableBlock(p, c) ==
    LET same  == {s \in 0..MaxSli : <<c[1], s>> \in p.sl_bitmap /\ s >= c[2]}
        above == {f \in p.fl_bitmap : f > c[1]}
        first(f) == <<f, Min({s \in 0..MaxSli : <<f, s>> \in p.sl_bitmap})>>
    IN  IF same # {} THEN <<c[1], Min(same)>>
        ELSE IF above # {} THEN first(Min(above))
        ELSE NoClass

----------------------------------------------------------------------------
\* Blocks: a header holds the size, whether the block and the one before it
\* are free, and where the one before starts if it is free

Header(size, free, prevFree, prev) ==
    [size |-> size, free |-> free, prevFree |-> prevFree, prev |-> prev]

NoPrev == -1
NextBlock(b, size) == b + 1 + size
End == NextBlock(0, Area)

(* init_memory_pool and process_area: one free block, and a used one of    *)
(* size 0 at the end.                                                      *)
InitMemoryPool ==
    InsertBlock(
        [hdr |-> [b \in {0, End} |-> IF b = 0 THEN Header(Area, TRUE, FALSE, NoPrev)
                                      ELSE Header(0, FALSE, TRUE, 0)],
         matrix |-> [c \in Class |-> <<>>], sl_bitmap |-> {}, fl_bitmap |-> {},
         used_size |-> 0], 0)

Split(rest) == rest >= 2

(* The header of the next block and of the block itself, and the block     *)
(* that is split off, when b is allocated.                                 *)
Carved(hdr, b, size) ==
    LET rest == hdr[b].size - size
        b2   == NextBlock(b, size)
        next == NextBlock(b, hdr[b].size)
    IN  IF Split(rest)
        THEN [x \in DOMAIN hdr \cup {b2} |->
                 IF x = b2 THEN Header(rest - 1, TRUE, FALSE, NoPrev)
                 ELSE IF x = next THEN [hdr[x] EXCEPT !.prev = b2]
                 ELSE IF x = b THEN [hdr[x] EXCEPT !.size = size, !.free = FALSE]
                 ELSE hdr[x]]
        ELSE [hdr EXCEPT ![next].prevFree = FALSE, ![next].prev = NoPrev, ![b].free = FALSE]

(* malloc_ex: the block that is given and the pool afterwards.             *)
MallocEx(p, r) ==
    LET s == MappingSearch(r)
        c == FindSuitableBlock(p, s.class)
        b == Head(p.matrix[c])
        q == ExtractBlock(p, b)
        h == [q EXCEPT !.hdr = Carved(@, b, s.size)]
        k == IF Split(p.hdr[b].size - s.size) THEN InsertBlock(h, NextBlock(b, s.size)) ELSE h
    IN  IF c = NoClass THEN [adr |-> NoPrev, pool |-> p]
        ELSE [adr |-> b, pool |-> [k EXCEPT !.used_size = @ + k.hdr[b].size + 1]]

\* the header of the second block is lost
JoinedShort(hdr, b, n) ==
    [x \in DOMAIN hdr \ {n} |->
        IF x = b THEN [hdr[b] EXCEPT !.size = @ + hdr[n].size] ELSE hdr[x]]

(* The headers after block b was joined with the free block n that follows.*)
Joined(hdr, b, n) ==
    [x \in DOMAIN hdr \ {n} |->
        IF x = b THEN [hdr[b] EXCEPT !.size = @ + hdr[n].size + 1] ELSE hdr[x]]

(* free_ex joins the block with the free blocks on both sides.             *)
FreeEx(p, b) ==
    LET p1   == [p EXCEPT !.hdr[b].free = TRUE, !.used_size = @ - (p.hdr[b].size + 1)]
        n    == NextBlock(b, p.hdr[b].size)
        p2   == IF p1.hdr[n].free
                THEN [ExtractBlock(p1, n) EXCEPT !.hdr = Joined(@, b, n)] ELSE p1
        prev == p2.hdr[b].prev
        p3   == IF p2.hdr[b].prevFree
                THEN [ExtractBlock(p2, prev) EXCEPT !.hdr = Joined(@, prev, b)] ELSE p2
        f    == IF p2.hdr[b].prevFree THEN prev ELSE b
        p4   == InsertBlock(p3, f)
        end  == NextBlock(f, p4.hdr[f].size)
    IN  [p4 EXCEPT !.hdr[end].prevFree = TRUE, !.hdr[end].prev = f]

----------------------------------------------------------------------------
Init ==
    /\ pool = [e \in 1..Extents |-> InitMemoryPool]
    /\ live = <<>>

(* rtheap_alloc: the first extent that has a block.                        *)
Alloc(r) ==
    LET has == {e \in 1..Extents : MallocEx(pool[e], r).adr # NoPrev} IN
    /\ r > 0 /\ has # {}
    /\ LET e == Min(has)
           m == MallocEx(pool[e], r)
       IN  /\ pool' = [pool EXCEPT ![e] = m.pool]
           /\ live' = [x \in DOMAIN live \cup {<<e, m.adr>>} |->
                          IF x = <<e, m.adr>> THEN r ELSE live[x]]

(* rtheap_free finds the extent by the address.                            *)
Free(x) ==
    /\ pool' = [pool EXCEPT ![x[1]] = FreeEx(@, x[2])]
    /\ live' = [y \in DOMAIN live \ {x} |-> live[y]]

Next ==
    \/ \E r \in Requests : Alloc(r)
    \/ \E x \in DOMAIN live : Free(x)

Spec == Init /\ [][Next]_vars

----------------------------------------------------------------------------
HeaderOK(h) ==
    /\ h.size \in 0..Area /\ h.free \in BOOLEAN /\ h.prevFree \in BOOLEAN
    /\ h.prev \in -1..End

TlsfTypeOK ==
    \A e \in 1..Extents :
        /\ DOMAIN pool[e].hdr \subseteq 0..End
        /\ \A b \in DOMAIN pool[e].hdr : HeaderOK(pool[e].hdr[b])
        /\ pool[e].used_size \in Nat

TagsAgree(hdr) ==
    /\ {0, End} \subseteq DOMAIN hdr
    /\ \A b \in DOMAIN hdr \ {End} :
          LET n == NextBlock(b, hdr[b].size) IN
          /\ hdr[b].size > 0
          /\ n \in DOMAIN hdr
          /\ \A x \in DOMAIN hdr : ~(b < x /\ x < n)
          /\ hdr[n].prevFree = hdr[b].free
          /\ hdr[b].free => hdr[n].prev = b /\ ~hdr[n].free

ListsExact(p) ==
    LET listed == UNION {ToSet(p.matrix[c]) : c \in Class} IN
    /\ listed = {b \in DOMAIN p.hdr : p.hdr[b].free}
    /\ \A c \in Class :
          /\ IsInjective(p.matrix[c])
          /\ \A b \in ToSet(p.matrix[c]) : MappingInsert(p.hdr[b].size) = c
          /\ c \in p.sl_bitmap <=> p.matrix[c] # <<>>
    /\ p.fl_bitmap = FlBits(p)

(* The blocks of an extent tile it, whatever was allocated, split, freed   *)
(* and joined, each knows whether and where its left neighbour is free, no *)
(* two free blocks are neighbours, and the lists and bitmaps hold exactly  *)
(* the free blocks, each in the class of its size: nothing of the heap is  *)
(* lost (the EXTRACT, INSERT and MAPPING macros of malloc.c).              *)
HeapTiled == \A e \in 1..Extents : TagsAgree(pool[e].hdr) /\ ListsExact(pool[e])

GoodFit(e, r) ==
    MallocEx(pool[e], r).adr = NoPrev
        => \A b \in DOMAIN pool[e].hdr :
              pool[e].hdr[b].free => pool[e].hdr[b].size < RoundedUp(r)

(* What the users hold are used blocks, all of them, each at least as long *)
(* as was asked for, and used_size counts them and their headers (the      *)
(* rounding of MAPPING_SEARCH lets a block of a class serve any request    *)
(* that searches from this class).  A request fails only when no free      *)
(* block is as long as the start of the next class.                        *)
HeapServed ==
    \A e \in 1..Extents :
        LET held == {b \in DOMAIN pool[e].hdr \ {End} : ~pool[e].hdr[b].free} IN
        /\ {x \in DOMAIN live : x[1] = e} = {e} \X held
        /\ \A b \in held : pool[e].hdr[b].size >= live[<<e, b>>]
        /\ pool[e].used_size = MapThenSumSet(LAMBDA b : pool[e].hdr[b].size + 1, held)
        /\ \A r \in Requests \ {0} : GoodFit(e, r)

=============================================================================
