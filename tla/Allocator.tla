----------------------------- MODULE Allocator -----------------------------
(***************************************************************************)
(* 16-1-26/8-7.c and 8-8.c: the storage allocator, a circular list of free *)
(* blocks in the order of their addresses.                                 *)
(*                                                                         *)
(* Addresses are counted in headers: 0 is the static header base, 1 and up *)
(* what sbrk() gives.  A block begins with its header.                     *)
(***************************************************************************)
EXTENDS Naturals, FiniteSets

CONSTANTS NALLOC, MAXALLOC,   \* the macros
          Units,              \* how far sbrk() can go
          Requests            \* the sizes that are asked for, in bytes

ASSUME AllocAssumption ==
  /\ NALLOC \in Nat \ {0} /\ MAXALLOC \in Nat /\ Requests \subseteq Nat
  /\ Units \in Nat /\ Units >= 2

HeaderSize == 16              \* sizeof(My_Header)
NULL == Units + 1
Addresses == 0 .. Units

VARIABLES mem,    \* the headers, freep and the break
          held,   \* the blocks that the program has
          freed,  \* addresses that it had and freed
          story   \* "fine", "largest" after a request near MAXALLOC, or "over":
                  \* the process aborted or wrote into its own list

allocVars == <<mem, held, freed, story>>

AllocInit == /\ mem = [ptr |-> [a \in Addresses |-> 0], size |-> [a \in Addresses |-> 0],
                       freep |-> NULL, brk |-> 1]
             /\ held = {} /\ freed = {} /\ story = "fine"

(* The list from freep on: its k-th block, and all of them.                *)
Ring(m) == LET at[k \in Addresses] == IF k = 0 THEN m.freep ELSE m.ptr[at[k - 1]] IN at
Listed(m) == IF m.freep = NULL THEN {} ELSE {Ring(m)[k] : k \in Addresses}

-----------------------------------------------------------------------------
(* my_free.  The new block goes behind p and is joined to the neighbours   *)
(* that it touches.                                                        *)
Implausible(size) == size = 0 \/ size > MAXALLOC \div HeaderSize

Behind(m, bp) ==
  CHOOSE p \in Listed(m) : \/ p < bp /\ bp < m.ptr[p]
                           \/ p >= m.ptr[p] /\ (bp > p \/ bp < m.ptr[p])

StaysLinkedMutant(m, bp, p) ==
  IF bp + m.size[bp] = m.ptr[p]
  THEN [m EXCEPT !.size[bp] = @ + m.size[m.ptr[p]], !.ptr[bp] = m.ptr[p]]
  ELSE [m EXCEPT !.ptr[bp] = m.ptr[p]]
JoinUpper(m, bp, p) ==
  IF bp + m.size[bp] = m.ptr[p]
  THEN [m EXCEPT !.size[bp] = @ + m.size[m.ptr[p]], !.ptr[bp] = m.ptr[m.ptr[p]]]
  ELSE [m EXCEPT !.ptr[bp] = m.ptr[p]]
JoinLower(m, bp, p) ==
  IF p + m.size[p] = bp
  THEN [m EXCEPT !.size[p] = @ + m.size[bp], !.ptr[p] = m.ptr[bp]]
  ELSE [m EXCEPT !.ptr[p] = bp]

AlreadyFree(m, bp) == bp \in Listed(m)

my_free(m, bp) ==
  IF Implausible(m.size[bp]) \/ AlreadyFree(m, bp) THEN m
  ELSE LET p == Behind(m, bp) IN [JoinLower(JoinUpper(m, bp, p), bp, p) EXCEPT !.freep = p]

-----------------------------------------------------------------------------
(* my_malloc.                                                              *)
nunits(nbytes) == (nbytes + HeaderSize - 1) \div HeaderSize + 1
Plausible(nbytes) == nbytes > 0 /\ nbytes <= MAXALLOC

Started(m) == IF m.freep = NULL THEN [m EXCEPT !.ptr[0] = 0, !.size[0] = 0, !.freep = 0] ELSE m

(* The first block that is big enough, behind freep; the last is freep.    *)
Fits(m, n) == {k \in 1 .. Cardinality(Listed(m)) : m.size[Ring(m)[k]] >= n}
First(m, n) == CHOOSE k \in Fits(m, n) : \A j \in Fits(m, n) : k <= j

(* Its tail is taken; an exact fit leaves the list.                        *)
Taken(m, n) ==
  LET k == First(m, n)
      p == Ring(m)[k]
      prevp == Ring(m)[k - 1]
      at == p + m.size[p] - n
  IN  [at |-> at,
       mem |-> IF m.size[p] = n THEN [m EXCEPT !.ptr[prevp] = m.ptr[p], !.freep = prevp]
               ELSE [m EXCEPT !.size[p] = @ - n, !.size[at] = n, !.freep = prevp]]

(* my_morecore.  A region that is as large as MAXALLOC and its header is   *)
(* one that my_free rejects.                                               *)
Region(n) == IF n < NALLOC THEN NALLOC ELSE n
HasCore(m, n) == m.brk + Region(n) <= Units + 1
my_morecore(m, n) ==
  my_free([m EXCEPT !.size[m.brk] = Region(n), !.brk = @ + Region(n)], m.brk)

(* The search goes on with the region, or asks for another one until there *)
(* is none.                                                                *)
Searched(m, n) ==
  LET tried[k \in Addresses] ==
        IF k = 0 THEN m
        ELSE LET last == tried[k - 1]
             IN  IF Fits(last, n) = {} /\ HasCore(last, n) THEN my_morecore(last, n) ELSE last
  IN  tried[Units \div NALLOC]

my_malloc(nbytes) ==
  LET n == nunits(nbytes)
      m == Searched(Started(mem), n)
      story1 == IF Implausible(n) THEN "largest" ELSE story
  IN  /\ Plausible(nbytes) /\ story # "over"
      /\ story' = story1
      /\ IF Fits(m, n) = {}
         THEN mem' = m /\ UNCHANGED <<held, freed>>
         ELSE /\ mem' = Taken(m, n).mem
              /\ held' = held \cup {[at |-> Taken(m, n).at, size |-> n]}
              /\ freed' = freed \ (Taken(m, n).at .. Taken(m, n).at + n - 1)

(* A size that is not plausible gives NULL.                                *)
Refused(nbytes) == ~Plausible(nbytes) /\ UNCHANGED allocVars

-----------------------------------------------------------------------------
FreeHeld(b) ==
  /\ story # "over" /\ mem' = my_free(mem, b.at)
  /\ held' = held \ {b} /\ freed' = freed \cup {b.at} /\ UNCHANGED story

(* A block is freed twice.  The list is searched for it; once it is part   *)
(* of another block it is not found.                                       *)
FreeAgain(a) ==
  /\ story # "over" /\ mem' = my_free(mem, a)
  /\ story' = IF a \in Listed(mem) \/ Implausible(mem.size[a]) THEN story ELSE "over"
  /\ UNCHANGED <<held, freed>>

(* 8-8.c: bfree gives an array of n bytes to the C library's free(), which *)
(* did not allocate it: that aborts, or takes it.  This list has no part.  *)
bfree(n) == /\ n > 0 /\ n <= MAXALLOC /\ n \div HeaderSize >= 2
            /\ story' \in {"over", story}
            /\ UNCHANGED <<mem, held, freed>>

(* The C library moves the break too.                                      *)
LibraryGrows == /\ mem.brk < Units /\ mem' = [mem EXCEPT !.brk = @ + 1]
                /\ UNCHANGED <<held, freed, story>>

AllocNext == \/ \E nbytes \in Requests : my_malloc(nbytes) \/ Refused(nbytes) \/ bfree(nbytes)
             \/ \E b \in held : FreeHeld(b)
             \/ \E a \in freed : FreeAgain(a)
             \/ LibraryGrows

-----------------------------------------------------------------------------
Extent(a, size) == a .. a + size - 1
FreeBlocks == {[at |-> a, size |-> mem.size[a]] : a \in Listed(mem) \ {0}}
Disjoint(blocks) == \A b, c \in blocks : b = c \/ Extent(b.at, b.size) \cap Extent(c.at, c.size) = {}

(* Free and held blocks never overlap, the list is in the order of the     *)
(* addresses and no two free blocks touch; a block that the program freed  *)
(* is memory that can be given again, unless a block that is no longer in  *)
(* the list of its own was freed a second time (line 45 of 8-8.c does not  *)
(* find it), or a request came so near to MAXALLOC that my_free takes its  *)
(* header for a wrong one (line 42).                                       *)
BlocksArePartition ==
  story # "over" =>
    /\ Disjoint(FreeBlocks \cup held)
    /\ \A a \in Listed(mem) : mem.ptr[a] > a \/ mem.ptr[a] = 0
    /\ \A b, c \in FreeBlocks : b.at + b.size # c.at
    /\ story = "fine" => \A a \in freed : \E b \in FreeBlocks : a \in Extent(b.at, b.size)
=============================================================================
