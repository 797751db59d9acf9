---------------------------------- MODULE Heap ----------------------------------
(***************************************************************************)
(* The kernel heap of src/src/memory.rs: a bump pointer, and one free list *)
(* for each power of two up to MAX_BLOCK.  A new block is carved with the  *)
(* size that was asked for; a freed one goes on the list of its size       *)
(* class, from which any request of that class takes it.                   *)
(*                                                                         *)
(* alloc and dealloc hold the allocator's lock, so each is one step; the   *)
(* owners are whatever holds a Box, a Vec or a String.  Rust frees a block *)
(* with the layout it was allocated with.                                  *)
(*                                                                         *)
(* A block that is taken from a list for more than it was carved with runs *)
(* into what lies behind it.  Where that is the link of a free block, the  *)
(* owner's data replaces the link and the list goes on anywhere.           *)
(***************************************************************************)
EXTENDS Naturals, Sequences, FiniteSets

CONSTANTS
  HeapStart, HeapSize,    \* the arguments of init, in bytes
  MIN_BLOCK_SIZE,         \* 8 in the code: room for the link of a free list
  MAX_BLOCK,              \* 2048 in the code: the largest size class
  Layout,                 \* the layouts that are requested
  Owner,                  \* bound: how many blocks are live at a time
  Wild                    \* bound: the addresses that an overwritten link can hold

ASSUME HeapAssumption ==
  /\ HeapStart \in Nat /\ HeapSize \in Nat
  /\ MIN_BLOCK_SIZE \in Nat \ {0} /\ MAX_BLOCK \in Nat
  /\ Layout \subseteq [size : Nat, align : Nat \ {0}]
  /\ Wild \subseteq Nat

VARIABLES
  INITIALIZED,
  next_free_byte,
  buckets,     \* per size class: the free addresses, the first of the list last
  live,        \* per owner: its block, or NoBlock
  carved,      \* history: the blocks as they were cut off the bump pointer
  stretched,   \* history: a block was handed out for more than it was carved with
  clobbered    \* history: a link of a free list was overwritten

vars == <<INITIALIZED, next_free_byte, buckets, live, carved, stretched, clobbered>>

NoBlock == << >>
heap_end == HeapStart + HeapSize

\* The powers of two that have a list.
Class == {c \in 1 .. MAX_BLOCK : \E k \in 0 .. c : c = 2^k}

--------------------------------------------------------------------------------
(* Sizes and places *)

\* A request is never smaller than a link.
Padded(l) == [l EXCEPT !.size = IF @ < MIN_BLOCK_SIZE THEN MIN_BLOCK_SIZE ELSE @]

\* The size class of a padded layout, as a set: empty when it is too large for
\* every list.
target_bucket_index(l) ==
  {c \in Class : /\ l.size <= c /\ l.align <= c
                 /\ \A d \in Class : l.size <= d /\ l.align <= d => c <= d}

AlignUp(n, align) == ((n + align - 1) \div align) * align

BlockAt(a, l) == [addr |-> a, size |-> l.size, align |-> l.align]

Apart(a, b) == a.addr + a.size <= b.addr \/ b.addr + b.size <= a.addr

\* The ListNode at the start of a free block.
Link(a) == [addr |-> a, size |-> MIN_BLOCK_SIZE]

\* Some link lies in a block that is in use, or in the link of another list entry.
LinkOverwritten ==
  \E c \in Class : \E i \in DOMAIN buckets[c] :
    \/ \E o \in Owner : live[o] # NoBlock /\ ~Apart(live[o], Link(buckets[c][i]))
    \/ \E d \in Class : \E j \in DOMAIN buckets[d] :
         <<c, i>> # <<d, j>> /\ ~Apart(Link(buckets[c][i]), Link(buckets[d][j]))

\* The block carved at a has the size and the alignment that l asks for.
Covers(a, l) ==
  \E p \in carved : p.addr = a /\ l.size <= p.size /\ p.align % l.align = 0

--------------------------------------------------------------------------------
Init ==
  /\ INITIALIZED = FALSE
  /\ next_free_byte = 0
  /\ buckets = [c \in Class |-> << >>]
  /\ live = [o \in Owner |-> NoBlock]
  /\ carved = {}
  /\ stretched = FALSE
  /\ clobbered = FALSE

init ==
  /\ ~INITIALIZED
  /\ INITIALIZED' = TRUE
  /\ next_free_byte' = HeapStart
  /\ UNCHANGED <<buckets, live, carved, stretched, clobbered>>

\* Mutant of fallback_alloc: only the start of the block is compared with
\* heap_end.
fallback_allocStartOnly(o, l) ==
  LET start == AlignUp(next_free_byte, l.align) IN
  /\ start <= heap_end
  /\ next_free_byte' = start + l.size
  /\ live' = [live EXCEPT ![o] = BlockAt(start, l)]
  /\ carved' = carved \cup {BlockAt(start, l)}

\* Mutant of fallback_alloc: the bytes skipped for the alignment are not counted.
fallback_allocForgetsGap(o, l) ==
  LET start == AlignUp(next_free_byte, l.align) IN
  /\ start + l.size <= heap_end
  /\ next_free_byte' = next_free_byte + l.size
  /\ live' = [live EXCEPT ![o] = BlockAt(start, l)]
  /\ carved' = carved \cup {BlockAt(start, l)}

\* The next free bytes, if the heap has enough left.
fallback_alloc(o, l) ==
  LET start == AlignUp(next_free_byte, l.align) IN
  /\ start + l.size <= heap_end
  /\ next_free_byte' = start + l.size
  /\ live' = [live EXCEPT ![o] = BlockAt(start, l)]
  /\ carved' = carved \cup {BlockAt(start, l)}

\* What the link of the first block of list c leads to.  After a link was
\* overwritten that is the end of the list (alloc fills a block with zeroes) or
\* whatever its new owner wrote.
Rest(c) ==
  IF clobbered THEN {<< >>} \cup {<<a>> : a \in Wild}
  ELSE {SubSeq(buckets[c], 1, Len(buckets[c]) - 1)}

\* Mutant of Pop: the head of the list is not advanced.
PopKeepsHead(o, l, c) ==
  LET a == buckets[c][Len(buckets[c])] IN
  /\ live' = [live EXCEPT ![o] = BlockAt(a, l)]
  /\ stretched' = (stretched \/ ~Covers(a, l))
  /\ UNCHANGED buckets

\* The first block of the list of the class, whatever it was carved with.
Pop(o, l, c) ==
  LET a == buckets[c][Len(buckets[c])] IN
  /\ live' = [live EXCEPT ![o] = BlockAt(a, l)]
  /\ \E rest \in Rest(c) : buckets' = [buckets EXCEPT ![c] = rest]
  /\ stretched' = (stretched \/ ~Covers(a, l))

\* alloc, when it gives a block; before init it only returns null.
alloc(o, layout) ==
  LET l == Padded(layout)
      index == target_bucket_index(l)
  IN /\ INITIALIZED /\ live[o] = NoBlock
     /\ \/ \E c \in index : /\ buckets[c] # << >>
                            /\ Pop(o, l, c)
                            /\ UNCHANGED <<next_free_byte, carved>>
        \/ /\ \A c \in index : buckets[c] = << >>
           /\ fallback_alloc(o, l)
           /\ UNCHANGED <<buckets, stretched>>
     /\ clobbered' = (clobbered \/ LinkOverwritten')
     /\ UNCHANGED INITIALIZED

\* alloc, when the heap is used up: null, and nothing changes.
allocNull(o, layout) ==
  LET l == Padded(layout)
  IN /\ INITIALIZED /\ live[o] = NoBlock
     /\ \A c \in target_bucket_index(l) : buckets[c] = << >>
     /\ AlignUp(next_free_byte, l.align) + l.size > heap_end
     /\ UNCHANGED vars

\* A block too large for every list is not given back at all.
dealloc(o) ==
  LET b == live[o]
      index == target_bucket_index(b)
  IN /\ b # NoBlock
     /\ live' = [live EXCEPT ![o] = NoBlock]
     /\ buckets' = [c \in Class |-> IF c \in index THEN Append(buckets[c], b.addr)
                                    ELSE buckets[c]]
     /\ clobbered' = (clobbered \/ LinkOverwritten')
     /\ UNCHANGED <<INITIALIZED, next_free_byte, carved, stretched>>

Next ==
  \/ init
  \/ \E o \in Owner : dealloc(o) \/ \E l \in Layout : alloc(o, l) \/ allocNull(o, l)

Spec == Init /\ [][Next]_vars

--------------------------------------------------------------------------------
(* Properties *)

Block == [addr : Nat, size : Nat, align : Nat \ {0}]

TypeOK ==
  /\ INITIALIZED \in BOOLEAN
  /\ next_free_byte \in Nat
  /\ buckets \in [Class -> Seq(Nat)]
  /\ live \in [Owner -> Block \cup {NoBlock}]
  /\ carved \subseteq Block
  /\ stretched \in BOOLEAN
  /\ clobbered \in BOOLEAN

\* Requests of any layouts may be mixed in a size class: as long as none of
\* them got a block that was carved for less, no sequence of alloc and dealloc
\* makes two live blocks overlap, and no owner writes over the link of a free
\* list.  So the only way to an overlap is the one that memory.rs leaves open: a
\* block of 24 bytes that comes back for a request of 32.
BlocksApart ==
  ~stretched =>
    /\ \A o, p \in Owner : o # p /\ live[o] # NoBlock /\ live[p] # NoBlock
         => Apart(live[o], live[p])
    /\ ~clobbered

\* Under the same condition every block that alloc hands out lies in the heap,
\* below the bump pointer, and has the alignment that was asked for, also when
\* it comes from a free list that a request of another layout has filled.
BlocksFit ==
  ~stretched =>
    \A o \in Owner : live[o] # NoBlock =>
      /\ HeapStart <= live[o].addr /\ live[o].addr + live[o].size <= next_free_byte
      /\ next_free_byte <= heap_end
      /\ live[o].addr % live[o].align = 0

\* Under the same condition no block is handed out twice and none gets lost:
\* an address is in the hands of one owner or once on one list, and every block
\* that was carved for a size class is in use or on the list of that class.
OneHolder ==
  ~stretched =>
    /\ \A o, p \in Owner : o # p /\ live[o] # NoBlock /\ live[p] # NoBlock
         => live[o].addr # live[p].addr
    /\ \A o \in Owner, c \in Class : live[o] # NoBlock
         => \A i \in DOMAIN buckets[c] : live[o].addr # buckets[c][i]
    /\ \A c, d \in Class : \A i \in DOMAIN buckets[c], j \in DOMAIN buckets[d] :
         <<c, i>> # <<d, j>> => buckets[c][i] # buckets[d][j]
    /\ \A p \in carved : \A c \in target_bucket_index(p) :
         \/ \E o \in Owner : live[o] # NoBlock /\ live[o].addr = p.addr
         \/ \E i \in DOMAIN buckets[c] : buckets[c][i] = p.addr

\* Whatever happens to the lists, what the bump pointer has passed is carved
\* into aligned blocks that share no byte, inside the heap.
Carving ==
  /\ \A p, q \in carved : p # q => Apart(p, q)
  /\ \A p \in carved :
       /\ p.size >= MIN_BLOCK_SIZE /\ p.addr % p.align = 0
       /\ HeapStart <= p.addr /\ p.addr + p.size <= next_free_byte
  /\ INITIALIZED => HeapStart <= next_free_byte /\ next_free_byte <= heap_end
  /\ ~INITIALIZED => /\ carved = {} /\ ~stretched
                     /\ \A o \in Owner : live[o] = NoBlock
                     /\ \A c \in Class : buckets[c] = << >>

\* What is in use or on a list is a carved block of the same class, and large
\* enough for its owner.
HeldAreCarved ==
  ~stretched =>
    /\ \A o \in Owner : live[o] # NoBlock =>
         \E p \in carved : /\ p.addr = live[o].addr
                           /\ live[o].size <= p.size /\ p.align % live[o].align = 0
                           /\ target_bucket_index(p) = target_bucket_index(live[o])
    /\ \A c \in Class : \A i \in DOMAIN buckets[c] :
         \E p \in carved : p.addr = buckets[c][i] /\ c \in target_bucket_index(p)

\* The inductive invariant of the proofs.
IndInv ==
  /\ TypeOK /\ Carving /\ HeldAreCarved /\ OneHolder
  /\ ~stretched => ~clobbered
================================================================================
