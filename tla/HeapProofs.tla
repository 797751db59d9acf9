------------------------------- MODULE HeapProofs -------------------------------
(***************************************************************************)
(* The heap's inductive invariant, for every arena, every set of layouts   *)
(* and every number of owners.  What was carved stays apart whatever the   *)
(* lists hold; the rest says who holds what was carved.                    *)
(***************************************************************************)
EXTENDS Heap, TLAPS

USE ZenonT(5), SMTT(30)

\* The rounding of fallback_alloc: a multiple of the alignment, not below the
\* pointer.
LEMMA AlignUpFacts ==
  ASSUME NEW n \in Nat, NEW a \in Nat \ {0}
  PROVE  AlignUp(n, a) \in Nat /\ AlignUp(n, a) >= n /\ AlignUp(n, a) % a = 0
<1>1. AlignUp(n, a) \in Nat
  BY DEF AlignUp
<1>2. AlignUp(n, a) >= n
  BY DEF AlignUp
<1>3. AlignUp(n, a) % a = 0
  BY DEF AlignUp
<1> QED BY <1>1, <1>2, <1>3

\* A layout has at most one size class.
LEMMA OneClass ==
  ASSUME NEW l, NEW c \in target_bucket_index(l), NEW d \in target_bucket_index(l)
  PROVE  c = d /\ c \in Class
BY DEF target_bucket_index, Class

\* Taking the head of a free list, kept at the end of the sequence.
LEMMA PopFacts ==
  ASSUME NEW S, NEW s \in Seq(S), s # << >>
  PROVE  /\ Len(s) \in DOMAIN s /\ DOMAIN SubSeq(s, 1, Len(s) - 1) = DOMAIN s \ {Len(s)}
         /\ SubSeq(s, 1, Len(s) - 1) \in Seq(S)
         /\ \A i \in DOMAIN s \ {Len(s)} : SubSeq(s, 1, Len(s) - 1)[i] = s[i]
<1>1. Len(s) \in Nat \ {0} /\ DOMAIN s = 1 .. Len(s)
  OBVIOUS
<1>2. SubSeq(s, 1, Len(s) - 1) = [i \in 1 .. Len(s) - 1 |-> s[i]]
  BY <1>1
<1> QED BY <1>1, <1>2

\* Putting a block on a free list.
LEMMA PushFacts ==
  ASSUME NEW S, NEW s \in Seq(S), NEW b \in S
  PROVE  /\ Append(s, b) \in Seq(S) /\ DOMAIN Append(s, b) = DOMAIN s \cup {Len(s) + 1}
         /\ Len(s) + 1 \notin DOMAIN s /\ Append(s, b)[Len(s) + 1] = b
         /\ \A i \in DOMAIN s : Append(s, b)[i] = s[i]
OBVIOUS

\* A request is a layout, and padding keeps it one.
LEMMA PaddedFacts ==
  ASSUME NEW layout \in Layout
  PROVE  /\ Padded(layout) \in [size : Nat, align : Nat \ {0}]
         /\ Padded(layout).size >= MIN_BLOCK_SIZE
<1>1. layout \in [size : Nat, align : Nat \ {0}]
  BY HeapAssumption
<1>2. layout.size \in Nat /\ MIN_BLOCK_SIZE \in Nat \ {0}
  BY <1>1, HeapAssumption
<1> DEFINE z == IF layout.size < MIN_BLOCK_SIZE THEN MIN_BLOCK_SIZE ELSE layout.size
<1>3. z \in Nat /\ z >= MIN_BLOCK_SIZE
  BY <1>2
<1>4. Padded(layout) = [layout EXCEPT !.size = z]
  BY <1>1 DEF Padded
<1> HIDE DEF z
<1> QED BY <1>1, <1>3, <1>4

\* No block is the mark of an owner without one.
LEMMA BlockIsNot == \A b \in Block : b # NoBlock
<1> SUFFICES ASSUME NEW b \in Block, b = NoBlock PROVE FALSE
  OBVIOUS
<1>1. "addr" \in DOMAIN b
  BY DEF Block
<1>2. DOMAIN << >> = {}
  OBVIOUS
<1> QED BY <1>1, <1>2 DEF NoBlock

\* A multiple of a multiple.
LEMMA Divides ==
  ASSUME NEW n \in Nat, NEW a \in Nat \ {0}, NEW b \in Nat \ {0}, n % a = 0, a % b = 0
  PROVE  n % b = 0
<1>1. PICK k \in Nat : n = k * a
  <2>1. n = a * (n \div a) /\ n \div a \in Nat
    BY SMTT(30)
  <2> QED BY <2>1, SMTT(30)
<1>2. PICK m \in Nat : a = m * b
  <2>1. a = b * (a \div b) /\ a \div b \in Nat
    BY SMTT(30)
  <2> QED BY <2>1, SMTT(30)
<1>3. n = (k * m) * b /\ k * m \in Nat
  BY <1>1, <1>2, SMTT(30)
<1>4. \A j \in Nat : (j * b) % b = 0
  BY SMTT(30)
<1> QED BY <1>3, <1>4

\* Two carved blocks at one address are the same block.
LEMMA OneBlockPerAddress ==
  ASSUME TypeOK, Carving, NEW p \in carved, NEW q \in carved, p.addr = q.addr
  PROVE  p = q
<1>1. /\ p.addr \in Nat /\ p.size \in Nat /\ q.size \in Nat /\ MIN_BLOCK_SIZE \in Nat \ {0}
      /\ p.size >= MIN_BLOCK_SIZE /\ q.size >= MIN_BLOCK_SIZE
  BY HeapAssumption DEF TypeOK, Carving, Block
<1>2. ~Apart(p, q)
  BY <1>1 DEF Apart
<1> QED BY <1>2 DEF Carving

\* Live blocks are apart, because they lie in different carved blocks.
LEMMA LiveApart ==
  ASSUME IndInv, ~stretched, NEW o \in Owner, NEW p \in Owner, o # p,
         live[o] # NoBlock, live[p] # NoBlock
  PROVE  Apart(live[o], live[p])
<1>1. PICK b \in carved : b.addr = live[o].addr /\ live[o].size <= b.size
  BY DEF IndInv, HeldAreCarved
<1>2. PICK d \in carved : d.addr = live[p].addr /\ live[p].size <= d.size
  BY DEF IndInv, HeldAreCarved
<1>3. live[o].addr # live[p].addr
  BY DEF IndInv, OneHolder
<1>4. Apart(b, d)
  BY <1>1, <1>2, <1>3 DEF IndInv, Carving
<1>5. /\ live[o] \in Block /\ live[p] \in Block /\ b \in Block /\ d \in Block
  BY DEF IndInv, TypeOK
<1>6. /\ live[o].addr \in Nat /\ live[o].size \in Nat /\ live[p].addr \in Nat
      /\ live[p].size \in Nat /\ b.size \in Nat /\ d.size \in Nat
  BY <1>5 DEF Block
<1> QED BY <1>1, <1>2, <1>4, <1>6 DEF Apart

\* An entry of a list: its address is that of a carved block of the class, at
\* least as large as a link.
LEMMA LinkFits ==
  ASSUME TypeOK, Carving, HeldAreCarved, ~stretched,
         NEW c \in Class, NEW i \in DOMAIN buckets[c]
  PROVE  \E p \in carved : /\ p.addr = buckets[c][i] /\ c \in target_bucket_index(p)
                           /\ Link(buckets[c][i]).addr = p.addr
                           /\ Link(buckets[c][i]).size <= p.size
<1>1. PICK p \in carved : p.addr = buckets[c][i] /\ c \in target_bucket_index(p)
  BY DEF HeldAreCarved
<1>2. p.size >= MIN_BLOCK_SIZE /\ p.size \in Nat /\ MIN_BLOCK_SIZE \in Nat
  BY HeapAssumption DEF Carving, TypeOK, Block
<1> QED BY <1>1, <1>2 DEF Link

\* As long as every holder has what was carved for it, no link is overwritten.
LEMMA LinksKept ==
  TypeOK /\ Carving /\ HeldAreCarved /\ OneHolder /\ ~stretched => ~LinkOverwritten
<1> SUFFICES ASSUME TypeOK, Carving, HeldAreCarved, OneHolder, ~stretched, LinkOverwritten
             PROVE  FALSE
  OBVIOUS
<1>0. \A p \in carved : p.addr \in Nat /\ p.size \in Nat
  BY DEF TypeOK, Block
<1>m. MIN_BLOCK_SIZE \in Nat
  BY HeapAssumption
<1>1. PICK c \in Class : \E i \in DOMAIN buckets[c] :
        \/ \E o \in Owner : live[o] # NoBlock /\ ~Apart(live[o], Link(buckets[c][i]))
        \/ \E d \in Class : \E j \in DOMAIN buckets[d] :
             <<c, i>> # <<d, j>> /\ ~Apart(Link(buckets[c][i]), Link(buckets[d][j]))
  BY DEF LinkOverwritten
<1>2. PICK i \in DOMAIN buckets[c] :
        \/ \E o \in Owner : live[o] # NoBlock /\ ~Apart(live[o], Link(buckets[c][i]))
        \/ \E d \in Class : \E j \in DOMAIN buckets[d] :
             <<c, i>> # <<d, j>> /\ ~Apart(Link(buckets[c][i]), Link(buckets[d][j]))
  BY <1>1
<1>3. PICK p \in carved : /\ p.addr = buckets[c][i]
                          /\ Link(buckets[c][i]).addr = p.addr
                          /\ Link(buckets[c][i]).size <= p.size
  BY LinkFits
<1>s. \A a : Link(a).size = MIN_BLOCK_SIZE
  BY DEF Link
<1>4. CASE \E o \in Owner : live[o] # NoBlock /\ ~Apart(live[o], Link(buckets[c][i]))
  <2>1. PICK o \in Owner : live[o] # NoBlock /\ ~Apart(live[o], Link(buckets[c][i]))
    BY <1>4
  <2>2. PICK q \in carved : q.addr = live[o].addr /\ live[o].size <= q.size
    BY <2>1 DEF HeldAreCarved
  <2>3. q.addr # p.addr
    BY <1>3, <2>1, <2>2 DEF OneHolder
  <2>4. Apart(q, p)
    BY <2>3 DEF Carving
  <2>5. live[o].size \in Nat
    BY <2>1 DEF TypeOK, Block
  <2> QED BY <1>0, <1>m, <1>s, <1>3, <2>1, <2>2, <2>4, <2>5 DEF Apart
<1>5. CASE \E d \in Class : \E j \in DOMAIN buckets[d] :
             <<c, i>> # <<d, j>> /\ ~Apart(Link(buckets[c][i]), Link(buckets[d][j]))
  <2>1. PICK d \in Class : \E j \in DOMAIN buckets[d] :
             <<c, i>> # <<d, j>> /\ ~Apart(Link(buckets[c][i]), Link(buckets[d][j]))
    BY <1>5
  <2>2. PICK j \in DOMAIN buckets[d] :
             <<c, i>> # <<d, j>> /\ ~Apart(Link(buckets[c][i]), Link(buckets[d][j]))
    BY <2>1
  <2>3. PICK q \in carved : /\ q.addr = buckets[d][j]
                            /\ Link(buckets[d][j]).addr = q.addr
                            /\ Link(buckets[d][j]).size <= q.size
    BY LinkFits
  <2>4. q.addr # p.addr
    BY <1>3, <2>2, <2>3 DEF OneHolder
  <2>5. Apart(p, q)
    BY <2>4 DEF Carving
  <2> QED BY <1>0, <1>m, <1>s, <1>3, <2>2, <2>3, <2>5 DEF Apart
<1> QED BY <1>2, <1>4, <1>5

\* The same of the state after a step.
LEMMA LinksKeptNext ==
  ASSUME TypeOK', Carving', HeldAreCarved', OneHolder', ~stretched'
  PROVE  ~LinkOverwritten'
BY LinksKept, PTL

\* The heap before init satisfies the invariant.
LEMMA InitIndInv == Init => IndInv
<1> SUFFICES ASSUME Init PROVE IndInv
  OBVIOUS
<1>1. TypeOK
  <2>1. buckets \in [Class -> Seq(Nat)]
    BY DEF Init
  <2> QED BY <2>1 DEF Init, TypeOK
<1>2. /\ \A o \in Owner : live[o] = NoBlock
      /\ \A c \in Class : buckets[c] = << >> /\ DOMAIN buckets[c] = {}
      /\ ~INITIALIZED /\ carved = {} /\ ~stretched /\ ~clobbered
  BY DEF Init
<1>3. Carving
  BY <1>2 DEF Carving
<1> QED BY <1>1, <1>2, <1>3 DEF IndInv, HeldAreCarved, OneHolder

\* init only sets the bump pointer: nothing has been allocated before.
LEMMA initInv == IndInv /\ init => IndInv'
<1> SUFFICES ASSUME IndInv, init PROVE IndInv'
  OBVIOUS
<1>1. /\ ~INITIALIZED /\ INITIALIZED' /\ next_free_byte' = HeapStart
      /\ INITIALIZED' \in BOOLEAN
      /\ UNCHANGED <<buckets, live, carved, stretched, clobbered>>
  BY DEF init
<1>2. TypeOK'
  BY <1>1, HeapAssumption DEF IndInv, TypeOK
<1>3. HeapStart <= heap_end /\ HeapStart \in Nat
  BY HeapAssumption DEF heap_end
<1>4. Carving'
  <2>1. carved' = {}
    BY <1>1 DEF IndInv, Carving
  <2>2. HeapStart <= next_free_byte' /\ next_free_byte' <= heap_end
    BY <1>1, <1>3
  <2> QED BY <1>1, <2>1, <2>2 DEF Carving, heap_end
<1>5. HeldAreCarved' /\ OneHolder'
  BY <1>1 DEF IndInv, HeldAreCarved, OneHolder
<1> QED BY <1>1, <1>2, <1>4, <1>5 DEF IndInv

\* alloc from the bump pointer: the new block starts above every other one.
LEMMA FallbackInv ==
  ASSUME IndInv, INITIALIZED, NEW o \in Owner, NEW l \in [size : Nat, align : Nat \ {0}],
         l.size >= MIN_BLOCK_SIZE, live[o] = NoBlock, fallback_alloc(o, l),
         UNCHANGED <<INITIALIZED, buckets, stretched>>,
         clobbered' = (clobbered \/ LinkOverwritten')
  PROVE  IndInv'
<1> DEFINE start == AlignUp(next_free_byte, l.align)
           b == BlockAt(start, l)
<1>0. TypeOK /\ Carving /\ HeldAreCarved /\ OneHolder /\ (~stretched => ~clobbered)
  BY DEF IndInv
<1>1. /\ start \in Nat /\ start >= next_free_byte /\ start % l.align = 0
      /\ next_free_byte \in Nat /\ heap_end \in Nat /\ HeapStart \in Nat
      /\ HeapStart <= next_free_byte
  <2>1. next_free_byte \in Nat /\ l.align \in Nat \ {0}
    BY <1>0 DEF TypeOK
  <2>2. heap_end \in Nat /\ HeapStart \in Nat
    BY HeapAssumption DEF heap_end
  <2>3. HeapStart <= next_free_byte
    BY <1>0 DEF Carving
  <2> QED BY <2>1, <2>2, <2>3, AlignUpFacts
<1>2. /\ start + l.size <= heap_end /\ next_free_byte' = start + l.size
      /\ live' = [live EXCEPT ![o] = b] /\ carved' = carved \cup {b}
  BY DEF fallback_alloc
<1> HIDE DEF start
<1>3. /\ b \in Block /\ b # NoBlock /\ b.addr = start /\ b.size = l.size /\ b.align = l.align
      /\ l.size \in Nat /\ l.align \in Nat \ {0} /\ l.size > 0
  <2>1. l.size \in Nat /\ l.align \in Nat \ {0}
    OBVIOUS
  <2>2. l.size > 0
    BY <2>1, HeapAssumption
  <2>3. b \in Block
    BY <1>1, <2>1 DEF Block, BlockAt
  <2> QED BY <2>1, <2>2, <2>3, BlockIsNot DEF BlockAt
<1> HIDE DEF b
<1>4. live'[o] = b /\ \A p \in Owner \ {o} : live'[p] = live[p]
  BY <1>0, <1>2 DEF TypeOK
<1>5. next_free_byte' > next_free_byte /\ next_free_byte' \in Nat
  BY <1>1, <1>2, <1>3
<1>6. TypeOK'
  <2>1. live' \in [Owner -> Block \cup {NoBlock}]
    BY <1>0, <1>2, <1>3 DEF TypeOK
  <2>2. carved' \subseteq Block /\ clobbered' \in BOOLEAN
    BY <1>0, <1>2, <1>3 DEF TypeOK
  <2> QED BY <1>0, <1>5, <2>1, <2>2 DEF TypeOK
<1>a. \A p \in carved : /\ p.addr \in Nat /\ p.size \in Nat /\ p.align \in Nat \ {0}
                        /\ p.addr + p.size <= next_free_byte /\ p.addr < next_free_byte
  <2>1. \A p \in carved : p.addr \in Nat /\ p.size \in Nat /\ p.align \in Nat \ {0}
    BY <1>0 DEF TypeOK, Block
  <2>2. \A p \in carved : p.addr + p.size <= next_free_byte /\ p.size >= MIN_BLOCK_SIZE
    BY <1>0 DEF Carving
  <2> QED BY <1>1, <2>1, <2>2, HeapAssumption
<1>7. Carving'
  <2>1. \A p, q \in carved' : p # q => Apart(p, q)
    <3>1. \A p, q \in carved : p # q => Apart(p, q)
      BY <1>0 DEF Carving
    <3>2. \A p \in carved : Apart(p, b) /\ Apart(b, p)
      BY <1>1, <1>3, <1>a DEF Apart
    <3> QED BY <1>2, <3>1, <3>2
  <2>2. \A p \in carved' :
          /\ p.size >= MIN_BLOCK_SIZE /\ p.addr % p.align = 0
          /\ HeapStart <= p.addr /\ p.addr + p.size <= next_free_byte'
    <3>1. \A p \in carved : /\ p.size >= MIN_BLOCK_SIZE /\ p.addr % p.align = 0
                            /\ HeapStart <= p.addr
      BY <1>0 DEF Carving
    <3>2. \A p \in carved : p.addr + p.size <= next_free_byte'
      BY <1>1, <1>5, <1>a
    <3>3. HeapStart <= b.addr /\ b.addr + b.size <= next_free_byte'
      BY <1>1, <1>2, <1>3
    <3>4. b.size >= MIN_BLOCK_SIZE /\ b.addr % b.align = 0
      BY <1>1, <1>3
    <3> QED BY <1>2, <3>1, <3>2, <3>3, <3>4
  <2>3. HeapStart <= next_free_byte' /\ next_free_byte' <= heap_end'
    BY <1>1, <1>2, <1>5 DEF heap_end
  <2> QED BY <2>1, <2>2, <2>3 DEF Carving
<1>8. CASE stretched
  BY <1>6, <1>7, <1>8 DEF IndInv, HeldAreCarved, OneHolder
<1>9. CASE ~stretched
  <2>1. HeldAreCarved'
    <3>1. ASSUME NEW p \in Owner, live'[p] # NoBlock
          PROVE  \E q \in carved' : /\ q.addr = live'[p].addr
                                    /\ live'[p].size <= q.size /\ q.align % live'[p].align = 0
                                    /\ target_bucket_index(q) = target_bucket_index(live'[p])
      <4>1. CASE p = o
        <5>1. b.size <= b.size /\ b.align % b.align = 0
          BY <1>3
        <5> QED BY <1>2, <1>4, <4>1, <5>1
      <4>2. CASE p # o
        BY <1>0, <1>2, <1>4, <1>9, <3>1, <4>2 DEF HeldAreCarved
      <4> QED BY <4>1, <4>2
    <3>2. ASSUME NEW c \in Class, NEW i \in DOMAIN buckets'[c]
          PROVE  \E q \in carved' : q.addr = buckets'[c][i] /\ c \in target_bucket_index(q)
      BY <1>0, <1>2, <1>9, <3>2 DEF HeldAreCarved
    <3> QED BY <3>1, <3>2 DEF HeldAreCarved
  <2>2. OneHolder'
    <3>1. \A p \in Owner : live[p] # NoBlock => live[p].addr # b.addr
      <4>1. \A p \in Owner : live[p] # NoBlock => \E q \in carved : q.addr = live[p].addr
        BY <1>0, <1>9 DEF HeldAreCarved
      <4>2. \A q \in carved : q.addr # b.addr
        BY <1>1, <1>3, <1>a
      <4> QED BY <4>1, <4>2
    <3>2. \A c \in Class : \A i \in DOMAIN buckets[c] : buckets[c][i] # b.addr
      <4>1. \A c \in Class : \A i \in DOMAIN buckets[c] : \E q \in carved : q.addr = buckets[c][i]
        BY <1>0, <1>9 DEF HeldAreCarved
      <4>2. \A q \in carved : q.addr # b.addr
        BY <1>1, <1>3, <1>a
      <4> QED BY <4>1, <4>2
    <3>3. \A p, q \in Owner : p # q /\ live'[p] # NoBlock /\ live'[q] # NoBlock
            => live'[p].addr # live'[q].addr
      BY <1>0, <1>4, <1>9, <3>1 DEF OneHolder
    <3>4. \A p \in Owner, c \in Class : live'[p] # NoBlock
            => \A i \in DOMAIN buckets'[c] : live'[p].addr # buckets'[c][i]
      BY <1>0, <1>4, <1>9, <3>2 DEF OneHolder
    <3>5. \A p \in carved' : \A c \in target_bucket_index(p) :
            \/ \E q \in Owner : live'[q] # NoBlock /\ live'[q].addr = p.addr
            \/ \E i \in DOMAIN buckets'[c] : buckets'[c][i] = p.addr
      <4> SUFFICES ASSUME NEW p \in carved', NEW c \in target_bucket_index(p)
                   PROVE  \/ \E q \in Owner : live'[q] # NoBlock /\ live'[q].addr = p.addr
                          \/ \E i \in DOMAIN buckets'[c] : buckets'[c][i] = p.addr
        OBVIOUS
      <4>1. CASE p = b
        BY <1>3, <1>4, <4>1
      <4>2. CASE p \in carved
        <5>1. \/ \E q \in Owner : live[q] # NoBlock /\ live[q].addr = p.addr
              \/ \E i \in DOMAIN buckets[c] : buckets[c][i] = p.addr
          BY <1>0, <1>9, <4>2 DEF OneHolder
        <5>2. \A q \in Owner : live[q] # NoBlock => live'[q] = live[q]
          BY <1>4
        <5> QED BY <5>1, <5>2
      <4> QED BY <1>2, <4>1, <4>2
    <3>6. \A c, d \in Class : \A i \in DOMAIN buckets'[c], j \in DOMAIN buckets'[d] :
            <<c, i>> # <<d, j>> => buckets'[c][i] # buckets'[d][j]
      BY <1>0, <1>9 DEF OneHolder
    <3> QED BY <3>3, <3>4, <3>5, <3>6 DEF OneHolder
  <2>3. ~clobbered'
    BY <1>0, <1>6, <1>7, <1>9, <2>1, <2>2, LinksKeptNext
  <2> QED BY <1>6, <1>7, <2>1, <2>2, <2>3 DEF IndInv
<1> QED BY <1>8, <1>9

\* alloc from a free list: the block changes hands.
LEMMA PopInv ==
  ASSUME IndInv, INITIALIZED, NEW o \in Owner, NEW l \in [size : Nat, align : Nat \ {0}],
         live[o] = NoBlock, NEW c \in target_bucket_index(l), buckets[c] # << >>,
         Pop(o, l, c), UNCHANGED <<INITIALIZED, next_free_byte, carved>>,
         clobbered' = (clobbered \/ LinkOverwritten')
  PROVE  IndInv'
<1> DEFINE n == Len(buckets[c])
           a == buckets[c][n]
           b == BlockAt(a, l)
<1>0. TypeOK /\ Carving /\ HeldAreCarved /\ OneHolder /\ (~stretched => ~clobbered)
  BY DEF IndInv
<1>1. c \in Class /\ buckets \in [Class -> Seq(Nat)] /\ buckets[c] \in Seq(Nat)
  BY <1>0 DEF target_bucket_index, TypeOK
<1>2. n \in DOMAIN buckets[c] /\ a \in Nat
  BY <1>1, PopFacts
<1>3. PICK rest \in Rest(c) : buckets' = [buckets EXCEPT ![c] = rest]
  BY DEF Pop
<1>4. /\ live' = [live EXCEPT ![o] = b]
      /\ stretched' = (stretched \/ ~Covers(a, l))
  BY DEF Pop
<1>5. rest \in Seq(Nat)
  <2>1. ASSUME NEW w \in Wild PROVE <<w>> \in Seq(Nat)
    <3>1. w \in Nat
      BY HeapAssumption
    <3> QED BY <3>1
  <2>2. << >> \in Seq(Nat)
    OBVIOUS
  <2>3. SubSeq(buckets[c], 1, n - 1) \in Seq(Nat)
    BY <1>1, PopFacts
  <2> QED BY <2>1, <2>2, <2>3 DEF Rest
<1>6. ~clobbered => \A d \in Class : \A i \in DOMAIN buckets'[d] :
        i \in DOMAIN buckets[d] /\ buckets'[d][i] = buckets[d][i] /\ ~(d = c /\ i = n)
  <2> SUFFICES ASSUME ~clobbered
               PROVE  \A d \in Class : \A i \in DOMAIN buckets'[d] :
                        /\ i \in DOMAIN buckets[d] /\ buckets'[d][i] = buckets[d][i]
                        /\ ~(d = c /\ i = n)
    OBVIOUS
  <2>1. \A d \in Class \ {c} : buckets'[d] = buckets[d]
    BY <1>1, <1>3
  <2>2. buckets'[c] = SubSeq(buckets[c], 1, n - 1)
    BY <1>1, <1>3 DEF Rest
  <2>3. /\ DOMAIN buckets'[c] = DOMAIN buckets[c] \ {n}
        /\ \A i \in DOMAIN buckets[c] \ {n} : buckets'[c][i] = buckets[c][i]
    BY <1>1, <2>2, PopFacts
  <2> QED BY <2>1, <2>3
<1>7. ~clobbered => \A d \in Class : \A i \in DOMAIN buckets[d] :
        ~(d = c /\ i = n) => i \in DOMAIN buckets'[d] /\ buckets'[d][i] = buckets[d][i]
  <2> SUFFICES ASSUME ~clobbered
               PROVE  \A d \in Class : \A i \in DOMAIN buckets[d] : ~(d = c /\ i = n)
                        => i \in DOMAIN buckets'[d] /\ buckets'[d][i] = buckets[d][i]
    OBVIOUS
  <2>1. \A d \in Class \ {c} : buckets'[d] = buckets[d]
    BY <1>1, <1>3
  <2>2. buckets'[c] = SubSeq(buckets[c], 1, n - 1)
    BY <1>1, <1>3 DEF Rest
  <2>3. /\ DOMAIN buckets'[c] = DOMAIN buckets[c] \ {n}
        /\ \A i \in DOMAIN buckets[c] \ {n} : buckets'[c][i] = buckets[c][i]
    BY <1>1, <2>2, PopFacts
  <2> QED BY <2>1, <2>3
<1> HIDE DEF n, a
<1>8. b \in Block /\ b # NoBlock /\ b.addr = a /\ b.size = l.size /\ b.align = l.align
  <2>1. b \in Block
    BY <1>2 DEF Block, BlockAt
  <2> QED BY <2>1, BlockIsNot DEF BlockAt
<1> HIDE DEF b
<1>9. live'[o] = b /\ \A p \in Owner \ {o} : live'[p] = live[p]
  BY <1>0, <1>4 DEF TypeOK
<1>10. TypeOK'
  <2>1. live' \in [Owner -> Block \cup {NoBlock}]
    BY <1>0, <1>4, <1>8 DEF TypeOK
  <2>2. buckets' \in [Class -> Seq(Nat)]
    BY <1>1, <1>3, <1>5
  <2>3. stretched' \in BOOLEAN /\ clobbered' \in BOOLEAN
    BY <1>0, <1>4 DEF TypeOK
  <2> QED BY <1>0, <2>1, <2>2, <2>3 DEF TypeOK
<1>11. Carving'
  <2>1. /\ \A p, q \in carved' : p # q => Apart(p, q)
        /\ \A p \in carved' : /\ p.size >= MIN_BLOCK_SIZE /\ p.addr % p.align = 0
                              /\ HeapStart <= p.addr /\ p.addr + p.size <= next_free_byte'
        /\ HeapStart <= next_free_byte' /\ next_free_byte' <= heap_end'
    BY <1>0 DEF Carving, heap_end
  <2> QED BY <2>1 DEF Carving
<1>12. CASE stretched'
  BY <1>10, <1>11, <1>12 DEF IndInv, HeldAreCarved, OneHolder
<1>13. CASE ~stretched'
  <2>0. ~stretched /\ ~clobbered /\ Covers(a, l)
    BY <1>0, <1>4, <1>13
  <2>1. PICK p0 \in carved : p0.addr = a /\ l.size <= p0.size /\ p0.align % l.align = 0
    BY <2>0 DEF Covers
  <2>2. target_bucket_index(p0) = target_bucket_index(b)
    <3>1. PICK q \in carved : q.addr = a /\ c \in target_bucket_index(q)
      BY <1>0, <1>1, <1>2, <2>0 DEF HeldAreCarved, a
    <3>2. q = p0
      BY <1>0, <2>1, <3>1, OneBlockPerAddress
    <3>3. target_bucket_index(b) = target_bucket_index(l)
      BY <1>8 DEF target_bucket_index
    <3>4. target_bucket_index(p0) = {c}
      BY <3>1, <3>2, OneClass
    <3>5. target_bucket_index(l) = {c}
      BY OneClass
    <3> QED BY <3>3, <3>4, <3>5
  <2>3. HeldAreCarved'
    <3>1. ASSUME NEW p \in Owner, live'[p] # NoBlock
          PROVE  \E q \in carved' : /\ q.addr = live'[p].addr
                                    /\ live'[p].size <= q.size /\ q.align % live'[p].align = 0
                                    /\ target_bucket_index(q) = target_bucket_index(live'[p])
      <4>1. CASE p = o
        BY <1>8, <1>9, <2>1, <2>2, <4>1
      <4>2. CASE p # o
        BY <1>0, <1>9, <2>0, <3>1, <4>2 DEF HeldAreCarved
      <4> QED BY <4>1, <4>2
    <3>2. ASSUME NEW d \in Class, NEW i \in DOMAIN buckets'[d]
          PROVE  \E q \in carved' : q.addr = buckets'[d][i] /\ d \in target_bucket_index(q)
      BY <1>0, <1>6, <2>0, <3>2 DEF HeldAreCarved
    <3> QED BY <3>1, <3>2 DEF HeldAreCarved
  <2>4. OneHolder'
    <3>1. \A p \in Owner : live[p] # NoBlock => live[p].addr # a
      BY <1>0, <1>1, <1>2, <2>0 DEF OneHolder, a
    <3>2. \A d \in Class : \A i \in DOMAIN buckets[d] : ~(d = c /\ i = n) => buckets[d][i] # a
      BY <1>0, <1>1, <1>2, <2>0 DEF OneHolder, a
    <3>3. \A p, q \in Owner : p # q /\ live'[p] # NoBlock /\ live'[q] # NoBlock
            => live'[p].addr # live'[q].addr
      BY <1>0, <1>8, <1>9, <2>0, <3>1 DEF OneHolder
    <3>4. \A p \in Owner, d \in Class : live'[p] # NoBlock
            => \A i \in DOMAIN buckets'[d] : live'[p].addr # buckets'[d][i]
      BY <1>0, <1>6, <1>8, <1>9, <2>0, <3>2 DEF OneHolder
    <3>5. \A d, e \in Class : \A i \in DOMAIN buckets'[d], j \in DOMAIN buckets'[e] :
            <<d, i>> # <<e, j>> => buckets'[d][i] # buckets'[e][j]
      BY <1>0, <1>6, <2>0 DEF OneHolder
    <3>6. ASSUME NEW p \in carved', NEW d \in target_bucket_index(p)
          PROVE  \/ \E q \in Owner : live'[q] # NoBlock /\ live'[q].addr = p.addr
                 \/ \E i \in DOMAIN buckets'[d] : buckets'[d][i] = p.addr
      <4>1. CASE \E q \in Owner : live[q] # NoBlock /\ live[q].addr = p.addr
        BY <1>9, <4>1
      <4>2. CASE \E i \in DOMAIN buckets[d] : buckets[d][i] = p.addr
        <5>1. PICK i \in DOMAIN buckets[d] : buckets[d][i] = p.addr
          BY <4>2
        <5>2. d \in Class
          BY DEF target_bucket_index
        <5>3. CASE d = c /\ i = n
          BY <1>8, <1>9, <5>1, <5>3 DEF a
        <5>4. CASE ~(d = c /\ i = n)
          BY <1>7, <2>0, <5>1, <5>2, <5>4
        <5> QED BY <5>3, <5>4
      <4> QED BY <1>0, <2>0, <3>6, <4>1, <4>2 DEF OneHolder
    <3> QED BY <3>3, <3>4, <3>5, <3>6 DEF OneHolder
  <2>5. ~clobbered'
    BY <1>10, <1>11, <1>13, <2>0, <2>3, <2>4, LinksKeptNext
  <2> QED BY <1>10, <1>11, <2>3, <2>4, <2>5 DEF IndInv
<1> QED BY <1>12, <1>13

\* dealloc: the block moves from its owner to the list of its class, if it has
\* one.
LEMMA deallocInv ==
  ASSUME IndInv, NEW o \in Owner, dealloc(o)
  PROVE  IndInv'
<1> DEFINE b == live[o]
           I == target_bucket_index(b)
<1>0. TypeOK /\ Carving /\ HeldAreCarved /\ OneHolder /\ (~stretched => ~clobbered)
  BY DEF IndInv
<1>1. /\ b # NoBlock
      /\ live' = [live EXCEPT ![o] = NoBlock]
      /\ buckets' = [c \in Class |-> IF c \in I THEN Append(buckets[c], b.addr)
                                     ELSE buckets[c]]
      /\ clobbered' = (clobbered \/ LinkOverwritten')
      /\ UNCHANGED <<INITIALIZED, next_free_byte, carved, stretched>>
  BY DEF dealloc
<1>2. b \in Block /\ b.addr \in Nat /\ \A c \in Class : buckets[c] \in Seq(Nat)
  BY <1>0, <1>1 DEF TypeOK, Block
<1>3. \A c, d \in I : c = d /\ c \in Class
  BY OneClass
<1>4. \A p \in Owner : live'[p] # NoBlock => p # o /\ live'[p] = live[p]
  BY <1>0, <1>1 DEF TypeOK
<1>5. \A p \in Owner : p # o => live'[p] = live[p]
  BY <1>0, <1>1 DEF TypeOK
<1>c. INITIALIZED
  BY <1>0, <1>1 DEF Carving
<1> HIDE DEF I, b
<1>6. \A c \in Class : \A i \in DOMAIN buckets'[c] :
        \/ i \in DOMAIN buckets[c] /\ buckets'[c][i] = buckets[c][i]
        \/ c \in I /\ i = Len(buckets[c]) + 1 /\ buckets'[c][i] = b.addr
  <2> SUFFICES ASSUME NEW c \in Class
               PROVE  \A i \in DOMAIN buckets'[c] :
                        \/ i \in DOMAIN buckets[c] /\ buckets'[c][i] = buckets[c][i]
                        \/ c \in I /\ i = Len(buckets[c]) + 1 /\ buckets'[c][i] = b.addr
    OBVIOUS
  <2>1. CASE c \in I
    BY <1>1, <1>2, <2>1, PushFacts
  <2>2. CASE c \notin I
    BY <1>1, <2>2
  <2> QED BY <2>1, <2>2
<1>7. /\ \A c \in Class : \A i \in DOMAIN buckets[c] :
           i \in DOMAIN buckets'[c] /\ buckets'[c][i] = buckets[c][i]
      /\ \A c \in I : \E i \in DOMAIN buckets'[c] : buckets'[c][i] = b.addr
  <2>1. ASSUME NEW c \in Class
        PROVE  /\ \A i \in DOMAIN buckets[c] :
                    i \in DOMAIN buckets'[c] /\ buckets'[c][i] = buckets[c][i]
               /\ c \in I => \E i \in DOMAIN buckets'[c] : buckets'[c][i] = b.addr
    <3>1. CASE c \in I
      BY <1>1, <1>2, <3>1, PushFacts
    <3>2. CASE c \notin I
      BY <1>1, <3>2
    <3> QED BY <3>1, <3>2
  <2> QED BY <1>3, <2>1
<1>8. TypeOK'
  <2>1. \A c \in Class : Append(buckets[c], b.addr) \in Seq(Nat)
    BY <1>2
  <2>2. buckets' \in [Class -> Seq(Nat)]
    BY <1>1, <1>2, <2>1
  <2>3. live' \in [Owner -> Block \cup {NoBlock}] /\ clobbered' \in BOOLEAN
    BY <1>0, <1>1 DEF TypeOK
  <2> QED BY <1>0, <1>1, <2>2, <2>3 DEF TypeOK
<1>9. Carving'
  <2>1. /\ \A p, q \in carved' : p # q => Apart(p, q)
        /\ \A p \in carved' : /\ p.size >= MIN_BLOCK_SIZE /\ p.addr % p.align = 0
                              /\ HeapStart <= p.addr /\ p.addr + p.size <= next_free_byte'
        /\ HeapStart <= next_free_byte' /\ next_free_byte' <= heap_end'
    BY <1>0, <1>1, <1>c DEF Carving, heap_end
  <2> QED BY <1>1, <1>c, <2>1 DEF Carving
<1>10. CASE stretched
  BY <1>1, <1>8, <1>9, <1>10 DEF IndInv, HeldAreCarved, OneHolder
<1>11. CASE ~stretched
  <2>1. PICK p0 \in carved : p0.addr = b.addr /\ target_bucket_index(p0) = I
    BY <1>0, <1>1, <1>11 DEF HeldAreCarved, b, I
  <2>2. HeldAreCarved'
    <3>1. ASSUME NEW p \in Owner, live'[p] # NoBlock
          PROVE  \E q \in carved' : /\ q.addr = live'[p].addr
                                    /\ live'[p].size <= q.size /\ q.align % live'[p].align = 0
                                    /\ target_bucket_index(q) = target_bucket_index(live'[p])
      BY <1>0, <1>1, <1>4, <1>11, <3>1 DEF HeldAreCarved
    <3>2. ASSUME NEW c \in Class, NEW i \in DOMAIN buckets'[c]
          PROVE  \E q \in carved' : q.addr = buckets'[c][i] /\ c \in target_bucket_index(q)
      <4>1. CASE i \in DOMAIN buckets[c] /\ buckets'[c][i] = buckets[c][i]
        BY <1>0, <1>1, <1>11, <4>1 DEF HeldAreCarved
      <4>2. CASE c \in I /\ buckets'[c][i] = b.addr
        BY <1>1, <2>1, <4>2
      <4> QED BY <1>6, <3>2, <4>1, <4>2
    <3> QED BY <3>1, <3>2 DEF HeldAreCarved
  <2>3. OneHolder'
    <3>1. \A p, q \in Owner : p # q /\ live'[p] # NoBlock /\ live'[q] # NoBlock
            => live'[p].addr # live'[q].addr
      BY <1>0, <1>4, <1>11 DEF OneHolder
    <3>2. \A p \in Owner : p # o /\ live[p] # NoBlock => live[p].addr # b.addr
      BY <1>0, <1>1, <1>11 DEF OneHolder, b
    <3>3. \A c \in Class : \A i \in DOMAIN buckets[c] : buckets[c][i] # b.addr
      BY <1>0, <1>1, <1>11 DEF OneHolder, b
    <3>4. \A p \in Owner, c \in Class : live'[p] # NoBlock
            => \A i \in DOMAIN buckets'[c] : live'[p].addr # buckets'[c][i]
      BY <1>0, <1>4, <1>6, <1>11, <3>2 DEF OneHolder
    <3>5. \A c, d \in Class : \A i \in DOMAIN buckets'[c], j \in DOMAIN buckets'[d] :
            <<c, i>> # <<d, j>> => buckets'[c][i] # buckets'[d][j]
      BY <1>0, <1>3, <1>6, <1>11, <3>3 DEF OneHolder
    <3>6. ASSUME NEW p \in carved', NEW c \in target_bucket_index(p)
          PROVE  \/ \E q \in Owner : live'[q] # NoBlock /\ live'[q].addr = p.addr
                 \/ \E i \in DOMAIN buckets'[c] : buckets'[c][i] = p.addr
      <4>1. c \in Class /\ p \in carved
        BY <1>1 DEF target_bucket_index
      <4>2. CASE p = p0
        BY <1>7, <2>1, <4>2
      <4>3. CASE p # p0
        <5>1. p.addr # b.addr
          BY <1>0, <2>1, <4>1, <4>3, OneBlockPerAddress
        <5>2. \/ \E q \in Owner : live[q] # NoBlock /\ live[q].addr = p.addr
              \/ \E i \in DOMAIN buckets[c] : buckets[c][i] = p.addr
          BY <1>0, <1>11, <4>1 DEF OneHolder
        <5>3. CASE \E q \in Owner : live[q] # NoBlock /\ live[q].addr = p.addr
          BY <1>5, <5>1, <5>3 DEF b
        <5>4. CASE \E i \in DOMAIN buckets[c] : buckets[c][i] = p.addr
          BY <1>7, <4>1, <5>4
        <5> QED BY <5>2, <5>3, <5>4
      <4> QED BY <4>2, <4>3
    <3> QED BY <3>1, <3>4, <3>5, <3>6 DEF OneHolder
  <2>4. ~clobbered'
    BY <1>0, <1>1, <1>8, <1>9, <1>11, <2>2, <2>3, LinksKeptNext
  <2> QED BY <1>8, <1>9, <2>2, <2>3, <2>4 DEF IndInv
<1> QED BY <1>10, <1>11

\* Every step of the allocator preserves the invariant.
LEMMA NextIndInv == IndInv /\ [Next]_vars => IndInv'
<1> SUFFICES ASSUME IndInv, [Next]_vars PROVE IndInv'
  OBVIOUS
<1>1. ASSUME NEW o \in Owner, NEW layout \in Layout, alloc(o, layout)
      PROVE  IndInv'
  <2> DEFINE l == Padded(layout)
  <2>1. l \in [size : Nat, align : Nat \ {0}] /\ l.size >= MIN_BLOCK_SIZE
    BY PaddedFacts
  <2>2. /\ INITIALIZED /\ live[o] = NoBlock /\ UNCHANGED INITIALIZED
        /\ clobbered' = (clobbered \/ LinkOverwritten')
    BY <1>1 DEF alloc
  <2>3. \/ \E c \in target_bucket_index(l) :
             buckets[c] # << >> /\ Pop(o, l, c) /\ UNCHANGED <<next_free_byte, carved>>
        \/ fallback_alloc(o, l) /\ UNCHANGED <<buckets, stretched>>
    BY <1>1 DEF alloc
  <2> HIDE DEF l
  <2> QED BY <2>1, <2>2, <2>3, PopInv, FallbackInv
<1>2. CASE UNCHANGED vars
  <2>1. TypeOK' /\ OneHolder'
    BY <1>2 DEF vars, IndInv, TypeOK, OneHolder
  <2>2. Carving' /\ HeldAreCarved'
    BY <1>2 DEF vars, IndInv, Carving, HeldAreCarved, heap_end
  <2> QED BY <1>2, <2>1, <2>2 DEF IndInv, vars
<1>3. ASSUME NEW o \in Owner, NEW l \in Layout, allocNull(o, l)
      PROVE  UNCHANGED vars
  BY <1>3 DEF allocNull
<1> QED BY <1>1, <1>2, <1>3, initInv, deallocInv DEF Next

\* For every arena, every set of layouts and every number of live blocks the
\* allocator keeps its inductive invariant.
THEOREM IndInvHolds == Spec => []IndInv
<1> QED BY InitIndInv, NextIndInv, PTL DEF Spec

\* However layouts are mixed in a size class: until alloc hands out a block for
\* more than it was carved with, no address has two holders and no carved block
\* of a class gets lost.
THEOREM OneHolderHolds == Spec => []OneHolder
<1>1. IndInv => OneHolder
  BY DEF IndInv
<1> QED BY <1>1, IndInvHolds, PTL

\* However layouts are mixed in a size class: handing out a block for more than
\* it was carved with is the only way in which two blocks come to overlap or a
\* free list's link is overwritten.
THEOREM BlocksApartHolds == Spec => []BlocksApart
<1>1. IndInv => BlocksApart
  <2> SUFFICES ASSUME IndInv, ~stretched
               PROVE  /\ \A o, p \in Owner : o # p /\ live[o] # NoBlock /\ live[p] # NoBlock
                           => Apart(live[o], live[p])
                      /\ ~clobbered
    BY DEF BlocksApart
  <2> QED BY LiveApart DEF IndInv
<1> QED BY <1>1, IndInvHolds, PTL

\* It is also the only way in which a block reaches past the bump pointer, and
\* so past the end of the heap, or misses its alignment.
THEOREM BlocksFitHolds == Spec => []BlocksFit
<1>1. IndInv => BlocksFit
  <2> SUFFICES ASSUME IndInv, ~stretched, NEW o \in Owner, live[o] # NoBlock
               PROVE  /\ HeapStart <= live[o].addr
                      /\ live[o].addr + live[o].size <= next_free_byte
                      /\ next_free_byte <= heap_end
                      /\ live[o].addr % live[o].align = 0
    BY DEF BlocksFit
  <2>1. PICK p \in carved : /\ p.addr = live[o].addr
                            /\ live[o].size <= p.size /\ p.align % live[o].align = 0
    BY DEF IndInv, HeldAreCarved
  <2>2. /\ HeapStart <= p.addr /\ p.addr + p.size <= next_free_byte /\ p.addr % p.align = 0
        /\ next_free_byte <= heap_end
    BY DEF IndInv, Carving
  <2>3. live[o] \in Block /\ p \in Block /\ next_free_byte \in Nat
    BY DEF IndInv, TypeOK
  <2>4. /\ p.addr \in Nat /\ p.size \in Nat /\ p.align \in Nat \ {0}
        /\ live[o].size \in Nat /\ live[o].align \in Nat \ {0}
    BY <2>3 DEF Block
  <2>5. live[o].addr % live[o].align = 0
    BY <2>1, <2>2, <2>4, Divides
  <2>6. live[o].addr + live[o].size <= next_free_byte
    BY <2>1, <2>2, <2>3, <2>4
  <2> QED BY <2>1, <2>2, <2>5, <2>6
<1> QED BY <1>1, IndInvHolds, PTL
================================================================================
