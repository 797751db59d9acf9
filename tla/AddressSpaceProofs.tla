------------------------- MODULE AddressSpaceProofs ---------------------------
(***************************************************************************)
(* Proofs about AddressSpace, for every number of frames, indices and      *)
(* slots and for both targets.                                             *)
(***************************************************************************)
EXTENDS AddressSpace, WellFoundedInduction, TLAPS

\* How long the provers may take for a step that names none of them.
USE ZenonT(5), SMTT(30)

--------------------------------------------------------------------------------
(* Frames and their places *)

\* The indices of a table, what an entry may hold, and all tables there can be.
Index == Top \cup Page
OrZero == Frame \cup {0}
Entries == [Frame -> [Index -> OrZero]]

\* What a frame is used for: "lost" for what a failed call has left reserved.
Kinds == {"free", "kernel", "hand", "root", "table", "page", "lost"}

\* The heart of the invariant.  Every frame has one place: kind says what it
\* is, and a table or a page hangs under the frame up[f] at the index at[f].  b
\* are the reserved frames, e the tables, O the private roots, H the frames in
\* hand, K the index of the kernel.  Two entries can never name one frame,
\* because a frame has one up and one at.
Placed(kind, up, at, b, e, O, H, K) ==
  /\ kind \in [Frame -> Kinds] /\ up \in [Frame -> Nat] /\ at \in [Frame -> Nat]
  /\ \A f \in Frame : kind[f] # "free" => f \in b
  /\ \A f \in KernelFrames : kind[f] = "kernel"
  /\ \A f \in H : f \in Frame /\ kind[f] = "hand"
  /\ \A r \in O : r \in Frame /\ kind[r] = "root"
  /\ \A r \in Frame : kind[r] = "root" => e[r][K] = KernelTable
  /\ \A r \in Frame, i \in Top \ {K} : kind[r] = "root" /\ e[r][i] # 0 =>
       kind[e[r][i]] = "table" /\ up[e[r][i]] = r /\ at[e[r][i]] = i
  /\ \A t \in Frame, p \in Page : kind[t] = "table" /\ e[t][p] # 0 =>
       kind[e[t][p]] = "page" /\ up[e[t][p]] = t /\ at[e[t][p]] = p

\* Nothing has leaked: every reserved frame is where its place says.
Linked(kind, up, at, b, e, O, H, K) ==
  \A f \in b :
    \/ f \in KernelFrames \cup H \cup O
    \/ kind[f] = "table" /\ up[f] \in O /\ at[f] \in Top \ {K} /\ e[up[f]][at[f]] = f
    \/ kind[f] = "page" /\ up[f] \in Frame /\ kind[up[f]] = "table" /\ at[f] \in Page
       /\ e[up[f]][at[f]] = f

\* A fresh frame that gets a copy of the kernel root
\* (create_process_page_table) becomes a private root without a table of its
\* own.
LEMMA TakeRoot ==
  ASSUME NEW kind, NEW up, NEW at, NEW b, NEW e \in Entries, NEW O, NEW H, NEW K \in Top,
         NEW f \in Frame \ b, b \subseteq Frame,
         Placed(kind, up, at, b, e, O, H, K),
         e[KernelRoot][K] = KernelTable,
         \A i \in Top \ {K} : e[KernelRoot][i] = 0
  PROVE  LET k == [kind EXCEPT ![f] = "root"]
             g == [e EXCEPT ![f] = e[KernelRoot]]
         IN /\ Placed(k, up, at, b \cup {f}, g, O \cup {f}, H, K)
            /\ Linked(kind, up, at, b, e, O, H, K)
                 => Linked(k, up, at, b \cup {f}, g, O \cup {f}, H, K)
<1> DEFINE k == [kind EXCEPT ![f] = "root"]
           g == [e EXCEPT ![f] = e[KernelRoot]]
<1>1. kind[f] = "free" /\ f \notin KernelFrames \cup H \cup O /\ KernelRoot \in Frame
  BY FrameAssumption DEF Placed, KernelFrames
<1>2. /\ k \in [Frame -> Kinds] /\ k[f] = "root"
      /\ \A x \in Frame : x # f => k[x] = kind[x]
  BY DEF Placed, Kinds
<1>3. /\ g[f] = e[KernelRoot]
      /\ \A x \in Frame : x # f => g[x] = e[x]
  BY DEF Entries
<1>4. \A x \in Frame, i \in Index : e[x][i] \in Frame \cup {0}
  BY DEF Entries, OrZero
<1> HIDE DEF k, g
<1>5. Placed(k, up, at, b \cup {f}, g, O \cup {f}, H, K)
  <2>1. \A r \in Frame, i \in Top \ {K} : k[r] = "root" /\ g[r][i] # 0 =>
           k[g[r][i]] = "table" /\ up[g[r][i]] = r /\ at[g[r][i]] = i
    BY <1>1, <1>2, <1>3, <1>4 DEF Placed, Index
  <2>2. \A t \in Frame, p \in Page : k[t] = "table" /\ g[t][p] # 0 =>
           k[g[t][p]] = "page" /\ up[g[t][p]] = t /\ at[g[t][p]] = p
    BY <1>1, <1>2, <1>3, <1>4 DEF Placed, Index
  <2>3. \A r \in Frame : k[r] = "root" => g[r][K] = KernelTable
    BY <1>1, <1>2, <1>3, <1>4 DEF Placed
  <2>4. /\ \A x \in H : x \in Frame /\ k[x] = "hand"
        /\ \A r \in O \cup {f} : r \in Frame /\ k[r] = "root"
    BY <1>1, <1>2 DEF Placed
  <2>5. \A x \in KernelFrames : k[x] = "kernel"
    <3>1. \A x \in KernelFrames : x \in Frame /\ kind[x] = "kernel"
      BY FrameAssumption DEF Placed
    <3> QED
      BY <3>1, <1>1, <1>2
  <2>6. \A x \in Frame : k[x] # "free" => x \in b \cup {f}
    <3>1. \A x \in Frame : kind[x] # "free" => x \in b
      BY DEF Placed
    <3> QED
      BY <3>1, <1>1, <1>2
  <2> QED
    BY <1>2, <2>1, <2>2, <2>3, <2>4, <2>5, <2>6 DEF Placed
<1>6. ASSUME Linked(kind, up, at, b, e, O, H, K)
      PROVE  Linked(k, up, at, b \cup {f}, g, O \cup {f}, H, K)
  BY <1>1, <1>2, <1>3, <1>6 DEF Placed, Linked
<1> QED
  BY <1>5, <1>6 DEF k, g

\* A fresh frame, zeroed, is in hand (load_elf_to_process, allocate_user_stack,
\* handle_page_fault).
LEMMA TakeFrame ==
  ASSUME NEW kind, NEW up, NEW at, NEW b, NEW e \in Entries, NEW O, NEW H, NEW K \in Top,
         NEW f \in Frame \ b, b \subseteq Frame,
         Placed(kind, up, at, b, e, O, H, K)
  PROVE  LET k == [kind EXCEPT ![f] = "hand"]
         IN /\ Placed(k, up, at, b \cup {f}, Zeroed(e, f), O, H \cup {f}, K)
            /\ Linked(kind, up, at, b, e, O, H, K)
                 => Linked(k, up, at, b \cup {f}, Zeroed(e, f), O, H \cup {f}, K)
<1> DEFINE k == [kind EXCEPT ![f] = "hand"]
           g == Zeroed(e, f)
<1>1. kind[f] = "free" /\ f \notin KernelFrames \cup H \cup O
  BY FrameAssumption DEF Placed
<1>2. /\ k \in [Frame -> Kinds] /\ k[f] = "hand"
      /\ \A x \in Frame : x # f => k[x] = kind[x]
  BY DEF Placed, Kinds
<1>3. \A x \in Frame : x # f => g[x] = e[x]
  BY DEF Entries, Zeroed
<1>4. \A x \in Frame, i \in Index : e[x][i] \in Frame \cup {0}
  BY DEF Entries, OrZero
<1> HIDE DEF k, g
<1>5. Placed(k, up, at, b \cup {f}, g, O, H \cup {f}, K)
  <2>1. \A r \in Frame, i \in Top \ {K} : k[r] = "root" /\ g[r][i] # 0 =>
           k[g[r][i]] = "table" /\ up[g[r][i]] = r /\ at[g[r][i]] = i
    BY <1>1, <1>2, <1>3, <1>4 DEF Placed, Index
  <2>2. \A t \in Frame, p \in Page : k[t] = "table" /\ g[t][p] # 0 =>
           k[g[t][p]] = "page" /\ up[g[t][p]] = t /\ at[g[t][p]] = p
    BY <1>1, <1>2, <1>3, <1>4 DEF Placed, Index
  <2>3. \A r \in Frame : k[r] = "root" => g[r][K] = KernelTable
    BY <1>1, <1>2, <1>3, <1>4 DEF Placed
  <2>4. /\ \A x \in H \cup {f} : x \in Frame /\ k[x] = "hand"
        /\ \A r \in O : r \in Frame /\ k[r] = "root"
    BY <1>1, <1>2 DEF Placed
  <2>5. \A x \in KernelFrames : k[x] = "kernel"
    <3>1. \A x \in KernelFrames : x \in Frame /\ kind[x] = "kernel"
      BY FrameAssumption DEF Placed
    <3> QED
      BY <3>1, <1>1, <1>2
  <2>6. \A x \in Frame : k[x] # "free" => x \in b \cup {f}
    <3>1. \A x \in Frame : kind[x] # "free" => x \in b
      BY DEF Placed
    <3> QED
      BY <3>1, <1>1, <1>2
  <2> QED
    BY <1>2, <2>1, <2>2, <2>3, <2>4, <2>5, <2>6 DEF Placed
<1>6. ASSUME Linked(kind, up, at, b, e, O, H, K)
      PROVE  Linked(k, up, at, b \cup {f}, g, O, H \cup {f}, K)
  BY <1>1, <1>2, <1>3, <1>6 DEF Placed, Linked
<1> QED
  BY <1>5, <1>6 DEF k, g

\* next_table: a fresh, zeroed frame is linked at an empty index of a private
\* root.
LEMMA LinkTable ==
  ASSUME NEW kind, NEW up, NEW at, NEW b, NEW e \in Entries, NEW O, NEW H, NEW K \in Top,
         NEW t \in Frame \ b, b \subseteq Frame, NEW r \in O, NEW i \in Top \ {K},
         e[r][i] = 0,
         Placed(kind, up, at, b, e, O, H, K)
  PROVE  LET k == [kind EXCEPT ![t] = "table"]
             u == [up EXCEPT ![t] = r]
             a == [at EXCEPT ![t] = i]
             g == [Zeroed(e, t) EXCEPT ![r][i] = t]
         IN /\ Placed(k, u, a, b \cup {t}, g, O, H, K)
            /\ Linked(kind, up, at, b, e, O, H, K)
                 => Linked(k, u, a, b \cup {t}, g, O, H, K)
<1> DEFINE k == [kind EXCEPT ![t] = "table"]
           u == [up EXCEPT ![t] = r]
           a == [at EXCEPT ![t] = i]
           g == [Zeroed(e, t) EXCEPT ![r][i] = t]
<1>1. /\ kind[t] = "free" /\ t \notin KernelFrames /\ t \notin H /\ t \notin O
      /\ r \in Frame /\ r # t /\ kind[r] = "root" /\ r \in Nat /\ i \in Nat
  BY FrameAssumption, TopAssumption DEF Placed
<1>2. /\ k \in [Frame -> Kinds] /\ k[t] = "table"
      /\ \A x \in Frame : x # t => k[x] = kind[x]
  BY DEF Placed, Kinds
<1>3. /\ u \in [Frame -> Nat] /\ u[t] = r
      /\ \A x \in Frame : x # t => u[x] = up[x]
  BY <1>1 DEF Placed
<1>4. /\ a \in [Frame -> Nat] /\ a[t] = i
      /\ \A x \in Frame : x # t => a[x] = at[x]
  BY <1>1 DEF Placed
<1>5. /\ \A x \in Frame : x # t /\ x # r => g[x] = e[x]
      /\ \A j \in Index : g[t][j] = 0
      /\ g[r][i] = t
      /\ \A j \in Index : j # i => g[r][j] = e[r][j]
  BY <1>1 DEF Entries, Zeroed, Blank, Index
<1>6. \A x \in Frame, j \in Index : e[x][j] \in Frame \cup {0}
  BY DEF Entries, OrZero
<1> HIDE DEF k, g, u, a
<1>7. Placed(k, u, a, b \cup {t}, g, O, H, K)
  <2>1. ASSUME NEW x \in Frame, NEW j \in Top \ {K}, k[x] = "root", g[x][j] # 0
        PROVE  k[g[x][j]] = "table" /\ u[g[x][j]] = x /\ a[g[x][j]] = j
    <3>1. x # t /\ kind[x] = "root"
      BY <1>2, <2>1
    <3>2. CASE x = r /\ j = i
      BY <3>2, <1>2, <1>3, <1>4, <1>5
    <3>3. CASE ~(x = r /\ j = i)
      <4>1. g[x][j] = e[x][j] /\ e[x][j] \in Frame
        BY <3>1, <3>3, <1>5, <1>6, <2>1 DEF Index
      <4>2. kind[e[x][j]] = "table" /\ up[e[x][j]] = x /\ at[e[x][j]] = j
        BY <3>1, <4>1, <2>1 DEF Placed
      <4> QED
        BY <4>1, <4>2, <1>1, <1>2, <1>3, <1>4, ZenonT(40)
    <3> QED
      BY <3>2, <3>3
  <2>2. ASSUME NEW x \in Frame, NEW p \in Page, k[x] = "table", g[x][p] # 0
        PROVE  k[g[x][p]] = "page" /\ u[g[x][p]] = x /\ a[g[x][p]] = p
    <3>1. x # t /\ x # r
      BY <2>2, <1>5, <1>1, <1>2 DEF Index
    <3>2. g[x][p] = e[x][p] /\ e[x][p] \in Frame /\ kind[x] = "table"
      BY <3>1, <1>2, <1>5, <1>6, <2>2 DEF Index
    <3>3. kind[e[x][p]] = "page" /\ up[e[x][p]] = x /\ at[e[x][p]] = p
      BY <3>2, <2>2, ZenonT(40) DEF Placed
    <3> QED
      BY <3>2, <3>3, <1>1, <1>2, <1>3, <1>4, ZenonT(40)
  <2>3. \A x \in Frame : k[x] = "root" => g[x][K] = KernelTable
    BY <1>1, <1>2, <1>5 DEF Placed, Index
  <2>4. /\ \A x \in H : x \in Frame /\ k[x] = "hand"
        /\ \A x \in O : x \in Frame /\ k[x] = "root"
    <3>1. \A x \in H : x \in Frame /\ kind[x] = "hand"
      BY DEF Placed
    <3>2. \A x \in O : x \in Frame /\ kind[x] = "root"
      BY DEF Placed
    <3> QED
      BY <3>1, <3>2, <1>1, <1>2
  <2>5. \A x \in KernelFrames : k[x] = "kernel"
    <3>1. \A x \in KernelFrames : x \in Frame /\ kind[x] = "kernel"
      BY FrameAssumption DEF Placed
    <3> QED
      BY <3>1, <1>1, <1>2
  <2>6. \A x \in Frame : k[x] # "free" => x \in b \cup {t}
    <3>1. \A x \in Frame : kind[x] # "free" => x \in b
      BY DEF Placed
    <3> QED
      BY <3>1, <1>1, <1>2
  <2> QED
    BY <1>2, <1>3, <1>4, <2>1, <2>2, <2>3, <2>4, <2>5, <2>6 DEF Placed
<1>8. ASSUME Linked(kind, up, at, b, e, O, H, K)
      PROVE  Linked(k, u, a, b \cup {t}, g, O, H, K)
  <2> SUFFICES ASSUME NEW x \in b \cup {t}
               PROVE  \/ x \in KernelFrames \cup H \cup O
                      \/ k[x] = "table" /\ u[x] \in O /\ a[x] \in Top \ {K} /\ g[u[x]][a[x]] = x
                      \/ k[x] = "page" /\ u[x] \in Frame /\ k[u[x]] = "table" /\ a[x] \in Page
                         /\ g[u[x]][a[x]] = x
    BY DEF Linked
  <2>1. CASE x = t
    BY <2>1, <1>2, <1>3, <1>4, <1>5
  <2>2. CASE x \in b /\ x \in KernelFrames \cup H \cup O
    BY <2>2
  <2>3. CASE /\ x \in b /\ kind[x] = "table" /\ up[x] \in O
             /\ at[x] \in Top \ {K} /\ e[up[x]][at[x]] = x
    <3>1. x \in Frame /\ x # 0 /\ up[x] \in Frame /\ up[x] # t
      BY <2>3, <1>1, FrameAssumption, ZenonT(40) DEF Placed
    <3>2. k[x] = "table" /\ u[x] = up[x] /\ a[x] = at[x]
      BY <2>3, <3>1, <1>2, <1>3, <1>4
    <3>3. g[up[x]][at[x]] = x
      BY <2>3, <3>1, <1>5 DEF Index
    <3> QED
      BY <2>3, <3>2, <3>3
  <2>4. CASE x \in b /\ kind[x] = "page" /\ up[x] \in Frame /\ kind[up[x]] = "table"
             /\ at[x] \in Page /\ e[up[x]][at[x]] = x
    <3>1. x \in Frame /\ x # t /\ up[x] # t /\ up[x] # r
      BY <2>4, <1>1
    <3>2. k[x] = "page" /\ u[x] = up[x] /\ a[x] = at[x] /\ k[up[x]] = "table"
      BY <2>4, <3>1, <1>2, <1>3, <1>4
    <3>3. g[up[x]][at[x]] = x
      BY <2>4, <3>1, <1>5 DEF Index
    <3> QED
      BY <2>4, <3>2, <3>3
  <2> QED
    BY <1>8, <2>1, <2>2, <2>3, <2>4 DEF Linked
<1> QED
  BY <1>7, <1>8 DEF k, u, a, g

\* map_page: the frame in hand is linked at an empty index of a table.
LEMMA LinkPage ==
  ASSUME NEW kind, NEW up, NEW at, NEW b, NEW e \in Entries, NEW O, NEW H, NEW K \in Top,
         b \subseteq Frame, NEW f \in H, NEW t \in Frame, NEW p \in Page,
         kind[t] = "table", e[t][p] = 0,
         Placed(kind, up, at, b, e, O, H, K)
  PROVE  LET k == [kind EXCEPT ![f] = "page"]
             u == [up EXCEPT ![f] = t]
             a == [at EXCEPT ![f] = p]
             g == [e EXCEPT ![t][p] = f]
         IN /\ Placed(k, u, a, b, g, O, H \ {f}, K)
            /\ Linked(kind, up, at, b, e, O, H, K)
                 => Linked(k, u, a, b, g, O, H \ {f}, K)
<1> DEFINE k == [kind EXCEPT ![f] = "page"]
           u == [up EXCEPT ![f] = t]
           a == [at EXCEPT ![f] = p]
           g == [e EXCEPT ![t][p] = f]
<1>1. /\ kind[f] = "hand" /\ f \in Frame /\ f \notin KernelFrames /\ f \notin O
      /\ f # t /\ t \in Nat /\ p \in Nat /\ f \in b
  BY FrameAssumption, TopAssumption DEF Placed
<1>2. /\ k \in [Frame -> Kinds] /\ k[f] = "page"
      /\ \A x \in Frame : x # f => k[x] = kind[x]
  BY <1>1 DEF Placed, Kinds
<1>3. /\ u \in [Frame -> Nat] /\ u[f] = t
      /\ \A x \in Frame : x # f => u[x] = up[x]
  BY <1>1 DEF Placed
<1>4. /\ a \in [Frame -> Nat] /\ a[f] = p
      /\ \A x \in Frame : x # f => a[x] = at[x]
  BY <1>1 DEF Placed
<1>5. /\ \A x \in Frame : x # t => g[x] = e[x]
      /\ g[t][p] = f
      /\ \A j \in Index : j # p => g[t][j] = e[t][j]
  BY <1>1 DEF Entries, Index
<1>6. \A x \in Frame, j \in Index : e[x][j] \in Frame \cup {0}
  BY DEF Entries, OrZero
<1> HIDE DEF k, g, u, a
<1>7. Placed(k, u, a, b, g, O, H \ {f}, K)
  <2>1. ASSUME NEW x \in Frame, NEW j \in Top \ {K}, k[x] = "root", g[x][j] # 0
        PROVE  k[g[x][j]] = "table" /\ u[g[x][j]] = x /\ a[g[x][j]] = j
    <3>1. x # f /\ kind[x] = "root" /\ x # t
      BY <1>1, <1>2, <2>1
    <3>2. g[x][j] = e[x][j] /\ e[x][j] \in Frame
      BY <3>1, <1>5, <1>6, <2>1 DEF Index
    <3>3. kind[e[x][j]] = "table" /\ up[e[x][j]] = x /\ at[e[x][j]] = j
      BY <3>1, <3>2, <2>1 DEF Placed
    <3> QED
      BY <3>2, <3>3, <1>1, <1>2, <1>3, <1>4, ZenonT(40)
  <2>2. ASSUME NEW x \in Frame, NEW q \in Page, k[x] = "table", g[x][q] # 0
        PROVE  k[g[x][q]] = "page" /\ u[g[x][q]] = x /\ a[g[x][q]] = q
    <3>1. CASE x = t /\ q = p
      BY <3>1, <1>2, <1>3, <1>4, <1>5
    <3>2. CASE ~(x = t /\ q = p)
      <4>1. g[x][q] = e[x][q] /\ e[x][q] \in Frame /\ kind[x] = "table"
        BY <3>2, <1>2, <1>5, <1>6, <2>2 DEF Index
      <4>2. kind[e[x][q]] = "page" /\ up[e[x][q]] = x /\ at[e[x][q]] = q
        BY <4>1, <2>2 DEF Placed
      <4> QED
        BY <4>1, <4>2, <1>1, <1>2, <1>3, <1>4
    <3> QED
      BY <3>1, <3>2
  <2>3. \A x \in Frame : k[x] = "root" => g[x][K] = KernelTable
    BY <1>1, <1>2, <1>5 DEF Placed, Index
  <2>4. /\ \A x \in H \ {f} : x \in Frame /\ k[x] = "hand"
        /\ \A x \in O : x \in Frame /\ k[x] = "root"
    <3>1. \A x \in H \ {f} : x \in Frame /\ kind[x] = "hand"
      BY DEF Placed
    <3>2. \A x \in O : x \in Frame /\ kind[x] = "root"
      BY DEF Placed
    <3> QED
      BY <3>1, <3>2, <1>1, <1>2
  <2>5. \A x \in KernelFrames : k[x] = "kernel"
    <3>1. \A x \in KernelFrames : x \in Frame /\ kind[x] = "kernel"
      BY FrameAssumption DEF Placed
    <3> QED
      BY <3>1, <1>1, <1>2
  <2>6. \A x \in Frame : k[x] # "free" => x \in b
    <3>1. \A x \in Frame : kind[x] # "free" => x \in b
      BY DEF Placed
    <3> QED
      BY <3>1, <1>1, <1>2
  <2> QED
    BY <1>2, <1>3, <1>4, <2>1, <2>2, <2>3, <2>4, <2>5, <2>6 DEF Placed
<1>8. ASSUME Linked(kind, up, at, b, e, O, H, K)
      PROVE  Linked(k, u, a, b, g, O, H \ {f}, K)
  <2> SUFFICES ASSUME NEW x \in b
               PROVE  \/ x \in KernelFrames \cup (H \ {f}) \cup O
                      \/ k[x] = "table" /\ u[x] \in O /\ a[x] \in Top \ {K} /\ g[u[x]][a[x]] = x
                      \/ k[x] = "page" /\ u[x] \in Frame /\ k[u[x]] = "table" /\ a[x] \in Page
                         /\ g[u[x]][a[x]] = x
    BY DEF Linked
  <2>1. CASE x = f
    BY <2>1, <1>1, <1>2, <1>3, <1>4, <1>5
  <2>2. CASE x # f /\ x \in KernelFrames \cup H \cup O
    BY <2>2
  <2>3. CASE x # f /\ kind[x] = "table" /\ up[x] \in O /\ at[x] \in Top \ {K} /\ e[up[x]][at[x]] = x
    <3>1. x \in Frame /\ up[x] \in Frame /\ up[x] # t
      BY <2>3, <1>1, ZenonT(40) DEF Placed
    <3>2. k[x] = "table" /\ u[x] = up[x] /\ a[x] = at[x]
      BY <2>3, <3>1, <1>2, <1>3, <1>4
    <3>3. g[up[x]][at[x]] = x
      BY <2>3, <3>1, <1>5 DEF Index
    <3> QED
      BY <2>3, <3>2, <3>3
  <2>4. CASE x # f /\ kind[x] = "page" /\ up[x] \in Frame /\ kind[up[x]] = "table"
             /\ at[x] \in Page /\ e[up[x]][at[x]] = x
    <3>1. x \in Frame /\ up[x] # f /\ x # 0
      BY <2>4, <1>1, FrameAssumption
    <3>2. k[x] = "page" /\ u[x] = up[x] /\ a[x] = at[x] /\ k[up[x]] = "table"
      BY <2>4, <3>1, <1>2, <1>3, <1>4
    <3>3. g[up[x]][at[x]] = x
      BY <2>4, <3>1, <1>5 DEF Index
    <3> QED
      BY <2>4, <3>2, <3>3
  <2> QED
    BY <1>8, <2>1, <2>2, <2>3, <2>4 DEF Linked
<1> QED
  BY <1>7, <1>8 DEF k, u, a, g

\* Roots and frames in hand that are no longer known to anyone keep their
\* place.
LEMMA Forget ==
  ASSUME NEW kind, NEW up, NEW at, NEW b, NEW e, NEW O, NEW H, NEW K,
         NEW P \in SUBSET O, NEW G \in SUBSET H,
         Placed(kind, up, at, b, e, O, H, K)
  PROVE  Placed(kind, up, at, b, e, P, G, K)
BY DEF Placed

\* What unmap_page does to a table, and the kinds once the frames fs are free.
Leaves(e, t, pages) == {e[t][p] : p \in pages}
Cleared(e, t, pages) == [e EXCEPT ![t] = [i \in DOMAIN @ |-> IF i \in pages THEN 0 ELSE @[i]]]
Freed(kind, fs) == [x \in Frame |-> IF x \in fs THEN "free" ELSE kind[x]]

\* sys_munmap: the leaves of a range go back to the allocator, none of them a
\* frame of the kernel, and nothing else is disturbed.
LEMMA Unlink ==
  ASSUME NEW kind, NEW up, NEW at, NEW b, NEW e \in Entries, NEW O, NEW H, NEW K \in Top,
         b \subseteq Frame, NEW t \in Frame, kind[t] = "table", NEW pages \in SUBSET Page,
         \A p \in pages : e[t][p] # 0,
         Placed(kind, up, at, b, e, O, H, K)
  PROVE  LET fs == Leaves(e, t, pages)
             k == Freed(kind, fs)
             g == Cleared(e, t, pages)
         IN /\ Placed(k, up, at, b \ fs, g, O, H, K)
            /\ fs \cap KernelFrames = {}
            /\ Linked(kind, up, at, b, e, O, H, K)
                 => Linked(k, up, at, b \ fs, g, O, H, K)
<1> DEFINE fs == Leaves(e, t, pages)
           k == Freed(kind, fs)
           g == Cleared(e, t, pages)
<1>1. \A x \in Frame, j \in Index : e[x][j] \in Frame \cup {0}
  BY DEF Entries, OrZero
<1>2. \A x \in fs : /\ x \in Frame /\ kind[x] = "page" /\ up[x] = t
                    /\ at[x] \in pages /\ e[t][at[x]] = x
  BY <1>1 DEF Placed, Index, Leaves
<1>3. /\ k \in [Frame -> Kinds]
      /\ \A x \in Frame : x \in fs => k[x] = "free"
      /\ \A x \in Frame : x \notin fs => k[x] = kind[x]
  BY ZenonT(40) DEF Placed, Kinds, Freed
<1>4. /\ \A x \in Frame : x # t => g[x] = e[x]
      /\ \A j \in Index : j \in pages => g[t][j] = 0
      /\ \A j \in Index : j \notin pages => g[t][j] = e[t][j]
  BY DEF Entries, Cleared
<1>5. \A p \in Page : p \in pages => e[t][p] \in fs
  BY DEF Leaves
<1> HIDE DEF k, g, fs
<1>6. Placed(k, up, at, b \ fs, g, O, H, K)
  <2>1. ASSUME NEW x \in Frame, NEW j \in Top \ {K}, k[x] = "root", g[x][j] # 0
        PROVE  k[g[x][j]] = "table" /\ up[g[x][j]] = x /\ at[g[x][j]] = j
    <3>1. x \notin fs /\ kind[x] = "root" /\ x # t
      BY <1>3, <2>1
    <3>2. g[x][j] = e[x][j] /\ e[x][j] \in Frame
      BY <3>1, <1>1, <1>4, <2>1 DEF Index
    <3>3. kind[e[x][j]] = "table" /\ up[e[x][j]] = x /\ at[e[x][j]] = j
      BY <3>1, <3>2, <2>1, ZenonT(40) DEF Placed
    <3> QED
      BY <3>2, <3>3, <1>2, <1>3, ZenonT(40)
  <2>2. ASSUME NEW x \in Frame, NEW q \in Page, k[x] = "table", g[x][q] # 0
        PROVE  k[g[x][q]] = "page" /\ up[g[x][q]] = x /\ at[g[x][q]] = q
    <3>1. x \notin fs /\ kind[x] = "table" /\ ~(x = t /\ q \in pages)
      BY <1>3, <1>4, <2>2 DEF Index
    <3>2. g[x][q] = e[x][q] /\ e[x][q] \in Frame
      BY <3>1, <1>1, <1>4, <2>2 DEF Index
    <3>3. kind[e[x][q]] = "page" /\ up[e[x][q]] = x /\ at[e[x][q]] = q
      BY <3>1, <3>2, <2>2 DEF Placed
    <3>4. e[x][q] \notin fs
      BY <3>1, <3>3, <1>2
    <3> QED
      BY <3>2, <3>3, <3>4, <1>3
  <2>3. \A x \in Frame : k[x] = "root" => g[x][K] = KernelTable
    <3> SUFFICES ASSUME NEW x \in Frame, k[x] = "root"
                 PROVE  g[x][K] = KernelTable
      OBVIOUS
    <3>1. kind[x] = "root" /\ x # t
      BY <1>3
    <3> QED
      BY <3>1, <1>4 DEF Placed
  <2>4. /\ \A x \in H : x \in Frame /\ k[x] = "hand"
        /\ \A x \in O : x \in Frame /\ k[x] = "root"
    <3>1. \A x \in H : x \in Frame /\ kind[x] = "hand"
      BY DEF Placed
    <3>2. \A x \in O : x \in Frame /\ kind[x] = "root"
      BY DEF Placed
    <3> QED
      BY <3>1, <3>2, <1>2, <1>3
  <2>5. \A x \in KernelFrames : k[x] = "kernel"
    BY <1>2, <1>3, FrameAssumption DEF Placed
  <2>6. \A x \in Frame : k[x] # "free" => x \in b \ fs
    BY <1>3 DEF Placed
  <2> QED
    BY <1>3, <2>1, <2>2, <2>3, <2>4, <2>5, <2>6 DEF Placed
<1>7. fs \cap KernelFrames = {}
  BY <1>2 DEF Placed
<1>8. ASSUME Linked(kind, up, at, b, e, O, H, K)
      PROVE  Linked(k, up, at, b \ fs, g, O, H, K)
  <2> SUFFICES ASSUME NEW x \in b, x \notin fs
               PROVE  \/ x \in KernelFrames \cup H \cup O
                      \/ k[x] = "table" /\ up[x] \in O /\ at[x] \in Top \ {K} /\ g[up[x]][at[x]] = x
                      \/ k[x] = "page" /\ up[x] \in Frame /\ k[up[x]] = "table" /\ at[x] \in Page
                         /\ g[up[x]][at[x]] = x
    BY DEF Linked
  <2>1. k[x] = kind[x]
    BY <1>3
  <2>2. CASE x \in KernelFrames \cup H \cup O
    BY <2>2
  <2>3. CASE kind[x] = "table" /\ up[x] \in O /\ at[x] \in Top \ {K} /\ e[up[x]][at[x]] = x
    <3>1. up[x] \in Frame /\ up[x] # t
      BY <2>3 DEF Placed
    <3> QED
      BY <2>1, <2>3, <3>1, <1>4
  <2>4. CASE kind[x] = "page" /\ up[x] \in Frame /\ kind[up[x]] = "table"
             /\ at[x] \in Page /\ e[up[x]][at[x]] = x
    <3>1. k[up[x]] = "table"
      BY <2>4, <1>2, <1>3
    <3>2. ~(up[x] = t /\ at[x] \in pages)
      BY <2>4, <1>5
    <3>3. g[up[x]][at[x]] = x
      BY <2>4, <3>2, <1>4 DEF Index
    <3> QED
      BY <2>1, <2>4, <3>1, <3>3
  <2> QED
    BY <1>8, <2>2, <2>3, <2>4 DEF Linked
<1> QED
  BY <1>6, <1>7, <1>8 DEF k, g, fs

\* A root and what it reaches through the indices in tops.
Below(e, r, tops) ==
  LET tables == {e[r][i] : i \in tops} \ {0}
  IN {r} \cup tables \cup ((UNION {{e[t][p] : p \in Page} : t \in tables}) \ {0})

\* Membership in Below, spelled out for the provers.
LEMMA InBelow ==
  ASSUME NEW e, NEW r, NEW tops
  PROVE  \A x : x \in Below(e, r, tops) <=>
           \/ x = r
           \/ \E i \in tops : x = e[r][i] /\ x # 0
           \/ \E i \in tops, p \in Page : e[r][i] # 0 /\ x = e[e[r][i]][p] /\ x # 0
<1> DEFINE tables == {e[r][i] : i \in tops} \ {0}
           pages == (UNION {{e[t][p] : p \in Page} : t \in tables}) \ {0}
<1>1. \A t : t \in tables <=> \E i \in tops : t = e[r][i] /\ t # 0
  OBVIOUS
<1> HIDE DEF tables
<1>2. \A x : x \in pages <=> \E t \in tables : \E p \in Page : x = e[t][p] /\ x # 0
  <2>1. ASSUME NEW x, x \in pages
        PROVE  \E t \in tables : \E p \in Page : x = e[t][p] /\ x # 0
    <3>1. PICK S \in {{e[t][p] : p \in Page} : t \in tables} : x \in S /\ x # 0
      BY <2>1
    <3>2. PICK t \in tables : S = {e[t][p] : p \in Page}
      OBVIOUS
    <3> QED
      BY <3>1, <3>2
  <2>2. ASSUME NEW x, NEW t \in tables, NEW p \in Page, x = e[t][p], x # 0
        PROVE  x \in pages
    <3>1. x \in {e[t][q] : q \in Page}
      BY <2>2
    <3>2. {e[t][q] : q \in Page} \in {{e[y][q] : q \in Page} : y \in tables}
      OBVIOUS
    <3>3. x \in UNION {{e[y][q] : q \in Page} : y \in tables}
      BY <3>1, <3>2
    <3> QED
      BY <3>3, <2>2
  <2> QED
    BY <2>1, <2>2
<1> HIDE DEF pages
<1>3. \A x : x \in Below(e, r, tops) <=> x = r \/ x \in tables \/ x \in pages
  BY DEF Below, tables, pages
<1> QED
  BY <1>1, <1>2, <1>3

\* Whatever a root reaches outside the kernel's index has its place under that
\* root.
Within(kind, up, at, e, r, K) ==
  \A x \in Below(e, r, Top \ {K}) :
    /\ x \in Frame
    /\ \/ x = r
       \/ kind[x] = "table" /\ up[x] = r /\ at[x] \in Top \ {K} /\ e[r][at[x]] = x
       \/ /\ kind[x] = "page" /\ kind[up[x]] = "table" /\ up[up[x]] = r
          /\ up[x] \in Frame /\ at[x] \in Page /\ e[up[x]][at[x]] = x
          /\ at[up[x]] \in Top \ {K} /\ e[r][at[up[x]]] = up[x]

\* What a private root reaches is reserved and has its place under it.
LEMMA BelowFacts ==
  ASSUME NEW kind, NEW up, NEW at, NEW b, NEW e \in Entries, NEW O, NEW H, NEW K \in Top,
         b \subseteq Frame, NEW r \in O,
         Placed(kind, up, at, b, e, O, H, K)
  PROVE  /\ Below(e, r, Top \ {K}) \subseteq b
         /\ Within(kind, up, at, e, r, K)
<1>1. r \in Frame /\ kind[r] = "root" /\ r \in b
  BY DEF Placed
<1>2. \A x \in Frame, j \in Index : e[x][j] \in Frame \cup {0}
  BY DEF Entries, OrZero
<1>3. ASSUME NEW x \in Below(e, r, Top \ {K})
      PROVE  /\ x \in Frame
             /\ \/ x = r
                \/ kind[x] = "table" /\ up[x] = r /\ at[x] \in Top \ {K} /\ e[r][at[x]] = x
                \/ /\ kind[x] = "page" /\ kind[up[x]] = "table" /\ up[up[x]] = r
                   /\ up[x] \in Frame /\ at[x] \in Page /\ e[up[x]][at[x]] = x
                   /\ at[up[x]] \in Top \ {K} /\ e[r][at[up[x]]] = up[x]
  <2>1. CASE x = r
    BY <2>1, <1>1
  <2>2. CASE \E i \in Top \ {K} : x = e[r][i] /\ x # 0
    BY <2>2, <1>1, <1>2 DEF Placed, Index
  <2>3. CASE \E i \in Top \ {K}, p \in Page : e[r][i] # 0 /\ x = e[e[r][i]][p] /\ x # 0
    <3>1. PICK i \in Top \ {K}, p \in Page : e[r][i] # 0 /\ x = e[e[r][i]][p] /\ x # 0
      BY <2>3
    <3>2. e[r][i] \in Frame /\ kind[e[r][i]] = "table" /\ up[e[r][i]] = r /\ at[e[r][i]] = i
      BY <3>1, <1>1, <1>2 DEF Placed, Index
    <3>3. x \in Frame /\ kind[x] = "page" /\ up[x] = e[r][i] /\ at[x] = p
      BY <3>1, <3>2, <1>2 DEF Placed, Index
    <3> QED
      BY <3>1, <3>2, <3>3
  <2> QED
    BY <2>1, <2>2, <2>3, InBelow
<1>4. Below(e, r, Top \ {K}) \subseteq b
  BY <1>1, <1>3 DEF Placed
<1> QED
  BY <1>3, <1>4 DEF Within

\* free_process_page_table on a private root, when the index it spares is the
\* kernel's: all that is freed was under that root, and all that was under it
\* is freed.
LEMMA TearDown ==
  ASSUME NEW kind, NEW up, NEW at, NEW b, NEW e \in Entries, NEW O, NEW H, NEW K \in Top,
         b \subseteq Frame, NEW r \in O,
         Placed(kind, up, at, b, e, O, H, K)
  PROVE  LET fs == Below(e, r, Top \ {K})
             k == Freed(kind, fs)
         IN /\ Placed(k, up, at, b \ fs, e, O \ {r}, H, K)
            /\ Linked(kind, up, at, b, e, O, H, K)
                 => Linked(k, up, at, b \ fs, e, O \ {r}, H, K)
<1> DEFINE fs == Below(e, r, Top \ {K})
           k == Freed(kind, fs)
<1>1. \A x \in Frame, j \in Index : e[x][j] \in Frame \cup {0}
  BY DEF Entries, OrZero
<1>2. /\ r \in Frame /\ kind[r] = "root"
      /\ \A x \in fs : /\ x \in Frame
                       /\ \/ x = r
                          \/ kind[x] = "table" /\ up[x] = r
                          \/ kind[x] = "page" /\ kind[up[x]] = "table" /\ up[up[x]] = r
                             /\ up[x] \in fs
  <2>1. \A x \in fs : /\ x \in Frame
              /\ \/ x = r
                 \/ kind[x] = "table" /\ up[x] = r /\ at[x] \in Top \ {K} /\ e[r][at[x]] = x
                 \/ /\ kind[x] = "page" /\ kind[up[x]] = "table" /\ up[up[x]] = r
                    /\ up[x] \in Frame /\ at[x] \in Page /\ e[up[x]][at[x]] = x
                    /\ at[up[x]] \in Top \ {K} /\ e[r][at[up[x]]] = up[x]
    <3>1. Within(kind, up, at, e, r, K)
      BY BelowFacts
    <3> QED
      BY <3>1 DEF Within
  <2>2. \A x \in Frame : \A i \in Top \ {K} : e[r][i] = x /\ x # 0 => x \in fs
    BY InBelow
  <2>3. r \in Frame /\ kind[r] = "root"
    BY DEF Placed
  <2>4. ASSUME NEW x \in fs, up[x] \in Frame, at[up[x]] \in Top \ {K},
               e[r][at[up[x]]] = up[x]
        PROVE  up[x] \in fs
    <3>1. up[x] # 0
      BY <2>4, FrameAssumption
    <3> QED
      BY <2>2, <2>4, <3>1
  <2> HIDE DEF fs
  <2> QED
    BY <2>1, <2>3, <2>4
<1>3. /\ k \in [Frame -> Kinds]
      /\ \A x \in Frame : x \in fs => k[x] = "free"
      /\ \A x \in Frame : x \notin fs => k[x] = kind[x]
  BY DEF Placed, Kinds, Freed
<1>4. /\ r \in fs
      /\ \A i \in Top \ {K} : e[r][i] # 0 => e[r][i] \in fs
      /\ \A i \in Top \ {K}, p \in Page : e[r][i] # 0 /\ e[e[r][i]][p] # 0 => e[e[r][i]][p] \in fs
  BY InBelow
<1> HIDE DEF k, fs
<1>5. Placed(k, up, at, b \ fs, e, O \ {r}, H, K)
  <2>1. ASSUME NEW x \in Frame, NEW j \in Top \ {K}, k[x] = "root", e[x][j] # 0
        PROVE  k[e[x][j]] = "table" /\ up[e[x][j]] = x /\ at[e[x][j]] = j
    <3>1. x \notin fs /\ kind[x] = "root" /\ x # r /\ e[x][j] \in Frame
      BY <1>1, <1>3, <1>4, <2>1 DEF Index
    <3>2. kind[e[x][j]] = "table" /\ up[e[x][j]] = x /\ at[e[x][j]] = j
      BY <3>1, <2>1 DEF Placed
    <3> QED
      BY <3>1, <3>2, <1>2, <1>3
  <2>2. ASSUME NEW x \in Frame, NEW q \in Page, k[x] = "table", e[x][q] # 0
        PROVE  k[e[x][q]] = "page" /\ up[e[x][q]] = x /\ at[e[x][q]] = q
    <3>1. x \notin fs /\ kind[x] = "table" /\ e[x][q] \in Frame
      BY <1>1, <1>3, <2>2 DEF Index
    <3>2. kind[e[x][q]] = "page" /\ up[e[x][q]] = x /\ at[e[x][q]] = q
      BY <3>1, <2>2 DEF Placed
    <3>3. e[x][q] \notin fs
      BY <3>1, <3>2, <1>2
    <3> QED
      BY <3>1, <3>2, <3>3, <1>3
  <2>3. \A x \in Frame : k[x] = "root" => e[x][K] = KernelTable
    BY <1>3 DEF Placed
  <2>4. /\ \A x \in H : x \in Frame /\ k[x] = "hand"
        /\ \A x \in O \ {r} : x \in Frame /\ k[x] = "root"
    <3>1. \A x \in H : x \in Frame /\ kind[x] = "hand"
      BY DEF Placed
    <3>2. \A x \in O : x \in Frame /\ kind[x] = "root"
      BY DEF Placed
    <3> QED
      BY <3>1, <3>2, <1>2, <1>3
  <2>5. \A x \in KernelFrames : k[x] = "kernel"
    BY <1>2, <1>3, FrameAssumption DEF Placed
  <2>6. \A x \in Frame : k[x] # "free" => x \in b \ fs
    BY <1>3, ZenonT(40) DEF Placed
  <2> QED
    BY <1>3, <2>1, <2>2, <2>3, <2>4, <2>5, <2>6 DEF Placed
<1>6. ASSUME Linked(kind, up, at, b, e, O, H, K)
      PROVE  Linked(k, up, at, b \ fs, e, O \ {r}, H, K)
  <2> SUFFICES ASSUME NEW x \in b, x \notin fs
               PROVE  \/ x \in KernelFrames \cup H \cup (O \ {r})
                      \/ k[x] = "table" /\ up[x] \in O \ {r} /\ at[x] \in Top \ {K}
                         /\ e[up[x]][at[x]] = x
                      \/ k[x] = "page" /\ up[x] \in Frame /\ k[up[x]] = "table" /\ at[x] \in Page
                         /\ e[up[x]][at[x]] = x
    BY DEF Linked
  <2>1. k[x] = kind[x] /\ x # r /\ x # 0
    BY <1>3, <1>4, FrameAssumption
  <2>2. CASE x \in KernelFrames \cup H \cup O
    BY <2>1, <2>2
  <2>3. CASE kind[x] = "table" /\ up[x] \in O /\ at[x] \in Top \ {K} /\ e[up[x]][at[x]] = x
    BY <2>1, <2>3, <1>4
  <2>4. CASE kind[x] = "page" /\ up[x] \in Frame /\ kind[up[x]] = "table"
             /\ at[x] \in Page /\ e[up[x]][at[x]] = x
    <3>1. up[x] \notin fs
      <4>1. SUFFICES ASSUME up[x] \in fs PROVE FALSE
        OBVIOUS
      <4>2. up[x] \in b /\ up[up[x]] = r
        BY <4>1, <2>4, <1>2 DEF Placed
      <4>3. PICK i \in Top \ {K} : e[r][i] = up[x] /\ up[x] # 0
        <5>1. Within(kind, up, at, e, r, K)
          BY BelowFacts
        <5> QED
          BY <5>1, <4>1, <2>4, <1>2, FrameAssumption DEF Within, fs
      <4> QED
        BY <4>3, <2>1, <2>4, <1>4
    <3> QED
      BY <2>1, <2>4, <3>1, <1>3
  <2> QED
    BY <1>6, <2>2, <2>3, <2>4 DEF Linked
<1> QED
  BY <1>5, <1>6 DEF k, fs

--------------------------------------------------------------------------------
(* map_page *)

\* No entry names the kernel root, and on aarch64 (A) the kernel's table is
\* named at index 0 only: an munmap, which needs an index from USER_SPACE_BASE
\* on, does not get at it.
Clean(e, A) ==
  \A x \in Frame, i \in Index :
    e[x][i] # KernelRoot /\ (A /\ e[x][i] = KernelTable => i = 0)

\* No present entry of a reserved frame is changed.
Grows(e, g, b) == \A x \in b, i \in Index : e[x][i] # 0 => g[x][i] = e[x][i]

\* A non-empty set of numbers has a least one.
LEMMA MinOfNats ==
  ASSUME NEW S \in SUBSET Nat, S # {}
  PROVE  \E n \in S : \A m \in S : n <= m
<1>1. PICK n \in S : \A m \in Nat : <<m, n>> \in OpToRel(<, Nat) => m \notin S
  BY NatLessThanWellFounded, WFMin
<1>2. \A m \in S : ~(m < n)
  BY <1>1 DEF OpToRel
<1> QED
  BY <1>2

\* allocate_next_frame finds a frame that is not reserved.
LEMMA Allocated ==
  ASSUME NEW b \in SUBSET Frame, b # Frame
  PROVE  allocate_next_frame(b) \in Frame \ b
<1>1. \E f \in Frame \ b : \A g \in Frame \ b : f <= g
  BY MinOfNats, FrameAssumption
<1> QED
  BY <1>1 DEF allocate_next_frame

\* The outcomes of map_page: no frame for a table, a leaf that is present, a
\* leaf set in an existing table, and the same with a new table.
MapResult(m, b, e, r, top, page, f) ==
  \/ /\ e[r][top] = 0 /\ b = Frame
     /\ m = [ok |-> FALSE, bitmap |-> b, entries |-> e]
  \/ /\ e[r][top] \in Frame /\ e[e[r][top]][page] # 0
     /\ m = [ok |-> FALSE, bitmap |-> b, entries |-> e]
  \/ /\ e[r][top] \in Frame /\ e[e[r][top]][page] = 0
     /\ m = [ok |-> TRUE, bitmap |-> b, entries |-> [e EXCEPT ![e[r][top]][page] = f]]
  \/ \E t \in Frame \ b : LET g == [Zeroed(e, t) EXCEPT ![r][top] = t] IN
     /\ e[r][top] = 0
     /\ \/ /\ g[t][page] # 0
           /\ m = [ok |-> FALSE, bitmap |-> b \cup {t}, entries |-> g]
        \/ /\ g[t][page] = 0
           /\ m = [ok |-> TRUE, bitmap |-> b \cup {t}, entries |-> [g EXCEPT ![t][page] = f]]

\* map_page has one of these outcomes.
LEMMA MapCases ==
  ASSUME NEW b \in SUBSET Frame, NEW e \in Entries, NEW r \in Frame, NEW top \in Top,
         NEW page \in Page, NEW f \in Frame
  PROVE  MapResult(map_page(b, e, r, top, page, f), b, e, r, top, page, f)
<1> DEFINE m == map_page(b, e, r, top, page, f)
           n == next_table(b, e, r, top)
<1>1. e[r][top] \in Frame \cup {0} /\ 0 \notin Frame
  BY FrameAssumption DEF Entries, OrZero, Index
<1>2. CASE e[r][top] = 0 /\ b = Frame
  <2>1. n = [ok |-> FALSE, bitmap |-> b, entries |-> e]
    BY <1>2 DEF next_table
  <2> HIDE DEF n
  <2>2. m = n
    BY <2>1 DEF map_page, n
  <2> QED
    BY <1>2, <2>1, <2>2 DEF MapResult, m
<1>3. CASE e[r][top] # 0
  <2>1. n = [ok |-> TRUE, bitmap |-> b, entries |-> e]
    BY <1>3 DEF next_table
  <2>2. n.ok /\ n.entries = e
    BY <2>1
  <2>3. m = IF e[e[r][top]][page] # 0 THEN [n EXCEPT !.ok = FALSE]
            ELSE [n EXCEPT !.entries[e[r][top]][page] = f]
    BY <2>2 DEF map_page
  <2> HIDE DEF m, n
  <2>4. CASE e[e[r][top]][page] # 0
    <3>1. m = [ok |-> FALSE, bitmap |-> b, entries |-> e]
      BY <2>1, <2>3, <2>4
    <3> QED
      BY <3>1, <2>4, <1>1, <1>3 DEF m, MapResult
  <2>5. CASE e[e[r][top]][page] = 0
    <3>1. m = [ok |-> TRUE, bitmap |-> b, entries |-> [e EXCEPT ![e[r][top]][page] = f]]
      BY <2>1, <2>3, <2>5
    <3> QED
      BY <3>1, <2>5, <1>1, <1>3 DEF m, MapResult
  <2> QED
    BY <2>4, <2>5
<1>4. CASE e[r][top] = 0 /\ b # Frame
  <2>1. PICK t \in Frame \ b : t = allocate_next_frame(b)
    BY <1>4, Allocated
  <2> DEFINE g == [Zeroed(e, t) EXCEPT ![r][top] = t]
  <2>2. n = [ok |-> TRUE, bitmap |-> b \cup {t}, entries |-> g]
    BY <1>4, <2>1 DEF next_table
  <2>3. g[r][top] = t
    BY DEF Entries, Zeroed, Blank, Index
  <2> HIDE DEF g
  <2>4. n.ok /\ n.entries = g
    BY <2>2
  <2>5. m = IF g[t][page] # 0 THEN [n EXCEPT !.ok = FALSE]
            ELSE [n EXCEPT !.entries[t][page] = f]
    BY <2>3, <2>4 DEF map_page
  <2> HIDE DEF m, n
  <2>6. CASE g[t][page] # 0
    <3>1. m = [ok |-> FALSE, bitmap |-> b \cup {t}, entries |-> g]
      BY <2>2, <2>5, <2>6
    <3> QED
      BY <3>1, <2>6, <1>4 DEF m, g, MapResult
  <2>7. CASE g[t][page] = 0
    <3>1. m = [ok |-> TRUE, bitmap |-> b \cup {t}, entries |-> [g EXCEPT ![t][page] = f]]
      BY <2>2, <2>5, <2>7
    <3> QED
      BY <3>1, <2>7, <1>4 DEF m, g, MapResult
  <2> QED
    BY <2>6, <2>7
<1> QED
  BY <1>2, <1>3, <1>4

\* map_page reserves frames and sets entries; it takes nothing back.
LEMMA MapTyped ==
  ASSUME NEW b \in SUBSET Frame, NEW e \in Entries, NEW r \in Frame, NEW top \in Top,
         NEW page \in Page, NEW f \in Frame
  PROVE  LET m == map_page(b, e, r, top, page, f) IN
         /\ m.ok \in BOOLEAN /\ m.bitmap \in SUBSET Frame /\ m.entries \in Entries
         /\ b \subseteq m.bitmap
         /\ Grows(e, m.entries, b)
<1> DEFINE m == map_page(b, e, r, top, page, f)
<1>0. \A x \in Frame : e[x] \in [Index -> OrZero]
  BY DEF Entries
<1>1. CASE m = [ok |-> FALSE, bitmap |-> b, entries |-> e]
  <2> HIDE DEF m
  <2>1. m.ok = FALSE /\ m.bitmap = b /\ m.entries = e
    BY <1>1
  <2>2. Grows(e, e, b)
    BY DEF Grows
  <2> QED
    BY <2>1, <2>2 DEF m
<1>2. CASE /\ e[r][top] \in Frame /\ e[e[r][top]][page] = 0
           /\ m = [ok |-> TRUE, bitmap |-> b, entries |-> [e EXCEPT ![e[r][top]][page] = f]]
  <2> DEFINE h == [e EXCEPT ![e[r][top]][page] = f]
  <2>1. h \in Entries
    BY <1>2, <1>0 DEF Entries, Index, OrZero
  <2>2. Grows(e, h, b)
    BY <1>2, <1>0 DEF Entries, Index, OrZero, Grows
  <2> HIDE DEF m, h
  <2>3. m.ok = TRUE /\ m.bitmap = b /\ m.entries = h
    BY <1>2 DEF h
  <2> QED
    BY <2>1, <2>2, <2>3 DEF m
<1>3. ASSUME NEW t \in Frame \ b, e[r][top] = 0
      PROVE  LET g == [Zeroed(e, t) EXCEPT ![r][top] = t] IN g \in Entries /\ Grows(e, g, b)
  <2> DEFINE z == Zeroed(e, t)
             g == [z EXCEPT ![r][top] = t]
  <2>1. z \in Entries /\ \A x \in Frame : x # t => z[x] = e[x]
    BY <1>0 DEF Zeroed, Blank, Entries, OrZero, Index
  <2> HIDE DEF z
  <2>2. g \in Entries
    BY <2>1 DEF Entries, Index, OrZero
  <2>3. Grows(e, g, b)
    <3> SUFFICES ASSUME NEW x \in b, NEW i \in Index, e[x][i] # 0
                 PROVE  g[x][i] = e[x][i]
      BY DEF Grows
    <3>1. x \in Frame /\ x # t /\ z[x] = e[x] /\ ~(x = r /\ i = top)
      BY <1>3, <2>1
    <3> QED
      BY <3>1, <2>1 DEF Entries
  <2> QED
    BY <2>2, <2>3 DEF z
<1>4. ASSUME NEW t \in Frame \ b, e[r][top] = 0,
             m = [ok |-> FALSE, bitmap |-> b \cup {t},
                  entries |-> [Zeroed(e, t) EXCEPT ![r][top] = t]]
      PROVE  /\ m.ok \in BOOLEAN /\ m.bitmap \in SUBSET Frame /\ m.entries \in Entries
             /\ b \subseteq m.bitmap
             /\ Grows(e, m.entries, b)
  <2> HIDE DEF m
  <2>1. /\ m.ok = FALSE /\ m.bitmap = b \cup {t}
        /\ m.entries = [Zeroed(e, t) EXCEPT ![r][top] = t]
    BY <1>4
  <2> QED
    BY <2>1, <1>3, <1>4
<1>5. ASSUME NEW t \in Frame \ b, e[r][top] = 0,
             [Zeroed(e, t) EXCEPT ![r][top] = t][t][page] = 0,
             m = [ok |-> TRUE, bitmap |-> b \cup {t},
                  entries |-> [[Zeroed(e, t) EXCEPT ![r][top] = t] EXCEPT ![t][page] = f]]
      PROVE  /\ m.ok \in BOOLEAN /\ m.bitmap \in SUBSET Frame /\ m.entries \in Entries
             /\ b \subseteq m.bitmap
             /\ Grows(e, m.entries, b)
  <2> DEFINE g == [Zeroed(e, t) EXCEPT ![r][top] = t]
             h == [g EXCEPT ![t][page] = f]
  <2>1. g \in Entries /\ Grows(e, g, b) /\ g[t][page] = 0
    BY <1>3, <1>5
  <2> HIDE DEF g
  <2>2. h \in Entries
    BY <2>1 DEF Entries, Index, OrZero
  <2>3. Grows(e, h, b)
    BY <2>1 DEF Entries, Grows
  <2> HIDE DEF m, h
  <2>4. m.ok = TRUE /\ m.bitmap = b \cup {t} /\ m.entries = h
    BY <1>5 DEF g, h
  <2> QED
    BY <2>2, <2>3, <2>4
<1> HIDE DEF m
<1>9. MapResult(m, b, e, r, top, page, f)
  BY MapCases DEF m
<1> QED
  BY <1>1, <1>2, <1>4, <1>5, <1>9 DEF MapResult, m

\* map_page keeps the kernel's frames out of the other tables.
LEMMA MapClean ==
  ASSUME NEW b \in SUBSET Frame, NEW e \in Entries, NEW r \in Frame, NEW top \in Top,
         NEW page \in Page, NEW f \in Frame, NEW A,
         KernelFrames \subseteq b, f \notin KernelFrames, Clean(e, A)
  PROVE  Clean(map_page(b, e, r, top, page, f).entries, A)
<1> DEFINE m == map_page(b, e, r, top, page, f)
<1>1. \A x \in Frame : e[x] \in [Index -> OrZero]
  BY DEF Entries
<1>2. f # KernelRoot /\ f # KernelTable
  BY DEF KernelFrames
<1>3. CASE m = [ok |-> FALSE, bitmap |-> b, entries |-> e]
  <2> HIDE DEF m
  <2> QED
    BY <1>3 DEF m
<1>4. ASSUME NEW g \in Entries, Clean(g, A), NEW x \in Frame, NEW p \in Index, NEW y \in Frame,
             y # KernelRoot, y # KernelTable
      PROVE  Clean([g EXCEPT ![x][p] = y], A)
  <2> DEFINE h == [g EXCEPT ![x][p] = y]
  <2>1. \A z \in Frame, i \in Index : h[z][i] = y \/ h[z][i] = g[z][i]
    BY DEF Entries
  <2> HIDE DEF h
  <2> QED
    BY <2>1, <1>4 DEF Clean, h
<1>5. CASE /\ e[r][top] \in Frame
           /\ m = [ok |-> TRUE, bitmap |-> b, entries |-> [e EXCEPT ![e[r][top]][page] = f]]
  <2> DEFINE h == [e EXCEPT ![e[r][top]][page] = f]
  <2>1. Clean(h, A)
    BY <1>2, <1>4, <1>5 DEF Index
  <2> HIDE DEF m, h
  <2>2. m.entries = h
    BY <1>5 DEF h
  <2> QED
    BY <2>1, <2>2 DEF m
<1>6. ASSUME NEW t \in Frame \ b
      PROVE  LET g == [Zeroed(e, t) EXCEPT ![r][top] = t] IN
             g \in Entries /\ Clean(g, A) /\ t # KernelRoot /\ t # KernelTable
  <2>1. t # KernelRoot /\ t # KernelTable
    BY DEF KernelFrames
  <2> DEFINE z == Zeroed(e, t)
  <2>2. z \in Entries
    BY <1>1 DEF Zeroed, Blank, Entries, OrZero, Index
  <2>3. Clean(z, A)
    <3>1. \A x \in Frame, i \in Index : z[x][i] = 0 \/ z[x][i] = e[x][i]
      BY DEF Entries, Zeroed, Blank, Index
    <3> HIDE DEF z
    <3> QED
      BY <3>1 DEF Clean, KernelRoot, KernelTable
  <2> HIDE DEF z
  <2>4. [z EXCEPT ![r][top] = t] \in Entries
    BY <2>2 DEF Entries, Index, OrZero
  <2>5. Clean([z EXCEPT ![r][top] = t], A)
    BY <2>1, <2>2, <2>3, <1>4 DEF Index
  <2> QED
    BY <2>1, <2>4, <2>5 DEF z
<1>7. ASSUME NEW t \in Frame \ b,
             m = [ok |-> FALSE, bitmap |-> b \cup {t},
                  entries |-> [Zeroed(e, t) EXCEPT ![r][top] = t]]
      PROVE  Clean(m.entries, A)
  <2> HIDE DEF m
  <2>1. m.entries = [Zeroed(e, t) EXCEPT ![r][top] = t]
    BY <1>7
  <2> QED
    BY <2>1, <1>6
<1>8. ASSUME NEW t \in Frame \ b,
             m = [ok |-> TRUE, bitmap |-> b \cup {t},
                  entries |-> [[Zeroed(e, t) EXCEPT ![r][top] = t] EXCEPT ![t][page] = f]]
      PROVE  Clean(m.entries, A)
  <2> DEFINE g == [Zeroed(e, t) EXCEPT ![r][top] = t]
  <2>1. g \in Entries /\ Clean(g, A)
    BY <1>6
  <2> HIDE DEF g
  <2>2. Clean([g EXCEPT ![t][page] = f], A)
    BY <2>1, <1>2, <1>4 DEF Index
  <2> HIDE DEF m
  <2>3. m.entries = [g EXCEPT ![t][page] = f]
    BY <1>8 DEF g
  <2> QED
    BY <2>2, <2>3
<1> HIDE DEF m
<1>9. MapResult(m, b, e, r, top, page, f)
  BY MapCases DEF m
<1> QED
  BY <1>3, <1>5, <1>7, <1>8, <1>9 DEF MapResult, m

\* Every frame has a place, and all means that nothing has leaked.
Kept(b, e, O, H, K, all) ==
  \E kind, up, at : /\ Placed(kind, up, at, b, e, O, H, K)
                    /\ all => Linked(kind, up, at, b, e, O, H, K)

\* map_page below a private root either changes nothing and fails, or puts the
\* frame in hand in its place.
LEMMA MapPlaced ==
  ASSUME NEW b \in SUBSET Frame, NEW e \in Entries, NEW O, NEW H, NEW K \in Top,
         NEW r \in O, NEW top \in Top \ {K}, NEW page \in Page, NEW f \in H, NEW all,
         Kept(b, e, O, H, K, all)
  PROVE  LET m == map_page(b, e, r, top, page, f) IN
         \/ ~m.ok /\ m.bitmap = b /\ m.entries = e
         \/ m.ok /\ Kept(m.bitmap, m.entries, O, H \ {f}, K, all)
<1>1. PICK kind, up, at : /\ Placed(kind, up, at, b, e, O, H, K)
                          /\ all => Linked(kind, up, at, b, e, O, H, K)
  BY DEF Kept
<1>2. r \in Frame /\ f \in Frame /\ r \in b /\ kind[r] = "root"
  BY <1>1 DEF Placed
<1> DEFINE m == map_page(b, e, r, top, page, f)
<1>3. CASE m = [ok |-> FALSE, bitmap |-> b, entries |-> e]
  <2> HIDE DEF m
  <2> QED
    BY <1>3 DEF m
<1>4. CASE /\ e[r][top] \in Frame /\ e[e[r][top]][page] = 0
           /\ m = [ok |-> TRUE, bitmap |-> b, entries |-> [e EXCEPT ![e[r][top]][page] = f]]
  <2>1. PICK t \in Frame : t = e[r][top]
    BY <1>4
  <2>2. kind[t] = "table" /\ e[t][page] = 0
    BY <1>1, <1>2, <1>4, <2>1, FrameAssumption DEF Placed
  <2>3. Kept(b, [e EXCEPT ![t][page] = f], O, H \ {f}, K, all)
    BY <1>1, <2>2, LinkPage DEF Kept
  <2> HIDE DEF m
  <2>4. m.ok /\ m.bitmap = b /\ m.entries = [e EXCEPT ![t][page] = f]
    BY <1>4, <2>1
  <2> QED
    BY <2>3, <2>4 DEF m
<1>5. ASSUME NEW t \in Frame \ b, e[r][top] = 0,
             [Zeroed(e, t) EXCEPT ![r][top] = t][t][page] = 0,
             m = [ok |-> TRUE, bitmap |-> b \cup {t},
                  entries |-> [[Zeroed(e, t) EXCEPT ![r][top] = t] EXCEPT ![t][page] = f]]
      PROVE  m.ok /\ Kept(m.bitmap, m.entries, O, H \ {f}, K, all)
  <2> DEFINE k == [kind EXCEPT ![t] = "table"]
             u == [up EXCEPT ![t] = r]
             a == [at EXCEPT ![t] = top]
             g == [Zeroed(e, t) EXCEPT ![r][top] = t]
  <2>1. /\ Placed(k, u, a, b \cup {t}, g, O, H, K)
        /\ Linked(kind, up, at, b, e, O, H, K) => Linked(k, u, a, b \cup {t}, g, O, H, K)
    BY <1>1, <1>5, LinkTable
  <2>2. k[t] = "table" /\ g[t][page] = 0
    BY <1>1, <1>5 DEF Placed
  <2>3. g \in Entries
    BY <1>2 DEF Zeroed, Blank, Entries, OrZero, Index
  <2> HIDE DEF k, u, a, g
  <2>4. Kept(b \cup {t}, [g EXCEPT ![t][page] = f], O, H \ {f}, K, all)
    <3>1. LET k2 == [k EXCEPT ![f] = "page"]
              u2 == [u EXCEPT ![f] = t]
              a2 == [a EXCEPT ![f] = page]
              h == [g EXCEPT ![t][page] = f]
          IN /\ Placed(k2, u2, a2, b \cup {t}, h, O, H \ {f}, K)
             /\ Linked(k, u, a, b \cup {t}, g, O, H, K)
                  => Linked(k2, u2, a2, b \cup {t}, h, O, H \ {f}, K)
      BY <2>1, <2>2, <2>3, LinkPage, ZenonT(40)
    <3> QED
      BY <1>1, <2>1, <3>1 DEF Kept
  <2> HIDE DEF m
  <2>5. m.ok /\ m.bitmap = b \cup {t} /\ m.entries = [g EXCEPT ![t][page] = f]
    BY <1>5 DEF g
  <2> QED
    BY <2>4, <2>5
<1>6. ASSUME NEW t \in Frame \ b
      PROVE  [Zeroed(e, t) EXCEPT ![r][top] = t][t][page] = 0
  BY <1>2 DEF Zeroed, Blank, Entries, Index
<1> HIDE DEF m
<1>9. MapResult(m, b, e, r, top, page, f)
  BY <1>2, MapCases DEF m
<1> QED
  BY <1>2, <1>3, <1>4, <1>5, <1>6, <1>9 DEF MapResult, m

--------------------------------------------------------------------------------
(* Types, and the entries of the kernel *)

\* The states of spawn_from_elf.
Spawners ==
  [pc : {"idle", "alloc", "map", "register"}, root : OrZero, owns : BOOLEAN,
   stack : BOOLEAN, frame : OrZero]

\* Types of the variables.
TypeOK ==
  /\ arch \in Arch
  /\ bitmap \in SUBSET Frame
  /\ entries \in Entries
  /\ task \in [Slot -> [alive : BOOLEAN, root : OrZero, owns : BOOLEAN]]
  /\ spawner \in Spawners
  /\ failed \in BOOLEAN /\ kernelLost \in BOOLEAN

\* A process has a root; one that does not own it runs on the kernel's.
TaskOK ==
  \A s \in Slot : /\ task[s].alive => task[s].root # 0
                  /\ task[s].owns => task[s].alive
                  /\ task[s].alive /\ ~task[s].owns => task[s].root = KernelRoot

\* spawn_from_elf has a root from its first step to its last, and a frame in
\* hand only between taking it and mapping it.
SpawnerOK ==
  /\ spawner.pc = "idle" => ~spawner.owns
  /\ spawner.pc # "idle" => spawner.root # 0 /\ (~spawner.owns => spawner.root = KernelRoot)
  /\ spawner.pc = "map" <=> spawner.frame # 0

\* What holds in every state, damaged or not.
StatesOK == TypeOK /\ TaskOK /\ SpawnerOK

\* As long as no frame of the kernel has been freed, the kernel's frames are
\* reserved, none of them is in hand, and the tables are clean.
KernelSafe ==
  ~kernelLost =>
    /\ KernelFrames \subseteq bitmap
    /\ spawner.frame \notin KernelFrames
    /\ Clean(entries, arch = "aarch64")

\* A step that changes no present entry of the kernel's root and table.
KernelRowsKept ==
  \A x \in {KernelRoot, KernelTable}, i \in Index :
    entries[x][i] # 0 => entries'[x][i] = entries[x][i]

\* The fields of an idle spawner.
LEMMA IdleFacts ==
  /\ Idle \in Spawners
  /\ Idle.pc = "idle" /\ Idle.owns = FALSE /\ Idle.frame = 0
BY DEF Idle, Spawners, OrZero

\* Boot leaves a state of the right types.
LEMMA InitStates == Init => StatesOK
<1> SUFFICES ASSUME Init PROVE StatesOK
  OBVIOUS
<1>1. entries \in Entries
  <2>1. KernelTop \in Index /\ SegmentPage \in Index
    BY TopAssumption DEF KernelTop, Index
  <2>2. Blank \in [Index -> OrZero]
    BY DEF Blank, Index, OrZero
  <2>3. /\ [Blank EXCEPT ![KernelTop] = KernelTable] \in [Index -> OrZero]
        /\ [Blank EXCEPT ![SegmentPage] = KernelPage] \in [Index -> OrZero]
    BY <2>1, <2>2, FrameAssumption DEF OrZero, KernelFrames
  <2> QED
    BY <2>2, <2>3 DEF Init, Entries
<1>2. TypeOK
  BY <1>1, FrameAssumption, IdleFacts DEF Init, TypeOK, Dead, OrZero
<1>3. TaskOK /\ SpawnerOK
  BY IdleFacts DEF Init, TaskOK, SpawnerOK, Dead
<1> QED
  BY <1>2, <1>3 DEF StatesOK

\* Boot leaves the kernel's frames reserved.
LEMMA InitKernel == Init => KernelSafe
<1> SUFFICES ASSUME Init PROVE KernelSafe
  OBVIOUS
<1>1. KernelFrames \subseteq bitmap
  BY DEF Init
<1>2. spawner.frame \notin KernelFrames
  BY DEF Init, Idle, KernelFrames, KernelRoot, KernelTable, KernelPage
<1>3. KernelTop \in Index /\ SegmentPage \in Index
  BY TopAssumption DEF KernelTop, Index
<1>4. \A x \in Frame, i \in Index :
        \/ entries[x][i] = 0 \/ (entries[x][i] = KernelTable /\ i = KernelTop)
        \/ entries[x][i] = KernelPage
  BY <1>3 DEF Init, Blank, Index
<1>5. Clean(entries, arch = "aarch64")
  BY <1>4 DEF Clean, KernelRoot, KernelTable, KernelPage, KernelTop
<1> QED
  BY <1>1, <1>2, <1>5 DEF KernelSafe

\* Zeroing a frame that was free changes no table in use.
LEMMA ZeroedTyped ==
  ASSUME NEW e \in Entries, NEW b \in SUBSET Frame, NEW f \in Frame \ b
  PROVE  /\ Zeroed(e, f) \in Entries /\ Grows(e, Zeroed(e, f), b)
         /\ \A A : Clean(e, A) => Clean(Zeroed(e, f), A)
<1> DEFINE z == Zeroed(e, f)
<1>1. z \in Entries
  BY DEF Zeroed, Blank, Entries, OrZero, Index
<1>2. \A x \in Frame, i \in Index : z[x][i] = 0 \/ z[x][i] = e[x][i]
  BY DEF Entries, Zeroed, Blank, Index
<1>3. \A x \in Frame : x # f => z[x] = e[x]
  BY DEF Entries, Zeroed
<1> HIDE DEF z
<1>4. Grows(e, z, b)
  BY <1>3 DEF Grows
<1>5. \A A : Clean(e, A) => Clean(z, A)
  BY <1>2 DEF Clean, KernelRoot, KernelTable
<1> QED
  BY <1>1, <1>4, <1>5 DEF z

\* create_process_page_table keeps the types and the kernel's entries.
LEMMA AllocateRootStates ==
  ASSUME StatesOK, AllocateIsolatedPageTable
  PROVE  /\ StatesOK'
         /\ KernelSafe => KernelSafe' /\ (~kernelLost => KernelRowsKept)
<1> USE DEF StatesOK
<1>1. KernelRoot \in Frame /\ 0 \notin Frame
  BY FrameAssumption DEF KernelFrames
<1>2. CASE OutOfFrames
  <2>0. /\ spawner' \in Spawners /\ spawner'.pc = "alloc" /\ spawner'.owns = FALSE
        /\ spawner'.root = KernelRoot /\ spawner'.frame = 0
        /\ UNCHANGED <<arch, bitmap, entries, task, kernelLost>> /\ failed' = TRUE
    BY <1>1, <1>2 DEF AllocateIsolatedPageTable, Idle, OrZero, Spawners
  <2>1. TypeOK'
    BY <2>0 DEF TypeOK
  <2>2. TaskOK' /\ SpawnerOK'
    BY <1>1, <2>0 DEF TaskOK, SpawnerOK
  <2>3. KernelSafe => KernelSafe'
    BY <2>0, FrameAssumption DEF KernelSafe
  <2>4. KernelRowsKept
    BY <1>2 DEF AllocateIsolatedPageTable, KernelRowsKept
  <2> QED
    BY <2>1, <2>2, <2>3, <2>4
<1>3. CASE ~OutOfFrames
  <2>1. PICK r \in Frame \ bitmap : r = allocate_next_frame(bitmap)
    BY <1>3, Allocated DEF OutOfFrames, TypeOK
  <2>2. /\ spawner' = [Idle EXCEPT !.pc = "alloc", !.root = r, !.owns = TRUE]
        /\ bitmap' = bitmap \cup {r}
        /\ entries' = [entries EXCEPT ![r] = entries[KernelRoot]]
        /\ UNCHANGED <<failed, arch, task, kernelLost>>
    BY <1>3, <2>1 DEF AllocateIsolatedPageTable
  <2>3. entries' \in Entries
    BY <1>1, <2>2 DEF TypeOK, Entries
  <2>4. TypeOK'
    BY <2>1, <2>2, <2>3 DEF TypeOK, Idle, OrZero, Spawners
  <2>5. TaskOK' /\ SpawnerOK'
    BY <1>1, <2>1, <2>2 DEF TaskOK, SpawnerOK, Idle
  <2>6. ASSUME KernelSafe, ~kernelLost
        PROVE  KernelSafe' /\ KernelRowsKept
    <3>1. Clean(entries', arch = "aarch64")
      <4>1. \A x \in Frame : entries'[x] = entries[x] \/ entries'[x] = entries[KernelRoot]
        BY <1>1, <2>2 DEF TypeOK, Entries
      <4> QED
        BY <4>1, <1>1, <2>6 DEF KernelSafe, Clean
    <3>2. r \notin KernelFrames
      BY <2>1, <2>6 DEF KernelSafe
    <3>3. KernelRowsKept
      BY <2>1, <2>2, <3>2, FrameAssumption, ZenonT(40)
      DEF KernelRowsKept, KernelFrames, TypeOK, Entries
    <3>4. spawner'.frame = 0
      BY <2>2 DEF Idle
    <3> QED
      BY <2>2, <2>6, <3>1, <3>3, <3>4, FrameAssumption DEF KernelSafe
  <2>7. kernelLost /\ kernelLost' => KernelSafe'
    BY DEF KernelSafe
  <2> QED
    BY <2>2, <2>4, <2>5, <2>6, <2>7 DEF TypeOK
<1> QED
  BY <1>2, <1>3

\* So does taking the frame of the next page,
LEMMA AllocPageStates ==
  ASSUME StatesOK, AllocPage
  PROVE  /\ StatesOK'
         /\ KernelSafe => KernelSafe' /\ (~kernelLost => KernelRowsKept)
<1> USE DEF StatesOK
<1>1. 0 \notin Frame /\ 0 \notin KernelFrames
  BY FrameAssumption
<1>2. CASE OutOfFrames
  <2>1. TypeOK'
    BY <1>2, IdleFacts DEF AllocPage, TypeOK
  <2>2. TaskOK' /\ SpawnerOK'
    BY <1>2, IdleFacts DEF AllocPage, TaskOK, SpawnerOK
  <2>3. KernelSafe => KernelSafe'
    BY <1>1, <1>2, IdleFacts DEF AllocPage, KernelSafe
  <2>4. KernelRowsKept
    BY <1>2 DEF AllocPage, KernelRowsKept
  <2> QED
    BY <2>1, <2>2, <2>3, <2>4
<1>3. CASE ~OutOfFrames
  <2>1. PICK f \in Frame \ bitmap : f = allocate_next_frame(bitmap)
    BY <1>3, Allocated DEF OutOfFrames, TypeOK
  <2>2. /\ spawner' = [spawner EXCEPT !.pc = "map", !.frame = f]
        /\ bitmap' = bitmap \cup {f}
        /\ entries' = Zeroed(entries, f)
        /\ UNCHANGED <<failed, arch, task, kernelLost>>
        /\ spawner.pc = "alloc"
    BY <1>3, <2>1 DEF AllocPage
  <2>3. /\ entries' \in Entries /\ Grows(entries, entries', bitmap)
        /\ \A A : Clean(entries, A) => Clean(entries', A)
    BY <2>1, <2>2, ZeroedTyped DEF TypeOK
  <2>4. TypeOK'
    BY <2>1, <2>2, <2>3 DEF TypeOK, OrZero, Spawners
  <2>5. TaskOK' /\ SpawnerOK'
    BY <1>1, <2>1, <2>2 DEF TaskOK, SpawnerOK, TypeOK, Spawners
  <2>6. ASSUME KernelSafe, ~kernelLost
        PROVE  KernelSafe' /\ KernelRowsKept
    <3>1. spawner'.frame = f /\ f \notin KernelFrames
      BY <2>1, <2>2, <2>6 DEF KernelSafe, TypeOK, Spawners
    <3>2. KernelRowsKept
      BY <2>3, <2>6 DEF KernelRowsKept, Grows, KernelSafe, KernelFrames
    <3> QED
      BY <2>2, <2>3, <2>6, <3>1, <3>2 DEF KernelSafe
  <2>7. kernelLost /\ kernelLost' => KernelSafe'
    BY DEF KernelSafe
  <2> QED
    BY <2>2, <2>4, <2>5, <2>6, <2>7 DEF TypeOK
<1> QED
  BY <1>2, <1>3

\* so does mapping it,
LEMMA MapPageStates ==
  ASSUME StatesOK, NEW top \in Top, NEW page \in Page, MapPage(top, page)
  PROVE  /\ StatesOK'
         /\ KernelSafe => KernelSafe' /\ (~kernelLost => KernelRowsKept)
<1> USE DEF StatesOK
<1>1. 0 \notin Frame /\ 0 \notin KernelFrames
  BY FrameAssumption
<1> DEFINE m == map_page(bitmap, entries, spawner.root, top, page, spawner.frame)
<1>2. spawner.root \in Frame /\ spawner.frame \in Frame /\ spawner.pc = "map"
  BY DEF MapPage, SpawnerOK, TypeOK, OrZero, Spawners
<1>3. /\ m.ok \in BOOLEAN /\ m.bitmap \in SUBSET Frame /\ m.entries \in Entries
      /\ bitmap \subseteq m.bitmap
      /\ Grows(entries, m.entries, bitmap)
  BY <1>2, MapTyped DEF TypeOK
<1>4. \A A : KernelFrames \subseteq bitmap /\ spawner.frame \notin KernelFrames /\ Clean(entries, A)
               => Clean(m.entries, A)
  BY <1>2, MapClean DEF TypeOK
<1>5. /\ bitmap' = m.bitmap /\ entries' = m.entries /\ failed' = (failed \/ ~m.ok)
      /\ \/ ~m.ok /\ spawner' = Idle
         \/ m.ok /\ spawner' = [spawner EXCEPT !.pc = "alloc", !.frame = 0]
         \/ m.ok /\ spawner' = [spawner EXCEPT !.pc = "register", !.frame = 0]
      /\ UNCHANGED <<arch, task, kernelLost>>
  BY DEF MapPage
<1> HIDE DEF m
<1>6. /\ spawner' \in Spawners /\ spawner'.frame = 0 /\ spawner'.pc # "map"
      /\ \/ spawner' = Idle
         \/ spawner'.pc # "idle" /\ spawner'.root = spawner.root /\ spawner'.owns = spawner.owns
  <2>1. spawner \in Spawners
    BY DEF TypeOK
  <2>2. CASE spawner' = Idle
    BY <2>2, IdleFacts
  <2>3. CASE spawner' = [spawner EXCEPT !.pc = "alloc", !.frame = 0]
    BY <2>1, <2>3 DEF Spawners, OrZero
  <2>4. CASE spawner' = [spawner EXCEPT !.pc = "register", !.frame = 0]
    BY <2>1, <2>4 DEF Spawners, OrZero
  <2> QED
    BY <1>5, <2>2, <2>3, <2>4
<1>7. TypeOK'
  BY <1>3, <1>5, <1>6 DEF TypeOK
<1>8. TaskOK' /\ SpawnerOK'
  BY <1>2, <1>5, <1>6, IdleFacts DEF TaskOK, SpawnerOK
<1>9. ASSUME KernelSafe, ~kernelLost
      PROVE  KernelSafe' /\ KernelRowsKept
  <2>1. /\ KernelFrames \subseteq bitmap /\ spawner.frame \notin KernelFrames
        /\ Clean(entries, arch = "aarch64")
    BY <1>9 DEF KernelSafe
  <2>2. Clean(m.entries, arch = "aarch64")
    BY <2>1, <1>4
  <2>3. KernelRowsKept
    BY <2>1, <1>3, <1>5 DEF KernelRowsKept, Grows, KernelFrames
  <2> QED
    BY <1>1, <1>3, <1>5, <1>6, <2>1, <2>2, <2>3 DEF KernelSafe
<1>10. kernelLost /\ kernelLost' => KernelSafe'
  BY DEF KernelSafe
<1> QED
  BY <1>5, <1>7, <1>8, <1>9, <1>10 DEF TypeOK

\* so does the end of the segments,
LEMMA LoadedStates ==
  ASSUME StatesOK, LoadedElf
  PROVE  /\ StatesOK'
         /\ KernelSafe => KernelSafe' /\ (~kernelLost => KernelRowsKept)
<1> USE DEF StatesOK
<1>1. /\ UNCHANGED <<arch, bitmap, entries, task, failed, kernelLost>>
      /\ spawner' = [spawner EXCEPT !.stack = TRUE] /\ spawner \in Spawners
  BY DEF LoadedElf, TypeOK
<1>2. /\ spawner' \in Spawners /\ spawner'.pc = spawner.pc /\ spawner'.root = spawner.root
      /\ spawner'.owns = spawner.owns /\ spawner'.frame = spawner.frame
  BY <1>1 DEF Spawners
<1>3. StatesOK'
  BY <1>1, <1>2 DEF TypeOK, TaskOK, SpawnerOK
<1>4. (KernelSafe => KernelSafe') /\ KernelRowsKept
  BY <1>1, <1>2 DEF KernelSafe, KernelRowsKept
<1> QED
  BY <1>3, <1>4

\* so do a refused image and spawn_isolated_at.
LEMMA RegisterStates ==
  ASSUME StatesOK, RefuseElf \/ Register
  PROVE  /\ StatesOK'
         /\ KernelSafe => KernelSafe' /\ (~kernelLost => KernelRowsKept)
<1> USE DEF StatesOK
<1>1. 0 \notin Frame /\ 0 \notin KernelFrames
  BY FrameAssumption
<1>2. UNCHANGED <<arch, bitmap, entries, kernelLost>> /\ spawner' = Idle /\ failed' \in BOOLEAN
  BY DEF RefuseElf, Register, TypeOK
<1>3. spawner'.pc = "idle" /\ spawner'.owns = FALSE /\ spawner'.frame = 0
  BY <1>2, IdleFacts
<1>4. task' = task \/ \E s \in Slot : task' = [task EXCEPT ![s] = [alive |-> TRUE, root |-> spawner.root,
                                                               owns |-> spawner.owns]]
                                       /\ spawner.pc = "register"
  BY DEF RefuseElf, Register
<1>5. TypeOK'
  <2>1. task' \in [Slot -> [alive : BOOLEAN, root : OrZero, owns : BOOLEAN]]
    <3>1. spawner.root \in OrZero /\ spawner.owns \in BOOLEAN
      BY DEF TypeOK, Spawners
    <3>2. CASE task' = task
      BY <3>2 DEF TypeOK
    <3>3. ASSUME NEW s \in Slot,
                 task' = [task EXCEPT ![s] = [alive |-> TRUE, root |-> spawner.root,
                                              owns |-> spawner.owns]]
          PROVE  task' \in [Slot -> [alive : BOOLEAN, root : OrZero, owns : BOOLEAN]]
      BY <3>1, <3>3 DEF TypeOK
    <3> QED
      BY <1>4, <3>2, <3>3
  <2> QED
    BY <1>2, <2>1, IdleFacts DEF TypeOK
<1>6. TaskOK'
  BY <1>4 DEF TypeOK, TaskOK, SpawnerOK
<1>7. SpawnerOK'
  BY <1>3 DEF SpawnerOK
<1>8. KernelRowsKept
  BY <1>2 DEF KernelRowsKept
<1>9. KernelSafe => KernelSafe'
  BY <1>1, <1>2, <1>3 DEF KernelSafe
<1> QED
  BY <1>5, <1>6, <1>7, <1>8, <1>9

\* Freeing frames that are not the kernel's leaves the kernel safe.
LEMMA FreeStates ==
  ASSUME TypeOK, NEW fs, Free(fs), KernelSafe, ~kernelLost', spawner' = spawner, arch' = arch,
         Clean(entries, arch = "aarch64") => Clean(entries', arch = "aarch64")
  PROVE  KernelSafe'
BY DEF Free, KernelSafe

\* A slot that is cleared is a well-formed slot.
LEMMA DeadStates ==
  ASSUME TypeOK, TaskOK, NEW s \in Slot, task' = [task EXCEPT ![s] = Dead]
  PROVE  /\ task' \in [Slot -> [alive : BOOLEAN, root : OrZero, owns : BOOLEAN]]
         /\ TaskOK'
<1>1. Dead \in [alive : BOOLEAN, root : OrZero, owns : BOOLEAN] /\ ~Dead.alive /\ ~Dead.owns
  BY DEF Dead, OrZero
<1>2. task' \in [Slot -> [alive : BOOLEAN, root : OrZero, owns : BOOLEAN]]
  BY <1>1 DEF TypeOK
<1>3. \A u \in Slot : task'[u] = task[u] \/ task'[u] = Dead
  BY DEF TypeOK
<1> QED
  BY <1>1, <1>2, <1>3 DEF TaskOK

\* exit keeps the types and, unless it frees a frame of the kernel, the
\* kernel's entries,
LEMMA ExitStates ==
  ASSUME StatesOK, NEW s \in Slot, exit(s)
  PROVE  /\ StatesOK'
         /\ KernelSafe => KernelSafe' /\ (~kernelLost => KernelRowsKept)
<1> USE DEF StatesOK
<1>1. PICK fs : Free(fs)
  BY DEF exit
<1>2. task' = [task EXCEPT ![s] = Dead] /\ UNCHANGED <<arch, entries, spawner, failed>>
  BY DEF exit
<1>3. /\ task' \in [Slot -> [alive : BOOLEAN, root : OrZero, owns : BOOLEAN]]
      /\ TaskOK'
  BY <1>2, DeadStates
<1>4. bitmap' \in SUBSET Frame /\ kernelLost' \in BOOLEAN
  BY <1>1 DEF Free, TypeOK
<1>5. TypeOK' /\ SpawnerOK'
  BY <1>2, <1>3, <1>4 DEF TypeOK, SpawnerOK
<1>6. KernelRowsKept
  BY <1>2 DEF KernelRowsKept
<1>7. KernelSafe /\ ~kernelLost' => KernelSafe'
  BY <1>1, <1>2, FreeStates
<1>8. kernelLost' => KernelSafe'
  BY DEF KernelSafe
<1> QED
  BY <1>3, <1>5, <1>6, <1>7, <1>8 DEF TypeOK

\* and so does a page fault, on x86_64.
LEMMA FaultStates ==
  ASSUME StatesOK, NEW s \in Slot, NEW top \in Top, NEW page \in Page, PageFault(s, top, page)
  PROVE  /\ StatesOK'
         /\ KernelSafe => KernelSafe' /\ (~kernelLost => KernelRowsKept)
<1> USE DEF StatesOK
<1>1. CASE OutOfFrames
  <2>2. PICK fs : Free(fs)
    BY <1>1 DEF PageFault
  <2>3. /\ task' = [task EXCEPT ![s] = Dead] /\ UNCHANGED <<arch, entries, spawner>>
        /\ failed' = TRUE
    BY <1>1 DEF PageFault
  <2>4. /\ task' \in [Slot -> [alive : BOOLEAN, root : OrZero, owns : BOOLEAN]]
        /\ TaskOK'
    BY <2>3, DeadStates
  <2>5. bitmap' \in SUBSET Frame /\ kernelLost' \in BOOLEAN
    BY <2>2 DEF Free, TypeOK
  <2>6. TypeOK' /\ SpawnerOK'
    BY <2>3, <2>4, <2>5 DEF TypeOK, SpawnerOK
  <2>7. KernelRowsKept
    BY <2>3 DEF KernelRowsKept
  <2>8. KernelSafe /\ ~kernelLost' => KernelSafe'
    BY <2>2, <2>3, FreeStates
  <2>9. kernelLost' => KernelSafe'
    BY DEF KernelSafe
  <2> QED
    BY <2>4, <2>6, <2>7, <2>8, <2>9 DEF TypeOK
<1>2. CASE ~OutOfFrames
  <2>1. PICK f \in Frame \ bitmap : f = allocate_next_frame(bitmap)
    BY <1>2, Allocated DEF OutOfFrames, TypeOK
  <2> DEFINE z == Zeroed(entries, f)
             m == map_page(bitmap \cup {f}, z, task[s].root, top, page, f)
             dead == IF ~m.ok /\ task[s].owns THEN Teardown(task[s].root) ELSE {}
  <2>2. /\ bitmap' = m.bitmap \ dead /\ entries' = m.entries
        /\ task' = (IF m.ok THEN task ELSE [task EXCEPT ![s] = Dead])
        /\ failed' = (failed \/ ~m.ok)
        /\ kernelLost' = (kernelLost \/ dead \cap KernelFrames # {})
        /\ UNCHANGED <<arch, spawner>>
    BY <1>2, <2>1 DEF PageFault
  <2>3. task[s].root \in Frame
    BY DEF PageFault, TypeOK, TaskOK, OrZero
  <2>4. /\ z \in Entries /\ Grows(entries, z, bitmap)
        /\ \A A : Clean(entries, A) => Clean(z, A)
    BY <2>1, ZeroedTyped DEF TypeOK
  <2> HIDE DEF z
  <2>5. /\ m.ok \in BOOLEAN /\ m.bitmap \in SUBSET Frame /\ m.entries \in Entries
        /\ bitmap \cup {f} \subseteq m.bitmap
        /\ Grows(z, m.entries, bitmap \cup {f})
    <3>1. bitmap \cup {f} \in SUBSET Frame
      BY <2>1 DEF TypeOK
    <3>2. f \in Frame
      BY <2>1
    <3> QED
      BY <2>3, <2>4, <3>1, <3>2, MapTyped
  <2>6. KernelSafe /\ ~kernelLost => Clean(m.entries, arch = "aarch64")
    <3> SUFFICES ASSUME KernelSafe, ~kernelLost PROVE Clean(m.entries, arch = "aarch64")
      OBVIOUS
    <3>1. /\ KernelFrames \subseteq bitmap \cup {f} /\ f \notin KernelFrames
          /\ bitmap \cup {f} \in SUBSET Frame
      BY <2>1 DEF KernelSafe, TypeOK
    <3>2. Clean(z, arch = "aarch64")
      BY <2>4 DEF KernelSafe
    <3> QED
      BY <2>1, <2>3, <2>4, <3>1, <3>2, MapClean
  <2> HIDE DEF m, dead
  <2>7. /\ task' \in [Slot -> [alive : BOOLEAN, root : OrZero, owns : BOOLEAN]]
        /\ TaskOK'
    <3>1. CASE m.ok
      BY <3>1, <2>2 DEF TypeOK, TaskOK
    <3>2. CASE ~m.ok
      BY <3>2, <2>2, DeadStates
    <3> QED
      BY <3>1, <3>2
  <2>8. TypeOK' /\ SpawnerOK'
    <3>1. /\ bitmap' \in SUBSET Frame /\ entries' \in Entries
          /\ failed' \in BOOLEAN /\ kernelLost' \in BOOLEAN
      BY <2>2, <2>5 DEF TypeOK
    <3> QED
      BY <2>2, <2>7, <3>1 DEF TypeOK, SpawnerOK
  <2>9. ASSUME KernelSafe, ~kernelLost PROVE KernelRowsKept
    BY <2>2, <2>4, <2>5, <2>9 DEF KernelRowsKept, KernelSafe, KernelFrames, Grows
  <2>10. KernelSafe /\ ~kernelLost' => KernelSafe'
    BY <2>2, <2>5, <2>6 DEF KernelSafe
  <2>11. kernelLost' => KernelSafe'
    BY DEF KernelSafe
  <2> QED
    BY <2>7, <2>8, <2>9, <2>10, <2>11 DEF TypeOK
<1> QED
  BY <1>1, <1>2

\* What validate_user_range has made sure of when sys_munmap goes on: the range
\* is mapped.
LEMMA MunmapFacts ==
  ASSUME StatesOK, NEW s \in Slot, NEW top \in Top, NEW lo \in Page, NEW hi \in Page, lo <= hi,
         sys_munmap(s, top, lo .. hi)
  PROVE  /\ arch = "aarch64" /\ task[s].alive /\ task[s].root \in Frame
         /\ lo .. hi \in SUBSET Page /\ entries[task[s].root][top] \in Frame
         /\ ~kernelLost' => top # 0
         /\ \A p \in lo .. hi : entries[entries[task[s].root][top]][p] # 0
<1> DEFINE r == task[s].root
<1>1. arch = "aarch64" /\ task[s].alive /\ r \in Frame
  BY DEF sys_munmap, StatesOK, TaskOK, TypeOK, OrZero
<1>2. lo .. hi \in SUBSET Page /\ lo \in lo .. hi
  BY TopAssumption
<1>3. \A p \in lo .. hi : Present(r, top, p)
  BY DEF sys_munmap, validate_user_range
<1>4. ~kernelLost' => top # 0
  BY <1>1 DEF sys_munmap, KernelTop
<1>5. entries[r][top] # 0 /\ \A p \in lo .. hi : entries[entries[r][top]][p] # 0
  BY <1>2, <1>3 DEF Present, translate_addr
<1>6. entries[r][top] \in Frame
  BY <1>1, <1>5 DEF StatesOK, TypeOK, Entries, OrZero, Index
<1> QED
  BY <1>1, <1>2, <1>4, <1>5, <1>6

\* sys_munmap keeps the types and the kernel's entries.
LEMMA MunmapStates ==
  ASSUME StatesOK, NEW s \in Slot, NEW top \in Top, NEW lo \in Page, NEW hi \in Page, lo <= hi,
         sys_munmap(s, top, lo .. hi)
  PROVE  /\ StatesOK'
         /\ KernelSafe => KernelSafe' /\ (~kernelLost' => KernelRowsKept)
<1> USE DEF StatesOK
<1>1. PICK t \in Frame : /\ t = entries[task[s].root][top] /\ (~kernelLost' => top # 0)
                         /\ arch = "aarch64" /\ task[s].root \in Frame
  BY MunmapFacts
<1>2. PICK fs : /\ bitmap' = bitmap \ fs
                /\ kernelLost' = (kernelLost \/ fs \cap KernelFrames # {} \/ top = KernelTop)
  BY DEF sys_munmap
<1>3. /\ entries' = [entries EXCEPT ![t] = [i \in DOMAIN @ |-> IF i \in lo .. hi THEN 0 ELSE @[i]]]
      /\ UNCHANGED <<arch, task, spawner, failed>>
  BY <1>1 DEF sys_munmap, unmap_page
<1>4. /\ entries' \in Entries
      /\ \A x \in Frame : x # t => entries'[x] = entries[x]
      /\ \A x \in Frame, i \in Index : entries'[x][i] = 0 \/ entries'[x][i] = entries[x][i]
  BY <1>3 DEF TypeOK, Entries, OrZero
<1>5. bitmap' \in SUBSET Frame /\ kernelLost' \in BOOLEAN
  BY <1>2 DEF TypeOK
<1>6. TypeOK' /\ SpawnerOK' /\ TaskOK'
  BY <1>3, <1>4, <1>5 DEF TypeOK, SpawnerOK, TaskOK
<1>7. Clean(entries, arch = "aarch64") => Clean(entries', arch = "aarch64")
  BY <1>4 DEF Clean, KernelRoot, KernelTable
<1>8. ASSUME KernelSafe, ~kernelLost' PROVE KernelRowsKept
  <2>1. t # KernelRoot /\ t # KernelTable
    BY <1>1, <1>2, <1>8 DEF KernelSafe, Clean, Index
  <2> QED
    BY <1>4, <2>1, FrameAssumption DEF KernelRowsKept, KernelFrames
<1>9. KernelSafe /\ ~kernelLost' => KernelSafe'
  <2>1. ~kernelLost' => Free(fs)
    BY <1>2 DEF Free, TypeOK
  <2> QED
    BY <1>3, <1>7, <2>1, FreeStates
<1>10. kernelLost' => KernelSafe'
  BY DEF KernelSafe
<1> QED
  BY <1>6, <1>8, <1>9, <1>10 DEF TypeOK

\* No step forgets what the kernel has lost.
LEMMA LostForGood ==
  ASSUME [Next]_vars
  PROVE  arch' = arch /\ (kernelLost => kernelLost')
<1>1. CASE UNCHANGED vars \/ AllocateIsolatedPageTable \/ AllocPage \/ LoadedElf \/ RefuseElf
           \/ Register
  BY <1>1 DEF vars, AllocateIsolatedPageTable, AllocPage, LoadedElf, RefuseElf, Register
<1>2. ASSUME NEW top, NEW page, MapPage(top, page)
      PROVE  arch' = arch /\ (kernelLost => kernelLost')
  BY <1>2 DEF MapPage
<1>3. ASSUME NEW s \in Slot, exit(s)
      PROVE  arch' = arch /\ (kernelLost => kernelLost')
  BY <1>3 DEF exit, Free
<1>4. ASSUME NEW s \in Slot, NEW top, NEW page, PageFault(s, top, page)
      PROVE  arch' = arch /\ (kernelLost => kernelLost')
  BY <1>4 DEF PageFault, Free
<1>5. ASSUME NEW s \in Slot, NEW top, NEW pages, sys_munmap(s, top, pages)
      PROVE  arch' = arch /\ (kernelLost => kernelLost')
  BY <1>5 DEF sys_munmap
<1> QED
  BY <1>1, <1>2, <1>3, <1>4, <1>5 DEF Next, handle_el0_sync_trap

\* Every step keeps the types and, as long as the kernel has its frames, the
\* present entries of the kernel's tables.
LEMMA StatesStep ==
  ASSUME StatesOK, [Next]_vars
  PROVE  /\ StatesOK'
         /\ KernelSafe => KernelSafe' /\ (~kernelLost' => KernelRowsKept)
<1>1. CASE UNCHANGED vars
  BY <1>1 DEF vars, StatesOK, TypeOK, TaskOK, SpawnerOK, KernelSafe, KernelRowsKept
<1>2. ASSUME NEW s \in Slot, NEW top \in Top, NEW page \in Page, handle_el0_sync_trap(s, top, page)
      PROVE  exit(s)
  BY <1>2 DEF handle_el0_sync_trap
<1> QED
  BY <1>1, <1>2, LostForGood, AllocateRootStates, AllocPageStates, MapPageStates, LoadedStates,
     RegisterStates, ExitStates, FaultStates, MunmapStates DEF Next

\* What has been mapped into the kernel's tables is never taken out again: an
\* undamaged state has undamaged predecessors only.
LEMMA StaysDamaged ==
  ASSUME StatesOK, KernelSafe, [Next]_vars, Undamaged'
  PROVE  Undamaged /\ KernelRowsKept
<1>1. arch' = arch /\ (kernelLost => kernelLost')
  BY LostForGood
<1>2. ~kernelLost /\ KernelRowsKept
  BY <1>1, StatesStep DEF Undamaged
<1>3. KernelTop' = KernelTop
  BY <1>1 DEF KernelTop
<1> QED
  BY <1>2, <1>3 DEF Undamaged, KernelRowsKept, Index

--------------------------------------------------------------------------------
(* Owners, and the steps in an undamaged state *)

\* Owned and InHand as functions of the slots and the spawner, so that they can
\* be applied to the next state.
OwnedBy(tk, sp) ==
  {tk[s].root : s \in {s \in Slot : tk[s].alive /\ tk[s].owns}}
    \cup (IF sp.owns THEN {sp.root} ELSE {})

Hand(sp) == IF sp.frame # 0 THEN {sp.frame} ELSE {}

\* No two owners share a root.
Distinct(tk, sp) ==
  /\ \A s, u \in Slot : tk[s].owns /\ tk[u].owns /\ s # u => tk[s].root # tk[u].root
  /\ \A s \in Slot : tk[s].owns /\ sp.owns => tk[s].root # sp.root

\* The kernel root still maps the kernel.
KernelMapped ==
  /\ entries[KernelRoot][KernelTop] = KernelTable
  /\ entries[KernelTable][SegmentPage] = KernelPage

\* Every frame has one place, under the one owner of its root.
InPlace ==
  /\ Distinct(task, spawner)
  /\ Kept(bitmap, entries, OwnedBy(task, spawner), Hand(spawner), KernelTop, ~failed)

\* The part of the invariant that damage ends.
Structure == Undamaged => KernelMapped /\ InPlace

\* The invariant in an undamaged state.
Sane == StatesOK /\ KernelSafe /\ Undamaged /\ KernelMapped /\ InPlace

\* Membership in OwnedBy, spelled out for the provers.
LEMMA InOwned ==
  ASSUME NEW tk, NEW sp
  PROVE  \A x : x \in OwnedBy(tk, sp) <=>
           \/ \E s \in Slot : tk[s].alive /\ tk[s].owns /\ x = tk[s].root
           \/ sp.owns /\ x = sp.root
BY DEF OwnedBy

\* Places survive owners that go away with a failure.
LEMMA KeptForget ==
  ASSUME NEW b, NEW e, NEW O, NEW H, NEW K, NEW all, Kept(b, e, O, H, K, all),
         NEW P \in SUBSET O, NEW G \in SUBSET H
  PROVE  Kept(b, e, P, G, K, FALSE)
BY Forget DEF Kept

\* What the lemmas about the steps need of an undamaged state.
LEMMA SaneFacts ==
  ASSUME Sane
  PROVE  /\ KernelTop \in Top /\ UserTop \in Top \ {KernelTop}
         /\ bitmap \in SUBSET Frame /\ entries \in Entries
         /\ KernelRoot \in bitmap /\ KernelTable \in bitmap /\ KernelPage \in bitmap
         /\ \A i \in Top \ {KernelTop} : entries[KernelRoot][i] = 0
         /\ \A r \in OwnedBy(task, spawner) :
              r \in bitmap /\ r \notin KernelFrames /\ entries[r][KernelTop] = KernelTable
         /\ \A f \in Hand(spawner) : f \in bitmap /\ f \notin KernelFrames
         /\ \A s \in Slot : task[s].owns => task[s].root \in OwnedBy(task, spawner)
         /\ spawner.owns => spawner.root \in OwnedBy(task, spawner)
<1>1. KernelTop \in Top /\ UserTop \in Top \ {KernelTop}
  BY TopAssumption DEF KernelTop
<1>2. bitmap \in SUBSET Frame /\ entries \in Entries
  BY DEF Sane, StatesOK, TypeOK
<1>3. KernelRoot \in bitmap /\ KernelTable \in bitmap /\ KernelPage \in bitmap
  BY DEF Sane, KernelSafe, Undamaged, KernelFrames
<1>4. \A i \in Top \ {KernelTop} : entries[KernelRoot][i] = 0
  BY DEF Sane, Undamaged
<1>5. PICK kind, up, at :
        Placed(kind, up, at, bitmap, entries, OwnedBy(task, spawner), Hand(spawner), KernelTop)
  BY DEF Sane, InPlace, Kept
<1>6. \A r \in OwnedBy(task, spawner) :
        r \in bitmap /\ r \notin KernelFrames /\ entries[r][KernelTop] = KernelTable
  BY <1>5 DEF Placed
<1>7. \A f \in Hand(spawner) : f \in bitmap /\ f \notin KernelFrames
  BY <1>5 DEF Placed
<1>8. /\ \A s \in Slot : task[s].owns => task[s].root \in OwnedBy(task, spawner)
      /\ spawner.owns => spawner.root \in OwnedBy(task, spawner)
  BY InOwned DEF Sane, StatesOK, TaskOK
<1> QED
  BY <1>1, <1>2, <1>3, <1>4, <1>6, <1>7, <1>8

\* create_process_page_table leaves every frame in its place, whether it finds
\* a frame or falls back to the kernel root.
LEMMA SaneAllocateRoot ==
  ASSUME Sane, AllocateIsolatedPageTable
  PROVE  InPlace'
<1>1. spawner.owns = FALSE /\ spawner.frame = 0 /\ Hand(spawner) = {}
  BY DEF Sane, StatesOK, SpawnerOK, TypeOK, Spawners, AllocateIsolatedPageTable, Hand
<1>2. KernelTop' = KernelTop
  BY DEF AllocateIsolatedPageTable, KernelTop
<1>3. CASE OutOfFrames
  <2>1. /\ spawner'.owns = FALSE /\ spawner'.frame = 0
        /\ UNCHANGED <<bitmap, entries, task>> /\ failed' = TRUE
    BY <1>3 DEF AllocateIsolatedPageTable, Idle
  <2>2. OwnedBy(task', spawner') \subseteq OwnedBy(task, spawner)
    BY <2>1, InOwned, ZenonT(40)
  <2>3. Hand(spawner') = {}
    BY <2>1 DEF Hand
  <2>4. Kept(bitmap, entries, OwnedBy(task', spawner'), {}, KernelTop, FALSE)
    BY <2>2, KeptForget DEF Sane, InPlace
  <2>5. Distinct(task', spawner')
    BY <2>1 DEF Sane, InPlace, Distinct
  <2> QED
    BY <1>2, <2>1, <2>3, <2>4, <2>5 DEF InPlace
<1>4. CASE ~OutOfFrames
  <2>1. PICK r \in Frame \ bitmap : r = allocate_next_frame(bitmap)
    BY <1>4, SaneFacts, Allocated DEF OutOfFrames
  <2>2. /\ spawner' = [Idle EXCEPT !.pc = "alloc", !.root = r, !.owns = TRUE]
        /\ bitmap' = bitmap \cup {r}
        /\ entries' = [entries EXCEPT ![r] = entries[KernelRoot]]
        /\ UNCHANGED <<failed, arch, task, kernelLost>>
    BY <1>4, <2>1 DEF AllocateIsolatedPageTable
  <2>3. spawner'.owns = TRUE /\ spawner'.root = r /\ spawner'.frame = 0
    BY <2>2 DEF Idle
  <2>4. OwnedBy(task', spawner') = OwnedBy(task, spawner) \cup {r}
    <3>1. \A x : x \in OwnedBy(task, spawner) <=>
             \/ \E u \in Slot : task[u].alive /\ task[u].owns /\ x = task[u].root
             \/ spawner.owns /\ x = spawner.root
      BY InOwned
    <3>2. \A x : x \in OwnedBy(task', spawner') <=>
             \/ \E u \in Slot : task'[u].alive /\ task'[u].owns /\ x = task'[u].root
             \/ spawner'.owns /\ x = spawner'.root
      BY InOwned
    <3>3. \A x : x \in OwnedBy(task', spawner') <=> x \in OwnedBy(task, spawner) \/ x = r
      BY <1>1, <2>2, <2>3, <3>1, <3>2
    <3> QED
      BY <3>3
  <2>5. Hand(spawner') = {}
    BY <2>3 DEF Hand
  <2>6. PICK kind, up, at :
          /\ Placed(kind, up, at, bitmap, entries, OwnedBy(task, spawner), {}, KernelTop)
          /\ ~failed => Linked(kind, up, at, bitmap, entries, OwnedBy(task, spawner), {}, KernelTop)
    BY <1>1 DEF Sane, InPlace, Kept
  <2> DEFINE k == [kind EXCEPT ![r] = "root"]
             g == [entries EXCEPT ![r] = entries[KernelRoot]]
             O == OwnedBy(task, spawner)
  <2>7. /\ Placed(k, up, at, bitmap \cup {r}, g, O \cup {r}, {}, KernelTop)
        /\ Linked(kind, up, at, bitmap, entries, O, {}, KernelTop)
             => Linked(k, up, at, bitmap \cup {r}, g, O \cup {r}, {}, KernelTop)
    <3>1. /\ entries \in Entries /\ KernelTop \in Top /\ bitmap \subseteq Frame
          /\ entries[KernelRoot][KernelTop] = KernelTable
          /\ \A i \in Top \ {KernelTop} : entries[KernelRoot][i] = 0
      BY SaneFacts DEF Sane, KernelMapped
    <3> HIDE DEF O
    <3> QED
      BY <2>1, <2>6, <3>1, TakeRoot DEF O
  <2>8. Kept(bitmap \cup {r}, g, O \cup {r}, {}, KernelTop, ~failed)
    BY <2>6, <2>7 DEF Kept
  <2>9. Distinct(task', spawner')
    BY <2>1, <2>2, <2>3, SaneFacts DEF Sane, InPlace, Distinct
  <2> QED
    BY <1>2, <2>2, <2>4, <2>5, <2>8, <2>9 DEF InPlace
<1> QED
  BY <1>3, <1>4

\* A frame just allocated is in hand, and was not before.
LEMMA TakenFrame ==
  ASSUME Sane, NEW f \in Frame \ bitmap
  PROVE  /\ Kept(bitmap \cup {f}, Zeroed(entries, f), OwnedBy(task, spawner),
                 Hand(spawner) \cup {f}, KernelTop, ~failed)
         /\ f \notin Hand(spawner)
<1> DEFINE O == OwnedBy(task, spawner)
           H == Hand(spawner)
<1>1. PICK kind, up, at :
        /\ Placed(kind, up, at, bitmap, entries, O, H, KernelTop)
        /\ ~failed => Linked(kind, up, at, bitmap, entries, O, H, KernelTop)
  BY DEF Sane, InPlace, Kept
<1>2. entries \in Entries /\ KernelTop \in Top /\ bitmap \subseteq Frame /\ f \notin H
  BY SaneFacts
<1> HIDE DEF O, H
<1> DEFINE k == [kind EXCEPT ![f] = "hand"]
<1>3. /\ Placed(k, up, at, bitmap \cup {f}, Zeroed(entries, f), O, H \cup {f}, KernelTop)
      /\ Linked(kind, up, at, bitmap, entries, O, H, KernelTop)
           => Linked(k, up, at, bitmap \cup {f}, Zeroed(entries, f), O, H \cup {f}, KernelTop)
  BY <1>1, <1>2, TakeFrame
<1> QED
  BY <1>1, <1>2, <1>3 DEF Kept, O, H

\* Taking the frame of the next page leaves every frame in its place.
LEMMA SaneAllocPage ==
  ASSUME Sane, AllocPage
  PROVE  InPlace'
<1>1. spawner.frame = 0 /\ Hand(spawner) = {} /\ spawner \in Spawners
  BY DEF Sane, StatesOK, SpawnerOK, TypeOK, AllocPage, Hand
<1>2. KernelTop' = KernelTop /\ task' = task
  BY DEF AllocPage, KernelTop
<1>3. CASE OutOfFrames
  <2>1. /\ spawner'.owns = FALSE /\ spawner'.frame = 0
        /\ UNCHANGED <<bitmap, entries>> /\ failed' = TRUE
    BY <1>3, IdleFacts DEF AllocPage
  <2>2. OwnedBy(task', spawner') \subseteq OwnedBy(task, spawner)
    BY <1>2, <2>1, InOwned, ZenonT(40)
  <2>3. Hand(spawner') = {}
    BY <2>1 DEF Hand
  <2>4. Kept(bitmap, entries, OwnedBy(task', spawner'), {}, KernelTop, FALSE)
    BY <2>2, KeptForget DEF Sane, InPlace
  <2>5. Distinct(task', spawner')
    BY <1>2, <2>1 DEF Sane, InPlace, Distinct
  <2> QED
    BY <1>2, <2>1, <2>3, <2>4, <2>5 DEF InPlace
<1>4. CASE ~OutOfFrames
  <2>1. PICK f \in Frame \ bitmap : f = allocate_next_frame(bitmap)
    BY <1>4, SaneFacts, Allocated DEF OutOfFrames
  <2>2. /\ spawner' = [spawner EXCEPT !.pc = "map", !.frame = f]
        /\ bitmap' = bitmap \cup {f}
        /\ entries' = Zeroed(entries, f)
        /\ failed' = failed
    BY <1>4, <2>1 DEF AllocPage
  <2>3. spawner'.owns = spawner.owns /\ spawner'.root = spawner.root /\ spawner'.frame = f
    BY <1>1, <2>2 DEF Spawners
  <2>4. OwnedBy(task', spawner') = OwnedBy(task, spawner)
    BY <1>2, <2>3 DEF OwnedBy
  <2>5. Hand(spawner') = Hand(spawner) \cup {f}
    BY <1>1, <2>1, <2>3, FrameAssumption DEF Hand
  <2>6. Distinct(task', spawner')
    BY <1>2, <2>3 DEF Sane, InPlace, Distinct
  <2> QED
    BY <1>2, <2>1, <2>2, <2>4, <2>5, <2>6, TakenFrame DEF InPlace
<1> QED
  BY <1>3, <1>4

\* The end of the segments moves nothing.
LEMMA SaneLoaded ==
  ASSUME Sane, LoadedElf
  PROVE  InPlace'
<1>1. /\ UNCHANGED <<arch, bitmap, entries, task, failed>>
      /\ spawner' = [spawner EXCEPT !.stack = TRUE] /\ spawner \in Spawners
  BY DEF LoadedElf, Sane, StatesOK, TypeOK
<1>2. /\ spawner'.root = spawner.root /\ spawner'.owns = spawner.owns
      /\ spawner'.frame = spawner.frame
  BY <1>1 DEF Spawners
<1>3. /\ OwnedBy(task', spawner') = OwnedBy(task, spawner) /\ Hand(spawner') = Hand(spawner)
      /\ KernelTop' = KernelTop
  BY <1>1, <1>2 DEF OwnedBy, Hand, KernelTop
<1>4. Distinct(task', spawner')
  BY <1>1, <1>2 DEF Sane, InPlace, Distinct
<1> QED
  BY <1>1, <1>3, <1>4 DEF Sane, InPlace

\* spawn_isolated_at hands the root over to a slot; a failure drops it.
LEMMA SaneRegister ==
  ASSUME Sane, RefuseElf \/ Register
  PROVE  InPlace'
<1>1. /\ UNCHANGED <<arch, bitmap, entries>> /\ spawner' = Idle
      /\ spawner.frame = 0 /\ Hand(spawner) = {} /\ KernelTop' = KernelTop
  BY DEF Sane, StatesOK, SpawnerOK, RefuseElf, Register, Hand, KernelTop
<1>2. spawner'.owns = FALSE /\ spawner'.frame = 0 /\ Hand(spawner') = {}
  BY <1>1, IdleFacts DEF Hand
<1>3. CASE task' = task /\ failed' = TRUE
  <2>1. OwnedBy(task', spawner') \subseteq OwnedBy(task, spawner)
    BY <1>2, <1>3, InOwned, ZenonT(40)
  <2>2. Kept(bitmap, entries, OwnedBy(task', spawner'), {}, KernelTop, FALSE)
    BY <2>1, KeptForget DEF Sane, InPlace
  <2>3. Distinct(task', spawner')
    BY <1>2, <1>3 DEF Sane, InPlace, Distinct
  <2> QED
    BY <1>1, <1>2, <1>3, <2>2, <2>3 DEF InPlace
<1>4. ASSUME NEW s \in Slot, ~task[s].alive, failed' = failed,
             task' = [task EXCEPT ![s] = [alive |-> TRUE, root |-> spawner.root,
                                          owns |-> spawner.owns]]
      PROVE  InPlace'
  <2>1. /\ \A u \in Slot : u # s => task'[u] = task[u]
        /\ task'[s].alive = TRUE /\ task'[s].root = spawner.root /\ task'[s].owns = spawner.owns
        /\ task[s].owns = FALSE
    BY <1>4 DEF Sane, StatesOK, TypeOK, TaskOK
  <2>2. OwnedBy(task', spawner') = OwnedBy(task, spawner)
    <3>1. ASSUME NEW x, x \in OwnedBy(task', spawner')
          PROVE  x \in OwnedBy(task, spawner)
      BY <1>2, <2>1, <3>1, InOwned
    <3>2. ASSUME NEW x, x \in OwnedBy(task, spawner)
          PROVE  x \in OwnedBy(task', spawner')
      <4>1. CASE spawner.owns /\ x = spawner.root
        BY <2>1, <4>1, InOwned
      <4>2. ASSUME NEW u \in Slot, task[u].alive, task[u].owns, x = task[u].root
            PROVE  x \in OwnedBy(task', spawner')
        <5>1. u # s /\ task'[u] = task[u]
          BY <1>4, <2>1, <4>2
        <5> QED
          BY <4>2, <5>1, InOwned
      <4> QED
        BY <3>2, <4>1, <4>2, InOwned
    <3> QED
      BY <3>1, <3>2
  <2>3. Distinct(task', spawner')
    BY <1>2, <2>1 DEF Sane, InPlace, Distinct
  <2> QED
    BY <1>1, <1>2, <1>4, <2>2, <2>3 DEF InPlace, Sane
<1> QED
  BY <1>3, <1>4 DEF RefuseElf, Register

\* A page mapped through an empty index of the kernel root leaves an entry
\* there, which is damage.
LEMMA MapInKernelRoot ==
  ASSUME NEW b \in SUBSET Frame, NEW e \in Entries, NEW top \in Top, NEW page \in Page,
         NEW f \in Frame, KernelRoot \in b, e[KernelRoot][top] = 0
  PROVE  LET m == map_page(b, e, KernelRoot, top, page, f) IN
         \/ ~m.ok /\ m.bitmap = b /\ m.entries = e
         \/ m.entries[KernelRoot][top] # 0
<1> DEFINE m == map_page(b, e, KernelRoot, top, page, f)
<1>1. KernelRoot \in Frame /\ 0 \notin Frame
  BY FrameAssumption
<1>2. MapResult(m, b, e, KernelRoot, top, page, f)
  BY <1>1, MapCases
<1> HIDE DEF m
<1>3. CASE m = [ok |-> FALSE, bitmap |-> b, entries |-> e]
  BY <1>3 DEF m
<1>4. ASSUME NEW t \in Frame \ b, NEW g, g = [Zeroed(e, t) EXCEPT ![KernelRoot][top] = t],
             m.entries = g \/ m.entries = [g EXCEPT ![t][page] = f]
      PROVE  m.entries[KernelRoot][top] # 0
  <2>1. g[KernelRoot][top] = t /\ g \in [Frame -> [Index -> OrZero]] /\ t # KernelRoot /\ t # 0
    BY <1>1, <1>4 DEF Zeroed, Blank, Entries, Index, OrZero
  <2> QED
    BY <1>1, <1>4, <2>1
<1>5. ASSUME NEW t \in Frame \ b, NEW g, g = [Zeroed(e, t) EXCEPT ![KernelRoot][top] = t],
             \/ m = [ok |-> FALSE, bitmap |-> b \cup {t}, entries |-> g]
             \/ m = [ok |-> TRUE, bitmap |-> b \cup {t}, entries |-> [g EXCEPT ![t][page] = f]]
      PROVE  m.entries[KernelRoot][top] # 0
  <2>1. m.entries = g \/ m.entries = [g EXCEPT ![t][page] = f]
    <3>1. CASE m = [ok |-> FALSE, bitmap |-> b \cup {t}, entries |-> g]
      BY <3>1
    <3>2. CASE m = [ok |-> TRUE, bitmap |-> b \cup {t}, entries |-> [g EXCEPT ![t][page] = f]]
      BY <3>2
    <3> QED
      BY <1>5, <3>1, <3>2
  <2> QED
    BY <1>4, <1>5, <2>1
<1> QED
  BY <1>1, <1>2, <1>3, <1>5 DEF MapResult, m

\* A page mapped at the kernel's index goes into the kernel's table, which is
\* damage.
LEMMA MapInKernelTable ==
  ASSUME Sane, NEW r \in Frame, NEW f \in Frame, NEW page \in Page,
         entries[r][KernelTop] = KernelTable
  PROVE  LET m == map_page(bitmap, entries, r, KernelTop, page, f) IN
         \/ ~m.ok /\ m.bitmap = bitmap /\ m.entries = entries
         \/ m.entries[KernelTable][page] # 0 /\ page # SegmentPage
<1> DEFINE m == map_page(bitmap, entries, r, KernelTop, page, f)
<1>1. /\ KernelTop \in Top /\ bitmap \in SUBSET Frame /\ entries \in Entries
      /\ KernelTable \in Frame /\ KernelTable # 0 /\ f # 0
  BY SaneFacts, FrameAssumption
<1>2. MapResult(m, bitmap, entries, r, KernelTop, page, f)
  BY <1>1, MapCases
<1> HIDE DEF m
<1>3. \/ m = [ok |-> FALSE, bitmap |-> bitmap, entries |-> entries]
      \/ /\ entries[KernelTable][page] = 0
         /\ m = [ok |-> TRUE, bitmap |-> bitmap, entries |-> [entries EXCEPT ![KernelTable][page] = f]]
  BY <1>1, <1>2 DEF MapResult
<1>4. CASE m = [ok |-> FALSE, bitmap |-> bitmap, entries |-> entries]
  BY <1>4 DEF m
<1>5. CASE /\ entries[KernelTable][page] = 0
           /\ m = [ok |-> TRUE, bitmap |-> bitmap, entries |-> [entries EXCEPT ![KernelTable][page] = f]]
  <2>1. m.entries = [entries EXCEPT ![KernelTable][page] = f]
    BY <1>5
  <2>2. m.entries[KernelTable][page] = f
    <3>1. page \in Index /\ entries \in [Frame -> [Index -> OrZero]]
      BY <1>1 DEF Entries, Index
    <3> QED
      BY <1>1, <2>1, <3>1
  <2>3. page # SegmentPage
    BY <1>5 DEF Sane, KernelMapped, KernelPage
  <2> QED
    BY <1>1, <2>2, <2>3 DEF m
<1> QED
  BY <1>3, <1>4, <1>5

\* map_page of spawn_from_elf leaves every frame in its place.
LEMMA SaneMapPage ==
  ASSUME Sane, NEW top \in Top, NEW page \in Page, MapPage(top, page), Undamaged'
  PROVE  InPlace'
<1> DEFINE O == OwnedBy(task, spawner)
           m == map_page(bitmap, entries, spawner.root, top, page, spawner.frame)
<1>1. /\ spawner \in Spawners /\ spawner.frame \in Frame
      /\ Hand(spawner) = {spawner.frame}
      /\ spawner.owns => spawner.root \in O
      /\ ~spawner.owns => spawner.root = KernelRoot
  <2>1. spawner \in Spawners /\ spawner.frame # 0 /\ (~spawner.owns => spawner.root = KernelRoot)
    BY DEF Sane, StatesOK, SpawnerOK, TypeOK, MapPage
  <2> QED
    BY <2>1, SaneFacts DEF Spawners, OrZero, Hand
<1>2. /\ KernelTop \in Top
      /\ bitmap \in SUBSET Frame /\ entries \in Entries /\ KernelRoot \in bitmap
      /\ top # KernelTop => top \in Top \ {KernelTop} /\ entries[KernelRoot][top] = 0
      /\ spawner.root \in Frame /\ entries[spawner.root][KernelTop] = KernelTable
  <2>1. KernelRoot \in Frame /\ entries[KernelRoot][KernelTop] = KernelTable
    BY SaneFacts DEF Sane, KernelMapped
  <2> QED
    BY <1>1, <2>1, SaneFacts
<1>3. /\ bitmap' = m.bitmap /\ entries' = m.entries /\ failed' = (failed \/ ~m.ok)
      /\ \/ ~m.ok /\ spawner' = Idle
         \/ m.ok /\ spawner' = [spawner EXCEPT !.pc = "alloc", !.frame = 0]
         \/ m.ok /\ spawner' = [spawner EXCEPT !.pc = "register", !.frame = 0]
      /\ UNCHANGED <<arch, task>>
  BY DEF MapPage
<1>4. KernelTop' = KernelTop
  BY <1>3 DEF KernelTop
<1>5. Kept(bitmap, entries, O, {spawner.frame}, KernelTop, ~failed)
  BY <1>1 DEF Sane, InPlace
<1>6. \/ ~m.ok /\ m.bitmap = bitmap /\ m.entries = entries
      \/ m.ok /\ Kept(m.bitmap, m.entries, O, {}, KernelTop, ~failed)
  <2>0. CASE top = KernelTop
    <3>1. \/ ~m.ok /\ m.bitmap = bitmap /\ m.entries = entries
          \/ m.entries[KernelTable][page] # 0 /\ page # SegmentPage
      <4>1. PICK r \in Frame, f \in Frame : r = spawner.root /\ f = spawner.frame
        BY <1>1, <1>2
      <4>2. m = map_page(bitmap, entries, r, KernelTop, page, f)
        BY <2>0, <4>1
      <4> QED
        BY <1>2, <4>1, <4>2, MapInKernelTable
    <3>2. page # SegmentPage => entries'[KernelTable][page] = 0
      BY DEF Undamaged
    <3> QED
      BY <1>3, <3>1, <3>2
  <2>1. CASE top # KernelTop /\ spawner.owns
    <3>1. PICK r \in O, f \in {spawner.frame} : r = spawner.root /\ f = spawner.frame
      BY <1>1, <2>1
    <3> HIDE DEF O
    <3>2. \/ ~m.ok /\ m.bitmap = bitmap /\ m.entries = entries
          \/ m.ok /\ Kept(m.bitmap, m.entries, O, {spawner.frame} \ {f}, KernelTop, ~failed)
      BY <1>1, <1>2, <1>5, <2>1, <3>1, MapPlaced
    <3>3. {spawner.frame} \ {f} = {}
      BY <3>1
    <3> QED
      BY <3>2, <3>3
  <2>2. CASE top # KernelTop /\ ~spawner.owns
    <3>1. \/ ~m.ok /\ m.bitmap = bitmap /\ m.entries = entries
          \/ m.entries[KernelRoot][top] # 0
      BY <1>1, <1>2, <2>2, MapInKernelRoot, ZenonT(40)
    <3>2. entries'[KernelRoot][top] = 0
      BY <1>2, <1>4, <2>2 DEF Undamaged
    <3> QED
      BY <1>3, <3>1, <3>2
  <2> QED
    BY <2>0, <2>1, <2>2
<1> HIDE DEF m
<1>7. CASE ~m.ok
  <2>1. spawner'.owns = FALSE /\ spawner'.frame = 0 /\ failed' = TRUE
    BY <1>3, <1>7, IdleFacts
  <2>2. OwnedBy(task', spawner') \subseteq O
    BY <1>3, <2>1, InOwned
  <2>3. Hand(spawner') = {}
    BY <2>1 DEF Hand
  <2>4. Kept(bitmap, entries, OwnedBy(task', spawner'), {}, KernelTop, FALSE)
    BY <1>5, <2>2, KeptForget
  <2>5. Distinct(task', spawner')
    BY <1>3, <2>1 DEF Sane, InPlace, Distinct
  <2>6. bitmap' = bitmap /\ entries' = entries
    BY <1>3, <1>6, <1>7
  <2> QED
    BY <1>4, <2>1, <2>3, <2>4, <2>5, <2>6 DEF InPlace
<1>8. CASE m.ok
  <2>1. spawner'.owns = spawner.owns /\ spawner'.root = spawner.root /\ spawner'.frame = 0
    BY <1>1, <1>3, <1>8 DEF Spawners
  <2>2. OwnedBy(task', spawner') = O
    BY <1>3, <2>1 DEF OwnedBy
  <2>3. Hand(spawner') = {}
    BY <2>1 DEF Hand
  <2>4. Distinct(task', spawner')
    BY <1>3, <2>1 DEF Sane, InPlace, Distinct
  <2>5. (~failed') = (~failed)
    BY <1>3, <1>8
  <2> HIDE DEF O
  <2> QED
    BY <1>3, <1>4, <1>6, <1>8, <2>2, <2>3, <2>4, <2>5 DEF InPlace
<1> QED
  BY <1>7, <1>8

\* The frames that free_process_page_table frees,
LEMMA TeardownIsBelow ==
  ASSUME NEW r
  PROVE  Teardown(r) = Below(entries, r, Top \ {0})
BY DEF Teardown, Below

\* and the frames private to a process: the two differ in the index that is
\* spared.
LEMMA PrivateIsBelow ==
  ASSUME NEW r
  PROVE  Private(r) = Below(entries, r, Top \ {KernelTop})
BY DEF Private, Reach, Below

\* Where the kernel is not at index 0, every teardown frees the kernel's table:
\* it damages the kernel.
LEMMA TeardownHitsKernel ==
  ASSUME Sane, NEW r \in OwnedBy(task, spawner), KernelTop # 0
  PROVE  Teardown(r) \cap KernelFrames # {}
<1>1. entries[r][KernelTop] = KernelTable /\ KernelTop \in Top \ {0}
  BY SaneFacts
<1>2. KernelTable \in Teardown(r)
  BY <1>1, TeardownIsBelow, InBelow DEF KernelTable
<1> QED
  BY <1>2 DEF KernelFrames

\* The owners once a slot is cleared: its root is gone, the others are as
\* before.
LEMMA OwnersWithout ==
  ASSUME NEW tk, NEW tk2, NEW sp, NEW s \in Slot, Distinct(tk, sp), tk[s].owns => tk[s].alive,
         \A u \in Slot : u # s => tk2[u] = tk[u],
         ~tk2[s].alive, ~tk2[s].owns
  PROVE  /\ Distinct(tk2, sp)
         /\ tk[s].owns => OwnedBy(tk2, sp) = OwnedBy(tk, sp) \ {tk[s].root}
         /\ ~tk[s].owns => OwnedBy(tk2, sp) = OwnedBy(tk, sp)
<1>1. Distinct(tk2, sp)
  BY DEF Distinct
<1>2. \A x : x \in OwnedBy(tk, sp) <=>
             \/ \E u \in Slot : tk[u].alive /\ tk[u].owns /\ x = tk[u].root
             \/ sp.owns /\ x = sp.root
  BY InOwned
<1>3. \A x : x \in OwnedBy(tk2, sp) <=>
             \/ \E u \in Slot : tk2[u].alive /\ tk2[u].owns /\ x = tk2[u].root
             \/ sp.owns /\ x = sp.root
  BY InOwned
<1>4. \A x : x \in OwnedBy(tk2, sp) <=>
             \/ \E u \in Slot : u # s /\ tk[u].alive /\ tk[u].owns /\ x = tk[u].root
             \/ sp.owns /\ x = sp.root
  BY <1>3, ZenonT(40)
<1>5. ASSUME tk[s].owns
      PROVE  OwnedBy(tk2, sp) = OwnedBy(tk, sp) \ {tk[s].root}
  <2>1. \A x : x \in OwnedBy(tk2, sp) <=> x \in OwnedBy(tk, sp) /\ x # tk[s].root
    BY <1>2, <1>4, <1>5 DEF Distinct
  <2> QED
    BY <2>1
<1>6. ASSUME ~tk[s].owns
      PROVE  OwnedBy(tk2, sp) = OwnedBy(tk, sp)
  <2>1. \A x : x \in OwnedBy(tk2, sp) <=> x \in OwnedBy(tk, sp)
    BY <1>2, <1>4, <1>6
  <2> QED
    BY <2>1
<1> QED
  BY <1>1, <1>5, <1>6

\* The same for the state the kernel is in.
LEMMA OwnersAfterDeath ==
  ASSUME Sane, NEW s \in Slot
  PROVE  LET tk2 == [task EXCEPT ![s] = Dead] IN
         /\ Distinct(tk2, spawner)
         /\ task[s].owns => OwnedBy(tk2, spawner) = OwnedBy(task, spawner) \ {task[s].root}
         /\ ~task[s].owns => OwnedBy(tk2, spawner) = OwnedBy(task, spawner)
<1> DEFINE tk2 == [task EXCEPT ![s] = Dead]
<1>1. /\ \A u \in Slot : u # s => tk2[u] = task[u]
      /\ ~tk2[s].alive /\ ~tk2[s].owns
  BY DEF Sane, StatesOK, TypeOK, Dead
<1>2. Distinct(task, spawner) /\ (task[s].owns => task[s].alive)
  BY DEF Sane, InPlace, StatesOK, TaskOK
<1> HIDE DEF tk2
<1>3. /\ Distinct(tk2, spawner)
      /\ task[s].owns => OwnedBy(tk2, spawner) = OwnedBy(task, spawner) \ {task[s].root}
      /\ ~task[s].owns => OwnedBy(tk2, spawner) = OwnedBy(task, spawner)
  BY <1>1, <1>2, OwnersWithout
<1> QED
  BY <1>3 DEF tk2

\* exit, with the teardown behind it, leaves every other frame in its place.
LEMMA SaneExit ==
  ASSUME Sane, NEW s \in Slot, exit(s), Undamaged'
  PROVE  InPlace'
<1> DEFINE O == OwnedBy(task, spawner)
           H == Hand(spawner)
<1>1. /\ task' = [task EXCEPT ![s] = Dead]
      /\ UNCHANGED <<arch, entries, spawner, failed>>
      /\ Free(IF task[s].owns THEN Teardown(task[s].root) ELSE {})
  BY DEF exit
<1>2. KernelTop' = KernelTop /\ Hand(spawner') = H /\ ~kernelLost'
  BY <1>1 DEF KernelTop, Undamaged
<1>3. Distinct(task', spawner')
  BY <1>1, OwnersAfterDeath
<1>4. CASE ~task[s].owns
  <2>1. OwnedBy(task', spawner') = O
    BY <1>1, <1>4, OwnersAfterDeath
  <2>2. bitmap' = bitmap
    BY <1>1, <1>4 DEF Free
  <2> QED
    BY <1>1, <1>2, <1>3, <2>1, <2>2 DEF InPlace, Sane
<1>5. CASE task[s].owns
  <2>1. PICK r \in O : r = task[s].root
    BY <1>5, SaneFacts
  <2>2. bitmap' = bitmap \ Teardown(r) /\ Teardown(r) \cap KernelFrames = {}
    BY <1>1, <1>2, <1>5, <2>1 DEF Free
  <2>3. KernelTop = 0
    BY <2>2, TeardownHitsKernel
  <2> DEFINE fs == Below(entries, r, Top \ {KernelTop})
  <2>4. bitmap' = bitmap \ fs
    BY <2>2, <2>3, TeardownIsBelow
  <2>5. PICK kind, up, at : /\ Placed(kind, up, at, bitmap, entries, O, H, KernelTop)
                            /\ ~failed => Linked(kind, up, at, bitmap, entries, O, H, KernelTop)
    BY DEF Sane, InPlace, Kept
  <2>6. entries \in Entries /\ KernelTop \in Top /\ bitmap \subseteq Frame
    BY SaneFacts
  <2>7. OwnedBy(task', spawner') = O \ {r}
    BY <1>1, <1>5, <2>1, OwnersAfterDeath
  <2> HIDE DEF O, H
  <2> DEFINE k == Freed(kind, fs)
  <2>8. /\ Placed(k, up, at, bitmap \ fs, entries, O \ {r}, H, KernelTop)
        /\ Linked(kind, up, at, bitmap, entries, O, H, KernelTop)
             => Linked(k, up, at, bitmap \ fs, entries, O \ {r}, H, KernelTop)
    BY <2>5, <2>6, TearDown
  <2> HIDE DEF fs, k
  <2>9. Kept(bitmap \ fs, entries, O \ {r}, H, KernelTop, ~failed)
    BY <2>5, <2>8 DEF Kept
  <2> QED
    BY <1>1, <1>2, <1>3, <2>4, <2>7, <2>9 DEF InPlace
<1> QED
  BY <1>4, <1>5

\* sys_munmap leaves every other frame in its place.
LEMMA SaneMunmap ==
  ASSUME Sane, NEW s \in Slot, NEW top \in Top, NEW lo \in Page, NEW hi \in Page, lo <= hi,
         sys_munmap(s, top, lo .. hi), Undamaged'
  PROVE  InPlace'
<1> DEFINE O == OwnedBy(task, spawner)
           H == Hand(spawner)
<1>1. /\ arch = "aarch64" /\ task[s].alive /\ task[s].root \in Frame
      /\ lo .. hi \in SUBSET Page /\ top # 0 /\ entries[task[s].root][top] \in Frame
      /\ \A p \in lo .. hi : entries[entries[task[s].root][top]][p] # 0
  BY MunmapFacts DEF Sane, Undamaged
<1>2. PICK t \in Frame, pages \in SUBSET Page : t = entries[task[s].root][top] /\ pages = lo .. hi
  BY <1>1
<1> DEFINE fs == Leaves(entries, t, pages)
           g == Cleared(entries, t, pages)
<1>3. /\ bitmap' = bitmap \ fs /\ entries' = g
      /\ UNCHANGED <<arch, task, spawner, failed>>
  BY <1>2 DEF sys_munmap, translate_addr, unmap_page, Leaves, Cleared
<1>4. KernelTop = 0 /\ KernelTop' = KernelTop
  BY <1>1, <1>3 DEF KernelTop
<1>5. task[s].root \in O
  <2>1. SUFFICES ASSUME ~task[s].owns PROVE FALSE
    BY SaneFacts
  <2>2. task[s].root = KernelRoot
    BY <1>1, <2>1 DEF Sane, StatesOK, TaskOK
  <2> QED
    BY <1>1, <1>4, <2>2, SaneFacts, FrameAssumption
<1>6. PICK kind, up, at : /\ Placed(kind, up, at, bitmap, entries, O, H, KernelTop)
                          /\ ~failed => Linked(kind, up, at, bitmap, entries, O, H, KernelTop)
  BY DEF Sane, InPlace, Kept
<1>7. kind[t] = "table" /\ \A p \in pages : entries[t][p] # 0
  <2>1. t # 0 /\ top \in Top \ {KernelTop}
    BY <1>1, <1>4, FrameAssumption
  <2> QED
    BY <1>1, <1>2, <1>5, <1>6, <2>1 DEF Placed
<1>8. entries \in Entries /\ KernelTop \in Top /\ bitmap \subseteq Frame
  BY SaneFacts
<1>9. Distinct(task', spawner') /\ OwnedBy(task', spawner') = O /\ Hand(spawner') = H
  BY <1>3 DEF Sane, InPlace
<1> HIDE DEF O, H
<1> DEFINE k == Freed(kind, fs)
<1>10. /\ Placed(k, up, at, bitmap \ fs, g, O, H, KernelTop)
       /\ Linked(kind, up, at, bitmap, entries, O, H, KernelTop)
            => Linked(k, up, at, bitmap \ fs, g, O, H, KernelTop)
  BY <1>6, <1>7, <1>8, Unlink
<1> HIDE DEF k, fs, g
<1>11. Kept(bitmap \ fs, g, O, H, KernelTop, ~failed)
  BY <1>6, <1>10 DEF Kept
<1> QED
  BY <1>3, <1>4, <1>9, <1>11 DEF InPlace

\* A demand-paged page at the kernel's index goes into the kernel's table,
\* which is damage.
LEMMA FaultInKernel ==
  ASSUME Sane, NEW r \in bitmap, NEW f \in Frame \ bitmap, NEW page \in Page,
         entries[r][KernelTop] = KernelTable, entries[KernelTable][page] = 0
  PROVE  LET m == map_page(bitmap \cup {f}, Zeroed(entries, f), r, KernelTop, page, f) IN
         m.entries[KernelTable][page] # 0 /\ page # SegmentPage
<1> DEFINE z == Zeroed(entries, f)
           m == map_page(bitmap \cup {f}, z, r, KernelTop, page, f)
<1>1. /\ KernelTop \in Top /\ bitmap \in SUBSET Frame /\ entries \in Entries
      /\ r \in Frame /\ KernelTable \in bitmap /\ bitmap \cup {f} \in SUBSET Frame
      /\ f # 0 /\ 0 \notin Frame
  BY SaneFacts, FrameAssumption
<1>2. z \in Entries /\ z[r] = entries[r] /\ z[KernelTable] = entries[KernelTable]
  BY <1>1 DEF Zeroed, Blank, Entries, OrZero, Index
<1> HIDE DEF z
<1>3. MapResult(m, bitmap \cup {f}, z, r, KernelTop, page, f)
  BY <1>1, <1>2, MapCases
<1> HIDE DEF m
<1>4. KernelTable # 0 /\ KernelTable \in Frame
  BY <1>1
<1>5. m = [ok |-> TRUE, bitmap |-> bitmap \cup {f}, entries |-> [z EXCEPT ![KernelTable][page] = f]]
  BY <1>2, <1>3, <1>4 DEF MapResult
<1>6. m.entries = [z EXCEPT ![KernelTable][page] = f]
  BY <1>5
<1>7. m.entries[KernelTable][page] = f
  BY <1>2, <1>4, <1>6, ZenonT(40) DEF Entries, Index
<1>8. page # SegmentPage
  BY DEF Sane, KernelMapped, KernelPage
<1> QED
  BY <1>1, <1>7, <1>8 DEF m, z

\* A page fault, resolved or fatal, leaves every other frame in its place.
LEMMA SaneFault ==
  ASSUME Sane, NEW s \in Slot, NEW top \in Top, NEW page \in Page, PageFault(s, top, page),
         Undamaged'
  PROVE  InPlace'
<1> DEFINE O == OwnedBy(task, spawner)
           H == Hand(spawner)
           r == task[s].root
<1>1. /\ KernelTop = HighTop /\ KernelTop # 0 /\ KernelTop' = KernelTop /\ ~kernelLost'
      /\ spawner' = spawner
  BY TopAssumption DEF PageFault, KernelTop, Undamaged
<1>2. /\ task[s].owns => r \in O
      /\ ~task[s].owns => r = KernelRoot
      /\ r \in bitmap /\ entries[r][KernelTop] = KernelTable
  <2>1. ~task[s].owns => r = KernelRoot
    BY DEF Sane, StatesOK, TaskOK, PageFault
  <2> QED
    BY <2>1, SaneFacts DEF Sane, KernelMapped
<1>3. ~task[s].owns \/ Teardown(r) \cap KernelFrames # {}
  BY <1>1, <1>2, TeardownHitsKernel
<1>4. CASE OutOfFrames
  <2>1. /\ task' = [task EXCEPT ![s] = Dead] /\ failed' = TRUE
        /\ UNCHANGED <<entries, spawner>>
        /\ Free(IF task[s].owns THEN Teardown(r) ELSE {})
    BY <1>4 DEF PageFault
  <2>2. ~task[s].owns /\ bitmap' = bitmap
    BY <1>1, <1>3, <2>1 DEF Free
  <2>3. Distinct(task', spawner') /\ OwnedBy(task', spawner') = O
    BY <2>1, <2>2, OwnersAfterDeath
  <2>4. Kept(bitmap, entries, O, H, KernelTop, FALSE)
    BY KeptForget DEF Sane, InPlace
  <2> QED
    BY <1>1, <2>1, <2>2, <2>3, <2>4, ZenonT(40) DEF InPlace
<1>5. CASE ~OutOfFrames
  <2>1. PICK f \in Frame \ bitmap : f = allocate_next_frame(bitmap)
    BY <1>5, SaneFacts, Allocated DEF OutOfFrames
  <2> DEFINE z == Zeroed(entries, f)
             b == bitmap \cup {f}
             m == map_page(b, z, r, top, page, f)
             dead == IF ~m.ok /\ task[s].owns THEN Teardown(r) ELSE {}
  <2>2. /\ bitmap' = m.bitmap \ dead /\ entries' = m.entries
        /\ task' = (IF m.ok THEN task ELSE [task EXCEPT ![s] = Dead])
        /\ failed' = (failed \/ ~m.ok)
        /\ dead \cap KernelFrames = {}
    BY <1>1, <1>5, <2>1 DEF PageFault
  <2>3. dead = {} /\ (m.ok \/ ~task[s].owns)
    BY <1>3, <2>2
  <2>4. top # KernelTop
    <3>1. SUFFICES ASSUME top = KernelTop PROVE FALSE
      OBVIOUS
    <3>2. entries[KernelTable][page] = 0
      BY <1>2, <3>1 DEF PageFault, Present, translate_addr, KernelTable
    <3>3. m.entries[KernelTable][page] # 0 /\ page # SegmentPage
      BY <1>2, <2>1, <3>1, <3>2, FaultInKernel
    <3> QED
      BY <2>2, <3>3 DEF Undamaged
  <2>5. /\ Kept(b, z, O, H \cup {f}, KernelTop, ~failed) /\ f \notin H
        /\ b \in SUBSET Frame /\ KernelTop \in Top /\ top \in Top \ {KernelTop}
    BY <2>1, <2>4, TakenFrame, SaneFacts
  <2>6. z \in Entries /\ z[KernelRoot] = entries[KernelRoot] /\ KernelRoot \in b
    BY <2>1, SaneFacts, FrameAssumption, ZenonT(40) DEF Zeroed, Blank, Entries, OrZero, Index
  <2> HIDE DEF O, H, z, b
  <2>7. \/ ~m.ok /\ m.bitmap = b /\ m.entries = z
        \/ m.ok /\ Kept(m.bitmap, m.entries, O, H, KernelTop, ~failed)
    <3>1. CASE task[s].owns
      <4>1. PICK q \in O, h \in H \cup {f} : q = r /\ h = f
        BY <1>2, <3>1
      <4>2. \/ ~m.ok /\ m.bitmap = b /\ m.entries = z
            \/ m.ok /\ Kept(m.bitmap, m.entries, O, (H \cup {f}) \ {h}, KernelTop, ~failed)
        BY <2>5, <2>6, <4>1, MapPlaced, ZenonT(40)
      <4>3. (H \cup {f}) \ {h} = H
        BY <2>5, <4>1
      <4> QED
        BY <4>2, <4>3
    <3>2. CASE ~task[s].owns
      <4>1. z[KernelRoot][top] = 0 /\ r = KernelRoot /\ f \in Frame
        BY <1>2, <2>1, <2>4, <2>6, <3>2, SaneFacts
      <4>2. \/ ~m.ok /\ m.bitmap = b /\ m.entries = z
            \/ m.entries[KernelRoot][top] # 0
        BY <2>5, <2>6, <4>1, MapInKernelRoot, ZenonT(40)
      <4>3. entries'[KernelRoot][top] = 0
        BY <1>1, <2>4 DEF Undamaged
      <4> QED
        BY <2>2, <4>2, <4>3
    <3> QED
      BY <3>1, <3>2
  <2> HIDE DEF m, dead
  <2>8. bitmap' = m.bitmap
    BY <2>2, <2>3
  <2>9. CASE m.ok
    <3>1. task' = task /\ (~failed') = (~failed)
      BY <2>2, <2>9
    <3>2. Distinct(task', spawner') /\ OwnedBy(task', spawner') = O /\ Hand(spawner') = H
      BY <1>1, <3>1 DEF Sane, InPlace, O, H
    <3>3. Kept(m.bitmap, m.entries, O, H, KernelTop, ~failed)
      BY <2>7, <2>9
    <3> QED
      BY <1>1, <2>2, <2>8, <3>1, <3>2, <3>3 DEF InPlace
  <2>10. CASE ~m.ok
    <3>1. task' = [task EXCEPT ![s] = Dead] /\ failed' = TRUE /\ ~task[s].owns
      BY <2>2, <2>3, <2>10
    <3>2. Distinct(task', spawner') /\ OwnedBy(task', spawner') = O
      BY <1>1, <3>1, OwnersAfterDeath DEF O
    <3>3. Hand(spawner') = H
      BY <1>1 DEF H
    <3>4. Kept(b, z, O, H, KernelTop, FALSE)
      <4>1. O \in SUBSET O /\ H \in SUBSET (H \cup {f})
        OBVIOUS
      <4> QED
        BY <2>5, <4>1, KeptForget
    <3>5. m.bitmap = b /\ m.entries = z
      BY <2>7, <2>10
    <3> QED
      BY <1>1, <2>2, <2>8, <3>1, <3>2, <3>3, <3>4, <3>5 DEF InPlace
  <2> QED
    BY <2>9, <2>10
<1> QED
  BY <1>4, <1>5

\* No step moves a frame out of its place without damage to the kernel.
LEMMA StructureStep ==
  ASSUME StatesOK, KernelSafe, Structure, [Next]_vars
  PROVE  Structure'
<1> SUFFICES ASSUME Undamaged' PROVE KernelMapped' /\ InPlace'
  BY DEF Structure
<1>1. Sane /\ KernelRowsKept
  BY StaysDamaged DEF Sane, Structure
<1>2. InPlace' /\ arch' = arch
  <2>1. CASE UNCHANGED vars
    BY <1>1, <2>1 DEF vars, Sane, InPlace, KernelTop
  <2>2. arch' = arch
    BY LostForGood
  <2> QED
    BY <1>1, <2>1, <2>2, SaneAllocateRoot, SaneAllocPage, SaneMapPage, SaneLoaded, SaneRegister,
       SaneExit, SaneFault, SaneMunmap DEF Next, handle_el0_sync_trap
<1>3. KernelMapped'
  <2>1. KernelTop' = KernelTop
    BY <1>2 DEF KernelTop
  <2>2. KernelTop \in Index /\ SegmentPage \in Index
    BY TopAssumption DEF KernelTop, Index
  <2> QED
    BY <1>1, <2>1, <2>2 DEF Sane, KernelMapped, KernelRowsKept, KernelTable, KernelPage
<1> QED
  BY <1>2, <1>3

\* After boot every frame is the kernel's or free.
LEMMA InitStructure == Init => Structure
<1> SUFFICES ASSUME Init PROVE KernelMapped /\ InPlace
  BY DEF Structure
<1>1. /\ KernelTop \in Top /\ SegmentPage \in Page /\ KernelFrames \subseteq Frame
      /\ KernelRoot \in Frame /\ KernelTable \in Frame
  BY TopAssumption, FrameAssumption DEF KernelTop, KernelFrames
<1>2. KernelMapped
  BY <1>1 DEF Init, KernelMapped, Blank, KernelRoot, KernelTable
<1>3. OwnedBy(task, spawner) = {} /\ Hand(spawner) = {} /\ Distinct(task, spawner)
  BY IdleFacts DEF Init, OwnedBy, Hand, Distinct, Dead
<1> DEFINE kind == [f \in Frame |-> IF f \in KernelFrames THEN "kernel" ELSE "free"]
           at == [f \in Frame |-> 0]
<1>4. Placed(kind, at, at, bitmap, entries, {}, {}, KernelTop)
  BY <1>1 DEF Placed, Init, Kinds
<1>5. Linked(kind, at, at, bitmap, entries, {}, {}, KernelTop)
  BY DEF Linked, Init
<1> HIDE DEF kind, at
<1> QED
  BY <1>2, <1>3, <1>4, <1>5 DEF InPlace, Kept

--------------------------------------------------------------------------------
(* Theorems *)

\* The inductive invariant.
AddressSpaceInv == StatesOK /\ KernelSafe /\ Structure

\* In every reachable state, for any number of frames, indices and slots, each
\* frame in use has one place under one owner, as long as the kernel is
\* undamaged; what map_page, unmap_page, handle_page_fault and
\* free_process_page_table do to the tables preserves that.
THEOREM AddressSpaceInvariant == Spec => []AddressSpaceInv
<1>1. Init => AddressSpaceInv
  BY InitStates, InitKernel, InitStructure DEF AddressSpaceInv
<1>2. AddressSpaceInv /\ [Next]_vars => AddressSpaceInv'
  BY StatesStep, StructureStep DEF AddressSpaceInv
<1> QED
  BY <1>1, <1>2, PTL DEF Spec

\* Damage to the kernel's tables is never undone by a later step: nothing is
\* lost when an exploration stops at the first damaged state.
THEOREM DamageIsPermanent == Spec => [][Undamaged' => Undamaged]_vars
<1>1. AddressSpaceInv /\ [Next]_vars => [Undamaged' => Undamaged]_vars
  BY StaysDamaged DEF AddressSpaceInv
<1> QED
  BY <1>1, AddressSpaceInvariant, PTL DEF Spec

\* The definitions of the specification in terms of the ones used here.
LEMMA OwnedIs == Owned = OwnedBy(task, spawner) /\ InHand = Hand(spawner)
BY DEF Owned, OwnedBy, InHand, Hand

\* Whatever a process or a spawn in progress reaches is reserved in the bitmap:
\* free_process_page_table and sys_munmap never return a frame that is still
\* mapped, and allocate_next_frame never hands one out twice.
THEOREM NoUseAfterFreeHolds == Spec => []NoUseAfterFree
<1>1. AddressSpaceInv => NoUseAfterFree
  <2> SUFFICES ASSUME AddressSpaceInv, Undamaged
               PROVE  /\ \A r \in Owned : Private(r) \subseteq bitmap
                      /\ InHand \subseteq bitmap
                      /\ KernelFrames \subseteq bitmap
    BY DEF NoUseAfterFree
  <2>1. Sane
    BY DEF AddressSpaceInv, Sane, Structure
  <2>2. ASSUME NEW r \in OwnedBy(task, spawner)
        PROVE  Private(r) \subseteq bitmap
    <3>1. PICK kind, up, at :
            Placed(kind, up, at, bitmap, entries, OwnedBy(task, spawner), Hand(spawner), KernelTop)
      BY <2>1 DEF Sane, InPlace, Kept
    <3>2. Below(entries, r, Top \ {KernelTop}) \subseteq bitmap
      BY <2>1, <3>1, SaneFacts, BelowFacts
    <3> QED
      BY <3>2, PrivateIsBelow
  <2>3. InHand \subseteq bitmap
    BY <2>1, SaneFacts, OwnedIs
  <2>4. KernelFrames \subseteq bitmap
    BY <2>1 DEF Sane, KernelSafe, Undamaged
  <2> QED
    BY <2>2, <2>3, <2>4, OwnedIs
<1> QED
  BY <1>1, AddressSpaceInvariant, PTL

\* The address spaces that create_process_page_table and map_page build are
\* disjoint from each other and from the kernel.
THEOREM IsolatedHolds == Spec => []Isolated
<1>1. AddressSpaceInv => Isolated
  <2> SUFFICES ASSUME AddressSpaceInv, Undamaged
               PROVE  /\ \A s, u \in Slot : task[s].alive /\ task[u].alive /\ s # u
                                              /\ task[s].owns /\ task[u].owns
                                            => task[s].root # task[u].root
                      /\ \A q, r \in Owned : q # r => Private(q) \cap Private(r) = {}
                      /\ \A r \in Owned : Private(r) \cap (KernelFrames \cup InHand) = {}
    BY DEF Isolated
  <2>1. Sane
    BY DEF AddressSpaceInv, Sane, Structure
  <2> DEFINE O == OwnedBy(task, spawner)
             H == Hand(spawner)
  <2>2. PICK kind, up, at : Placed(kind, up, at, bitmap, entries, O, H, KernelTop)
    BY <2>1 DEF Sane, InPlace, Kept
  <2>3. \A r \in O : Within(kind, up, at, entries, r, KernelTop) /\ r \in Frame /\ kind[r] = "root"
    <3> SUFFICES ASSUME NEW r \in O
                 PROVE  Within(kind, up, at, entries, r, KernelTop) /\ r \in Frame /\ kind[r] = "root"
      OBVIOUS
    <3>1. entries \in Entries /\ KernelTop \in Top /\ bitmap \subseteq Frame
      BY <2>1, SaneFacts
    <3> HIDE DEF O, H
    <3> QED
      BY <2>2, <3>1, BelowFacts DEF Placed
  <2>4. /\ \A f \in KernelFrames : kind[f] = "kernel"
        /\ \A f \in H : kind[f] = "hand"
    BY <2>2 DEF Placed
  <2> HIDE DEF O, H
  <2>5. ASSUME NEW q \in O, NEW r \in O, q # r,
               NEW x \in Below(entries, q, Top \ {KernelTop}),
               x \in Below(entries, r, Top \ {KernelTop})
        PROVE  FALSE
    <3>1. \/ x = q /\ kind[x] = "root"
          \/ kind[x] = "table" /\ up[x] = q
          \/ kind[x] = "page" /\ up[up[x]] = q
      BY <2>3 DEF Within
    <3>2. \/ x = r /\ kind[x] = "root"
          \/ kind[x] = "table" /\ up[x] = r
          \/ kind[x] = "page" /\ up[up[x]] = r
      BY <2>3, <2>5 DEF Within
    <3> QED
      BY <2>5, <3>1, <3>2
  <2>6. ASSUME NEW r \in O, NEW x \in Below(entries, r, Top \ {KernelTop})
        PROVE  x \notin KernelFrames /\ x \notin H
    BY <2>3, <2>4, <2>6 DEF Within
  <2>7. Distinct(task, spawner)
    BY <2>1 DEF Sane, InPlace
  <2>8. \A s, u \in Slot : task[s].alive /\ task[u].alive /\ s # u /\ task[s].owns /\ task[u].owns
                             => task[s].root # task[u].root
    BY <2>7 DEF Distinct
  <2>9. \A q, r \in Owned : q # r => Private(q) \cap Private(r) = {}
    BY <2>5, OwnedIs, PrivateIsBelow DEF O
  <2>10. \A r \in Owned : Private(r) \cap (KernelFrames \cup InHand) = {}
    BY <2>6, OwnedIs, PrivateIsBelow DEF O, H
  <2> QED
    BY <2>8, <2>9, <2>10
<1> QED
  BY <1>1, AddressSpaceInvariant, PTL

\* Without a failed allocation or mapping no frame leaks: exit and sys_munmap
\* return all that spawn_from_elf and handle_page_fault have taken.
THEOREM NothingLostHolds == Spec => []NothingLost
<1>1. AddressSpaceInv => NothingLost
  <2> SUFFICES ASSUME AddressSpaceInv, Undamaged, ~failed, NEW f \in bitmap
               PROVE  f \in KernelFrames \cup InHand \cup UNION {Private(r) : r \in Owned}
    BY DEF NothingLost
  <2>1. Sane
    BY DEF AddressSpaceInv, Sane, Structure
  <2> DEFINE O == OwnedBy(task, spawner)
             H == Hand(spawner)
  <2>2. PICK kind, up, at : /\ Placed(kind, up, at, bitmap, entries, O, H, KernelTop)
                            /\ Linked(kind, up, at, bitmap, entries, O, H, KernelTop)
    BY <2>1 DEF Sane, InPlace, Kept
  <2>3. SUFFICES f \in KernelFrames \cup H \/ \E r \in O : f \in Below(entries, r, Top \ {KernelTop})
    <3>1. ASSUME NEW r \in O, f \in Below(entries, r, Top \ {KernelTop})
          PROVE  f \in UNION {Private(q) : q \in Owned}
      <4>1. r \in Owned /\ f \in Private(r)
        BY <3>1, OwnedIs, PrivateIsBelow
      <4>2. Private(r) \in {Private(q) : q \in Owned}
        BY <4>1
      <4> QED
        BY <4>1, <4>2
    <3> QED
      BY <3>1, OwnedIs
  <2>4. f \in Frame /\ f # 0 /\ \A r \in O : r \in Frame /\ r # 0
    BY <2>1, <2>2, SaneFacts, FrameAssumption DEF Placed
  <2> HIDE DEF O, H
  <2>5. CASE f \in KernelFrames \cup H \cup O
    BY <2>5, InBelow
  <2>6. ASSUME NEW t \in bitmap, kind[t] = "table", t \notin KernelFrames \cup H \cup O
        PROVE  up[t] \in O /\ at[t] \in Top \ {KernelTop} /\ entries[up[t]][at[t]] = t
    BY <2>2, <2>6 DEF Linked
  <2>7. CASE f \notin KernelFrames \cup H \cup O /\ kind[f] = "table"
    BY <2>4, <2>6, <2>7, InBelow, ZenonT(40)
  <2>8. CASE f \notin KernelFrames \cup H \cup O /\ kind[f] = "page" /\ up[f] \in Frame
             /\ kind[up[f]] = "table" /\ at[f] \in Page /\ entries[up[f]][at[f]] = f
    <3>1. PICK t \in Frame : t = up[f] /\ kind[t] = "table"
      BY <2>8
    <3>2. t \in bitmap /\ t \notin KernelFrames \cup H \cup O /\ t # 0
      BY <2>2, <3>1, FrameAssumption DEF Placed
    <3>3. up[t] \in O /\ at[t] \in Top \ {KernelTop} /\ entries[up[t]][at[t]] = t
      BY <2>6, <3>1, <3>2
    <3> QED
      BY <2>4, <2>8, <3>1, <3>2, <3>3, InBelow
  <2> QED
    BY <2>2, <2>5, <2>7, <2>8 DEF Linked
<1> QED
  BY <1>1, AddressSpaceInvariant, PTL
===============================================================================
