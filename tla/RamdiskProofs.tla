----------------------------- MODULE RamdiskProofs -----------------------------
(***************************************************************************)
(* Proofs about Disk and Ramdisk, for every volume, archive and path.      *)
(***************************************************************************)
EXTENDS Ramdisk, WellFoundedInduction, TLAPS

\* How long the provers may take for a step that names none of them.
USE ZenonT(5), SMTT(30)

--------------------------------------------------------------------------------
(* The disk *)

\* The places of the boot code.
Pcs ==
  {"new", "st_read", "st_write", "st_readback", "st_restore", "probe", "mount", "find",
   "find_next", "read", "read_next", "done", "panic"}

\* Types of the variables; the cluster whose FAT entry is read next is one of
\* the volume's.
DiskTypeOK ==
  /\ volume \in Volumes
  /\ fault \in BOOLEAN
  /\ pc \in Pcs
  /\ cluster \in Nat /\ remaining \in Nat
  /\ content \in Seq(Cluster \X Nat)
  /\ pc \in {"find_next", "read_next"} => cluster \in Cluster

\* The last sector while self_test runs and after it: without a fault, original
\* holds what the sector held until it is written back.
SectorSafe ==
  ~fault =>
    /\ pc \in {"new", "st_read", "st_write"} \/ SelfTested => last = "original"
    /\ pc \in {"st_write", "st_readback", "st_restore"} => original = "original"

\* find_in_directory has looked at the clusters of S and follows their chain:
\* none of them shows the name, and the successor of each is in S or is the
\* cluster looked at next.
Searching(S) ==
  /\ S \in SUBSET Cluster
  /\ volume.root \in S \cup {cluster}
  /\ \A c \in S : Match(volume.dir[c]) = "none" /\ volume.fat[c] \in S \cup {cluster}

\* The invariant of the search.
SearchSound ==
  /\ pc \in {"find", "find_next"} => \E S : Searching(S)
  /\ pc = "find_next" => Match(volume.dir[cluster]) = "none"
  /\ NotFoundMeansAbsent

\* read_file_content has copied whole clusters, in the order of the chain, and
\* remaining is what is left of the size.
Copying ==
  LET n == Len(content) IN
  /\ n * ClusterSize + remaining = volume.size
  /\ n > 0 => content[1][1] = volume.start
  /\ \A i \in 1 .. n : content[i][2] = ClusterSize
  /\ \A i \in 1 .. n - 1 : content[i + 1][1] = volume.fat[content[i][1]]

\* The invariant of the copy.
ReadSound ==
  /\ pc \notin {"read", "read_next", "done"} => content = << >>
  /\ pc # "done" => result = "none"
  /\ pc \in {"read", "read_next"} => Copying
  /\ pc = "read" => cluster = IF Len(content) = 0 THEN volume.start
                              ELSE volume.fat[content[Len(content)][1]]
  /\ pc = "read_next" => Len(content) > 0 /\ cluster = content[Len(content)][1]
  /\ ContentIsTheFile

\* A non-empty set of numbers has a least one.
LEMMA MinOfNats ==
  ASSUME NEW S \in SUBSET Nat, S # {}
  PROVE  Min(S) \in S /\ \A y \in S : Min(S) <= y
<1> DEFINE R == {ss \in Nat \X Nat : ss[1] < ss[2]}
<1>1. IsWellFoundedOn(R, Nat)
  <2>1. OpToRel(<, Nat) = R
    BY DEF OpToRel
  <2> QED BY <2>1, NatLessThanWellFounded
<1>2. \A x, y \in Nat : <<y, x>> \in R <=> y < x
  OBVIOUS
<1> HIDE DEF R
<1>3. \E x \in S : \A y \in S : ~(<<y, x>> \in R)
  BY <1>1, WFMin
<1>4. PICK x \in S : \A y \in S : ~(<<y, x>> \in R)
  BY <1>3
<1>5. \A y \in S : x <= y
  <2> TAKE y \in S
  <2>1. x \in Nat /\ y \in Nat /\ ~(y < x)
    BY <1>2, <1>4
  <2> QED BY <2>1
<1> QED BY <1>5 DEF Min

\* What Copied computes.
LEMMA CopiedIs ==
  ASSUME NEW b \in Nat
  PROVE  /\ Copied(b) \in Nat
         /\ Copied(b) = IF b <= ClusterSize THEN b ELSE ClusterSize
<1>1. Min({b, ClusterSize}) \in {b, ClusterSize}
      /\ \A y \in {b, ClusterSize} : Min({b, ClusterSize}) <= y
  BY DiskAssumption, MinOfNats
<1> QED
  BY <1>1, DiskAssumption DEF Copied

\* What is on the volume has the types of its tables.
LEMMA VolumeFacts ==
  ASSUME volume \in Volumes
  PROVE  /\ \A c \in Cluster : volume.fat[c] \in Nat /\ volume.dir[c] \in DirContents
         /\ volume.start \in Nat /\ volume.size \in Nat /\ volume.root \in Nat
<1>1. Numbers \subseteq Nat
  BY DiskAssumption DEF Numbers
<1> QED
  BY <1>1, DiskAssumption DEF Volumes

\* Cluster numbers are numbers that the loops go on with.
LEMMA ChainFacts == \A c \in Cluster : IsChain(c) /\ c \in Nat
BY DiskAssumption DEF IsChain

\* The invariant holds when the boot code begins.
LEMMA InitDisk == Init => DiskTypeOK /\ SectorSafe /\ SearchSound /\ ReadSound
<1> SUFFICES ASSUME Init PROVE DiskTypeOK /\ SectorSafe /\ SearchSound /\ ReadSound
  OBVIOUS
<1>1. DiskTypeOK
  <2>1. content \in Seq(Cluster \X Nat)
    BY DEF Init
  <2>2. fault \in BOOLEAN
    BY DEF Init
  <2> QED
    BY <2>1, <2>2 DEF Init, DiskTypeOK, Pcs
<1>2. SectorSafe /\ SearchSound
  BY DEF Init, SectorSafe, SearchSound, NotFoundMeansAbsent
<1>3. ReadSound
  BY DEF Init, ReadSound, ContentIsTheFile
<1> QED
  BY <1>1, <1>2, <1>3

\* Every step keeps the types, and nothing writes to the volume.
LEMMA DiskTypes ==
  ASSUME DiskTypeOK, [Next]_vars
  PROVE  DiskTypeOK' /\ volume' = volume
<1>1. CASE UNCHANGED vars \/ Done
  BY <1>1 DEF vars, Done, DiskTypeOK
<1>2. CASE AtaNew \/ self_testRead \/ self_testWrite \/ self_testReadback \/ self_testRestore
  BY <1>2 DEF AtaNew, self_testRead, self_testWrite, self_testReadback, self_testRestore,
       DiskTypeOK, Pcs, Succeeds, Fails
<1>3. CASE Probe
  BY <1>3 DEF Probe, DiskTypeOK, Pcs, Succeeds, Fails
<1>7. CASE Mount
  <2>1. UNCHANGED <<volume, remaining, content>> /\ pc' \in {"find", "done", "panic"}
        /\ cluster' \in {cluster, volume.root}
    BY <1>7 DEF Mount, Allocated
  <2>2. fault' \in BOOLEAN
    BY <1>7 DEF Mount, Succeeds, Fails, DiskTypeOK
  <2> QED
    BY <2>1, <2>2, VolumeFacts DEF DiskTypeOK, Pcs
<1>4. CASE find_in_directory
  <2>1. /\ UNCHANGED <<volume, content>> /\ pc' \in {"find_next", "read", "done", "panic"}
        /\ cluster' \in {cluster, volume.start} /\ remaining' \in {remaining, volume.size}
        /\ pc' = "find_next" => cluster' = cluster /\ cluster \in Cluster
    BY <1>4 DEF find_in_directory, Finish, Allocated
  <2>2. fault' \in BOOLEAN
    BY <1>4 DEF find_in_directory, Succeeds, Fails, DiskTypeOK
  <2> QED
    BY <2>1, <2>2, VolumeFacts DEF DiskTypeOK, Pcs
<1>5. CASE next_cluster
  BY <1>5, VolumeFacts DEF next_cluster, DiskTypeOK, Pcs, Succeeds, Fails, Finish
<1>6. CASE read_file_content
  <2>1. \/ content' = content
        \/ /\ cluster \in Cluster
           /\ content' = Append(content, <<cluster, Copied(remaining)>>)
    BY <1>6 DEF read_file_content
  <2>2. Copied(remaining) \in Nat
    BY CopiedIs DEF DiskTypeOK
  <2>5. ASSUME cluster \in Cluster
        PROVE  Append(content, <<cluster, Copied(remaining)>>) \in Seq(Cluster \X Nat)
    <3>1. <<cluster, Copied(remaining)>> \in Cluster \X Nat
      BY <2>2, <2>5
    <3> QED
      BY <3>1 DEF DiskTypeOK
  <2>3. content' \in Seq(Cluster \X Nat)
    BY <2>1, <2>5 DEF DiskTypeOK
  <2>4. remaining' \in Nat
    BY <1>6, DiskAssumption DEF read_file_content, DiskTypeOK
  <2> QED
    BY <1>6, <2>3, <2>4 DEF read_file_content, DiskTypeOK, Pcs, Succeeds, Fails, Finish
<1> QED
  BY <1>1, <1>2, <1>3, <1>4, <1>5, <1>6, <1>7 DEF Next, Step

\* Every step keeps the last sector safe.
LEMMA SectorStep ==
  ASSUME DiskTypeOK, SectorSafe, [Next]_vars
  PROVE  SectorSafe'
<1> USE DEF SectorSafe, SelfTested
<1>1. CASE UNCHANGED vars \/ Done
  BY <1>1 DEF vars, Done
<1>2. CASE AtaNew \/ self_testRead
  BY <1>2 DEF AtaNew, self_testRead, Succeeds, Fails
<1>3. CASE self_testWrite \/ self_testReadback \/ self_testRestore
  BY <1>3 DEF self_testWrite, self_testReadback, self_testRestore, Succeeds, Fails
<1>4. CASE Probe
  BY <1>4 DEF Probe, Succeeds, Fails
<1>8. CASE Mount \/ find_in_directory
  <2>1. UNCHANGED last /\ pc \in {"mount", "find"}
        /\ pc' \in {"find", "find_next", "read", "done", "panic"}
    BY <1>8 DEF Mount, find_in_directory, Finish, Allocated
  <2>2. ~fault' => ~fault
    BY <1>8 DEF Mount, find_in_directory, Succeeds, Fails
  <2> QED
    BY <2>1, <2>2
<1>6. CASE next_cluster
  BY <1>6 DEF next_cluster, Succeeds, Fails, Finish
<1>7. CASE read_file_content
  BY <1>7 DEF read_file_content, Succeeds, Fails, Finish
<1> QED
  BY <1>1, <1>2, <1>3, <1>4, <1>6, <1>7, <1>8 DEF Next, Step

\* A cluster that shows neither a file nor a directory of the name has no
\* match.
LEMMA MatchFacts ==
  ASSUME NEW d \in DirContents, Match(d) \notin {"file", "directory"}
  PROVE  Match(d) = "none"
<1> DEFINE hits == {i \in Seen(d) : d[i] \in {"file", "directory"}}
<1>1. hits \in SUBSET Nat
  BY DiskAssumption DEF Seen
<1>2. ASSUME hits # {} PROVE Min(hits) \in hits
  BY <1>1, <1>2, MinOfNats
<1> QED
  BY <1>2 DEF Match

\* When the chain ends, the clusters looked at are closed under next_cluster:
\* they hold the whole root directory.
LEMMA SearchEnds ==
  ASSUME DiskTypeOK, SearchSound, pc = "find", ~IsChain(cluster)
  PROVE  \A c \in RootChain : Match(volume.dir[c]) = "none"
<1>1. PICK S : Searching(S)
  BY DEF SearchSound
<1>2. cluster \notin Cluster
  BY ChainFacts
<1>3. S \in SUBSET Cluster /\ Closed(S)
  BY <1>1, <1>2, ChainFacts DEF Searching, Closed
<1> QED
  BY <1>1, <1>3 DEF RootChain, Searching

\* Every step keeps the search sound.
LEMMA SearchStep ==
  ASSUME DiskTypeOK, SearchSound, [Next]_vars
  PROVE  SearchSound'
<1>v. DiskTypeOK' /\ volume' = volume
  BY DiskTypes
<1>r. RootChain' = RootChain
  BY <1>v DEF RootChain, Closed
<1>a. ASSUME result' = result \/ result' # "not found"
      PROVE  NotFoundMeansAbsent'
  <2>1. result' = "not found" => result = "not found"
    BY <1>a
  <2> QED
    BY <1>v, <1>r, <2>1 DEF SearchSound, NotFoundMeansAbsent
<1>1. CASE UNCHANGED vars \/ Done
  BY <1>1, <1>a, <1>v DEF vars, Done, SearchSound, Searching
<1>2. CASE AtaNew \/ self_testRead
  BY <1>2, <1>a DEF AtaNew, self_testRead, SearchSound
<1>3. CASE self_testWrite \/ self_testReadback \/ self_testRestore
  BY <1>3, <1>a DEF self_testWrite, self_testReadback, self_testRestore, SearchSound
<1>4. CASE Probe
  BY <1>4, <1>a DEF Probe, SearchSound
<1>5. CASE Mount
  <2>1. pc' = "find" => cluster' = volume.root
    BY <1>5 DEF Mount
  <2>2. pc' = "find" => Searching({})'
    BY <2>1, <1>v DEF Searching
  <2>3. pc' \in {"find", "done", "panic"} /\ (result' = result \/ result' # "not found")
    BY <1>5 DEF Mount, Allocated
  <2> QED
    BY <2>2, <2>3, <1>a DEF SearchSound
<1>6. CASE find_in_directory
  <2>1. CASE ~IsChain(cluster)
    <3>1. NotFoundMeansAbsent'
      BY <2>1, <1>6, <1>v, <1>r, SearchEnds DEF NotFoundMeansAbsent, find_in_directory
    <3> QED
      BY <3>1, <2>1, <1>6 DEF find_in_directory, SearchSound, Finish
  <2>2. CASE IsChain(cluster) /\ pc' = "find_next"
    <3>1. cluster \in Cluster /\ cluster' = cluster /\ result' = result
          /\ Match(volume.dir[cluster]) \notin {"file", "directory"}
      BY <2>2, <1>6 DEF find_in_directory, Finish, Allocated
    <3>2. Match(volume.dir[cluster]) = "none"
      BY <3>1, VolumeFacts, MatchFacts DEF DiskTypeOK
    <3>3. PICK S : Searching(S)
      BY <1>6 DEF SearchSound, find_in_directory
    <3>4. Searching(S)'
      BY <3>1, <3>3, <1>v DEF Searching
    <3> QED
      BY <3>1, <3>2, <3>4, <2>2, <1>a, <1>v DEF SearchSound
  <2>3. CASE IsChain(cluster) /\ pc' # "find_next"
    <3>1. pc' \in {"read", "done", "panic"} /\ (result' = result \/ result' # "not found")
      BY <2>3, <1>6 DEF find_in_directory, Finish, Allocated
    <3> QED
      BY <3>1, <1>a DEF SearchSound
  <2> QED
    BY <2>1, <2>2, <2>3
<1>7. CASE next_cluster
  <2>1. result' = result \/ result' # "not found"
    BY <1>7 DEF next_cluster, Finish
  <2>2. CASE pc' = "find"
    <3>1. pc = "find_next" /\ cluster' = volume.fat[cluster] /\ cluster \in Cluster
      BY <1>7, <2>2 DEF next_cluster, Finish, DiskTypeOK
    <3>2. PICK S : Searching(S)
      BY <3>1 DEF SearchSound
    <3>t. PICK T : T = S \cup {cluster}
      OBVIOUS
    <3>3. Searching(T)'
      <4>1. Match(volume.dir[cluster]) = "none"
        BY <3>1 DEF SearchSound
      <4>2. T \in SUBSET Cluster /\ volume.root \in T
        BY <3>1, <3>2, <3>t DEF Searching
      <4>3. \A c \in T : Match(volume.dir[c]) = "none" /\ volume.fat[c] \in T \cup {cluster'}
        BY <4>1, <3>1, <3>2, <3>t DEF Searching
      <4> QED
        BY <4>2, <4>3, <1>v DEF Searching
    <3> QED
      BY <3>3, <2>1, <2>2, <1>a DEF SearchSound
  <2>3. CASE pc' # "find"
    <3>1. pc' \in {"read", "done"}
      BY <1>7, <2>3 DEF next_cluster, Finish
    <3> QED
      BY <3>1, <2>1, <1>a DEF SearchSound
  <2> QED
    BY <2>2, <2>3
<1>8. CASE read_file_content
  <2>1. pc' \in {"read_next", "done"} /\ (result' = result \/ result' # "not found")
    BY <1>8 DEF read_file_content, Finish
  <2> QED
    BY <2>1, <1>a DEF SearchSound
<1> QED
  BY <1>1, <1>2, <1>3, <1>4, <1>5, <1>6, <1>7, <1>8 DEF Next, Step

\* Every step keeps the copy sound.
LEMMA ReadStep ==
  ASSUME DiskTypeOK, ReadSound, [Next]_vars
  PROVE  ReadSound'
<1>v. DiskTypeOK' /\ volume' = volume
  BY DiskTypes
<1>f. volume.size \in Nat /\ volume.start \in Nat /\ ClusterSize \in Nat \ {0}
  BY VolumeFacts, DiskAssumption DEF DiskTypeOK
<1>1. CASE UNCHANGED vars \/ Done
  BY <1>1, ZenonT(40) DEF vars, Done, ReadSound, Copying, ContentIsTheFile
<1>a. ASSUME pc \notin {"read", "read_next", "done"}, content' = content,
             \/ pc' \notin {"read", "read_next", "done"} /\ result' = result
             \/ pc' = "done" /\ result' # "ok"
      PROVE  ReadSound'
  BY <1>a DEF ReadSound, ContentIsTheFile
<1>2. CASE AtaNew
  BY <1>2, <1>a DEF AtaNew, ReadSound
<1>3. CASE self_testRead \/ self_testWrite \/ self_testReadback \/ self_testRestore
  BY <1>3, <1>a DEF self_testRead, self_testWrite, self_testReadback, self_testRestore
<1>4. CASE Probe \/ Mount
  BY <1>4, <1>a DEF Probe, Mount, Allocated
<1>5. CASE find_in_directory
  <2>1. CASE pc' = "read"
    <3>1. /\ pc = "find" /\ content' = content /\ result' = result
          /\ cluster' = volume.start /\ remaining' = volume.size
      BY <1>5, <2>1 DEF find_in_directory, Finish
    <3>2. content' = << >> /\ Len(content') = 0
      BY <3>1 DEF ReadSound
    <3>3. Copying'
      BY <3>1, <3>2, <1>v, <1>f DEF Copying
    <3> QED
      BY <2>1, <3>1, <3>2, <3>3, <1>v DEF ReadSound, ContentIsTheFile
  <2>2. CASE pc' # "read"
    BY <1>5, <2>2, <1>a DEF find_in_directory, Finish, Allocated
  <2> QED
    BY <2>1, <2>2
<1>6. CASE next_cluster
  <2>1. CASE pc' = "done"
    BY <1>6, <2>1 DEF next_cluster, Finish, ReadSound, ContentIsTheFile
  <2>2. CASE pc' = "find"
    BY <1>6, <2>2 DEF next_cluster, Finish, ReadSound, ContentIsTheFile
  <2>3. CASE pc' = "read"
    <3>1. /\ pc = "read_next" /\ UNCHANGED <<content, remaining, result>>
          /\ cluster' = volume.fat[cluster]
      BY <1>6, <2>3 DEF next_cluster, Finish
    <3>2. Len(content) \in Nat
      BY DEF DiskTypeOK
    <3>3. Copying'
      BY <3>1, <1>v DEF Copying, ReadSound
    <3> QED
      BY <2>3, <3>1, <3>2, <3>3, <1>v DEF ReadSound, ContentIsTheFile
  <2> QED
    BY <1>6, <2>1, <2>2, <2>3 DEF next_cluster, Finish
<1>7. CASE read_file_content
  <2> DEFINE n == Len(content)
             k == Copied(remaining)
             longer == Append(content, <<cluster, k>>)
  <2>1. Copying /\ cluster = (IF n = 0 THEN volume.start ELSE volume.fat[content[n][1]])
    BY <1>7 DEF read_file_content, ReadSound
  <2>2. n \in Nat /\ remaining \in Nat /\ n * ClusterSize \in Nat
    BY <1>f DEF DiskTypeOK
  <2>3. n > 0 => (n - 1) * ClusterSize + ClusterSize = n * ClusterSize
    BY <2>2, <1>f
  <2>4. /\ k = IF remaining <= ClusterSize THEN remaining ELSE ClusterSize
        /\ k \in Nat
    BY <2>2, CopiedIs
  <2>5. ASSUME cluster \in Cluster
        PROVE  /\ Len(longer) = n + 1
               /\ \A i \in 1 .. n : longer[i] = content[i]
               /\ longer[n + 1][1] = cluster /\ longer[n + 1][2] = k
    <3>1. <<cluster, k>> \in Cluster \X Nat
      BY <2>4, <2>5
    <3>2. /\ Len(longer) = n + 1
          /\ \A i \in 1 .. n : longer[i] = content[i]
          /\ longer[n + 1] = <<cluster, k>>
      BY <3>1 DEF DiskTypeOK
    <3> QED
      BY <3>2
  <2>6. CASE ~IsChain(cluster)
    <3>1. UNCHANGED <<content, volume>> /\ pc' = "done"
      BY <1>7, <2>6, <1>v DEF read_file_content, Finish
    <3>2. n * ClusterSize <= volume.size
      BY <2>1, <2>2, <1>f DEF Copying
    <3>3. ContentIsTheFile'
      <4>1. n > 0 => content[n][2] = ClusterSize
        BY <2>1, <2>2 DEF Copying
      <4> QED
        BY <2>1, <2>2, <2>3, <2>6, <3>1, <3>2, <4>1, <1>f DEF ContentIsTheFile, Copying, IsChain
    <3> QED
      BY <3>1, <3>3 DEF ReadSound
  <2>7. CASE pc' = "done" /\ result' # "ok"
    BY <2>7 DEF ReadSound, ContentIsTheFile
  <2>8. ASSUME cluster \in Cluster, content' = longer
        PROVE  /\ Len(content') = n + 1 /\ content'[1][1] = volume.start
               /\ \A i \in 1 .. n : content'[i][2] = ClusterSize
               /\ \A i \in 1 .. n : content'[i + 1][1] = volume.fat[content'[i][1]]
               /\ content'[n + 1][1] = cluster /\ content'[n + 1][2] = k
    <3> HIDE DEF longer, k
    <3>1. /\ Len(content') = n + 1
          /\ \A i \in 1 .. n : content'[i] = content[i]
          /\ content'[n + 1][1] = cluster /\ content'[n + 1][2] = k
      BY <2>5, <2>8
    <3>2. content'[1][1] = volume.start
      BY <3>1, <2>1, <2>2 DEF Copying
    <3>3. \A i \in 1 .. n : content'[i][2] = ClusterSize
      BY <3>1, <2>1, <2>2 DEF Copying
    <3>4. ASSUME NEW i \in 1 .. n
          PROVE  content'[i + 1][1] = volume.fat[content'[i][1]]
      <4>1. CASE i = n
        BY <3>1, <2>1, <2>2, <4>1
      <4>2. CASE i # n
        BY <3>1, <2>1, <2>2, <4>2 DEF Copying
      <4> QED
        BY <4>1, <4>2
    <3> QED
      BY <3>1, <3>2, <3>3, <3>4
  <2>9. CASE /\ cluster \in Cluster /\ content' = longer
             /\ remaining <= ClusterSize /\ pc' = "done"
    <3>1. n * ClusterSize + k = volume.size
      BY <2>1, <2>4, <2>9 DEF Copying
    <3> HIDE DEF longer, k
    <3>2. ContentIsTheFile'
      BY <2>2, <2>4, <2>8, <2>9, <3>1, <1>v, <1>f DEF ContentIsTheFile
    <3> QED
      BY <2>9, <3>2 DEF ReadSound
  <2>10. CASE /\ cluster \in Cluster /\ content' = longer
              /\ ~(remaining <= ClusterSize) /\ pc' = "read_next"
              /\ remaining' = remaining - ClusterSize /\ UNCHANGED <<result, cluster>>
    <3>1. k = ClusterSize
      BY <2>4, <2>10
    <3>2. n * ClusterSize + remaining = volume.size
      BY <2>1 DEF Copying
    <3> HIDE DEF longer, k
    <3>3. (n + 1) * ClusterSize + remaining' = volume.size
      BY <2>2, <2>10, <3>2, <1>f
    <3>4. Copying'
      BY <2>2, <2>8, <2>10, <3>1, <3>3, <1>v DEF Copying
    <3> QED
      BY <2>2, <2>8, <2>10, <3>4, <1>7 DEF ReadSound, read_file_content, ContentIsTheFile
  <2> QED
    BY <1>7, <2>6, <2>7, <2>9, <2>10 DEF read_file_content, Finish
<1> QED
  BY <1>1, <1>2, <1>3, <1>4, <1>5, <1>6, <1>7 DEF Next, Step

--------------------------------------------------------------------------------
(* Theorems about the disk *)

\* The inductive invariant of the disk.
DiskInv == DiskTypeOK /\ SectorSafe /\ SearchSound /\ ReadSound

\* In every reachable state, for any volume, readable or damaged, self_test,
\* find_in_directory and read_file_content are where the invariant says.
THEOREM DiskInvariant == Spec => []DiskInv
<1>1. Init => DiskInv
  BY InitDisk DEF DiskInv
<1>2. DiskInv /\ [Next]_vars => DiskInv'
  BY DiskTypes, SectorStep, SearchStep, ReadStep DEF DiskInv
<1> QED
  BY <1>1, <1>2, PTL DEF Spec

\* AtaDevice::self_test puts back what the last sector held unless a command of
\* the drive fails.
THEOREM RestoredUnlessFaultHolds == Spec => []RestoredUnlessFault
<1>1. DiskInv => RestoredUnlessFault
  BY DEF DiskInv, SectorSafe, RestoredUnlessFault
<1> QED
  BY <1>1, DiskInvariant, PTL

\* find_in_directory answers "not found" only when no cluster of the root
\* directory's chain shows the name, however long the chain is and even when it
\* is broken.
THEOREM NotFoundMeansAbsentHolds == Spec => []NotFoundMeansAbsent
<1>1. DiskInv => NotFoundMeansAbsent
  BY DEF DiskInv, SearchSound
<1> QED
  BY <1>1, DiskInvariant, PTL

\* read_file_content returns the clusters of the file's chain in order, cut to
\* the size of the directory entry, whatever the chain and the size are.
THEOREM ContentIsTheFileHolds == Spec => []ContentIsTheFile
<1>1. DiskInv => ContentIsTheFile
  BY DEF DiskInv, ReadSound
<1> QED
  BY <1>1, DiskInvariant, PTL

\* The ramdisk's steps leave the disk's variables alone: a behaviour of both is
\* one of the disk, so that the theorems above hold for the composition.
THEOREM RamdiskImplementsDisk == RSpec => Spec
<1>1. RInit => Init
  BY DEF RInit
<1>2. [RNext]_rvars => [Next]_vars
  BY DEF RNext, rvars, Next, MountRamdisk, DiskStep, next, Command
<1> QED
  BY <1>1, <1>2, PTL DEF RSpec, Spec

--------------------------------------------------------------------------------
(* The archive *)

\* Where the header behind a file is.
After(f) == f.at + Block + Padded(f.size)

\* Padding never makes a file shorter.
LEMMA PaddedIs ==
  ASSUME NEW size \in Nat
  PROVE  Padded(size) \in Nat /\ Padded(size) >= size
<1> DEFINE q == (size + Block - 1) \div Block
           r == (size + Block - 1) % Block
<1>1. Block \in Nat /\ Block > 0 /\ size + Block - 1 \in Nat
  BY RamdiskAssumption
<1>2. q \in Nat /\ r \in Nat /\ r < Block /\ size + Block - 1 = Block * q + r
  BY <1>1
<1> HIDE DEF q, r
<1>3. q * Block = Block * q /\ q * Block \in Nat
  BY <1>1, <1>2
<1>4. q * Block >= size
  BY <1>1, <1>2, <1>3
<1> QED
  BY <1>3, <1>4 DEF Padded, q

\* Headers and data of an archive as tar lays them out.
LEMMA ArchiveFacts ==
  ASSUME NEW a \in Archives
  PROVE  /\ a.present \in Nat /\ Len(a.files) \in Nat /\ DOMAIN a.files = 1 .. Len(a.files)
         /\ \A i \in 1 .. Len(a.files) :
              /\ a.files[i].at \in Nat /\ a.files[i].size \in Nat
              /\ After(a.files[i]) \in Nat
              /\ After(a.files[i]) >= a.files[i].at + Block + a.files[i].size
         /\ \A i \in 1 .. Len(a.files) :
              a.files[i].at = IF i = 1 THEN 0 ELSE After(a.files[i - 1])
<1> DEFINE Entry == [name : STRING, size : Nat, at : Nat]
           fs == a.files
<1>1. fs \in Seq(Entry) /\ LaidOut(fs) /\ a.present \in Nat /\ Block \in Nat
  BY RamdiskAssumption
<1>2. Len(fs) \in Nat /\ DOMAIN fs = 1 .. Len(fs) /\ \A i \in 1 .. Len(fs) : fs[i] \in Entry
  <2> HIDE DEF fs, Entry
  <2> QED
    BY <1>1
<1>3. \A i \in 1 .. Len(fs) : fs[i].at \in Nat /\ fs[i].size \in Nat
  BY <1>2
<1>4. \A i \in 1 .. Len(fs) :
        After(fs[i]) \in Nat /\ After(fs[i]) >= fs[i].at + Block + fs[i].size
  <2> TAKE i \in 1 .. Len(fs)
  <2>1. fs[i].at \in Nat /\ fs[i].size \in Nat
    BY <1>3
  <2>2. Padded(fs[i].size) \in Nat /\ Padded(fs[i].size) >= fs[i].size
    BY <2>1, PaddedIs
  <2>3. PICK at \in Nat, size \in Nat, pad \in Nat :
          at = fs[i].at /\ size = fs[i].size /\ pad = Padded(fs[i].size)
    BY <2>1, <2>2
  <2>4. After(fs[i]) = at + Block + pad
    BY <2>3 DEF After
  <2>6. pad >= size /\ Block \in Nat
    BY <1>1, <2>2, <2>3
  <2>5. at + Block + pad \in Nat /\ at + Block + pad >= at + Block + size
    BY <2>6
  <2> QED
    BY <2>3, <2>4, <2>5
<1>5. \A i \in 1 .. Len(fs) : fs[i].at = IF i = 1 THEN 0 ELSE After(fs[i - 1])
  BY <1>1, <1>2 DEF LaidOut, After
<1> QED
  BY <1>1, <1>2, <1>3, <1>4, <1>5

\* A file lies before the header of every later one.
LEMMA HeadersInOrder ==
  ASSUME NEW a \in Archives
  PROVE  \A j \in 1 .. Len(a.files) : \A i \in 1 .. j - 1 : After(a.files[i]) <= a.files[j].at
<1> DEFINE fs == a.files
           bad == {j \in 1 .. Len(fs) : \E i \in 1 .. j - 1 : ~(After(fs[i]) <= fs[j].at)}
<1>1. SUFFICES ASSUME bad # {} PROVE FALSE
  OBVIOUS
<1>2. PICK j \in bad : \A y \in bad : j <= y
  <2>1. bad \in SUBSET Nat
    BY ArchiveFacts
  <2> QED
    <3> HIDE DEF bad
    <3> QED
      BY <1>1, <2>1, MinOfNats
<1>3. PICK i \in 1 .. j - 1 : ~(After(fs[i]) <= fs[j].at)
  BY <1>2
<1>4. j \in 1 .. Len(fs) /\ j # 1 /\ Len(fs) \in Nat /\ j - 1 \in 1 .. Len(fs)
  BY <1>2, <1>3, ArchiveFacts
<1>5. fs[j].at = After(fs[j - 1]) /\ After(fs[j - 1]) \in Nat /\ After(fs[i]) \in Nat
      /\ After(fs[j - 1]) >= fs[j - 1].at + Block + fs[j - 1].size
      /\ fs[j - 1].at \in Nat /\ fs[j - 1].size \in Nat
  BY <1>3, <1>4, ArchiveFacts
<1>6. i # j - 1
  BY <1>3, <1>5
<1>7. After(fs[i]) <= fs[j - 1].at
  <2>1. j - 1 \notin bad
    BY <1>2, <1>4
  <2>2. i \in 1 .. (j - 1) - 1
    BY <1>3, <1>4, <1>6
  <2> QED
    BY <1>4, <2>1, <2>2
<1>8. After(fs[i]) <= After(fs[j - 1])
  <2>1. Block \in Nat
    BY RamdiskAssumption
  <2> QED
    BY <1>5, <1>7, <2>1
<1> QED
  BY <1>3, <1>5, <1>8
--------------------------------------------------------------------------------
(* The commands *)

\* The commands.
Names == {"ls", "raw", "cat", "stat", "run"}

\* Types of the variables; a command runs only when the archive has been looked
\* at.
RamdiskTypeOK ==
  /\ archive \in Archives
  /\ offset \in Nat /\ listed \in Seq(Nat)
  /\ mounts \in {"unprobed", "tar", "none"}
  /\ mounts = "unprobed" => pc = "new" /\ command = NoCommand
  /\ command # NoCommand => /\ command \in [name : Names \cup {"done", "panic"}, of : Names, path : Paths]
                            /\ command.name \in Names => command.name = command.of

\* TarIterator has passed the first p entries: its offset is the end of the
\* p-th, ls has printed them, and a lookup has found none of them.
Scanned(p) ==
  /\ p \in 0 .. Len(archive.files)
  /\ offset = IF p = 0 THEN 0 ELSE After(archive.files[p])
  /\ 1 .. p \subseteq Present
  /\ command.of = "ls" => Len(listed) = p /\ \A k \in 1 .. p : listed[k] = k
  /\ command.of # "ls" => \A k \in 1 .. p : archive.files[k].name # command.path.name

\* The invariant of a command.
ScanSound ==
  /\ command.name \in Names /\ mounts = "tar" => \E p : Scanned(p)
  /\ AnswerIsTheArchive

\* The headers of the entries passed lie before the offset, the one of the next
\* entry is at it, and the others lie behind it.
LEMMA ScanFacts ==
  ASSUME RamdiskTypeOK, NEW p, Scanned(p)
  PROVE  /\ \A i \in Files : (i <= p => HeaderAt(i) < offset) /\ (i > p + 1 => HeaderAt(i) > offset)
         /\ p + 1 \in Files => HeaderAt(p + 1) = offset
<1> DEFINE fs == archive.files
<1>0. Block \in Nat /\ Block > 0
  BY RamdiskAssumption
<1>1. /\ Files = 1 .. Len(fs) /\ Len(fs) \in Nat /\ p \in 0 .. Len(fs)
      /\ \A i \in 1 .. Len(fs) : /\ fs[i].at \in Nat /\ fs[i].size \in Nat
                                 /\ After(fs[i]) \in Nat
                                 /\ After(fs[i]) >= fs[i].at + Block + fs[i].size
      /\ \A i \in 1 .. Len(fs) : fs[i].at = IF i = 1 THEN 0 ELSE After(fs[i - 1])
  BY ArchiveFacts DEF RamdiskTypeOK, Files, Scanned
<1>2. \A j \in 1 .. Len(fs) : \A i \in 1 .. j - 1 : After(fs[i]) <= fs[j].at
  BY HeadersInOrder DEF RamdiskTypeOK
<1>3. offset = IF p = 0 THEN 0 ELSE After(fs[p])
  BY DEF Scanned
<1> HIDE DEF fs
<1>4. \A i \in 1 .. Len(fs) : fs[i].at < After(fs[i])
  <2> TAKE i \in 1 .. Len(fs)
  <2>1. PICK at \in Nat, size \in Nat, after \in Nat :
          at = fs[i].at /\ size = fs[i].size /\ after = After(fs[i])
    BY <1>1
  <2>2. after >= at + Block + size
    BY <1>1, <2>1
  <2>3. at < after
    BY <1>0, <2>2
  <2> QED
    BY <2>1, <2>3
<1>5. ASSUME NEW i \in Files, i <= p PROVE fs[i].at < offset
  <2>1. CASE i = p
    BY <1>1, <1>3, <1>4, <2>1
  <2>2. CASE i # p
    <3>1. p \in 1 .. Len(fs) /\ i \in 1 .. p - 1 /\ i \in 1 .. Len(fs)
      BY <1>1, <1>5, <2>2
    <3>2. fs[i].at < After(fs[i]) /\ After(fs[i]) <= fs[p].at /\ fs[p].at < After(fs[p])
      BY <3>1, <1>2, <1>4
    <3> QED
      BY <3>1, <3>2, <1>1, <1>3
  <2> QED
    BY <2>1, <2>2
<1>6. p + 1 \in Files => fs[p + 1].at = offset
  BY <1>1, <1>3
<1>7. ASSUME NEW i \in Files, i > p + 1 PROVE fs[i].at > offset
  <2>1. p + 1 \in Files /\ p + 1 \in 1 .. i - 1
    BY <1>1, <1>7
  <2>2. After(fs[p + 1]) <= fs[i].at /\ fs[p + 1].at < After(fs[p + 1])
    BY <1>1, <1>2, <1>4, <2>1
  <2> QED
    BY <1>1, <1>6, <2>1, <2>2
<1> QED
  BY <1>5, <1>6, <1>7 DEF HeaderAt, fs
\* TarIterator::next stops: it has seen every entry there is.
LEMMA ScanStops ==
  ASSUME RamdiskTypeOK, NEW p, Scanned(p),
         offset + Block > archive.present \/ HeaderIn(offset) = 0
  PROVE  Present = 1 .. p
<1>1. Files = 1 .. Len(archive.files) /\ Len(archive.files) \in Nat /\ p \in 0 .. Len(archive.files)
      /\ archive.present \in Nat /\ Block \in Nat /\ offset \in Nat
      /\ \A i \in Files : HeaderAt(i) \in Nat
  BY ArchiveFacts, RamdiskAssumption DEF RamdiskTypeOK, Files, Scanned, HeaderAt
<1>2. ASSUME NEW i \in Present, i > p PROVE FALSE
  <2>1. i \in Files /\ HeaderAt(i) + Block <= archive.present
    BY DEF Present
  <2>2. p + 1 \in Files
    BY <1>1, <1>2, <2>1
  <2>3. HeaderAt(p + 1) = offset /\ HeaderAt(i) >= offset
    BY <1>1, <1>2, <2>1, <2>2, ScanFacts
  <2>4. HeaderIn(offset) # 0
    <3>1. p + 1 \in {k \in Files : HeaderAt(k) = offset}
      BY <2>2, <2>3
    <3> QED
      BY <1>1, <3>1 DEF HeaderIn
  <2> QED
    BY <1>1, <2>1, <2>3, <2>4
<1>3. Present \subseteq Files
  BY DEF Present
<1>4. Present \subseteq 1 .. p
  <2> SUFFICES ASSUME NEW i \in Present PROVE i \in 1 .. p
    OBVIOUS
  <2>1. i \in 1 .. Len(archive.files) /\ ~(i > p)
    BY <1>1, <1>2, <1>3
  <2> QED
    BY <1>1, <2>1
<1> QED
  BY <1>4 DEF Scanned

\* TarIterator::next finds a header: it is the next entry's.
LEMMA ScanFinds ==
  ASSUME RamdiskTypeOK, NEW p, Scanned(p),
         offset + Block <= archive.present, HeaderIn(offset) # 0
  PROVE  /\ HeaderIn(offset) = p + 1 /\ p + 1 \in Files /\ p + 1 \in Present
         /\ HeaderAt(p + 1) = offset
<1>1. Files = 1 .. Len(archive.files) /\ Len(archive.files) \in Nat /\ p \in 0 .. Len(archive.files)
      /\ offset \in Nat /\ \A i \in Files : HeaderAt(i) \in Nat
  BY ArchiveFacts DEF RamdiskTypeOK, Files, Scanned, HeaderAt
<1> DEFINE here == {i \in Files : HeaderAt(i) = offset}
<1>2. here # {} /\ HeaderIn(offset) \in here
  BY DEF HeaderIn
<1>3. \A i \in here : i = p + 1
  <2> TAKE i \in here
  <2>1. i \in Files /\ i \in Nat /\ p \in Nat /\ HeaderAt(i) = offset
    BY <1>1
  <2>2. ~(i <= p) /\ ~(i > p + 1)
    BY <1>1, <2>1, ScanFacts
  <2> QED
    BY <2>1, <2>2
<1> QED
  BY <1>2, <1>3 DEF Present

\* The slice that next makes is the file's own data.
LEMMA SliceIsTheFile ==
  ASSUME RamdiskTypeOK, NEW i \in Files, NEW k \in 1 .. archive.files[i].size
  PROVE  Unit(HeaderAt(i) + Block + k - 1) = <<i, k - 1>>
<1> DEFINE fs == archive.files
           o == HeaderAt(i) + Block + k - 1
           data(j) == HeaderAt(j) + Block .. HeaderAt(j) + Block + fs[j].size - 1
           here == {j \in Files : o \in data(j)}
<1>0. Block \in Nat /\ Block > 0
  BY RamdiskAssumption
<1>1. /\ Files = 1 .. Len(fs) /\ Len(fs) \in Nat
      /\ \A j \in Files : /\ HeaderAt(j) \in Nat /\ fs[j].size \in Nat
                          /\ After(fs[j]) \in Nat
                          /\ After(fs[j]) >= HeaderAt(j) + Block + fs[j].size
  BY ArchiveFacts DEF RamdiskTypeOK, Files, HeaderAt
<1>2. \A j \in Files : \A h \in 1 .. j - 1 : After(fs[h]) <= HeaderAt(j)
  BY HeadersInOrder, <1>1 DEF RamdiskTypeOK, HeaderAt
<1> HIDE DEF fs
<1>3. k \in Nat /\ k >= 1 /\ k <= fs[i].size /\ o \in Nat
  BY <1>0, <1>1 DEF fs
<1>4. i \in here
  BY <1>0, <1>1, <1>3
<1>9. ASSUME NEW j \in Files, NEW x \in Nat,
             x >= HeaderAt(j) + Block, x <= HeaderAt(j) + Block + fs[j].size - 1
      PROVE  x < After(fs[j]) /\ x >= HeaderAt(j)
  <2>1. PICK at \in Nat, size \in Nat, after \in Nat :
          at = HeaderAt(j) /\ size = fs[j].size /\ after = After(fs[j])
    BY <1>1
  <2>2. after >= at + Block + size /\ x >= at + Block /\ x <= at + Block + size - 1
    BY <1>1, <1>9, <2>1
  <2>3. x < after /\ x >= at
    BY <1>0, <2>2
  <2> QED
    BY <2>1, <2>3
<1>5. ASSUME NEW j \in here PROVE j = i
  <2>1. j \in Files /\ o >= HeaderAt(j) + Block /\ o <= HeaderAt(j) + Block + fs[j].size - 1
    BY <1>0, <1>1, <1>3
  <2>2. o < After(fs[j]) /\ o >= HeaderAt(j)
    BY <1>3, <1>9, <2>1
  <2>3. o < After(fs[i]) /\ o >= HeaderAt(i)
    <3>1. o >= HeaderAt(i) + Block /\ o <= HeaderAt(i) + Block + fs[i].size - 1
      <4>1. PICK at \in Nat, size \in Nat : at = HeaderAt(i) /\ size = fs[i].size
        BY <1>1
      <4>2. at + Block + k - 1 >= at + Block /\ at + Block + k - 1 <= at + Block + size - 1
        BY <1>0, <1>3, <4>1
      <4> QED
        BY <4>1, <4>2
    <3> QED
      BY <1>3, <1>9, <3>1
  <2>4. ~(j < i)
    <3>1. SUFFICES ASSUME j < i PROVE FALSE
      OBVIOUS
    <3>2. After(fs[j]) <= HeaderAt(i)
      BY <1>1, <1>2, <2>1, <3>1
    <3> HIDE DEF o
    <3> QED
      BY <1>1, <1>3, <2>1, <2>2, <2>3, <3>2
  <2>5. ~(i < j)
    <3>1. SUFFICES ASSUME i < j PROVE FALSE
      OBVIOUS
    <3>2. After(fs[i]) <= HeaderAt(j)
      BY <1>1, <1>2, <2>1, <3>1
    <3> HIDE DEF o
    <3> QED
      BY <1>1, <1>3, <2>1, <2>2, <2>3, <3>2
  <2> QED
    BY <1>1, <2>1, <2>4, <2>5
<1>6. here # {} /\ (CHOOSE j \in here : TRUE) = i
  BY <1>4, <1>5
<1>7. Unit(o) = <<i, o - HeaderAt(i) - Block>>
  <2> HIDE DEF o
  <2> QED
    BY <1>6 DEF Unit, fs
<1>8. o - HeaderAt(i) - Block = k - 1
  BY <1>0, <1>1, <1>3
<1> QED
  BY <1>7, <1>8
\* Every step keeps the types, and nothing writes to the archive.
LEMMA RamdiskTypes ==
  ASSUME RamdiskTypeOK, [RNext]_rvars
  PROVE  RamdiskTypeOK' /\ archive' = archive
<1>1. CASE UNCHANGED rvars
  BY <1>1 DEF rvars, vars, ramdisk, RamdiskTypeOK
<1>2. CASE MountRamdisk
  BY <1>2 DEF MountRamdisk, vars, RamdiskTypeOK
<1>3. CASE DiskStep
  BY <1>3 DEF DiskStep, ramdisk, RamdiskTypeOK
<1>4. CASE next
  <2>0. command # NoCommand
    BY <1>4 DEF next, NoCommand
  <2>1. CASE offset + Block > archive.present \/ HeaderIn(offset) = 0
    BY <1>4, <2>0, <2>1 DEF next, Finished, vars, RamdiskTypeOK, Names
  <2>2. CASE ~(offset + Block > archive.present \/ HeaderIn(offset) = 0)
    <3> DEFINE i == HeaderIn(offset)
    <3>1. i \in Files /\ i \in Nat /\ archive.files[i].size \in Nat /\ Block \in Nat
      <4>1. i \in Files
        BY <2>2 DEF HeaderIn
      <4> HIDE DEF i
      <4> QED
        BY <4>1, ArchiveFacts, RamdiskAssumption DEF Files, RamdiskTypeOK
    <3>2. offset' \in Nat
      <4>1. offset' = offset + Block + Padded(archive.files[i].size)
        BY <1>4, <2>2 DEF next, NextOffset
      <4>2. Padded(archive.files[i].size) \in Nat
        BY <3>1, PaddedIs
      <4> HIDE DEF i
      <4> QED
        BY <3>1, <4>1, <4>2 DEF RamdiskTypeOK
    <3>3. listed' \in Seq(Nat)
      <4>1. listed' = Append(listed, i) \/ listed' = listed
        BY <1>4, <2>2 DEF next
      <4> HIDE DEF i
      <4> QED
        BY <3>1, <4>1 DEF RamdiskTypeOK
    <3>4. \/ command' = command \/ command' = [command EXCEPT !.name = "done"]
          \/ command' = [command EXCEPT !.name = "panic"]
      BY <1>4, <2>2 DEF next, Finished, FileBuffer
    <3> QED
      BY <1>4, <2>0, <3>2, <3>3, <3>4 DEF next, vars, RamdiskTypeOK, Names
  <2> QED
    BY <2>1, <2>2
<1>5. ASSUME NEW name \in Names, NEW path \in Paths, Command(name, path)
      PROVE  RamdiskTypeOK' /\ archive' = archive
  <2>1. /\ pc' = pc /\ pc = "done" /\ archive' = archive /\ mounts' = mounts
        /\ offset' = 0 /\ listed' = << >>
        /\ \/ command' = [name |-> "done", of |-> name, path |-> path]
           \/ command' = [name |-> name, of |-> name, path |-> path]
    BY <1>5 DEF Command, vars
  <2>2. mounts # "unprobed"
    BY <2>1 DEF RamdiskTypeOK
  <2> QED
    BY <2>1, <2>2 DEF RamdiskTypeOK, Names
<1> QED
  BY <1>1, <1>2, <1>3, <1>4, <1>5 DEF RNext, Names

\* Every step keeps the scan sound.
LEMMA ScanStep ==
  ASSUME RamdiskTypeOK, ScanSound, [RNext]_rvars
  PROVE  ScanSound'
<1>t. RamdiskTypeOK' /\ archive' = archive
  BY RamdiskTypes
<1>p. Present' = Present
  BY <1>t DEF Present, Files, HeaderAt
<1>w. Whole' = Whole
  BY <1>t, <1>p DEF Whole, HeaderAt
<1>1. CASE UNCHANGED rvars \/ DiskStep
  <2>1. UNCHANGED ramdisk
    BY <1>1 DEF rvars, DiskStep
  <2>2. AnswerIsTheArchive'
    BY <2>1, <1>p, <1>w DEF ramdisk, ScanSound, AnswerIsTheArchive, Named, root
  <2>3. \A p : Scanned(p) => Scanned(p)'
    BY <2>1, <1>p DEF ramdisk, Scanned
  <2> QED
    BY <2>1, <2>2, <2>3 DEF ramdisk, ScanSound
<1>2. CASE MountRamdisk
  <2>1. command' = NoCommand
    BY <1>2 DEF MountRamdisk, RamdiskTypeOK
  <2> QED
    BY <2>1 DEF NoCommand, ScanSound, Names, AnswerIsTheArchive
<1>3. ASSUME NEW name \in Names, NEW path \in Paths, Command(name, path)
      PROVE  ScanSound'
  <2>1. SUFFICES ASSUME mounts' = "tar" PROVE ScanSound'
    BY DEF ScanSound, AnswerIsTheArchive
  <2>2. mounts = "tar"
    BY <1>3, <2>1 DEF Command
  <2>3. path.slash \in BOOLEAN
    BY RamdiskAssumption
  <2>4. CASE command'.name = "done"
    <3>1. /\ command' = [name |-> "done", of |-> name, path |-> path]
          /\ \/ answer' = NotFound /\ name \in {"cat", "stat", "run"} /\ ~path.slash
             \/ answer' = NotFound /\ name = "raw" /\ path.slash
             \/ answer' = root /\ name \in {"cat", "stat", "run"} /\ path.name = RootName
      BY <1>3, <2>2, <2>4 DEF Command, open, Names
    <3>2. CASE answer' = root /\ name \in {"cat", "stat", "run"} /\ path.name = RootName
      BY <3>1, <3>2 DEF ScanSound, AnswerIsTheArchive, Names, root
    <3>3. CASE answer' = NotFound /\ name \in {"cat", "stat", "run"} /\ ~path.slash
      <4>1. ~answer'.found /\ command'.of # "ls" /\ command'.of # "raw" /\ ~command'.path.slash
        BY <3>1, <3>3 DEF NotFound
      <4>2. command'.path.slash = FALSE
        BY <3>1, <3>3, <2>3
      <4>3. (command'.of = "raw") = command'.path.slash
        BY <4>1, <4>2
      <4> QED
        BY <3>1, <4>1, <4>3 DEF ScanSound, AnswerIsTheArchive, Names
    <3>4. CASE answer' = NotFound /\ name = "raw" /\ path.slash
      <4>1. ~answer'.found /\ command'.of = "raw" /\ command'.path.slash
        BY <3>1, <3>4 DEF NotFound
      <4>2. (command'.of = "raw") = command'.path.slash
        BY <4>1, <3>1, <2>3
      <4> QED
        BY <3>1, <4>1, <4>2 DEF ScanSound, AnswerIsTheArchive, Names
    <3> QED
      BY <3>1, <3>2, <3>3, <3>4
  <2>5. CASE command'.name # "done"
    <3>1. /\ command' = [name |-> name, of |-> name, path |-> path]
          /\ offset' = 0 /\ listed' = << >>
      BY <1>3, <2>2, <2>5 DEF Command, open, Names
    <3>3. Scanned(0)'
      <4>1. Len(archive.files) \in Nat
        BY ArchiveFacts DEF RamdiskTypeOK
      <4>2. 1 .. 0 = {} /\ 0 \in 0 .. Len(archive.files)
        BY <4>1
      <4>3. Len(listed') = 0 /\ offset' = 0
        BY <3>1
      <4> QED
        BY <1>t, <4>2, <4>3 DEF Scanned
    <3> QED
      BY <3>1, <3>3, <2>5 DEF ScanSound, AnswerIsTheArchive
  <2> QED
    BY <2>4, <2>5
<1>4. CASE next
  <2>1. SUFFICES ASSUME mounts' = "tar" PROVE ScanSound'
    BY DEF ScanSound, AnswerIsTheArchive
  <2>2. /\ mounts = "tar" /\ command.name \in Names /\ command # NoCommand
        /\ command.of = command.name /\ command.path \in Paths
        /\ command \in [name : Names \cup {"done", "panic"}, of : Names, path : Paths]
    BY <1>4, <2>1 DEF next, Names, RamdiskTypeOK, NoCommand
  <2>3. PICK p : Scanned(p)
    BY <2>2 DEF ScanSound
  <2>4. p \in Nat
    BY <2>3, ArchiveFacts DEF Scanned, RamdiskTypeOK
  <2>5. CASE offset + Block > archive.present \/ HeaderIn(offset) = 0
    <3>1. Present = 1 .. p
      BY <2>3, <2>5, ScanStops
    <3>2. /\ command' = [command EXCEPT !.name = "done"] /\ answer' = NotFound /\ listed' = listed
      BY <1>4, <2>5 DEF next, Finished
    <3>3. command'.name = "done" /\ command'.of = command.of /\ command'.path = command.path
          /\ ~answer'.found
      BY <2>2, <3>2 DEF NotFound
    <3>4. CASE command.of = "ls"
      <4>1. Len(listed) = p /\ \A k \in 1 .. p : listed[k] = k
        BY <2>3, <3>4 DEF Scanned
      <4>2. DOMAIN listed = 1 .. p
        BY <4>1 DEF RamdiskTypeOK
      <4> QED
        BY <1>p, <3>1, <3>2, <3>3, <3>4, <4>1, <4>2 DEF ScanSound, AnswerIsTheArchive, Names
    <3>5. CASE command.of # "ls"
      <4>1. Named' = {}
        BY <1>p, <1>t, <2>3, <3>1, <3>3, <3>5 DEF Named, Scanned
      <4> QED
        BY <3>3, <3>5, <4>1 DEF ScanSound, AnswerIsTheArchive, Names
    <3> QED
      BY <3>4, <3>5
  <2>6. CASE ~(offset + Block > archive.present \/ HeaderIn(offset) = 0)
    <3>0. offset + Block <= archive.present
      BY <2>6, ArchiveFacts, RamdiskAssumption DEF RamdiskTypeOK
    <3>1. /\ HeaderIn(offset) = p + 1 /\ p + 1 \in Files /\ p + 1 \in Present
          /\ HeaderAt(p + 1) = offset
      BY <2>3, <2>6, <3>0, ScanFinds
    <3>2. offset' = After(archive.files[p + 1])
      BY <1>4, <2>6, <3>1 DEF next, NextOffset, After, HeaderAt
    <3>3. p + 1 \in 0 .. Len(archive.files) /\ p + 1 # 0 /\ 1 .. p + 1 \subseteq Present
      <4>1. p + 1 \in 0 .. Len(archive.files)
        BY <3>1, <2>4, ArchiveFacts DEF Files, RamdiskTypeOK
      <4>2. 1 .. p \subseteq Present
        BY <2>3 DEF Scanned
      <4> QED
        BY <2>4, <3>1, <4>1, <4>2
    <3>4. CASE command.name = "ls"
      <4>1. listed' = Append(listed, p + 1) /\ command' = command
        BY <1>4, <2>6, <3>1, <3>4 DEF next
      <4>2. Len(listed) = p /\ \A k \in 1 .. p : listed[k] = k
        BY <2>2, <2>3, <3>4 DEF Scanned
      <4>3. Len(listed') = p + 1 /\ \A k \in 1 .. p + 1 : listed'[k] = k
        BY <2>4, <4>1, <4>2 DEF RamdiskTypeOK
      <4>4. Scanned(p + 1)'
        BY <1>p, <1>t, <2>2, <3>2, <3>3, <3>4, <4>1, <4>3 DEF Scanned
      <4> QED
        BY <2>2, <4>1, <4>4 DEF ScanSound, AnswerIsTheArchive, Names
    <3>5. CASE command.name # "ls" /\ archive.files[p + 1].name # command.path.name
      <4>1. command' = command /\ listed' = listed
        BY <1>4, <2>6, <3>1, <3>5 DEF next
      <4>2. \A k \in 1 .. p + 1 : archive.files[k].name # command.path.name
        BY <2>2, <2>3, <2>4, <3>5 DEF Scanned
      <4>4. Scanned(p + 1)'
        BY <1>p, <1>t, <2>2, <2>3, <3>2, <3>3, <3>5, <4>1, <4>2 DEF Scanned
      <4> QED
        BY <2>2, <4>1, <4>4 DEF ScanSound, AnswerIsTheArchive, Names
    <3>6. CASE command.name # "ls" /\ archive.files[p + 1].name = command.path.name
      <4> DEFINE size == archive.files[p + 1].size
                 data == SafeSlice(offset + Block, size)
      <4>0. CASE command' = [command EXCEPT !.name = "panic"]
        BY <2>2, <4>0 DEF ScanSound, AnswerIsTheArchive, Names
      <4>1. SUFFICES ASSUME /\ command' = [command EXCEPT !.name = "done"]
                            /\ answer' = TarFileNode(p + 1, data)
                     PROVE  ScanSound'
        BY <1>4, <2>6, <3>1, <3>6, <4>0 DEF next, Finished, FileBuffer
      <4>2. command'.name = "done" /\ command'.of = command.of /\ command'.path = command.path
            /\ answer'.found /\ answer'.index = p + 1 /\ answer'.data = data
            /\ answer'.size = size
        BY <2>2, <4>1 DEF TarFileNode
      <4>3. p + 1 \in Named'
        BY <1>p, <1>t, <3>1, <3>6, <4>2 DEF Named
      <4>4. \A i \in Named' : i \in Nat /\ ~(i <= p)
        BY <1>p, <1>t, <2>2, <2>3, <2>4, <3>6, <4>2, ArchiveFacts
          DEF Named, Scanned, Present, Files, RamdiskTypeOK
      <4>5. Min(Named') = p + 1
        BY <2>4, <4>3, <4>4, MinOfNats
      <4>6. data = IF p + 1 \in Whole THEN [k \in 1 .. size |-> <<p + 1, k - 1>>] ELSE << >>
        <5>1. p + 1 \in Whole <=> offset + Block + size <= archive.present
          BY <3>1 DEF Whole
        <5>2. \A k \in 1 .. size : Unit(offset + Block + k - 1) = <<p + 1, k - 1>>
          BY <3>1, SliceIsTheFile
        <5> QED
          BY <5>1, <5>2 DEF SafeSlice
      <4> QED
        BY <1>w, <2>2, <3>6, <4>2, <4>3, <4>5, <4>6 DEF ScanSound, AnswerIsTheArchive, Names
    <3> QED
      BY <3>4, <3>5, <3>6
  <2> QED
    BY <2>5, <2>6
<1> QED
  BY <1>1, <1>2, <1>3, <1>4 DEF RNext, Names

--------------------------------------------------------------------------------
(* Theorem about the ramdisk *)

\* The inductive invariant of the ramdisk.
RamdiskInv == RamdiskTypeOK /\ ScanSound

\* What ls, raw, cat, stat and run get from TarIterator and TarFsAdapter is
\* what tar was given, for every list of files, every size of a block and
\* wherever the archive is cut: ls lists exactly the headers present, a lookup
\* finds the first entry of the name, and its data is the whole file or
\* nothing.
THEOREM AnswerIsTheArchiveHolds == RSpec => []AnswerIsTheArchive
<1>1. RInit => RamdiskInv
  BY DEF RInit, Init, RamdiskInv, RamdiskTypeOK, ScanSound, AnswerIsTheArchive, NoCommand, Names
<1>2. RamdiskInv /\ [RNext]_rvars => RamdiskInv'
  BY RamdiskTypes, ScanStep DEF RamdiskInv
<1>3. RamdiskInv => AnswerIsTheArchive
  BY DEF RamdiskInv, ScanSound
<1> QED
  BY <1>1, <1>2, <1>3, PTL DEF RSpec
================================================================================
