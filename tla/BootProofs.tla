------------------------------- MODULE BootProofs -------------------------------
(***************************************************************************)
(* Proofs about Boot, for every set of processors, every size of the       *)
(* per-CPU tables and every firmware.                                      *)
(***************************************************************************)
EXTENDS Boot, FiniteSetTheorems, TLAPS

\* How long the provers may take for a step that names none of them.
USE ZenonT(5), SMTT(30)

--------------------------------------------------------------------------------
(* Lists: what Rank, FirstCpus and Keep compute. *)

\* A non-empty set of numbers has a least one.
LEMMA MinOfNats ==
  ASSUME NEW S \in SUBSET Nat, S # {}
  PROVE  Min(S) \in S /\ \A y \in S : Min(S) <= y
<1> DEFINE R == {ss \in Nat \X Nat : ss[1] < ss[2]}
<1>1. IsWellFoundedOn(R, Nat)
  <2>1. OpToRel(<, Nat) = R
    BY DEF OpToRel
  <2> QED BY <2>1, NatLessThanWellFounded
<1>2. \A x, y \in Nat : <<y, x>> \in R <=> y < x
  OBVIOUS
<1> HIDE DEF R
<1>3. \E x \in S : \A y \in S : ~(<<y, x>> \in R)
  BY <1>1, WFMin
<1>4. PICK x \in S : \A y \in S : ~(<<y, x>> \in R)
  BY <1>3
<1>5. \A y \in S : x <= y
  <2> TAKE y \in S
  <2>1. x \in Nat /\ y \in Nat /\ ~(y < x)
    BY <1>2, <1>4
  <2> QED BY <2>1
<1> QED BY <1>5 DEF Min

\* So has a non-empty set of indices a greatest one.
LEMMA MaxOfIndices ==
  ASSUME NEW n \in Nat, NEW S \in SUBSET (1 .. n), S # {}
  PROVE  Max(S) \in S
<1> DEFINE T == {n - x : x \in S}
<1>0. \A x \in S : x \in Nat /\ n - x \in Nat
  OBVIOUS
<1>1. T \in SUBSET Nat /\ T # {}
  BY <1>0
<1>2. Min(T) \in T /\ \A y \in T : Min(T) <= y
  BY <1>1, MinOfNats
<1>3. PICK x \in S : Min(T) = n - x
  BY <1>2
<1>4. \A y \in S : x >= y
  <2> TAKE y \in S
  <2>1. n - y \in T
    OBVIOUS
  <2>2. n - x <= n - y
    BY <1>2, <1>3, <2>1
  <2> QED BY <1>0, <2>2
<1> QED BY <1>4 DEF Max

\* Ranks are 1, 2, ... in the order of the indices, each taken once.
LEMMA RankFacts ==
  ASSUME NEW n \in Nat, NEW I \in SUBSET (1 .. n)
  PROVE  /\ IsFiniteSet(I)
         /\ Cardinality(I) \in Nat
         /\ \A i \in I : Rank(i, I) \in 1 .. Cardinality(I)
         /\ \A i, j \in I : Rank(i, I) = Rank(j, I) => i = j
         /\ \A k \in 1 .. Cardinality(I) : \E i \in I : Rank(i, I) = k
<1>1. IsFiniteSet(1 .. n)
  BY FS_Interval
<1>2. IsFiniteSet(I) /\ Cardinality(I) \in Nat
  BY <1>1, FS_Subset, FS_CardinalityType
<1> DEFINE B(i) == {j \in I : j <= i}
<1>3. ASSUME NEW i \in I
      PROVE  IsFiniteSet(B(i)) /\ Cardinality(B(i)) \in 1 .. Cardinality(I)
  <2>1. B(i) \in SUBSET I /\ i \in B(i)
    OBVIOUS
  <2>2. IsFiniteSet(B(i)) /\ Cardinality(B(i)) <= Cardinality(I)
    BY <1>2, <2>1, FS_Subset
  <2>3. Cardinality(B(i)) \in Nat /\ Cardinality(B(i)) # 0
    BY <2>1, <2>2, FS_CardinalityType, FS_EmptySet
  <2> QED BY <1>2, <2>2, <2>3
<1>4. ASSUME NEW i \in I, NEW j \in I, i < j
      PROVE  Cardinality(B(i)) < Cardinality(B(j))
  <2>1. B(i) \in SUBSET B(j) /\ j \in B(j) /\ j \notin B(i)
    <3>1. \A k \in I : k \in Nat
      OBVIOUS
    <3>2. i \in Nat /\ j \in Nat /\ i < j
      BY <1>4, <3>1
    <3>3. \A k \in I : k <= i => k <= j
      BY <3>1, <3>2
    <3>4. j <= j /\ ~(j <= i)
      BY <3>2
    <3> QED BY <3>3, <3>4
  <2>2. Cardinality(B(i)) <= Cardinality(B(j)) /\ Cardinality(B(i)) # Cardinality(B(j))
    BY <1>3, <2>1, FS_Subset
  <2> QED BY <1>3, <2>2
<1>5. \A i, j \in I : Cardinality(B(i)) = Cardinality(B(j)) => i = j
  <2> SUFFICES ASSUME NEW i \in I, NEW j \in I, Cardinality(B(i)) = Cardinality(B(j))
               PROVE  i = j
    OBVIOUS
  <2>1. Cardinality(B(i)) \in Nat /\ i \in Nat /\ j \in Nat
    BY <1>3
  <2>2. CASE i < j
    BY <1>4, <2>1, <2>2
  <2>3. CASE j < i
    BY <1>4, <2>1, <2>3
  <2> QED BY <2>1, <2>2, <2>3
<1>6. \A k \in 1 .. Cardinality(I) : \E i \in I : Cardinality(B(i)) = k
  <2> DEFINE f == [i \in I |-> Cardinality(B(i))]
             T == 1 .. Cardinality(I)
  <2>1. f \in [I -> T] /\ \A i, j \in I : f[i] = f[j] => i = j
    BY <1>3, <1>5
  <2>2. IsFiniteSet(T) /\ Cardinality(T) = Cardinality(I)
    BY <1>2, FS_Interval
  <2>a. \A i \in I : f[i] = Cardinality(B(i))
    OBVIOUS
  <2> HIDE DEF f, T
  <2>3. f \in Injection(I, T)
    BY <2>1 DEF Injection, IsInjective
  <2>4. f \in Surjection(I, T)
    BY <2>2, <2>3, FS_Injection
  <2>5. \A k \in T : \E i \in I : f[i] = k
    BY <2>4 DEF Surjection
  <2> QED BY <2>5, <2>a DEF T
<1> QED BY <1>2, <1>3, <1>5, <1>6 DEF Rank

\* Keep(s, I) is a sequence of the elements of s at the indices in I, each index
\* being used once.
LEMMA KeepFacts ==
  ASSUME NEW D, NEW s \in Seq(D), NEW I \in SUBSET DOMAIN s
  PROVE  /\ Keep(s, I) \in Seq(D)
         /\ Len(Keep(s, I)) = Cardinality(I)
         /\ Cardinality(I) \in Nat
         /\ DOMAIN Keep(s, I) = 1 .. Cardinality(I)
         /\ \A k \in 1 .. Cardinality(I) : \E i \in I : Rank(i, I) = k /\ Keep(s, I)[k] = s[i]
         /\ \A i \in I : \E k \in 1 .. Cardinality(I) : Keep(s, I)[k] = s[i]
<1> DEFINE n == Cardinality(I)
           at(k) == CHOOSE i \in I : Rank(i, I) = k
<1>1. Len(s) \in Nat /\ DOMAIN s = 1 .. Len(s) /\ \A i \in DOMAIN s : s[i] \in D
  OBVIOUS
<1>2. /\ n \in Nat
      /\ \A i \in I : Rank(i, I) \in 1 .. n
      /\ \A i, j \in I : Rank(i, I) = Rank(j, I) => i = j
      /\ \A k \in 1 .. n : \E i \in I : Rank(i, I) = k
  BY <1>1, RankFacts
<1>3. \A k \in 1 .. n : at(k) \in I /\ Rank(at(k), I) = k
  BY <1>2
<1>4. Keep(s, I) = [k \in 1 .. n |-> s[at(k)]]
  BY DEF Keep
<1> HIDE DEF at, n
<1>5. \A k \in 1 .. n : Keep(s, I)[k] = s[at(k)] /\ s[at(k)] \in D
  BY <1>1, <1>3, <1>4
<1>6. Keep(s, I) \in Seq(D) /\ Len(Keep(s, I)) = n /\ DOMAIN Keep(s, I) = 1 .. n
  BY <1>2, <1>4, <1>5
<1>7. \A i \in I : at(Rank(i, I)) = i
  BY <1>2, <1>3
<1>8. \A i \in I : \E k \in 1 .. n : Keep(s, I)[k] = s[i]
  BY <1>2, <1>5, <1>7
<1>9. \A k \in 1 .. n : \E i \in I : Rank(i, I) = k /\ Keep(s, I)[k] = s[i]
  BY <1>3, <1>5
<1> QED BY <1>2, <1>6, <1>8, <1>9 DEF n

\* No more than MAX_CPUS processors are kept.
LEMMA FirstCpusFacts ==
  ASSUME NEW n \in Nat, NEW I \in SUBSET (1 .. n)
  PROVE  /\ FirstCpus(I) \in SUBSET I
         /\ Cardinality(FirstCpus(I)) <= MAX_CPUS
<1> DEFINE F == FirstCpus(I)
           T == 1 .. MAX_CPUS
           f == [i \in F |-> Rank(i, I)]
<1>0. MAX_CPUS \in Nat
  BY BootAssumption
<1>1. F \in SUBSET I
  BY DEF FirstCpus
<1>2. f \in [F -> T] /\ \A i, j \in F : f[i] = f[j] => i = j
  <2>1. \A i \in F : Rank(i, I) \in T
    <3>1. Cardinality(I) \in Nat /\ \A i \in I : Rank(i, I) \in 1 .. Cardinality(I)
      BY RankFacts
    <3>2. \A i \in F : i \in I /\ Rank(i, I) <= MAX_CPUS
      BY DEF FirstCpus
    <3> TAKE i \in F
    <3>3. Rank(i, I) \in 1 .. Cardinality(I) /\ Rank(i, I) <= MAX_CPUS
      BY <3>1, <3>2
    <3> DEFINE r == Rank(i, I)
    <3> HIDE DEF r
    <3> QED BY <1>0, <3>1, <3>3 DEF r
  <2>2. \A i, j \in F : Rank(i, I) = Rank(j, I) => i = j
    BY <1>1, RankFacts
  <2> HIDE DEF F, T
  <2> QED BY <2>1, <2>2
<1>3. IsFiniteSet(T) /\ Cardinality(T) = MAX_CPUS
  BY <1>0, FS_Interval
<1> HIDE DEF f, F, T
<1>4. f \in Injection(F, T)
  BY <1>2 DEF Injection, IsInjective
<1>5. Cardinality(F) <= Cardinality(T)
  BY <1>3, <1>4, FS_Injection
<1> QED BY <1>1, <1>3, <1>5 DEF F

--------------------------------------------------------------------------------
(* The way to the MADT: what parse_rsdp, parse_root and acpi::init find is   *)
(* what the properties call genuine.                                         *)

\* The elements of two lists one after the other.
LEMMA RangeConcat ==
  ASSUME NEW D, NEW s \in Seq(D), NEW t \in Seq(D)
  PROVE  Range(s \o t) = Range(s) \cup Range(t) /\ s \o t \in Seq(D)
<1>0. s \o t \in Seq(D)
  OBVIOUS
<1>1. ASSUME NEW i \in DOMAIN (s \o t)
      PROVE  (s \o t)[i] \in Range(s) \cup Range(t)
  <2>1. i \in 1 .. Len(s) + Len(t)
    BY <1>0
  <2>2. CASE i <= Len(s)
    BY <2>1, <2>2 DEF Range
  <2>3. CASE i > Len(s)
    <3>1. i - Len(s) \in DOMAIN t /\ (s \o t)[i] = t[i - Len(s)]
      BY <2>1, <2>3
    <3> QED BY <3>1 DEF Range
  <2> QED BY <2>1, <2>2, <2>3
<1>2. ASSUME NEW i \in DOMAIN s
      PROVE  s[i] \in Range(s \o t)
  <2>1. i \in DOMAIN (s \o t) /\ (s \o t)[i] = s[i]
    OBVIOUS
  <2> QED BY <2>1 DEF Range
<1>3. ASSUME NEW i \in DOMAIN t
      PROVE  t[i] \in Range(s \o t)
  <2>1. Len(s) + i \in DOMAIN (s \o t) /\ (s \o t)[Len(s) + i] = t[i]
    OBVIOUS
  <2> QED BY <2>1 DEF Range
<1> QED BY <1>0, <1>1, <1>2, <1>3 DEF Range

\* The search looks at every descriptor.
LEMMA CandidateFacts ==
  ASSUME firmware \in Firmwares
  PROVE  /\ Candidates(firmware) \in Seq(RsdpDescriptor)
         /\ Range(Candidates(firmware)) = Descriptors
         /\ \A d \in Descriptors :
              /\ d \in RsdpDescriptor
              /\ {d.rsdt, d.xsdt} \ {0} \subseteq DOMAIN firmware.tables
<1> DEFINE Given == get_limine_rsdp(firmware)
           Ebda == IF firmware.ebda_base THEN firmware.ebda ELSE << >>
           D == RsdpDescriptor
<1>1. Readable(firmware)
  BY FirmwareAssumption
<1>2. firmware.rom \in Seq(D) /\ Ebda \in Seq(D)
  BY <1>1 DEF Readable
<1>3. Given \in Seq(D) /\ Range(Given) = IF rsdp_given(firmware)
                                     THEN {firmware.limine.direct, firmware.limine.mapped} ELSE {}
  <2>1. CASE ~rsdp_given(firmware)
    <3>1. Given = << >>
      BY <2>1 DEF get_limine_rsdp
    <3> QED BY <2>1, <3>1 DEF Range
  <2>2. CASE rsdp_given(firmware)
    <3>1. \/ Given = << firmware.limine.direct, firmware.limine.mapped >>
          \/ Given = << firmware.limine.mapped, firmware.limine.direct >>
      BY <2>2 DEF get_limine_rsdp
    <3>2. firmware.limine.direct \in D /\ firmware.limine.mapped \in D
      BY <1>1 DEF Readable
    <3> HIDE DEF Given, D
    <3>3. \A x, y \in D : <<x, y>> \in Seq(D) /\ Range(<<x, y>>) = {x, y}
      BY DEF Range
    <3>4. Given \in Seq(D)
      BY <3>1, <3>2, <3>3
    <3>5. Range(Given) = {firmware.limine.direct, firmware.limine.mapped}
      <4>1. CASE Given = << firmware.limine.direct, firmware.limine.mapped >>
        BY <3>2, <3>3, <4>1
      <4>2. CASE Given = << firmware.limine.mapped, firmware.limine.direct >>
        BY <3>2, <3>3, <4>2
      <4> QED BY <3>1, <4>1, <4>2
    <3> QED BY <2>2, <3>4, <3>5
  <2> QED BY <2>1, <2>2
<1>4. Range(Ebda) = IF firmware.ebda_base THEN Range(firmware.ebda) ELSE {}
  BY DEF Range
<1>5. Candidates(firmware) = Given \o (Ebda \o firmware.rom)
  BY DEF Candidates, scan_bios_for_rsdp
<1> HIDE DEF Given, Ebda, D
<1> DEFINE Scanned == Ebda \o firmware.rom
<1>6. Scanned \in Seq(D) /\ Range(Scanned) = Range(Ebda) \cup Range(firmware.rom)
  BY <1>2, RangeConcat
<1>a. Candidates(firmware) = Given \o Scanned
  BY <1>5
<1> HIDE DEF Scanned
<1>b. Given \o Scanned \in Seq(D) /\ Range(Given \o Scanned) = Range(Given) \cup Range(Scanned)
  BY <1>3, <1>6, RangeConcat
<1>7. /\ Candidates(firmware) \in Seq(D)
      /\ Range(Candidates(firmware)) = Range(Given) \cup (Range(Ebda) \cup Range(firmware.rom))
  BY <1>6, <1>a, <1>b
<1>8. Range(Candidates(firmware)) = Descriptors
  BY <1>3, <1>4, <1>7 DEF Descriptors
<1>9. \A d \in Descriptors : d \in D
  BY <1>7, <1>8 DEF Range
<1>10. \A d \in Descriptors : {d.rsdt, d.xsdt} \ {0} \subseteq DOMAIN firmware.tables
  BY <1>1 DEF Readable, Descriptors
<1> QED BY <1>7, <1>8, <1>9, <1>10 DEF D

\* A descriptor parses exactly if it is genuine, and leads to its root table.
LEMMA ParsedIsGenuine ==
  ASSUME firmware \in Firmwares, NEW d \in Descriptors
  PROVE  /\ parse_rsdp(d) # NoTable <=> d \in Genuine
         /\ d \in Genuine => parse_root(firmware, parse_rsdp(d))
                               = IF SoundRoot(d) THEN RootOf(d).entries ELSE << >>
<1>1. d \in RsdpDescriptor
  BY CandidateFacts
<1> DEFINE Passes == d.signature /\ d.checksum
                       /\ (d.revision >= 2 => d.full_length /\ d.extended_checksum)
           Root == [kind |-> IF HasXsdt(d) THEN "XSDT" ELSE "RSDT",
                    addr |-> IF HasXsdt(d) THEN d.xsdt ELSE d.rsdt]
<1>2. d \in Genuine <=> Passes /\ (HasXsdt(d) \/ d.rsdt # 0)
  BY DEF Genuine
<1>3. /\ d.revision \in Nat /\ d.rsdt \in Nat /\ d.xsdt \in Nat
      /\ d.signature \in BOOLEAN /\ d.checksum \in BOOLEAN
      /\ d.full_length \in BOOLEAN /\ d.extended_checksum \in BOOLEAN
  BY <1>1 DEF RsdpDescriptor
<1> DEFINE valid == IF d.revision >= 2 THEN is_valid_extended(d) ELSE is_valid(d)
<1>4. valid <=> Passes
  BY <1>3 DEF is_valid, is_valid_extended
<1>5. parse_rsdp(d) = CASE valid /\ HasXsdt(d) -> [kind |-> "XSDT", addr |-> d.xsdt]
                        [] valid /\ ~HasXsdt(d) /\ d.rsdt # 0 -> [kind |-> "RSDT", addr |-> d.rsdt]
                        [] OTHER -> NoTable
  BY DEF parse_rsdp, HasXsdt
<1> HIDE DEF valid, Passes
<1>6. parse_rsdp(d) = IF Passes /\ (HasXsdt(d) \/ d.rsdt # 0) THEN Root ELSE NoTable
  BY <1>4, <1>5
<1>7. Root # NoTable
  BY DEF NoTable
<1>8. parse_root(firmware, Root) = IF SoundRoot(d) THEN RootOf(d).entries ELSE << >>
  BY DEF parse_root, table_is_valid, SoundRoot, RootOf
<1> HIDE DEF Root
<1> QED BY <1>2, <1>6, <1>7, <1>8

\* A sound root lists tables, and its MADTs are lists of entries.
LEMMA SoundRootFacts ==
  ASSUME firmware \in Firmwares, NEW d \in Genuine, SoundRoot(d)
  PROVE  /\ RootOf(d).entries \in Seq(DOMAIN firmware.tables)
         /\ \A t \in MadtsOf(d) : t \in Range(firmware.tables) /\ t.entries \in Seq(MadtEntry)
<1>1. Readable(firmware)
  BY FirmwareAssumption
<1>2. d \in Descriptors /\ (HasXsdt(d) \/ d.rsdt # 0)
  BY DEF Genuine
<1>3. {d.rsdt, d.xsdt} \ {0} \subseteq DOMAIN firmware.tables
  BY <1>2, CandidateFacts
<1>4. RootOf(d) \in Range(firmware.tables)
  BY <1>2, <1>3 DEF RootOf, Range, HasXsdt
<1>5. RootOf(d).entries \in Seq(DOMAIN firmware.tables)
  BY <1>1, <1>4 DEF SoundRoot, Readable
<1>6. Range(RootOf(d).entries) \subseteq DOMAIN firmware.tables
  BY <1>5 DEF Range
<1>7. \A t \in MadtsOf(d) : t \in Range(firmware.tables) /\ t.signature = "APIC"
  BY <1>6 DEF MadtsOf, Range
<1> QED BY <1>1, <1>5, <1>7 DEF Readable

\* acpi::init follows a genuine descriptor, if there is one, and takes a MADT
\* of its root table, if that is sound and has one.
LEMMA AcpiInit ==
  ASSUME firmware \in Firmwares
  PROVE  \/ Genuine = {} /\ acpi_init(firmware) = << >>
         \/ \E d \in Genuine :
              \/ ~SoundRoot(d) /\ acpi_init(firmware) = << >>
              \/ SoundRoot(d) /\ MadtsOf(d) = {} /\ acpi_init(firmware) = << >>
              \/ SoundRoot(d) /\ \E t \in MadtsOf(d) : acpi_init(firmware) = t.entries
<1> DEFINE C == Candidates(firmware)
           usable == {i \in DOMAIN C : parse_rsdp(C[i]) # NoTable}
           addrs == RootEntries(firmware)
           madts == {i \in DOMAIN addrs : IsMadt(firmware.tables[addrs[i]])}
<1>1. C \in Seq(RsdpDescriptor) /\ Range(C) = Descriptors
  BY CandidateFacts
<1>2. \A i \in DOMAIN C : C[i] \in Descriptors
  BY <1>1 DEF Range
<1>3. \A d \in Descriptors : \E i \in DOMAIN C : C[i] = d
  BY <1>1 DEF Range
<1>4. acpi_init(firmware) = IF madts = {} THEN << >> ELSE firmware.tables[addrs[Max(madts)]].entries
  BY DEF acpi_init
<1>5. addrs = IF usable = {} THEN << >> ELSE parse_root(firmware, parse_rsdp(C[Min(usable)]))
  BY DEF RootEntries
<1> HIDE DEF C, addrs
<1>6. addrs = << >> => acpi_init(firmware) = << >>
  BY <1>4
<1>7. CASE usable = {}
  <2>1. Genuine \subseteq Descriptors
    BY DEF Genuine
  <2>2. Genuine = {}
    BY <1>3, <1>7, <2>1, ParsedIsGenuine
  <2> QED BY <1>5, <1>6, <1>7, <2>2
<1>8. CASE usable # {}
  <2>1. usable \in SUBSET Nat
    BY <1>1
  <2>2. Min(usable) \in usable
    BY <1>8, <2>1, MinOfNats
  <2> DEFINE d == C[Min(usable)]
  <2>3. d \in Descriptors /\ parse_rsdp(d) # NoTable
    BY <1>2, <2>2
  <2>4. /\ d \in Genuine
        /\ addrs = IF SoundRoot(d) THEN RootOf(d).entries ELSE << >>
    BY <1>5, <1>8, <2>3, ParsedIsGenuine
  <2> HIDE DEF d
  <2>5. CASE ~SoundRoot(d)
    BY <1>6, <2>4, <2>5
  <2>6. CASE SoundRoot(d)
    <3>1. addrs = RootOf(d).entries /\ addrs \in Seq(DOMAIN firmware.tables)
      BY <2>4, <2>6, SoundRootFacts
    <3>2. MadtsOf(d) = {firmware.tables[addrs[i]] : i \in madts}
      BY <3>1 DEF MadtsOf, IsMadt, table_is_valid, Range
    <3>3. madts \in SUBSET (1 .. Len(addrs)) /\ Len(addrs) \in Nat
      BY <3>1
    <3>4. CASE madts = {}
      BY <1>4, <2>4, <2>6, <3>2, <3>4
    <3>5. CASE madts # {}
      <4>1. Max(madts) \in madts
        BY <3>3, <3>5, MaxOfIndices
      <4>2. firmware.tables[addrs[Max(madts)]] \in MadtsOf(d)
        BY <3>2, <4>1
      <4> QED BY <1>4, <2>4, <2>6, <3>5, <4>2
    <3> QED BY <3>4, <3>5
  <2> QED BY <2>5, <2>6
<1> QED BY <1>7, <1>8

--------------------------------------------------------------------------------
(* The list of processors to start. *)

Listed(fw) == Starts(parse(acpi_init(fw)))

\* The first MAX_CPUS usable entries in front of an impossible length.
LEMMA ParseFacts ==
  ASSUME NEW m \in Seq(MadtEntry)
  PROVE  /\ parse(m) \in Seq(MadtEntry)
         /\ Len(parse(m)) <= MAX_CPUS
         /\ \A k \in DOMAIN parse(m) : \E i \in DOMAIN m : parse(m)[k] = m[i] /\ IsCpu(m[i])
         /\ \A i \in DOMAIN m :
              /\ IsCpu(m[i]) /\ \A j \in 1 .. i : m[j].length # "invalid"
              /\ Cardinality({j \in 1 .. i : IsCpu(m[j])}) <= MAX_CPUS
              => \E k \in DOMAIN parse(m) : parse(m)[k] = m[i]
         /\ (\A i, j \in DOMAIN m : IsCpu(m[i]) /\ IsCpu(m[j]) /\ m[i].apic_id = m[j].apic_id => i = j)
              => \A j, k \in DOMAIN parse(m) : parse(m)[j].apic_id = parse(m)[k].apic_id => j = k
<1> DEFINE walked == {i \in DOMAIN m : \A j \in 1 .. i : m[j].length # "invalid"}
           cpus == {i \in walked : IsCpu(m[i])}
           first == FirstCpus(cpus)
<1>0. Len(m) \in Nat /\ DOMAIN m = 1 .. Len(m) /\ MAX_CPUS \in Nat
  BY BootAssumption
<1>1. cpus \in SUBSET (1 .. Len(m)) /\ \A i \in cpus : IsCpu(m[i])
  BY <1>0
<1>2. parse(m) = Keep(m, first)
  BY DEF parse
<1>3. first \in SUBSET cpus /\ Cardinality(first) <= MAX_CPUS
  BY <1>0, <1>1, FirstCpusFacts
<1>4. ASSUME NEW i \in DOMAIN m, IsCpu(m[i]), \A j \in 1 .. i : m[j].length # "invalid",
             Cardinality({j \in 1 .. i : IsCpu(m[j])}) <= MAX_CPUS
      PROVE  i \in first
  <2> DEFINE S == {j \in cpus : j <= i}
             T == {j \in 1 .. i : IsCpu(m[j])}
  <2>1. i \in cpus /\ i \in Nat
    BY <1>0, <1>4
  <2>2. S \in SUBSET T /\ T \in SUBSET (1 .. i)
    BY <1>0, <1>1
  <2>3. IsFiniteSet(T)
    <3>1. IsFiniteSet(1 .. i)
      BY <2>1, FS_Interval
    <3> QED BY <2>2, <3>1, FS_Subset
  <2>4. IsFiniteSet(S) /\ Cardinality(S) <= Cardinality(T)
    BY <2>2, <2>3, FS_Subset
  <2>5. Cardinality(S) \in Nat /\ Cardinality(T) \in Nat
    BY <2>3, <2>4, FS_CardinalityType
  <2>6. Cardinality(S) <= MAX_CPUS
    BY <1>0, <1>4, <2>4, <2>5
  <2> HIDE DEF cpus
  <2> QED BY <2>1, <2>6 DEF FirstCpus, Rank
<1> HIDE DEF cpus, first
<1>5. first \in SUBSET DOMAIN m
  BY <1>0, <1>1, <1>3
<1> DEFINE p == Keep(m, first)
           n == Cardinality(first)
<1>6. /\ p \in Seq(MadtEntry) /\ Len(p) = n /\ n \in Nat /\ DOMAIN p = 1 .. n
      /\ \A k \in 1 .. n : \E i \in first : Rank(i, first) = k /\ p[k] = m[i]
      /\ \A i \in first : \E k \in 1 .. n : p[k] = m[i]
  BY <1>5, KeepFacts
<1>7. n <= MAX_CPUS
  BY <1>3
<1> HIDE DEF p, n
<1>8. \A k \in 1 .. n : \E i \in DOMAIN m : p[k] = m[i] /\ IsCpu(m[i])
  BY <1>1, <1>3, <1>5, <1>6
<1>9. ASSUME \A i, j \in DOMAIN m : IsCpu(m[i]) /\ IsCpu(m[j]) /\ m[i].apic_id = m[j].apic_id => i = j,
             NEW j \in 1 .. n, NEW k \in 1 .. n, p[j].apic_id = p[k].apic_id
      PROVE  j = k
  <2>1. PICK a \in first : Rank(a, first) = j /\ p[j] = m[a]
    BY <1>6
  <2>2. PICK b \in first : Rank(b, first) = k /\ p[k] = m[b]
    BY <1>6
  <2>3. IsCpu(m[a]) /\ IsCpu(m[b]) /\ a \in DOMAIN m /\ b \in DOMAIN m
    BY <1>1, <1>3, <1>5
  <2>4. a = b
    BY <1>9, <2>1, <2>2, <2>3
  <2> QED BY <2>1, <2>2, <2>4
<1>10. parse(m) = p
  BY <1>2 DEF p
<1>11. \A i \in DOMAIN m :
         /\ IsCpu(m[i]) /\ \A j \in 1 .. i : m[j].length # "invalid"
         /\ Cardinality({j \in 1 .. i : IsCpu(m[j])}) <= MAX_CPUS
         => \E k \in DOMAIN p : p[k] = m[i]
  BY <1>4, <1>6
<1>12. \A k \in DOMAIN p : \E i \in DOMAIN m : p[k] = m[i] /\ IsCpu(m[i])
  BY <1>6, <1>8
<1>13. (\A i, j \in DOMAIN m : IsCpu(m[i]) /\ IsCpu(m[j]) /\ m[i].apic_id = m[j].apic_id => i = j)
         => \A j, k \in DOMAIN p : p[j].apic_id = p[k].apic_id => j = k
  BY <1>6, <1>9
<1>14. p \in Seq(MadtEntry) /\ Len(p) <= MAX_CPUS
  BY <1>6, <1>7
<1> QED BY <1>10, <1>11, <1>12, <1>13, <1>14

\* All of those that are enabled and are not the BSP: that many always fit.
LEMMA StartsFacts ==
  ASSUME NEW c \in Seq(MadtEntry), Len(c) <= MAX_CPUS
  PROVE  /\ Starts(c) \in Seq(MadtEntry)
         /\ Len(Starts(c)) <= MAX_CPUS
         /\ \A k \in DOMAIN Starts(c) : \E i \in DOMAIN c : Starts(c)[k] = c[i] /\ Startable(c[i])
         /\ \A i \in DOMAIN c : Startable(c[i]) => \E k \in DOMAIN Starts(c) : Starts(c)[k] = c[i]
         /\ (\A j, k \in DOMAIN c : c[j].apic_id = c[k].apic_id => j = k)
              => \A j, k \in DOMAIN Starts(c) : Starts(c)[j].apic_id = Starts(c)[k].apic_id => j = k
<1> DEFINE aps == {i \in DOMAIN c : Startable(c[i])}
           first == FirstCpus(aps)
           p == Keep(c, first)
           n == Cardinality(first)
<1>0. Len(c) \in Nat /\ DOMAIN c = 1 .. Len(c) /\ MAX_CPUS \in Nat
  BY BootAssumption
<1>1. aps \in SUBSET (1 .. Len(c)) /\ \A i \in aps : Startable(c[i])
  BY <1>0
<1>2. Starts(c) = p
  BY DEF Starts
<1>3. first \in SUBSET aps /\ n <= MAX_CPUS
  BY <1>0, <1>1, FirstCpusFacts
<1>4. \A i \in DOMAIN c : Startable(c[i]) => i \in first
  <2>1. Cardinality(aps) \in Nat /\ \A i \in aps : Rank(i, aps) \in 1 .. Cardinality(aps)
    BY <1>0, <1>1, RankFacts
  <2>2. Cardinality(aps) <= Len(c)
    <3>0. \A x \in Nat : IsFiniteSet(1 .. x) /\ Cardinality(1 .. x) = x
      BY FS_Interval
    <3>1. IsFiniteSet(1 .. Len(c)) /\ Cardinality(1 .. Len(c)) = Len(c)
      BY <1>0, <3>0
    <3> QED BY <1>1, <3>1, FS_Subset
  <2>3. \A i \in aps : Rank(i, aps) <= MAX_CPUS
    <3> TAKE i \in aps
    <3> DEFINE r == Rank(i, aps)
               a == Cardinality(aps)
    <3>1. r \in 1 .. a /\ a \in Nat /\ a <= Len(c)
      BY <2>1, <2>2
    <3> HIDE DEF r, a
    <3>2. r <= MAX_CPUS
      BY <1>0, <3>1
    <3> QED BY <3>2 DEF r
  <2> QED BY <2>3 DEF FirstCpus
<1> HIDE DEF aps, first
<1>5. first \in SUBSET DOMAIN c
  BY <1>0, <1>1, <1>3
<1>6. /\ p \in Seq(MadtEntry) /\ Len(p) = n /\ n \in Nat /\ DOMAIN p = 1 .. n
      /\ \A k \in 1 .. n : \E i \in first : Rank(i, first) = k /\ p[k] = c[i]
      /\ \A i \in first : \E k \in 1 .. n : p[k] = c[i]
  BY <1>5, KeepFacts
<1> HIDE DEF p, n
<1>8. \A k \in 1 .. n : \E i \in DOMAIN c : p[k] = c[i] /\ Startable(c[i])
  BY <1>1, <1>3, <1>5, <1>6
<1>9. ASSUME \A j, k \in DOMAIN c : c[j].apic_id = c[k].apic_id => j = k,
             NEW j \in 1 .. n, NEW k \in 1 .. n, p[j].apic_id = p[k].apic_id
      PROVE  j = k
  <2>1. PICK a \in first : Rank(a, first) = j /\ p[j] = c[a]
    BY <1>6
  <2>2. PICK b \in first : Rank(b, first) = k /\ p[k] = c[b]
    BY <1>6
  <2>3. a = b
    BY <1>5, <1>9, <2>1, <2>2
  <2> QED BY <2>1, <2>2, <2>3
<1>10. \A i \in DOMAIN c : Startable(c[i]) => \E k \in DOMAIN p : p[k] = c[i]
  BY <1>4, <1>6
<1>11. \A k \in DOMAIN p : \E i \in DOMAIN c : p[k] = c[i] /\ Startable(c[i])
  BY <1>6, <1>8
<1>12. (\A j, k \in DOMAIN c : c[j].apic_id = c[k].apic_id => j = k)
         => \A j, k \in DOMAIN p : p[j].apic_id = p[k].apic_id => j = k
  BY <1>6, <1>9
<1>13. p \in Seq(MadtEntry) /\ Len(p) <= MAX_CPUS
  BY <1>3, <1>6
<1> QED BY <1>2, <1>10, <1>11, <1>12, <1>13

\* Whatever firmware left, the list is one that start_aps has room for.
LEMMA ListedFacts ==
  ASSUME firmware \in Firmwares
  PROVE  /\ acpi_init(firmware) \in Seq(MadtEntry)
         /\ Listed(firmware) \in Seq(MadtEntry)
         /\ Len(Listed(firmware)) <= MAX_CPUS
         /\ \A e \in Range(Listed(firmware)) :
              Startable(e) /\ \E i \in DOMAIN acpi_init(firmware) :
                                e = acpi_init(firmware)[i] /\ IsCpu(e)
         /\ ListedOnce => \A j, k \in DOMAIN Listed(firmware) :
              Listed(firmware)[j].apic_id = Listed(firmware)[k].apic_id => j = k
<1> DEFINE m == acpi_init(firmware)
           c == parse(m)
           l == Starts(c)
<1>1. m \in Seq(MadtEntry)
  <2>1. CASE acpi_init(firmware) = << >>
    BY <2>1
  <2>2. CASE \E d \in Genuine :
               SoundRoot(d) /\ \E t \in MadtsOf(d) : acpi_init(firmware) = t.entries
    BY <2>2, SoundRootFacts
  <2> QED BY <2>1, <2>2, AcpiInit
<1>2. Listed(firmware) = l
  BY DEF Listed
<1>3. ListedOnce => \A i, j \in DOMAIN m :
        IsCpu(m[i]) /\ IsCpu(m[j]) /\ m[i].apic_id = m[j].apic_id => i = j
  BY DEF ListedOnce
<1> HIDE DEF m
<1>4. /\ c \in Seq(MadtEntry) /\ Len(c) <= MAX_CPUS
      /\ \A k \in DOMAIN c : \E i \in DOMAIN m : c[k] = m[i] /\ IsCpu(m[i])
      /\ ListedOnce => \A j, k \in DOMAIN c : c[j].apic_id = c[k].apic_id => j = k
  BY <1>1, <1>3, ParseFacts
<1> HIDE DEF c
<1>5. /\ l \in Seq(MadtEntry) /\ Len(l) <= MAX_CPUS
      /\ \A k \in DOMAIN l : \E i \in DOMAIN c : l[k] = c[i] /\ Startable(c[i])
      /\ ListedOnce => \A j, k \in DOMAIN l : l[j].apic_id = l[k].apic_id => j = k
  BY <1>4, StartsFacts
<1> HIDE DEF l
<1>6. \A e \in Range(l) : Startable(e) /\ \E i \in DOMAIN m : e = m[i] /\ IsCpu(e)
  BY <1>4, <1>5 DEF Range
<1> QED BY <1>1, <1>2, <1>5, <1>6 DEF m

\* What StartedAreListed asks of a processor holds of every one in the list.
LEMMA ListedByFirmware ==
  ASSUME firmware \in Firmwares, NEW e \in Range(Listed(firmware))
  PROVE  \E d \in Genuine : SoundRoot(d) /\ \E t \in MadtsOf(d) :
           e \in Range(t.entries) /\ IsCpu(e) /\ e.enabled
<1>1. PICK i \in DOMAIN acpi_init(firmware) : e = acpi_init(firmware)[i] /\ IsCpu(e)
  BY ListedFacts
<1>2. e.enabled
  BY ListedFacts DEF Startable
<1>3. acpi_init(firmware) # << >>
  BY <1>1
<1>4. PICK d \in Genuine : SoundRoot(d) /\ \E t \in MadtsOf(d) : acpi_init(firmware) = t.entries
  BY <1>3, AcpiInit
<1> QED BY <1>1, <1>2, <1>4 DEF Range

\* What NoCpuForgotten says of an entry puts it into the list.
LEMMA ForgottenIsListed ==
  ASSUME firmware \in Firmwares, Genuine # {},
         NEW t, \A g \in Genuine : SoundRoot(g) /\ MadtsOf(g) = {t},
         NEW i \in DOMAIN t.entries, IsCpu(t.entries[i]), Startable(t.entries[i]),
         \A j \in 1 .. i : t.entries[j].length # "invalid",
         Cardinality({j \in 1 .. i : IsCpu(t.entries[j])}) <= MAX_CPUS
  PROVE  t.entries[i] \in Range(Listed(firmware))
<1> DEFINE m == acpi_init(firmware)
           c == parse(m)
           l == Starts(c)
<1>1. m = t.entries
  BY AcpiInit
<1>2. m \in Seq(MadtEntry)
  BY ListedFacts
<1> HIDE DEF m
<1>3. c \in Seq(MadtEntry) /\ Len(c) <= MAX_CPUS
  BY <1>2, ParseFacts
<1>a. /\ i \in DOMAIN m /\ IsCpu(m[i]) /\ Startable(m[i])
      /\ \A j \in 1 .. i : m[j].length # "invalid"
      /\ Cardinality({j \in 1 .. i : IsCpu(m[j])}) <= MAX_CPUS
  BY <1>1
<1>4. \E k \in DOMAIN c : c[k] = m[i]
  BY <1>2, <1>a, ParseFacts
<1> HIDE DEF c
<1>5. \E k \in DOMAIN l : l[k] = m[i]
  BY <1>3, <1>4, <1>a, StartsFacts
<1> QED BY <1>1, <1>5 DEF Listed, l, c, m, Range

--------------------------------------------------------------------------------
(* The inductive invariant *)

InFlight == pc \in {"startup1", "wait1", "startup2", "wait2", "stuck"}
Trying == InFlight \/ pc \in {"params", "init"}
Before == pc \in {"init_pmm", "protect", "hal", "fault"}
After == pc \in {"reclaim", "unmap", "up"}
Cur == Head(todo).apic_id

ApState ==
  [pc : {"off", "wait", "real", "long", "index", "entry", "ready", "online", "dead"},
   stack : Index \cup {None}, index : Index \cup {None}]

\* Types, and what start_aps still has to do: there is an index for every
\* processor left.
TypeOK ==
  /\ pc \in {"init_pmm", "protect", "hal", "next", "params", "init", "startup1", "wait1",
             "startup2", "wait2", "reclaim", "unmap", "up", "fault", "panic", "stuck"}
  /\ firmware \in Firmwares
  /\ todo \in Seq(MadtEntry)
  /\ \A e \in Range(todo) : Startable(e)
  /\ cpu_index \in Nat /\ cpu_index + Len(todo) <= MAX_CPUS
  /\ params \in [stack : Index \cup {None}, index : Index \cup {None}]
  /\ AP_ONLINE \in [Index -> BOOLEAN]
  /\ started \in Nat /\ CPUS_ONLINE \in Nat
  /\ identity \in BOOLEAN
  /\ ap \in [Ap -> ApState]
  /\ abandoned \subseteq Ap
  /\ Before => todo = << >> /\ cpu_index = 0 /\ abandoned = {} /\ started = 0
               /\ ap = [a \in Ap |-> Off]
  /\ Trying => todo # << >>
  /\ After => todo = << >>

\* The reservations that matter are in the bitmap from protect_boot_memory on.
MemoryKept ==
  /\ memmap \in MemoryMaps \cup {NoMap}
  /\ given # {} => pc = "up"
  /\ {"low", "kernel", "ramdisk"} \subseteq bitmap \ given
  /\ \/ "heap" \in bitmap \ given
     \/ pc = "protect"
     \/ pc \in {"unmap", "up"} /\ memmap["heap"] \in {"loader", "acpi"}

\* Every processor of the list is still to do, given up or has had its INIT,
\* and no other has had one.
FromTheList ==
  /\ Range(todo) \subseteq Range(Listed(firmware))
  /\ \A a \in Ap : ap[a].pc # "off" => \E e \in Range(Listed(firmware)) : e.apic_id = a
  /\ ~Before => \A e \in Range(Listed(firmware)) :
       e \in Range(todo) \/ e.apic_id \in abandoned \/ ap[e.apic_id].pc # "off"
  /\ InFlight => ap[Cur].pc # "off"

\* As long as none is given up, one AP at a time is on its way, the one that
\* start_one_ap waits for: the parameter block is this AP's until it is online.
OneAtATime ==
  abandoned = {} =>
    /\ ~identity => pc = "up"
    /\ Trying => params.stack = cpu_index
    /\ pc = "init" \/ InFlight => params.index = cpu_index
    /\ pc = "init" => ~AP_ONLINE[cpu_index]
    /\ InFlight /\ AP_ONLINE[cpu_index] => ap[Cur].pc = "online"
    /\ \A a \in Ap :
         /\ ap[a].pc \in {"off", "online"} \/ (InFlight /\ a = Cur /\ ap[a].pc # "dead")
         /\ ap[a].pc = "index" => ap[a].stack = cpu_index
         /\ Started(a) => /\ ap[a].stack = ap[a].index
                          /\ ap[a].index \in 0 .. cpu_index
                          /\ ap[a].index = cpu_index => InFlight /\ a = Cur
    /\ \A a, b \in Ap : Started(a) /\ Started(b) /\ a # b => ap[a].index # ap[b].index

BootInv == TypeOK /\ MemoryKept /\ FromTheList /\ OneAtATime

--------------------------------------------------------------------------------
(* What the steps do, as far as the invariant needs it *)

\* A step of an AP on its way: it advances, may die without the identity map,
\* and reads the parameter block; only the last step sets a flag, its own.
ApMoves(a) ==
  /\ ap' \in [Ap -> ApState] /\ AP_ONLINE' \in [Index -> BOOLEAN]
  /\ \A b \in Ap \ {a} : ap'[b] = ap[b]
  /\ ap[a].pc \in {"real", "long", "index", "entry", "ready"}
  /\ ap'[a].pc \in {"long", "index", "entry", "ready", "online", "dead"}
  /\ ap'[a].pc = "dead" => ~identity
  /\ ap'[a].pc = "index" => ap'[a].stack = params.stack
  /\ ap'[a].pc = "entry" =>
       ap[a].pc = "index" /\ ap'[a].stack = ap[a].stack /\ ap'[a].index = params.index
  /\ ap'[a].pc \in {"ready", "online"} =>
       Started(a) /\ ap'[a].stack = ap[a].stack /\ ap'[a].index = ap[a].index
  /\ \A i \in Index : AP_ONLINE'[i] # AP_ONLINE[i] => ap'[a].pc = "online" /\ i = ap[a].index

\* The processor that start_one_ap is at, and the rest of the list.
LEMMA HeadFacts ==
  ASSUME TypeOK, todo # << >>
  PROVE  /\ Cur \in Ap /\ Head(todo) = todo[1] /\ Head(todo) \in Range(todo)
         /\ Tail(todo) \in Seq(MadtEntry) /\ Len(Tail(todo)) = Len(todo) - 1
         /\ Range(todo) = Range(Tail(todo)) \cup {Head(todo)}
         /\ cpu_index \in Index /\ Len(todo) \in Nat \ {0}
<1>1. Len(todo) \in Nat \ {0} /\ DOMAIN todo = 1 .. Len(todo) /\ Head(todo) = todo[1]
  BY DEF TypeOK
<1>2. Head(todo) \in Range(todo) /\ Head(todo) \in MadtEntry
  BY <1>1 DEF TypeOK, Range
<1>3. Cur \in Ap
  BY <1>2 DEF TypeOK, Startable, MadtEntry, Cur, Ap
<1>4. /\ Tail(todo) \in Seq(MadtEntry) /\ Len(Tail(todo)) = Len(todo) - 1
      /\ \A i \in 1 .. Len(todo) - 1 : Tail(todo)[i] = todo[i + 1]
      /\ DOMAIN Tail(todo) = 1 .. Len(todo) - 1
  BY <1>1 DEF TypeOK
<1>5. Range(Tail(todo)) \subseteq Range(todo)
  BY <1>1, <1>4 DEF Range
<1>6. ASSUME NEW i \in DOMAIN todo
      PROVE  todo[i] \in Range(Tail(todo)) \cup {Head(todo)}
  <2>1. CASE i = 1
    BY <1>1, <2>1
  <2>2. CASE i # 1
    <3>1. i - 1 \in DOMAIN Tail(todo) /\ Tail(todo)[i - 1] = todo[i]
      BY <1>1, <1>4, <2>2
    <3> QED BY <3>1 DEF Range
  <2> QED BY <2>1, <2>2
<1>7. Range(todo) = Range(Tail(todo)) \cup {Head(todo)}
  BY <1>2, <1>5, <1>6 DEF Range
<1>8. cpu_index \in Index
  BY <1>1, BootAssumption DEF TypeOK, Index
<1> QED BY <1>1, <1>2, <1>3, <1>4, <1>7, <1>8

\* The IPIs go to the processor that start_one_ap is at.
LEMMA IpiFacts ==
  ASSUME TypeOK, todo # << >>
  PROVE  /\ send_init => ap' = [ap EXCEPT ![Cur] = [Off EXCEPT !.pc = "wait"]]
         /\ send_startup => \/ ap' = ap
                            \/ ap[Cur].pc = "wait" /\ ap' = [ap EXCEPT ![Cur].pc = "real"]
<1>1. Cur \in ApicId
  BY HeadFacts DEF Ap
<1>2. icr_dest(Cur) = Cur
  BY <1>1, BootAssumption DEF icr_dest
<1>3. icr_dest(Head(todo).apic_id) = Cur
  BY <1>2 DEF Cur
<1> QED BY <1>3 DEF send_init, send_startup

\* Every step of the trampoline and of init_ap is one that ApMoves describes.
LEMMA ApStepMoves ==
  ASSUME TypeOK, NEW a \in Ap, ApStep(a)
  PROVE  ApMoves(a) /\ ApUnchanged
<1>0. /\ ap \in [Ap -> ApState] /\ ap[a] \in ApState /\ AP_ONLINE \in [Index -> BOOLEAN]
      /\ params \in [stack : Index \cup {None}, index : Index \cup {None}]
      /\ params.stack \in Index \cup {None} /\ params.index \in Index \cup {None}
  BY DEF TypeOK
<1>1. CASE EnablePaging(a)
  BY <1>0, <1>1 DEF EnablePaging, ApMoves, ApState, Started
<1>2. CASE LoadStack(a)
  BY <1>0, <1>2 DEF LoadStack, ApMoves, ApState, Started
<1>3. CASE LoadIndex(a)
  BY <1>0, <1>3 DEF LoadIndex, ApMoves, ApState, Started
<1>4. CASE init_ap(a)
  BY <1>0, <1>4 DEF init_ap, ApMoves, ApState, Started
<1>5. CASE rust_ap_entry(a)
  BY <1>0, <1>5 DEF rust_ap_entry, ApMoves, ApState, Started
<1> QED BY <1>1, <1>2, <1>3, <1>4, <1>5 DEF ApStep

--------------------------------------------------------------------------------
(* Every step preserves the types. *)

\* The machine as the bootloader hands it over.
LEMMA InitBootInv ==
  ASSUME Init
  PROVE  BootInv
<1>1. MAX_CPUS \in Nat \ {0} /\ 0 \in Index
  BY BootAssumption DEF Index
<1>2. Off \in ApState /\ \A a \in Ap : ap[a] = Off
  BY DEF Init, Off, ApState
<1>3. todo \in Seq(MadtEntry) /\ Len(todo) = 0 /\ Range(todo) = {}
  BY DEF Init, Range
<1>4. TypeOK
  BY <1>1, <1>2, <1>3 DEF Init, TypeOK, Before, Trying, After, InFlight
<1>5. MemoryKept
  BY DEF Init, MemoryKept, Region
<1>6. FromTheList
  BY <1>2, <1>3 DEF Init, FromTheList, Before, InFlight, Off
<1>7. OneAtATime
  BY <1>2 DEF Init, OneAtATime, Trying, InFlight, Off, Started
<1> QED BY <1>4, <1>5, <1>6, <1>7 DEF BootInv

\* Every step keeps the types, and what each place of the boot code implies.
LEMMA TypeStep ==
  ASSUME TypeOK, [Next]_vars
  PROVE  TypeOK'
<1> USE DEF Before, Trying, After, InFlight
<1>1. CASE init_pmm_from_limine
  BY <1>1 DEF init_pmm_from_limine, TypeOK
<1>2. CASE protect_boot_memory
  BY <1>2 DEF protect_boot_memory, TypeOK
<1>3. CASE hal_init
  <2>0. CASE pc' = "fault"
    BY <1>3, <2>0 DEF hal_init, TypeOK, memory
  <2>1. SUFFICES ASSUME todo' = Listed(firmware), pc' = "next", firmware' = firmware, pc = "hal"
                 PROVE  TypeOK'
    BY <1>3, <2>0 DEF hal_init, Listed
  <2>2. todo' \in Seq(MadtEntry) /\ Len(todo') <= MAX_CPUS /\ \A e \in Range(todo') : Startable(e)
    BY <2>1, ListedFacts DEF TypeOK
  <2>3. cpu_index' = 0 /\ cpu_index' + Len(todo') <= MAX_CPUS
    BY <1>3, <2>1, <2>2 DEF hal_init, TypeOK
  <2> QED BY <1>3, <2>1, <2>2, <2>3 DEF hal_init, TypeOK
<1>4. CASE reclaim_boot_memory
  BY <1>4 DEF reclaim_boot_memory, TypeOK
<1>5. CASE unmap_low_half_identity_map
  BY <1>5 DEF unmap_low_half_identity_map, TypeOK, memory
<1>6. CASE vmm_alloc_frame
  BY <1>6 DEF vmm_alloc_frame, TypeOK, bsp
<1>7. CASE UNCHANGED vars
  BY <1>7 DEF vars, TypeOK, bsp, memory
<1>8. CASE NextCpu
  <2>1. CASE todo = << >>
    BY <1>8, <2>1 DEF NextCpu, TypeOK, memory
  <2>2. CASE todo # << >>
    <3>1. cpu_index \in Index
      BY <2>2, HeadFacts
    <3> QED BY <1>8, <2>2, <3>1 DEF NextCpu, TypeOK, memory
  <2> QED BY <2>1, <2>2
<1>9. CASE WriteIndex
  <2>1. cpu_index \in Index /\ todo # << >>
    BY <1>9, HeadFacts DEF WriteIndex, TypeOK
  <2> QED BY <1>9, <2>1 DEF WriteIndex, TypeOK, memory
<1>10. CASE send_init
  <2>1. Cur \in Ap /\ todo # << >>
    BY <1>10, HeadFacts DEF send_init, TypeOK
  <2>2. [Off EXCEPT !.pc = "wait"] \in ApState
    BY DEF Off, ApState
  <2>3. ap' \in [Ap -> ApState]
    BY <1>10, <2>1, <2>2, IpiFacts DEF TypeOK
  <2> QED BY <1>10, <2>1, <2>3 DEF send_init, TypeOK, memory
<1>11. CASE send_startup
  <2>1. Cur \in Ap /\ todo # << >>
    BY <1>11, HeadFacts DEF send_startup, TypeOK
  <2> DEFINE r == [ap[Cur] EXCEPT !.pc = "real"]
  <2>2. ap' = ap \/ ap' = [ap EXCEPT ![Cur] = r]
    BY <1>11, <2>1, IpiFacts
  <2>a. r \in ApState
    BY <2>1 DEF TypeOK, ApState
  <2> HIDE DEF r
  <2>3. ap' \in [Ap -> ApState]
    BY <2>1, <2>2, <2>a DEF TypeOK
  <2> QED BY <1>11, <2>1, <2>3 DEF send_startup, TypeOK, memory
<1>15. CASE wait_icr_idle
  BY <1>15 DEF wait_icr_idle, TypeOK, memory
<1>12. CASE Answered
  <2>1. /\ todo # << >> /\ Len(todo) \in Nat \ {0} /\ Tail(todo) \in Seq(MadtEntry)
        /\ Len(Tail(todo)) = Len(todo) - 1 /\ Range(Tail(todo)) \subseteq Range(todo)
    BY <1>12, HeadFacts DEF Answered, TypeOK
  <2> QED BY <1>12, <2>1 DEF Answered, TypeOK, memory
<1>13. CASE TimedOut
  <2>1. /\ todo # << >> /\ Len(todo) \in Nat \ {0} /\ Tail(todo) \in Seq(MadtEntry)
        /\ Len(Tail(todo)) = Len(todo) - 1 /\ Range(Tail(todo)) \subseteq Range(todo)
        /\ Cur \in Ap
    BY <1>13, HeadFacts DEF TimedOut, TypeOK
  <2>2. CASE pc = "wait1"
    BY <1>13, <2>1, <2>2 DEF TimedOut, TypeOK, memory
  <2>3. CASE pc # "wait1"
    <3>1. /\ pc' = "next" /\ todo' = Tail(todo) /\ cpu_index' = cpu_index + 1
          /\ abandoned' = abandoned \cup {Cur}
          /\ UNCHANGED <<firmware, params, AP_ONLINE, started, CPUS_ONLINE, identity, ap>>
      BY <1>13, <2>3 DEF TimedOut, Cur
    <3>2. todo' \in Seq(MadtEntry) /\ \A e \in Range(todo') : Startable(e)
      BY <2>1, <3>1 DEF TypeOK
    <3>3. cpu_index' \in Nat /\ cpu_index' + Len(todo') <= MAX_CPUS
      BY <2>1, <3>1, BootAssumption DEF TypeOK
    <3> QED BY <2>1, <3>1, <3>2, <3>3 DEF TypeOK
  <2> QED BY <2>2, <2>3
<1>14. ASSUME NEW a \in Ap, ApStep(a)
       PROVE  TypeOK'
  <2>1. ApMoves(a) /\ ApUnchanged
    BY <1>14, ApStepMoves
  <2>2. ~Before
    BY <2>1 DEF ApMoves, TypeOK, Off
  <2> QED BY <2>1, <2>2 DEF ApMoves, ApUnchanged, TypeOK, bsp, memory
<1> QED
  BY <1>1, <1>2, <1>3, <1>4, <1>5, <1>6, <1>7, <1>8, <1>9, <1>10, <1>11, <1>12, <1>13, <1>14,
     <1>15
  DEF Next, Boot, StartAps, Up

--------------------------------------------------------------------------------
(* Every step keeps the reservations. *)

\* No step lets out memory that protect_boot_memory has reserved.
LEMMA MemoryStep ==
  ASSUME TypeOK, MemoryKept, [Next]_vars
  PROVE  MemoryKept'
<1>0. \A m \in MemoryMaps : m["kernel"] = "executable" /\ m["ramdisk"] = "executable"
  BY DEF MemoryMaps, Region, Fixed
<1>1. CASE init_pmm_from_limine
  BY <1>0, <1>1 DEF init_pmm_from_limine, MemoryKept, OfType
<1>2. CASE protect_boot_memory
  BY <1>2 DEF protect_boot_memory, MemoryKept
<1>3. CASE reclaim_boot_memory
  BY <1>0, <1>3 DEF reclaim_boot_memory, MemoryKept, OfType
<1>4. CASE vmm_alloc_frame
  BY <1>4 DEF vmm_alloc_frame, MemoryKept, bsp
<1>5. CASE unmap_low_half_identity_map
  BY <1>5 DEF unmap_low_half_identity_map, MemoryKept, memory
<1>6. CASE UNCHANGED vars
  BY <1>6 DEF vars, MemoryKept, bsp, memory
<1>7. CASE hal_init
  BY <1>7 DEF hal_init, MemoryKept, memory
<1>8. CASE StartAps
  <2>1. UNCHANGED memory /\ pc \notin {"protect", "unmap", "up"}
    BY <1>8 DEF StartAps, NextCpu, WriteIndex, send_init, send_startup, wait_icr_idle, Answered,
         TimedOut
  <2> QED BY <2>1 DEF MemoryKept, memory
<1>9. ASSUME NEW a \in Ap, ApStep(a)
      PROVE  MemoryKept'
  <2>1. ApUnchanged
    BY <1>9, ApStepMoves
  <2> QED BY <2>1 DEF ApUnchanged, MemoryKept, bsp, memory
<1> QED
  BY <1>1, <1>2, <1>3, <1>4, <1>5, <1>6, <1>7, <1>8, <1>9 DEF Next, Boot, Up

--------------------------------------------------------------------------------
(* Every step stays within the list, and loses none of it. *)

\* No step loses a processor of the list or starts another.
LEMMA ListStep ==
  ASSUME TypeOK, FromTheList, [Next]_vars
  PROVE  FromTheList'
<1> DEFINE L == Range(Listed(firmware))
<1> USE DEF Before, InFlight
<1>0. /\ ap \in [Ap -> ApState] /\ firmware \in Firmwares
      /\ \A e \in L : e.apic_id \in Ap
  <2>1. \A e \in L : e \in MadtEntry /\ Startable(e)
    BY ListedFacts DEF TypeOK, Range
  <2> QED BY <2>1 DEF TypeOK, MadtEntry, Startable, Ap
<1>1. CASE pc \in {"init_pmm", "protect"} /\ pc' \in {"protect", "hal"}
           /\ UNCHANGED <<firmware, todo, ap, abandoned>>
  BY <1>1 DEF FromTheList
<1>2. CASE hal_init
  <2>0. CASE pc' = "fault" /\ UNCHANGED todo
    BY <1>2, <2>0 DEF hal_init, FromTheList
  <2>1. SUFFICES ASSUME todo' = Listed(firmware), pc' = "next", UNCHANGED <<firmware, ap, abandoned>>
                 PROVE  FromTheList'
    BY <1>2, <2>0 DEF hal_init, Listed
  <2> QED BY <2>1 DEF FromTheList
<1>3. CASE (pc \in {"next", "params"} \/ After) /\ (pc' \in {"params", "init", "panic"} \/ After')
           /\ UNCHANGED <<firmware, todo, ap, abandoned>>
  BY <1>3 DEF FromTheList, After
<1>4. CASE send_init
  <2>1. Cur \in Ap /\ Head(todo) \in Range(todo)
    BY <1>4, HeadFacts DEF send_init, TypeOK, Trying
  <2>2. /\ ap' = [ap EXCEPT ![Cur] = [Off EXCEPT !.pc = "wait"]] /\ pc = "init" /\ pc' = "startup1"
        /\ UNCHANGED <<firmware, todo, abandoned>>
    <3>1. todo # << >>
      BY <1>4 DEF send_init, TypeOK, Trying
    <3> QED BY <1>4, <3>1, IpiFacts DEF send_init
  <2>3. ap'[Cur].pc = "wait" /\ \A a \in Ap \ {Cur} : ap'[a] = ap[a]
    BY <1>0, <2>1, <2>2 DEF Off
  <2>4. Head(todo) \in L /\ Head(todo).apic_id = Cur /\ Cur' = Cur
    BY <2>1, <2>2 DEF FromTheList, Cur
  <2> QED BY <1>0, <2>1, <2>2, <2>3, <2>4 DEF FromTheList
<1>5. CASE send_startup
  <2>1. Cur \in Ap
    BY <1>5, HeadFacts DEF send_startup, TypeOK, Trying
  <2>2. /\ ap' = ap \/ ap' = [ap EXCEPT ![Cur].pc = "real"]
        /\ InFlight /\ InFlight' /\ UNCHANGED <<firmware, todo, abandoned>>
    <3>1. todo # << >>
      BY <1>5 DEF send_startup, TypeOK, Trying
    <3> QED BY <1>5, <3>1, IpiFacts DEF send_startup
  <2>3. Cur' = Cur /\ \A a \in Ap : ap'[a].pc = ap[a].pc \/ (a = Cur /\ ap'[a].pc = "real")
    BY <1>0, <2>1, <2>2 DEF Cur, ApState
  <2> QED BY <1>0, <2>1, <2>2, <2>3 DEF FromTheList
<1>6. CASE Answered
  <2>1. Cur \in Ap /\ Range(todo) = Range(Tail(todo)) \cup {Head(todo)}
    BY <1>6, HeadFacts DEF Answered, TypeOK, Trying
  <2>2. InFlight /\ pc' = "next" /\ todo' = Tail(todo) /\ UNCHANGED <<firmware, ap, abandoned>>
    BY <1>6 DEF Answered
  <2>3. ap[Cur].pc # "off" /\ Head(todo).apic_id = Cur
    BY <2>2 DEF FromTheList, Cur
  <2> QED BY <2>1, <2>2, <2>3 DEF FromTheList
<1>7. CASE TimedOut
  <2>1. Cur \in Ap /\ Range(todo) = Range(Tail(todo)) \cup {Head(todo)}
    BY <1>7, HeadFacts DEF TimedOut, TypeOK, Trying
  <2>2. CASE pc = "wait1"
    <3>1. InFlight /\ InFlight' /\ UNCHANGED <<firmware, todo, ap, abandoned>>
      BY <1>7, <2>2 DEF TimedOut
    <3> QED BY <3>1 DEF FromTheList, Cur
  <2>3. CASE pc # "wait1"
    <3>1. /\ InFlight /\ pc' = "next" /\ todo' = Tail(todo) /\ UNCHANGED <<firmware, ap>>
          /\ abandoned' = abandoned \cup {Cur} /\ Head(todo).apic_id = Cur
      BY <1>7, <2>3 DEF TimedOut, Cur
    <3> QED BY <2>1, <3>1 DEF FromTheList
  <2> QED BY <2>2, <2>3
<1>8. ASSUME NEW a \in Ap, ApStep(a)
      PROVE  FromTheList'
  <2>1. ApMoves(a) /\ UNCHANGED <<pc, firmware, todo, abandoned>>
    BY <1>8, ApStepMoves DEF ApUnchanged, bsp
  <2>2. \A b \in Ap : ap'[b].pc = ap[b].pc \/ (b = a /\ ap'[b].pc # "off" /\ ap[b].pc # "off")
    BY <2>1 DEF ApMoves
  <2>3. Cur' = Cur /\ (InFlight => Cur \in Ap)
    BY <2>1, HeadFacts DEF Cur, TypeOK, Trying
  <2> QED BY <1>0, <2>1, <2>2, <2>3 DEF FromTheList
<1>9. CASE UNCHANGED vars \/ vmm_alloc_frame
  <2>1. UNCHANGED <<pc, firmware, todo, ap, abandoned>>
    BY <1>9 DEF vars, bsp, vmm_alloc_frame
  <2> QED BY <2>1 DEF FromTheList, Cur
<1>10. CASE init_pmm_from_limine \/ protect_boot_memory
  BY <1>1, <1>10 DEF init_pmm_from_limine, protect_boot_memory
<1>12. CASE wait_icr_idle
  <2>1. InFlight /\ InFlight' /\ UNCHANGED <<firmware, todo, ap, abandoned>>
    BY <1>12 DEF wait_icr_idle
  <2> QED BY <2>1 DEF FromTheList, Cur
<1>11. CASE reclaim_boot_memory \/ unmap_low_half_identity_map \/ NextCpu \/ WriteIndex
  BY <1>3, <1>11 DEF reclaim_boot_memory, unmap_low_half_identity_map, NextCpu, WriteIndex, After
<1> QED
  BY <1>2, <1>4, <1>5, <1>6, <1>7, <1>8, <1>9, <1>10, <1>11, <1>12 DEF Next, Boot, StartAps, Up

--------------------------------------------------------------------------------
(* As long as none is given up, one AP at a time is on its way. *)

\* The BSP goes on while no AP is on its way, and leaves the APs alone.
LEMMA OneQuiet ==
  ASSUME TypeOK, OneAtATime, ~InFlight, ~InFlight',
         UNCHANGED <<cpu_index, ap, abandoned>>,
         ~identity' => pc' = "up",
         Trying' => params'.stack = cpu_index,
         pc' = "init" => params'.index = cpu_index /\ ~AP_ONLINE'[cpu_index]
  PROVE  OneAtATime'
<1> SUFFICES ASSUME abandoned = {}
             PROVE  OneAtATime'
  BY DEF OneAtATime
<1>1. \A a \in Ap : Started(a)' <=> Started(a)
  BY DEF Started
<1>2. \A a \in Ap :
        /\ ap'[a].pc \in {"off", "online"}
        /\ ap'[a].pc = "index" => ap'[a].stack = cpu_index'
        /\ Started(a)' => /\ ap'[a].stack = ap'[a].index
                          /\ ap'[a].index \in 0 .. cpu_index'
                          /\ ap'[a].index # cpu_index'
  BY <1>1 DEF OneAtATime
<1>3. \A a, b \in Ap : Started(a)' /\ Started(b)' /\ a # b => ap'[a].index # ap'[b].index
  BY <1>1 DEF OneAtATime
<1> QED BY <1>2, <1>3 DEF OneAtATime

\* INIT puts one AP on its way when no other is.
LEMMA OneSendInit ==
  ASSUME TypeOK, OneAtATime, send_init
  PROVE  OneAtATime'
<1> SUFFICES ASSUME abandoned = {}
             PROVE  OneAtATime'
  BY DEF OneAtATime, send_init
<1>1. /\ Cur \in Ap /\ pc = "init" /\ pc' = "startup1" /\ Cur' = Cur
      /\ UNCHANGED <<cpu_index, abandoned, identity, params, AP_ONLINE>>
  BY HeadFacts DEF send_init, TypeOK, Trying, Cur
<1>2. ap'[Cur].pc = "wait" /\ \A a \in Ap \ {Cur} : ap'[a] = ap[a]
  <2>1. todo # << >>
    BY <1>1 DEF TypeOK, Trying
  <2> QED BY <1>1, <2>1, IpiFacts DEF TypeOK, Off
<1>3. \A a \in Ap : Started(a)' => a # Cur /\ Started(a)
  BY <1>2 DEF Started
<1>4. InFlight' /\ ~InFlight /\ Trying /\ Trying'
  BY <1>1 DEF InFlight, Trying
<1>5. \A a \in Ap : ap[a].pc \in {"off", "online"}
  BY <1>4 DEF OneAtATime
<1>6. \A a \in Ap :
        /\ ap'[a].pc \in {"off", "online"} \/ (a = Cur' /\ ap'[a].pc # "dead")
        /\ ap'[a].pc # "index"
  BY <1>1, <1>2, <1>5
<1>7. \A a \in Ap : Started(a)' => /\ ap'[a].stack = ap'[a].index
                                   /\ ap'[a].index \in 0 .. cpu_index'
                                   /\ ap'[a].index # cpu_index'
  BY <1>1, <1>2, <1>3, <1>4 DEF OneAtATime
<1>8. \A a, b \in Ap : Started(a)' /\ Started(b)' /\ a # b => ap'[a].index # ap'[b].index
  BY <1>2, <1>3 DEF OneAtATime
<1>9. /\ ~identity' => pc' = "up"
      /\ params'.stack = cpu_index' /\ params'.index = cpu_index' /\ ~AP_ONLINE'[cpu_index']
  BY <1>1, <1>4 DEF OneAtATime
<1> QED BY <1>1, <1>4, <1>6, <1>7, <1>8, <1>9 DEF OneAtATime

\* Within start_one_ap the AP it is for may advance or not.
LEMMA OneInFlight ==
  ASSUME TypeOK, OneAtATime, InFlight, InFlight', Cur \in Ap,
         UNCHANGED <<todo, cpu_index, abandoned, identity, params, AP_ONLINE>>,
         ap' = ap \/ (ap[Cur].pc = "wait" /\ ap' = [ap EXCEPT ![Cur].pc = "real"])
  PROVE  OneAtATime'
<1> SUFFICES ASSUME abandoned = {}
             PROVE  OneAtATime'
  BY DEF OneAtATime
<1>1. /\ \A a \in Ap : ap'[a] = ap[a] \/ (a = Cur /\ ap[a].pc = "wait" /\ ap'[a].pc = "real")
      /\ Cur' = Cur
  <2> DEFINE r == [ap[Cur] EXCEPT !.pc = "real"]
  <2>1. r.pc = "real" /\ (ap' = ap \/ (ap[Cur].pc = "wait" /\ ap' = [ap EXCEPT ![Cur] = r]))
    BY DEF TypeOK, ApState
  <2>2. Cur' = Cur
    BY DEF Cur
  <2> HIDE DEF r
  <2> QED BY <2>1, <2>2 DEF TypeOK
<1>2. \A a \in Ap : Started(a)' => Started(a) /\ ap'[a] = ap[a]
  BY <1>1 DEF Started
<1>3. \A a \in Ap :
        /\ ap'[a].pc \in {"off", "online"} \/ (a = Cur' /\ ap'[a].pc # "dead")
        /\ ap'[a].pc = "index" => ap'[a].stack = cpu_index'
  BY <1>1 DEF OneAtATime
<1>4. \A a \in Ap : Started(a)' => /\ ap'[a].stack = ap'[a].index
                                   /\ ap'[a].index \in 0 .. cpu_index'
                                   /\ ap'[a].index = cpu_index' => a = Cur'
  BY <1>1, <1>2 DEF OneAtATime
<1>5. \A a, b \in Ap : Started(a)' /\ Started(b)' /\ a # b => ap'[a].index # ap'[b].index
  BY <1>2 DEF OneAtATime
<1>6. pc # "up" /\ Trying /\ pc' # "init"
  BY DEF InFlight, Trying
<1>7. /\ identity' /\ params'.stack = cpu_index' /\ params'.index = cpu_index'
      /\ AP_ONLINE'[cpu_index'] => ap'[Cur'].pc = "online"
  BY <1>1, <1>6 DEF OneAtATime, TypeOK
<1> QED BY <1>3, <1>4, <1>5, <1>6, <1>7 DEF OneAtATime

\* The AP is online, and start_one_ap returns.
LEMMA OneAnswered ==
  ASSUME TypeOK, OneAtATime, Answered
  PROVE  OneAtATime'
<1> SUFFICES ASSUME abandoned = {}
             PROVE  OneAtATime'
  BY DEF OneAtATime, Answered
<1>1. /\ InFlight /\ AP_ONLINE[cpu_index] /\ pc' = "next" /\ cpu_index' = cpu_index + 1
      /\ UNCHANGED <<abandoned, identity, params, AP_ONLINE, ap>> /\ pc # "up"
  BY DEF Answered, InFlight
<1>2. ~InFlight' /\ ~Trying' /\ pc' # "init"
  BY <1>1 DEF InFlight, Trying
<1>3. \A a \in Ap : ap'[a].pc \in {"off", "online"}
  BY <1>1 DEF OneAtATime
<1>4. cpu_index \in Nat
  BY DEF TypeOK
<1>5. \A a \in Ap : Started(a)' => /\ ap'[a].stack = ap'[a].index
                                   /\ ap'[a].index \in 0 .. cpu_index
  BY <1>1 DEF OneAtATime, Started
<1>6. \A a, b \in Ap : Started(a)' /\ Started(b)' /\ a # b => ap'[a].index # ap'[b].index
  BY <1>1 DEF OneAtATime, Started
<1>7. \A i \in 0 .. cpu_index : i \in 0 .. cpu_index' /\ i # cpu_index'
  BY <1>1, <1>4
<1>8. identity'
  BY <1>1 DEF OneAtATime, TypeOK
<1> QED BY <1>2, <1>3, <1>5, <1>6, <1>7, <1>8 DEF OneAtATime

\* An AP reads its own parameters, and the flag it sets is the one its BSP
\* waits for.
LEMMA OneApMoves ==
  ASSUME TypeOK, OneAtATime, NEW a \in Ap, ApMoves(a), ApUnchanged
  PROVE  OneAtATime'
<1> SUFFICES ASSUME abandoned = {}
             PROVE  OneAtATime'
  BY DEF OneAtATime, ApUnchanged, bsp
<1>1. UNCHANGED <<pc, todo, cpu_index, params, abandoned, identity>> /\ Cur' = Cur
  BY DEF ApUnchanged, bsp, Cur
<1>2. InFlight /\ a = Cur /\ InFlight' /\ Trying /\ Trying' /\ pc # "init" /\ pc # "up"
  BY <1>1 DEF OneAtATime, ApMoves, InFlight, Trying
<1>3. identity /\ params.stack = cpu_index /\ params.index = cpu_index /\ cpu_index \in Index
  BY <1>2, HeadFacts DEF OneAtATime, TypeOK
<1>4. \A b \in Ap : ap'[b] = ap[b] \/ b = a
  BY DEF ApMoves
<1>5. \A b \in Ap \ {a} : (Started(b)' <=> Started(b)) /\ (Started(b) => ap[b].index # cpu_index)
  BY <1>2, <1>4 DEF OneAtATime, Started
<1>6. Started(a)' =>
        \/ ap'[a].stack = cpu_index /\ ap'[a].index = cpu_index
        \/ Started(a) /\ ap'[a].stack = ap[a].stack /\ ap'[a].index = ap[a].index
  <2>1. CASE ap'[a].pc = "entry"
    BY <1>3, <2>1 DEF OneAtATime, ApMoves
  <2>2. CASE ap'[a].pc \in {"ready", "online"}
    BY <2>2 DEF ApMoves
  <2> QED BY <2>1, <2>2 DEF Started
<1>7. cpu_index \in Nat /\ cpu_index \in 0 .. cpu_index
  BY DEF TypeOK
<1>8. \A b \in Ap : Started(b)' => /\ ap'[b].stack = ap'[b].index
                                   /\ ap'[b].index \in 0 .. cpu_index
                                   /\ ap'[b].index = cpu_index => b = Cur
  <2>1. CASE Started(a)'
    BY <1>2, <1>4, <1>5, <1>6, <1>7, <2>1 DEF OneAtATime
  <2>2. CASE ~Started(a)'
    BY <1>2, <1>4, <1>5, <2>2 DEF OneAtATime
  <2> QED BY <2>1, <2>2
<1>9. \A b, c \in Ap : Started(b)' /\ Started(c)' /\ b # c => ap'[b].index # ap'[c].index
  <2>1. \A b \in Ap \ {a} : Started(b)' /\ Started(a)' => ap'[b].index # ap'[a].index
    BY <1>4, <1>5, <1>6 DEF OneAtATime
  <2>2. \A b, c \in Ap \ {a} : Started(b)' /\ Started(c)' /\ b # c => ap'[b].index # ap'[c].index
    BY <1>4, <1>5 DEF OneAtATime
  <2> QED BY <2>1, <2>2
<1>10. \A b \in Ap : ap'[b].pc \in {"off", "online"} \/ (b = Cur /\ ap'[b].pc # "dead")
  <2>1. ap'[a].pc # "dead"
    BY <1>3 DEF ApMoves
  <2> QED BY <1>2, <1>4, <2>1 DEF OneAtATime
<1>11. \A b \in Ap : ap'[b].pc = "index" => ap'[b].stack = cpu_index
  BY <1>3, <1>4 DEF OneAtATime, ApMoves
<1>12. AP_ONLINE'[cpu_index] => ap'[Cur].pc = "online"
  <2>1. CASE AP_ONLINE'[cpu_index] = AP_ONLINE[cpu_index]
    <3>1. ap[a].pc # "online"
      BY DEF ApMoves
    <3> QED BY <1>2, <2>1, <3>1 DEF OneAtATime
  <2>2. CASE AP_ONLINE'[cpu_index] # AP_ONLINE[cpu_index]
    BY <1>2, <1>3, <2>2, ZenonT(40) DEF ApMoves
  <2> QED BY <2>1, <2>2, ZenonT(40)
<1> QED
  BY <1>1, <1>2, <1>3, <1>8, <1>9, <1>10, <1>11, <1>12 DEF OneAtATime

\* Every step keeps one AP at a time on its way, as long as none is given up.
LEMMA OneStep ==
  ASSUME TypeOK, OneAtATime, [Next]_vars
  PROVE  OneAtATime'
<1> USE DEF InFlight, Trying
<1>1. CASE init_pmm_from_limine \/ protect_boot_memory \/ hal_init \/ reclaim_boot_memory
  BY <1>1, OneQuiet
  DEF init_pmm_from_limine, protect_boot_memory, hal_init, reclaim_boot_memory, OneAtATime, TypeOK
<1>2. CASE unmap_low_half_identity_map
  BY <1>2, OneQuiet DEF unmap_low_half_identity_map
<1>3. CASE NextCpu
  <2>1. /\ pc = "next" /\ pc' \in {"reclaim", "params", "panic"}
        /\ UNCHANGED <<cpu_index, ap, abandoned, identity>>
        /\ pc' = "params" => params' = [params EXCEPT !.stack = cpu_index]
    BY <1>3 DEF NextCpu
  <2>2. pc' = "params" => params'.stack = cpu_index
    BY <2>1 DEF TypeOK
  <2>3. abandoned = {} => identity'
    BY <2>1 DEF OneAtATime, TypeOK
  <2>4. CASE abandoned = {}
    BY <2>1, <2>2, <2>3, <2>4, OneQuiet
  <2>5. CASE abandoned # {}
    BY <2>1, <2>5 DEF OneAtATime
  <2> QED BY <2>4, <2>5
<1>4. CASE WriteIndex
  <2>1. /\ pc = "params" /\ pc' = "init" /\ UNCHANGED <<cpu_index, ap, abandoned, identity>>
        /\ params' = [params EXCEPT !.index = cpu_index]
        /\ AP_ONLINE' = [AP_ONLINE EXCEPT ![cpu_index] = FALSE]
    BY <1>4 DEF WriteIndex
  <2>2. cpu_index \in Index
    BY <2>1, HeadFacts DEF TypeOK
  <2>3. params'.index = cpu_index /\ params'.stack = params.stack /\ ~AP_ONLINE'[cpu_index]
    BY <2>1, <2>2 DEF TypeOK
  <2>4. CASE abandoned = {}
    <3>1. params.stack = cpu_index /\ identity
      BY <2>1, <2>4 DEF OneAtATime, TypeOK
    <3> QED BY <2>1, <2>3, <3>1, OneQuiet
  <2>5. CASE abandoned # {}
    BY <2>1, <2>5 DEF OneAtATime
  <2> QED BY <2>4, <2>5
<1>5. CASE send_init
  BY <1>5, OneSendInit
<1>6. CASE send_startup
  <2>1. Cur \in Ap
    BY <1>6, HeadFacts DEF send_startup, TypeOK
  <2>2. /\ InFlight /\ InFlight'
        /\ UNCHANGED <<todo, cpu_index, abandoned, identity, params, AP_ONLINE>>
        /\ ap' = ap \/ (ap[Cur].pc = "wait" /\ ap' = [ap EXCEPT ![Cur].pc = "real"])
    <3>1. todo # << >>
      BY <1>6 DEF send_startup, TypeOK
    <3> QED BY <1>6, <3>1, IpiFacts DEF send_startup
  <2> QED BY <2>1, <2>2, OneInFlight
<1>11. CASE wait_icr_idle
  <2>1. Cur \in Ap
    BY <1>11, HeadFacts DEF wait_icr_idle, TypeOK
  <2>2. /\ InFlight /\ InFlight' /\ ap' = ap
        /\ UNCHANGED <<todo, cpu_index, abandoned, identity, params, AP_ONLINE>>
    BY <1>11 DEF wait_icr_idle
  <2> QED BY <2>1, <2>2, OneInFlight
<1>7. CASE Answered
  BY <1>7, OneAnswered
<1>8. CASE TimedOut
  <2>1. Cur \in Ap
    BY <1>8, HeadFacts DEF TimedOut, TypeOK
  <2>2. CASE pc = "wait1"
    <3>1. /\ InFlight /\ InFlight' /\ ap' = ap
          /\ UNCHANGED <<todo, cpu_index, abandoned, identity, params, AP_ONLINE>>
      BY <1>8, <2>2 DEF TimedOut
    <3> QED BY <2>1, <3>1, OneInFlight
  <2>3. CASE pc # "wait1"
    <3>1. abandoned' # {}
      BY <1>8, <2>3 DEF TimedOut
    <3> QED BY <3>1 DEF OneAtATime
  <2> QED BY <2>2, <2>3
<1>9. ASSUME NEW a \in Ap, ApStep(a)
      PROVE  OneAtATime'
  BY <1>9, ApStepMoves, OneApMoves
<1>10. CASE UNCHANGED vars \/ vmm_alloc_frame
  <2>1. UNCHANGED <<pc, todo, cpu_index, params, AP_ONLINE, identity, ap, abandoned>>
    BY <1>10 DEF vars, bsp, vmm_alloc_frame
  <2> QED BY <2>1 DEF OneAtATime, Cur, Started
<1> QED
  BY <1>1, <1>2, <1>3, <1>4, <1>5, <1>6, <1>7, <1>8, <1>9, <1>10, <1>11
  DEF Next, Boot, StartAps, Up

--------------------------------------------------------------------------------
(* Theorems *)

\* The invariant holds of every boot: what kmain_common has reserved stays
\* reserved, start_aps works through the list that the MADT gave it, and one
\* AP at a time is on its way.
THEOREM BootInvariant == Spec => []BootInv
<1>1. Init => BootInv
  BY InitBootInv
<1>2. BootInv /\ [Next]_vars => BootInv'
  BY TypeStep, MemoryStep, ListStep, OneStep DEF BootInv
<1> QED BY <1>1, <1>2, PTL DEF Spec

\* Whatever the memory map says, the first MiB, the kernel image and the
\* ramdisk, which protect_boot_memory reserved, are never handed out.  Neither
\* is the heap, unless the map calls its range reclaimable: reclaim_boot_memory
\* does free it then.
THEOREM BootMemoryKeptHolds == Spec => []BootMemoryKept
<1>1. BootInv => BootMemoryKept
  BY DEF BootInv, TypeOK, MemoryKept, BootMemoryKept
<1> QED BY <1>1, BootInvariant, PTL

\* While no AP is given up, the single parameter block of the trampoline gives
\* every core an index and a stack of its own, however many there are.
THEOREM OwnCpuSlotHolds == Spec => []OwnCpuSlot
<1>1. BootInv => OwnCpuSlot
  BY DEF BootInv, OneAtATime, OwnCpuSlot
<1> QED BY <1>1, BootInvariant, PTL

\* Whatever firmware and bootloader left in memory, only a processor that a
\* chain of checksummed structures lists is sent an INIT.
THEOREM StartedAreListedHolds == Spec => []StartedAreListed
<1>1. BootInv => StartedAreListed
  <2> SUFFICES ASSUME BootInv, NEW a \in Ap, ap[a].pc # "off"
               PROVE  \E d \in Genuine : SoundRoot(d) /\ \E t \in MadtsOf(d) :
                        \E e \in Range(t.entries) : IsCpu(e) /\ e.apic_id = a /\ e.enabled
    BY DEF StartedAreListed
  <2>1. PICK e \in Range(Listed(firmware)) : e.apic_id = a
    BY DEF BootInv, FromTheList
  <2> QED BY <2>1, ListedByFirmware DEF BootInv, TypeOK
<1> QED BY <1>1, BootInvariant, PTL

\* Whatever firmware and bootloader left in memory, no enabled processor that
\* it lists is skipped by the search, by the walks or by start_aps.
THEOREM NoCpuForgottenHolds == Spec => []NoCpuForgotten
<1>1. BootInv => NoCpuForgotten
  <2> SUFFICES ASSUME BootInv, pc \in {"reclaim", "unmap", "up"},
                      NEW t \in UNION {MadtsOf(g) : g \in Genuine},
                      \A g \in Genuine : SoundRoot(g) /\ MadtsOf(g) = {t},
                      NEW i \in DOMAIN t.entries, IsCpu(t.entries[i]), Startable(t.entries[i]),
                      \A j \in 1 .. i : t.entries[j].length # "invalid",
                      Cardinality({j \in 1 .. i : IsCpu(t.entries[j])}) <= MAX_CPUS
               PROVE  t.entries[i].apic_id \in abandoned \/ ap[t.entries[i].apic_id].pc # "off"
    BY DEF NoCpuForgotten
  <2>1. t.entries[i] \in Range(Listed(firmware))
    <3>1. Genuine # {}
      OBVIOUS
    <3> QED BY <3>1, ForgottenIsListed DEF BootInv, TypeOK
  <2>2. Range(todo) = {} /\ ~Before
    BY DEF BootInv, TypeOK, After, Before, Range
  <2> QED BY <2>1, <2>2 DEF BootInv, FromTheList
<1> QED BY <1>1, BootInvariant, PTL

--------------------------------------------------------------------------------
(* The count: this is where it matters that firmware lists a processor once. *)

Online == {a \in Ap : ap[a].pc = "online"}

\* started counts the cores that are online, without the one that start_one_ap
\* is still waiting for; no core of the rest of the list has been touched.
Counted ==
  /\ \A j, k \in DOMAIN todo : todo[j].apic_id = todo[k].apic_id => j = k
  /\ \A k \in DOMAIN todo : k > 1 \/ ~InFlight => ap[todo[k].apic_id].pc = "off"
  /\ IsFiniteSet(Online)
  /\ abandoned = {} => started = Cardinality(Online \ IF InFlight THEN {Cur} ELSE {})
  /\ CPUS_ONLINE = IF After THEN 1 + started ELSE 1

\* The steps in which the BSP is outside start_one_ap before and after, or
\* inside before and after, and nothing that is counted changes.
LEMMA CountQuiet ==
  ASSUME Counted, UNCHANGED <<todo, started, abandoned>>, InFlight' = InFlight,
         Online' = Online,
         \A k \in DOMAIN todo : k > 1 \/ ~InFlight =>
           (ap[todo[k].apic_id].pc = "off" => ap'[todo[k].apic_id].pc = "off"),
         CPUS_ONLINE' = IF After' THEN 1 + started ELSE 1
  PROVE  Counted'
BY DEF Counted, Cur

\* What start_aps goes through are APs, never the BSP.
LEMMA StartableAreAps ==
  ASSUME NEW s \in Seq(MadtEntry), \A e \in Range(s) : Startable(e)
  PROVE  \A k \in DOMAIN s : s[k].apic_id \in Ap
<1> TAKE k \in DOMAIN s
<1>1. s[k] \in MadtEntry /\ s[k] \in Range(s)
  BY DEF Range
<1>2. s[k].apic_id \in ApicId
  BY <1>1 DEF MadtEntry
<1> QED BY <1>1, <1>2 DEF Startable, Ap

\* The list that acpi::init makes names no processor twice.
LEMMA CountHalInit ==
  ASSUME ListedOnce, TypeOK, Counted, hal_init
  PROVE  Counted'
<1>0. CASE rsdp_faults(firmware)
  <2>1. /\ UNCHANGED <<todo, started, abandoned, ap, CPUS_ONLINE>> /\ InFlight' = InFlight
        /\ ~After /\ ~After'
    BY <1>0 DEF hal_init, InFlight, After
  <2> QED BY <2>1, CountQuiet DEF Counted, Online
<1> SUFFICES ASSUME ~rsdp_faults(firmware)
             PROVE  Counted'
  BY <1>0
<1>1. /\ todo' = Listed(firmware) /\ firmware \in Firmwares
      /\ pc = "hal" /\ pc' = "next" /\ ap = [a \in Ap |-> Off] /\ started = 0
      /\ UNCHANGED <<ap, abandoned, started, CPUS_ONLINE>>
  BY DEF hal_init, Listed, TypeOK, Before
<1>2. ~InFlight /\ ~InFlight' /\ ~After /\ ~After'
  BY <1>1 DEF InFlight, After
<1>3. \A j, k \in DOMAIN todo' : todo'[j].apic_id = todo'[k].apic_id => j = k
  BY <1>1, ListedFacts
<1>4. \A k \in DOMAIN todo' : ap'[todo'[k].apic_id].pc = "off"
  <2>1. todo' \in Seq(MadtEntry) /\ \A e \in Range(todo') : Startable(e)
    BY <1>1, ListedFacts
  <2>2. \A k \in DOMAIN todo' : todo'[k].apic_id \in Ap
    BY <2>1, StartableAreAps
  <2> QED BY <1>1, <2>2 DEF Off
<1>5. Online' = Online /\ Online = {}
  BY <1>1 DEF Online, Off
<1>6. IsFiniteSet(Online') /\ Cardinality(Online' \ {}) = 0
  BY <1>5, FS_EmptySet
<1> QED BY <1>1, <1>2, <1>3, <1>4, <1>6 DEF Counted

\* The AP that is sent INIT is the one that does not count yet.
LEMMA CountSendInit ==
  ASSUME TypeOK, Counted, send_init
  PROVE  Counted'
<1>1. /\ Cur \in Ap /\ Head(todo) = todo[1] /\ pc = "init" /\ pc' = "startup1" /\ Cur' = Cur
      /\ UNCHANGED <<todo, started, abandoned, CPUS_ONLINE>>
      /\ Len(todo) \in Nat \ {0} /\ DOMAIN todo = 1 .. Len(todo)
  BY HeadFacts DEF send_init, TypeOK, Trying, Cur
<1>2. ap'[Cur].pc = "wait" /\ \A a \in Ap \ {Cur} : ap'[a] = ap[a]
  <2>1. todo # << >>
    BY <1>1 DEF TypeOK, Trying
  <2> QED BY <1>1, <2>1, IpiFacts DEF TypeOK, Off
<1>3. InFlight' /\ ~InFlight /\ ~After /\ ~After'
  BY <1>1 DEF InFlight, After
<1>4. 1 \in DOMAIN todo /\ Cur = todo[1].apic_id /\ ap[Cur].pc = "off"
  BY <1>1, <1>3 DEF Counted, Cur
<1>5. Online' = Online /\ Online \ {Cur} = Online /\ Online \ {} = Online
  BY <1>1, <1>2, <1>4 DEF Online
<1>6. \A k \in DOMAIN todo : todo[k].apic_id \in Ap
  BY StartableAreAps DEF TypeOK
<1>7. \A k \in DOMAIN todo : k > 1 => ap'[todo[k].apic_id].pc = "off"
  <2> SUFFICES ASSUME NEW k \in DOMAIN todo, k > 1
               PROVE  ap'[todo[k].apic_id].pc = "off"
    OBVIOUS
  <2>1. todo[k].apic_id # Cur
    BY <1>1, <1>4 DEF Counted
  <2> QED BY <1>2, <1>3, <1>6, <2>1 DEF Counted
<1> QED BY <1>1, <1>3, <1>5, <1>7, ZenonT(40) DEF Counted

\* Once the AP has answered, it counts.
LEMMA CountAnswered ==
  ASSUME TypeOK, OneAtATime, Counted, Answered
  PROVE  Counted'
<1>1. /\ Cur \in Ap /\ InFlight /\ AP_ONLINE[cpu_index] /\ pc' = "next" /\ todo' = Tail(todo)
      /\ started' = started + 1 /\ UNCHANGED <<ap, abandoned, CPUS_ONLINE>>
  BY HeadFacts DEF Answered, TypeOK, Trying, InFlight
<1>2. Len(todo) \in Nat \ {0} /\ DOMAIN todo = 1 .. Len(todo)
  BY <1>1, HeadFacts DEF TypeOK, Trying
<1>3. /\ DOMAIN Tail(todo) = 1 .. Len(todo) - 1
      /\ \A k \in DOMAIN Tail(todo) : Tail(todo)[k] = todo[k + 1] /\ k + 1 \in DOMAIN todo /\ k + 1 > 1
  BY <1>2 DEF TypeOK
<1>4. ~InFlight' /\ ~After /\ ~After' /\ Online' = Online
  BY <1>1 DEF InFlight, After, Online
<1>5. \A j, k \in DOMAIN todo' : todo'[j].apic_id = todo'[k].apic_id => j = k
  <2> SUFFICES ASSUME NEW j \in DOMAIN todo', NEW k \in DOMAIN todo',
                      todo'[j].apic_id = todo'[k].apic_id
               PROVE  j = k
    OBVIOUS
  <2>1. j + 1 = k + 1
    BY <1>1, <1>3 DEF Counted
  <2>2. j \in Int /\ k \in Int
    BY <1>1, <1>2, <1>3
  <2> QED BY <2>1, <2>2
<1>6. \A k \in DOMAIN todo' : ap'[todo'[k].apic_id].pc = "off"
  BY <1>1, <1>3 DEF Counted
<1>7. abandoned = {} => started' = Cardinality(Online)
  <2> SUFFICES ASSUME abandoned = {}
               PROVE  started' = Cardinality(Online)
    OBVIOUS
  <2>1. Cur \in Online
    BY <1>1 DEF OneAtATime, Online
  <2>2. started = Cardinality(Online \ {Cur}) /\ IsFiniteSet(Online)
    BY <1>1 DEF Counted
  <2>3. Cardinality(Online \ {Cur}) = Cardinality(Online) - 1 /\ Cardinality(Online) \in Nat
    BY <2>1, <2>2, FS_RemoveElement, FS_CardinalityType
  <2> QED BY <1>1, <2>2, <2>3
<1>8. Online' \ {} = Online
  BY <1>4
<1> QED BY <1>1, <1>4, <1>5, <1>6, <1>7, <1>8 DEF Counted

\* An AP that did not answer: a second try, or it is given up.
LEMMA CountTimedOut ==
  ASSUME TypeOK, Counted, TimedOut
  PROVE  Counted'
<1>1. CASE pc = "wait1"
  <2>1. /\ UNCHANGED <<todo, started, abandoned, ap, CPUS_ONLINE>>
        /\ InFlight /\ InFlight' /\ ~After /\ ~After'
    BY <1>1 DEF TimedOut, InFlight, After
  <2> QED BY <2>1 DEF Counted, Online, Cur
<1>2. CASE pc # "wait1"
  <2>1. /\ InFlight /\ ~InFlight' /\ ~After /\ ~After' /\ todo' = Tail(todo)
        /\ abandoned' # {} /\ UNCHANGED <<ap, CPUS_ONLINE>>
    BY <1>2 DEF TimedOut, InFlight, After
  <2>2. Len(todo) \in Nat \ {0} /\ DOMAIN todo = 1 .. Len(todo)
    BY <2>1, HeadFacts DEF TypeOK, Trying
  <2>3. /\ DOMAIN Tail(todo) = 1 .. Len(todo) - 1
        /\ \A k \in DOMAIN Tail(todo) : Tail(todo)[k] = todo[k + 1] /\ k + 1 \in DOMAIN todo /\ k + 1 > 1
    BY <2>2 DEF TypeOK
  <2>4. \A j, k \in DOMAIN todo' : todo'[j].apic_id = todo'[k].apic_id => j = k
    <3> SUFFICES ASSUME NEW j \in DOMAIN todo', NEW k \in DOMAIN todo',
                        todo'[j].apic_id = todo'[k].apic_id
                 PROVE  j = k
      OBVIOUS
    <3>1. j + 1 = k + 1
      BY <2>1, <2>3 DEF Counted
    <3>2. j \in Int /\ k \in Int
      BY <2>1, <2>2, <2>3
    <3> QED BY <3>1, <3>2
  <2>5. \A k \in DOMAIN todo' : ap'[todo'[k].apic_id].pc = "off"
    BY <2>1, <2>3 DEF Counted
  <2> QED BY <2>1, <2>4, <2>5 DEF Counted, Online
<1> QED BY <1>1, <1>2

\* Every step keeps the count.
LEMMA CountStep ==
  ASSUME ListedOnce, TypeOK, OneAtATime, Counted, [Next]_vars
  PROVE  Counted'
<1>1. CASE init_pmm_from_limine \/ protect_boot_memory \/ reclaim_boot_memory
           \/ unmap_low_half_identity_map \/ WriteIndex \/ vmm_alloc_frame \/ UNCHANGED vars
  <2>1. /\ UNCHANGED <<todo, started, abandoned, ap, CPUS_ONLINE>> /\ InFlight' = InFlight
        /\ After' = After
    BY <1>1 DEF init_pmm_from_limine, protect_boot_memory, reclaim_boot_memory, vars, bsp,
                unmap_low_half_identity_map, WriteIndex, vmm_alloc_frame, InFlight, After
  <2> QED BY <2>1, CountQuiet DEF Counted, Online
<1>2. CASE hal_init
  BY <1>2, CountHalInit
<1>3. CASE NextCpu
  <2>1. /\ UNCHANGED <<todo, started, abandoned, ap>> /\ InFlight' = InFlight /\ ~After
        /\ CPUS_ONLINE' = IF After' THEN CPUS_ONLINE + started ELSE CPUS_ONLINE
    BY <1>3 DEF NextCpu, InFlight, After
  <2>2. CPUS_ONLINE = 1
    BY <2>1 DEF Counted
  <2> QED BY <2>1, <2>2, CountQuiet DEF Online
<1>4. CASE send_init
  BY <1>4, CountSendInit
<1>5. CASE send_startup
  <2>1. /\ UNCHANGED <<todo, started, abandoned, CPUS_ONLINE>>
        /\ InFlight /\ InFlight' /\ ~After /\ ~After'
        /\ ap' = ap \/ (ap[Cur].pc = "wait" /\ ap' = [ap EXCEPT ![Cur].pc = "real"])
    <3>1. /\ UNCHANGED <<todo, started, abandoned, CPUS_ONLINE>>
          /\ InFlight /\ InFlight' /\ ~After /\ ~After'
      BY <1>5 DEF send_startup, InFlight, After
    <3>2. todo # << >>
      BY <3>1 DEF TypeOK, Trying
    <3> QED BY <1>5, <3>1, <3>2, IpiFacts
  <2>2. Cur \in Ap
    BY <2>1, HeadFacts DEF TypeOK, Trying
  <2>3. \A a \in Ap : ap'[a] = ap[a] \/ (ap[a].pc = "wait" /\ ap'[a].pc = "real")
    <3> DEFINE r == [ap[Cur] EXCEPT !.pc = "real"]
    <3>1. r.pc = "real" /\ (ap' = ap \/ (ap[Cur].pc = "wait" /\ ap' = [ap EXCEPT ![Cur] = r]))
      BY <2>1, <2>2 DEF TypeOK, ApState
    <3> HIDE DEF r
    <3> QED BY <2>2, <3>1 DEF TypeOK
  <2>4. Online' = Online
    BY <2>3 DEF Online
  <2>5. \A k \in DOMAIN todo : todo[k].apic_id \in Ap
    BY StartableAreAps DEF TypeOK
  <2> QED BY <2>1, <2>3, <2>4, <2>5, CountQuiet DEF Counted
<1>6. CASE Answered
  BY <1>6, CountAnswered
<1>7. CASE TimedOut
  BY <1>7, CountTimedOut
<1>8. ASSUME NEW a \in Ap, ApStep(a)
      PROVE  Counted'
  <2>1. ApMoves(a) /\ UNCHANGED <<pc, todo, started, CPUS_ONLINE, abandoned>>
    BY <1>8, ApStepMoves DEF ApUnchanged, bsp
  <2>2. InFlight' = InFlight /\ After' = After /\ Cur' = Cur
    BY <2>1 DEF InFlight, After, Cur
  <2>3. IsFiniteSet(Online') /\ Online \ {a} = Online' \ {a} /\ a \notin Online
    <3>1. Online' = Online \/ Online' = Online \cup {a}
      BY <2>1 DEF Online, ApMoves
    <3>2. IsFiniteSet(Online) /\ a \notin Online
      BY <2>1 DEF Counted, Online, ApMoves
    <3> QED BY <3>1, <3>2, FS_AddElement
  <2>4. abandoned = {} => InFlight /\ a = Cur
    BY <2>1 DEF OneAtATime, ApMoves
  <2>5. \A k \in DOMAIN todo : todo[k].apic_id \in Ap
    BY StartableAreAps DEF TypeOK
  <2>6. \A b \in Ap : ap[b].pc = "off" => ap'[b].pc = "off"
    BY <2>1 DEF ApMoves
  <2>7. abandoned' = {} => started' = Cardinality(Online' \ IF InFlight' THEN {Cur'} ELSE {})
    BY <2>1, <2>2, <2>3, <2>4 DEF Counted
  <2> QED BY <2>1, <2>2, <2>3, <2>5, <2>6, <2>7 DEF Counted
<1>9. CASE wait_icr_idle
  <2>1. /\ UNCHANGED <<todo, started, abandoned, ap, CPUS_ONLINE>>
        /\ InFlight' = InFlight /\ ~After /\ ~After'
    BY <1>9 DEF wait_icr_idle, InFlight, After
  <2> QED BY <2>1, CountQuiet DEF Counted, Online
<1> QED
  BY <1>1, <1>2, <1>3, <1>4, <1>5, <1>6, <1>7, <1>8, <1>9 DEF Next, Boot, StartAps, Up

\* While no AP is given up, the trampoline is empty when the identity map under
\* it goes, and CPUS_ONLINE is the number of cores that run.
THEOREM BringUpDoneHolds == ListedOnce => (Spec => []BringUpDone)
<1> SUFFICES ASSUME ListedOnce
             PROVE  Spec => []BringUpDone
  OBVIOUS
<1>1. Init => Counted
  <2> SUFFICES ASSUME Init
               PROVE  Counted
    OBVIOUS
  <2>1. Online = {} /\ Online \ {} = {} /\ ~InFlight /\ ~After /\ DOMAIN todo = {}
    BY DEF Init, Online, Off, InFlight, After
  <2> QED BY <2>1, FS_EmptySet DEF Init, Counted
<1>2. BootInv /\ Counted /\ [Next]_vars => Counted'
  BY CountStep DEF BootInv
<1>3. BootInv /\ Counted => BringUpDone
  <2> SUFFICES ASSUME BootInv, Counted, abandoned = {}
               PROVE  /\ \A a \in Ap : ap[a].pc # "dead"
                      /\ ~identity => \A a \in Ap : ap[a].pc \in {"off", "online"}
                      /\ After => CPUS_ONLINE = 1 + Cardinality(Online)
    BY DEF BringUpDone, After, Online
  <2>1. \A a \in Ap : ap[a].pc # "dead"
    BY DEF BootInv, OneAtATime
  <2>2. ~identity => \A a \in Ap : ap[a].pc \in {"off", "online"}
    BY DEF BootInv, OneAtATime, InFlight
  <2>3. After => CPUS_ONLINE = 1 + Cardinality(Online)
    <3>1. After => ~InFlight
      BY DEF After, InFlight
    <3>2. Online \ {} = Online
      OBVIOUS
    <3> QED BY <3>1, <3>2 DEF Counted
  <2> QED BY <2>1, <2>2, <2>3
<1> QED BY <1>1, <1>2, <1>3, BootInvariant, PTL DEF Spec
================================================================================
