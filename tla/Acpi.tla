---------------------------------- MODULE Acpi ----------------------------------
(***************************************************************************)
(* How hal::acpi and hal::madt (src/src/hal/) get from what firmware and   *)
(* the bootloader left in memory to the list of processors.  Everything    *)
(* here reads memory and computes: the search for the RSDP, the choice of  *)
(* a root table, the walk over its entries and the walk over the MADT.     *)
(*                                                                         *)
(* A firmware is a record:                                                 *)
(*   limine    the bootloader: granted and reported (the requested base    *)
(*             revision or another one, 0 when it says nothing), answered  *)
(*             and null (whether there is a response and an address in     *)
(*             it), and what is found at that address as it stands         *)
(*             (direct) and at its higher-half alias (mapped); canonical   *)
(*             says whether the second of the two that is tried is an      *)
(*             address at all: a higher-half address moved up once more    *)
(*             usually is not                                              *)
(*   ebda      what the 16-byte steps of the EBDA hold; ebda_base says     *)
(*             whether the BIOS names an EBDA                              *)
(*   rom       what the 16-byte steps of the BIOS area hold                *)
(*   tables    the table at every table address                            *)
(* Checksums are booleans; address 0 is no table.                          *)
(***************************************************************************)
EXTENDS Naturals, Sequences, FiniteSets, FiniteSetsExt

CONSTANT MAX_CPUS   \* capacity of the per-CPU tables

REQUESTED_BASE_REVISION == 4

NoTable == [kind |-> "none", addr |-> 0]

--------------------------------------------------------------------------------
(* The RSDP *)

\* is_valid covers the first 20 bytes, is_valid_extended all of a descriptor
\* that is long enough.
is_valid(rsdp) == rsdp.signature /\ rsdp.checksum
is_valid_extended(rsdp) == is_valid(rsdp) /\ rsdp.full_length /\ rsdp.extended_checksum

\* Mutant of parse_rsdp: an ACPI 1.0 descriptor is not checksummed.
parse_rsdpUnchecked(rsdp) ==
  LET valid == rsdp.signature /\ (rsdp.revision >= 2 => is_valid_extended(rsdp))
      has_xsdt == rsdp.revision >= 2 /\ rsdp.xsdt # 0
  IN CASE valid /\ has_xsdt -> [kind |-> "XSDT", addr |-> rsdp.xsdt]
       [] valid /\ ~has_xsdt /\ rsdp.rsdt # 0 -> [kind |-> "RSDT", addr |-> rsdp.rsdt]
       [] OTHER -> NoTable

parse_rsdp(rsdp) ==
  LET valid == IF rsdp.revision >= 2 THEN is_valid_extended(rsdp) ELSE is_valid(rsdp)
      has_xsdt == rsdp.revision >= 2 /\ rsdp.xsdt # 0
  IN CASE valid /\ has_xsdt -> [kind |-> "XSDT", addr |-> rsdp.xsdt]
       [] valid /\ ~has_xsdt /\ rsdp.rsdt # 0 -> [kind |-> "RSDT", addr |-> rsdp.rsdt]
       [] OTHER -> NoTable

\* The EBDA first, if there is one, then the BIOS area.
scan_bios_for_rsdp(fw) == (IF fw.ebda_base THEN fw.ebda ELSE << >>) \o fw.rom

\* The base revision the kernel runs under, 0 if unknown.
loaded_base_revision(fw) ==
  IF fw.limine.granted THEN REQUESTED_BASE_REVISION ELSE fw.limine.reported

rsdp_given(fw) == fw.limine.answered /\ ~fw.limine.null

\* The two readings of the bootloader's address: only base revision 3 hands
\* out a physical one.
get_limine_rsdp(fw) ==
  CASE ~rsdp_given(fw) -> << >>
    [] rsdp_given(fw) /\ loaded_base_revision(fw) = 3 ->
         << fw.limine.mapped, fw.limine.direct >>
    [] OTHER -> << fw.limine.direct, fw.limine.mapped >>

\* Reading at an address that is not canonical is a general protection fault,
\* which the kernel does not survive.  (A canonical one that is not mapped is
\* demand-paged and reads as zeros.)
rsdp_faults(fw) ==
  /\ rsdp_given(fw) /\ ~fw.limine.canonical
  /\ parse_rsdp(Head(get_limine_rsdp(fw))) = NoTable

--------------------------------------------------------------------------------
(* The tables *)

\* SdtHeader::is_valid: long enough for the header, and the bytes sum to 0.
table_is_valid(table) == table.checksum

\* parse_xsdt and parse_rsdt: the entries of a root table that has the right
\* signature and checksum; there is no falling back from one to the other.
parse_root(fw, root) ==
  LET table == fw.tables[root.addr]
  IN IF table.signature = root.kind /\ table_is_valid(table) THEN table.entries ELSE << >>

\* parse_acpi_table: the tables that lead to madt::parse, which returns early
\* from one without room for its fixed header.
IsMadt(table) == table_is_valid(table) /\ table.signature = "APIC" /\ table.full_length

IsCpu(e) ==
  /\ e.type \in {"lapic", "x2apic"} /\ e.length = "full"
  /\ e.enabled \/ e.online_capable

\* The place of index i among those of I; the first of them, as many as the
\* per-CPU tables hold; and the elements of s at the indices in I, in order.
Rank(i, I) == Cardinality({j \in I : j <= i})
FirstCpus(I) == {i \in I : Rank(i, I) <= MAX_CPUS}
Keep(s, I) == [k \in 1 .. Cardinality(I) |-> s[CHOOSE i \in I : Rank(i, I) = k]]

\* Mutant of parse: an entry that is too short ends the walk.
parseStopsAtShort(entries) ==
  LET walked == {i \in DOMAIN entries : \A j \in 1 .. i : entries[j].length = "full"}
  IN Keep(entries, FirstCpus({i \in walked : IsCpu(entries[i])}))

\* The entry walk: it stops at an impossible length, skips entries of other
\* types and entries too short for theirs, and keeps MAX_CPUS processors.
parse(entries) ==
  LET walked == {i \in DOMAIN entries : \A j \in 1 .. i : entries[j].length # "invalid"}
  IN Keep(entries, FirstCpus({i \in walked : IsCpu(entries[i])}))

\* acpi::init: the candidates for the RSDP in the order they are tried, what
\* the root table of the first one that parses lists, and the entries of the
\* last MADT in there, which madt::parse gets (every MADT replaces the one
\* before).
Candidates(fw) == get_limine_rsdp(fw) \o scan_bios_for_rsdp(fw)

RootEntries(fw) ==
  LET usable == {i \in DOMAIN Candidates(fw) : parse_rsdp(Candidates(fw)[i]) # NoTable}
  IN IF usable = {} THEN << >> ELSE parse_root(fw, parse_rsdp(Candidates(fw)[Min(usable)]))

acpi_init(fw) ==
  LET addrs == RootEntries(fw)
      madts == {i \in DOMAIN addrs : IsMadt(fw.tables[addrs[i]])}
  IN IF madts = {} THEN << >> ELSE fw.tables[addrs[Max(madts)]].entries
================================================================================
