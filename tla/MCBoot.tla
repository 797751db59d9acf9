--------------------------------- MODULE MCBoot ---------------------------------
(***************************************************************************)
(* Instances of Boot for TLC: five processors, four of which fit in the    *)
(* tables, a heap with room for three stacks, MADTs with the entries the   *)
(* walk has to tell apart, and the places where firmware and bootloader    *)
(* may leave the way to them.                                              *)
(***************************************************************************)
EXTENDS Boot

Entry(type, length, id, enabled, capable) ==
  [type |-> type, length |-> length, apic_id |-> id, enabled |-> enabled,
   online_capable |-> capable]

Lapic(id) == Entry("lapic", "full", id, TRUE, FALSE)
Skipped == Entry("other", "full", 0, FALSE, FALSE)
Short == Entry("x2apic", "short", 1, TRUE, FALSE)

\* No processor at all; more than fit; four APs, listed through both kinds of
\* entries with entries in between to be skipped; processors that are off; a
\* walk that ends at a bad length.
Madts ==
  { << >>,
    << Lapic(0), Lapic(1), Lapic(2), Lapic(3), Lapic(4) >>,
    << Short, Lapic(1), Skipped, Entry("x2apic", "full", 2, TRUE, FALSE), Lapic(3), Lapic(4),
       Lapic(0) >>,
    << Entry("lapic", "full", 1, FALSE, FALSE), Entry("lapic", "full", 2, FALSE, TRUE),
       Lapic(0), Lapic(3) >>,
    << Lapic(0), Lapic(2), Entry("lapic", "invalid", 1, TRUE, FALSE), Lapic(1) >> }
OneAp == << Lapic(0), Lapic(1) >>

Table(signature, checksum, entries) ==
  [signature |-> signature, checksum |-> checksum, full_length |-> TRUE, entries |-> entries]

\* 1 and 2 are the root tables and 4 is the MADT; 5 and 6 are broken; 7 and 8
\* are left over from something else and only a stray signature leads there.
Tables(madt) ==
  << Table("XSDT", TRUE, << 3, 5, 4 >>), Table("RSDT", TRUE, << 4, 3 >>),
     Table("FACP", TRUE, << >>), Table("APIC", TRUE, madt),
     Table("APIC", FALSE, << Lapic(3) >>), Table("XSDT", FALSE, << 4 >>),
     Table("RSDT", TRUE, << 8 >>), Table("APIC", TRUE, << Lapic(2) >>),
     [Table("APIC", TRUE, << Lapic(2) >>) EXCEPT !.full_length = FALSE],
     Table("XSDT", TRUE, << 9 >>) >>

Rsdp(revision, rsdt, xsdt) ==
  [signature |-> TRUE, checksum |-> TRUE, full_length |-> TRUE, extended_checksum |-> TRUE,
   revision |-> revision, rsdt |-> rsdt, xsdt |-> xsdt]
Junk == [Rsdp(0, 7, 0) EXCEPT !.signature = FALSE, !.checksum = FALSE]
Stray == [Rsdp(0, 7, 0) EXCEPT !.checksum = FALSE]
Corrupt == [Rsdp(2, 7, 7) EXCEPT !.extended_checksum = FALSE]

Firmware(limine, ebda_base, ebda, rom, madt) ==
  [limine |-> limine, ebda_base |-> ebda_base, ebda |-> ebda, rom |-> rom,
   tables |-> Tables(madt)]
Limine(reported, direct, mapped) ==
  [granted |-> FALSE, reported |-> reported, answered |-> TRUE, null |-> FALSE,
   direct |-> direct, mapped |-> mapped, canonical |-> TRUE]
Granted(direct, mapped) == [Limine(0, direct, mapped) EXCEPT !.granted = TRUE]
Silent == [Granted(Junk, Junk) EXCEPT !.answered = FALSE]
Moved(direct) == [Granted(direct, Junk) EXCEPT !.canonical = FALSE]
NoAddress == [Limine(3, Junk, Junk) EXCEPT !.null = TRUE]

\* The usual way; a physical address of base revision 3; an ACPI 1.0
\* descriptor; ACPI 2.0 without an XSDT; descriptors that only the scan finds,
\* in the EBDA and in the BIOS area, behind stray and corrupt ones; a broken
\* XSDT next to a sound RSDT; a MADT without room for its header; a descriptor
\* whose alias is no address, sound and corrupt; nothing.
MCFirmwares ==
  {Firmware(Granted(Rsdp(2, 2, 1), Junk), FALSE, << >>, << >>, m) : m \in Madts}
  \cup
  { Firmware(Limine(3, Stray, Rsdp(2, 2, 1)), FALSE, << >>, << >>, OneAp),
    Firmware(Granted(Rsdp(0, 2, 0), Junk), TRUE, << Junk >>, << >>, OneAp),
    Firmware(Limine(0, Junk, Rsdp(2, 2, 0)), FALSE, << >>, << >>, OneAp),
    Firmware(Granted(Corrupt, Junk), TRUE, << Stray, Rsdp(0, 2, 0) >>, << Stray >>, OneAp),
    Firmware(Silent, FALSE, << Rsdp(0, 7, 0) >>, << Junk, Stray, Rsdp(2, 2, 1) >>, OneAp),
    Firmware(Granted(Rsdp(2, 2, 6), Junk), FALSE, << >>, << >>, OneAp),
    Firmware(Granted(Rsdp(2, 2, 10), Junk), FALSE, << >>, << >>, OneAp),
    Firmware(Moved(Rsdp(2, 2, 1)), FALSE, << >>, << >>, OneAp),
    Firmware(Moved(Corrupt), FALSE, << >>, << Rsdp(2, 2, 1) >>, OneAp),
    Firmware(NoAddress, TRUE, << Junk >>, << Corrupt >>, OneAp) }

ASSUME MCListedOnce == ListedOnce

\* Bring-up does not look at the memory map: with more than one AP there is one
\* map, with the heap in usable memory.
MCInit ==
  /\ Init
  /\ Len(Starts(parse(acpi_init(firmware)))) > 1 =>
       memmap["low"] = "reserved" /\ memmap["heap"] = "usable"

MCSpec == MCInit /\ [][Next]_vars /\ WF_vars(Boot)
================================================================================
