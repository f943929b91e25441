----------------------------- MODULE MCSmpBoot -----------------------------
(* Boot processor 0 and up to three others: processors in and out of order,    *)
(* one that is only online-capable, ids that differ, and what may lie behind *)
(* the table: zeroes, a long item, and what looks like a processor.          *)
EXTENDS SmpBoot

Lapic(acpi, apic, flags) == [type |-> "lapic", len |-> 8, acpi |-> acpi, apic |-> apic, flags |-> flags]
Other(len) == [type |-> "other", len |-> len, acpi |-> 0, apic |-> 0, flags |-> "none"]

Plain    == <<Lapic(0, 0, "enabled"), Lapic(1, 1, "enabled"), Lapic(2, 2, "enabled"), Lapic(3, 3, "enabled"), Other(12)>>
LastLong == <<Other(6), Lapic(0, 0, "enabled"), Other(12), Lapic(1, 1, "enabled")>>
Disabled == <<Lapic(0, 0, "enabled"), Lapic(1, 1, "enabled"), Lapic(2, 2, "disabled")>>
Capable  == <<Other(12), Lapic(0, 0, "enabled"), Lapic(1, 1, "capable"), Other(10)>>
Swapped  == <<Lapic(1, 1, "enabled"), Lapic(0, 0, "enabled")>>
Shifted  == <<Lapic(1, 0, "enabled"), Lapic(2, 1, "enabled")>>
Mixed    == <<Lapic(0, 0, "enabled"), Lapic(1, 2, "enabled"), Lapic(2, 1, "enabled")>>

MCTables == {[items |-> items, behind |-> behind] :
                items \in {Plain, LastLong, Disabled, Capable, Swapped, Shifted, Mixed},
                behind \in {Other(0), Other(80), Lapic(3, 3, "enabled")}}
=============================================================================
