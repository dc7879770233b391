------------------------------- MODULE ElfPatch -------------------------------
(***************************************************************************)
(* Hijacking one process() slot of the Evil binary (core/elf_patch.c), the *)
(* relabelling of its knobs (core/qml_patch.c) and the table of devices    *)
(* (core/model_targets.c), as operators over an abstract executable.       *)
(*                                                                         *)
(* An executable is its program headers, its length, the words and label   *)
(* texts the patcher looks at, the bytes between segments that are not     *)
(* zero, and the trampolines it carries.                                   *)
(***************************************************************************)
EXTENDS Naturals, FiniteSets

CONSTANTS Segments,    \* indices of the program headers
          TrampLen,    \* TRAMP_CODE_LEN: bytes a trampoline takes
          SlotLen,     \* bytes of a word: a vtable slot, a hook slot
          VaddrBase,   \* VADDR_BASE: the vaddr of file offset 0
          SlotOffset   \* PROCESS_SLOT * 4: place of process() in a vtable

ASSUME ElfAssumption ==
    /\ Segments \subseteq Nat
    /\ TrampLen \in Nat \ {0}
    /\ SlotLen \in Nat \ {0}
    /\ VaddrBase \in Nat
    /\ SlotOffset \in Nat

Segment == [load: BOOLEAN, flags: {"RX", "RW", "R"},
            off: Nat, vaddr: Nat, filesz: Nat, memsz: Nat]

\* A trampoline: where it is, the hook slot it reads, the function it falls
\* back on while that slot is zero.
Trampoline == [off: Nat, vaddr: Nat, slot: Nat, orig: Nat]

\* header: a 32-bit little-endian ARM ET_EXEC file with its header table
\* inside the file.
IsElf(e) ==
    /\ DOMAIN e = {"header", "len", "ph", "word", "nonzero", "tramp", "label"}
    /\ e.ph \in [Segments -> Segment]
    /\ e.tramp \subseteq Trampoline

-----------------------------------------------------------------------------
(* What the patcher looks for *)

Loads(e) == {s \in Segments : e.ph[s].load}

CodeSegments(e) == {s \in Loads(e) : e.ph[s].flags = "RX"}
DataSegments(e) == {s \in Loads(e) : e.ph[s].flags = "RW"}

CodeFileEnd(e, c) == e.ph[c].off + e.ph[c].filesz

\* next_idx: the loaded segment that begins first behind the code.
IsNext(e, c, n) ==
    LET later == {s \in Loads(e) \ {c} : e.ph[s].off >= CodeFileEnd(e, c)}
    IN  /\ n \in later
        /\ \A s \in later : \/ e.ph[n].off < e.ph[s].off
                            \/ e.ph[n].off = e.ph[s].off /\ n <= s

\* The gap behind the code holds a trampoline and is dead space.
GapIsFree(e, c, n) ==
    /\ e.ph[n].off - CodeFileEnd(e, c) >= TrampLen
    /\ \A b \in e.nonzero : ~ (CodeFileEnd(e, c) <= b /\ b < e.ph[n].off)

SlotFileOffset(vtable) == (vtable + SlotOffset) - VaddrBase

\* Variant: a slot that does not hold the function is patched all the same.
HijackableAnyway(e, vtable, fn, c, d, n) ==
    /\ e.header
    /\ SlotFileOffset(vtable) + SlotLen <= e.len
    /\ SlotFileOffset(vtable) \in DOMAIN e.word
    /\ CodeSegments(e) = {c}
    /\ DataSegments(e) = {d}
    /\ IsNext(e, c, n)
    /\ GapIsFree(e, c, n)

\* The guards of nam_elf_patch_gonkulator; everything else is refused before
\* a byte of the file is changed.
Hijackable(e, vtable, fn, c, d, n) ==
    /\ e.header
    /\ SlotFileOffset(vtable) + SlotLen <= e.len
    /\ SlotFileOffset(vtable) \in DOMAIN e.word
    /\ e.word[SlotFileOffset(vtable)] = fn
    /\ CodeSegments(e) = {c}
    /\ DataSegments(e) = {d}
    /\ IsNext(e, c, n)
    /\ GapIsFree(e, c, n)

HookSlot(e, d) == e.ph[d].vaddr + e.ph[d].memsz

TrampVaddr(e, c) == e.ph[c].vaddr + e.ph[c].filesz

\* Variant: the data segment does not grow with the hook slot.
SlotNotReserved(e, vtable, fn, c, d) ==
    [e EXCEPT
        !.ph[c].filesz = @ + TrampLen,
        !.ph[c].memsz = @ + TrampLen,
        !.word[SlotFileOffset(vtable)] = TrampVaddr(e, c),
        !.nonzero = @ \cup (CodeFileEnd(e, c) .. CodeFileEnd(e, c) + TrampLen - 1),
        !.tramp = @ \cup {[off |-> CodeFileEnd(e, c), vaddr |-> TrampVaddr(e, c),
                           slot |-> HookSlot(e, d), orig |-> fn]}]

\* Variant: the vtable slot gets the file offset of the trampoline.
SlotHoldsOffset(e, vtable, fn, c, d) ==
    [e EXCEPT
        !.ph[c].filesz = @ + TrampLen,
        !.ph[c].memsz = @ + TrampLen,
        !.ph[d].memsz = @ + SlotLen,
        !.word[SlotFileOffset(vtable)] = CodeFileEnd(e, c),
        !.nonzero = @ \cup (CodeFileEnd(e, c) .. CodeFileEnd(e, c) + TrampLen - 1),
        !.tramp = @ \cup {[off |-> CodeFileEnd(e, c), vaddr |-> TrampVaddr(e, c),
                           slot |-> HookSlot(e, d), orig |-> fn]}]

\* The binary after the hijack: trampoline written behind the code, both
\* segments grown, the vtable slot pointed at the trampoline.
Hijacked(e, vtable, fn, c, d) ==
    [e EXCEPT
        !.ph[c].filesz = @ + TrampLen,
        !.ph[c].memsz = @ + TrampLen,
        !.ph[d].memsz = @ + SlotLen,
        !.word[SlotFileOffset(vtable)] = TrampVaddr(e, c),
        !.nonzero = @ \cup (CodeFileEnd(e, c) .. CodeFileEnd(e, c) + TrampLen - 1),
        !.tramp = @ \cup {[off |-> CodeFileEnd(e, c), vaddr |-> TrampVaddr(e, c),
                           slot |-> HookSlot(e, d), orig |-> fn]}]

-----------------------------------------------------------------------------
(* Labels and devices.  A device record t of the table has the fields       *)
(* compatible, vtable and orig (per pedal) and renames, a set of            *)
(* [at, old, new].                                                          *)

\* nam_qml_patch; the new text is as long as the old one by construction of
\* the table.
Relabelable(e, t) ==
    \A r \in t.renames : r.at \in DOMAIN e.label /\ e.label[r.at] = r.old

Relabelled(e, t) ==
    [e EXCEPT !.label = [o \in DOMAIN @ |->
        IF \E r \in t.renames : r.at = o
        THEN (CHOOSE r \in t.renames : r.at = o).new
        ELSE @[o]]]

\* nam_select_target: the named device, or the one the image is for.
Selects(table, noName, name, compatible, m) ==
    /\ m \in DOMAIN table
    /\ \/ name = m
       \/ name = noName /\ table[m].compatible = compatible

-----------------------------------------------------------------------------
(* What a linker guarantees of a binary, and what a hijack has to keep      *)

\* Segments of a loaded program have bytes and do not overlap, neither in the
\* file nor in memory; memory keeps at least the distances of the file; the code has no
\* zero-initialised tail; the data comes last in memory.
LaidOut(e) ==
    /\ \A s \in Loads(e) : e.ph[s].filesz <= e.ph[s].memsz /\ e.ph[s].memsz > 0
    /\ \A s, t \in Loads(e) : (s # t /\ e.ph[s].off <= e.ph[t].off) =>
          /\ e.ph[s].off + e.ph[s].filesz <= e.ph[t].off
          /\ e.ph[s].vaddr + e.ph[s].memsz <= e.ph[t].vaddr
          /\ e.ph[t].off - e.ph[s].off <= e.ph[t].vaddr - e.ph[s].vaddr
    /\ \A s \in CodeSegments(e) : e.ph[s].filesz = e.ph[s].memsz
    /\ \A s \in DataSegments(e), t \in Loads(e) :
          e.ph[t].vaddr + e.ph[t].memsz <= e.ph[s].vaddr + e.ph[s].memsz

\* Every trampoline lies in the code segment and reads a word behind the file
\* part of the data segment (zero at program start).
TrampolinesMapped(e) ==
    \A t \in e.tramp, c \in CodeSegments(e), d \in DataSegments(e) :
        /\ e.ph[c].vaddr <= t.vaddr
        /\ t.vaddr + TrampLen <= e.ph[c].vaddr + e.ph[c].memsz
        /\ e.ph[c].off <= t.off /\ t.off + TrampLen <= CodeFileEnd(e, c)
        /\ e.ph[d].vaddr + e.ph[d].filesz <= t.slot
        /\ t.slot + SlotLen <= e.ph[d].vaddr + e.ph[d].memsz

\* No two trampolines share a byte of code or of their hook slots.
TrampolinesApart(e) ==
    \A t, u \in e.tramp : t # u =>
        /\ t.vaddr + TrampLen <= u.vaddr \/ u.vaddr + TrampLen <= t.vaddr
        /\ t.slot + SlotLen <= u.slot \/ u.slot + SlotLen <= t.slot

HooksSound(e) == LaidOut(e) /\ TrampolinesMapped(e) /\ TrampolinesApart(e)
===============================================================================
