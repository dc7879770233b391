-------------------------- MODULE PatchPipelineProofs --------------------------
(***************************************************************************)
(* Proofs about the patch pipeline: a hijack keeps a sound binary sound,   *)
(* removing and creating files keeps a sound file system sound, and so     *)
(* does every run of the pipeline; and what is shipped is the stock image  *)
(* with four files put in their places, the binary hooked and the launcher *)
(* starting it with the hook slots.  All of it for every stock image,      *)
(* device table, number of attempts and set of mishaps.                    *)
(***************************************************************************)
EXTENDS PatchPipeline, FitImageProofs, FiniteSetTheorems, TLAPS

-----------------------------------------------------------------------------
(* The binary                                                               *)

\* What a hijack changes, component by component.
LEMMA HijackedParts ==
  ASSUME NEW e, IsElf(e), NEW vtable, NEW fn \in Nat,
         NEW c \in Segments, NEW d \in Segments, c # d,
         NEW h, h = Hijacked(e, vtable, fn, c, d)
  PROVE  /\ h.ph \in [Segments -> Segment]
         /\ h.ph[c] = [e.ph[c] EXCEPT !.filesz = @ + TrampLen, !.memsz = @ + TrampLen]
         /\ h.ph[d] = [e.ph[d] EXCEPT !.memsz = @ + SlotLen]
         /\ \A s \in Segments \ {c, d} : h.ph[s] = e.ph[s]
         /\ h.tramp = e.tramp \cup
               {[off |-> CodeFileEnd(e, c), vaddr |-> TrampVaddr(e, c),
                 slot |-> HookSlot(e, d), orig |-> fn]}
         /\ IsElf(h)
<1> DEFINE grownC == [e.ph[c] EXCEPT !.filesz = @ + TrampLen, !.memsz = @ + TrampLen]
           grownD == [e.ph[d] EXCEPT !.memsz = @ + SlotLen]
           tramp == [off |-> CodeFileEnd(e, c), vaddr |-> TrampVaddr(e, c),
                     slot |-> HookSlot(e, d), orig |-> fn]
           ph == [s \in Segments |-> IF s = c THEN grownC ELSE IF s = d THEN grownD ELSE e.ph[s]]
<1>1. /\ e.ph \in [Segments -> Segment] /\ e.tramp \subseteq Trampoline
      /\ DOMAIN e = {"header", "len", "ph", "word", "nonzero", "tramp", "label"}
      /\ TrampLen \in Nat /\ SlotLen \in Nat
  BY ElfAssumption DEF IsElf
<1>2. e.ph[c] \in Segment /\ e.ph[d] \in Segment
  BY <1>1
<1>3. /\ e.ph[c].off \in Nat /\ e.ph[c].vaddr \in Nat /\ e.ph[c].filesz \in Nat /\ e.ph[c].memsz \in Nat
      /\ e.ph[d].vaddr \in Nat /\ e.ph[d].memsz \in Nat
  BY <1>2 DEF Segment
<1>4. grownC \in Segment
  <2>1. e.ph[c].filesz + TrampLen \in Nat /\ e.ph[c].memsz + TrampLen \in Nat
    BY <1>1, <1>3
  <2>2. [e.ph[c] EXCEPT !.filesz = @ + TrampLen] \in Segment
    BY <1>2, <2>1 DEF Segment
  <2>3. grownC = [[e.ph[c] EXCEPT !.filesz = @ + TrampLen] EXCEPT !.memsz = e.ph[c].memsz + TrampLen]
    BY <1>2 DEF Segment
  <2> QED
    BY <2>1, <2>2, <2>3 DEF Segment
<1>5. grownD \in Segment
  BY <1>1, <1>2, <1>3 DEF Segment
<1>6. tramp \in Trampoline
  BY <1>3 DEF Trampoline, CodeFileEnd, TrampVaddr, HookSlot
<1>7. h.ph = ph
  <2>1. h.ph = [[[e.ph EXCEPT ![c].filesz = @ + TrampLen] EXCEPT ![c].memsz = @ + TrampLen]
                  EXCEPT ![d].memsz = @ + SlotLen]
    BY <1>1 DEF Hijacked
  <2>2. DOMAIN e.ph = Segments /\ e.ph = [s \in Segments |-> e.ph[s]]
    BY <1>1
  <2>3. [[e.ph EXCEPT ![c].filesz = @ + TrampLen] EXCEPT ![c].memsz = @ + TrampLen]
          = [s \in Segments |-> IF s = c THEN grownC ELSE e.ph[s]]
    BY <2>2, <1>2 DEF Segment
  <2>4. h.ph = [[s \in Segments |-> IF s = c THEN grownC ELSE e.ph[s]] EXCEPT ![d].memsz = @ + SlotLen]
    BY <2>1, <2>3
  <2>5. h.ph = [[s \in Segments |-> IF s = c THEN grownC ELSE e.ph[s]] EXCEPT ![d] = grownD]
    BY <2>4
  <2> HIDE DEF grownC, grownD
  <2> QED
    BY <2>5
<1>8. h.tramp = e.tramp \cup {tramp} /\ DOMAIN h = DOMAIN e
  BY <1>1 DEF Hijacked
<1> HIDE DEF grownC, grownD, tramp
<1>9. h.ph \in [Segments -> Segment]
  BY <1>1, <1>4, <1>5, <1>7
<1>10. IsElf(h)
  BY <1>1, <1>6, <1>8, <1>9 DEF IsElf
<1> QED
  BY <1>1, <1>7, <1>8, <1>9, <1>10 DEF grownC, grownD, tramp

\* A hijack of a sound binary leaves a sound binary (elf_patch.c:53-252).
LEMMA HijackKeepsSound ==
  ASSUME NEW e, IsElf(e), HooksSound(e), NEW vtable, NEW fn \in Nat,
         NEW c \in Segments, NEW d \in Segments, NEW n \in Segments,
         Hijackable(e, vtable, fn, c, d, n)
  PROVE  /\ IsElf(Hijacked(e, vtable, fn, c, d))
         /\ HooksSound(Hijacked(e, vtable, fn, c, d))
<1> DEFINE h == Hijacked(e, vtable, fn, c, d)
           tramp == [off |-> CodeFileEnd(e, c), vaddr |-> TrampVaddr(e, c),
                     slot |-> HookSlot(e, d), orig |-> fn]
<1>1. /\ e.ph \in [Segments -> Segment] /\ e.tramp \subseteq Trampoline
      /\ TrampLen \in Nat \ {0} /\ SlotLen \in Nat \ {0}
  BY ElfAssumption DEF IsElf
<1>2. /\ CodeSegments(e) = {c} /\ DataSegments(e) = {d} /\ IsNext(e, c, n)
      /\ e.ph[n].off - CodeFileEnd(e, c) >= TrampLen
  BY DEF Hijackable, GapIsFree
<1>3. c # d /\ c \in Loads(e) /\ d \in Loads(e)
  <2>1. c \in CodeSegments(e) /\ d \in DataSegments(e)
    BY <1>2
  <2> QED
    BY <2>1 DEF CodeSegments, DataSegments
<1>4. /\ h.ph \in [Segments -> Segment]
      /\ h.ph[c] = [e.ph[c] EXCEPT !.filesz = @ + TrampLen, !.memsz = @ + TrampLen]
      /\ h.ph[d] = [e.ph[d] EXCEPT !.memsz = @ + SlotLen]
      /\ \A s \in Segments \ {c, d} : h.ph[s] = e.ph[s]
      /\ h.tramp = e.tramp \cup {tramp}
      /\ IsElf(h)
  BY <1>3, HijackedParts
<1>5. \A s \in Segments :
        /\ h.ph[s].load = e.ph[s].load /\ h.ph[s].flags = e.ph[s].flags
        /\ h.ph[s].off = e.ph[s].off /\ h.ph[s].vaddr = e.ph[s].vaddr
        /\ h.ph[s].filesz = IF s = c THEN e.ph[s].filesz + TrampLen ELSE e.ph[s].filesz
        /\ h.ph[s].memsz = IF s = c THEN e.ph[s].memsz + TrampLen
                           ELSE IF s = d THEN e.ph[s].memsz + SlotLen ELSE e.ph[s].memsz
        /\ e.ph[s].off \in Nat /\ e.ph[s].vaddr \in Nat
        /\ e.ph[s].filesz \in Nat /\ e.ph[s].memsz \in Nat
  <2> SUFFICES ASSUME NEW s \in Segments
               PROVE  /\ h.ph[s].load = e.ph[s].load /\ h.ph[s].flags = e.ph[s].flags
                      /\ h.ph[s].off = e.ph[s].off /\ h.ph[s].vaddr = e.ph[s].vaddr
                      /\ h.ph[s].filesz = IF s = c THEN e.ph[s].filesz + TrampLen ELSE e.ph[s].filesz
                      /\ h.ph[s].memsz = IF s = c THEN e.ph[s].memsz + TrampLen
                                         ELSE IF s = d THEN e.ph[s].memsz + SlotLen ELSE e.ph[s].memsz
                      /\ e.ph[s].off \in Nat /\ e.ph[s].vaddr \in Nat
                      /\ e.ph[s].filesz \in Nat /\ e.ph[s].memsz \in Nat
    OBVIOUS
  <2> HIDE DEF h
  <2>1. e.ph[s] \in Segment
    BY <1>1
  <2>2. CASE s = c
    BY <1>3, <1>4, <2>1, <2>2 DEF Segment
  <2>3. CASE s = d
    BY <1>3, <1>4, <2>1, <2>3 DEF Segment
  <2>4. CASE s \notin {c, d}
    BY <1>4, <2>1, <2>4 DEF Segment
  <2> QED
    BY <2>2, <2>3, <2>4
<1> HIDE DEF h
<1>6. Loads(h) = Loads(e) /\ CodeSegments(h) = {c} /\ DataSegments(h) = {d}
  <2>1. Loads(h) = Loads(e)
    BY <1>5 DEF Loads
  <2>2. CodeSegments(h) = CodeSegments(e) /\ DataSegments(h) = DataSegments(e)
    BY <1>5, <2>1 DEF CodeSegments, DataSegments, Loads
  <2> QED
    BY <1>2, <2>1, <2>2
<1>7. Loads(e) \subseteq Segments
  BY DEF Loads
<1>8. /\ \A s \in Loads(e) : e.ph[s].filesz <= e.ph[s].memsz /\ e.ph[s].memsz > 0
      /\ \A s, t \in Loads(e) : (s # t /\ e.ph[s].off <= e.ph[t].off) =>
            /\ e.ph[s].off + e.ph[s].filesz <= e.ph[t].off
            /\ e.ph[s].vaddr + e.ph[s].memsz <= e.ph[t].vaddr
            /\ e.ph[t].off - e.ph[s].off <= e.ph[t].vaddr - e.ph[s].vaddr
      /\ e.ph[c].filesz = e.ph[c].memsz
      /\ \A t \in Loads(e) : e.ph[t].vaddr + e.ph[t].memsz <= e.ph[d].vaddr + e.ph[d].memsz
  BY <1>2 DEF HooksSound, LaidOut
<1>9. \* the trampoline fits between the code and whatever is loaded behind it
      \A t \in Loads(e) : (t # c /\ e.ph[c].off <= e.ph[t].off) =>
          /\ e.ph[c].off + e.ph[c].filesz + TrampLen <= e.ph[t].off
          /\ e.ph[c].vaddr + e.ph[c].memsz + TrampLen <= e.ph[t].vaddr
  <2> SUFFICES ASSUME NEW t \in Loads(e), t # c, e.ph[c].off <= e.ph[t].off
               PROVE  /\ e.ph[c].off + e.ph[c].filesz + TrampLen <= e.ph[t].off
                      /\ e.ph[c].vaddr + e.ph[c].memsz + TrampLen <= e.ph[t].vaddr
    OBVIOUS
  <2>1. e.ph[t].off >= CodeFileEnd(e, c)
    BY <1>3, <1>5, <1>7, <1>8 DEF CodeFileEnd
  <2>2. e.ph[n].off <= e.ph[t].off
    BY <1>2, <1>5, <1>7, <2>1 DEF IsNext
  <2> QED
    BY <1>1, <1>2, <1>3, <1>5, <1>7, <1>8, <2>2 DEF CodeFileEnd
<1>10. \* nothing is loaded behind the data
       \A t \in Loads(e) : t # d => e.ph[t].off < e.ph[d].off
  BY <1>3, <1>5, <1>7, <1>8
<1>11. LaidOut(h)
  <2>1. \A s \in Loads(h) : h.ph[s].filesz <= h.ph[s].memsz /\ h.ph[s].memsz > 0
    BY <1>1, <1>5, <1>6, <1>7, <1>8
  <2>2. ASSUME NEW s \in Loads(h), NEW t \in Loads(h), s # t, h.ph[s].off <= h.ph[t].off
        PROVE  /\ h.ph[s].off + h.ph[s].filesz <= h.ph[t].off
               /\ h.ph[s].vaddr + h.ph[s].memsz <= h.ph[t].vaddr
               /\ h.ph[t].off - h.ph[s].off <= h.ph[t].vaddr - h.ph[s].vaddr
    <3>0. s \in Segments /\ t \in Segments /\ s \in Loads(e) /\ t \in Loads(e)
      BY <1>6, <1>7
    <3>1. s # d
      BY <1>5, <1>10, <2>2, <3>0
    <3>2. CASE s = c
      BY <1>1, <1>5, <1>8, <1>9, <2>2, <3>0, <3>2
    <3>3. CASE s # c
      BY <1>1, <1>5, <1>8, <2>2, <3>0, <3>1, <3>3
    <3> QED
      BY <3>2, <3>3
  <2>3. h.ph[c].filesz = h.ph[c].memsz
    BY <1>5, <1>8
  <2>4. ASSUME NEW t \in Loads(h)
        PROVE  h.ph[t].vaddr + h.ph[t].memsz <= h.ph[d].vaddr + h.ph[d].memsz
    <3>1. CASE t = c
      <4>1. e.ph[c].vaddr + e.ph[c].memsz + TrampLen <= e.ph[d].vaddr
        BY <1>3, <1>5, <1>9, <1>10
      <4> QED
        BY <1>1, <1>3, <1>5, <3>1, <4>1
    <3>2. CASE t # c
      BY <1>1, <1>3, <1>5, <1>6, <1>7, <1>8, <3>2
    <3> QED
      BY <3>1, <3>2
  <2> QED
    BY <1>6, <2>1, <2>2, <2>3, <2>4 DEF LaidOut
<1>12. tramp.off = e.ph[c].off + e.ph[c].filesz /\ tramp.vaddr = e.ph[c].vaddr + e.ph[c].filesz
       /\ tramp.slot = e.ph[d].vaddr + e.ph[d].memsz
  BY DEF CodeFileEnd, TrampVaddr, HookSlot
<1>13. \A t \in e.tramp :
          /\ t.off \in Nat /\ t.vaddr \in Nat /\ t.slot \in Nat
          /\ e.ph[c].vaddr <= t.vaddr
          /\ t.vaddr + TrampLen <= e.ph[c].vaddr + e.ph[c].memsz
          /\ e.ph[c].off <= t.off /\ t.off + TrampLen <= e.ph[c].off + e.ph[c].filesz
          /\ e.ph[d].vaddr + e.ph[d].filesz <= t.slot
          /\ t.slot + SlotLen <= e.ph[d].vaddr + e.ph[d].memsz
  BY <1>1, <1>2 DEF HooksSound, TrampolinesMapped, CodeFileEnd, Trampoline
<1> HIDE DEF tramp
<1>14. TrampolinesMapped(h)
  <2>1. ASSUME NEW t \in h.tramp
        PROVE  /\ h.ph[c].vaddr <= t.vaddr
               /\ t.vaddr + TrampLen <= h.ph[c].vaddr + h.ph[c].memsz
               /\ h.ph[c].off <= t.off
               /\ t.off + TrampLen <= h.ph[c].off + h.ph[c].filesz
               /\ h.ph[d].vaddr + h.ph[d].filesz <= t.slot
               /\ t.slot + SlotLen <= h.ph[d].vaddr + h.ph[d].memsz
    <3>1. CASE t \in e.tramp
      BY <1>1, <1>3, <1>5, <1>13, <3>1
    <3>2. CASE t = tramp
      BY <1>1, <1>3, <1>5, <1>8, <1>12, <3>2
    <3> QED
      BY <1>4, <2>1, <3>1, <3>2
  <2> QED
    BY <1>6, <2>1 DEF TrampolinesMapped, CodeFileEnd
<1>15. TrampolinesApart(h)
  <2>1. ASSUME NEW t \in e.tramp
        PROVE  t.vaddr + TrampLen <= tramp.vaddr /\ t.slot + SlotLen <= tramp.slot
    BY <1>8, <1>12, <1>13
  <2>2. \A t, u \in e.tramp : t # u =>
            /\ t.vaddr + TrampLen <= u.vaddr \/ u.vaddr + TrampLen <= t.vaddr
            /\ t.slot + SlotLen <= u.slot \/ u.slot + SlotLen <= t.slot
    BY DEF HooksSound, TrampolinesApart
  <2> QED
    BY <1>4, <2>1, <2>2 DEF TrampolinesApart
<1> QED
  BY <1>4, <1>11, <1>14, <1>15 DEF HooksSound, h

-----------------------------------------------------------------------------
(* The file system                                                          *)

Distinct(seq) == \A k, l \in DOMAIN seq : k # l => seq[k] # seq[l]

\* Removing the first entry of a name.
LEMMA ShorterList ==
  ASSUME NEW seq \in Seq(Inodes), seq # <<>>, Distinct(seq)
  PROVE  /\ Head(seq) \in Inodes /\ Lists(seq, Head(seq))
         /\ Tail(seq) \in Seq(Inodes) /\ Distinct(Tail(seq))
         /\ \A j : Lists(Tail(seq), j) <=> Lists(seq, j) /\ j # Head(seq)
<1>1. /\ Len(seq) \in Nat \ {0} /\ DOMAIN seq = 1..Len(seq) /\ Head(seq) = seq[1]
      /\ Tail(seq) \in Seq(Inodes) /\ DOMAIN Tail(seq) = 1..(Len(seq) - 1)
      /\ \A k \in 1..(Len(seq) - 1) : Tail(seq)[k] = seq[k + 1]
  OBVIOUS
<1>2. Head(seq) \in Inodes /\ Lists(seq, Head(seq))
  BY <1>1 DEF Lists
<1>3. Distinct(Tail(seq))
  BY <1>1 DEF Distinct
<1>4. ASSUME NEW j, Lists(Tail(seq), j) PROVE Lists(seq, j) /\ j # Head(seq)
  <2>1. PICK k \in 1..(Len(seq) - 1) : seq[k + 1] = j
    BY <1>1, <1>4 DEF Lists
  <2> QED
    BY <1>1, <2>1 DEF Lists, Distinct
<1>5. ASSUME NEW j, Lists(seq, j), j # Head(seq) PROVE Lists(Tail(seq), j)
  <2>1. PICK k \in 1..Len(seq) : seq[k] = j
    BY <1>1, <1>5 DEF Lists
  <2>2. k - 1 \in 1..(Len(seq) - 1) /\ Tail(seq)[k - 1] = j
    BY <1>1, <1>5, <2>1
  <2> QED
    BY <1>1, <2>2 DEF Lists
<1> QED
  BY <1>1, <1>2, <1>3, <1>4, <1>5

\* Adding an entry, before or behind those there are.
LEMMA LongerList ==
  ASSUME NEW seq \in Seq(Inodes), NEW i \in Inodes, ~ Lists(seq, i), Distinct(seq),
         NEW longer, longer = <<i>> \o seq \/ longer = Append(seq, i)
  PROVE  /\ longer \in Seq(Inodes) /\ Distinct(longer)
         /\ \A j : Lists(longer, j) <=> Lists(seq, j) \/ j = i
<1>1. Len(seq) \in Nat /\ DOMAIN seq = 1..Len(seq)
  OBVIOUS
<1>2. CASE longer = <<i>> \o seq
  <2>1. /\ longer \in Seq(Inodes) /\ DOMAIN longer = 1..(Len(seq) + 1) /\ longer[1] = i
        /\ \A k \in 2..(Len(seq) + 1) : longer[k] = seq[k - 1]
    BY <1>2
  <2>2. \A k \in DOMAIN seq : k + 1 \in DOMAIN longer /\ longer[k + 1] = seq[k]
    BY <1>1, <2>1
  <2> HIDE <1>2
  <2>5. \A k \in 2..(Len(seq) + 1) : k - 1 \in DOMAIN seq /\ longer[k] # i
    BY <1>1, <2>1 DEF Lists
  <2>3. Distinct(longer)
    <3>1. ASSUME NEW k \in DOMAIN longer, NEW l \in DOMAIN longer, k # l
          PROVE  longer[k] # longer[l]
      <4>1. CASE k = 1
        BY <1>1, <2>1, <2>5, <3>1, <4>1
      <4>2. CASE l = 1
        BY <1>1, <2>1, <2>5, <3>1, <4>2
      <4>3. CASE k # 1 /\ l # 1
        <5>1. k - 1 \in DOMAIN seq /\ l - 1 \in DOMAIN seq /\ k - 1 # l - 1
          BY <1>1, <2>1, <3>1, <4>3
        <5>2. longer[k] = seq[k - 1] /\ longer[l] = seq[l - 1]
          BY <1>1, <2>1, <4>3
        <5> QED
          BY <5>1, <5>2 DEF Distinct
      <4> QED
        BY <4>1, <4>2, <4>3
    <3> QED
      BY <3>1 DEF Distinct
  <2>4. ASSUME NEW j PROVE Lists(longer, j) <=> Lists(seq, j) \/ j = i
    <3>1. ASSUME Lists(longer, j) PROVE Lists(seq, j) \/ j = i
      <4>1. PICK k \in DOMAIN longer : longer[k] = j
        BY <3>1 DEF Lists
      <4>2. CASE k = 1
        BY <2>1, <4>1, <4>2
      <4>3. CASE k # 1
        <5>1. k \in 2..(Len(seq) + 1)
          BY <1>1, <2>1, <4>3
        <5>2. k - 1 \in DOMAIN seq /\ seq[k - 1] = j
          BY <2>1, <2>5, <4>1, <5>1
        <5> QED
          BY <5>2 DEF Lists
      <4> QED
        BY <4>2, <4>3
    <3>2. ASSUME Lists(seq, j) PROVE Lists(longer, j)
      BY <2>2, <3>2 DEF Lists
    <3>3. i = j => Lists(longer, j)
      BY <1>1, <2>1 DEF Lists
    <3> QED
      BY <3>1, <3>2, <3>3
  <2> QED
    BY <2>1, <2>3, <2>4
<1>3. CASE longer = Append(seq, i)
  <2>1. /\ longer \in Seq(Inodes) /\ DOMAIN longer = 1..(Len(seq) + 1) /\ longer[Len(seq) + 1] = i
        /\ \A k \in 1..Len(seq) : longer[k] = seq[k]
    BY <1>3
  <2>2. Distinct(longer)
    BY <1>1, <2>1 DEF Distinct, Lists
  <2>3. ASSUME NEW j PROVE Lists(longer, j) <=> Lists(seq, j) \/ j = i
    BY <1>1, <2>1 DEF Lists
  <2> QED
    BY <2>1, <2>2, <2>3
<1> QED
  BY <1>2, <1>3

LEMMA LinkedFinite ==
  ASSUME NEW fs1, NEW i
  PROVE  /\ IsFiniteSet(Linked(fs1, i)) /\ Cardinality(Linked(fs1, i)) \in Nat
         /\ \A S \in SUBSET Linked(fs1, i) :
               IsFiniteSet(S) /\ Cardinality(S) \in Nat /\ Cardinality(S) <= Cardinality(Linked(fs1, i))
<1>1. IsFiniteSet(Dirs \X Names)
  BY Ext4Assumption, FS_Product
<1>2. Linked(fs1, i) \subseteq Dirs \X Names
  BY DEF Linked
<1>3. IsFiniteSet(Linked(fs1, i))
  BY <1>1, <1>2, FS_Subset
<1> QED
  BY <1>3, FS_Subset, FS_CardinalityType

\* The conditions of a sound file system, each by its name.
OwnersApart(x) ==
    /\ \A i, j \in InUse(x) : i # j => x.blocks[i] \cap x.blocks[j] = {}
    /\ \A i \in InUse(x), d \in Dirs : x.blocks[i] \cap x.dirBlocks[d] = {}
    /\ \A c, d \in Dirs : c # d => x.dirBlocks[c] \cap x.dirBlocks[d] = {}

EntriesSound(x) ==
    /\ \A d \in Dirs, n \in Names : Distinct(x.entry[d][n])
    /\ \A i \in Inodes : Cardinality(Linked(x, i)) <= x.links[i]

LEMMA FsSoundParts ==
  ASSUME NEW x
  PROVE  FsSound(x) <=> /\ OwnersApart(x) /\ Claimed(x) \subseteq x.bmap
                        /\ InUse(x) = x.imap /\ EntriesSound(x)
BY DEF FsSound, OwnersApart, EntriesSound, Distinct

LEMMA ClaimedBlock ==
  ASSUME NEW x, NEW b
  PROVE  b \in Claimed(x) <=> \/ \E i \in InUse(x) : b \in x.blocks[i]
                             \/ \E d \in Dirs : b \in x.dirBlocks[d]
<1> DEFINE files == UNION {x.blocks[i] : i \in InUse(x)}
           directories == UNION {x.dirBlocks[d] : d \in Dirs}
<1>1. b \in files <=> \E i \in InUse(x) : b \in x.blocks[i]
  OBVIOUS
<1>2. b \in directories <=> \E d \in Dirs : b \in x.dirBlocks[d]
  OBVIOUS
<1>3. Claimed(x) = files \cup directories
  BY DEF Claimed
<1> HIDE DEF files, directories
<1>4. b \in Claimed(x) <=> b \in files \/ b \in directories
  BY <1>3
<1> QED
  BY <1>1, <1>2, <1>4

LEMMA LinkedAt ==
  ASSUME NEW x, NEW i, NEW d \in Dirs, NEW n \in Names
  PROVE  <<d, n>> \in Linked(x, i) <=> Lists(x.entry[d][n], i)
BY DEF Linked

\* What removing a file does, whether the file system is sound or not.
RemovedTo(x, r, d, n, i) ==
    /\ IsFs(r)
    /\ r.data = x.data /\ r.blocks = x.blocks /\ r.dirBlocks = x.dirBlocks
    /\ x.links[i] > 1 => /\ r.links = [x.links EXCEPT ![i] = x.links[i] - 1]
                         /\ r.imap = x.imap /\ r.bmap = x.bmap
    /\ ~ x.links[i] > 1 => /\ r.links = [x.links EXCEPT ![i] = 0]
                           /\ r.imap = x.imap \ {i} /\ r.bmap = x.bmap \ x.blocks[i]
    /\ r.entry[d][n] = Tail(x.entry[d][n])
    /\ \A c \in Dirs, m \in Names : <<c, m>> # <<d, n>> => r.entry[c][m] = x.entry[c][m]

LEMMA RemovedParts ==
  ASSUME NEW x, IsFs(x), NEW d \in Dirs, NEW n \in Names, Exists(x, d, n)
  PROVE  RemovedTo(x, Removed(x, d, n), d, n, Lookup(x, d, n))
<1> DEFINE r == Removed(x, d, n)
           i == Lookup(x, d, n)
           seq == x.entry[d][n]
<1>1. /\ DOMAIN x = {"entry", "room", "dirBlocks", "links", "blocks", "data", "imap", "bmap"}
      /\ x.entry \in [Dirs -> [Names -> Seq(Inodes)]]
      /\ x.room \in [Dirs -> Nat] /\ x.dirBlocks \in [Dirs -> SUBSET Blocks]
      /\ x.links \in [Inodes -> Nat] /\ x.blocks \in [Inodes -> SUBSET Blocks]
      /\ DOMAIN x.data = Inodes /\ x.imap \subseteq Inodes /\ x.bmap \subseteq Blocks
  BY DEF IsFs
<1>2. seq \in Seq(Inodes) /\ seq # <<>>
  BY <1>1 DEF Exists
<1>3. i \in Inodes /\ Tail(seq) \in Seq(Inodes)
  BY <1>2 DEF Lookup
<1> HIDE DEF i
<1>4. /\ r.entry = [x.entry EXCEPT ![d] = [x.entry[d] EXCEPT ![n] = Tail(seq)]]
      /\ r.room = [x.room EXCEPT ![d] = x.room[d] + 1]
      /\ r.dirBlocks = x.dirBlocks /\ r.blocks = x.blocks /\ r.data = x.data
      /\ DOMAIN r = DOMAIN x
      /\ x.links[i] > 1 => /\ r.links = [x.links EXCEPT ![i] = x.links[i] - 1]
                           /\ r.imap = x.imap /\ r.bmap = x.bmap
      /\ ~ x.links[i] > 1 => /\ r.links = [x.links EXCEPT ![i] = 0]
                             /\ r.imap = x.imap \ {i} /\ r.bmap = x.bmap \ x.blocks[i]
  <2>1. x.links[i] > 1 => r = [WithoutEntry(x, d, n) EXCEPT !.links[i] = @ - 1]
    BY DEF Removed, i
  <2>2. ~ x.links[i] > 1 => r = [WithoutEntry(x, d, n) EXCEPT
                                    !.links[i] = 0, !.bmap = @ \ x.blocks[i], !.imap = @ \ {i}]
    BY DEF Removed, i
  <2> DEFINE w == WithoutEntry(x, d, n)
  <2>3. /\ w.entry = [x.entry EXCEPT ![d] = [x.entry[d] EXCEPT ![n] = Tail(seq)]]
        /\ w.room = [x.room EXCEPT ![d] = x.room[d] + 1]
        /\ w.dirBlocks = x.dirBlocks /\ w.blocks = x.blocks /\ w.data = x.data
        /\ w.links = x.links /\ w.imap = x.imap /\ w.bmap = x.bmap
        /\ DOMAIN w = DOMAIN x
    BY <1>1 DEF WithoutEntry
  <2> HIDE DEF w, r
  <2>4. CASE x.links[i] > 1
    <3>1. r = [w EXCEPT !.links[i] = @ - 1]
      BY <2>1, <2>4 DEF w
    <3> QED
      BY <1>1, <2>3, <2>4, <3>1
  <2>5. CASE ~ x.links[i] > 1
    <3>1. r = [w EXCEPT !.links[i] = 0, !.bmap = @ \ x.blocks[i], !.imap = @ \ {i}]
      BY <2>2, <2>5 DEF w
    <3> QED
      BY <1>1, <2>3, <2>5, <3>1
  <2> QED
    BY <2>4, <2>5
<1> HIDE DEF r
<1>5. /\ r.entry[d][n] = Tail(seq)
      /\ \A c \in Dirs, m \in Names : <<c, m>> # <<d, n>> => r.entry[c][m] = x.entry[c][m]
      /\ r.entry \in [Dirs -> [Names -> Seq(Inodes)]]
  BY <1>1, <1>3, <1>4
<1>6. r.room \in [Dirs -> Nat]
  BY <1>1, <1>4
<1>7. r.links \in [Inodes -> Nat]
  <2>1. x.links[i] \in Nat /\ (x.links[i] > 1 => x.links[i] - 1 \in Nat)
    BY <1>1, <1>3
  <2>2. CASE x.links[i] > 1
    BY <1>1, <1>3, <1>4, <2>1, <2>2
  <2>3. CASE ~ x.links[i] > 1
    <3>1. r.links = [x.links EXCEPT ![i] = 0]
      BY <1>4, <2>3
    <3>2. x.links \in [Inodes -> Nat]
      BY <1>1
    <3>3. PICK l : l = x.links
      OBVIOUS
    <3>4. 0 \in Nat /\ l \in [Inodes -> Nat] /\ r.links = [l EXCEPT ![i] = 0]
      BY <3>1, <3>2, <3>3
    <3>5. [l EXCEPT ![i] = 0] \in [Inodes -> Nat]
      BY <3>4
    <3> QED
      BY <3>4, <3>5
  <2> QED
    BY <2>2, <2>3
<1>8. IsFs(r)
  BY <1>1, <1>4, <1>5, <1>6, <1>7 DEF IsFs
<1>9. RemovedTo(x, r, d, n, i)
  BY <1>4, <1>5, <1>8 DEF RemovedTo
<1> QED
  BY <1>9 DEF r, i

\* remove_if_exists (ext4_image.c:112-155), with or without a further link.
LEMMA RemoveKeepsSound ==
  ASSUME NEW x, IsFs(x), FsSound(x), NEW d \in Dirs, NEW n \in Names, Exists(x, d, n),
         NEW r, r = Removed(x, d, n)
  PROVE  IsFs(r) /\ FsSound(r) /\ Leaked(r) \subseteq Leaked(x)
<1> DEFINE i == Lookup(x, d, n)
           seq == x.entry[d][n]
<1>1. /\ DOMAIN x = {"entry", "room", "dirBlocks", "links", "blocks", "data", "imap", "bmap"}
      /\ x.entry \in [Dirs -> [Names -> Seq(Inodes)]]
      /\ x.room \in [Dirs -> Nat] /\ x.dirBlocks \in [Dirs -> SUBSET Blocks]
      /\ x.links \in [Inodes -> Nat] /\ x.blocks \in [Inodes -> SUBSET Blocks]
      /\ DOMAIN x.data = Inodes /\ x.imap \subseteq Inodes /\ x.bmap \subseteq Blocks
  BY DEF IsFs
<1>2. /\ OwnersApart(x) /\ Claimed(x) \subseteq x.bmap
      /\ InUse(x) = x.imap /\ EntriesSound(x)
  BY FsSoundParts
<1>3. seq \in Seq(Inodes) /\ seq # <<>> /\ Distinct(seq)
  BY <1>1, <1>2 DEF Exists, EntriesSound
<1>4. /\ i \in Inodes /\ Lists(seq, i)
      /\ Tail(seq) \in Seq(Inodes) /\ Distinct(Tail(seq))
      /\ \A j : Lists(Tail(seq), j) <=> Lists(seq, j) /\ j # i
  BY <1>3, ShorterList DEF Lookup
<1>5. RemovedTo(x, r, d, n, i)
  BY RemovedParts
<1> HIDE DEF i
<1>6. /\ r.dirBlocks = x.dirBlocks /\ r.blocks = x.blocks /\ IsFs(r)
      /\ x.links[i] > 1 => /\ r.links = [x.links EXCEPT ![i] = x.links[i] - 1]
                           /\ r.imap = x.imap /\ r.bmap = x.bmap
      /\ ~ x.links[i] > 1 => /\ r.links = [x.links EXCEPT ![i] = 0]
                             /\ r.imap = x.imap \ {i} /\ r.bmap = x.bmap \ x.blocks[i]
  BY <1>5 DEF RemovedTo
<1>7. \A c \in Dirs, m \in Names : r.entry[c][m] = IF c = d /\ m = n THEN Tail(seq) ELSE x.entry[c][m]
  BY <1>5 DEF RemovedTo
<1>8. \* the links that are left
      /\ Linked(r, i) = Linked(x, i) \ {<<d, n>>}
      /\ <<d, n>> \in Linked(x, i)
      /\ \A j \in Inodes \ {i} : Linked(r, j) = Linked(x, j)
  <2> HIDE DEF seq
  <2>1. ASSUME NEW c \in Dirs, NEW m \in Names, NEW j \in Inodes
        PROVE  <<c, m>> \in Linked(r, j) <=>
                  <<c, m>> \in Linked(x, j) /\ ~ (j = i /\ c = d /\ m = n)
    <3>0. /\ <<c, m>> \in Linked(r, j) <=> Lists(r.entry[c][m], j)
          /\ <<c, m>> \in Linked(x, j) <=> Lists(x.entry[c][m], j)
      BY LinkedAt
    <3>1. CASE c = d /\ m = n
      <4>1. r.entry[c][m] = Tail(seq) /\ x.entry[c][m] = seq
        BY <1>7, <3>1 DEF seq
      <4>2. Lists(Tail(seq), j) <=> Lists(seq, j) /\ j # i
        BY <1>4
      <4> QED
        BY <3>0, <3>1, <4>1, <4>2, Zenon
    <3>2. CASE ~ (c = d /\ m = n)
      <4>1. r.entry[c][m] = x.entry[c][m]
        BY <1>7, <3>2
      <4> QED
        BY <3>0, <3>2, <4>1, Zenon
    <3> QED
      BY <3>1, <3>2
  <2>2. \A j : Linked(r, j) \subseteq Dirs \X Names /\ Linked(x, j) \subseteq Dirs \X Names
    BY DEF Linked
  <2>3. <<d, n>> \in Linked(x, i)
    BY <1>4, LinkedAt DEF seq
  <2>4. \A j \in Inodes, p \in Dirs \X Names :
          p \in Linked(r, j) <=> p \in Linked(x, j) /\ ~ (j = i /\ p = <<d, n>>)
    BY <2>1
  <2>5. Linked(r, i) = Linked(x, i) \ {<<d, n>>}
    BY <1>4, <2>2, <2>4
  <2>6. \A j \in Inodes \ {i} : Linked(r, j) = Linked(x, j)
    BY <2>2, <2>4
  <2> QED
    BY <2>3, <2>5, <2>6
<1>9. /\ Cardinality(Linked(r, i)) = Cardinality(Linked(x, i)) - 1
      /\ Cardinality(Linked(x, i)) \in Nat
      /\ Cardinality(Linked(x, i)) <= x.links[i]
      /\ Cardinality(Linked(r, i)) \in Nat
  <2>1. IsFiniteSet(Linked(x, i)) /\ Cardinality(Linked(x, i)) \in Nat
        /\ Cardinality(Linked(r, i)) \in Nat
    BY LinkedFinite
  <2>2. Cardinality(Linked(x, i) \ {<<d, n>>}) = Cardinality(Linked(x, i)) - 1
    BY <1>8, <2>1, FS_RemoveElement
  <2> QED
    BY <1>2, <1>4, <1>8, <2>1, <2>2 DEF EntriesSound
<1>10. x.links[i] \in Nat /\ x.links[i] >= 1 /\ i \in InUse(x)
  BY <1>1, <1>4, <1>9 DEF InUse
<1>11. EntriesSound(r)
  <2>1. \A c \in Dirs, m \in Names : Distinct(r.entry[c][m])
    BY <1>2, <1>4, <1>7 DEF EntriesSound
  <2>2. ASSUME NEW j \in Inodes PROVE Cardinality(Linked(r, j)) <= r.links[j]
    <3>1. CASE j = i
      BY <1>1, <1>4, <1>6, <1>9, <1>10, <3>1
    <3>2. CASE j # i
      BY <1>1, <1>2, <1>4, <1>6, <1>8, <3>2 DEF EntriesSound
    <3> QED
      BY <3>1, <3>2
  <2> QED
    BY <2>1, <2>2 DEF EntriesSound
<1>12. CASE x.links[i] > 1
  <2>1. InUse(r) = InUse(x)
    <3>1. \A j \in Inodes : r.links[j] > 0 <=> x.links[j] > 0
      <4>1. x.links[i] - 1 > 0 /\ r.links = [x.links EXCEPT ![i] = x.links[i] - 1]
        BY <1>1, <1>4, <1>6, <1>12
      <4> QED
        BY <1>1, <1>4, <1>12, <4>1
    <3> QED
      BY <3>1 DEF InUse
  <2>2. Claimed(r) = Claimed(x)
    BY <1>6, <2>1 DEF Claimed
  <2>3. OwnersApart(r)
    BY <1>2, <1>6, <2>1 DEF OwnersApart
  <2> QED
    BY <1>2, <1>6, <1>11, <1>12, <2>1, <2>2, <2>3, FsSoundParts DEF Leaked
<1>13. CASE ~ x.links[i] > 1
  <2>1. InUse(r) = InUse(x) \ {i}
    BY <1>1, <1>4, <1>6, <1>13 DEF InUse
  <2>2. Claimed(r) = Claimed(x) \ x.blocks[i]
    <3>1. ASSUME NEW b PROVE b \in Claimed(r) <=> b \in Claimed(x) /\ b \notin x.blocks[i]
      BY <1>2, <1>6, <1>10, <2>1, ClaimedBlock DEF OwnersApart
    <3> QED
      BY <3>1
  <2>3. OwnersApart(r)
    BY <1>2, <1>6, <2>1 DEF OwnersApart
  <2> QED
    BY <1>2, <1>6, <1>11, <1>13, <2>1, <2>2, <2>3, FsSoundParts DEF Leaked
<1> QED
  BY <1>12, <1>13

\* The same of nam_ext4_inject after the look-up.
CreatedTo(x, r, d, n, content, i, B, X) ==
    /\ IsFs(r)
    /\ r.data = Written(x, i, B \cup X, content)
    /\ r.links = [x.links EXCEPT ![i] = 1] /\ r.blocks = [x.blocks EXCEPT ![i] = B]
    /\ r.dirBlocks = [x.dirBlocks EXCEPT ![d] = x.dirBlocks[d] \cup X]
    /\ r.imap = x.imap \cup {i} /\ r.bmap = (x.bmap \cup B) \cup X
    /\ r.entry[d][n] = <<i>> \o x.entry[d][n] \/ r.entry[d][n] = Append(x.entry[d][n], i)
    /\ \A c \in Dirs, m \in Names : <<c, m>> # <<d, n>> => r.entry[c][m] = x.entry[c][m]

LEMMA CreatedParts ==
  ASSUME NEW x, IsFs(x), NEW d \in Dirs, NEW n \in Names, NEW content, NEW size,
         NEW i, NEW B, NEW X, NEW ahead \in BOOLEAN, Allocates(x, d, size, i, B, X)
  PROVE  CreatedTo(x, Created(x, d, n, content, i, B, X, ahead), d, n, content, i, B, X)
<1> DEFINE r == Created(x, d, n, content, i, B, X, ahead)
<1>1. /\ DOMAIN x = {"entry", "room", "dirBlocks", "links", "blocks", "data", "imap", "bmap"}
      /\ x.entry \in [Dirs -> [Names -> Seq(Inodes)]]
      /\ x.room \in [Dirs -> Nat] /\ x.dirBlocks \in [Dirs -> SUBSET Blocks]
      /\ x.links \in [Inodes -> Nat] /\ x.blocks \in [Inodes -> SUBSET Blocks]
      /\ DOMAIN x.data = Inodes /\ x.imap \subseteq Inodes /\ x.bmap \subseteq Blocks
  BY DEF IsFs
<1>2. /\ i \in Inodes \ x.imap
      /\ X \subseteq Blocks \ x.bmap /\ B \subseteq (Blocks \ x.bmap) \ X
      /\ Cardinality(X) = IF x.room[d] = 0 THEN 1 ELSE 0
  BY DEF Allocates, FirstOf
<1> DEFINE longer == IF ahead THEN <<i>> \o x.entry[d][n] ELSE Append(x.entry[d][n], i)
           newRoom == (IF X = {} THEN x.room[d] ELSE x.room[d] + DirRoom) - 1
<1>3. /\ r.entry = [x.entry EXCEPT ![d] = [x.entry[d] EXCEPT ![n] = longer]]
      /\ r.room = [x.room EXCEPT ![d] = newRoom]
      /\ r.dirBlocks = [x.dirBlocks EXCEPT ![d] = x.dirBlocks[d] \cup X]
      /\ r.links = [x.links EXCEPT ![i] = 1]
      /\ r.blocks = [x.blocks EXCEPT ![i] = B]
      /\ r.data = Written(x, i, B \cup X, content)
      /\ r.imap = x.imap \cup {i} /\ r.bmap = (x.bmap \cup B) \cup X
      /\ DOMAIN r = DOMAIN x
  <2> DEFINE w == WithEntry(x, d, n, i, X, ahead)
  <2>1. /\ w.entry = [x.entry EXCEPT ![d] = [x.entry[d] EXCEPT ![n] = longer]]
        /\ w.room = [x.room EXCEPT ![d] = newRoom]
        /\ w.dirBlocks = [x.dirBlocks EXCEPT ![d] = x.dirBlocks[d] \cup X]
        /\ w.links = x.links /\ w.blocks = x.blocks /\ w.imap = x.imap /\ w.bmap = x.bmap
        /\ DOMAIN w = DOMAIN x
    BY <1>1 DEF WithEntry
  <2>2. r = [w EXCEPT !.links[i] = 1, !.blocks[i] = B, !.data = Written(x, i, B \cup X, content),
                      !.imap = @ \cup {i}, !.bmap = @ \cup B \cup X]
    BY DEF Created
  <2> HIDE DEF w, longer, newRoom, r
  <2>3. /\ r.entry = w.entry /\ r.room = w.room /\ r.dirBlocks = w.dirBlocks
        /\ r.links = [w.links EXCEPT ![i] = 1] /\ r.blocks = [w.blocks EXCEPT ![i] = B]
        /\ r.data = Written(x, i, B \cup X, content)
        /\ r.imap = w.imap \cup {i} /\ r.bmap = (w.bmap \cup B) \cup X
        /\ DOMAIN r = DOMAIN w
    BY <1>1, <2>1, <2>2
  <2> QED
    BY <2>1, <2>3
<1> HIDE DEF r
<1>4. longer = <<i>> \o x.entry[d][n] \/ longer = Append(x.entry[d][n], i)
  OBVIOUS
<1>5. longer \in Seq(Inodes)
  <2>1. PICK s : s = x.entry[d][n]
    OBVIOUS
  <2>2. s \in Seq(Inodes) /\ i \in Inodes
    BY <1>1, <1>2, <2>1
  <2>3. longer = <<i>> \o s \/ longer = Append(s, i)
    BY <1>4, <2>1
  <2> HIDE DEF longer
  <2>4. <<i>> \o s \in Seq(Inodes) /\ Append(s, i) \in Seq(Inodes)
    BY <2>2
  <2> QED
    BY <2>3, <2>4
<1> HIDE DEF longer
<1>6. /\ r.entry[d][n] = longer
      /\ \A c \in Dirs, m \in Names : <<c, m>> # <<d, n>> => r.entry[c][m] = x.entry[c][m]
      /\ r.entry \in [Dirs -> [Names -> Seq(Inodes)]]
  BY <1>1, <1>3, <1>5
<1>7. r.room \in [Dirs -> Nat]
  <2>1. newRoom \in Nat
    <3>1. X = {} => x.room[d] # 0
      BY <1>2, FS_EmptySet
    <3> QED
      BY <1>1, <3>1, Ext4Assumption
  <2> QED
    BY <1>1, <1>3, <2>1
<1>8. DOMAIN r.data = Inodes
  BY <1>3 DEF Written
<1>9. r.dirBlocks \in [Dirs -> SUBSET Blocks] /\ r.blocks \in [Inodes -> SUBSET Blocks]
      /\ r.links \in [Inodes -> Nat]
  BY <1>1, <1>2, <1>3
<1>10. IsFs(r)
  BY <1>1, <1>2, <1>3, <1>6, <1>7, <1>8, <1>9 DEF IsFs
<1>11. CreatedTo(x, r, d, n, content, i, B, X)
  BY <1>3, <1>4, <1>6, <1>10 DEF CreatedTo
<1> QED
  BY <1>11 DEF r

\* nam_ext4_inject after the look-up (ext4_image.c:220-322): free blocks and a
\* free inode are taken.
LEMMA CreateKeepsSound ==
  ASSUME NEW x, IsFs(x), FsSound(x), NEW d \in Dirs, NEW n \in Names, NEW content, NEW size,
         NEW i, NEW B, NEW X, NEW ahead \in BOOLEAN,
         Allocates(x, d, size, i, B, X),
         NEW r, r = Created(x, d, n, content, i, B, X, ahead)
  PROVE  IsFs(r) /\ FsSound(r) /\ Leaked(r) \subseteq Leaked(x)
<1>1. /\ DOMAIN x = {"entry", "room", "dirBlocks", "links", "blocks", "data", "imap", "bmap"}
      /\ x.entry \in [Dirs -> [Names -> Seq(Inodes)]]
      /\ x.room \in [Dirs -> Nat] /\ x.dirBlocks \in [Dirs -> SUBSET Blocks]
      /\ x.links \in [Inodes -> Nat] /\ x.blocks \in [Inodes -> SUBSET Blocks]
      /\ DOMAIN x.data = Inodes /\ x.imap \subseteq Inodes /\ x.bmap \subseteq Blocks
  BY DEF IsFs
<1>2. /\ OwnersApart(x) /\ Claimed(x) \subseteq x.bmap
      /\ InUse(x) = x.imap /\ EntriesSound(x)
  BY FsSoundParts
<1>3. /\ i \in Inodes \ x.imap
      /\ X \subseteq Blocks \ x.bmap /\ B \subseteq (Blocks \ x.bmap) \ X
      /\ Cardinality(X) = IF x.room[d] = 0 THEN 1 ELSE 0
  BY DEF Allocates, FirstOf
<1>4. Linked(x, i) = {} /\ x.links[i] = 0 /\ i \notin InUse(x)
  <2>1. x.links[i] = 0 /\ i \notin InUse(x)
    BY <1>1, <1>2, <1>3 DEF InUse
  <2>2. IsFiniteSet(Linked(x, i)) /\ Cardinality(Linked(x, i)) = 0
    BY <1>2, <1>3, <2>1, LinkedFinite DEF EntriesSound
  <2> QED
    BY <2>1, <2>2, FS_EmptySet
<1>5. ~ Lists(x.entry[d][n], i) /\ x.entry[d][n] \in Seq(Inodes) /\ Distinct(x.entry[d][n])
  <2>1. <<d, n>> \in Linked(x, i) <=> Lists(x.entry[d][n], i)
    BY LinkedAt
  <2>2. ~ Lists(x.entry[d][n], i)
    BY <1>4, <2>1, Zenon
  <2> QED
    BY <1>1, <1>2, <2>2 DEF EntriesSound
<1>7. /\ r.links = [x.links EXCEPT ![i] = 1] /\ r.blocks = [x.blocks EXCEPT ![i] = B]
      /\ r.dirBlocks = [x.dirBlocks EXCEPT ![d] = x.dirBlocks[d] \cup X]
      /\ r.imap = x.imap \cup {i} /\ r.bmap = (x.bmap \cup B) \cup X
      /\ IsFs(r)
      /\ r.entry[d][n] = <<i>> \o x.entry[d][n] \/ r.entry[d][n] = Append(x.entry[d][n], i)
      /\ \A c \in Dirs, m \in Names : <<c, m>> # <<d, n>> => r.entry[c][m] = x.entry[c][m]
  <2>1. CreatedTo(x, r, d, n, content, i, B, X)
    BY CreatedParts
  <2> QED
    BY <2>1 DEF CreatedTo
<1> DEFINE longer == r.entry[d][n]
<1>8. /\ longer \in Seq(Inodes) /\ Distinct(longer)
      /\ \A j : Lists(longer, j) <=> Lists(x.entry[d][n], j) \/ j = i
  <2>1. PICK s : s = x.entry[d][n]
    OBVIOUS
  <2>2. s \in Seq(Inodes) /\ Distinct(s) /\ ~ Lists(s, i) /\ i \in Inodes
    BY <1>3, <1>5, <2>1
  <2>3. longer = <<i>> \o s \/ longer = Append(s, i)
    BY <1>7, <2>1
  <2> HIDE DEF longer
  <2> QED
    BY <2>1, <2>2, <2>3, LongerList
<1> HIDE DEF longer
<1>9. \A c \in Dirs, m \in Names : r.entry[c][m] = IF c = d /\ m = n THEN longer ELSE x.entry[c][m]
  BY <1>7 DEF longer
<1>11. EntriesSound(r)
  <2>1. \A c \in Dirs, m \in Names : Distinct(r.entry[c][m])
    BY <1>2, <1>8, <1>9 DEF EntriesSound
  <2>0. \A j : Linked(r, j) \subseteq Dirs \X Names /\ Linked(x, j) \subseteq Dirs \X Names
    BY DEF Linked
  <2>2. \A j \in Inodes \ {i} : Linked(r, j) = Linked(x, j)
    <3>1. ASSUME NEW c \in Dirs, NEW m \in Names, NEW j \in Inodes \ {i}
          PROVE  <<c, m>> \in Linked(r, j) <=> <<c, m>> \in Linked(x, j)
      <4>0. /\ <<c, m>> \in Linked(r, j) <=> Lists(r.entry[c][m], j)
            /\ <<c, m>> \in Linked(x, j) <=> Lists(x.entry[c][m], j)
        BY LinkedAt
      <4>1. CASE c = d /\ m = n
        <5>1. r.entry[c][m] = longer /\ x.entry[c][m] = x.entry[d][n]
          BY <1>9, <4>1
        <5>2. Lists(longer, j) <=> Lists(x.entry[d][n], j)
          BY <1>8
        <5> QED
          BY <4>0, <5>1, <5>2, Zenon
      <4>2. CASE ~ (c = d /\ m = n)
        <5>1. r.entry[c][m] = x.entry[c][m]
          BY <1>9, <4>2
        <5> QED
          BY <4>0, <5>1, Zenon
      <4> QED
        BY <4>1, <4>2
    <3> QED
      BY <2>0, <3>1
  <2>3. Linked(r, i) = {<<d, n>>}
    <3>1. ASSUME NEW c \in Dirs, NEW m \in Names
          PROVE  <<c, m>> \in Linked(r, i) <=> c = d /\ m = n
      <4>1. CASE c = d /\ m = n
        BY <1>3, <1>8, <1>9, <4>1, LinkedAt
      <4>2. CASE ~ (c = d /\ m = n)
        <5>1. r.entry[c][m] = x.entry[c][m]
          BY <1>9, <4>2
        <5>2. /\ <<c, m>> \in Linked(r, i) <=> Lists(r.entry[c][m], i)
              /\ <<c, m>> \in Linked(x, i) <=> Lists(x.entry[c][m], i)
          BY <1>3, LinkedAt
        <5>3. <<c, m>> \notin Linked(x, i)
          BY <1>4
        <5> QED
          BY <4>2, <5>1, <5>2, <5>3, Zenon
      <4> QED
        BY <4>1, <4>2
    <3> QED
      BY <2>0, <3>1
  <2>4. Cardinality(Linked(r, i)) = 1
    BY <2>3, FS_Singleton
  <2> QED
    BY <1>1, <1>2, <1>3, <1>7, <2>1, <2>2, <2>4 DEF EntriesSound
<1>12. InUse(r) = InUse(x) \cup {i}
  BY <1>1, <1>3, <1>7 DEF InUse
<1>13. Claimed(r) = (Claimed(x) \cup B) \cup X
  <2>1. ASSUME NEW b PROVE b \in Claimed(r) <=> b \in Claimed(x) \/ b \in B \/ b \in X
    <3>1. \A j \in InUse(x) : r.blocks[j] = x.blocks[j] /\ j \in Inodes /\ j # i
      BY <1>1, <1>4, <1>7 DEF InUse
    <3>2. r.blocks[i] = B
      BY <1>1, <1>3, <1>7
    <3>3. \A c \in Dirs : r.dirBlocks[c] = IF c = d THEN x.dirBlocks[d] \cup X ELSE x.dirBlocks[c]
      BY <1>1, <1>7
    <3>4. b \in Claimed(r) => b \in Claimed(x) \/ b \in B \/ b \in X
      BY <1>12, <3>1, <3>2, <3>3, ClaimedBlock
    <3>5. b \in Claimed(x) => b \in Claimed(r)
      BY <1>12, <3>1, <3>3, ClaimedBlock
    <3>6. b \in B => b \in Claimed(r)
      BY <1>12, <3>2, ClaimedBlock
    <3>7. b \in X => b \in Claimed(r)
      BY <3>3, ClaimedBlock
    <3> QED
      BY <3>4, <3>5, <3>6, <3>7
  <2> QED
    BY <2>1
<1>14. \* what is taken belongs to nobody
       /\ \A j \in InUse(x) : x.blocks[j] \subseteq x.bmap
       /\ \A c \in Dirs : x.dirBlocks[c] \subseteq x.bmap
  BY <1>2, ClaimedBlock
<1>15. OwnersApart(r)
  <2>1. \A j \in InUse(x) : r.blocks[j] = x.blocks[j] /\ j \in Inodes /\ j # i
    BY <1>1, <1>4, <1>7 DEF InUse
  <2>2. r.blocks[i] = B
    BY <1>1, <1>3, <1>7
  <2>3. \A c \in Dirs : r.dirBlocks[c] = IF c = d THEN x.dirBlocks[d] \cup X ELSE x.dirBlocks[c]
    BY <1>1, <1>7
  <2>4. \A j, k \in InUse(r) : j # k => r.blocks[j] \cap r.blocks[k] = {}
    BY <1>2, <1>3, <1>12, <1>14, <2>1, <2>2 DEF OwnersApart
  <2>5. \A j \in InUse(r), c \in Dirs : r.blocks[j] \cap r.dirBlocks[c] = {}
    BY <1>2, <1>3, <1>12, <1>14, <2>1, <2>2, <2>3 DEF OwnersApart
  <2>6. \A b, c \in Dirs : b # c => r.dirBlocks[b] \cap r.dirBlocks[c] = {}
    BY <1>2, <1>3, <1>14, <2>3 DEF OwnersApart
  <2> QED
    BY <2>4, <2>5, <2>6 DEF OwnersApart
<1>16. Claimed(r) \subseteq r.bmap /\ InUse(r) = r.imap /\ Leaked(r) \subseteq Leaked(x)
  BY <1>2, <1>7, <1>12, <1>13 DEF Leaked
<1> QED
  BY <1>7, <1>11, <1>15, <1>16, FsSoundParts

-----------------------------------------------------------------------------
(* The pipeline                                                             *)

Before == {"read", "unpack", "dump", "hijack_v1", "hijack_v2", "relabel", "script"}

StockReadable == IsFs(StockFs) /\ \A i \in Inodes : IsFile(StockFs.data[i])

\* Without the lost end of rootfs.bin, dump reads what the stock image holds.
DumpsStock ==
    /\ fs.entry = StockFs.entry
    /\ \A i \in Inodes : fs.data[i] \in {Garbage, StockFs.data[i]}

FsInOrder == FsSound(StockFs) => /\ IsFs(fs) /\ FsSound(fs)
                                 /\ Leaked(fs) \subseteq Leaked(StockFs)

PipelineInv ==
    /\ TypeOK
    /\ offer \in Stocks
    /\ injected \in Seq(Inodes)
    /\ stage \in Before => injected = <<>>
    /\ stage = "inject" => Len(injected) < 4
    /\ stage \notin {"read", "refused"} => Parses(offer) /\ HasImages(Props(offer))
    /\ stage \in {"read", "unpack"} => fs = Nothing
    /\ stage \notin {"read", "unpack", "refused"} => StockReadable /\ FsInOrder
    /\ stage = "dump" => DumpsStock
    /\ IsFile(evil)
    /\ stage \in {"hijack_v2", "relabel"} => evil.kind = "elf"
    /\ HijacksSound
    /\ FilesystemKept

LEMMA NothingIsFile == Nothing.kind = "nothing" /\ IsFile(Nothing)
BY DEF Nothing, IsFile

\* Only the contents of files change.
LEMMA ContentsOnly ==
  ASSUME NEW x, IsFs(x), FsSound(x), NEW data, DOMAIN data = Inodes,
         NEW r, r = [x EXCEPT !.data = data]
  PROVE  IsFs(r) /\ FsSound(r) /\ Leaked(r) = Leaked(x)
<1>1. /\ r.entry = x.entry /\ r.room = x.room /\ r.dirBlocks = x.dirBlocks
      /\ r.links = x.links /\ r.blocks = x.blocks /\ r.data = data
      /\ r.imap = x.imap /\ r.bmap = x.bmap /\ DOMAIN r = DOMAIN x
  BY DEF IsFs
<1>2. IsFs(r)
  BY <1>1 DEF IsFs
<1>3. InUse(r) = InUse(x)
  BY <1>1 DEF InUse
<1>4. Claimed(r) = Claimed(x)
  BY <1>1, <1>3 DEF Claimed
<1>5. \A i : Linked(r, i) = Linked(x, i)
  BY <1>1 DEF Linked
<1>6. OwnersApart(r) /\ EntriesSound(r)
  BY <1>1, <1>3, <1>5, FsSoundParts DEF OwnersApart, EntriesSound
<1> QED
  BY <1>1, <1>2, <1>3, <1>4, <1>6, FsSoundParts DEF Leaked

LEMMA RelabelKeepsSound ==
  ASSUME NEW e, IsElf(e), NEW t
  PROVE  /\ IsElf(Relabelled(e, t))
         /\ HooksSound(e) => HooksSound(Relabelled(e, t))
<1> DEFINE h == Relabelled(e, t)
<1>1. h.ph = e.ph /\ h.tramp = e.tramp /\ DOMAIN h = DOMAIN e
  BY DEF Relabelled, IsElf
<1> HIDE DEF h
<1>2. IsElf(h)
  BY <1>1 DEF IsElf
<1>3. Loads(h) = Loads(e)
  BY <1>1 DEF Loads
<1>4. CodeSegments(h) = CodeSegments(e) /\ DataSegments(h) = DataSegments(e)
  BY <1>1, <1>3 DEF CodeSegments, DataSegments
<1>5. LaidOut(e) => LaidOut(h)
  BY <1>1, <1>3, <1>4 DEF LaidOut
<1>6. TrampolinesMapped(e) => TrampolinesMapped(h)
  BY <1>1, <1>4 DEF TrampolinesMapped, CodeFileEnd
<1>7. TrampolinesApart(e) => TrampolinesApart(h)
  BY <1>1 DEF TrampolinesApart
<1> QED
  BY <1>2, <1>5, <1>6, <1>7 DEF HooksSound, h

\* One hijack, as the pipeline does it.
LEMMA HijackStep ==
  ASSUME NEW pedal, pedal.orig \in Nat, NEW variable, Hijack(pedal, variable), IsFile(evil)
  PROVE  /\ evil.kind = "elf" /\ evil'.kind = "elf" /\ IsFile(evil')
         /\ HooksSound(evil.elf) => HooksSound(evil'.elf)
         /\ DOMAIN slots' = DOMAIN slots \cup {variable}
<1>1. PICK c \in Segments, d \in Segments, n \in Segments :
        /\ Hijackable(evil.elf, pedal.vtable, pedal.orig, c, d, n)
        /\ evil' = ElfFile(Hijacked(evil.elf, pedal.vtable, pedal.orig, c, d))
        /\ slots' = WithSlot(variable, HookSlot(evil.elf, d))
  BY DEF Hijack
<1>2. evil.kind = "elf" /\ IsElf(evil.elf)
  BY DEF Hijack, IsFile
<1>3. c # d
  BY <1>1 DEF Hijackable, CodeSegments, DataSegments
<1> DEFINE h == Hijacked(evil.elf, pedal.vtable, pedal.orig, c, d)
<1>4. IsElf(h)
  BY <1>2, <1>3, HijackedParts
<1>5. HooksSound(evil.elf) => HooksSound(h)
  BY <1>1, <1>2, HijackKeepsSound
<1> HIDE DEF h
<1>6. evil' = [kind |-> "elf", elf |-> h]
  BY <1>1 DEF h, ElfFile
<1>7. evil'.kind = "elf" /\ evil'.elf = h /\ IsFile(evil')
  BY <1>4, <1>6 DEF IsFile
<1>8. DOMAIN slots' = DOMAIN slots \cup {variable}
  BY <1>1 DEF WithSlot
<1> QED
  BY <1>2, <1>5, <1>7, <1>8

LEMMA StockIsReadable ==
  ASSUME offer \in Stocks, Parses(offer), HasImages(Props(offer)), OldImage(offer).kind = "xz"
  PROVE  StockReadable
BY PipelineAssumption DEF StockReadable, StockFs

LEMMA PipelineInit == Init => PipelineInv
<1> SUFFICES ASSUME Init PROVE PipelineInv
  OBVIOUS
<1>1. TypeOK
  BY DEF Init, TypeOK, Working
<1>2. evil.kind # "elf" /\ IsFile(evil)
  BY NothingIsFile DEF Init
<1> QED
  BY <1>1, <1>2 DEF Init, PipelineInv, HijacksSound, FilesystemKept, Before

\* A step that leaves the binary, the file system and the offer alone.
LEMMA QuietStep ==
  ASSUME PipelineInv, UNCHANGED <<offer, request, slots, fs, injected, mishaps>>,
         evil' = evil \/ evil' = Nothing,
         stage' \in Working \cup Final,
         \/ target' \in DOMAIN Targets
         \/ target' = target /\ stage' = "refused"
         \/ target' = target /\ stage # "read" /\ target \in DOMAIN Targets,
         stage \notin {"inject"} /\ stage' \in Before \cup {"inject"} => injected = <<>>,
         stage' = "inject" => Len(injected) < 4,
         stage' \in Before => stage \in Before,
         stage' \notin {"read", "refused"} => Parses(offer) /\ HasImages(Props(offer)),
         stage' \in {"read", "unpack"} => stage \in {"read", "unpack"},
         stage' \notin {"read", "unpack", "refused"} => stage \notin {"read", "unpack", "refused"},
         stage' # "dump",
         stage' \in {"hijack_v2", "relabel"} => evil'.kind = "elf"
  PROVE  PipelineInv'
<1>1. StockFs' = StockFs
  BY DEF StockFs, OldImage
<1>2. TypeOK'
  BY DEF PipelineInv, TypeOK
<1>3. StockReadable' = StockReadable /\ FsInOrder' = FsInOrder /\ FilesystemKept' = FilesystemKept
  BY <1>1 DEF StockReadable, FsInOrder, FilesystemKept
<1>4. IsFile(evil')
  BY NothingIsFile DEF PipelineInv
<1>5. HijacksSound'
  BY <1>1, NothingIsFile DEF PipelineInv, HijacksSound
<1> QED
  BY <1>2, <1>3, <1>4, <1>5 DEF PipelineInv, Before

LEMMA PipelineStep ==
  ASSUME PipelineInv, Next PROVE PipelineInv'
<1>1. /\ stage \in Working \cup Final /\ offer \in Stocks /\ IsFile(evil)
      /\ target \in DOMAIN Targets \cup (IF stage \in {"read", "refused"} THEN {NoModel} ELSE {})
      /\ injected \in Seq(Inodes) /\ HijacksSound /\ FilesystemKept
  BY DEF PipelineInv, TypeOK
<1>2. CASE ReadStock
  <2>1. /\ stage = "read" /\ stage' = "unpack" /\ target' \in DOMAIN Targets
        /\ UNCHANGED <<offer, request, evil, slots, fs, injected, mishaps>>
    BY <1>2 DEF ReadStock, Selects
  <2>2. Parses(offer) /\ HasImages(Props(offer))
    BY <1>2 DEF ReadStock
  <2>3. injected = <<>>
    BY <2>1 DEF PipelineInv, Before
  <2> QED
    BY <2>1, <2>2, <2>3, QuietStep DEF Before, Working
<1>3. CASE UnpackRootfs
  <2>1. /\ stage = "unpack" /\ stage' = "dump" /\ OldImage(offer).kind = "xz"
        /\ UNCHANGED <<offer, request, target, evil, slots, injected>>
    BY <1>3 DEF UnpackRootfs, Decompresses
  <2>2. StockReadable
    BY <1>1, <2>1, StockIsReadable DEF PipelineInv
  <2>3. StockFs' = StockFs /\ StockReadable'
    BY <2>1, <2>2 DEF StockFs, OldImage, StockReadable
  <2>4. /\ fs' = StockFs \/ \E i \in Inodes : fs' = [StockFs EXCEPT !.data[i] = Garbage]
        /\ mishaps' \subseteq MishapKinds
    BY <1>3 DEF UnpackRootfs, StockFs, InUse, MayHappen, PipelineInv, TypeOK
  <2>5. /\ fs'.entry = StockFs.entry
        /\ \A i \in Inodes : fs'.data[i] \in {Garbage, StockFs.data[i]}
        /\ FsSound(StockFs) => IsFs(fs') /\ FsSound(fs') /\ Leaked(fs') \subseteq Leaked(StockFs)
    <3>1. CASE fs' = StockFs
      BY <2>2, <3>1 DEF StockReadable
    <3>2. CASE \E i \in Inodes : fs' = [StockFs EXCEPT !.data[i] = Garbage]
      <4>1. PICK i \in Inodes : fs' = [StockFs EXCEPT !.data[i] = Garbage]
        BY <3>2
      <4> DEFINE data == [StockFs.data EXCEPT ![i] = Garbage]
      <4>2. fs' = [StockFs EXCEPT !.data = data]
        BY <4>1
      <4>3. IsFs(StockFs) /\ DOMAIN StockFs.data = Inodes
        BY <2>2 DEF StockReadable, IsFs
      <4>4. DOMAIN data = Inodes /\ \A j \in Inodes : data[j] \in {Garbage, StockFs.data[j]}
        BY <4>3
      <4>5. fs'.entry = StockFs.entry /\ fs'.data = data
        BY <4>2, <4>3 DEF IsFs
      <4> HIDE DEF data
      <4>6. FsSound(StockFs) => IsFs(fs') /\ FsSound(fs') /\ Leaked(fs') = Leaked(StockFs)
        BY <4>2, <4>3, <4>4, ContentsOnly
      <4> QED
        BY <4>4, <4>5, <4>6
    <3> QED
      BY <2>4, <3>1, <3>2
  <2>6. DumpsStock' /\ FsInOrder' /\ FilesystemKept'
    BY <2>3, <2>5 DEF DumpsStock, FsInOrder, FilesystemKept
  <2>7. TypeOK'
    BY <1>1, <2>1, <2>4 DEF PipelineInv, TypeOK, Working
  <2>8. HijacksSound'
    BY <1>1, <2>1, <2>3 DEF HijacksSound
  <2> QED
    BY <1>1, <2>1, <2>3, <2>6, <2>7, <2>8 DEF PipelineInv, Before
<1>4. CASE DumpFiles
  <2>1. /\ stage = "dump" /\ stage' = "hijack_v1" /\ Exists(fs, "Evil", "Evil")
        /\ evil' = fs.data[Head(fs.entry["Evil"]["Evil"])]
        /\ UNCHANGED <<offer, request, target, slots, fs, injected, mishaps>>
    BY <1>4 DEF DumpFiles, Dump, Lookup
  <2>2. StockReadable /\ DumpsStock /\ FsInOrder /\ StockFs' = StockFs
    BY <2>1 DEF PipelineInv, StockFs, OldImage
  <2>3. Head(fs.entry["Evil"]["Evil"]) \in Inodes
    <3>1. StockFs.entry \in [Dirs -> [Names -> Seq(Inodes)]] /\ "Evil" \in Dirs /\ "Evil" \in Names
      BY <2>2, PipelineAssumption DEF StockReadable, IsFs
    <3>2. StockFs.entry["Evil"]["Evil"] \in Seq(Inodes) /\ StockFs.entry["Evil"]["Evil"] # <<>>
      BY <2>1, <2>2, <3>1 DEF DumpsStock, Exists
    <3> QED
      BY <2>2, <3>2 DEF DumpsStock
  <2>4. evil' \in {Garbage, Dump(StockFs, "Evil", "Evil")} /\ IsFile(Dump(StockFs, "Evil", "Evil"))
    BY <2>1, <2>2, <2>3 DEF DumpsStock, StockReadable, Dump, Lookup
  <2>5. IsFile(evil') /\ (evil'.kind = "elf" => evil' = Dump(StockFs, "Evil", "Evil"))
    BY <2>4 DEF IsFile, Garbage
  <2>6. HijacksSound'
    BY <2>2, <2>5 DEF HijacksSound
  <2>7. TypeOK'
    BY <1>1, <2>1 DEF PipelineInv, TypeOK, Working
  <2>8. StockReadable' /\ FsInOrder' /\ FilesystemKept'
    BY <1>1, <2>1, <2>2 DEF StockReadable, FsInOrder, FilesystemKept
  <2> QED
    BY <1>1, <2>1, <2>2, <2>5, <2>6, <2>7, <2>8 DEF PipelineInv, Before
<1>5. CASE HijackV1 \/ HijackV2
  <2>1. /\ stage \in {"hijack_v1", "hijack_v2"} /\ stage' \in {"hijack_v2", "relabel"}
        /\ UNCHANGED <<offer, request, target, fs, injected, mishaps>>
        /\ \E variable \in {"GONK", "GONK_V2"} :
              \/ Hijack(Targets[target].v1, variable)
              \/ Hijack(Targets[target].v2, variable)
    BY <1>5 DEF HijackV1, HijackV2
  <2>2. target \in DOMAIN Targets
    BY <1>1, <2>1
  <2>3. Targets[target].v1.orig \in Nat /\ Targets[target].v2.orig \in Nat
    BY <2>2, PipelineAssumption
  <2>4. /\ evil.kind = "elf" /\ evil'.kind = "elf" /\ IsFile(evil')
        /\ HooksSound(evil.elf) => HooksSound(evil'.elf)
        /\ DOMAIN slots' \subseteq DOMAIN slots \cup {"GONK", "GONK_V2"}
    BY <1>1, <2>1, <2>3, HijackStep
  <2>5. StockFs' = StockFs
    BY <2>1 DEF StockFs, OldImage
  <2>6. HijacksSound'
    BY <1>1, <2>4, <2>5 DEF HijacksSound
  <2>7. TypeOK'
    BY <1>1, <2>1, <2>2, <2>4 DEF PipelineInv, TypeOK, Working
  <2>8. StockReadable' /\ FsInOrder' /\ FilesystemKept'
    BY <1>1, <2>1, <2>5 DEF PipelineInv, StockReadable, FsInOrder, FilesystemKept
  <2> QED
    BY <1>1, <2>1, <2>4, <2>6, <2>7, <2>8 DEF PipelineInv, Before
<1>6. CASE Relabel
  <2>1. /\ stage = "relabel" /\ stage' = "script" /\ evil.kind = "elf"
        /\ evil' = [kind |-> "elf", elf |-> Relabelled(evil.elf, Targets[target])]
        /\ UNCHANGED <<offer, request, target, slots, fs, injected, mishaps>>
    BY <1>6 DEF Relabel, PipelineInv, ElfFile
  <2>2. IsElf(evil.elf)
    BY <1>1, <2>1 DEF IsFile
  <2>3. /\ IsFile(evil') /\ evil'.kind = "elf"
        /\ HooksSound(evil.elf) => HooksSound(evil'.elf)
    BY <2>1, <2>2, RelabelKeepsSound DEF IsFile
  <2>4. StockFs' = StockFs
    BY <2>1 DEF StockFs, OldImage
  <2>5. HijacksSound'
    BY <1>1, <2>1, <2>3, <2>4 DEF HijacksSound
  <2>6. TypeOK'
    BY <1>1, <2>1 DEF PipelineInv, TypeOK, Working
  <2>7. StockReadable' /\ FsInOrder' /\ FilesystemKept'
    BY <1>1, <2>1, <2>4 DEF PipelineInv, StockReadable, FsInOrder, FilesystemKept
  <2> QED
    BY <1>1, <2>1, <2>3, <2>5, <2>6, <2>7 DEF PipelineInv, Before
<1>7. CASE BuildScript
  BY <1>1, <1>7, QuietStep DEF BuildScript, PipelineInv, Before, Working
<1>8. CASE Inject
  <2>14. Len(ToInject) = 4 /\ \A k \in 1..4 : /\ ToInject[k].dir \in {"Evil", "Scripts"}
                                             /\ ToInject[k].name \in
                                                  {"Evil", "libnam_hook.so", "libnam_preload.so", "evil"}
    BY DEF ToInject
  <2>2. /\ stage = "inject" /\ Len(injected) \in Nat /\ Len(injected) < 4
        /\ stage' = IF Len(injected) + 1 = 4 THEN "check" ELSE "inject"
        /\ UNCHANGED <<offer, request, target, evil, slots>>
    <3>1. stage = "inject" /\ UNCHANGED <<offer, request, target, evil, slots>>
      BY <1>8 DEF Inject
    <3>2. stage' = IF Len(injected) + 1 = Len(ToInject) THEN "check" ELSE "inject"
      BY <1>8 DEF Inject
    <3>3. Len(injected) < 4 /\ injected \in Seq(Inodes)
      BY <3>1 DEF PipelineInv
    <3>4. Len(injected) \in Nat
      BY <3>3
    <3> QED
      BY <2>14, <3>1, <3>2, <3>3, <3>4
  <2> DEFINE f == ToInject[Len(injected) + 1]
  <2>3. f.dir \in Dirs /\ f.name \in Names
    <3>1. Len(injected) \in Nat /\ Len(injected) < 4
      BY <2>2
    <3>2. Len(injected) + 1 \in 1..4
      BY <3>1
    <3> QED
      BY <2>14, <3>2, PipelineAssumption
  <2>1. PICK missed \in MissedLookups(f), ahead \in BOOLEAN, i \in Inodes :
          LET cleared == IF Exists(fs, f.dir, f.name) /\ ~missed
                         THEN Removed(fs, f.dir, f.name) ELSE fs
          IN  \E B, X :
                /\ Allocates(cleared, f.dir, SizeOf(f.content), i, B, X)
                /\ fs' = Created(cleared, f.dir, f.name, f.content, i, B, X, ahead)
                /\ injected' = Append(injected, i)
                /\ mishaps' = IF missed THEN mishaps \cup {"lookup"} ELSE mishaps
    BY <1>8 DEF Inject
  <2> HIDE DEF f
  <2> DEFINE cleared == IF Exists(fs, f.dir, f.name) /\ ~missed
                        THEN Removed(fs, f.dir, f.name) ELSE fs
  <2>11. PICK B, X :
          /\ Allocates(cleared, f.dir, SizeOf(f.content), i, B, X)
          /\ fs' = Created(cleared, f.dir, f.name, f.content, i, B, X, ahead)
          /\ injected' = Append(injected, i)
          /\ mishaps' = IF missed THEN mishaps \cup {"lookup"} ELSE mishaps
    BY <2>1
  <2>12. missed => "lookup" \in MishapKinds
    BY <2>1 DEF MissedLookups, MayHappen
  <2>13. \/ cleared = fs
         \/ Exists(fs, f.dir, f.name) /\ cleared = Removed(fs, f.dir, f.name)
    <3>1. CASE Exists(fs, f.dir, f.name) /\ ~missed
      BY <3>1
    <3>2. CASE ~ (Exists(fs, f.dir, f.name) /\ ~missed)
      BY <3>2
    <3> QED
      BY <3>1, <3>2
  <2> HIDE DEF cleared
  <2>4. StockReadable /\ FsInOrder /\ StockFs' = StockFs
    BY <2>2 DEF PipelineInv, StockFs, OldImage
  <2>5. ASSUME FsSound(StockFs)
        PROVE  IsFs(fs') /\ FsSound(fs') /\ Leaked(fs') \subseteq Leaked(StockFs)
    <3>1. IsFs(fs) /\ FsSound(fs) /\ Leaked(fs) \subseteq Leaked(StockFs)
      BY <2>4, <2>5 DEF FsInOrder
    <3>2. IsFs(cleared) /\ FsSound(cleared) /\ Leaked(cleared) \subseteq Leaked(StockFs)
      BY <2>3, <2>13, <3>1, RemoveKeepsSound
    <3>3. IsFs(fs') /\ FsSound(fs') /\ Leaked(fs') \subseteq Leaked(cleared)
      BY <2>3, <2>11, <3>2, CreateKeepsSound
    <3> QED
      BY <3>2, <3>3
  <2>6. StockReadable' /\ FsInOrder' /\ FilesystemKept'
    BY <2>4, <2>5 DEF StockReadable, FsInOrder, FilesystemKept
  <2>7. injected' \in Seq(Inodes) /\ Len(injected') = Len(injected) + 1
    BY <1>1, <2>11
  <2>8. mishaps' \subseteq MishapKinds
    BY <2>11, <2>12 DEF PipelineInv, TypeOK
  <2>9. TypeOK'
    BY <1>1, <2>2, <2>7, <2>8 DEF PipelineInv, TypeOK, Working
  <2>10. HijacksSound'
    BY <1>1, <2>2, <2>4 DEF HijacksSound
  <2> QED
    BY <1>1, <2>2, <2>6, <2>7, <2>9, <2>10 DEF PipelineInv, Before
<1>9. CASE CheckFilesystem
  BY <1>1, <1>9, QuietStep DEF CheckFilesystem, PipelineInv, Before, Working
<1>10. CASE CloseImage
  <2>1. PICK lost \in SUBSET Range(injected) :
          /\ fs' = [fs EXCEPT !.data = [i \in Inodes |-> IF i \in lost THEN Garbage ELSE @[i]]]
          /\ mishaps' = IF lost = {} THEN mishaps ELSE mishaps \cup {"flush"}
          /\ lost # {} => "flush" \in MishapKinds
    BY <1>10 DEF CloseImage, MayHappen
  <2>2. /\ stage = "close" /\ stage' = "repack"
        /\ UNCHANGED <<offer, request, target, evil, slots, injected>>
    BY <1>10 DEF CloseImage
  <2>3. StockReadable /\ FsInOrder /\ StockFs' = StockFs
    BY <2>2 DEF PipelineInv, StockFs, OldImage
  <2>4. ASSUME FsSound(StockFs)
        PROVE  IsFs(fs') /\ FsSound(fs') /\ Leaked(fs') \subseteq Leaked(StockFs)
    <3>1. IsFs(fs) /\ FsSound(fs) /\ Leaked(fs) \subseteq Leaked(StockFs)
      BY <2>3, <2>4 DEF FsInOrder
    <3> DEFINE data == [i \in Inodes |-> IF i \in lost THEN Garbage ELSE fs.data[i]]
    <3>2. fs' = [fs EXCEPT !.data = data] /\ DOMAIN data = Inodes
      BY <2>1
    <3> HIDE DEF data
    <3> QED
      BY <3>1, <3>2, ContentsOnly
  <2>5. StockReadable' /\ FsInOrder' /\ FilesystemKept'
    BY <2>3, <2>4 DEF StockReadable, FsInOrder, FilesystemKept
  <2>6. mishaps' \subseteq MishapKinds
    BY <2>1 DEF PipelineInv, TypeOK
  <2>7. TypeOK'
    BY <1>1, <2>2, <2>6 DEF PipelineInv, TypeOK, Working
  <2>8. HijacksSound'
    BY <1>1, <2>2, <2>3 DEF HijacksSound
  <2> QED
    BY <1>1, <2>2, <2>5, <2>7, <2>8 DEF PipelineInv, Before
<1>11. CASE Repack
  BY <1>1, <1>11, QuietStep DEF Repack, PipelineInv, Before, Working
<1>12. CASE VerifyRoundTrip
  BY <1>1, <1>12, QuietStep DEF VerifyRoundTrip, PipelineInv, Before, Working, Final
<1>13. CASE Refuse
  <2>1. /\ stage' = "refused" /\ evil' = Nothing
        /\ UNCHANGED <<offer, request, target, slots, fs, injected, mishaps>>
    BY <1>13 DEF Refuse
  <2> QED
    BY <2>1, QuietStep DEF Before, Final
<1> QED
  BY <1>2, <1>3, <1>4, <1>5, <1>6, <1>7, <1>8, <1>9, <1>10, <1>11, <1>12, <1>13 DEF Next

LEMMA PipelineStutters ==
  ASSUME PipelineInv, UNCHANGED vars PROVE PipelineInv'
<1>1. /\ StockFs' = StockFs /\ UNCHANGED <<stage, offer, request, target, evil, slots, fs, injected, mishaps>>
  BY DEF vars, StockFs, OldImage
<1>2. TypeOK' /\ HijacksSound' /\ FilesystemKept'
  BY <1>1 DEF PipelineInv, TypeOK, HijacksSound, FilesystemKept
<1>3. StockReadable' = StockReadable /\ FsInOrder' = FsInOrder /\ DumpsStock' = DumpsStock
  BY <1>1 DEF StockReadable, FsInOrder, DumpsStock
<1> QED
  BY <1>1, <1>2, <1>3 DEF PipelineInv

LEMMA PipelineInvariant == Spec => []PipelineInv
<1>1. PipelineInv /\ [Next]_vars => PipelineInv'
  BY PipelineStep, PipelineStutters
<1> QED
  BY <1>1, PipelineInit, PTL DEF Spec

-----------------------------------------------------------------------------
(* What the hijacks leave in the binary                                     *)

\* e is h before one hijack: the pedal's vtable slot held its function and
\* now leads to a trampoline behind the code, and nothing else has moved.
OnceHooked(e, h, pedal, slot) ==
    \E c \in CodeSegments(e) :
        /\ CodeSegments(e) = {c} /\ CodeSegments(h) = {c}
        /\ TrampVaddr(e, c) \in Nat /\ TrampVaddr(h, c) = TrampVaddr(e, c) + TrampLen
        /\ Holds(e, pedal)
        /\ h.word = [e.word EXCEPT ![SlotFileOffset(pedal.vtable)] = TrampVaddr(e, c)]
        /\ \E t : /\ h.tramp = e.tramp \cup {t} /\ t.vaddr = TrampVaddr(e, c)
                  /\ t.slot = slot /\ t.orig = pedal.orig

HijackedTo(e, h, fn, c, d) ==
    /\ h.ph \in [Segments -> Segment]
    /\ h.ph[c] = [e.ph[c] EXCEPT !.filesz = @ + TrampLen, !.memsz = @ + TrampLen]
    /\ h.ph[d] = [e.ph[d] EXCEPT !.memsz = @ + SlotLen]
    /\ \A s \in Segments \ {c, d} : h.ph[s] = e.ph[s]
    /\ h.tramp = e.tramp \cup
          {[off |-> CodeFileEnd(e, c), vaddr |-> TrampVaddr(e, c),
            slot |-> HookSlot(e, d), orig |-> fn]}
    /\ IsElf(h)

LEMMA HijackChanges ==
  ASSUME NEW e, IsElf(e), NEW vtable, NEW fn \in Nat,
         NEW c \in Segments, NEW d \in Segments, c # d
  PROVE  HijackedTo(e, Hijacked(e, vtable, fn, c, d), fn, c, d)
<1> DEFINE h == Hijacked(e, vtable, fn, c, d)
           tramp == [off |-> CodeFileEnd(e, c), vaddr |-> TrampVaddr(e, c),
                     slot |-> HookSlot(e, d), orig |-> fn]
<1>1. /\ h.ph \in [Segments -> Segment]
      /\ h.ph[c] = [e.ph[c] EXCEPT !.filesz = @ + TrampLen, !.memsz = @ + TrampLen]
      /\ h.ph[d] = [e.ph[d] EXCEPT !.memsz = @ + SlotLen]
      /\ \A s \in Segments \ {c, d} : h.ph[s] = e.ph[s]
      /\ h.tramp = e.tramp \cup {tramp}
      /\ IsElf(h)
  BY HijackedParts
<1> QED
  BY <1>1 DEF HijackedTo

LEMMA HijackedIsHooked ==
  ASSUME NEW e, IsElf(e), NEW vtable, NEW fn \in Nat,
         NEW c \in Segments, NEW d \in Segments, NEW n \in Segments,
         Hijackable(e, vtable, fn, c, d, n),
         NEW pedal, pedal.vtable = vtable, pedal.orig = fn
  PROVE  OnceHooked(e, Hijacked(e, vtable, fn, c, d), pedal, HookSlot(e, d))
<1> DEFINE h == Hijacked(e, vtable, fn, c, d)
           tramp == [off |-> CodeFileEnd(e, c), vaddr |-> TrampVaddr(e, c),
                     slot |-> HookSlot(e, d), orig |-> fn]
<1>1. /\ CodeSegments(e) = {c} /\ DataSegments(e) = {d} /\ Holds(e, pedal)
  BY DEF Hijackable, Holds
<1>2. c # d
  BY <1>1 DEF CodeSegments, DataSegments
<1>3. /\ h.ph \in [Segments -> Segment]
      /\ h.ph[c] = [e.ph[c] EXCEPT !.filesz = @ + TrampLen, !.memsz = @ + TrampLen]
      /\ h.ph[d] = [e.ph[d] EXCEPT !.memsz = @ + SlotLen]
      /\ \A s \in Segments \ {c, d} : h.ph[s] = e.ph[s]
      /\ h.tramp = e.tramp \cup {tramp}
      /\ IsElf(h)
  <2>1. HijackedTo(e, h, fn, c, d)
    BY <1>2, HijackChanges
  <2> QED
    BY <2>1 DEF HijackedTo
<1>4. h.word = [e.word EXCEPT ![SlotFileOffset(vtable)] = TrampVaddr(e, c)]
  <2>1. DOMAIN e = {"header", "len", "ph", "word", "nonzero", "tramp", "label"}
    BY DEF IsElf
  <2>2. PICK at : at = SlotFileOffset(vtable)
    OBVIOUS
  <2>3. h.word = [e.word EXCEPT ![at] = TrampVaddr(e, c)]
    BY <2>1, <2>2 DEF Hijacked
  <2> QED
    BY <2>2, <2>3
<1> HIDE DEF h
<1>5. /\ e.ph[c] \in Segment /\ e.ph[d] \in Segment /\ TrampLen \in Nat
  BY ElfAssumption DEF IsElf
<1>6. /\ h.ph[c].load = e.ph[c].load /\ h.ph[c].flags = e.ph[c].flags
      /\ h.ph[c].vaddr = e.ph[c].vaddr /\ h.ph[c].filesz = e.ph[c].filesz + TrampLen
      /\ h.ph[d].load = e.ph[d].load /\ h.ph[d].flags = e.ph[d].flags
  BY <1>3, <1>5 DEF Segment
<1>7. \A s \in Segments : h.ph[s].load = e.ph[s].load /\ h.ph[s].flags = e.ph[s].flags
  BY <1>3, <1>6
<1>8. CodeSegments(h) = CodeSegments(e)
  BY <1>7 DEF CodeSegments, Loads
<1>9. TrampVaddr(e, c) \in Nat /\ TrampVaddr(h, c) = TrampVaddr(e, c) + TrampLen
  <2>1. e.ph[c].vaddr \in Nat /\ e.ph[c].filesz \in Nat
    BY <1>5 DEF Segment
  <2> QED
    BY <1>5, <1>6, <2>1 DEF TrampVaddr
<1>10. tramp.vaddr = TrampVaddr(e, c) /\ tramp.slot = HookSlot(e, d) /\ tramp.orig = pedal.orig
  OBVIOUS
<1> HIDE DEF tramp
<1>11. OnceHooked(e, h, pedal, HookSlot(e, d))
  BY <1>1, <1>3, <1>4, <1>8, <1>9, <1>10 DEF OnceHooked
<1> QED
  BY <1>11 DEF h

\* What a binary is worth depends on its headers, words and trampolines.
LEMMA SameHooks ==
  ASSUME NEW e, NEW h, NEW k, NEW pedal, NEW slot, OnceHooked(e, h, pedal, slot),
         k.ph = h.ph, k.word = h.word, k.tramp = h.tramp
  PROVE  OnceHooked(e, k, pedal, slot)
<1>1. CodeSegments(k) = CodeSegments(h) /\ \A c : TrampVaddr(k, c) = TrampVaddr(h, c)
  BY DEF CodeSegments, Loads, TrampVaddr
<1> QED
  BY <1>1 DEF OnceHooked

LEMMA RelabelledHooks ==
  ASSUME NEW e, NEW h, IsElf(h), NEW t, NEW pedal, NEW slot, OnceHooked(e, h, pedal, slot)
  PROVE  OnceHooked(e, Relabelled(h, t), pedal, slot)
<1> DEFINE k == Relabelled(h, t)
<1>1. k.ph = h.ph /\ k.word = h.word /\ k.tramp = h.tramp
  BY DEF Relabelled, IsElf
<1> HIDE DEF k
<1>2. OnceHooked(e, k, pedal, slot)
  BY <1>1, SameHooks
<1> QED
  BY <1>2 DEF k

LEMMA HookedLeads ==
  ASSUME NEW e, NEW h, NEW pedal, NEW slot, OnceHooked(e, h, pedal, slot)
  PROVE  LeadsTo(h, pedal, slot)
BY DEF OnceHooked, LeadsTo, Holds

\* A second hijack leaves the first one alone.
LEMMA HookStays ==
  ASSUME NEW e, NEW h, NEW k, NEW p, NEW q, NEW slot, NEW slot2,
         OnceHooked(e, h, p, slot), OnceHooked(h, k, q, slot2),
         SlotFileOffset(p.vtable) # SlotFileOffset(q.vtable)
  PROVE  LeadsTo(k, p, slot)
BY DEF OnceHooked, LeadsTo, Holds

-----------------------------------------------------------------------------
(* What is not patched: splash screens and metadata                         *)

LEMMA CutTwice ==
  ASSUME NEW S, NEW seq \in Seq(S), NEW max \in Nat
  PROVE  CutTo(CutTo(seq, max), max) = CutTo(seq, max)
<1>1. CASE Len(seq) > max
  <2>1. max <= Len(seq) /\ max \in Nat /\ Len(seq) \in Nat
    BY <1>1, LenProperties
  <2>2. CutTo(seq, max) = SubSeq(seq, 1, max) /\ Len(SubSeq(seq, 1, max)) = max
    BY <1>1, <2>1, SubSeqProperties DEF CutTo
  <2> QED
    BY <2>1, <2>2 DEF CutTo
<1>2. CASE ~ Len(seq) > max
  BY <1>2 DEF CutTo
<1> QED
  BY <1>1, <1>2

\* The image the pipeline builds of its offer.
Rebuilt == Build(RootMetadata(Props(offer)), ImageData(Props(offer), "splash"),
                 ImageData(Props(offer), "recoverysplash"), Compressed(fs))

RebuiltInv ==
    /\ stage \notin {"read", "refused"} => HasRootMetadata(Props(offer))
    /\ stage \in {"verify", "shipped"} => built = Rebuilt
    /\ stage = "shipped" => /\ out = built
                            /\ Dump(OldImage(built).of, "Evil", "Evil") = evil

LEMMA RebuiltInit == Init => RebuiltInv
BY DEF Init, RebuiltInv

LEMMA RebuiltStep ==
  ASSUME PipelineInv, RebuiltInv, [Next]_vars PROVE RebuiltInv'
<1>1. CASE ReadStock
  BY <1>1 DEF ReadStock, RebuiltInv
<1>2. CASE Repack
  BY <1>2 DEF Repack, RebuiltInv, Rebuilt
<1>3. CASE VerifyRoundTrip
  BY <1>3 DEF VerifyRoundTrip, RebuiltInv, Rebuilt
<1>4. CASE UNCHANGED vars
  BY <1>4 DEF vars, RebuiltInv, Rebuilt
<1>5. CASE Refuse
  BY <1>5 DEF Refuse, RebuiltInv
<1>6. CASE UnpackRootfs \/ DumpFiles \/ HijackV1 \/ HijackV2 \/ Relabel
           \/ BuildScript \/ Inject \/ CheckFilesystem \/ CloseImage
  <2>1. /\ stage \notin {"read", "refused"} /\ offer' = offer
        /\ stage' \notin {"verify", "shipped"}
    BY <1>6 DEF UnpackRootfs, DumpFiles, HijackV1, HijackV2, Relabel, BuildScript,
                Inject, CheckFilesystem, CloseImage
  <2> QED
    BY <2>1 DEF RebuiltInv
<1> QED
  BY <1>1, <1>2, <1>3, <1>4, <1>5, <1>6 DEF Next

\* A shipped image holds the file system that was in the working directory.
LEMMA ShippedIsFs ==
  ASSUME stage = "shipped", RebuiltInv
  PROVE  ShippedFs = fs /\ Dump(fs, "Evil", "Evil") = evil
<1>1. OldImage(out) = Compressed(fs)
  <2>1. out = Rebuilt
    BY DEF RebuiltInv
  <2>2. \A m, splash, recovery, rootfs :
           ImageData(Props(Build(m, splash, recovery, rootfs)), "rootfs") = rootfs
    <3> SUFFICES ASSUME NEW m, NEW splash, NEW recovery, NEW rootfs
                 PROVE  ImageData(Props(Build(m, splash, recovery, rootfs)), "rootfs") = rootfs
      OBVIOUS
    <3>1. SaysParts(Props(Build(m, splash, recovery, rootfs)), m, splash, recovery, rootfs)
      BY BuildSays
    <3> QED
      BY <3>1 DEF SaysParts
  <2>3. out = Build(RootMetadata(Props(offer)), ImageData(Props(offer), "splash"),
                    ImageData(Props(offer), "recoverysplash"), Compressed(fs))
    BY <2>1 DEF Rebuilt
  <2>4. ImageData(Props(out), "rootfs") = Compressed(fs)
    BY <2>2, <2>3
  <2> QED
    BY <2>4 DEF OldImage
<1>2. OldImage(out).of = fs
  BY <1>1 DEF Compressed
<1> QED
  BY <1>2 DEF ShippedFs, RebuiltInv

LEMMA ShippedKeepsParts ==
  ASSUME PipelineInv, RebuiltInv PROVE StockPartsSurvive
<1> SUFFICES ASSUME stage = "shipped" PROVE StockPartsSurvive
  BY DEF StockPartsSurvive
<1> DEFINE P == Props(offer)
           M == RootMetadata(P)
<1>1. out = Build(M, ImageData(P, "splash"), ImageData(P, "recoverysplash"), Compressed(fs))
  BY DEF RebuiltInv, Rebuilt
<1>2. /\ GetBytes(Props(out), RootPath, "description") = M.description
      /\ GetBytes(Props(out), RootPath, "compatible") = M.compatible
      /\ GetBytes(Props(out), RootPath, "inmusic,devices") = M.devices
      /\ ImageData(Props(out), "splash") = ImageData(P, "splash")
      /\ ImageData(Props(out), "recoverysplash") = ImageData(P, "recoverysplash")
      /\ GetBytes(Props(out), HashPath("splash"), "value") = Hash(ImageData(P, "splash"))
      /\ GetBytes(Props(out), HashPath("recoverysplash"), "value")
            = Hash(ImageData(P, "recoverysplash"))
  <2>1. PICK m, splash, recovery, rootfs :
           /\ m = M /\ splash = ImageData(P, "splash")
           /\ recovery = ImageData(P, "recoverysplash") /\ rootfs = Compressed(fs)
    OBVIOUS
  <2>2. SaysParts(Props(Build(m, splash, recovery, rootfs)), m, splash, recovery, rootfs)
    BY BuildSays
  <2>3. out = Build(m, splash, recovery, rootfs)
    BY <1>1, <2>1, Zenon
  <2> HIDE DEF P, M
  <2> QED
    BY <2>1, <2>2, <2>3, Zenon DEF SaysParts
<1>3. IsText(GetBytes(P, RootPath, "description")) /\ IsText(GetBytes(P, RootPath, "compatible"))
      /\ IsText(GetBytes(P, RootPath, "inmusic,devices"))
  BY PipelineAssumption DEF PipelineInv, RebuiltInv
<1>4. DescriptionMax \in Nat /\ CompatibleMax \in Nat /\ CellLen * DevicesMax \in Nat
  BY FitAssumption
<1>5. /\ M.description = CutTo(GetBytes(P, RootPath, "description"), DescriptionMax)
      /\ M.compatible = CutTo(GetBytes(P, RootPath, "compatible"), CompatibleMax)
      /\ M.devices = CutTo(GetBytes(P, RootPath, "inmusic,devices"), CellLen * DevicesMax)
  BY DEF RootMetadata
<1>6. /\ CutTo(M.description, DescriptionMax) = M.description
      /\ CutTo(M.compatible, CompatibleMax) = M.compatible
      /\ CutTo(M.devices, CellLen * DevicesMax) = M.devices
  BY <1>3, <1>4, <1>5, CutTwice DEF IsText
<1> HIDE DEF P, M
<1>7. RootMetadata(Props(out)) = M
  <2>1. PICK x, y, z : M = [description |-> x, compatible |-> y, devices |-> z]
    BY Zenon DEF M, RootMetadata
  <2>2. M = [description |-> M.description, compatible |-> M.compatible, devices |-> M.devices]
    BY <2>1
  <2>3. RootMetadata(Props(out)) =
           [description |-> CutTo(M.description, DescriptionMax),
            compatible |-> CutTo(M.compatible, CompatibleMax),
            devices |-> CutTo(M.devices, CellLen * DevicesMax)]
    BY <1>2, Zenon DEF RootMetadata
  <2> QED
    BY <1>6, <2>2, <2>3, Zenon
<1> QED
  BY <1>2, <1>7 DEF StockPartsSurvive, HashPath, P, M

-----------------------------------------------------------------------------
(* The launcher script                                                      *)

LEMMA OwnLines ==
  ASSUME NEW S, NEW s \in Seq(S)
  PROVE  s \in Seq(Range(s)) /\ \A k \in DOMAIN s : s[k] \in S
<1>1. Len(s) \in Nat /\ DOMAIN s = 1 .. Len(s) /\ \A k \in 1 .. Len(s) : s[k] \in S
  BY LenProperties, ElementOfSeq
<1>2. \A k \in 1 .. Len(s) : s[k] \in Range(s)
  BY <1>1 DEF Range
<1>3. s \in Seq(Range(s))
  BY <1>1, <1>2, IsASeq
<1> QED
  BY <1>1, <1>3

BlockLines == {Line("start"), Line("note"), Line("end")}

LEMMA BlockPutIn ==
  ASSUME NEW script, script \in Seq(Range(script)), NEW i \in Nat, NEW j \in Nat,
         1 <= i, i <= Len(script) + 1, j <= Len(script)
  PROVE  WithBlock(script, i, j) \in Seq(Range(script) \cup BlockLines)
<1> DEFINE S == Range(script) \cup BlockLines
<1>1. Len(script) \in Nat
  BY LenProperties
<1>2. script \in Seq(S)
  <2>1. Range(script) \subseteq S
    OBVIOUS
  <2> QED
    BY <2>1, SeqMonotonic
<1>3. ModBlock \in Seq(S)
  <2>1. PICK a, b, c : a = Line("start") /\ b = Line("note") /\ c = Line("end")
    OBVIOUS
  <2>2. a \in S /\ b \in S /\ c \in S
    BY <2>1 DEF BlockLines
  <2> HIDE DEF S
  <2>3. <<a, b, c>> \in Seq(S)
    BY <2>2
  <2> QED
    BY <2>1, <2>3, Zenon DEF ModBlock
<1> HIDE DEF S
<1>4. SubSeq(script, 1, i - 1) \in Seq(S) /\ SubSeq(script, j + 1, Len(script)) \in Seq(S)
  <2>1. i - 1 \in Int /\ 1 \in Int /\ \A k \in 1 .. (i - 1) : k \in 1 .. Len(script)
    BY <1>1
  <2>2. \A k \in (j + 1) .. Len(script) : k \in 1 .. Len(script)
    BY <1>1
  <2>3. DOMAIN script = 1 .. Len(script) /\ \A k \in 1 .. Len(script) : script[k] \in S
    BY <1>2, LenProperties, ElementOfSeq
  <2>4. SubSeq(script, 1, i - 1) \in Seq(S)
    BY <1>1, <1>2, <2>1, <2>3, SubSeqProperties
  <2>5. SubSeq(script, j + 1, Len(script)) \in Seq(S)
    BY <1>1, <1>2, <2>2, <2>3, SubSeqProperties
  <2> QED
    BY <2>4, <2>5
<1>5. (SubSeq(script, 1, i - 1) \o ModBlock) \o SubSeq(script, j + 1, Len(script)) \in Seq(S)
  <2>1. SubSeq(script, 1, i - 1) \o ModBlock \in Seq(S)
    BY <1>3, <1>4, ConcatProperties
  <2> QED
    BY <1>4, <2>1, ConcatProperties
<1> QED
  BY <1>5 DEF WithBlock, S

LEMMA CommentedLines ==
  ASSUME NEW script, script \in Seq(Range(script)), NEW t \in Commented(script)
  PROVE  t \in Seq(Range(script) \cup BlockLines)
<1>0. DOMAIN script = 1 .. Len(script) /\ Len(script) \in Nat
  BY LenProperties
<1>1. \/ \E i, j \in DOMAIN script : t = WithBlock(script, i, j)
      \/ \E i \in DOMAIN script : t = WithBlock(script, i, i - 1)
  <2>1. /\ Earliest(Positions(script, "start")) \subseteq DOMAIN script
        /\ Earliest(Positions(script, "loop")) \subseteq DOMAIN script
        /\ Earliest(Ends(script)) \subseteq DOMAIN script
    BY DEF Earliest, Ends, Positions
  <2> QED
    BY <2>1 DEF Commented
<1>2. ASSUME NEW i \in DOMAIN script, NEW j \in DOMAIN script, t = WithBlock(script, i, j)
      PROVE  t \in Seq(Range(script) \cup BlockLines)
  BY <1>0, <1>2, BlockPutIn
<1>3. ASSUME NEW i \in DOMAIN script, t = WithBlock(script, i, i - 1)
      PROVE  t \in Seq(Range(script) \cup BlockLines)
  <2>1. i \in Nat /\ 1 <= i /\ i <= Len(script) + 1
    BY <1>0
  <2>2. i - 1 \in Nat /\ i - 1 <= Len(script)
    BY <1>0
  <2> QED
    BY <1>3, <2>1, <2>2, BlockPutIn
<1> QED
  BY <1>1, <1>2, <1>3

\* The script that is built starts Evil once, with the hook slots
\* (launcher_script.c:132-161).
LEMMA LauncherBuilt ==
  ASSUME NEW script, IsScript(script), NEW env, DOMAIN env \subseteq {"GONK", "GONK_V2"},
         NEW s \in Launchers(script, env)
  PROVE  /\ IsScript(s) /\ Starts(s) = {[kind |-> "launch", env |-> env]}
         /\ Positions(script, "exec") # {}
<1> DEFINE launch == [kind |-> "launch", env |-> env]
<1>1. script \in Seq(Range(script))
  BY DEF IsScript
<1>2. PICK t \in Commented(script) :
         /\ Cardinality(Positions(t, "exec")) = 1
         /\ s = Relaunched(t, CHOOSE i \in Positions(t, "exec") : TRUE, env)
  BY DEF Launchers
<1>3. t \in Seq(Range(script) \cup BlockLines)
  BY <1>1, CommentedLines
<1>4. Len(t) \in Nat /\ DOMAIN t = 1 .. Len(t) /\ \A k \in DOMAIN t : t[k] \in Range(script) \cup BlockLines
  BY <1>3, OwnLines, LenProperties
<1>5. PICK p : Positions(t, "exec") = {p}
  <2>1. IsFiniteSet(1 .. Len(t))
    BY <1>4, FS_Interval
  <2>2. IsFiniteSet(Positions(t, "exec"))
    BY <1>4, <2>1, FS_Subset DEF Positions
  <2> QED
    BY <1>2, <2>2, FS_Singleton
<1>6. p \in DOMAIN t /\ t[p].kind = "exec" /\ s = [t EXCEPT ![p] = launch]
  <2>1. (CHOOSE i \in Positions(t, "exec") : TRUE) = p
    BY <1>5
  <2>2. p \in DOMAIN t /\ t[p].kind = "exec"
    BY <1>5 DEF Positions
  <2> QED
    BY <1>2, <2>1, <2>2 DEF Relaunched
<1>7. \A k \in DOMAIN t : \/ \E l \in DOMAIN script : t[k] = script[l]
                          \/ t[k].kind \in {"start", "note", "end"} /\ t[k].env = <<>>
  BY <1>4 DEF Range, BlockLines, Line
<1>8. PICK l \in DOMAIN script : t[p] = script[l]
  BY <1>6, <1>7
<1>9. Positions(script, "exec") # {} /\ Positions(script, "launch") = {}
  BY <1>6, <1>8 DEF IsScript, Positions
<1>10. /\ \A k \in DOMAIN t : t[k].kind # "launch"
       /\ \A k \in DOMAIN t \ {p} : t[k].kind # "exec"
       /\ \A k \in DOMAIN t : t[k].env = <<>>
  <2>1. \A k \in DOMAIN script : script[k].kind # "launch" /\ script[k].env = <<>>
    BY <1>9 DEF Positions, IsScript
  <2> QED
    BY <1>5, <1>7, <2>1 DEF Positions
<1>11. DOMAIN s = DOMAIN t /\ s[p] = launch /\ \A k \in DOMAIN t \ {p} : s[k] = t[k]
  BY <1>6
<1>12. launch.kind = "launch" /\ launch.env = env
  OBVIOUS
<1> HIDE DEF launch
<1>13. Positions(s, "exec") = {} /\ Positions(s, "launch") = {p}
  BY <1>6, <1>10, <1>11, <1>12 DEF Positions
<1>14. Starts(s) = {launch}
  BY <1>11, <1>13 DEF Starts
<1>15. s \in Seq(Range(s))
  <2> DEFINE S == (Range(script) \cup BlockLines) \cup {launch}
  <2>1. t \in Seq(S)
    <3>1. Range(script) \cup BlockLines \subseteq S
      OBVIOUS
    <3> QED
      BY <1>3, <3>1, SeqMonotonic
  <2>2. launch \in S
    OBVIOUS
  <2> HIDE DEF S
  <2>3. s \in Seq(S)
    BY <1>4, <1>6, <2>1, <2>2, ExceptSeq
  <2> QED
    BY <2>3, OwnLines
<1>16. /\ \A k \in DOMAIN s : DOMAIN s[k].env \subseteq {"GONK", "GONK_V2"}
       /\ \A k \in DOMAIN s : s[k].kind # "launch" => s[k].env = <<>>
  <2>1. DOMAIN <<>> = {}
    OBVIOUS
  <2> QED
    BY <1>6, <1>10, <1>11, <1>12, <2>1
<1> QED
  BY <1>9, <1>13, <1>14, <1>15, <1>16 DEF IsScript, launch

-----------------------------------------------------------------------------
(* What the binary and the launcher are at every step                       *)

StockEvil == Dump(StockFs, "Evil", "Evil")
StockLauncher == Dump(StockFs, "Scripts", "evil")

Hooking == {"hijack_v1", "hijack_v2", "relabel", "script"}

Filling == {"inject", "check", "close", "repack", "verify", "shipped"}

Pedal1 == Targets[target].v1
Pedal2 == Targets[target].v2

\* From the first hijack on the binary is the stock binary after one hijack,
\* or after two.
HookedInv ==
    /\ stage \in {"read", "unpack", "dump", "hijack_v1"} => slots = <<>>
    /\ stage = "hijack_v2" => request.v2
    /\ stage = "hijack_v1" => (evil.kind = "elf" => evil = StockEvil)
    /\ stage \in (Hooking \cup Filling) \ {"hijack_v1"} =>
          /\ evil.kind = "elf" /\ StockEvil.kind = "elf"
          /\ IF stage # "hijack_v2" /\ request.v2
             THEN /\ DOMAIN slots = {"GONK", "GONK_V2"}
                  /\ \E m : /\ OnceHooked(StockEvil.elf, m, Pedal1, slots["GONK"])
                            /\ OnceHooked(m, evil.elf, Pedal2, slots["GONK_V2"])
             ELSE /\ DOMAIN slots = {"GONK"}
                  /\ OnceHooked(StockEvil.elf, evil.elf, Pedal1, slots["GONK"])

\* The launcher is what the stock image holds, and then one that starts Evil
\* with the hook slots; the one it replaces started Evil without.
LauncherInv ==
    /\ IsFile(launcher)
    /\ stage \in Hooking => launcher \in {Garbage, StockLauncher}
    /\ stage \in Filling =>
          /\ launcher.kind = "script"
          /\ Starts(launcher.lines) = {[kind |-> "launch", env |-> slots]}
          /\ StockLauncher.kind = "script"
          /\ \A l \in Starts(StockLauncher.lines) : l.env = <<>>

LEMMA HijackSlots ==
  ASSUME NEW pedal, pedal.orig \in Nat, NEW variable, Hijack(pedal, variable), IsFile(evil)
  PROVE  /\ evil.kind = "elf" /\ evil'.kind = "elf"
         /\ \E slot : /\ OnceHooked(evil.elf, evil'.elf, pedal, slot)
                      /\ slots' = WithSlot(variable, slot)
<1>1. PICK c \in Segments, d \in Segments, n \in Segments :
        /\ Hijackable(evil.elf, pedal.vtable, pedal.orig, c, d, n)
        /\ evil' = ElfFile(Hijacked(evil.elf, pedal.vtable, pedal.orig, c, d))
        /\ slots' = WithSlot(variable, HookSlot(evil.elf, d))
  BY DEF Hijack
<1>2. evil.kind = "elf" /\ IsElf(evil.elf)
  BY DEF Hijack, IsFile
<1>3. OnceHooked(evil.elf, Hijacked(evil.elf, pedal.vtable, pedal.orig, c, d), pedal, HookSlot(evil.elf, d))
  BY <1>1, <1>2, HijackedIsHooked
<1>4. evil'.kind = "elf" /\ evil'.elf = Hijacked(evil.elf, pedal.vtable, pedal.orig, c, d)
  BY <1>1 DEF ElfFile
<1> QED
  BY <1>1, <1>2, <1>3, <1>4

LEMMA SlotAdded ==
  ASSUME NEW variable, NEW slot, slots' = WithSlot(variable, slot)
  PROVE  /\ DOMAIN slots' = DOMAIN slots \cup {variable}
         /\ slots'[variable] = slot
         /\ \A v \in DOMAIN slots : v # variable => slots'[v] = slots[v]
BY DEF WithSlot

LEMMA HookedInit == Init => HookedInv /\ LauncherInv
BY NothingIsFile DEF Init, HookedInv, LauncherInv, Hooking, Filling

\* What dump reads of a stock file.
LEMMA DumpedFile ==
  ASSUME StockReadable, DumpsStock, NEW d \in Dirs, NEW n \in Names, Exists(fs, d, n)
  PROVE  /\ Dump(fs, d, n) \in {Garbage, Dump(StockFs, d, n)}
         /\ IsFile(Dump(StockFs, d, n)) /\ IsFile(Dump(fs, d, n))
<1>1. fs.entry[d][n] \in Seq(Inodes) /\ fs.entry[d][n] # <<>> /\ fs.entry = StockFs.entry
  BY DEF StockReadable, DumpsStock, IsFs, Exists
<1>2. Head(fs.entry[d][n]) \in Inodes
  BY <1>1
<1>3. Dump(fs, d, n) \in {Garbage, Dump(StockFs, d, n)}
  BY <1>1, <1>2 DEF DumpsStock, Dump, Lookup
<1>4. IsFile(Dump(StockFs, d, n))
  BY <1>1, <1>2 DEF StockReadable, Dump, Lookup
<1>5. IsFile(Garbage)
  BY DEF IsFile, Garbage
<1> QED
  BY <1>3, <1>4, <1>5

LEMMA HookedStep ==
  ASSUME PipelineInv, HookedInv, [Next]_vars PROVE HookedInv'
<1>1. CASE ReadStock \/ UnpackRootfs
  <2>1. stage' \in {"unpack", "dump"} /\ slots' = slots /\ stage \in {"read", "unpack"}
    BY <1>1 DEF ReadStock, UnpackRootfs
  <2> QED
    BY <2>1 DEF HookedInv, Hooking, Filling
<1>2. CASE DumpFiles
  <2>1. /\ stage = "dump" /\ stage' = "hijack_v1" /\ Exists(fs, "Evil", "Evil")
        /\ evil' = Dump(fs, "Evil", "Evil") /\ offer' = offer /\ slots' = slots
    BY <1>2 DEF DumpFiles
  <2>2. StockReadable /\ DumpsStock /\ "Evil" \in Dirs /\ "Evil" \in Names
    BY <2>1, PipelineAssumption DEF PipelineInv
  <2>3. evil' \in {Garbage, StockEvil}
    BY <2>1, <2>2, DumpedFile DEF StockEvil
  <2>4. evil'.kind = "elf" => evil' = StockEvil
    BY <2>3 DEF Garbage
  <2>5. StockEvil' = StockEvil
    BY <2>1 DEF StockEvil, StockFs
  <2> QED
    BY <2>1, <2>4, <2>5 DEF HookedInv, Hooking, Filling
<1>3. CASE HijackV1
  <2>1. /\ stage = "hijack_v1" /\ Hijack(Pedal1, "GONK")
        /\ stage' = IF request.v2 THEN "hijack_v2" ELSE "relabel"
        /\ UNCHANGED <<offer, request, target>>
    BY <1>3 DEF HijackV1, Pedal1
  <2>2. Pedal1.orig \in Nat /\ IsFile(evil) /\ slots = <<>>
    BY <2>1, PipelineAssumption DEF PipelineInv, TypeOK, Pedal1, HookedInv
  <2>3. PICK slot : /\ evil.kind = "elf" /\ evil'.kind = "elf"
                    /\ OnceHooked(evil.elf, evil'.elf, Pedal1, slot)
                    /\ slots' = WithSlot("GONK", slot)
    BY <2>1, <2>2, HijackSlots
  <2>4. DOMAIN slots' = {"GONK"} /\ slots'["GONK"] = slot
    <3>1. DOMAIN slots = {}
      BY <2>2
    <3>2. DOMAIN slots' = DOMAIN slots \cup {"GONK"} /\ slots'["GONK"] = slot
      BY <2>3, SlotAdded
    <3> QED
      BY <3>1, <3>2
  <2>5. evil = StockEvil /\ StockEvil' = StockEvil /\ Pedal1' = Pedal1
    BY <2>1, <2>3 DEF HookedInv, StockEvil, StockFs, Pedal1
  <2>6. OnceHooked(StockEvil.elf, evil'.elf, Pedal1, slots'["GONK"])
    BY <2>3, <2>4, <2>5
  <2>7. StockEvil.kind = "elf"
    BY <2>3, <2>5
  <2> QED
    BY <2>1, <2>3, <2>4, <2>5, <2>6, <2>7 DEF HookedInv
<1>4. CASE HijackV2
  <2>1. /\ stage = "hijack_v2" /\ Hijack(Pedal2, "GONK_V2") /\ stage' = "relabel"
        /\ UNCHANGED <<offer, request, target>>
    BY <1>4 DEF HijackV2, Pedal2
  <2>2. /\ Pedal2.orig \in Nat /\ IsFile(evil) /\ StockEvil.kind = "elf"
        /\ DOMAIN slots = {"GONK"} /\ OnceHooked(StockEvil.elf, evil.elf, Pedal1, slots["GONK"])
    BY <2>1, PipelineAssumption DEF PipelineInv, TypeOK, Pedal2, HookedInv, Hooking
  <2>3. PICK slot : /\ evil.kind = "elf" /\ evil'.kind = "elf"
                    /\ OnceHooked(evil.elf, evil'.elf, Pedal2, slot)
                    /\ slots' = WithSlot("GONK_V2", slot)
    BY <2>1, <2>2, HijackSlots
  <2>4. DOMAIN slots' = {"GONK", "GONK_V2"} /\ slots'["GONK_V2"] = slot
        /\ slots'["GONK"] = slots["GONK"]
    BY <2>2, <2>3, SlotAdded
  <2>5. StockEvil' = StockEvil /\ Pedal1' = Pedal1 /\ Pedal2' = Pedal2
    BY <2>1 DEF StockEvil, StockFs, Pedal1, Pedal2
  <2>6. \E m : /\ OnceHooked(StockEvil.elf, m, Pedal1, slots'["GONK"])
               /\ OnceHooked(m, evil'.elf, Pedal2, slots'["GONK_V2"])
    BY <2>2, <2>3, <2>4
  <2>7. request'.v2
    BY <2>1 DEF HookedInv
  <2> QED
    BY <2>1, <2>2, <2>3, <2>4, <2>5, <2>6, <2>7 DEF HookedInv
<1>5. CASE Relabel
  <2>1. /\ stage = "relabel" /\ stage' = "script" /\ slots' = slots
        /\ evil' = ElfFile(Relabelled(evil.elf, Targets[target]))
        /\ UNCHANGED <<offer, request, target>>
    BY <1>5 DEF Relabel
  <2>2. IsFile(evil) /\ evil.kind = "elf"
    BY <2>1 DEF PipelineInv
  <2>3. IsElf(evil.elf) /\ evil'.kind = "elf" /\ evil'.elf = Relabelled(evil.elf, Targets[target])
    BY <2>1, <2>2 DEF IsFile, ElfFile
  <2>4. \A e, pedal, slot : OnceHooked(e, evil.elf, pedal, slot) => OnceHooked(e, evil'.elf, pedal, slot)
    BY <2>3, RelabelledHooks
  <2>5. StockEvil' = StockEvil /\ Pedal1' = Pedal1 /\ Pedal2' = Pedal2
    BY <2>1 DEF StockEvil, StockFs, Pedal1, Pedal2
  <2> QED
    BY <2>1, <2>3, <2>4, <2>5 DEF HookedInv, Hooking
<1>6. CASE BuildScript \/ Inject \/ CheckFilesystem \/ CloseImage \/ Repack \/ VerifyRoundTrip
  <2>1. /\ stage \in (Hooking \cup Filling) \ {"hijack_v1", "hijack_v2"}
        /\ stage' \in Filling
        /\ UNCHANGED <<offer, request, target, evil, slots>>
    BY <1>6 DEF BuildScript, Inject, CheckFilesystem, CloseImage, Repack, VerifyRoundTrip,
                Hooking, Filling
  <2>2. StockEvil' = StockEvil /\ Pedal1' = Pedal1 /\ Pedal2' = Pedal2
    BY <2>1 DEF StockEvil, StockFs, Pedal1, Pedal2
  <2> QED
    BY <2>1, <2>2 DEF HookedInv, Hooking, Filling
<1>7. CASE Refuse
  BY <1>7 DEF Refuse, HookedInv, Hooking, Filling
<1>8. CASE UNCHANGED vars
  <2>1. UNCHANGED <<stage, offer, request, target, evil, slots>>
    BY <1>8 DEF vars
  <2>2. StockEvil' = StockEvil /\ Pedal1' = Pedal1 /\ Pedal2' = Pedal2
    BY <2>1 DEF StockEvil, StockFs, Pedal1, Pedal2
  <2> QED
    BY <2>1, <2>2 DEF HookedInv
<1> QED
  BY <1>1, <1>2, <1>3, <1>4, <1>5, <1>6, <1>7, <1>8 DEF Next

\* Every stock launcher that becomes one with hook slots started Evil without.
LEMMA LauncherStep ==
  ASSUME PipelineInv, LauncherInv, [Next]_vars PROVE LauncherInv'
<1>1. CASE ReadStock \/ UnpackRootfs
  <2>1. stage' \in {"unpack", "dump"} /\ launcher' = launcher
    BY <1>1 DEF ReadStock, UnpackRootfs
  <2> QED
    BY <2>1 DEF LauncherInv, Hooking, Filling
<1>2. CASE DumpFiles
  <2>1. /\ stage = "dump" /\ stage' = "hijack_v1" /\ Exists(fs, "Scripts", "evil")
        /\ launcher' = Dump(fs, "Scripts", "evil") /\ offer' = offer
    BY <1>2 DEF DumpFiles
  <2>2. StockReadable /\ DumpsStock /\ "Scripts" \in Dirs /\ "evil" \in Names
    BY <2>1, PipelineAssumption DEF PipelineInv
  <2>3. launcher' \in {Garbage, StockLauncher} /\ IsFile(launcher')
    BY <2>1, <2>2, DumpedFile DEF StockLauncher
  <2>4. StockLauncher' = StockLauncher
    BY <2>1 DEF StockLauncher, StockFs
  <2> QED
    BY <2>1, <2>3, <2>4 DEF LauncherInv, Hooking, Filling
<1>3. CASE HijackV1 \/ HijackV2 \/ Relabel
  <2>1. /\ stage \in Hooking /\ stage' \in Hooking /\ UNCHANGED <<offer, launcher>>
    BY <1>3 DEF HijackV1, HijackV2, Relabel, Hooking
  <2>2. StockLauncher' = StockLauncher
    BY <2>1 DEF StockLauncher, StockFs
  <2> QED
    BY <2>1, <2>2 DEF LauncherInv, Hooking, Filling
<1>4. CASE BuildScript
  <2>1. PICK s \in Launchers(Lines(launcher), slots) : launcher' = ScriptFile(s)
    BY <1>4 DEF BuildScript
  <2>2. stage = "script" /\ stage' = "inject" /\ slots' = slots /\ offer' = offer
    BY <1>4 DEF BuildScript
  <2>3. IsScript(Lines(launcher))
    <3>1. CASE launcher.kind = "script"
      BY <3>1 DEF LauncherInv, IsFile, Lines
    <3>2. CASE launcher.kind # "script"
      <4>1. Lines(launcher) = <<Line("other")>>
        BY <3>2 DEF Lines
      <4>2. Line("other").kind = "other" /\ Line("other").env = <<>> /\ DOMAIN <<>> = {}
        BY DEF Line
      <4>3. PICK x : x = Line("other")
        OBVIOUS
      <4>4. <<x>> \in Seq({x}) /\ DOMAIN <<x>> = {1} /\ <<x>>[1] = x
        OBVIOUS
      <4>5. <<x>> \in Seq(Range(<<x>>))
        BY <4>4, OwnLines
      <4>6. IsScript(<<x>>)
        BY <4>2, <4>3, <4>4, <4>5 DEF IsScript, Positions
      <4> QED
        BY <4>1, <4>3, <4>6
    <3> QED
      BY <3>1, <3>2
  <2>4. DOMAIN slots \subseteq {"GONK", "GONK_V2"}
    BY DEF PipelineInv, TypeOK
  <2>5. /\ IsScript(s) /\ Starts(s) = {[kind |-> "launch", env |-> slots]}
        /\ Positions(Lines(launcher), "exec") # {}
    BY <2>1, <2>3, <2>4, LauncherBuilt
  <2>6. launcher.kind = "script"
    <3> SUFFICES ASSUME launcher.kind # "script" PROVE FALSE
      OBVIOUS
    <3>1. Lines(launcher) = <<Line("other")>>
      BY DEF Lines
    <3>2. Line("other").kind = "other"
      BY DEF Line
    <3>3. Positions(Lines(launcher), "exec") = {}
      BY <3>1, <3>2 DEF Positions
    <3> QED
      BY <2>5, <3>3
  <2>7. launcher = StockLauncher
    BY <2>2, <2>6 DEF LauncherInv, Hooking, Garbage
  <2>8. StockLauncher.kind = "script" /\ \A l \in Starts(StockLauncher.lines) : l.env = <<>>
    <3>1. Lines(launcher) = launcher.lines
      BY <2>6 DEF Lines
    <3>2. /\ Positions(launcher.lines, "launch") = {}
          /\ \A k \in DOMAIN launcher.lines :
                launcher.lines[k].kind # "launch" => launcher.lines[k].env = <<>>
      BY <2>3, <2>5, <3>1 DEF IsScript
    <3>3. \A l \in Starts(launcher.lines) : l.env = <<>>
      BY <3>2 DEF Starts, Positions
    <3> QED
      BY <2>6, <2>7, <3>3
  <2>9. StockLauncher' = StockLauncher
    BY <2>2 DEF StockLauncher, StockFs
  <2>10. launcher'.kind = "script" /\ launcher'.lines = s /\ IsFile(launcher')
    BY <2>1, <2>5 DEF ScriptFile, IsFile
  <2> QED
    BY <2>2, <2>5, <2>8, <2>9, <2>10 DEF LauncherInv, Hooking, Filling
<1>5. CASE Inject \/ CheckFilesystem \/ CloseImage \/ Repack \/ VerifyRoundTrip
  <2>1. /\ stage \in Filling /\ stage' \in Filling /\ UNCHANGED <<offer, launcher, slots>>
    BY <1>5 DEF Inject, CheckFilesystem, CloseImage, Repack, VerifyRoundTrip, Filling
  <2>2. StockLauncher' = StockLauncher
    BY <2>1 DEF StockLauncher, StockFs
  <2> QED
    BY <2>1, <2>2 DEF LauncherInv, Hooking, Filling
<1>6. CASE Refuse
  BY <1>6, NothingIsFile DEF Refuse, LauncherInv, Hooking, Filling
<1>7. CASE UNCHANGED vars
  <2>1. UNCHANGED <<stage, offer, launcher, slots>>
    BY <1>7 DEF vars
  <2>2. StockLauncher' = StockLauncher
    BY <2>1 DEF StockLauncher, StockFs
  <2> QED
    BY <2>1, <2>2 DEF LauncherInv
<1> QED
  BY <1>1, <1>2, <1>3, <1>4, <1>5, <1>6, <1>7 DEF Next

-----------------------------------------------------------------------------
(* One file put in place                                                    *)

\* An inode that is listed is in use, and its blocks are marked.
LEMMA ListedInUse ==
  ASSUME NEW x, IsFs(x), FsSound(x), NEW d \in Dirs, NEW n \in Names, NEW j,
         Lists(x.entry[d][n], j)
  PROVE  j \in InUse(x) /\ j \in x.imap /\ x.blocks[j] \subseteq x.bmap
<1>1. /\ Claimed(x) \subseteq x.bmap /\ InUse(x) = x.imap /\ EntriesSound(x)
  BY FsSoundParts
<1>2. j \in Inodes
  <2>1. x.entry[d][n] \in Seq(Inodes)
    BY DEF IsFs
  <2> QED
    BY <2>1 DEF Lists
<1>3. <<d, n>> \in Linked(x, j)
  BY LinkedAt
<1>4. Cardinality(Linked(x, j)) \in Nat /\ Cardinality(Linked(x, j)) # 0
  BY <1>3, LinkedFinite, FS_EmptySet
<1>5. x.links[j] \in Nat /\ Cardinality(Linked(x, j)) <= x.links[j]
  BY <1>1, <1>2 DEF EntriesSound, IsFs
<1>6. j \in InUse(x)
  BY <1>2, <1>4, <1>5 DEF InUse
<1>7. \A b \in x.blocks[j] : b \in Claimed(x)
  BY <1>6, ClaimedBlock
<1> QED
  BY <1>1, <1>6, <1>7

\* One file put in place, and no other listed one touched.
Placed(x, y, d, n, content, i, missed) ==
    /\ IsFs(y)
    /\ \A c \in Dirs, m \in Names : <<c, m>> # <<d, n>> =>
          /\ y.entry[c][m] = x.entry[c][m]
          /\ ~ Lists(x.entry[c][m], i)
    /\ Lists(y.entry[d][n], i) /\ y.data[i] = content
    /\ \A j : Lists(y.entry[d][n], j) => j = i \/ Lists(x.entry[d][n], j)
    /\ \A c \in Dirs, m \in Names : \A j :
          Lists(y.entry[c][m], j) /\ j # i => y.data[j] = x.data[j]
    /\ (~ missed /\ Len(x.entry[d][n]) <= 1) => y.entry[d][n] = <<i>>

LEMMA FilePlaced ==
  ASSUME NEW x, IsFs(x), FsSound(x), NEW d \in Dirs, NEW n \in Names, NEW missed \in BOOLEAN,
         NEW z, z = IF Exists(x, d, n) /\ ~ missed THEN Removed(x, d, n) ELSE x,
         NEW content, NEW size, NEW i, NEW B, NEW X, NEW ahead \in BOOLEAN,
         Allocates(z, d, size, i, B, X)
  PROVE  Placed(x, Created(z, d, n, content, i, B, X, ahead), d, n, content, i, missed)
<1> DEFINE y == Created(z, d, n, content, i, B, X, ahead)
<1>1. IsFs(z) /\ FsSound(z)
  <2>1. CASE Exists(x, d, n) /\ ~ missed
    BY <2>1, RemoveKeepsSound
  <2>2. CASE ~ (Exists(x, d, n) /\ ~ missed)
    BY <2>2
  <2> QED
    BY <2>1, <2>2
<1>2. CreatedTo(z, y, d, n, content, i, B, X)
  BY <1>1, CreatedParts
<1> HIDE DEF y
<1>3. x.entry[d][n] \in Seq(Inodes) /\ z.entry[d][n] \in Seq(Inodes) /\ y.entry[d][n] \in Seq(Inodes)
  <2>1. IsFs(x) /\ IsFs(z) /\ IsFs(y)
    BY <1>1, <1>2 DEF CreatedTo
  <2> QED
    BY <2>1 DEF IsFs
<1>4. /\ z.data = x.data
      /\ \A c \in Dirs, m \in Names : <<c, m>> # <<d, n>> => z.entry[c][m] = x.entry[c][m]
      /\ z.entry[d][n] = x.entry[d][n]
         \/ (x.entry[d][n] # <<>> /\ z.entry[d][n] = Tail(x.entry[d][n]))
      /\ ~ missed => z.entry[d][n] = <<>> \/ z.entry[d][n] = Tail(x.entry[d][n])
  <2>1. CASE Exists(x, d, n) /\ ~ missed
    <3>1. RemovedTo(x, Removed(x, d, n), d, n, Lookup(x, d, n)) /\ z = Removed(x, d, n)
      BY <2>1, RemovedParts
    <3> QED
      BY <2>1, <3>1 DEF RemovedTo, Exists
  <2>2. CASE ~ (Exists(x, d, n) /\ ~ missed)
    BY <2>2 DEF Exists
  <2> QED
    BY <2>1, <2>2
<1>5. \A j : Lists(z.entry[d][n], j) => Lists(x.entry[d][n], j)
  <2>1. CASE z.entry[d][n] = x.entry[d][n]
    BY <2>1
  <2>2. CASE x.entry[d][n] # <<>> /\ z.entry[d][n] = Tail(x.entry[d][n])
    <3>1. PICK s : s = x.entry[d][n]
      OBVIOUS
    <3>2. /\ s \in Seq(Inodes) /\ s # <<>> /\ z.entry[d][n] = Tail(s)
      BY <1>3, <2>2, <3>1
    <3>3. /\ DOMAIN s = 1..Len(s) /\ DOMAIN Tail(s) = 1..(Len(s) - 1) /\ Len(s) \in Nat
          /\ \A k \in 1..(Len(s) - 1) : Tail(s)[k] = s[k + 1]
      BY <3>2
    <3>4. \A k \in DOMAIN Tail(s) : k + 1 \in DOMAIN s /\ Tail(s)[k] = s[k + 1]
      BY <3>3
    <3>5. \A j : Lists(Tail(s), j) => Lists(s, j)
      BY <3>4 DEF Lists
    <3> QED
      BY <3>1, <3>2, <3>5
  <2> QED
    BY <1>4, <2>1, <2>2
<1>6. \A j : Lists(y.entry[d][n], j) <=> Lists(z.entry[d][n], j) \/ j = i
  <2>1. PICK s : s = z.entry[d][n]
    OBVIOUS
  <2>2. PICK t : t = y.entry[d][n]
    OBVIOUS
  <2>3. s \in Seq(Inodes) /\ (t = <<i>> \o s \/ t = Append(s, i))
    BY <1>2, <1>3, <2>1, <2>2 DEF CreatedTo
  <2>4. i \in Inodes
    BY DEF Allocates
  <2>5. ~ Lists(s, i)
    <3>1. i \notin z.imap
      BY DEF Allocates
    <3> QED
      BY <1>1, <2>1, <3>1, ListedInUse
  <2>6. Distinct(s)
    BY <1>1, <2>1, FsSoundParts DEF EntriesSound
  <2>7. \A j : Lists(t, j) <=> Lists(s, j) \/ j = i
    BY <2>3, <2>4, <2>5, <2>6, LongerList
  <2> QED
    BY <2>1, <2>2, <2>7
<1>7. ASSUME NEW c \in Dirs, NEW m \in Names, NEW j, Lists(z.entry[c][m], j)
      PROVE  j # i /\ y.data[j] = x.data[j]
  <2>1. j \in InUse(z) /\ j \in z.imap /\ z.blocks[j] \subseteq z.bmap
    BY <1>1, <1>7, ListedInUse
  <2>2. j \in Inodes /\ z.links[j] > 0 /\ j # i
    BY <2>1 DEF InUse, Allocates
  <2>3. (B \cup X) \cap z.bmap = {}
    BY DEF Allocates, FirstOf
  <2>4. z.blocks[j] \cap (B \cup X) = {}
    BY <2>1, <2>3
  <2>5. y.data[j] = z.data[j]
    BY <1>2, <2>2, <2>4 DEF CreatedTo, Written
  <2> QED
    BY <1>4, <2>2, <2>5
<1>8. ASSUME NEW c \in Dirs, NEW m \in Names, <<c, m>> # <<d, n>>
      PROVE  y.entry[c][m] = x.entry[c][m] /\ ~ Lists(x.entry[c][m], i)
  <2>1. y.entry[c][m] = z.entry[c][m] /\ z.entry[c][m] = x.entry[c][m]
    <3>1. y.entry[c][m] = z.entry[c][m]
      BY <1>2, <1>8 DEF CreatedTo
    <3> QED
      BY <1>4, <1>8, <3>1
  <2> QED
    BY <1>7, <2>1
<1>9. y.data[i] = content
  <2>1. i \in Inodes
    BY DEF Allocates
  <2> QED
    BY <1>2, <2>1 DEF CreatedTo, Written
<1>10. ASSUME NEW c \in Dirs, NEW m \in Names, NEW j, Lists(y.entry[c][m], j), j # i
       PROVE  y.data[j] = x.data[j]
  <2>1. CASE <<c, m>> = <<d, n>>
    BY <1>6, <1>7, <1>10, <2>1
  <2>2. CASE <<c, m>> # <<d, n>>
    <3>1. y.entry[c][m] = z.entry[c][m]
      BY <1>2, <2>2 DEF CreatedTo
    <3> QED
      BY <1>7, <1>10, <3>1
  <2> QED
    BY <2>1, <2>2
<1>11. ASSUME ~ missed, Len(x.entry[d][n]) <= 1 PROVE y.entry[d][n] = <<i>>
  <2>1. PICK s : s = x.entry[d][n]
    OBVIOUS
  <2>2. s \in Seq(Inodes) /\ Len(s) <= 1
    BY <1>3, <1>11, <2>1
  <2>3. z.entry[d][n] = <<>>
    <3>1. CASE s = <<>>
      BY <1>4, <2>1, <3>1
    <3>2. CASE s # <<>>
      <4>1. Len(s) = 1 /\ Tail(s) = <<>>
        <5>1. Len(s) \in Nat /\ Len(s) # 0
          BY <2>2, <3>2, EmptySeq, LenProperties
        <5>2. Len(s) = 1
          <6>1. PICK l : l = Len(s)
            OBVIOUS
          <6>2. l \in Nat /\ l # 0 /\ l <= 1
            BY <2>2, <5>1, <6>1, Zenon
          <6>3. l = 1
            BY <6>2
          <6> QED
            BY <6>1, <6>3, Zenon
        <5>3. Tail(s) \in Seq(Inodes) /\ Len(Tail(s)) = 0
          BY <2>2, <3>2, <5>2, HeadTailProperties
        <5>4. Tail(s) = <<>>
          BY <5>3, EmptySeq
        <5> QED
          BY <5>2, <5>4
      <4> QED
        BY <1>4, <1>11, <2>1, <4>1
    <3> QED
      BY <3>1, <3>2
  <2>4. y.entry[d][n] = <<i>> \o <<>> \/ y.entry[d][n] = Append(<<>>, i)
    BY <1>2, <2>3 DEF CreatedTo
  <2> QED
    BY <2>4
<1>12. Placed(x, y, d, n, content, i, missed)
  <2>1. IsFs(y)
    BY <1>2 DEF CreatedTo
  <2>2. Lists(y.entry[d][n], i) /\ \A j : Lists(y.entry[d][n], j) => j = i \/ Lists(x.entry[d][n], j)
    BY <1>5, <1>6
  <2> QED
    BY <1>8, <1>9, <1>10, <1>11, <2>1, <2>2 DEF Placed
<1> QED
  BY <1>12 DEF y

-----------------------------------------------------------------------------
(* The four files in their places                                           *)

InjectedAs(x, y, d, n, content, missed, i) ==
    \E ahead, z, B, X :
        /\ ahead \in BOOLEAN
        /\ z = IF Exists(x, d, n) /\ ~ missed THEN Removed(x, d, n) ELSE x
        /\ Allocates(z, d, SizeOf(content), i, B, X)
        /\ y = Created(z, d, n, content, i, B, X, ahead)

LEMMA Places ==
  /\ Len(ToInject) = 4
  /\ ToInject[1] = [dir |-> "Evil", name |-> "Evil", content |-> evil]
  /\ ToInject[2] = [dir |-> "Evil", name |-> "libnam_hook.so", content |-> HookLibrary]
  /\ ToInject[3] = [dir |-> "Evil", name |-> "libnam_preload.so", content |-> PreloadLibrary]
  /\ ToInject[4] = [dir |-> "Scripts", name |-> "evil", content |-> launcher]
BY DEF ToInject

\* Where the k-th file goes.
Place(k) == CASE k = 1 -> <<"Evil", "Evil">>
              [] k = 2 -> <<"Evil", "libnam_hook.so">>
              [] k = 3 -> <<"Evil", "libnam_preload.so">>
              [] k = 4 -> <<"Scripts", "evil">>

Content(k) == CASE k = 1 -> evil
                [] k = 2 -> HookLibrary
                [] k = 3 -> PreloadLibrary
                [] k = 4 -> launcher

LEMMA PlacesApart ==
  /\ \A k \in 1..4 : /\ Place(k) = <<Place(k)[1], Place(k)[2]>>
                     /\ Place(k)[1] \in Dirs /\ Place(k)[2] \in Names
                     /\ Place(k) \in Injected
  /\ \A k, l \in 1..4 : k # l => Place(k) # Place(l)
  /\ \A p \in Injected : \E k \in 1..4 : p = Place(k)
<1>1. /\ Place(1) = <<"Evil", "Evil">> /\ Place(2) = <<"Evil", "libnam_hook.so">>
      /\ Place(3) = <<"Evil", "libnam_preload.so">> /\ Place(4) = <<"Scripts", "evil">>
  BY DEF Place
<1>2. \A k \in 1..4 : k = 1 \/ k = 2 \/ k = 3 \/ k = 4
  OBVIOUS
<1>3. 1 \in 1..4 /\ 2 \in 1..4 /\ 3 \in 1..4 /\ 4 \in 1..4
  OBVIOUS
<1>4. \A k \in 1..4 : /\ Place(k) = <<Place(k)[1], Place(k)[2]>>
                     /\ Place(k)[1] \in Dirs /\ Place(k)[2] \in Names
                     /\ Place(k) \in Injected
  <2>1. Place(1) \in Injected /\ Place(2) \in Injected /\ Place(3) \in Injected /\ Place(4) \in Injected
    BY <1>1 DEF Injected
  <2>2. \A p \in Injected : p = <<p[1], p[2]>> /\ p[1] \in Dirs /\ p[2] \in Names
    <3>1. ASSUME NEW d \in Dirs, NEW n \in Names, NEW p, p = <<d, n>>
          PROVE  p = <<p[1], p[2]>> /\ p[1] \in Dirs /\ p[2] \in Names
      BY <3>1
    <3>2. \A p \in Injected : \E d \in Dirs, n \in Names : p = <<d, n>>
      BY PipelineAssumption DEF Injected
    <3> QED
      BY <3>1, <3>2
  <2>3. \A k \in 1..4 : Place(k) \in Injected
    BY <1>2, <2>1
  <2> QED
    BY <2>2, <2>3
<1>5. \A k, l \in 1..4 : k # l => Place(k) # Place(l)
  BY <1>1, <1>2
<1>6. \A p \in Injected : \E k \in 1..4 : p = Place(k)
  BY <1>1, <1>3 DEF Injected
<1> QED
  BY <1>4, <1>5, <1>6

LEMMA InjectPicked ==
  ASSUME PipelineInv, Inject
  PROVE  LET k == Len(injected) + 1
         IN  /\ stage = "inject" /\ k \in 1..4 /\ stage' = IF k = 4 THEN "check" ELSE "inject"
             /\ UNCHANGED <<offer, request, target, evil, launcher, slots, built, out>>
             /\ \E missed \in BOOLEAN, i \in Inodes :
                   /\ InjectedAs(fs, fs', Place(k)[1], Place(k)[2], Content(k), missed, i)
                   /\ injected' = Append(injected, i)
                   /\ mishaps' = IF missed THEN mishaps \cup {"lookup"} ELSE mishaps
<1> DEFINE k == Len(injected) + 1
           f == ToInject[k]
<1>1. stage = "inject" /\ UNCHANGED <<offer, request, target, evil, launcher, slots, built, out>>
      /\ stage' = IF k = 4 THEN "check" ELSE "inject"
  BY Places DEF Inject
<1>2. k \in 1..4
  <2>1. injected \in Seq(Inodes) /\ Len(injected) < 4
    BY <1>1 DEF PipelineInv
  <2>2. Len(injected) \in Nat
    BY <2>1, LenProperties
  <2> QED
    BY <2>1, <2>2
<1>3. f.dir = Place(k)[1] /\ f.name = Place(k)[2] /\ f.content = Content(k)
  <2>1. k = 1 \/ k = 2 \/ k = 3 \/ k = 4
    BY <1>2
  <2> HIDE DEF k
  <2> QED
    BY <2>1, Places DEF Place, Content
<1>4. PICK missed \in MissedLookups(f), ahead \in BOOLEAN, i \in Inodes :
        LET cleared == IF Exists(fs, f.dir, f.name) /\ ~missed
                       THEN Removed(fs, f.dir, f.name) ELSE fs
        IN  \E B, X :
              /\ Allocates(cleared, f.dir, SizeOf(f.content), i, B, X)
              /\ fs' = Created(cleared, f.dir, f.name, f.content, i, B, X, ahead)
              /\ injected' = Append(injected, i)
              /\ mishaps' = IF missed THEN mishaps \cup {"lookup"} ELSE mishaps
  BY DEF Inject
<1> HIDE DEF f
<1>5. missed \in BOOLEAN
  BY <1>4 DEF MissedLookups
<1> DEFINE cleared == IF Exists(fs, f.dir, f.name) /\ ~missed
                      THEN Removed(fs, f.dir, f.name) ELSE fs
<1>6. PICK B, X :
        /\ Allocates(cleared, f.dir, SizeOf(f.content), i, B, X)
        /\ fs' = Created(cleared, f.dir, f.name, f.content, i, B, X, ahead)
        /\ injected' = Append(injected, i)
        /\ mishaps' = IF missed THEN mishaps \cup {"lookup"} ELSE mishaps
  BY <1>4
<1>7. PICK z : z = cleared
  OBVIOUS
<1>8. z = IF Exists(fs, f.dir, f.name) /\ ~missed THEN Removed(fs, f.dir, f.name) ELSE fs
  BY <1>7
<1>9. InjectedAs(fs, fs', f.dir, f.name, f.content, missed, i)
  <2>1. /\ Allocates(z, f.dir, SizeOf(f.content), i, B, X)
        /\ fs' = Created(z, f.dir, f.name, f.content, i, B, X, ahead)
    BY <1>6, <1>7
  <2> HIDE DEF cleared
  <2> QED
    BY <1>8, <2>1 DEF InjectedAs
<1>10. InjectedAs(fs, fs', Place(k)[1], Place(k)[2], Content(k), missed, i)
  BY <1>3, <1>9
<1> HIDE DEF k
<1>11. \E m \in BOOLEAN, j \in Inodes :
         /\ InjectedAs(fs, fs', Place(k)[1], Place(k)[2], Content(k), m, j)
         /\ injected' = Append(injected, j)
         /\ mishaps' = IF m THEN mishaps \cup {"lookup"} ELSE mishaps
  BY <1>4, <1>5, <1>6, <1>10, Zenon
<1> QED
  BY <1>1, <1>2, <1>11 DEF k

LEMMA InjectedPlaces ==
  ASSUME NEW x, IsFs(x), FsSound(x), NEW d \in Dirs, NEW n \in Names, NEW content,
         NEW missed \in BOOLEAN, NEW i, NEW y, InjectedAs(x, y, d, n, content, missed, i)
  PROVE  Placed(x, y, d, n, content, i, missed)
<1>1. PICK ahead, z, B, X :
        /\ ahead \in BOOLEAN
        /\ z = IF Exists(x, d, n) /\ ~ missed THEN Removed(x, d, n) ELSE x
        /\ Allocates(z, d, SizeOf(content), i, B, X)
        /\ y = Created(z, d, n, content, i, B, X, ahead)
  BY DEF InjectedAs
<1>2. Placed(x, Created(z, d, n, content, i, B, X, ahead), d, n, content, i, missed)
  BY <1>1, FilePlaced
<1> QED
  BY <1>1, <1>2

\* A file system, sound or not, stays one, and its files are the new file,
\* old ones, or old ones overwritten.
LEMMA InjectedFiles ==
  ASSUME NEW x, IsFs(x), NEW d \in Dirs, NEW n \in Names, NEW content,
         NEW missed \in BOOLEAN, NEW i, NEW y, InjectedAs(x, y, d, n, content, missed, i)
  PROVE  IsFs(y) /\ \A j \in Inodes : y.data[j] \in {content, Garbage, x.data[j]}
<1>1. PICK ahead, z, B, X :
        /\ ahead \in BOOLEAN
        /\ z = IF Exists(x, d, n) /\ ~ missed THEN Removed(x, d, n) ELSE x
        /\ Allocates(z, d, SizeOf(content), i, B, X)
        /\ y = Created(z, d, n, content, i, B, X, ahead)
  BY DEF InjectedAs
<1>2. IsFs(z) /\ z.data = x.data
  <2>1. CASE Exists(x, d, n) /\ ~ missed
    <3>1. RemovedTo(x, Removed(x, d, n), d, n, Lookup(x, d, n)) /\ z = Removed(x, d, n)
      BY <1>1, <2>1, RemovedParts
    <3> QED
      BY <3>1 DEF RemovedTo
  <2>2. CASE ~ (Exists(x, d, n) /\ ~ missed)
    BY <1>1, <2>2
  <2> QED
    BY <2>1, <2>2
<1>3. CreatedTo(z, y, d, n, content, i, B, X)
  BY <1>1, <1>2, CreatedParts
<1>4. \A j \in Inodes : y.data[j] \in {content, Garbage, z.data[j]}
  BY <1>3 DEF CreatedTo, Written
<1> QED
  BY <1>2, <1>3, <1>4 DEF CreatedTo

\* What can be read out of the working file system are files, and the
\* checks start when all four are injected.
FilesInv ==
    /\ stage \notin {"read", "unpack", "refused"} =>
          IsFs(fs) /\ \A i \in Inodes : IsFile(fs.data[i])
    /\ stage \in {"check", "close", "repack", "verify", "shipped"} => Len(injected) = 4

LEMMA GarbageIsFile == IsFile(Garbage) /\ IsFile(HookLibrary) /\ IsFile(PreloadLibrary)
BY DEF IsFile, Garbage, HookLibrary, PreloadLibrary, Blob

LEMMA NewData ==
  ASSUME NEW x, IsFs(x), NEW data, DOMAIN data = Inodes, NEW r, r = [x EXCEPT !.data = data]
  PROVE  IsFs(r) /\ r.data = data /\ r.entry = x.entry
BY DEF IsFs

LEMMA UnpackedAs ==
  ASSUME PipelineInv, UnpackRootfs
  PROVE  /\ StockReadable /\ StockFs' = StockFs /\ IsFs(fs') /\ fs'.entry = StockFs.entry
         /\ \A i \in Inodes : fs'.data[i] = StockFs.data[i]
                              \/ (fs'.data[i] = Garbage /\ "tail" \in mishaps')
         /\ stage = "unpack" /\ stage' = "dump" /\ injected' = <<>>
<1>1. /\ stage = "unpack" /\ stage' = "dump" /\ OldImage(offer).kind = "xz"
      /\ offer' = offer /\ injected' = injected /\ injected = <<>>
  BY DEF UnpackRootfs, Decompresses, PipelineInv, Before
<1>2. StockReadable /\ StockFs' = StockFs
  BY <1>1, StockIsReadable DEF PipelineInv, StockFs, OldImage
<1>3. IsFs(StockFs) /\ DOMAIN StockFs.data = Inodes
  BY <1>2 DEF StockReadable, IsFs
<1>4. \/ fs' = StockFs
      \/ "tail" \in mishaps' /\ \E i \in Inodes : fs' = [StockFs EXCEPT !.data[i] = Garbage]
  BY DEF UnpackRootfs, StockFs, InUse
<1>5. CASE fs' = StockFs
  <2>1. IsFs(fs') /\ fs'.entry = StockFs.entry /\ \A i \in Inodes : fs'.data[i] = StockFs.data[i]
    BY <1>3, <1>5
  <2>2. injected' = <<>>
    BY <1>1
  <2> QED
    <3>1. \A i \in Inodes : fs'.data[i] = StockFs.data[i]
                             \/ (fs'.data[i] = Garbage /\ "tail" \in mishaps')
      BY <2>1
    <3> QED
      BY <1>1, <1>2, <2>1, <2>2, <3>1, Zenon
<1>6. CASE "tail" \in mishaps' /\ \E i \in Inodes : fs' = [StockFs EXCEPT !.data[i] = Garbage]
  <2>1. PICK i \in Inodes : fs' = [StockFs EXCEPT !.data[i] = Garbage]
    BY <1>6
  <2> DEFINE data == [StockFs.data EXCEPT ![i] = Garbage]
  <2>2. fs' = [StockFs EXCEPT !.data = data]
    BY <2>1
  <2>3. DOMAIN data = Inodes /\ \A j \in Inodes : data[j] = StockFs.data[j] \/ data[j] = Garbage
    BY <1>3
  <2> HIDE DEF data
  <2>4. IsFs(fs') /\ fs'.data = data /\ fs'.entry = StockFs.entry
    BY <1>3, <2>2, <2>3, NewData
  <2> QED
    BY <1>1, <1>2, <1>6, <2>3, <2>4
<1> QED
  BY <1>4, <1>5, <1>6

LEMMA ClosedAs ==
  ASSUME CloseImage, IsFs(fs)
  PROVE  /\ IsFs(fs') /\ fs'.entry = fs.entry
         /\ \A i \in Inodes : \/ fs'.data[i] = fs.data[i]
                              \/ /\ fs'.data[i] = Garbage /\ i \in Range(injected)
                                 /\ "flush" \in mishaps'
         /\ mishaps \subseteq mishaps' /\ mishaps' \subseteq mishaps \cup {"flush"}
         /\ stage = "close" /\ stage' = "repack"
         /\ UNCHANGED <<offer, request, target, evil, launcher, slots, injected, built, out>>
<1>1. PICK lost \in SUBSET Range(injected) :
        /\ fs' = [fs EXCEPT !.data = [i \in Inodes |-> IF i \in lost THEN Garbage ELSE @[i]]]
        /\ mishaps' = IF lost = {} THEN mishaps ELSE mishaps \cup {"flush"}
  BY DEF CloseImage
<1> DEFINE data == [i \in Inodes |-> IF i \in lost THEN Garbage ELSE fs.data[i]]
<1>2. fs' = [fs EXCEPT !.data = data] /\ DOMAIN data = Inodes
  BY <1>1
<1>3. \A i \in Inodes : data[i] = IF i \in lost THEN Garbage ELSE fs.data[i]
  OBVIOUS
<1> HIDE DEF data
<1>4. IsFs(fs') /\ fs'.data = data /\ fs'.entry = fs.entry
  BY <1>2, NewData
<1>5. /\ stage = "close" /\ stage' = "repack"
      /\ UNCHANGED <<offer, request, target, evil, launcher, slots, injected, built, out>>
  BY DEF CloseImage
<1>6. \A i \in Inodes : \/ fs'.data[i] = fs.data[i]
                        \/ /\ fs'.data[i] = Garbage /\ i \in Range(injected)
                           /\ "flush" \in mishaps'
  BY <1>1, <1>3, <1>4
<1>7. mishaps \subseteq mishaps' /\ mishaps' \subseteq mishaps \cup {"flush"}
  BY <1>1
<1> QED
  BY <1>4, <1>5, <1>6, <1>7

LEMMA FilesStep ==
  ASSUME PipelineInv, LauncherInv, FilesInv, [Next]_vars PROVE FilesInv'
<1>1. CASE ReadStock
  BY <1>1 DEF ReadStock, FilesInv
<1>2. CASE UnpackRootfs
  <2>1. /\ StockReadable /\ IsFs(fs') /\ stage' = "dump"
        /\ \A i \in Inodes : fs'.data[i] = StockFs.data[i] \/ fs'.data[i] = Garbage
    BY <1>2, UnpackedAs
  <2> QED
    BY <2>1, GarbageIsFile DEF StockReadable, FilesInv
<1>3. CASE Inject
  <2> DEFINE k == Len(injected) + 1
  <2>1. PICK missed \in BOOLEAN, i \in Inodes :
           InjectedAs(fs, fs', Place(k)[1], Place(k)[2], Content(k), missed, i)
    BY <1>3, InjectPicked
  <2>2. k \in 1..4 /\ stage = "inject"
    BY <1>3, InjectPicked
  <2> HIDE DEF k
  <2>3. Place(k)[1] \in Dirs /\ Place(k)[2] \in Names
    BY <2>2, PlacesApart
  <2>4. IsFile(Content(k))
    <3>1. k = 1 \/ k = 2 \/ k = 3 \/ k = 4
      BY <2>2
    <3> QED
      BY <3>1, GarbageIsFile DEF Content, PipelineInv, LauncherInv
  <2>5. IsFs(fs) /\ \A j \in Inodes : IsFile(fs.data[j])
    BY <2>2 DEF FilesInv
  <2>6. IsFs(fs') /\ \A j \in Inodes : fs'.data[j] \in {Content(k), Garbage, fs.data[j]}
    <3>1. PICK d, n, content : d = Place(k)[1] /\ n = Place(k)[2] /\ content = Content(k)
      OBVIOUS
    <3>2. d \in Dirs /\ n \in Names /\ InjectedAs(fs, fs', d, n, content, missed, i)
      BY <2>1, <2>3, <3>1
    <3>3. \A y : InjectedAs(fs, y, d, n, content, missed, i) =>
              IsFs(y) /\ \A j \in Inodes : y.data[j] \in {content, Garbage, fs.data[j]}
      BY <2>5, <3>2, InjectedFiles
    <3> QED
      BY <3>1, <3>2, <3>3
  <2>7. \A j \in Inodes : IsFile(fs'.data[j])
    BY <2>4, <2>5, <2>6, GarbageIsFile
  <2>8. stage' = "check" => Len(injected') = 4
    <3>1. stage' = IF k = 4 THEN "check" ELSE "inject"
      BY <1>3, InjectPicked DEF k
    <3>2. \E j \in Inodes : injected' = Append(injected, j)
      BY <1>3, InjectPicked
    <3>3. injected \in Seq(Inodes)
      BY DEF PipelineInv
    <3>4. Len(injected') = k
      BY <3>2, <3>3 DEF k
    <3> QED
      BY <3>1, <3>4
  <2>9. stage' \in {"inject", "check"}
    BY <1>3, InjectPicked DEF k
  <2> QED
    BY <2>6, <2>7, <2>8, <2>9 DEF FilesInv
<1>4. CASE CloseImage
  <2>1. IsFs(fs) /\ \A j \in Inodes : IsFile(fs.data[j])
    BY <1>4 DEF CloseImage, FilesInv
  <2>2. IsFs(fs') /\ \A j \in Inodes : fs'.data[j] = fs.data[j] \/ fs'.data[j] = Garbage
    BY <1>4, <2>1, ClosedAs
  <2>3. stage = "close" /\ injected' = injected
    BY <1>4 DEF CloseImage
  <2> QED
    BY <2>1, <2>2, <2>3, GarbageIsFile DEF FilesInv
<1>5. CASE DumpFiles \/ HijackV1 \/ HijackV2 \/ Relabel \/ BuildScript
           \/ CheckFilesystem \/ Repack \/ VerifyRoundTrip
  <2>1. /\ stage \notin {"read", "unpack", "refused"} /\ fs' = fs /\ injected' = injected
        /\ stage' \in {"check", "close", "repack", "verify", "shipped"}
              => stage \in {"check", "close", "repack", "verify", "shipped"}
    BY <1>5 DEF DumpFiles, HijackV1, HijackV2, Relabel, BuildScript, CheckFilesystem,
                Repack, VerifyRoundTrip
  <2> QED
    BY <2>1 DEF FilesInv
<1>6. CASE Refuse
  BY <1>6 DEF Refuse, FilesInv
<1>7. CASE UNCHANGED vars
  BY <1>7 DEF vars, FilesInv
<1> QED
  BY <1>1, <1>2, <1>3, <1>4, <1>5, <1>6, <1>7 DEF Next

\* With a sound stock file system, at every step from the unpacking on:
\* names that no file was injected under list what they did, ...
Unmoved ==
    \A d \in Dirs, n \in Names :
        (\A k \in 1..Len(injected) : Place(k) # <<d, n>>) => fs.entry[d][n] = StockFs.entry[d][n]

\* ... what a name lists is the file injected there or a file it listed before,
\* with its content, ...
IsNew(d, n, j) == \E k \in 1..Len(injected) : Place(k) = <<d, n>> /\ j = injected[k]

IsOld(d, n, j) ==
    /\ \A k \in 1..Len(injected) : injected[k] # j
    /\ Lists(StockFs.entry[d][n], j)
    /\ fs.data[j] = StockFs.data[j] \/ (fs.data[j] = Garbage /\ "tail" \in mishaps)

OldOrNew ==
    \A d \in Dirs, n \in Names : \A j :
        Lists(fs.entry[d][n], j) => IsNew(d, n, j) \/ IsOld(d, n, j)

\* ... an injected file is there under its name with its content, ...
NewInPlace ==
    \A k \in 1..Len(injected) :
        /\ Lists(fs.entry[Place(k)[1]][Place(k)[2]], injected[k])
        /\ \/ fs.data[injected[k]] = Content(k)
           \/ fs.data[injected[k]] = Garbage /\ "flush" \in mishaps

\* ... and alone, if the stock names were.
NewAlone ==
    (NamesOnce(StockFs) /\ "lookup" \notin mishaps) =>
        \A k \in 1..Len(injected) : fs.entry[Place(k)[1]][Place(k)[2]] = <<injected[k]>>

InPlaceInv ==
    (stage \notin {"read", "unpack", "refused"} /\ FsSound(StockFs)) =>
        Unmoved /\ OldOrNew /\ NewInPlace /\ NewAlone

\* Only the step, the launcher and the mishaps change.
LEMMA InPlaceKept ==
  ASSUME InPlaceInv, FsSound(StockFs), stage \notin {"read", "unpack", "refused"},
         UNCHANGED <<offer, fs, injected, mishaps>>,
         \A k \in 1..Len(injected) : Content(k)' = Content(k)
  PROVE  InPlaceInv'
<1>1. StockFs' = StockFs
  BY DEF StockFs
<1>2. Unmoved' /\ OldOrNew' /\ NewInPlace' /\ NewAlone'
  <2>1. Unmoved'
    BY <1>1 DEF InPlaceInv, Unmoved
  <2>2. OldOrNew'
    BY <1>1 DEF InPlaceInv, OldOrNew, IsNew, IsOld
  <2>3. NewInPlace'
    BY DEF InPlaceInv, NewInPlace
  <2>4. NewAlone'
    BY <1>1 DEF InPlaceInv, NewAlone
  <2> QED
    BY <2>1, <2>2, <2>3, <2>4
<1> QED
  BY <1>2 DEF InPlaceInv

\* Nothing is injected yet.
LEMMA InPlaceAtFirst ==
  ASSUME injected' = <<>>, StockFs' = StockFs, IsFs(fs'), fs'.entry = StockFs.entry,
         \A i \in Inodes : fs'.data[i] = StockFs.data[i]
                           \/ (fs'.data[i] = Garbage /\ "tail" \in mishaps')
  PROVE  InPlaceInv'
<1>1. 1..Len(injected') = {}
  <2>1. Len(<<>>) = 0
    OBVIOUS
  <2> QED
    BY <2>1
<1>2. Unmoved' /\ NewInPlace' /\ NewAlone'
  BY <1>1 DEF Unmoved, NewInPlace, NewAlone
<1>3. OldOrNew'
  <2> SUFFICES ASSUME NEW d \in Dirs, NEW n \in Names, NEW j, Lists(fs'.entry[d][n], j)
               PROVE  /\ \A k \in 1..Len(injected') : injected'[k] # j
                      /\ Lists(StockFs.entry[d][n], j)
                      /\ fs'.data[j] = StockFs.data[j] \/ (fs'.data[j] = Garbage /\ "tail" \in mishaps')
    <3>1. StockFs' = StockFs
      OBVIOUS
    <3> QED
      BY <3>1 DEF OldOrNew, IsOld
  <2>1. j \in Inodes
    <3>1. fs'.entry[d][n] \in Seq(Inodes)
      BY DEF IsFs
    <3> QED
      BY <3>1 DEF Lists
  <2> QED
    BY <1>1, <2>1
<1> QED
  BY <1>2, <1>3 DEF InPlaceInv

LEMMA InPlaceInjected ==
  ASSUME PipelineInv, FilesInv, InPlaceInv, Inject, FsSound(StockFs)
  PROVE  InPlaceInv'
<1> DEFINE k == Len(injected) + 1
<1>1. PICK missed \in BOOLEAN, i \in Inodes :
         /\ InjectedAs(fs, fs', Place(k)[1], Place(k)[2], Content(k), missed, i)
         /\ injected' = Append(injected, i)
         /\ mishaps' = IF missed THEN mishaps \cup {"lookup"} ELSE mishaps
  BY InjectPicked
<1>2. k \in 1..4 /\ stage = "inject" /\ UNCHANGED <<offer, evil, launcher>>
  BY InjectPicked
<1>3. PICK d, n, content : d = Place(k)[1] /\ n = Place(k)[2] /\ content = Content(k)
  OBVIOUS
<1>4. d \in Dirs /\ n \in Names /\ Place(k) = <<d, n>>
  BY <1>2, <1>3, PlacesApart
<1>5. IsFs(fs) /\ FsSound(fs) /\ StockFs' = StockFs
  BY <1>2 DEF PipelineInv, FsInOrder, StockFs
<1>6. Placed(fs, fs', d, n, content, i, missed)
  <2>1. InjectedAs(fs, fs', d, n, content, missed, i)
    BY <1>1, <1>3
  <2>2. \A y : InjectedAs(fs, y, d, n, content, missed, i) => Placed(fs, y, d, n, content, i, missed)
    BY <1>4, <1>5, InjectedPlaces
  <2> QED
    BY <2>1, <2>2
<1>7. Unmoved /\ OldOrNew /\ NewInPlace /\ NewAlone
  BY <1>2 DEF InPlaceInv
<1>8. /\ Len(injected) \in Nat /\ Len(injected') = k /\ injected'[k] = i
      /\ \A l \in 1..Len(injected) : injected'[l] = injected[l]
  <2>1. injected \in Seq(Inodes)
    BY DEF PipelineInv
  <2> QED
    BY <1>1, <2>1
<1>9. \A l \in 1..k : l = k \/ l \in 1..Len(injected)
  BY <1>8
<1>10. \A l \in 1..Len(injected) : l \in 1..4 /\ l # k /\ l \in 1..k
  BY <1>2, <1>8
<1>11. k \in 1..k
  BY <1>8
<1> HIDE DEF k
<1>12. \A l \in 1..Len(injected) : /\ Place(l)[1] \in Dirs /\ Place(l)[2] \in Names
                                   /\ Place(l) = <<Place(l)[1], Place(l)[2]>> /\ Place(l) # <<d, n>>
  BY <1>2, <1>4, <1>10, PlacesApart
<1>13. \A c \in Dirs, m \in Names : <<c, m>> # <<d, n>> =>
          /\ fs'.entry[c][m] = fs.entry[c][m] /\ ~ Lists(fs.entry[c][m], i)
  BY <1>6 DEF Placed
<1>14. Unmoved'
  <2> SUFFICES ASSUME NEW c \in Dirs, NEW m \in Names,
                      \A l \in 1..Len(injected') : Place(l) # <<c, m>>
               PROVE  fs'.entry[c][m] = StockFs.entry[c][m]
    BY <1>5 DEF Unmoved
  <2>1. <<c, m>> # <<d, n>>
    BY <1>4, <1>8, <1>11
  <2>2. \A l \in 1..Len(injected) : Place(l) # <<c, m>>
    BY <1>8, <1>10
  <2> QED
    BY <1>7, <1>13, <2>1, <2>2 DEF Unmoved
<1>15. \A l \in 1..Len(injected) :
          /\ fs'.entry[Place(l)[1]][Place(l)[2]] = fs.entry[Place(l)[1]][Place(l)[2]]
          /\ injected[l] # i /\ fs'.data[injected[l]] = fs.data[injected[l]]
  <2> SUFFICES ASSUME NEW l \in 1..Len(injected)
               PROVE  /\ fs'.entry[Place(l)[1]][Place(l)[2]] = fs.entry[Place(l)[1]][Place(l)[2]]
                      /\ injected[l] # i /\ fs'.data[injected[l]] = fs.data[injected[l]]
    OBVIOUS
  <2>1. PICK c, m : c = Place(l)[1] /\ m = Place(l)[2]
    OBVIOUS
  <2>2. c \in Dirs /\ m \in Names /\ <<c, m>> # <<d, n>>
    BY <1>12, <2>1
  <2>3. fs'.entry[c][m] = fs.entry[c][m] /\ ~ Lists(fs.entry[c][m], i)
    BY <1>13, <2>2
  <2>4. Lists(fs.entry[c][m], injected[l])
    BY <1>7, <2>1 DEF NewInPlace
  <2>5. injected[l] # i
    BY <2>3, <2>4
  <2>6. Lists(fs'.entry[c][m], injected[l])
    BY <2>3, <2>4
  <2>7. fs'.data[injected[l]] = fs.data[injected[l]]
    BY <1>6, <2>2, <2>5, <2>6 DEF Placed
  <2> QED
    BY <2>1, <2>3, <2>5, <2>7
<1>16. OldOrNew'
  <2> SUFFICES ASSUME NEW c \in Dirs, NEW m \in Names, NEW j, Lists(fs'.entry[c][m], j)
               PROVE  \/ \E l \in 1..Len(injected') : Place(l) = <<c, m>> /\ j = injected'[l]
                      \/ /\ \A l \in 1..Len(injected') : injected'[l] # j
                         /\ Lists(StockFs.entry[c][m], j)
                         /\ fs'.data[j] = StockFs.data[j] \/ (fs'.data[j] = Garbage /\ "tail" \in mishaps')
    BY <1>5 DEF OldOrNew, IsNew, IsOld
  <2>1. CASE j = i /\ <<c, m>> = <<d, n>>
    BY <1>4, <1>8, <1>11, <2>1
  <2>2. CASE ~ (j = i /\ <<c, m>> = <<d, n>>)
    <3>1. Lists(fs.entry[c][m], j) /\ j # i
      <4>1. CASE <<c, m>> = <<d, n>>
        BY <1>6, <2>2, <4>1 DEF Placed
      <4>2. CASE <<c, m>> # <<d, n>>
        BY <1>13, <4>2
      <4> QED
        BY <4>1, <4>2
    <3>2. fs'.data[j] = fs.data[j]
      BY <1>6, <3>1 DEF Placed
    <3>3. IsNew(c, m, j) \/ IsOld(c, m, j)
      BY <1>7, <3>1 DEF OldOrNew
    <3>4. CASE IsNew(c, m, j)
      BY <1>8, <1>10, <3>4 DEF IsNew
    <3>5. CASE IsOld(c, m, j)
      <4>1. \A l \in 1..Len(injected') : injected'[l] # j
        BY <1>8, <1>9, <3>1, <3>5 DEF IsOld
      <4>2. fs'.data[j] = StockFs.data[j] \/ (fs'.data[j] = Garbage /\ "tail" \in mishaps')
        BY <1>1, <3>2, <3>5 DEF IsOld
      <4> QED
        BY <3>5, <4>1, <4>2 DEF IsOld
    <3> QED
      BY <3>3, <3>4, <3>5
  <2> QED
    BY <2>1, <2>2
<1>17. \A l \in 1..Len(injected') : Content(l)' = Content(l)
  BY <1>2 DEF Content
<1>18. NewInPlace'
  <2>1. ASSUME NEW l \in 1..Len(injected')
        PROVE  /\ Lists(fs'.entry[Place(l)[1]][Place(l)[2]], injected'[l])
               /\ fs'.data[injected'[l]] = Content(l)
                  \/ (fs'.data[injected'[l]] = Garbage /\ "flush" \in mishaps')
    <3>1. CASE l = k
      <4>1. Lists(fs'.entry[d][n], i) /\ fs'.data[i] = content
        BY <1>6 DEF Placed
      <4> QED
        BY <1>3, <1>8, <3>1, <4>1
    <3>2. CASE l \in 1..Len(injected)
      <4>1. /\ Lists(fs.entry[Place(l)[1]][Place(l)[2]], injected[l])
            /\ fs.data[injected[l]] = Content(l)
               \/ (fs.data[injected[l]] = Garbage /\ "flush" \in mishaps)
        BY <1>7, <3>2 DEF NewInPlace
      <4>2. "flush" \in mishaps => "flush" \in mishaps'
        BY <1>1
      <4> QED
        BY <1>8, <1>15, <3>2, <4>1, <4>2
    <3> QED
      BY <1>8, <1>9, <2>1, <3>1, <3>2
  <2> QED
    BY <1>17, <2>1 DEF NewInPlace
<1>19. NewAlone'
  <2> SUFFICES ASSUME NamesOnce(StockFs), "lookup" \notin mishaps', NEW l \in 1..Len(injected')
               PROVE  fs'.entry[Place(l)[1]][Place(l)[2]] = <<injected'[l]>>
    BY <1>5 DEF NewAlone
  <2>1. "lookup" \notin mishaps /\ ~ missed
    BY <1>1
  <2>2. CASE l = k
    <3>1. fs.entry[d][n] = StockFs.entry[d][n]
      <4>1. \A m \in 1..Len(injected) : Place(m) # <<d, n>>
        BY <1>12
      <4> QED
        BY <1>4, <1>7, <4>1 DEF Unmoved
    <3>2. Len(fs.entry[d][n]) <= 1
      BY <1>4, <3>1 DEF NamesOnce
    <3>3. fs'.entry[d][n] = <<i>>
      BY <1>6, <2>1, <3>2 DEF Placed
    <3> QED
      BY <1>3, <1>8, <2>2, <3>3
  <2>3. CASE l \in 1..Len(injected)
    <3>1. fs.entry[Place(l)[1]][Place(l)[2]] = <<injected[l]>>
      BY <1>7, <2>1, <2>3 DEF NewAlone
    <3> QED
      BY <1>8, <1>15, <2>3, <3>1
  <2> QED
    BY <1>8, <1>9, <2>2, <2>3
<1> QED
  BY <1>14, <1>16, <1>18, <1>19 DEF InPlaceInv

LEMMA InPlaceClosed ==
  ASSUME PipelineInv, FilesInv, InPlaceInv, CloseImage, FsSound(StockFs)
  PROVE  InPlaceInv'
<1>1. /\ stage = "close" /\ StockFs' = StockFs
      /\ UNCHANGED <<evil, launcher, injected>>
  BY DEF CloseImage, StockFs
<1>2. IsFs(fs) /\ IsFs(fs')
  BY <1>1, ClosedAs DEF FilesInv
<1>3. /\ fs'.entry = fs.entry
      /\ \A i \in Inodes : \/ fs'.data[i] = fs.data[i]
                           \/ /\ fs'.data[i] = Garbage /\ i \in Range(injected)
                              /\ "flush" \in mishaps'
      /\ mishaps \subseteq mishaps' /\ mishaps' \subseteq mishaps \cup {"flush"}
  BY <1>2, ClosedAs
<1>4. Unmoved /\ OldOrNew /\ NewInPlace /\ NewAlone
  BY <1>1 DEF InPlaceInv
<1>5. injected \in Seq(Inodes)
  BY DEF PipelineInv
<1>6. Unmoved'
  BY <1>1, <1>3, <1>4 DEF Unmoved
<1>7. OldOrNew'
  <2> SUFFICES ASSUME NEW c \in Dirs, NEW m \in Names, NEW j, Lists(fs.entry[c][m], j)
               PROVE  IsNew(c, m, j)' \/ IsOld(c, m, j)'
    BY <1>3 DEF OldOrNew
  <2>1. IsNew(c, m, j) \/ IsOld(c, m, j)
    BY <1>4 DEF OldOrNew
  <2>3. CASE IsNew(c, m, j)
    BY <1>1, <2>3 DEF IsNew
  <2>2. CASE IsOld(c, m, j)
    <3>1. j \in Inodes
      <4>1. fs.entry[c][m] \in Seq(Inodes)
        BY <1>2 DEF IsFs
      <4> QED
        BY <4>1 DEF Lists
    <3>2. j \notin Range(injected)
      BY <1>5, <2>2 DEF Range, IsOld
    <3>3. fs'.data[j] = fs.data[j]
      BY <1>3, <3>1, <3>2
    <3> QED
      BY <1>1, <1>3, <2>2, <3>3 DEF IsOld
  <2> QED
    BY <2>1, <2>2, <2>3
<1>8. NewInPlace'
  <2> SUFFICES ASSUME NEW l \in 1..Len(injected)
               PROVE  /\ Lists(fs.entry[Place(l)[1]][Place(l)[2]], injected[l])
                      /\ fs'.data[injected[l]] = Content(l)
                         \/ (fs'.data[injected[l]] = Garbage /\ "flush" \in mishaps')
    <3>1. \A l \in 1..Len(injected) : Content(l)' = Content(l)
      BY <1>1 DEF Content
    <3> QED
      BY <1>1, <1>3, <3>1 DEF NewInPlace
  <2>1. injected[l] \in Inodes
    BY <1>5, ElementOfSeq
  <2>2. /\ Lists(fs.entry[Place(l)[1]][Place(l)[2]], injected[l])
        /\ fs.data[injected[l]] = Content(l)
           \/ (fs.data[injected[l]] = Garbage /\ "flush" \in mishaps)
    BY <1>4 DEF NewInPlace
  <2> QED
    BY <1>3, <2>1, <2>2
<1>9. NewAlone'
  BY <1>1, <1>3, <1>4 DEF NewAlone
<1> QED
  BY <1>6, <1>7, <1>8, <1>9 DEF InPlaceInv

LEMMA InPlaceStep ==
  ASSUME PipelineInv, FilesInv, InPlaceInv, [Next]_vars PROVE InPlaceInv'
<1>1. CASE ReadStock
  BY <1>1 DEF ReadStock, InPlaceInv
<1>2. CASE UnpackRootfs
  <2>1. /\ StockFs' = StockFs /\ IsFs(fs') /\ fs'.entry = StockFs.entry /\ injected' = <<>>
        /\ \A i \in Inodes : fs'.data[i] = StockFs.data[i]
                             \/ (fs'.data[i] = Garbage /\ "tail" \in mishaps')
    BY <1>2, UnpackedAs
  <2> QED
    BY <2>1, InPlaceAtFirst
<1>3. CASE Inject
  <2>1. StockFs' = StockFs
    BY <1>3 DEF Inject, StockFs
  <2> QED
    BY <1>3, <2>1, InPlaceInjected DEF InPlaceInv
<1>4. CASE CloseImage
  <2>1. StockFs' = StockFs
    BY <1>4 DEF CloseImage, StockFs
  <2> QED
    BY <1>4, <2>1, InPlaceClosed DEF InPlaceInv
<1>5. CASE DumpFiles \/ HijackV1 \/ HijackV2 \/ Relabel \/ BuildScript
           \/ CheckFilesystem \/ Repack \/ VerifyRoundTrip
  <2>1. /\ stage \notin {"read", "unpack", "refused"} /\ UNCHANGED <<offer, fs, injected, mishaps>>
        /\ injected = <<>> \/ UNCHANGED <<evil, launcher>>
    BY <1>5 DEF DumpFiles, HijackV1, HijackV2, Relabel, BuildScript, CheckFilesystem,
                Repack, VerifyRoundTrip, PipelineInv, Before
  <2>2. \A k \in 1..Len(injected) : Content(k)' = Content(k)
    <3>1. CASE injected = <<>>
      <4>1. 1..Len(injected) = {}
        BY <3>1
      <4> QED
        BY <4>1
    <3>2. CASE UNCHANGED <<evil, launcher>>
      BY <3>2 DEF Content
    <3> QED
      BY <2>1, <3>1, <3>2
  <2>3. StockFs' = StockFs
    BY <2>1 DEF StockFs
  <2>4. FsSound(StockFs) => InPlaceInv'
    BY <2>1, <2>2, InPlaceKept
  <2> QED
    BY <2>3, <2>4 DEF InPlaceInv
<1>6. CASE Refuse
  BY <1>6 DEF Refuse, InPlaceInv
<1>7. CASE UNCHANGED vars
  <2>1. UNCHANGED <<stage, offer, fs, injected, mishaps, evil, launcher>>
    BY <1>7 DEF vars
  <2>2. StockFs' = StockFs /\ \A k \in 1..Len(injected) : Content(k)' = Content(k)
    BY <2>1 DEF StockFs, Content
  <2>3. CASE stage \notin {"read", "unpack", "refused"} /\ FsSound(StockFs)
    BY <2>1, <2>2, <2>3, InPlaceKept
  <2>4. CASE ~ (stage \notin {"read", "unpack", "refused"} /\ FsSound(StockFs))
    BY <2>1, <2>2, <2>4 DEF InPlaceInv
  <2> QED
    BY <2>3, <2>4
<1> QED
  BY <1>1, <1>2, <1>3, <1>4, <1>5, <1>6, <1>7 DEF Next

-----------------------------------------------------------------------------
(* A call as a whole                                                        *)

\* What is patched came out of the stock image.
SourceInv ==
    /\ stage \notin {"read", "unpack", "refused"} => OldImage(offer).kind = "xz"
    /\ stage \in Hooking \cup Filling => Exists(StockFs, "Evil", "Evil")

LEMMA SourceStep ==
  ASSUME PipelineInv, SourceInv, [Next]_vars PROVE SourceInv'
<1>1. CASE ReadStock \/ Refuse
  BY <1>1 DEF ReadStock, Refuse, SourceInv, Hooking, Filling
<1>2. CASE UnpackRootfs
  BY <1>2 DEF UnpackRootfs, Decompresses, OldImage, SourceInv, Hooking, Filling
<1>3. CASE DumpFiles
  <2>1. /\ stage = "dump" /\ stage' = "hijack_v1" /\ offer' = offer /\ Exists(fs, "Evil", "Evil")
    BY <1>3 DEF DumpFiles
  <2>2. Exists(StockFs, "Evil", "Evil") /\ StockFs' = StockFs
    BY <2>1 DEF PipelineInv, DumpsStock, Exists, StockFs
  <2>3. OldImage(offer).kind = "xz"
    BY <2>1 DEF SourceInv
  <2> QED
    BY <2>1, <2>2, <2>3 DEF SourceInv
<1>4. CASE HijackV1 \/ HijackV2 \/ Relabel \/ BuildScript \/ Inject
           \/ CheckFilesystem \/ CloseImage \/ Repack \/ VerifyRoundTrip
  <2>1. stage \in Hooking \cup Filling /\ offer' = offer
    BY <1>4 DEF HijackV1, HijackV2, Relabel, BuildScript, Inject, CheckFilesystem,
                CloseImage, Repack, VerifyRoundTrip, Hooking, Filling
  <2>2. stage \notin {"read", "unpack", "refused"}
    BY <2>1 DEF Hooking, Filling
  <2>3. OldImage(offer).kind = "xz" /\ Exists(StockFs, "Evil", "Evil") /\ StockFs' = StockFs
    BY <2>1, <2>2 DEF SourceInv, StockFs
  <2> QED
    BY <2>1, <2>3 DEF SourceInv
<1>5. CASE UNCHANGED vars
  <2>1. UNCHANGED <<stage, offer>> /\ StockFs' = StockFs
    BY <1>5 DEF vars, StockFs
  <2> QED
    BY <2>1 DEF SourceInv
<1> QED
  BY <1>1, <1>2, <1>3, <1>4, <1>5 DEF Next

CallInv == /\ PipelineInv /\ SourceInv /\ RebuiltInv /\ HookedInv
           /\ LauncherInv /\ FilesInv /\ InPlaceInv

LEMMA CallInit == Init => CallInv
<1>1. Init => SourceInv /\ FilesInv /\ InPlaceInv
  BY DEF Init, SourceInv, FilesInv, InPlaceInv, Hooking, Filling
<1> QED
  BY <1>1, PipelineInit, RebuiltInit, HookedInit DEF CallInv

LEMMA CallStep == CallInv /\ [Next]_vars => CallInv'
<1> SUFFICES ASSUME CallInv, [Next]_vars PROVE CallInv'
  OBVIOUS
<1>1. /\ PipelineInv /\ SourceInv /\ RebuiltInv /\ HookedInv
      /\ LauncherInv /\ FilesInv /\ InPlaceInv
  BY DEF CallInv
<1>2. PipelineInv'
  BY <1>1, PipelineStep, PipelineStutters
<1>3. SourceInv' /\ RebuiltInv' /\ HookedInv' /\ LauncherInv' /\ FilesInv' /\ InPlaceInv'
  BY <1>1, SourceStep, RebuiltStep, HookedStep, LauncherStep, FilesStep, InPlaceStep
<1> QED
  BY <1>2, <1>3 DEF CallInv

LEMMA CallInvariant == Spec => []CallInv
BY CallInit, CallStep, PTL DEF Spec

LEMMA BystandersKept ==
  ASSUME CallInv PROVE BystandersUntouched
<1> SUFFICES ASSUME stage = "shipped", "tail" \notin mishaps, FsSound(StockFs),
                    NEW b \in (Dirs \X Names) \ Injected
             PROVE  /\ Exists(ShippedFs, b[1], b[2]) <=> Exists(StockFs, b[1], b[2])
                    /\ Exists(StockFs, b[1], b[2])
                       => Dump(ShippedFs, b[1], b[2]) = Dump(StockFs, b[1], b[2])
  BY DEF BystandersUntouched
<1>1. ShippedFs = fs
  BY ShippedIsFs DEF CallInv
<1>2. Unmoved /\ OldOrNew /\ IsFs(fs) /\ IsFs(StockFs)
  BY DEF CallInv, InPlaceInv, FilesInv, PipelineInv, StockReadable
<1>3. PICK d \in Dirs, n \in Names : b = <<d, n>>
  OBVIOUS
<1>4. b[1] = d /\ b[2] = n /\ <<d, n>> \notin Injected
  BY <1>3
<1>5. \A k \in 1..Len(injected) : Place(k) # <<d, n>>
  <2>1. \A k \in 1..Len(injected) : k \in 1..4
    <3>1. Len(injected) \in 0..4
      BY DEF CallInv, PipelineInv, TypeOK
    <3>2. PICK l \in 0..4 : l = Len(injected)
      BY <3>1
    <3>3. \A k \in 1..l : k \in 1..4
      BY <3>2
    <3> QED
      BY <3>2, <3>3, Zenon
  <2> QED
    BY <1>4, <2>1, PlacesApart
<1>6. fs.entry[d][n] = StockFs.entry[d][n]
  BY <1>2, <1>5 DEF Unmoved
<1>7. ASSUME Exists(StockFs, d, n) PROVE Dump(fs, d, n) = Dump(StockFs, d, n)
  <2>1. PICK s : s = StockFs.entry[d][n]
    OBVIOUS
  <2>2. s \in Seq(Inodes) /\ s # <<>>
    BY <1>2, <1>7, <2>1 DEF IsFs, Exists
  <2>3. Lists(s, Head(s))
    BY <2>2 DEF Lists
  <2>4. IsNew(d, n, Head(s)) \/ IsOld(d, n, Head(s))
    BY <1>2, <1>6, <2>1, <2>3 DEF OldOrNew
  <2>5. fs.data[Head(s)] = StockFs.data[Head(s)]
    BY <1>5, <2>4 DEF IsNew, IsOld
  <2> QED
    BY <1>6, <2>1, <2>5 DEF Dump, Lookup
<1> QED
  BY <1>1, <1>4, <1>6, <1>7 DEF Exists

\* The hooks of a shipped binary.
LEMMA PedalsHooked ==
  ASSUME CallInv, stage \in Filling
  PROVE  /\ evil.kind = "elf"
         /\ \A p \in RequestedPedals : p[2] \in DOMAIN slots /\ LeadsTo(evil.elf, p[1], slots[p[2]])
<1>1. /\ evil.kind = "elf"
      /\ IF request.v2
         THEN /\ DOMAIN slots = {"GONK", "GONK_V2"}
              /\ \E m : /\ OnceHooked(StockEvil.elf, m, Pedal1, slots["GONK"])
                        /\ OnceHooked(m, evil.elf, Pedal2, slots["GONK_V2"])
         ELSE /\ DOMAIN slots = {"GONK"}
              /\ OnceHooked(StockEvil.elf, evil.elf, Pedal1, slots["GONK"])
  <2>1. stage \in (Hooking \cup Filling) \ {"hijack_v1"} /\ stage # "hijack_v2"
    BY DEF Hooking, Filling
  <2>2. HookedInv
    BY DEF CallInv
  <2> QED
    BY <2>1, <2>2 DEF HookedInv
<1>2. RequestedPedals = {<<Pedal1, "GONK">>} \cup (IF request.v2 THEN {<<Pedal2, "GONK_V2">>} ELSE {})
  BY DEF RequestedPedals, Pedal1, Pedal2
<1>3. CASE request.v2
  <2>1. PICK m : /\ OnceHooked(StockEvil.elf, m, Pedal1, slots["GONK"])
                 /\ OnceHooked(m, evil.elf, Pedal2, slots["GONK_V2"])
    BY <1>1, <1>3
  <2>2. SlotFileOffset(Pedal1.vtable) # SlotFileOffset(Pedal2.vtable)
    <3>1. target \in DOMAIN Targets
      BY DEF CallInv, PipelineInv, TypeOK, Filling
    <3> QED
      BY <3>1, PipelineAssumption DEF Pedal1, Pedal2
  <2>3. LeadsTo(evil.elf, Pedal1, slots["GONK"])
    BY <2>1, <2>2, HookStays
  <2>4. LeadsTo(evil.elf, Pedal2, slots["GONK_V2"])
    BY <2>1, HookedLeads
  <2> QED
    BY <1>1, <1>2, <1>3, <2>3, <2>4
<1>4. CASE ~ request.v2
  <2>1. LeadsTo(evil.elf, Pedal1, slots["GONK"])
    BY <1>1, <1>4, HookedLeads
  <2> QED
    BY <1>1, <1>2, <1>4, <2>1
<1> QED
  BY <1>3, <1>4

\* What a healthy file system reads as where nothing went wrong.
LEMMA ShippedFiles ==
  ASSUME CallInv, stage = "shipped", StockHealthy, mishaps \cap {"lookup", "flush"} = {},
         NEW k \in 1..4
  PROVE  Dump(fs, Place(k)[1], Place(k)[2]) = Content(k)
<1>1. NewInPlace /\ NewAlone /\ Len(injected) = 4
  BY DEF CallInv, InPlaceInv, FilesInv, StockHealthy
<1>2. k \in 1..Len(injected)
  BY <1>1
<1>3. fs.entry[Place(k)[1]][Place(k)[2]] = <<injected[k]>>
  BY <1>1, <1>2 DEF NewAlone, StockHealthy
<1>4. fs.data[injected[k]] = Content(k)
  BY <1>1, <1>2 DEF NewInPlace
<1>5. Head(<<injected[k]>>) = injected[k]
  OBVIOUS
<1> QED
  BY <1>3, <1>4, <1>5 DEF Dump, Lookup

LEMMA HijackShipped ==
  ASSUME CallInv PROVE ShippedHijack
<1> SUFFICES ASSUME stage = "shipped" PROVE ShippedHijack
  BY DEF ShippedHijack
<1>1. ShippedFs = fs /\ Dump(fs, "Evil", "Evil") = evil
  BY ShippedIsFs DEF CallInv
<1>2. /\ evil.kind = "elf"
      /\ \A p \in RequestedPedals : p[2] \in DOMAIN slots /\ LeadsTo(evil.elf, p[1], slots[p[2]])
  BY PedalsHooked DEF Filling
<1>3. ASSUME StockHealthy, mishaps \cap {"lookup", "flush"} = {}
      PROVE  /\ Dump(fs, "Evil", "libnam_hook.so") = HookLibrary
             /\ Dump(fs, "Evil", "libnam_preload.so") = PreloadLibrary
             /\ Starts(Dump(fs, "Scripts", "evil").lines) = {[kind |-> "launch", env |-> slots]}
  <2>1. /\ Dump(fs, Place(2)[1], Place(2)[2]) = Content(2)
        /\ Dump(fs, Place(3)[1], Place(3)[2]) = Content(3)
        /\ Dump(fs, Place(4)[1], Place(4)[2]) = Content(4)
    BY <1>3, ShippedFiles
  <2>2. /\ Place(2) = <<"Evil", "libnam_hook.so">> /\ Place(3) = <<"Evil", "libnam_preload.so">>
        /\ Place(4) = <<"Scripts", "evil">>
    BY DEF Place
  <2>3. Content(2) = HookLibrary /\ Content(3) = PreloadLibrary /\ Content(4) = launcher
    BY DEF Content
  <2>4. Starts(launcher.lines) = {[kind |-> "launch", env |-> slots]}
    BY DEF CallInv, LauncherInv, Filling
  <2> QED
    BY <2>1, <2>2, <2>3, <2>4
<1>4. PICK start : start = [kind |-> "launch", env |-> slots]
  OBVIOUS
<1>5. start.env = slots
  BY <1>4
<1> QED
  BY <1>1, <1>2, <1>3, <1>4, <1>5 DEF ShippedHijack

-----------------------------------------------------------------------------
(* The theorems                                                             *)

\* The variables of a call keep their types through every refusal and mishap
\* (patch_pipeline.c:92-350).
THEOREM PipelineTypeCorrect == Spec => []TypeOK
<1>1. PipelineInv => TypeOK
  BY DEF PipelineInv
<1> QED
  BY <1>1, PipelineInvariant, PTL

\* A stock binary as a linker leaves it stays one through both hijacks and the
\* relabelling: every trampoline mapped, none overlapping (elf_patch.c:53-252).
THEOREM HijacksKeepBinarySound == Spec => []HijacksSound
<1>1. PipelineInv => HijacksSound
  BY DEF PipelineInv
<1> QED
  BY <1>1, PipelineInvariant, PTL

\* Removing and injecting the four files keeps links, owners and bitmaps of
\* the root file system consistent and leaks no block (ext4_image.c:112-322).
THEOREM FilesystemStaysSound == Spec => []FilesystemKept
<1>1. PipelineInv => FilesystemKept
  BY DEF PipelineInv
<1> QED
  BY <1>1, PipelineInvariant, PTL

\* Splash screens, their hashes and the metadata come out of the rebuild as
\* they went in, and nothing else is cut (fit_image.c:75-415).
THEOREM StockPartsKept == Spec => []StockPartsSurvive
<1>1. CallInv => StockPartsSurvive
  BY ShippedKeepsParts DEF CallInv
<1> QED
  BY <1>1, CallInvariant, PTL

\* Whatever hard links, leftovers, failed look-ups and lost blocks there are,
\* no file but the four reads differently afterwards (ext4_image.c:112-322).
THEOREM BystandersStay == Spec => []BystandersUntouched
<1>1. CallInv => BystandersUntouched
  BY BystandersKept
<1> QED
  BY <1>1, CallInvariant, PTL

\* What is shipped is hijacked as requested, slots, libraries and launcher
\* agreeing with each other (patch_pipeline.c:199-350).
THEOREM HijackIsShipped == Spec => []ShippedHijack
<1>1. CallInv => ShippedHijack
  BY HijackShipped
<1> QED
  BY <1>1, CallInvariant, PTL
===============================================================================
