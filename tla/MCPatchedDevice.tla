---------------------------- MODULE MCPatchedDevice ----------------------------
(***************************************************************************)
(* One update image of each kind the pipeline has to tell apart: a good    *)
(* one, and one for every single thing that can be different.              *)
(***************************************************************************)
EXTENDS PatchedDevice

MCTargets ==
    [pedalboard |-> [compatible |-> <<"m", "g">>,
                     v1 |-> [vtable |-> 103, orig |-> 111],
                     v2 |-> [vtable |-> 109, orig |-> 111],
                     renames |-> {[at |-> 14, old |-> "Drive", new |-> "Model"]}],
     mx5        |-> [compatible |-> <<"h", "g">>,
                     v1 |-> [vtable |-> 104, orig |-> 112],
                     v2 |-> [vtable |-> 110, orig |-> 112],
                     renames |-> {}]]

-----------------------------------------------------------------------------
(* Binaries: code 0-19, a gap of eight bytes, data 28-35                    *)

Header(load, flags, off, vaddr, filesz, memsz) ==
    [load |-> load, flags |-> flags, off |-> off, vaddr |-> vaddr,
     filesz |-> filesz, memsz |-> memsz]

GoodElf ==
    [header |-> TRUE, len |-> 36,
     ph |-> (1 :> Header(TRUE, "RX", 0, 100, 20, 20)) @@ (2 :> Header(TRUE, "RW", 28, 130, 8, 10))
            @@ (3 :> Header(FALSE, "R", 2, 102, 4, 4)),
     word |-> (4 :> 111) @@ (10 :> 111), nonzero |-> {}, tramp |-> {},
     label |-> (14 :> "Drive")]

Elves ==
    {GoodElf,
     [GoodElf EXCEPT !.header = FALSE],
     [GoodElf EXCEPT !.word[4] = 119],                       \* other firmware
     [GoodElf EXCEPT !.word[10] = 119],                      \* other V2 pedal
     [GoodElf EXCEPT !.word = (5 :> 112) @@ (11 :> 112)],    \* an MX5
     [GoodElf EXCEPT !.len = 5],                             \* cut off
     [GoodElf EXCEPT !.label[14] = "Gain "],
     [GoodElf EXCEPT !.nonzero = {25}],                      \* used gap
     [GoodElf EXCEPT !.ph[1].filesz = 23, !.ph[1].memsz = 23],  \* room for one
     [GoodElf EXCEPT !.ph[1].filesz = 22, !.ph[1].memsz = 22],  \* just room for two
     [GoodElf EXCEPT !.ph[3] = Header(TRUE, "RX", 40, 180, 4, 4)],
     [GoodElf EXCEPT !.ph[3] = Header(TRUE, "R", 24, 125, 2, 3)],
     [GoodElf EXCEPT !.ph[2].flags = "R"],
     [GoodElf EXCEPT !.ph[2].load = FALSE]}

Other == Line("other")

GoodScript == <<Other, Line("loop"), Line("exec"), Other>>

Scripts ==
    {GoodScript,
     <<Other, Line("exec")>>,                                \* no loop
     <<Line("loop"), Line("exec"), Line("exec")>>,
     <<Line("loop"), Other>>,
     <<Line("start"), Other, Line("end"), Line("loop"), Line("exec")>>,  \* older block
     <<Line("end"), Line("start"), Line("loop"), Line("exec")>>,
     <<Line("start"), Line("note"), Line("end"), Line("loop"),
       Relaunched(GoodScript, 3, "GONK" :> 140)[3]>>}

-----------------------------------------------------------------------------
(* File systems                                                             *)

Evil == Blob("evil")

GoodFs ==
    [entry |-> [d \in Dirs |-> [n \in Names |->
                   CASE d = "Evil" /\ n = "Evil"    -> <<1>>
                     [] d = "Scripts" /\ n = "evil" -> <<2>>
                     [] d = "Scripts" /\ n = "kept" -> <<3>>
                     [] OTHER                       -> <<>>]],
     room |-> [d \in Dirs |-> 1],
     dirBlocks |-> [d \in Dirs |-> IF d = "Evil" THEN {1} ELSE {2}],
     links |-> [i \in Inodes |-> IF i \in 1..3 THEN 1 ELSE 0],
     blocks |-> [i \in Inodes |-> CASE i = 1 -> {3, 4} [] i = 2 -> {5} [] i = 3 -> {6}
                                    [] OTHER -> {}],
     data |-> [i \in Inodes |-> CASE i = 1 -> ElfFile(GoodElf) [] i = 2 -> ScriptFile(GoodScript)
                                  [] i = 3 -> Blob("kept") [] OTHER -> Garbage],
     imap |-> 1..3, bmap |-> 1..6]

WithLeftover ==
    [GoodFs EXCEPT !.entry["Evil"]["libnam_hook.so"] = <<4>>, !.links[4] = 1,
                   !.blocks[4] = {7}, !.data[4] = Blob("old"), !.imap = 1..4, !.bmap = 1..7]

HardLinked == [GoodFs EXCEPT !.entry["Scripts"]["kept"] = <<1>>, !.links[1] = 2,
                             !.links[3] = 0, !.imap = 1..2, !.bmap = @ \ {6}]

\* Another launcher of the same name, already patched.
ListedTwice == [GoodFs EXCEPT !.entry["Scripts"]["evil"] = <<2, 4>>, !.links[4] = 1,
                              !.blocks[4] = {7}, !.imap = 1..4, !.bmap = 1..7,
                              !.data[4] = ScriptFile(Relaunched(GoodScript, 3, "GONK" :> 150))]

Filesystems ==
    {WithLeftover, HardLinked,
     [HardLinked EXCEPT !.links[1] = 3],                     \* and one elsewhere
     [GoodFs EXCEPT !.bmap = 1..11],                         \* leaked, nearly full
     [GoodFs EXCEPT !.bmap = Blocks],                        \* leaked, full
     [GoodFs EXCEPT !.imap = 1..3, !.bmap = 1..5],           \* unmarked block
     [GoodFs EXCEPT !.bmap = {1, 2, 3, 4, 6}],               \* of the launcher
     ListedTwice,
     [GoodFs EXCEPT !.room = [d \in Dirs |-> 2]],
     [GoodFs EXCEPT !.entry["Evil"]["Evil"] = <<>>, !.entry["Scripts"]["Evil"] = <<1>>],
     [GoodFs EXCEPT !.data[1] = Blob("other")]}
    \cup {[GoodFs EXCEPT !.data[1] = ElfFile(e)] : e \in Elves}
    \cup {[GoodFs EXCEPT !.data[2] = ScriptFile(s)] : s \in Scripts}

-----------------------------------------------------------------------------
(* Update images                                                            *)

Text(a, b) == <<a, b>>

Meta(description, compatible, devices) ==
    [description |-> description, compatible |-> compatible, devices |-> devices]

GoodMeta == Meta(Text("v", "1"), Text("m", "g"), <<0, 1>>)

Packed(f) == [kind |-> "xz", of |-> f, packed |-> 4, full |-> 14]

\* As mkimage writes it: more properties, another order of the nodes.
Part(name, data) ==
    <<Begin(name), Prop("description", name), Prop("data", data),
      Begin("hash"), Prop("value", Hash(data)), Prop("algo", "sha1"), EndNode, EndNode>>

ImageOf(meta, rootfs) ==
    <<Begin(""), Prop("description", meta.description), Nop,
      Prop("inmusic,devices", meta.devices), Prop("inmusic,version", "2.7"),
      Prop("compatible", meta.compatible), Begin("images")>>
    \o Part("rootfs", rootfs) \o Part("splash", Blob("splash"))
    \o Part("recoverysplash", Blob("recovery"))
    \o <<EndNode, EndNode, EndOfTree>>

GoodImage == ImageOf(GoodMeta, Packed(GoodFs))

Without(tokens, name) == SelectSeq(tokens, LAMBDA t : t.name # name)

OddImages ==
    {<<>>,
     SubSeq(GoodImage, 1, Len(GoodImage) - 3),               \* left open
     GoodImage \o <<Token("junk", "", <<>>)>>,
     <<Nop>> \o Tail(GoodImage),                             \* one end too many
     <<Begin("a"), Begin("b"), Begin("c"), Begin("d"), Begin("e")>> \o GoodImage,
     <<Token("junk", "", <<>>)>> \o GoodImage,
     Without(GoodImage, "description"), Without(GoodImage, "recoverysplash"),
     ImageOf(GoodMeta, [Packed(GoodFs) EXCEPT !.kind = "gz"]),
     ImageOf(GoodMeta, [Packed(GoodFs) EXCEPT !.packed = 1]),
     ImageOf(GoodMeta, [Packed(GoodFs) EXCEPT !.packed = 1, !.full = 20]),
     ImageOf(Meta(Text("v", "1") \o Text(".", "0"), Text("m", "g"), <<0, 1>>), Packed(GoodFs)),
     ImageOf(Meta(Text("v", "1"), Text("m", "g"), <<0, 1, 0, 2, 0, 3>>), Packed(GoodFs)),
     ImageOf(Meta(Text("v", "1"), Text("m", "g"), <<0, 1, 2>>), Packed(GoodFs)),
     ImageOf(Meta(Text("v", "1"), Text("x", "x"), <<0, 1>>), Packed(GoodFs)),
     ImageOf(Meta(Text("v", "1"), Text("h", "g"), <<0, 1>>),
             Packed([GoodFs EXCEPT !.data[1] =
                        ElfFile([GoodElf EXCEPT !.word = (5 :> 112) @@ (11 :> 112)])]))}

MCStocks == OddImages \cup {ImageOf(GoodMeta, Packed(f)) : f \in Filesystems}
===============================================================================
