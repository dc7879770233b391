------------------------------- MODULE FitImage -------------------------------
(***************************************************************************)
(* The update image (core/fit_image.c) as the sequence of tokens of its    *)
(* structure block: nodes begin and end, properties carry a name and a     *)
(* value.  The bytes behind the tokens are the subject of FitReader.       *)
(*                                                                         *)
(* A text is a sequence of characters (its trailing NULs dropped), a list  *)
(* of devices a sequence of bytes, CellLen to a device, and the content of *)
(* an image any value.                                                     *)
(***************************************************************************)
EXTENDS Naturals, Sequences

CONSTANTS DescriptionMax,   \* characters kept of the description
          CompatibleMax,    \* characters kept of the compatible string
          DevicesMax,       \* FIT_MAX_DEVICES
          CellLen,          \* bytes of a cell
          DepthMax          \* nodes the parser can have open

\* The depth is 32 in the code; an update image needs four.
ASSUME FitAssumption ==
    /\ {DescriptionMax, CompatibleMax, DevicesMax, CellLen, DepthMax} \subseteq Nat
    /\ DepthMax >= 4

Token(tok, name, value) == [tok |-> tok, name |-> name, value |-> value]
Begin(name)       == Token("begin", name, <<>>)
EndNode           == Token("end", "", <<>>)
Prop(name, value) == Token("prop", name, value)
Nop               == Token("nop", "", <<>>)
EndOfTree         == Token("fin", "", <<>>)

-----------------------------------------------------------------------------
(* Reading: nam_fit_parse and the nam_fit_get functions                     *)

\* build_path: the names of the open nodes.  The root has the empty name, so
\* that a property in front of it has the path of the root, too.
PathOf(stack) == IF stack = <<>> THEN <<"">> ELSE stack

\* One round of the parser's loop.  "open" reads on, "closed" has met the end
\* token, "bad" has given up.
Round(st, t) ==
    CASE st.at # "open" -> st
      [] t.tok = "begin" -> IF Len(st.stack) >= DepthMax
                            THEN [st EXCEPT !.at = "bad"]
                            ELSE [st EXCEPT !.stack = Append(@, t.name)]
      [] t.tok = "end"   -> IF st.stack = <<>>
                            THEN [st EXCEPT !.at = "bad"]
                            ELSE [st EXCEPT !.stack = SubSeq(@, 1, Len(@) - 1)]
      [] t.tok = "prop"  -> [st EXCEPT !.props = Append(@,
                                [path |-> PathOf(st.stack), name |-> t.name, value |-> t.value])]
      [] t.tok = "nop"   -> st
      [] t.tok = "fin"   -> [st EXCEPT !.at = "closed"]
      [] OTHER           -> [st EXCEPT !.at = "bad"]

\* The parser after the first k tokens, for every k.
Rounds(tokens) ==
    LET after[k \in 0..Len(tokens)] ==
            IF k = 0 THEN [at |-> "open", stack |-> <<>>, props |-> <<>>]
            ELSE Round(after[k - 1], tokens[k])
    IN  after

\* The end of the block ends the loop, whether nodes are open or not.
Parse(tokens) == Rounds(tokens)[Len(tokens)]

Parses(tokens) == Parse(tokens).at # "bad"

Props(tokens) == Parse(tokens).props

Hits(props, path, name) == {k \in DOMAIN props : props[k].path = path /\ props[k].name = name}

HasBytes(props, path, name) == Hits(props, path, name) # {}

\* nam_fit_get_bytes: the first property of that path and name.
GetBytes(props, path, name) ==
    props[CHOOSE k \in Hits(props, path, name) : \A j \in Hits(props, path, name) : k <= j].value

CutTo(seq, max) == IF Len(seq) > max THEN SubSeq(seq, 1, max) ELSE seq

RootPath == <<"">>
ImagePath(image) == <<"", "images", image>>

HasRootMetadata(props) ==
    /\ \A name \in {"description", "compatible", "inmusic,devices"} : HasBytes(props, RootPath, name)
    /\ Len(GetBytes(props, RootPath, "inmusic,devices")) % CellLen = 0

\* nam_fit_read_root_metadata with its fixed buffers.
RootMetadata(props) ==
    [description |-> CutTo(GetBytes(props, RootPath, "description"), DescriptionMax),
     compatible  |-> CutTo(GetBytes(props, RootPath, "compatible"), CompatibleMax),
     devices     |-> CutTo(GetBytes(props, RootPath, "inmusic,devices"), CellLen * DevicesMax)]

ImageNames == {"splash", "recoverysplash", "rootfs"}

HasImages(props) == \A image \in ImageNames : HasBytes(props, ImagePath(image), "data")

ImageData(props, image) == GetBytes(props, ImagePath(image), "data")

-----------------------------------------------------------------------------
(* Writing: nam_fit_build                                                   *)

Hash(data) == [sha1 |-> data]

\* emit_image_node
ImageNode(image, description, data) ==
    <<Begin(image),
      Prop("description", description), Prop("partition", image),
      Prop("data", data), Prop("compression", "xz"),
      Begin("hash"), Prop("value", Hash(data)), Prop("algo", "sha1"), EndNode,
      EndNode>>

\* Variant: the recovery splash is the ordinary one.
BuiltFromOneSplash(meta, splash, recovery, rootfs) ==
    <<Begin(""),
      Prop("timestamp", "now"), Prop("description", meta.description),
      Prop("compatible", meta.compatible), Prop("inmusic,devices", meta.devices),
      Begin("images")>>
    \o ImageNode("splash", "Splash screen", splash)
    \o ImageNode("recoverysplash", "Update mode splash screen", splash)
    \o ImageNode("rootfs", "Root filesystem", rootfs)
    \o <<EndNode, EndNode, EndOfTree>>

Build(meta, splash, recovery, rootfs) ==
    <<Begin(""),
      Prop("timestamp", "now"), Prop("description", meta.description),
      Prop("compatible", meta.compatible), Prop("inmusic,devices", meta.devices),
      Begin("images")>>
    \o ImageNode("splash", "Splash screen", splash)
    \o ImageNode("recoverysplash", "Update mode splash screen", recovery)
    \o ImageNode("rootfs", "Root filesystem", rootfs)
    \o <<EndNode, EndNode, EndOfTree>>
===============================================================================
