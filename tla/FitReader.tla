------------------------------- MODULE FitReader -------------------------------
(***************************************************************************)
(* The bytes behind FitImage: how nam_fit_parse and the getters of         *)
(* core/fit_image.c walk through an image of any content.  What a read     *)
(* returns is arbitrary; what counts is where it reads, and that offsets   *)
(* are words that wrap around.                                             *)
(***************************************************************************)
EXTENDS Integers

CONSTANTS Modulus,      \* 2^32: words are below it
          HeaderLen,    \* bytes of the header
          Lens,         \* sizes an image can have
          StringsAt,    \* where the string table can be said to be
          DepthMax,     \* nodes that can be open
          BufferLen,    \* bytes of a text buffer
          CellsMax      \* cells of a cell buffer

ASSUME ReaderAssumption ==
    /\ Modulus \in Nat /\ HeaderLen \in Nat
    /\ StringsAt \subseteq 0..(Modulus - 1)
    /\ DepthMax \in Nat /\ BufferLen \in Nat \ {0} /\ CellsMax \in Nat
    /\ Modulus % 4 = 0

\* An image stays below the word size, with room for the alignment.
ASSUME LenAssumption == \A l \in Lens : l \in Nat /\ l + 3 < Modulus

VARIABLES at,         \* "header", "loop", "rejected", "accepted"
          len,        \* bytes of the image
          strings,    \* off_dt_strings
          structEnd,  \* struct_end
          off,        \* the next token
          depth,      \* open nodes
          prop,       \* the property accepted last, [off, len]
          read,       \* end of the last byte read
          room        \* what the last getter has left of its buffer

vars == <<at, len, strings, structEnd, off, depth, prop, read, room>>

Word == 0..(Modulus - 1)

\* The sum of two words.
Sum(x, y) == IF x + y < Modulus THEN x + y ELSE x + y - Modulus

\* align4
Align4(x) == Sum(x, 3) - (Sum(x, 3) % 4)

-----------------------------------------------------------------------------
Init ==
    /\ at = "header"
    /\ len \in Lens
    /\ strings \in StringsAt
    /\ structEnd = 0 /\ off = 0 /\ depth = 0
    /\ prop = [off |-> 0, len |-> 0]
    /\ read = 0 /\ room = 0

Reject ==
    /\ at' = "rejected"
    /\ UNCHANGED <<len, strings, structEnd, off, depth, prop, room>>

\* Magic and the two blocks; the ranges are compared in 64 bits.
ReadHeader ==
    /\ at = "header"
    /\ \/ len < HeaderLen /\ Reject /\ UNCHANGED read
       \/ len >= HeaderLen /\ read' = HeaderLen /\ Reject
       \/ /\ len >= HeaderLen /\ read' = HeaderLen
          /\ \E structOff, structSize \in 0..len, stringsSize \in Word :
                /\ structOff + structSize <= len
                /\ strings + stringsSize <= len
                /\ off' = structOff
                /\ structEnd' = structOff + structSize
          /\ at' = "loop"
          /\ UNCHANGED <<len, strings, depth, prop, room>>

\* Variant: the token is read without a look at the size of the image.
AtTokenUnchecked == at = "loop" /\ off < structEnd

\* The parser is at a token it can read.
AtToken == at = "loop" /\ off < structEnd /\ off + 4 <= len

NoToken ==
    /\ at = "loop" /\ off < structEnd /\ off + 4 > len
    /\ Reject /\ UNCHANGED read

\* A name that starts at `start` and has its NUL at `end`; end = len if there
\* is none in the image.
NameEnds(start, end) == (start >= len /\ end = start) \/ (start <= end /\ end <= len)

\* The stack of node names has no room left.
Full(d) == d >= DepthMax

\* A node that is refused has been read to the end of its name at most.
BeginNode ==
    /\ AtToken
    /\ \E end \in Word :
          /\ NameEnds(off + 4, end)
          /\ IF end >= len \/ Full(depth)
             THEN Reject /\ read' = len
             ELSE /\ off' = Align4(Sum(end, 1))
                  /\ depth' = depth + 1
                  /\ read' = end + 1
                  /\ UNCHANGED <<at, len, strings, structEnd, prop, room>>

EndNode ==
    /\ AtToken
    /\ read' = off + 4
    /\ IF depth = 0 THEN Reject
       ELSE /\ off' = off + 4
            /\ depth' = depth - 1
            /\ UNCHANGED <<at, len, strings, structEnd, prop, room>>

\* Variant: the end of the value is computed as a word.
ValueFitsInWords(plen) == Sum(off + 12, plen) <= len

\* The end of the value is compared in 64 bits.
ValueFits(plen) == off + 12 + plen <= len

Property ==
    /\ AtToken
    /\ \/ off + 12 > len /\ Reject /\ read' = off + 4
       \/ /\ off + 12 <= len
          /\ \E plen, nameoff \in Word :
             IF ~ ValueFits(plen) THEN Reject /\ read' = off + 12
             ELSE \E end \in Word :
                    LET start == Sum(strings, nameoff)
                    IN  /\ NameEnds(start, end)
                        /\ IF start >= len THEN Reject /\ read' = off + 12
                           ELSE IF end >= len THEN Reject /\ read' = len
                           ELSE /\ prop' = [off |-> off + 12, len |-> plen]
                                /\ off' = Align4(Sum(off + 12, plen))
                                /\ read' = end + 1
                                /\ UNCHANGED <<at, len, strings, structEnd, depth, room>>

NopToken ==
    /\ AtToken
    /\ off' = off + 4 /\ read' = off + 4
    /\ UNCHANGED <<at, len, strings, structEnd, depth, prop, room>>

\* The end token, or the end of the block with nodes still open.
Finish ==
    /\ \/ AtToken /\ read' = off + 4
       \/ at = "loop" /\ off >= structEnd /\ UNCHANGED read
    /\ at' = "accepted"
    /\ UNCHANGED <<len, strings, structEnd, off, depth, prop, room>>

\* Any other token; also a list of properties that cannot grow.
BadToken == AtToken /\ Reject /\ read' = off + 4

\* nam_fit_get_str of a property that was accepted.
GetStr ==
    /\ at = "accepted"
    /\ LET copied == IF prop.len >= BufferLen THEN BufferLen - 1 ELSE prop.len
       IN  read' = prop.off + copied /\ room' = BufferLen - (copied + 1)
    /\ at' = "used"
    /\ UNCHANGED <<len, strings, structEnd, off, depth, prop>>

\* nam_fit_get_cells
GetCells ==
    /\ at = "accepted" /\ prop.len % 4 = 0
    /\ LET count == IF prop.len \div 4 > CellsMax THEN CellsMax ELSE prop.len \div 4
       IN  read' = prop.off + 4 * count /\ room' = CellsMax - count
    /\ at' = "used"
    /\ UNCHANGED <<len, strings, structEnd, off, depth, prop>>

Next ==
    \/ ReadHeader \/ NoToken \/ BeginNode \/ EndNode \/ Property \/ NopToken
    \/ Finish \/ BadToken \/ GetStr \/ GetCells

Spec == Init /\ [][Next]_vars

-----------------------------------------------------------------------------
TypeOK ==
    /\ at \in {"header", "loop", "rejected", "accepted", "used"}
    /\ len \in Lens /\ strings \in StringsAt
    /\ structEnd \in 0..len
    /\ off \in Word
    /\ depth \in 0..DepthMax
    /\ prop \in [off : Word, len : Word]
    /\ read \in Nat /\ room \in Int

\* Whatever the image contains, no read goes behind its end, what a getter
\* stores fits its buffer and the open nodes fit the stack of names
\* (fit_image.c:88-145, 217, 235).
ReadsInside == read <= len /\ room >= 0 /\ depth <= DepthMax

\* An accepted property lies inside the image: the getters need not look.
PropsInside == prop.off + prop.len <= len

\* Every round moves on, so that the parser ends for every image: no token
\* leads back, not even where offsets are added as words (fit_image.c:120, 160).
Advances == [][at = "loop" /\ at' = "loop" => off' > off]_vars
===============================================================================
