--------------------------- MODULE FitReaderProofs ---------------------------
(***************************************************************************)
(* Proofs about the reader of FIT images, for a word of any width and an    *)
(* image of any size and content: no read leaves the image, and every round *)
(* of the loop moves on.                                                    *)
(***************************************************************************)
EXTENDS FitReader, TLAPS

-----------------------------------------------------------------------------
LEMMA LenType ==
  ASSUME NEW l \in Lens
  PROVE  l \in Nat /\ l + 3 < Modulus /\ Modulus \in Nat
BY ReaderAssumption, LenAssumption DEF ReaderAssumption, LenAssumption

(* Words that lie inside an image are added and aligned without wrapping.   *)
LEMMA AlignedInside ==
  ASSUME NEW l \in Lens, NEW x \in 0 .. l
  PROVE  Align4(x) \in Word /\ Align4(x) >= x
<1>1. l \in Nat /\ x \in Nat /\ x + 3 < Modulus /\ Modulus \in Nat
  BY LenType
<1>2. Sum(x, 3) = x + 3
  BY <1>1 DEF Sum
<1>3. (x + 3) % 4 \in 0 .. 3
  BY <1>1
<1>4. Align4(x) = (x + 3) - ((x + 3) % 4)
  BY <1>2 DEF Align4
<1> QED
  BY <1>1, <1>3, <1>4 DEF Word

LEMMA SumInside ==
  ASSUME NEW l \in Lens, NEW x \in Nat, NEW y \in Nat, x + y <= l
  PROVE  Sum(x, y) = x + y
BY LenType DEF Sum

Inside == TypeOK /\ ReadsInside /\ PropsInside

(* The inductive invariant is the conjunction of the three properties; the   *)
(* round that moves on needs it too.                                        *)
LEMMA InsideStep ==
  ASSUME Inside, Next
  PROVE  Inside' /\ (at = "loop" /\ at' = "loop" => off' > off)
<1>1. /\ len \in Lens /\ len \in Nat /\ len + 3 < Modulus /\ Modulus \in Nat
      /\ strings \in Word /\ structEnd \in 0 .. len /\ off \in Word
      /\ depth \in 0 .. DepthMax /\ DepthMax \in Nat /\ HeaderLen \in Nat
      /\ prop \in [off : Word, len : Word] /\ prop.off + prop.len <= len
      /\ read \in Nat /\ read <= len /\ room \in Int /\ room >= 0
  BY LenType, ReaderAssumption DEF Inside, TypeOK, ReadsInside, PropsInside, ReaderAssumption, Word
<1>2. ASSUME Reject, read' \in Nat, read' <= len PROVE Inside' /\ at' # "loop"
  BY <1>2 DEF Inside, TypeOK, ReadsInside, PropsInside, Reject
<1>3. CASE ReadHeader
  <2>1. CASE Reject
    BY <1>1, <1>2, <1>3, <2>1 DEF ReadHeader
  <2>2. CASE /\ len >= HeaderLen /\ read' = HeaderLen
             /\ \E structOff, structSize \in 0..len :
                  structOff + structSize <= len /\ off' = structOff /\ structEnd' = structOff + structSize
             /\ at' = "loop"
             /\ UNCHANGED <<len, strings, depth, prop, room>>
    BY <1>1, <1>3, <2>2 DEF ReadHeader, Inside, TypeOK, ReadsInside, PropsInside, Word
  <2> QED
    BY <1>3, <2>1, <2>2 DEF ReadHeader
<1>4. CASE NoToken
  BY <1>1, <1>2, <1>4 DEF NoToken
<1>5. CASE BeginNode
  <2>1. PICK end \in Word :
          /\ NameEnds(off + 4, end)
          /\ \/ Reject /\ read' = len
             \/ /\ end < len /\ ~Full(depth)
                /\ off' = Align4(Sum(end, 1)) /\ depth' = depth + 1 /\ read' = end + 1
                /\ UNCHANGED <<at, len, strings, structEnd, prop, room>>
    BY <1>1, <1>5 DEF BeginNode, Word
  <2>2. CASE Reject /\ read' = len
    BY <1>1, <1>2, <2>2
  <2>3. CASE /\ end < len /\ ~Full(depth)
             /\ off' = Align4(Sum(end, 1)) /\ depth' = depth + 1 /\ read' = end + 1
             /\ UNCHANGED <<at, len, strings, structEnd, prop, room>>
    <3>1. end \in Nat /\ off + 4 <= end
      BY <1>1, <2>1, <2>3 DEF NameEnds, Word
    <3>2. Sum(end, 1) = end + 1 /\ end + 1 \in 0 .. len
      BY <1>1, <2>3, <3>1, SumInside
    <3>3. off' \in Word /\ off' >= end + 1
      BY <1>1, <2>3, <3>2, AlignedInside
    <3>4. depth' \in 0 .. DepthMax
      BY <1>1, <2>3 DEF Full
    <3>5. off' > off
      BY <1>1, <3>1, <3>3 DEF Word
    <3> QED
      BY <1>1, <2>3, <3>1, <3>3, <3>4, <3>5 DEF Inside, TypeOK, ReadsInside, PropsInside
  <2> QED
    BY <2>1, <2>2, <2>3
<1>6. CASE EndNode
  <2>1. off + 4 <= len /\ read' = off + 4
    BY <1>6 DEF EndNode, AtToken
  <2>2. CASE Reject
    BY <1>1, <1>2, <2>1, <2>2 DEF Word
  <2>3. CASE depth # 0 /\ off' = off + 4 /\ depth' = depth - 1
             /\ UNCHANGED <<at, len, strings, structEnd, prop, room>>
    BY <1>1, <2>1, <2>3 DEF Inside, TypeOK, ReadsInside, PropsInside, Word
  <2> QED
    BY <1>6, <2>2, <2>3 DEF EndNode
<1>7. CASE Property
  <2>1. off + 4 <= len
    BY <1>7 DEF Property, AtToken
  <2>2. \/ Reject /\ read' \in {off + 4, len}
        \/ off + 12 <= len /\ Reject /\ read' = off + 12
        \/ \E plen, end \in Word :
             /\ off + 12 + plen <= len /\ end < len
             /\ prop' = [off |-> off + 12, len |-> plen]
             /\ off' = Align4(Sum(off + 12, plen)) /\ read' = end + 1
             /\ UNCHANGED <<at, len, strings, structEnd, depth, room>>
    BY <1>1, <1>7 DEF Property, ValueFits, Word
  <2>3. CASE Reject /\ read' \in {off + 4, len}
    BY <1>1, <1>2, <2>1, <2>3 DEF Word
  <2>4. CASE off + 12 <= len /\ Reject /\ read' = off + 12
    BY <1>1, <1>2, <2>4 DEF Word
  <2>5. CASE \E plen, end \in Word :
               /\ off + 12 + plen <= len /\ end < len
               /\ prop' = [off |-> off + 12, len |-> plen]
               /\ off' = Align4(Sum(off + 12, plen)) /\ read' = end + 1
               /\ UNCHANGED <<at, len, strings, structEnd, depth, room>>
    <3>1. PICK plen, end \in Word :
            /\ off + 12 + plen <= len /\ end < len
            /\ prop' = [off |-> off + 12, len |-> plen]
            /\ off' = Align4(Sum(off + 12, plen)) /\ read' = end + 1
            /\ UNCHANGED <<at, len, strings, structEnd, depth, room>>
      BY <2>5
    <3>2. plen \in Nat /\ end \in Nat /\ off + 12 \in Nat
      BY <1>1 DEF Word
    <3>3. Sum(off + 12, plen) = off + 12 + plen /\ off + 12 + plen \in 0 .. len
      BY <1>1, <3>1, <3>2, SumInside
    <3>4. off' \in Word /\ off' >= off + 12 + plen
      BY <1>1, <3>1, <3>3, AlignedInside
    <3>5. off' > off
      BY <1>1, <3>2, <3>4 DEF Word
    <3>6. prop' \in [off : Word, len : Word] /\ prop'.off + prop'.len <= len
      BY <1>1, <3>1, <3>2 DEF Word
    <3>7. read' \in Nat /\ read' <= len
      BY <1>1, <3>1, <3>2
    <3> QED
      BY <1>1, <3>1, <3>4, <3>5, <3>6, <3>7 DEF Inside, TypeOK, ReadsInside, PropsInside
  <2> QED
    BY <2>2, <2>3, <2>4, <2>5
<1>8. CASE NopToken
  BY <1>1, <1>8 DEF NopToken, AtToken, Inside, TypeOK, ReadsInside, PropsInside, Word
<1>9. CASE Finish
  BY <1>1, <1>9 DEF Finish, AtToken, Inside, TypeOK, ReadsInside, PropsInside, Word
<1>10. CASE BadToken
  BY <1>1, <1>2, <1>10 DEF BadToken, AtToken, Word
<1>11. CASE GetStr \/ GetCells
  <2>1. prop.off \in Nat /\ prop.len \in Nat /\ BufferLen \in Nat \ {0} /\ CellsMax \in Nat
    BY <1>1, ReaderAssumption DEF Word, ReaderAssumption
  <2>2. 4 * (prop.len \div 4) <= prop.len /\ prop.len \div 4 \in Nat
    BY <2>1
  <2>3. read' \in Nat /\ read' <= len /\ room' \in Int /\ room' >= 0
    BY <1>1, <1>11, <2>1, <2>2 DEF GetStr, GetCells
  <2> QED
    BY <1>1, <1>11, <2>3 DEF GetStr, GetCells, Inside, TypeOK, ReadsInside, PropsInside
<1> QED
  BY <1>3, <1>4, <1>5, <1>6, <1>7, <1>8, <1>9, <1>10, <1>11 DEF Next

LEMMA InsideAlways == Spec => []Inside
<1>1. Init => Inside
  BY LenType, ReaderAssumption
  DEF Init, Inside, TypeOK, ReadsInside, PropsInside, Word, ReaderAssumption
<1>2. Inside /\ [Next]_vars => Inside'
  BY InsideStep DEF Inside, TypeOK, ReadsInside, PropsInside, vars
<1> QED
  BY <1>1, <1>2, PTL DEF Spec

(* Every state of the reader is well typed: offsets stay words and the stack *)
(* of nodes keeps its bound.                                                *)
THEOREM ReaderTypeCorrect == Spec => []TypeOK
BY InsideAlways, PTL DEF Inside

(* Whatever the image holds, no read goes behind its end and no getter       *)
(* overruns its buffer.                                                     *)
THEOREM ReadsStayInside == Spec => []ReadsInside
BY InsideAlways, PTL DEF Inside

(* Every accepted property lies inside the image.                           *)
THEOREM PropertiesStayInside == Spec => []PropsInside
BY InsideAlways, PTL DEF Inside

(* No token leads back: 32-bit offsets never wrap in the loop.              *)
THEOREM ReaderAdvances == Spec => Advances
<1>1. Inside /\ [Next]_vars => [at = "loop" /\ at' = "loop" => off' > off]_vars
  BY InsideStep DEF vars
<1> QED
  BY <1>1, InsideAlways, PTL DEF Spec, Advances
=============================================================================
