--------------------------- MODULE FitImageProofs --------------------------
(***************************************************************************)
(* What nam_fit_build writes, nam_fit_parse reads back: for any metadata   *)
(* and any three images.                                                   *)
(***************************************************************************)
EXTENDS FitImage, SequenceTheorems, WellFoundedInduction, TLAPS

-----------------------------------------------------------------------------
(***************************************************************************)
(* The parser's loop.  `Rounds` is defined by recursion; that there is a   *)
(* function with that definition is shown by the least number of rounds    *)
(* for which there would be none.                                          *)
(***************************************************************************)

Reading(stack, props) == [at |-> "open", stack |-> stack, props |-> props]

RunsOf(g, tokens, n) ==
  g = [k \in 0 .. n |-> IF k = 0 THEN Reading(<<>>, <<>>)
                        ELSE Round(g[k - 1], tokens[k])]

LEMMA LeastNumber ==
  ASSUME NEW T \in SUBSET Nat, T # {}
  PROVE  \E x \in T : \A y \in T : x <= y
<1> DEFINE R == OpToRel(<, Nat)
<1>1. \E x \in T : \A y \in T : ~(<<y, x>> \in R)
  <2>1. IsWellFoundedOn(R, Nat)
    BY Zenon, NatLessThanWellFounded
  <2> HIDE DEF R
  <2> QED
    BY <2>1, WFMin
<1>2. PICK x \in T : \A y \in T : ~(<<y, x>> \in R)
  BY <1>1
<1>3. ASSUME NEW y \in T PROVE x <= y
  <2>1. ~(y < x)
    <3>1. <<y, x>> \in R <=> <<y, x>> \in {ss \in Nat \X Nat : ss[1] < ss[2]}
      BY Zenon DEF OpToRel
    <3> QED
      BY <1>2, <3>1
  <2> QED
    BY <2>1
<1> QED
  BY <1>2, <1>3

\* A run of n rounds can be continued by one.
LEMMA OneMoreRound ==
  ASSUME NEW tokens, NEW n \in Nat, NEW g, RunsOf(g, tokens, n)
  PROVE  \E h : RunsOf(h, tokens, n + 1)
<1> DEFINE h == [k \in 0 .. n + 1 |-> IF k = n + 1 THEN Round(g[n], tokens[k]) ELSE g[k]]
<1>1. ASSUME NEW k \in 0 .. n + 1
      PROVE  h[k] = IF k = 0 THEN Reading(<<>>, <<>>) ELSE Round(h[k - 1], tokens[k])
  <2>1. CASE k = 0
    BY <2>1 DEF RunsOf
  <2>2. CASE k \in 1 .. n
    <3>1. k - 1 \in 0 .. n /\ k \in 0 .. n /\ k # 0 /\ k # n + 1 /\ k - 1 # n + 1
      BY <2>2
    <3>2. h[k] = g[k] /\ h[k - 1] = g[k - 1]
      BY <3>1
    <3>3. g[k] = Round(g[k - 1], tokens[k])
      BY <3>1 DEF RunsOf
    <3> QED
      BY <3>1, <3>2, <3>3
  <2>3. CASE k = n + 1
    <3>1. h[k] = Round(g[n], tokens[k]) /\ h[k - 1] = g[n] /\ k # 0
      BY <2>3
    <3> QED
      BY <3>1
  <2> QED
    BY <2>1, <2>2, <2>3
<1>2. h = [k \in 0 .. n + 1 |-> IF k = 0 THEN Reading(<<>>, <<>>) ELSE Round(h[k - 1], tokens[k])]
  <2> HIDE DEF h
  <2>1. h = [k \in 0 .. n + 1 |-> h[k]]
    BY DEF h
  <2> QED
    BY <1>1, <2>1
<1> QED
  BY <1>2 DEF RunsOf

LEMMA AnyNumberOfRounds ==
  ASSUME NEW tokens, NEW n \in Nat
  PROVE  \E g : RunsOf(g, tokens, n)
<1> DEFINE T == {m \in Nat : ~ \E g : RunsOf(g, tokens, m)}
<1> SUFFICES ASSUME T # {} PROVE FALSE
  OBVIOUS
<1>1. PICK m \in T : \A y \in T : m <= y
  <2>1. T \in SUBSET Nat
    OBVIOUS
  <2> HIDE DEF T
  <2> QED
    BY <2>1, LeastNumber
<1>2. m # 0
  <2> DEFINE g == [k \in 0 .. 0 |-> Reading(<<>>, <<>>)]
  <2>1. RunsOf(g, tokens, 0)
    BY DEF RunsOf
  <2> QED
    BY <2>1
<1>3. m - 1 \in Nat /\ ~(m <= m - 1) /\ m = (m - 1) + 1
  BY <1>2
<1>4. \E g : RunsOf(g, tokens, m - 1)
  BY <1>1, <1>3
<1>5. \E h : RunsOf(h, tokens, (m - 1) + 1)
  BY <1>3, <1>4, OneMoreRound
<1> QED
  BY <1>3, <1>5

\* The equations of the loop.
LEMMA RoundsByOne ==
  ASSUME NEW tokens, Len(tokens) \in Nat
  PROVE  /\ Rounds(tokens)[0] = Reading(<<>>, <<>>)
         /\ \A k \in 1 .. Len(tokens) :
               Rounds(tokens)[k] = Round(Rounds(tokens)[k - 1], tokens[k])
<1>1. PICK g : RunsOf(g, tokens, Len(tokens))
  BY AnyNumberOfRounds
<1>2. RunsOf(Rounds(tokens), tokens, Len(tokens))
  BY <1>1, Zenon DEF RunsOf, Rounds, Reading
<1> QED
  BY <1>2 DEF RunsOf

-----------------------------------------------------------------------------
(***************************************************************************)
(* One token.                                                              *)
(***************************************************************************)

LEMMA BeginIsRead ==
  ASSUME NEW stack, NEW props, NEW name, Len(stack) \in Nat, Len(stack) < DepthMax
  PROVE  Round(Reading(stack, props), Begin(name)) = Reading(Append(stack, name), props)
<1>1. ~(Len(stack) >= DepthMax)
  BY FitAssumption
<1> QED
  BY <1>1 DEF Round, Reading, Begin, Token

LEMMA EndIsRead ==
  ASSUME NEW N, NEW stack \in Seq(N), NEW props, NEW name \in N
  PROVE  Round(Reading(Append(stack, name), props), EndNode) = Reading(stack, props)
<1> DEFINE pushed == Append(stack, name)
<1>1. pushed \in Seq(N) /\ Len(pushed) = Len(stack) + 1 /\ pushed # <<>>
  BY AppendProperties
<1>2. SubSeq(pushed, 1, Len(pushed) - 1) = stack
  <2>1. SubSeq(pushed, 1, Len(stack)) \in Seq(N)
        /\ Len(SubSeq(pushed, 1, Len(stack))) = Len(stack)
    BY <1>1
  <2>2. \A i \in 1 .. Len(stack) : SubSeq(pushed, 1, Len(stack))[i] = stack[i]
    OBVIOUS
  <2>3. SubSeq(pushed, 1, Len(stack)) = stack
    BY <2>1, <2>2, SeqEqual
  <2> QED
    BY <1>1, <2>3
<1> HIDE DEF pushed
<1>3. Round(Reading(pushed, props), EndNode) = Reading(SubSeq(pushed, 1, Len(pushed) - 1), props)
  BY <1>1 DEF Round, Reading, EndNode, Token
<1> QED
  BY <1>2, <1>3 DEF pushed

Property(path, name, value) == [path |-> path, name |-> name, value |-> value]

LEMMA PropIsRead ==
  ASSUME NEW stack, stack # <<>>, NEW name, NEW value,
         NEW S, NEW A \in Seq(S), NEW n \in Nat, NEW m \in Nat, m = n + 1, m <= Len(A),
         A[m] = Property(stack, name, value)
  PROVE  Round(Reading(stack, SubSeq(A, 1, n)), Prop(name, value))
           = Reading(stack, SubSeq(A, 1, m))
<1>1. Append(SubSeq(A, 1, n), A[n + 1]) = SubSeq(A, 1, n + 1)
  OBVIOUS
<1>2. Round(Reading(stack, SubSeq(A, 1, n)), Prop(name, value))
        = Reading(stack, Append(SubSeq(A, 1, n), A[m]))
  BY DEF Round, Reading, Prop, Token, PathOf, Property
<1> QED
  BY <1>1, <1>2

-----------------------------------------------------------------------------
(***************************************************************************)
(* One image node.                                                         *)
(***************************************************************************)

\* The properties of an image node.
NodeProps(image, description, data) ==
  <<Property(ImagePath(image), "description", description),
    Property(ImagePath(image), "partition", image),
    Property(ImagePath(image), "data", data),
    Property(ImagePath(image), "compression", "xz"),
    Property(ImagePath(image) \o <<"hash">>, "value", Hash(data)),
    Property(ImagePath(image) \o <<"hash">>, "algo", "sha1")>>

HasAt(seq, k, part) == \A j \in 1 .. Len(part) : seq[k + j] = part[j]

ImagesStack == <<"", "images">>

LEMMA ThreeApart ==
  ASSUME NEW N, NEW p, NEW q, p \in Seq(N), q \in Seq(N), Len(p) = 3, Len(q) = 3,
         p[1] = q[1], p[2] = q[2], p[3] = q[3]
  PROVE  p = q
<1>1. \A i \in 1 .. 3 : i = 1 \/ i = 2 \/ i = 3
  OBVIOUS
<1>2. \A i \in 1 .. Len(p) : p[i] = q[i]
  BY <1>1, Zenon
<1> QED
  BY <1>2, Zenon, SeqEqual

PathNames(image) == {"", "images", image, "hash"}

LEMMA PathsPushed ==
  ASSUME NEW image
  PROVE  /\ image \in PathNames(image) /\ "hash" \in PathNames(image)
         /\ ImagesStack \in Seq(PathNames(image)) /\ Len(ImagesStack) = 2
         /\ Append(ImagesStack, image) = ImagePath(image)
         /\ ImagePath(image) \in Seq(PathNames(image)) /\ Len(ImagePath(image)) = 3
         /\ Append(ImagePath(image), "hash") = ImagePath(image) \o <<"hash">>
         /\ ImagePath(image) \o <<"hash">> \in Seq(PathNames(image))
         /\ Len(ImagePath(image) \o <<"hash">>) = 4
<1>7. image \in PathNames(image) /\ "hash" \in PathNames(image)
  BY DEF PathNames
<1>1. ImagesStack \in Seq(PathNames(image)) /\ Len(ImagesStack) = 2
  BY DEF ImagesStack, PathNames
<1>2. ImagePath(image) \in Seq(PathNames(image)) /\ Len(ImagePath(image)) = 3
  BY DEF ImagePath, PathNames
<1>3. Append(ImagesStack, image) = ImagePath(image)
  <2>1. /\ Append(ImagesStack, image) \in Seq(PathNames(image))
        /\ Len(Append(ImagesStack, image)) = Len(ImagesStack) + 1
        /\ \A i \in 1 .. Len(ImagesStack) : Append(ImagesStack, image)[i] = ImagesStack[i]
        /\ Append(ImagesStack, image)[Len(ImagesStack) + 1] = image
    <3>1. PICK q : q = ImagesStack
      OBVIOUS
    <3>2. /\ Append(q, image) \in Seq(PathNames(image))
          /\ Len(Append(q, image)) = Len(q) + 1
          /\ \A i \in 1 .. Len(q) : Append(q, image)[i] = q[i]
          /\ Append(q, image)[Len(q) + 1] = image
      <4>1. q \in Seq(PathNames(image))
        BY <1>1, <3>1
      <4> QED
        BY <1>7, <4>1, AppendProperties
    <3> QED
      BY <3>1, <3>2, Zenon
  <2>2. PICK p : p = Append(ImagesStack, image)
    OBVIOUS
  <2>3. Len(p) = 3 /\ p[1] = ImagesStack[1] /\ p[2] = ImagesStack[2] /\ p[3] = image
    <3>1. Len(p) = Len(ImagesStack) + 1 /\ (\A i \in 1 .. Len(ImagesStack) : p[i] = ImagesStack[i])
          /\ p[Len(ImagesStack) + 1] = image
      BY <2>1, <2>2, Zenon
    <3> QED
      BY <1>1, <3>1
  <2>4. /\ ImagesStack[1] = "" /\ ImagesStack[2] = "images"
        /\ ImagePath(image)[1] = "" /\ ImagePath(image)[2] = "images" /\ ImagePath(image)[3] = image
    BY DEF ImagesStack, ImagePath
  <2>5. p = ImagePath(image)
    <3>1. p \in Seq(PathNames(image)) /\ p[1] = ImagePath(image)[1]
          /\ p[2] = ImagePath(image)[2] /\ p[3] = ImagePath(image)[3]
      BY <2>1, <2>2, <2>3, <2>4, Zenon
    <3> QED
      BY <1>2, <2>3, <3>1, Zenon, ThreeApart
  <2> QED
    BY <2>2, <2>5, Zenon
<1>4. Append(ImagePath(image), "hash") = ImagePath(image) \o <<"hash">>
  BY <1>2, <1>7, Zenon, AppendIsConcat
<1>5. /\ Append(ImagePath(image), "hash") \in Seq(PathNames(image))
      /\ Len(Append(ImagePath(image), "hash")) = Len(ImagePath(image)) + 1
  BY <1>2, <1>7, Zenon, AppendProperties
<1>6. /\ ImagePath(image) \o <<"hash">> \in Seq(PathNames(image))
      /\ Len(ImagePath(image) \o <<"hash">>) = 4
  <2>1. Len(ImagePath(image)) + 1 = 4
    BY <1>2
  <2> QED
    BY <1>4, <1>5, <2>1, Zenon
<1> QED
  BY <1>1, <1>2, <1>3, <1>4, <1>6, <1>7

LEMMA NodeParts ==
  ASSUME NEW image, NEW description, NEW data
  PROVE  LET I == ImageNode(image, description, data)
             P == NodeProps(image, description, data)
         IN  /\ Len(I) = 10 /\ Len(P) = 6
             /\ I[1] = Begin(image) /\ I[2] = Prop("description", description)
             /\ I[3] = Prop("partition", image) /\ I[4] = Prop("data", data)
             /\ I[5] = Prop("compression", "xz") /\ I[6] = Begin("hash")
             /\ I[7] = Prop("value", Hash(data)) /\ I[8] = Prop("algo", "sha1")
             /\ I[9] = EndNode /\ I[10] = EndNode
             /\ P[1] = Property(ImagePath(image), "description", description)
             /\ P[2] = Property(ImagePath(image), "partition", image)
             /\ P[3] = Property(ImagePath(image), "data", data)
             /\ P[4] = Property(ImagePath(image), "compression", "xz")
             /\ P[5] = Property(ImagePath(image) \o <<"hash">>, "value", Hash(data))
             /\ P[6] = Property(ImagePath(image) \o <<"hash">>, "algo", "sha1")
BY DEF ImageNode, NodeProps

LEMMA NodeIsRead ==
  ASSUME NEW tokens, Len(tokens) \in Nat, NEW k \in Nat, k + 10 <= Len(tokens),
         NEW image, NEW description, NEW data,
         HasAt(tokens, k, ImageNode(image, description, data)),
         NEW S, NEW A \in Seq(S), NEW n \in Nat, n + 6 <= Len(A),
         HasAt(A, n, NodeProps(image, description, data)),
         Rounds(tokens)[k] = Reading(ImagesStack, SubSeq(A, 1, n))
  PROVE  Rounds(tokens)[k + 10] = Reading(ImagesStack, SubSeq(A, 1, n + 6))
<1> DEFINE open == ImagePath(image)
           hash == ImagePath(image) \o <<"hash">>
           R(j) == Rounds(tokens)[k + j]
<1>1. \A j \in 1 .. 10 : R(j) = Round(R(j - 1), tokens[k + j])
  <2> TAKE j \in 1 .. 10
  <2>1. k + j \in 1 .. Len(tokens) /\ (k + j) - 1 = k + (j - 1)
    OBVIOUS
  <2> QED
    BY <2>1, RoundsByOne
<1>2. /\ tokens[k + 1] = Begin(image) /\ tokens[k + 2] = Prop("description", description)
      /\ tokens[k + 3] = Prop("partition", image) /\ tokens[k + 4] = Prop("data", data)
      /\ tokens[k + 5] = Prop("compression", "xz") /\ tokens[k + 6] = Begin("hash")
      /\ tokens[k + 7] = Prop("value", Hash(data)) /\ tokens[k + 8] = Prop("algo", "sha1")
      /\ tokens[k + 9] = EndNode /\ tokens[k + 10] = EndNode
  <2> DEFINE I == ImageNode(image, description, data)
  <2>1. Len(I) = 10 /\ \A j \in 1 .. Len(I) : tokens[k + j] = I[j]
    BY NodeParts DEF HasAt
  <2>2. /\ I[1] = Begin(image) /\ I[2] = Prop("description", description)
        /\ I[3] = Prop("partition", image) /\ I[4] = Prop("data", data)
        /\ I[5] = Prop("compression", "xz") /\ I[6] = Begin("hash")
        /\ I[7] = Prop("value", Hash(data)) /\ I[8] = Prop("algo", "sha1")
        /\ I[9] = EndNode /\ I[10] = EndNode
    BY NodeParts
  <2> HIDE DEF I
  <2>3. /\ tokens[k + 1] = I[1] /\ tokens[k + 2] = I[2] /\ tokens[k + 3] = I[3]
        /\ tokens[k + 4] = I[4] /\ tokens[k + 5] = I[5] /\ tokens[k + 6] = I[6]
        /\ tokens[k + 7] = I[7] /\ tokens[k + 8] = I[8] /\ tokens[k + 9] = I[9]
        /\ tokens[k + 10] = I[10]
    BY <2>1
  <2> QED
    BY <2>2, <2>3, Zenon
<1>3. /\ A[n + 1] = Property(open, "description", description)
      /\ A[n + 2] = Property(open, "partition", image)
      /\ A[n + 3] = Property(open, "data", data)
      /\ A[n + 4] = Property(open, "compression", "xz")
      /\ A[n + 5] = Property(hash, "value", Hash(data))
      /\ A[n + 6] = Property(hash, "algo", "sha1")
  <2> DEFINE P == NodeProps(image, description, data)
  <2>1. Len(P) = 6 /\ \A j \in 1 .. Len(P) : A[n + j] = P[j]
    BY NodeParts DEF HasAt
  <2>2. /\ P[1] = Property(open, "description", description)
        /\ P[2] = Property(open, "partition", image)
        /\ P[3] = Property(open, "data", data)
        /\ P[4] = Property(open, "compression", "xz")
        /\ P[5] = Property(hash, "value", Hash(data))
        /\ P[6] = Property(hash, "algo", "sha1")
    BY NodeParts
  <2> HIDE DEF P
  <2>3. /\ A[n + 1] = P[1] /\ A[n + 2] = P[2] /\ A[n + 3] = P[3]
        /\ A[n + 4] = P[4] /\ A[n + 5] = P[5] /\ A[n + 6] = P[6]
    BY <2>1
  <2> QED
    BY <2>2, <2>3, Zenon
<1>4. /\ R(1) = Round(R(0), tokens[k + 1]) /\ R(2) = Round(R(1), tokens[k + 2])
      /\ R(3) = Round(R(2), tokens[k + 3]) /\ R(4) = Round(R(3), tokens[k + 4])
      /\ R(5) = Round(R(4), tokens[k + 5]) /\ R(6) = Round(R(5), tokens[k + 6])
      /\ R(7) = Round(R(6), tokens[k + 7]) /\ R(8) = Round(R(7), tokens[k + 8])
      /\ R(9) = Round(R(8), tokens[k + 9]) /\ R(10) = Round(R(9), tokens[k + 10])
  BY <1>1
<1>5. open # <<>> /\ hash # <<>>
  BY PathsPushed
<1>6. /\ \A j \in 0 .. 6 : n + j \in Nat /\ n + j <= Len(A)
      /\ n + 2 = (n + 1) + 1 /\ n + 3 = (n + 2) + 1 /\ n + 4 = (n + 3) + 1
      /\ n + 5 = (n + 4) + 1 /\ n + 6 = (n + 5) + 1
      /\ Len(ImagesStack) \in Nat /\ Len(ImagesStack) < DepthMax
      /\ Len(open) \in Nat /\ Len(open) < DepthMax
  BY PathsPushed, FitAssumption
<1>7. /\ n + 1 \in Nat /\ n + 2 \in Nat /\ n + 3 \in Nat /\ n + 4 \in Nat /\ n + 5 \in Nat
      /\ n + 6 \in Nat
      /\ n + 1 <= Len(A) /\ n + 2 <= Len(A) /\ n + 3 <= Len(A) /\ n + 4 <= Len(A)
      /\ n + 5 <= Len(A) /\ n + 6 <= Len(A)
  BY <1>6
<1> HIDE DEF R, open, hash
<1>8. R(0) = Reading(ImagesStack, SubSeq(A, 1, n))
  BY DEF R
<1>9. R(1) = Reading(open, SubSeq(A, 1, n))
  <2>1. Append(ImagesStack, image) = open
    BY PathsPushed DEF open
  <2>2. Round(Reading(ImagesStack, SubSeq(A, 1, n)), Begin(image))
          = Reading(Append(ImagesStack, image), SubSeq(A, 1, n))
    BY <1>6, Zenon, BeginIsRead
  <2> QED
    BY <1>2, <1>4, <1>8, <2>1, <2>2, Zenon
<1>10. R(2) = Reading(open, SubSeq(A, 1, n + 1))
  <2>1. Round(Reading(open, SubSeq(A, 1, n)), Prop("description", description))
          = Reading(open, SubSeq(A, 1, n + 1))
    <3>1. open # <<>> /\ n \in Nat /\ n + 1 \in Nat /\ n + 1 = (n) + 1 /\ n + 1 <= Len(A)
      BY <1>5, <1>6, <1>7
    <3>2. A[n + 1] = Property(open, "description", description)
      BY <1>3, Zenon
    <3> QED
      BY <3>1, <3>2, PropIsRead
  <2> QED
    BY <1>2, <1>4, <1>9, <2>1, Zenon
<1>11. R(3) = Reading(open, SubSeq(A, 1, n + 2))
  <2>1. Round(Reading(open, SubSeq(A, 1, n + 1)), Prop("partition", image))
          = Reading(open, SubSeq(A, 1, n + 2))
    <3>1. open # <<>> /\ n + 1 \in Nat /\ n + 2 \in Nat /\ n + 2 = (n + 1) + 1 /\ n + 2 <= Len(A)
      BY <1>5, <1>6, <1>7
    <3>2. A[n + 2] = Property(open, "partition", image)
      BY <1>3, Zenon
    <3> QED
      BY <3>1, <3>2, PropIsRead
  <2> QED
    BY <1>2, <1>4, <1>10, <2>1, Zenon
<1>12. R(4) = Reading(open, SubSeq(A, 1, n + 3))
  <2>1. Round(Reading(open, SubSeq(A, 1, n + 2)), Prop("data", data))
          = Reading(open, SubSeq(A, 1, n + 3))
    <3>1. open # <<>> /\ n + 2 \in Nat /\ n + 3 \in Nat /\ n + 3 = (n + 2) + 1 /\ n + 3 <= Len(A)
      BY <1>5, <1>6, <1>7
    <3>2. A[n + 3] = Property(open, "data", data)
      BY <1>3, Zenon
    <3> QED
      BY <3>1, <3>2, PropIsRead
  <2> QED
    BY <1>2, <1>4, <1>11, <2>1, Zenon
<1>13. R(5) = Reading(open, SubSeq(A, 1, n + 4))
  <2>1. Round(Reading(open, SubSeq(A, 1, n + 3)), Prop("compression", "xz"))
          = Reading(open, SubSeq(A, 1, n + 4))
    <3>1. open # <<>> /\ n + 3 \in Nat /\ n + 4 \in Nat /\ n + 4 = (n + 3) + 1 /\ n + 4 <= Len(A)
      BY <1>5, <1>6, <1>7
    <3>2. A[n + 4] = Property(open, "compression", "xz")
      BY <1>3, Zenon
    <3> QED
      BY <3>1, <3>2, PropIsRead
  <2> QED
    BY <1>2, <1>4, <1>12, <2>1, Zenon
<1>14. R(6) = Reading(hash, SubSeq(A, 1, n + 4))
  <2>1. Append(open, "hash") = hash
    BY PathsPushed DEF open, hash
  <2>2. Round(Reading(open, SubSeq(A, 1, n + 4)), Begin("hash"))
          = Reading(Append(open, "hash"), SubSeq(A, 1, n + 4))
    BY <1>6, Zenon, BeginIsRead
  <2> QED
    BY <1>2, <1>4, <1>13, <2>1, <2>2, Zenon
<1>15. R(7) = Reading(hash, SubSeq(A, 1, n + 5))
  <2>1. Round(Reading(hash, SubSeq(A, 1, n + 4)), Prop("value", Hash(data)))
          = Reading(hash, SubSeq(A, 1, n + 5))
    <3>1. hash # <<>> /\ n + 4 \in Nat /\ n + 5 \in Nat /\ n + 5 = (n + 4) + 1 /\ n + 5 <= Len(A)
      BY <1>5, <1>6, <1>7
    <3>2. A[n + 5] = Property(hash, "value", Hash(data))
      BY <1>3, Zenon
    <3> QED
      BY <3>1, <3>2, PropIsRead
  <2> QED
    BY <1>2, <1>4, <1>14, <2>1, Zenon
<1>16. R(8) = Reading(hash, SubSeq(A, 1, n + 6))
  <2>1. Round(Reading(hash, SubSeq(A, 1, n + 5)), Prop("algo", "sha1"))
          = Reading(hash, SubSeq(A, 1, n + 6))
    <3>1. hash # <<>> /\ n + 5 \in Nat /\ n + 6 \in Nat /\ n + 6 = (n + 5) + 1 /\ n + 6 <= Len(A)
      BY <1>5, <1>6, <1>7
    <3>2. A[n + 6] = Property(hash, "algo", "sha1")
      BY <1>3, Zenon
    <3> QED
      BY <3>1, <3>2, PropIsRead
  <2> QED
    BY <1>2, <1>4, <1>15, <2>1, Zenon
<1>17. R(9) = Reading(open, SubSeq(A, 1, n + 6))
  <2>1. "hash" \in PathNames(image) /\ open \in Seq(PathNames(image)) /\ Append(open, "hash") = hash
    BY PathsPushed DEF open, hash
  <2>2. Round(Reading(Append(open, "hash"), SubSeq(A, 1, n + 6)), EndNode)
          = Reading(open, SubSeq(A, 1, n + 6))
    BY <2>1, Zenon, EndIsRead
  <2> QED
    BY <1>2, <1>4, <1>16, <2>1, <2>2, Zenon
<1>18. R(10) = Reading(ImagesStack, SubSeq(A, 1, n + 6))
  <2>1. /\ image \in PathNames(image) /\ ImagesStack \in Seq(PathNames(image))
        /\ Append(ImagesStack, image) = open
    BY PathsPushed DEF open
  <2>2. Round(Reading(Append(ImagesStack, image), SubSeq(A, 1, n + 6)), EndNode)
          = Reading(ImagesStack, SubSeq(A, 1, n + 6))
    BY <2>1, Zenon, EndIsRead
  <2> QED
    BY <1>2, <1>4, <1>17, <2>1, <2>2, Zenon
<1> QED
  BY <1>18 DEF R

-----------------------------------------------------------------------------
(***************************************************************************)
(* The whole image.                                                        *)
(***************************************************************************)

RootTokens(meta) ==
  <<Begin(""),
    Prop("timestamp", "now"), Prop("description", meta.description),
    Prop("compatible", meta.compatible), Prop("inmusic,devices", meta.devices),
    Begin("images")>>

LastTokens == <<EndNode, EndNode, EndOfTree>>

RootProps(meta) ==
  <<Property(RootPath, "timestamp", "now"),
    Property(RootPath, "description", meta.description),
    Property(RootPath, "compatible", meta.compatible),
    Property(RootPath, "inmusic,devices", meta.devices)>>

\* What the parser finds in an image that was built.
PropsWritten(meta, splash, recovery, rootfs) ==
  RootProps(meta)
  \o NodeProps("splash", "Splash screen", splash)
  \o NodeProps("recoverysplash", "Update mode splash screen", recovery)
  \o NodeProps("rootfs", "Root filesystem", rootfs)

LEMMA TwoJoined ==
  ASSUME NEW S, NEW a \in Seq(S), NEW b \in Seq(S)
  PROVE  /\ a \o b \in Seq(S)
         /\ Len(a \o b) = Len(a) + Len(b)
         /\ HasAt(a \o b, 0, a)
         /\ HasAt(a \o b, Len(a), b)
BY DEF HasAt

\* A part stays where it is when more is joined behind it.
LEMMA PartStays ==
  ASSUME NEW S, NEW a \in Seq(S), NEW b \in Seq(S), NEW k \in Nat,
         NEW part \in Seq(S), k + Len(part) <= Len(a), HasAt(a, k, part)
  PROVE  HasAt(a \o b, k, part)
<1>1. ASSUME NEW j \in 1 .. Len(part)
      PROVE  (a \o b)[k + j] = part[j]
  <2>1. k + j \in 1 .. Len(a)
    OBVIOUS
  <2>2. (a \o b)[k + j] = a[k + j]
    BY <2>1
  <2> QED
    BY <2>2 DEF HasAt
<1> QED
  BY <1>1 DEF HasAt

LEMMA FourJoined ==
  ASSUME NEW S, NEW a \in Seq(S), NEW b \in Seq(S), NEW c \in Seq(S), NEW d \in Seq(S)
  PROVE  LET t == a \o b \o c \o d
         IN  /\ t \in Seq(S)
             /\ Len(t) = Len(a) + Len(b) + Len(c) + Len(d)
             /\ HasAt(t, 0, a)
             /\ HasAt(t, Len(a), b)
             /\ HasAt(t, Len(a) + Len(b), c)
             /\ HasAt(t, Len(a) + Len(b) + Len(c), d)
<1> DEFINE ab  == a \o b
           abc == a \o b \o c
           t   == a \o b \o c \o d
<1>1. /\ ab \in Seq(S) /\ Len(ab) = Len(a) + Len(b)
      /\ HasAt(ab, 0, a) /\ HasAt(ab, Len(a), b)
  BY TwoJoined
<1>2. abc = ab \o c /\ t = abc \o d
  OBVIOUS
<1> HIDE DEF ab, abc, t
<1>3. /\ abc \in Seq(S) /\ Len(abc) = Len(ab) + Len(c)
      /\ HasAt(abc, 0, ab) /\ HasAt(abc, Len(ab), c)
  BY <1>1, <1>2, TwoJoined
<1>4. /\ t \in Seq(S) /\ Len(t) = Len(abc) + Len(d)
      /\ HasAt(t, 0, abc) /\ HasAt(t, Len(abc), d)
  BY <1>2, <1>3, TwoJoined
<1>5. /\ Len(a) \in Nat /\ Len(b) \in Nat /\ Len(c) \in Nat /\ Len(d) \in Nat
  OBVIOUS
<1>6. HasAt(abc, 0, a) /\ HasAt(abc, Len(a), b)
  <2>1. 0 \in Nat /\ 0 + Len(a) <= Len(ab) /\ Len(a) + Len(b) <= Len(ab)
    BY <1>1, <1>5
  <2> QED
    BY <1>1, <1>2, <1>5, <2>1, PartStays
<1>7. HasAt(t, 0, a) /\ HasAt(t, Len(a), b) /\ HasAt(t, Len(ab), c)
  <2>1. /\ 0 \in Nat /\ 0 + Len(a) <= Len(abc) /\ Len(a) + Len(b) <= Len(abc)
        /\ Len(ab) \in Nat /\ Len(ab) + Len(c) <= Len(abc)
    BY <1>1, <1>3, <1>5
  <2> QED
    BY <1>2, <1>3, <1>5, <1>6, <2>1, PartStays
<1>8. Len(abc) = Len(a) + Len(b) + Len(c)
      /\ Len(t) = Len(a) + Len(b) + Len(c) + Len(d)
  BY <1>1, <1>3, <1>4, <1>5
<1> QED
  BY <1>1, <1>4, <1>7, <1>8 DEF t

LEMMA FiveJoined ==
  ASSUME NEW S, NEW a \in Seq(S), NEW b \in Seq(S), NEW c \in Seq(S), NEW d \in Seq(S),
         NEW e \in Seq(S)
  PROVE  LET t == a \o b \o c \o d \o e
         IN  /\ t \in Seq(S)
             /\ Len(t) = Len(a) + Len(b) + Len(c) + Len(d) + Len(e)
             /\ HasAt(t, 0, a)
             /\ HasAt(t, Len(a), b)
             /\ HasAt(t, Len(a) + Len(b), c)
             /\ HasAt(t, Len(a) + Len(b) + Len(c), d)
             /\ HasAt(t, Len(a) + Len(b) + Len(c) + Len(d), e)
<1> DEFINE u == a \o b \o c \o d
           t == a \o b \o c \o d \o e
<1>1. /\ u \in Seq(S)
      /\ Len(u) = Len(a) + Len(b) + Len(c) + Len(d)
      /\ HasAt(u, 0, a)
      /\ HasAt(u, Len(a), b)
      /\ HasAt(u, Len(a) + Len(b), c)
      /\ HasAt(u, Len(a) + Len(b) + Len(c), d)
  BY FourJoined
<1>2. t = u \o e
  OBVIOUS
<1> HIDE DEF u, t
<1>3. /\ t \in Seq(S) /\ Len(t) = Len(u) + Len(e)
      /\ HasAt(t, Len(u), e)
  BY <1>1, <1>2, TwoJoined
<1>4. /\ Len(a) \in Nat /\ Len(b) \in Nat /\ Len(c) \in Nat /\ Len(d) \in Nat /\ Len(e) \in Nat
  OBVIOUS
<1>5. /\ 0 \in Nat /\ 0 + Len(a) <= Len(u)
      /\ Len(a) + Len(b) <= Len(u)
      /\ Len(a) + Len(b) \in Nat /\ (Len(a) + Len(b)) + Len(c) <= Len(u)
      /\ Len(a) + Len(b) + Len(c) \in Nat /\ (Len(a) + Len(b) + Len(c)) + Len(d) <= Len(u)
  BY <1>1, <1>4
<1>6. HasAt(t, 0, a) /\ HasAt(t, Len(a), b)
  BY <1>1, <1>2, <1>4, <1>5, PartStays
<1>7. HasAt(t, Len(a) + Len(b), c)
  BY <1>1, <1>2, <1>5, PartStays
<1>8. HasAt(t, Len(a) + Len(b) + Len(c), d)
  BY <1>1, <1>2, <1>5, PartStays
<1>9. Len(t) = Len(a) + Len(b) + Len(c) + Len(d) + Len(e)
  BY <1>1, <1>3, <1>4
<1> QED
  BY <1>1, <1>3, <1>6, <1>7, <1>8, <1>9 DEF t

Elements(s) == {s[j] : j \in DOMAIN s}

IsList(s, n) == s \in Seq(Elements(s)) /\ Len(s) = n

LEMMA TuplesAreLists ==
  ASSUME NEW a, NEW b, NEW c, NEW d, NEW e, NEW f, NEW g, NEW h, NEW i, NEW j
  PROVE  /\ IsList(<<a, b, c>>, 3)
         /\ IsList(<<a, b, c, d>>, 4)
         /\ IsList(<<a, b, c, d, e, f>>, 6)
         /\ IsList(<<a, b, c, d, e, f, g, h, i, j>>, 10)
BY DEF IsList, Elements

LEMMA PartsAreLists ==
  ASSUME NEW meta, NEW image, NEW description, NEW data
  PROVE  /\ IsList(RootTokens(meta), 6)
         /\ IsList(LastTokens, 3)
         /\ IsList(RootProps(meta), 4)
         /\ IsList(ImageNode(image, description, data), 10)
         /\ IsList(NodeProps(image, description, data), 6)
BY TuplesAreLists, Zenon DEF RootTokens, LastTokens, RootProps, ImageNode, NodeProps

LEMMA CommonElements ==
  ASSUME NEW a, NEW b, NEW c, NEW d, NEW e, NEW i, NEW j, NEW k, NEW l, NEW m,
         IsList(a, i), IsList(b, j), IsList(c, k), IsList(d, l), IsList(e, m)
  PROVE  \E S : a \in Seq(S) /\ b \in Seq(S) /\ c \in Seq(S) /\ d \in Seq(S) /\ e \in Seq(S)
<1> DEFINE S == Elements(a) \cup Elements(b) \cup Elements(c) \cup Elements(d) \cup Elements(e)
<1>1. /\ Elements(a) \subseteq S /\ Elements(b) \subseteq S /\ Elements(c) \subseteq S
      /\ Elements(d) \subseteq S /\ Elements(e) \subseteq S
  BY Zenon
<1>2. /\ a \in Seq(Elements(a)) /\ b \in Seq(Elements(b)) /\ c \in Seq(Elements(c))
      /\ d \in Seq(Elements(d)) /\ e \in Seq(Elements(e))
  BY DEF IsList
<1> HIDE DEF S
<1>3. a \in Seq(S) /\ b \in Seq(S) /\ c \in Seq(S) /\ d \in Seq(S) /\ e \in Seq(S)
  BY <1>1, <1>2, Zenon, SeqMonotonic
<1> QED
  BY <1>3, Zenon

LEMMA BuiltParts ==
  ASSUME NEW meta, NEW splash, NEW recovery, NEW rootfs
  PROVE  LET t == Build(meta, splash, recovery, rootfs)
         IN  /\ Len(t) = 39
             /\ HasAt(t, 0, RootTokens(meta))
             /\ HasAt(t, 6, ImageNode("splash", "Splash screen", splash))
             /\ HasAt(t, 16, ImageNode("recoverysplash", "Update mode splash screen", recovery))
             /\ HasAt(t, 26, ImageNode("rootfs", "Root filesystem", rootfs))
             /\ HasAt(t, 36, LastTokens)
<1> DEFINE a == RootTokens(meta)
           b == ImageNode("splash", "Splash screen", splash)
           c == ImageNode("recoverysplash", "Update mode splash screen", recovery)
           d == ImageNode("rootfs", "Root filesystem", rootfs)
           e == LastTokens
           t == a \o b \o c \o d \o e
<1>1. Build(meta, splash, recovery, rootfs) = t
  BY DEF Build, RootTokens, LastTokens
<1>2. Len(a) = 6 /\ Len(b) = 10 /\ Len(c) = 10 /\ Len(d) = 10 /\ Len(e) = 3
  BY PartsAreLists, Zenon DEF IsList
<1>3. PICK S : a \in Seq(S) /\ b \in Seq(S) /\ c \in Seq(S) /\ d \in Seq(S) /\ e \in Seq(S)
  <2>1. IsList(a, 6) /\ IsList(b, 10) /\ IsList(c, 10) /\ IsList(d, 10) /\ IsList(e, 3)
    BY PartsAreLists, Zenon
  <2> HIDE DEF a, b, c, d, e
  <2> QED
    BY <2>1, CommonElements
<1> HIDE DEF a, b, c, d, e
<1>4. /\ t \in Seq(S)
      /\ Len(t) = Len(a) + Len(b) + Len(c) + Len(d) + Len(e)
      /\ HasAt(t, 0, a)
      /\ HasAt(t, Len(a), b)
      /\ HasAt(t, Len(a) + Len(b), c)
      /\ HasAt(t, Len(a) + Len(b) + Len(c), d)
      /\ HasAt(t, Len(a) + Len(b) + Len(c) + Len(d), e)
  BY <1>3, FiveJoined
<1> HIDE DEF t
<1>5. /\ Len(t) = 39 /\ HasAt(t, 0, a) /\ HasAt(t, 6, b) /\ HasAt(t, 16, c) /\ HasAt(t, 26, d)
      /\ HasAt(t, 36, e)
  <2>1. /\ Len(a) + Len(b) = 16 /\ Len(a) + Len(b) + Len(c) = 26
        /\ Len(a) + Len(b) + Len(c) + Len(d) = 36
        /\ Len(a) + Len(b) + Len(c) + Len(d) + Len(e) = 39
    BY <1>2
  <2> QED
    BY <1>2, <1>4, <2>1, Zenon
<1> QED
  BY <1>1, <1>5, Zenon DEF a, b, c, d, e

LEMMA WrittenParts ==
  ASSUME NEW meta, NEW splash, NEW recovery, NEW rootfs
  PROVE  LET A == PropsWritten(meta, splash, recovery, rootfs)
         IN  /\ \E S : A \in Seq(S)
             /\ Len(A) = 22
             /\ HasAt(A, 0, RootProps(meta))
             /\ HasAt(A, 4, NodeProps("splash", "Splash screen", splash))
             /\ HasAt(A, 10, NodeProps("recoverysplash", "Update mode splash screen", recovery))
             /\ HasAt(A, 16, NodeProps("rootfs", "Root filesystem", rootfs))
<1> DEFINE a == RootProps(meta)
           b == NodeProps("splash", "Splash screen", splash)
           c == NodeProps("recoverysplash", "Update mode splash screen", recovery)
           d == NodeProps("rootfs", "Root filesystem", rootfs)
           t == a \o b \o c \o d
<1>1. PropsWritten(meta, splash, recovery, rootfs) = t
  BY DEF PropsWritten
<1>2. Len(a) = 4 /\ Len(b) = 6 /\ Len(c) = 6 /\ Len(d) = 6
  BY PartsAreLists, Zenon DEF IsList
<1>3. PICK S : a \in Seq(S) /\ b \in Seq(S) /\ c \in Seq(S) /\ d \in Seq(S)
  BY PartsAreLists, CommonElements, Zenon
<1> HIDE DEF a, b, c, d
<1>4. /\ t \in Seq(S)
      /\ Len(t) = Len(a) + Len(b) + Len(c) + Len(d)
      /\ HasAt(t, 0, a)
      /\ HasAt(t, Len(a), b)
      /\ HasAt(t, Len(a) + Len(b), c)
      /\ HasAt(t, Len(a) + Len(b) + Len(c), d)
  BY <1>3, FourJoined
<1> HIDE DEF t
<1>5. /\ Len(t) = 22 /\ HasAt(t, 0, a) /\ HasAt(t, 4, b) /\ HasAt(t, 10, c) /\ HasAt(t, 16, d)
  <2>1. /\ Len(a) + Len(b) = 10 /\ Len(a) + Len(b) + Len(c) = 16
        /\ Len(a) + Len(b) + Len(c) + Len(d) = 22
    BY <1>2
  <2> QED
    BY <1>2, <1>4, <2>1, Zenon
<1> QED
  BY <1>1, <1>4, <1>5, Zenon DEF a, b, c, d

LEMMA ShortPaths ==
  ASSUME NEW x, NEW y
  PROVE  /\ <<x>> \in Seq({x, y}) /\ <<>> \in Seq({x, y})
         /\ Append(<<>>, x) = <<x>>
         /\ Append(<<x>>, y) = <<x, y>>
<1>1. <<x>> \in Seq({x, y}) /\ <<>> \in Seq({x, y}) /\ <<y>> \in Seq({x, y})
      /\ <<x, y>> \in Seq({x, y}) /\ x \in {x, y} /\ y \in {x, y}
  OBVIOUS
<1>2. Append(<<>>, x) = <<>> \o <<x>> /\ Append(<<x>>, y) = <<x>> \o <<y>>
  BY <1>1, AppendIsConcat
<1>3. <<>> \o <<x>> = <<x>>
  BY <1>1, ConcatEmptySeq
<1>4. <<x>> \o <<y>> = <<x, y>>
  <2>1. /\ <<x>> \o <<y>> \in Seq({x, y}) /\ Len(<<x>> \o <<y>>) = 2 /\ Len(<<x, y>>) = 2
        /\ (<<x>> \o <<y>>)[1] = x /\ (<<x>> \o <<y>>)[2] = y
        /\ <<x, y>>[1] = x /\ <<x, y>>[2] = y
    OBVIOUS
  <2>2. \A i \in 1 .. 2 : i = 1 \/ i = 2
    OBVIOUS
  <2>3. \A i \in 1 .. Len(<<x>> \o <<y>>) : (<<x>> \o <<y>>)[i] = <<x, y>>[i]
    BY <2>1, <2>2, Zenon
  <2> QED
    BY <1>1, <2>1, <2>3, Zenon, SeqEqual
<1> QED
  BY <1>1, <1>2, <1>3, <1>4, Zenon

LEMMA RootPushed ==
  /\ RootPath # <<>> /\ Append(<<>>, "") = RootPath /\ Append(RootPath, "images") = ImagesStack
  /\ RootPath \in Seq({"", "images"}) /\ <<>> \in Seq({"", "images"})
  /\ "" \in {"", "images"} /\ "images" \in {"", "images"}
  /\ Len(RootPath) \in Nat /\ Len(RootPath) < DepthMax
  /\ Len(<<>>) \in Nat /\ Len(<<>>) < DepthMax
<1>1. RootPath # <<>> /\ Len(RootPath) = 1 /\ Len(<<>>) = 0
  BY DEF RootPath
<1>2. DepthMax \in Nat /\ DepthMax >= 4
  BY FitAssumption
<1>3. Len(RootPath) \in Nat /\ Len(RootPath) < DepthMax /\ Len(<<>>) \in Nat /\ Len(<<>>) < DepthMax
  BY <1>1, <1>2
<1>4. "" \in {"", "images"} /\ "images" \in {"", "images"}
  BY Zenon
<1> QED
  BY <1>1, <1>3, <1>4, ShortPaths, Zenon DEF RootPath, ImagesStack

\* One round at the root of the tree.
LEMMA RootIsRead ==
  ASSUME NEW tokens, Len(tokens) \in Nat, 6 <= Len(tokens), NEW meta,
         HasAt(tokens, 0, RootTokens(meta)),
         NEW S, NEW A \in Seq(S), 4 <= Len(A), HasAt(A, 0, RootProps(meta))
  PROVE  Rounds(tokens)[6] = Reading(ImagesStack, SubSeq(A, 1, 4))
<1> DEFINE R(j) == Rounds(tokens)[j]
<1>1. \A j \in 1 .. 6 : R(j) = Round(R(j - 1), tokens[j])
  BY RoundsByOne
<1>2. R(0) = Reading(<<>>, <<>>)
  BY RoundsByOne
<1>3. /\ R(1) = Round(R(0), tokens[1]) /\ R(2) = Round(R(1), tokens[2])
      /\ R(3) = Round(R(2), tokens[3]) /\ R(4) = Round(R(3), tokens[4])
      /\ R(5) = Round(R(4), tokens[5]) /\ R(6) = Round(R(5), tokens[6])
  BY <1>1
<1>4. /\ tokens[1] = Begin("") /\ tokens[2] = Prop("timestamp", "now")
      /\ tokens[3] = Prop("description", meta.description)
      /\ tokens[4] = Prop("compatible", meta.compatible)
      /\ tokens[5] = Prop("inmusic,devices", meta.devices)
      /\ tokens[6] = Begin("images")
  <2> DEFINE I == RootTokens(meta)
  <2>1. Len(I) = 6 /\ \A j \in 1 .. Len(I) : tokens[0 + j] = I[j]
    BY PartsAreLists DEF HasAt, IsList
  <2>2. /\ I[1] = Begin("") /\ I[2] = Prop("timestamp", "now")
        /\ I[3] = Prop("description", meta.description)
        /\ I[4] = Prop("compatible", meta.compatible)
        /\ I[5] = Prop("inmusic,devices", meta.devices)
        /\ I[6] = Begin("images")
    BY DEF RootTokens
  <2> HIDE DEF I
  <2>3. /\ tokens[1] = I[1] /\ tokens[2] = I[2] /\ tokens[3] = I[3]
        /\ tokens[4] = I[4] /\ tokens[5] = I[5] /\ tokens[6] = I[6]
    BY <2>1
  <2> QED
    BY <2>2, <2>3, Zenon
<1>5. /\ A[1] = Property(RootPath, "timestamp", "now")
      /\ A[2] = Property(RootPath, "description", meta.description)
      /\ A[3] = Property(RootPath, "compatible", meta.compatible)
      /\ A[4] = Property(RootPath, "inmusic,devices", meta.devices)
  <2> DEFINE I == RootProps(meta)
  <2>1. Len(I) = 4 /\ \A j \in 1 .. Len(I) : A[0 + j] = I[j]
    BY PartsAreLists DEF HasAt, IsList
  <2>2. /\ I[1] = Property(RootPath, "timestamp", "now")
        /\ I[2] = Property(RootPath, "description", meta.description)
        /\ I[3] = Property(RootPath, "compatible", meta.compatible)
        /\ I[4] = Property(RootPath, "inmusic,devices", meta.devices)
    BY DEF RootProps
  <2> HIDE DEF I
  <2>3. A[1] = I[1] /\ A[2] = I[2] /\ A[3] = I[3] /\ A[4] = I[4]
    BY <2>1
  <2> QED
    BY <2>2, <2>3, Zenon
<1> HIDE DEF R
<1>6. RootPath # <<>>
  BY RootPushed
<1>7. SubSeq(A, 1, 0) = <<>>
  OBVIOUS
<1>8. R(1) = Reading(RootPath, SubSeq(A, 1, 0))
  <2>1. Round(Reading(<<>>, <<>>), Begin("")) = Reading(Append(<<>>, ""), <<>>)
    BY RootPushed, Zenon, BeginIsRead
  <2> QED
    BY <1>2, <1>3, <1>4, <1>7, <2>1, RootPushed, Zenon
<1>9. R(2) = Reading(RootPath, SubSeq(A, 1, 1))
  <2>1. 0 \in Nat /\ 1 \in Nat /\ 1 = 0 + 1 /\ 1 <= Len(A)
    OBVIOUS
  <2>2. Round(Reading(RootPath, SubSeq(A, 1, 0)), Prop("timestamp", "now"))
          = Reading(RootPath, SubSeq(A, 1, 1))
    <3>1. A[1] = Property(RootPath, "timestamp", "now")
      BY <1>5, Zenon
    <3> QED
      BY <1>6, <2>1, <3>1, PropIsRead
  <2> QED
    BY <1>3, <1>4, <1>8, <2>2, Zenon
<1>10. R(3) = Reading(RootPath, SubSeq(A, 1, 2))
  <2>1. 1 \in Nat /\ 2 \in Nat /\ 2 = 1 + 1 /\ 2 <= Len(A)
    OBVIOUS
  <2>2. Round(Reading(RootPath, SubSeq(A, 1, 1)), Prop("description", meta.description))
          = Reading(RootPath, SubSeq(A, 1, 2))
    <3>1. A[2] = Property(RootPath, "description", meta.description)
      BY <1>5, Zenon
    <3> QED
      BY <1>6, <2>1, <3>1, PropIsRead
  <2> QED
    BY <1>3, <1>4, <1>9, <2>2, Zenon
<1>11. R(4) = Reading(RootPath, SubSeq(A, 1, 3))
  <2>1. 2 \in Nat /\ 3 \in Nat /\ 3 = 2 + 1 /\ 3 <= Len(A)
    OBVIOUS
  <2>2. Round(Reading(RootPath, SubSeq(A, 1, 2)), Prop("compatible", meta.compatible))
          = Reading(RootPath, SubSeq(A, 1, 3))
    <3>1. A[3] = Property(RootPath, "compatible", meta.compatible)
      BY <1>5, Zenon
    <3> QED
      BY <1>6, <2>1, <3>1, PropIsRead
  <2> QED
    BY <1>3, <1>4, <1>10, <2>2, Zenon
<1>12. R(5) = Reading(RootPath, SubSeq(A, 1, 4))
  <2>1. 3 \in Nat /\ 4 \in Nat /\ 4 = 3 + 1 /\ 4 <= Len(A)
    OBVIOUS
  <2>2. Round(Reading(RootPath, SubSeq(A, 1, 3)), Prop("inmusic,devices", meta.devices))
          = Reading(RootPath, SubSeq(A, 1, 4))
    <3>1. PICK name, value : name = "inmusic,devices" /\ value = meta.devices
      OBVIOUS
    <3>2. A[4] = Property(RootPath, name, value)
      BY <1>5, <3>1, Zenon
    <3>3. Round(Reading(RootPath, SubSeq(A, 1, 3)), Prop(name, value))
            = Reading(RootPath, SubSeq(A, 1, 4))
      BY <1>6, <2>1, <3>2, PropIsRead
    <3> QED
      BY <3>1, <3>3, Zenon
  <2> QED
    BY <1>3, <1>4, <1>11, <2>2, Zenon
<1>13. R(6) = Reading(ImagesStack, SubSeq(A, 1, 4))
  <2>1. Round(Reading(RootPath, SubSeq(A, 1, 4)), Begin("images"))
          = Reading(Append(RootPath, "images"), SubSeq(A, 1, 4))
    BY RootPushed, Zenon, BeginIsRead
  <2> QED
    BY <1>3, <1>4, <1>12, <2>1, RootPushed, Zenon
<1> QED
  BY <1>13 DEF R

LEMMA NextNodeIsRead ==
  ASSUME NEW t, NEW k, NEW next, NEW image, NEW description, NEW data,
         NEW S, NEW A, NEW n, NEW m,
         Len(t) \in Nat, k \in Nat, next = k + 10, next <= Len(t),
         A \in Seq(S), n \in Nat, m = n + 6, m <= Len(A),
         HasAt(t, k, ImageNode(image, description, data)),
         HasAt(A, n, NodeProps(image, description, data)),
         Rounds(t)[k] = Reading(ImagesStack, SubSeq(A, 1, n))
  PROVE  Rounds(t)[next] = Reading(ImagesStack, SubSeq(A, 1, m))
<1>1. Rounds(t)[k + 10] = Reading(ImagesStack, SubSeq(A, 1, n + 6))
  BY NodeIsRead
<1> QED
  BY <1>1

\* nam_fit_parse after nam_fit_build.
LEMMA BuildIsRead ==
  ASSUME NEW meta, NEW splash, NEW recovery, NEW rootfs
  PROVE  /\ Parses(Build(meta, splash, recovery, rootfs))
         /\ Props(Build(meta, splash, recovery, rootfs)) = PropsWritten(meta, splash, recovery, rootfs)
<1> DEFINE t == Build(meta, splash, recovery, rootfs)
           A == PropsWritten(meta, splash, recovery, rootfs)
           b == ImageNode("splash", "Splash screen", splash)
           c == ImageNode("recoverysplash", "Update mode splash screen", recovery)
           d == ImageNode("rootfs", "Root filesystem", rootfs)
           R(j) == Rounds(t)[j]
<1>1. /\ Len(t) = 39 /\ HasAt(t, 0, RootTokens(meta)) /\ HasAt(t, 6, b) /\ HasAt(t, 16, c)
      /\ HasAt(t, 26, d) /\ HasAt(t, 36, LastTokens)
  BY BuiltParts
<1>2. /\ \E S : A \in Seq(S)
      /\ Len(A) = 22 /\ HasAt(A, 0, RootProps(meta))
      /\ HasAt(A, 4, NodeProps("splash", "Splash screen", splash))
      /\ HasAt(A, 10, NodeProps("recoverysplash", "Update mode splash screen", recovery))
      /\ HasAt(A, 16, NodeProps("rootfs", "Root filesystem", rootfs))
  BY WrittenParts
<1> HIDE DEF A, t
<1>3. PICK S : A \in Seq(S)
  BY <1>2
<1>4. /\ Len(t) \in Nat /\ 6 <= Len(t) /\ 6 + 10 <= Len(t) /\ 16 + 10 <= Len(t) /\ 26 + 10 <= Len(t)
      /\ 4 <= Len(A) /\ 4 + 6 <= Len(A) /\ 10 + 6 <= Len(A) /\ 16 + 6 <= Len(A)
      /\ 6 \in Nat /\ 16 \in Nat /\ 26 \in Nat /\ 4 \in Nat /\ 10 \in Nat
      /\ 6 + 10 = 16 /\ 16 + 10 = 26 /\ 26 + 10 = 36
      /\ 4 + 6 = 10 /\ 10 + 6 = 16 /\ 16 + 6 = 22
  <2>1. PICK x, y : x = Len(t) /\ y = Len(A)
    OBVIOUS
  <2>2. x = 39 /\ y = 22
    BY <1>1, <1>2, <2>1, Zenon
  <2>3. /\ x \in Nat /\ 6 <= x /\ 6 + 10 <= x /\ 16 + 10 <= x /\ 26 + 10 <= x
        /\ 4 <= y /\ 4 + 6 <= y /\ 10 + 6 <= y /\ 16 + 6 <= y
        /\ 6 \in Nat /\ 16 \in Nat /\ 26 \in Nat /\ 4 \in Nat /\ 10 \in Nat
        /\ 6 + 10 = 16 /\ 16 + 10 = 26 /\ 26 + 10 = 36
        /\ 4 + 6 = 10 /\ 10 + 6 = 16 /\ 16 + 6 = 22
    BY <2>2
  <2> QED
    BY <2>1, <2>3, Zenon
<1>5. R(6) = Reading(ImagesStack, SubSeq(A, 1, 4))
  BY <1>1, <1>2, <1>3, <1>4, RootIsRead
<1>6. R(16) = Reading(ImagesStack, SubSeq(A, 1, 10))
  <2>1. PICK k, next, n, m : k = 6 /\ next = 16 /\ n = 4 /\ m = 10
    OBVIOUS
  <2>2. PICK image, description : image = "splash" /\ description = "Splash screen"
    OBVIOUS
  <2>3. Len(t) \in Nat /\ k \in Nat /\ next = k + 10 /\ n \in Nat /\ m = n + 6
    BY <1>4, <2>1
  <2>4. next <= Len(t) /\ m <= Len(A) /\ A \in Seq(S)
    BY <1>3, <1>4, <2>1, Zenon
  <2>5. /\ HasAt(t, k, ImageNode(image, description, splash))
        /\ HasAt(A, n, NodeProps(image, description, splash))
    BY <1>1, <1>2, <2>1, <2>2, Zenon
  <2>6. Rounds(t)[k] = Reading(ImagesStack, SubSeq(A, 1, n))
    BY <1>5, <2>1, Zenon
  <2>7. Rounds(t)[next] = Reading(ImagesStack, SubSeq(A, 1, m))
    BY <2>3, <2>4, <2>5, <2>6, NextNodeIsRead
  <2> QED
    BY <2>1, <2>7, Zenon
<1>7. R(26) = Reading(ImagesStack, SubSeq(A, 1, 16))
  <2>1. PICK k, next, n, m : k = 16 /\ next = 26 /\ n = 10 /\ m = 16
    OBVIOUS
  <2>2. PICK image, description : image = "recoverysplash" /\ description = "Update mode splash screen"
    OBVIOUS
  <2>3. Len(t) \in Nat /\ k \in Nat /\ next = k + 10 /\ n \in Nat /\ m = n + 6
    BY <1>4, <2>1
  <2>4. next <= Len(t) /\ m <= Len(A) /\ A \in Seq(S)
    BY <1>3, <1>4, <2>1, Zenon
  <2>5. /\ HasAt(t, k, ImageNode(image, description, recovery))
        /\ HasAt(A, n, NodeProps(image, description, recovery))
    BY <1>1, <1>2, <2>1, <2>2, Zenon
  <2>6. Rounds(t)[k] = Reading(ImagesStack, SubSeq(A, 1, n))
    BY <1>6, <2>1, Zenon
  <2>7. Rounds(t)[next] = Reading(ImagesStack, SubSeq(A, 1, m))
    BY <2>3, <2>4, <2>5, <2>6, NextNodeIsRead
  <2> QED
    BY <2>1, <2>7, Zenon
<1>8. R(36) = Reading(ImagesStack, SubSeq(A, 1, 22))
  <2>1. PICK k, next, n, m : k = 26 /\ next = 36 /\ n = 16 /\ m = 22
    OBVIOUS
  <2>2. PICK image, description : image = "rootfs" /\ description = "Root filesystem"
    OBVIOUS
  <2>3. Len(t) \in Nat /\ k \in Nat /\ next = k + 10 /\ n \in Nat /\ m = n + 6
    BY <1>4, <2>1
  <2>4. next <= Len(t) /\ m <= Len(A) /\ A \in Seq(S)
    BY <1>3, <1>4, <2>1, Zenon
  <2>5. /\ HasAt(t, k, ImageNode(image, description, rootfs))
        /\ HasAt(A, n, NodeProps(image, description, rootfs))
    BY <1>1, <1>2, <2>1, <2>2, Zenon
  <2>6. Rounds(t)[k] = Reading(ImagesStack, SubSeq(A, 1, n))
    BY <1>7, <2>1, Zenon
  <2>7. Rounds(t)[next] = Reading(ImagesStack, SubSeq(A, 1, m))
    BY <2>3, <2>4, <2>5, <2>6, NextNodeIsRead
  <2> QED
    BY <2>1, <2>7, Zenon
<1>9. SubSeq(A, 1, 22) = A
  BY <1>2, <1>3, SubSeqFull
<1>10. t[37] = EndNode /\ t[38] = EndNode /\ t[39] = EndOfTree
  <2> DEFINE I == LastTokens
  <2>1. Len(I) = 3 /\ \A j \in 1 .. Len(I) : t[36 + j] = I[j]
    BY <1>1, PartsAreLists DEF HasAt, IsList
  <2>2. I[1] = EndNode /\ I[2] = EndNode /\ I[3] = EndOfTree
    BY DEF LastTokens
  <2> HIDE DEF I
  <2>3. t[37] = I[1] /\ t[38] = I[2] /\ t[39] = I[3]
    BY <2>1
  <2> QED
    BY <2>2, <2>3, Zenon
<1>11. /\ R(37) = Round(R(36), t[37]) /\ R(38) = Round(R(37), t[38])
       /\ R(39) = Round(R(38), t[39])
  <2>1. \A k \in 1 .. 39 : R(k) = Round(R(k - 1), t[k])
    <3>1. \A k \in 1 .. Len(t) : R(k) = Round(R(k - 1), t[k])
      BY <1>4, RoundsByOne
    <3> QED
      BY <1>1, <3>1, Zenon
  <2> QED
    BY <2>1
<1> HIDE DEF R
<1>12. R(37) = Reading(RootPath, A)
  <2>3. Round(Reading(Append(RootPath, "images"), A), EndNode) = Reading(RootPath, A)
    BY RootPushed, Zenon, EndIsRead
  <2> QED
    BY <1>8, <1>9, <1>10, <1>11, <2>3, RootPushed, Zenon
<1>13. R(38) = Reading(<<>>, A)
  <2>2. Round(Reading(Append(<<>>, ""), A), EndNode) = Reading(<<>>, A)
    BY RootPushed, Zenon, EndIsRead
  <2> QED
    BY <1>10, <1>11, <1>12, <2>2, RootPushed, Zenon
<1>14. R(39) = [at |-> "closed", stack |-> <<>>, props |-> A]
  <2>1. Round(Reading(<<>>, A), EndOfTree) = [at |-> "closed", stack |-> <<>>, props |-> A]
    BY DEF Round, Reading, EndOfTree, Token
  <2> QED
    BY <1>10, <1>11, <1>13, <2>1, Zenon
<1>15. Parse(t) = [at |-> "closed", stack |-> <<>>, props |-> A]
  BY <1>1, <1>14 DEF Parse, R
<1>16. Parses(t) /\ Props(t) = A
  BY <1>15 DEF Parses, Props
<1> QED
  BY <1>16 DEF t, A

-----------------------------------------------------------------------------
(***************************************************************************)
(* What the image says.                                                    *)
(***************************************************************************)

LEMMA NodeAt ==
  ASSUME NEW A, NEW k \in Nat, NEW image, NEW description, NEW data,
         HasAt(A, k, NodeProps(image, description, data))
  PROVE  /\ A[k + 1] = Property(ImagePath(image), "description", description)
         /\ A[k + 2] = Property(ImagePath(image), "partition", image)
         /\ A[k + 3] = Property(ImagePath(image), "data", data)
         /\ A[k + 4] = Property(ImagePath(image), "compression", "xz")
         /\ A[k + 5] = Property(ImagePath(image) \o <<"hash">>, "value", Hash(data))
         /\ A[k + 6] = Property(ImagePath(image) \o <<"hash">>, "algo", "sha1")
<1> DEFINE P == NodeProps(image, description, data)
<1>1. Len(P) = 6 /\ \A j \in 1 .. Len(P) : A[k + j] = P[j]
  BY NodeParts DEF HasAt
<1>2. /\ P[1] = Property(ImagePath(image), "description", description)
      /\ P[2] = Property(ImagePath(image), "partition", image)
      /\ P[3] = Property(ImagePath(image), "data", data)
      /\ P[4] = Property(ImagePath(image), "compression", "xz")
      /\ P[5] = Property(ImagePath(image) \o <<"hash">>, "value", Hash(data))
      /\ P[6] = Property(ImagePath(image) \o <<"hash">>, "algo", "sha1")
  BY NodeParts
<1> HIDE DEF P
<1>3. /\ A[k + 1] = P[1] /\ A[k + 2] = P[2] /\ A[k + 3] = P[3]
      /\ A[k + 4] = P[4] /\ A[k + 5] = P[5] /\ A[k + 6] = P[6]
  BY <1>1
<1> QED
  BY <1>2, <1>3, Zenon

HashPath(image) == ImagePath(image) \o <<"hash">>

Says(A, k, path, name) == A[k].path = path /\ A[k].name = name

LEMMA NodeSays ==
  ASSUME NEW A, NEW k \in Nat, NEW image, NEW description, NEW data,
         HasAt(A, k, NodeProps(image, description, data))
  PROVE  /\ Says(A, k + 1, ImagePath(image), "description")
         /\ Says(A, k + 2, ImagePath(image), "partition")
         /\ Says(A, k + 3, ImagePath(image), "data")
         /\ Says(A, k + 4, ImagePath(image), "compression")
         /\ Says(A, k + 5, HashPath(image), "value")
         /\ Says(A, k + 6, HashPath(image), "algo")
         /\ A[k + 3].value = data
         /\ A[k + 5].value = Hash(data)
<1>1. /\ A[k + 1] = Property(ImagePath(image), "description", description)
      /\ A[k + 2] = Property(ImagePath(image), "partition", image)
      /\ A[k + 3] = Property(ImagePath(image), "data", data)
  BY NodeAt
<1>2. /\ A[k + 4] = Property(ImagePath(image), "compression", "xz")
      /\ A[k + 5] = Property(HashPath(image), "value", Hash(data))
      /\ A[k + 6] = Property(HashPath(image), "algo", "sha1")
  BY NodeAt DEF HashPath
<1>3. ASSUME NEW j, NEW path, NEW name, NEW value, A[j] = Property(path, name, value)
      PROVE  Says(A, j, path, name) /\ A[j].value = value
  BY <1>3 DEF Says, Property
<1>4. /\ Says(A, k + 1, ImagePath(image), "description")
      /\ Says(A, k + 2, ImagePath(image), "partition")
      /\ Says(A, k + 3, ImagePath(image), "data") /\ A[k + 3].value = data
  BY <1>1, <1>3
<1>5. /\ Says(A, k + 4, ImagePath(image), "compression")
      /\ Says(A, k + 5, HashPath(image), "value") /\ A[k + 5].value = Hash(data)
      /\ Says(A, k + 6, HashPath(image), "algo")
  BY <1>2, <1>3
<1> QED
  BY <1>4, <1>5, Zenon

LEMMA PathsApart ==
  ASSUME NEW x, NEW y
  PROVE  /\ RootPath # ImagePath(x)
         /\ RootPath # ImagePath(x) \o <<"hash">>
         /\ x # y => ImagePath(x) # ImagePath(y)
         /\ x # y => ImagePath(x) \o <<"hash">> # ImagePath(y) \o <<"hash">>
<1>1. Len(RootPath) = 1
  BY DEF RootPath
<1>2. /\ Len(ImagePath(x)) = 3 /\ Len(ImagePath(x) \o <<"hash">>) = 4
      /\ Len(ImagePath(y)) = 3
      /\ ImagePath(x) \in Seq(PathNames(x)) /\ ImagePath(y) \in Seq(PathNames(y))
  BY PathsPushed
<1>3. RootPath # ImagePath(x) /\ RootPath # ImagePath(x) \o <<"hash">>
  <2>1. 1 # 3 /\ 1 # 4
    OBVIOUS
  <2> QED
    BY <1>1, <1>2, <2>1, Zenon
<1>4. ImagePath(x)[3] = x /\ ImagePath(y)[3] = y
  BY DEF ImagePath
<1>5. ASSUME NEW z
      PROVE  (ImagePath(z) \o <<"hash">>)[3] = ImagePath(z)[3]
  <2> DEFINE S == PathNames(z)
             H == <<"hash">>
  <2>1. ImagePath(z) \in Seq(S) /\ "hash" \in S /\ Len(ImagePath(z)) = 3
    BY PathsPushed
  <2> HIDE DEF S
  <2>2. H \in Seq(S) /\ Len(H) = 1
    BY <2>1
  <2> HIDE DEF H
  <2>3. (ImagePath(z) \o H)[3] = ImagePath(z)[3]
    BY <2>1, <2>2
  <2> QED
    BY <2>3 DEF H
<1>6. x # y => ImagePath(x) # ImagePath(y)
  BY <1>4, Zenon
<1>7. x # y => ImagePath(x) \o <<"hash">> # ImagePath(y) \o <<"hash">>
  BY <1>4, <1>5, Zenon
<1> QED
  BY <1>3, <1>6, <1>7, Zenon

LEMMA OnlyHit ==
  ASSUME NEW props, NEW path, NEW name, NEW k \in Nat, Hits(props, path, name) = {k}
  PROVE  /\ HasBytes(props, path, name)
         /\ GetBytes(props, path, name) = props[k].value
<1>1. (CHOOSE i \in Hits(props, path, name) : \A j \in Hits(props, path, name) : i <= j) = k
  OBVIOUS
<1> QED
  BY <1>1 DEF HasBytes, GetBytes

LEMMA HitAmongFour ==
  ASSUME NEW A, NEW name, NEW i, NEW j, NEW k, NEW l, NEW P, NEW Q, NEW R, NEW S,
         i \in DOMAIN A, Says(A, i, P, name), Says(A, j, Q, name), Says(A, k, R, name),
         Says(A, l, S, name), P # Q, P # R, P # S,
         \A x \in DOMAIN A : A[x].name = name => x \in {i, j, k, l}
  PROVE  Hits(A, P, name) = {i}
BY DEF Hits, Says

LEMMA HitAmongThree ==
  ASSUME NEW A, NEW name, NEW i, NEW j, NEW k, NEW P, NEW Q, NEW R,
         i \in DOMAIN A, Says(A, i, P, name), Says(A, j, Q, name), Says(A, k, R, name),
         P # Q, P # R,
         \A x \in DOMAIN A : A[x].name = name => x \in {i, j, k}
  PROVE  Hits(A, P, name) = {i}
BY DEF Hits, Says

LEMMA HitAlone ==
  ASSUME NEW A, NEW name, NEW i, NEW P,
         i \in DOMAIN A, Says(A, i, P, name),
         \A x \in DOMAIN A : A[x].name = name => x = i
  PROVE  Hits(A, P, name) = {i}
BY DEF Hits, Says

LEMMA RootSays ==
  ASSUME NEW A, NEW meta, HasAt(A, 0, RootProps(meta))
  PROVE  /\ Says(A, 1, RootPath, "timestamp") /\ Says(A, 2, RootPath, "description")
         /\ Says(A, 3, RootPath, "compatible") /\ Says(A, 4, RootPath, "inmusic,devices")
         /\ A[2].value = meta.description /\ A[3].value = meta.compatible
         /\ A[4].value = meta.devices
<1> DEFINE I == RootProps(meta)
<1>1. Len(I) = 4 /\ \A j \in 1 .. Len(I) : A[0 + j] = I[j]
  BY PartsAreLists DEF HasAt, IsList
<1>2. /\ I[1] = Property(RootPath, "timestamp", "now")
      /\ I[2] = Property(RootPath, "description", meta.description)
      /\ I[3] = Property(RootPath, "compatible", meta.compatible)
      /\ I[4] = Property(RootPath, "inmusic,devices", meta.devices)
  BY DEF RootProps
<1> HIDE DEF I
<1>3. A[1] = I[1] /\ A[2] = I[2] /\ A[3] = I[3] /\ A[4] = I[4]
  BY <1>1
<1>4. ASSUME NEW j, NEW path, NEW name, NEW value, A[j] = Property(path, name, value)
      PROVE  Says(A, j, path, name) /\ A[j].value = value
  BY <1>4 DEF Says, Property
<1>5. /\ A[1] = Property(RootPath, "timestamp", "now")
      /\ A[2] = Property(RootPath, "description", meta.description)
      /\ A[3] = Property(RootPath, "compatible", meta.compatible)
      /\ A[4] = Property(RootPath, "inmusic,devices", meta.devices)
  BY <1>2, <1>3, Zenon
<1>6. Says(A, 1, RootPath, "timestamp")
  BY <1>4, <1>5, Zenon
<1>7. Says(A, 2, RootPath, "description") /\ A[2].value = meta.description
  <2>1. PICK value : value = meta.description
    OBVIOUS
  <2>2. A[2] = Property(RootPath, "description", value)
    BY <1>5, <2>1, Zenon
  <2>3. Says(A, 2, RootPath, "description")
    BY <1>4, <2>2, Zenon
  <2>4. A[2].value = value
    <3>1. PICK name : A[2] = Property(RootPath, name, value)
      BY <2>2, Zenon
    <3> QED
      BY <3>1 DEF Property
  <2> QED
    BY <2>1, <2>3, <2>4
<1>8. Says(A, 3, RootPath, "compatible") /\ A[3].value = meta.compatible
  <2>1. PICK value : value = meta.compatible
    OBVIOUS
  <2>2. A[3] = Property(RootPath, "compatible", value)
    BY <1>5, <2>1, Zenon
  <2>3. Says(A, 3, RootPath, "compatible")
    BY <1>4, <2>2, Zenon
  <2>4. A[3].value = value
    <3>1. PICK name : A[3] = Property(RootPath, name, value)
      BY <2>2, Zenon
    <3> QED
      BY <3>1 DEF Property
  <2> QED
    BY <2>1, <2>3, <2>4
<1>9. Says(A, 4, RootPath, "inmusic,devices") /\ A[4].value = meta.devices
  <2>1. PICK value : value = meta.devices
    OBVIOUS
  <2>2. A[4] = Property(RootPath, "inmusic,devices", value)
    BY <1>5, <2>1, Zenon
  <2>3. Says(A, 4, RootPath, "inmusic,devices")
    BY <1>4, <2>2, Zenon
  <2>4. A[4].value = value
    <3>1. PICK name : A[4] = Property(RootPath, name, value)
      BY <2>2, Zenon
    <3> QED
      BY <3>1 DEF Property
  <2> QED
    BY <2>1, <2>3, <2>4
<1> QED
  BY <1>6, <1>7, <1>8, <1>9, Zenon

\* An image that was built says what it was built from.
SaysParts(A, meta, splash, recovery, rootfs) ==
    /\ GetBytes(A, RootPath, "description") = meta.description
    /\ GetBytes(A, RootPath, "compatible") = meta.compatible
    /\ GetBytes(A, RootPath, "inmusic,devices") = meta.devices
    /\ HasImages(A)
    /\ ImageData(A, "splash") = splash
    /\ ImageData(A, "recoverysplash") = recovery
    /\ ImageData(A, "rootfs") = rootfs
    /\ GetBytes(A, HashPath("splash"), "value") = Hash(splash)
    /\ GetBytes(A, HashPath("recoverysplash"), "value") = Hash(recovery)

LEMMA BuildSays ==
  ASSUME NEW meta, NEW splash, NEW recovery, NEW rootfs
  PROVE  SaysParts(Props(Build(meta, splash, recovery, rootfs)), meta, splash, recovery, rootfs)
<1> DEFINE A == PropsWritten(meta, splash, recovery, rootfs)
<1>1. Props(Build(meta, splash, recovery, rootfs)) = A
  BY BuildIsRead
<1>2. /\ \E S : A \in Seq(S)
      /\ Len(A) = 22 /\ HasAt(A, 0, RootProps(meta))
      /\ HasAt(A, 4, NodeProps("splash", "Splash screen", splash))
      /\ HasAt(A, 10, NodeProps("recoverysplash", "Update mode splash screen", recovery))
      /\ HasAt(A, 16, NodeProps("rootfs", "Root filesystem", rootfs))
  BY WrittenParts
<1> HIDE DEF A
<1>0. DOMAIN A = 1 .. 22
  <2>1. DOMAIN A = 1 .. Len(A)
    BY <1>2, LenProperties
  <2> QED
    BY <1>2, <2>1, Zenon
<1>3. /\ Says(A, 1, RootPath, "timestamp") /\ Says(A, 2, RootPath, "description")
      /\ Says(A, 3, RootPath, "compatible") /\ Says(A, 4, RootPath, "inmusic,devices")
      /\ A[2].value = meta.description /\ A[3].value = meta.compatible
      /\ A[4].value = meta.devices
  BY <1>2, RootSays, Zenon
<1>4. /\ Says(A, 5, ImagePath("splash"), "description") /\ Says(A, 6, ImagePath("splash"), "partition")
      /\ Says(A, 7, ImagePath("splash"), "data") /\ Says(A, 8, ImagePath("splash"), "compression")
      /\ Says(A, 9, HashPath("splash"), "value") /\ Says(A, 10, HashPath("splash"), "algo")
      /\ A[7].value = splash /\ A[9].value = Hash(splash)
  <2>1. PICK k : k = 4
    OBVIOUS
  <2>2. HasAt(A, k, NodeProps("splash", "Splash screen", splash))
    BY <1>2, <2>1, Zenon
  <2>5. PICK image, description : image = "splash" /\ description = "Splash screen"
    OBVIOUS
  <2>3. /\ k \in Nat /\ k + 1 = 5 /\ k + 2 = 6 /\ k + 3 = 7
        /\ k + 4 = 8 /\ k + 5 = 9 /\ k + 6 = 10
    BY <2>1
  <2>6. /\ Says(A, k + 1, ImagePath(image), "description") /\ Says(A, k + 2, ImagePath(image), "partition")
        /\ Says(A, k + 3, ImagePath(image), "data") /\ Says(A, k + 4, ImagePath(image), "compression")
        /\ Says(A, k + 5, HashPath(image), "value") /\ Says(A, k + 6, HashPath(image), "algo")
        /\ A[k + 3].value = splash /\ A[k + 5].value = Hash(splash)
    <3>1. HasAt(A, k, NodeProps(image, description, splash)) /\ k \in Nat
      BY <2>2, <2>3, <2>5, Zenon
    <3> QED
      BY <3>1, NodeSays
  <2>4. /\ Says(A, k + 1, ImagePath("splash"), "description") /\ Says(A, k + 2, ImagePath("splash"), "partition")
        /\ Says(A, k + 3, ImagePath("splash"), "data") /\ Says(A, k + 4, ImagePath("splash"), "compression")
        /\ Says(A, k + 5, HashPath("splash"), "value") /\ Says(A, k + 6, HashPath("splash"), "algo")
        /\ A[k + 3].value = splash /\ A[k + 5].value = Hash(splash)
    BY <2>5, <2>6, Zenon
  <2> QED
    BY <2>3, <2>4, Zenon
<1>5. /\ Says(A, 11, ImagePath("recoverysplash"), "description") /\ Says(A, 12, ImagePath("recoverysplash"), "partition")
      /\ Says(A, 13, ImagePath("recoverysplash"), "data") /\ Says(A, 14, ImagePath("recoverysplash"), "compression")
      /\ Says(A, 15, HashPath("recoverysplash"), "value") /\ Says(A, 16, HashPath("recoverysplash"), "algo")
      /\ A[13].value = recovery /\ A[15].value = Hash(recovery)
  <2>1. PICK k : k = 10
    OBVIOUS
  <2>2. HasAt(A, k, NodeProps("recoverysplash", "Update mode splash screen", recovery))
    BY <1>2, <2>1, Zenon
  <2>5. PICK image, description : image = "recoverysplash" /\ description = "Update mode splash screen"
    OBVIOUS
  <2>3. /\ k \in Nat /\ k + 1 = 11 /\ k + 2 = 12 /\ k + 3 = 13
        /\ k + 4 = 14 /\ k + 5 = 15 /\ k + 6 = 16
    BY <2>1
  <2>6. /\ Says(A, k + 1, ImagePath(image), "description") /\ Says(A, k + 2, ImagePath(image), "partition")
        /\ Says(A, k + 3, ImagePath(image), "data") /\ Says(A, k + 4, ImagePath(image), "compression")
        /\ Says(A, k + 5, HashPath(image), "value") /\ Says(A, k + 6, HashPath(image), "algo")
        /\ A[k + 3].value = recovery /\ A[k + 5].value = Hash(recovery)
    <3>1. HasAt(A, k, NodeProps(image, description, recovery)) /\ k \in Nat
      BY <2>2, <2>3, <2>5, Zenon
    <3> QED
      BY <3>1, NodeSays
  <2>4. /\ Says(A, k + 1, ImagePath("recoverysplash"), "description") /\ Says(A, k + 2, ImagePath("recoverysplash"), "partition")
        /\ Says(A, k + 3, ImagePath("recoverysplash"), "data") /\ Says(A, k + 4, ImagePath("recoverysplash"), "compression")
        /\ Says(A, k + 5, HashPath("recoverysplash"), "value") /\ Says(A, k + 6, HashPath("recoverysplash"), "algo")
        /\ A[k + 3].value = recovery /\ A[k + 5].value = Hash(recovery)
    BY <2>5, <2>6, Zenon
  <2> QED
    BY <2>3, <2>4, Zenon
<1>18. /\ Says(A, 17, ImagePath("rootfs"), "description") /\ Says(A, 18, ImagePath("rootfs"), "partition")
      /\ Says(A, 19, ImagePath("rootfs"), "data") /\ Says(A, 20, ImagePath("rootfs"), "compression")
      /\ Says(A, 21, HashPath("rootfs"), "value") /\ Says(A, 22, HashPath("rootfs"), "algo")
      /\ A[19].value = rootfs /\ A[21].value = Hash(rootfs)
  <2>1. PICK k : k = 16
    OBVIOUS
  <2>2. HasAt(A, k, NodeProps("rootfs", "Root filesystem", rootfs))
    BY <1>2, <2>1, Zenon
  <2>5. PICK image, description : image = "rootfs" /\ description = "Root filesystem"
    OBVIOUS
  <2>3. /\ k \in Nat /\ k + 1 = 17 /\ k + 2 = 18 /\ k + 3 = 19
        /\ k + 4 = 20 /\ k + 5 = 21 /\ k + 6 = 22
    BY <2>1
  <2>6. /\ Says(A, k + 1, ImagePath(image), "description") /\ Says(A, k + 2, ImagePath(image), "partition")
        /\ Says(A, k + 3, ImagePath(image), "data") /\ Says(A, k + 4, ImagePath(image), "compression")
        /\ Says(A, k + 5, HashPath(image), "value") /\ Says(A, k + 6, HashPath(image), "algo")
        /\ A[k + 3].value = rootfs /\ A[k + 5].value = Hash(rootfs)
    <3>1. HasAt(A, k, NodeProps(image, description, rootfs)) /\ k \in Nat
      BY <2>2, <2>3, <2>5, Zenon
    <3> QED
      BY <3>1, NodeSays
  <2>4. /\ Says(A, k + 1, ImagePath("rootfs"), "description") /\ Says(A, k + 2, ImagePath("rootfs"), "partition")
        /\ Says(A, k + 3, ImagePath("rootfs"), "data") /\ Says(A, k + 4, ImagePath("rootfs"), "compression")
        /\ Says(A, k + 5, HashPath("rootfs"), "value") /\ Says(A, k + 6, HashPath("rootfs"), "algo")
        /\ A[k + 3].value = rootfs /\ A[k + 5].value = Hash(rootfs)
    BY <2>5, <2>6, Zenon
  <2> QED
    BY <2>3, <2>4, Zenon
<1>6. \A j \in DOMAIN A :
           j = 1 \/ j = 2 \/ j = 3 \/ j = 4 \/ j = 5 \/ j = 6 \/ j = 7 \/ j = 8
            \/ j = 9 \/ j = 10 \/ j = 11 \/ j = 12 \/ j = 13 \/ j = 14 \/ j = 15 \/ j = 16
            \/ j = 17 \/ j = 18 \/ j = 19 \/ j = 20 \/ j = 21 \/ j = 22
  BY <1>0
<1>7. \A j \in DOMAIN A :
         /\ A[j].name = "description" => j \in {2, 5, 11, 17}
         /\ A[j].name = "compatible" => j = 3
         /\ A[j].name = "inmusic,devices" => j = 4
         /\ A[j].name = "data" => j \in {7, 13, 19}
         /\ A[j].name = "value" => j \in {9, 15, 21}
  BY <1>3, <1>4, <1>5, <1>18, <1>6 DEF Says
<1>8. /\ RootPath # ImagePath("splash") /\ RootPath # ImagePath("recoverysplash")
      /\ RootPath # ImagePath("rootfs")
      /\ ImagePath("splash") # ImagePath("recoverysplash")
      /\ ImagePath("splash") # ImagePath("rootfs")
      /\ ImagePath("recoverysplash") # ImagePath("rootfs")
      /\ HashPath("splash") # HashPath("recoverysplash")
      /\ HashPath("splash") # HashPath("rootfs")
      /\ HashPath("recoverysplash") # HashPath("rootfs")
  <2>1. "splash" # "recoverysplash" /\ "splash" # "rootfs" /\ "recoverysplash" # "rootfs"
    OBVIOUS
  <2> QED
    BY <2>1, PathsApart, Zenon DEF HashPath
<1>9. \A k \in {2, 3, 4, 7, 9, 13, 15, 19} : k \in DOMAIN A /\ k \in Nat
  BY <1>0
<1>10. Hits(A, RootPath, "description") = {2}
  <2>1. 2 \in DOMAIN A /\ \A x \in DOMAIN A : A[x].name = "description" => x \in {2, 5, 11, 17}
    BY <1>7, <1>9
  <2>2. /\ Says(A, 2, RootPath, "description") /\ Says(A, 5, ImagePath("splash"), "description")
        /\ Says(A, 11, ImagePath("recoverysplash"), "description") /\ Says(A, 17, ImagePath("rootfs"), "description")
    BY <1>3, <1>4, <1>5, <1>18, Zenon
  <2>3. RootPath # ImagePath("splash") /\ RootPath # ImagePath("recoverysplash") /\ RootPath # ImagePath("rootfs")
    BY <1>8, Zenon
  <2> QED
    BY <2>1, <2>2, <2>3, HitAmongFour
<1>11. Hits(A, RootPath, "compatible") = {3}
  <2>1. 3 \in DOMAIN A /\ \A x \in DOMAIN A : A[x].name = "compatible" => x = 3
    BY <1>7, <1>9
  <2>2. Says(A, 3, RootPath, "compatible")
    BY <1>3, Zenon
  <2> QED
    BY <2>1, <2>2, HitAlone
<1>12. Hits(A, RootPath, "inmusic,devices") = {4}
  <2>1. 4 \in DOMAIN A /\ \A x \in DOMAIN A : A[x].name = "inmusic,devices" => x = 4
    BY <1>7, <1>9
  <2>2. Says(A, 4, RootPath, "inmusic,devices")
    BY <1>3, Zenon
  <2> QED
    <3>1. PICK name : name = "inmusic,devices"
      OBVIOUS
    <3>2. /\ 4 \in DOMAIN A /\ Says(A, 4, RootPath, name)
          /\ \A x \in DOMAIN A : A[x].name = name => x = 4
      BY <2>1, <2>2, <3>1, Zenon
    <3>3. Hits(A, RootPath, name) = {4}
      BY <3>2, HitAlone
    <3> QED
      BY <3>1, <3>3, Zenon
<1>13. Hits(A, ImagePath("splash"), "data") = {7}
  <2>1. 7 \in DOMAIN A /\ \A x \in DOMAIN A : A[x].name = "data" => x \in {7, 13, 19}
    BY <1>7, <1>9
  <2>2. /\ Says(A, 7, ImagePath("splash"), "data") /\ Says(A, 13, ImagePath("recoverysplash"), "data")
        /\ Says(A, 19, ImagePath("rootfs"), "data")
    BY <1>3, <1>4, <1>5, <1>18, Zenon
  <2>3. ImagePath("splash") # ImagePath("recoverysplash") /\ ImagePath("splash") # ImagePath("rootfs")
    BY <1>8, Zenon
  <2> QED
    BY <2>1, <2>2, <2>3, HitAmongThree
<1>14. Hits(A, ImagePath("recoverysplash"), "data") = {13}
  <2>1. 13 \in DOMAIN A /\ \A x \in DOMAIN A : A[x].name = "data" => x \in {13, 7, 19}
    BY <1>7, <1>9
  <2>2. /\ Says(A, 13, ImagePath("recoverysplash"), "data") /\ Says(A, 7, ImagePath("splash"), "data")
        /\ Says(A, 19, ImagePath("rootfs"), "data")
    BY <1>3, <1>4, <1>5, <1>18, Zenon
  <2>3. ImagePath("recoverysplash") # ImagePath("splash") /\ ImagePath("recoverysplash") # ImagePath("rootfs")
    BY <1>8, Zenon
  <2> QED
    BY <2>1, <2>2, <2>3, HitAmongThree
<1>15. Hits(A, ImagePath("rootfs"), "data") = {19}
  <2>1. 19 \in DOMAIN A /\ \A x \in DOMAIN A : A[x].name = "data" => x \in {19, 7, 13}
    BY <1>7, <1>9
  <2>2. /\ Says(A, 19, ImagePath("rootfs"), "data") /\ Says(A, 7, ImagePath("splash"), "data")
        /\ Says(A, 13, ImagePath("recoverysplash"), "data")
    BY <1>3, <1>4, <1>5, <1>18, Zenon
  <2>3. ImagePath("rootfs") # ImagePath("splash") /\ ImagePath("rootfs") # ImagePath("recoverysplash")
    BY <1>8, Zenon
  <2> QED
    BY <2>1, <2>2, <2>3, HitAmongThree
<1>16. Hits(A, HashPath("splash"), "value") = {9}
  <2>1. 9 \in DOMAIN A /\ \A x \in DOMAIN A : A[x].name = "value" => x \in {9, 15, 21}
    BY <1>7, <1>9
  <2>2. /\ Says(A, 9, HashPath("splash"), "value") /\ Says(A, 15, HashPath("recoverysplash"), "value")
        /\ Says(A, 21, HashPath("rootfs"), "value")
    BY <1>3, <1>4, <1>5, <1>18, Zenon
  <2>3. HashPath("splash") # HashPath("recoverysplash") /\ HashPath("splash") # HashPath("rootfs")
    BY <1>8, Zenon
  <2> QED
    BY <2>1, <2>2, <2>3, HitAmongThree
<1>17. Hits(A, HashPath("recoverysplash"), "value") = {15}
  <2>1. 15 \in DOMAIN A /\ \A x \in DOMAIN A : A[x].name = "value" => x \in {15, 9, 21}
    BY <1>7, <1>9
  <2>2. /\ Says(A, 15, HashPath("recoverysplash"), "value") /\ Says(A, 9, HashPath("splash"), "value")
        /\ Says(A, 21, HashPath("rootfs"), "value")
    BY <1>3, <1>4, <1>5, <1>18, Zenon
  <2>3. HashPath("recoverysplash") # HashPath("splash") /\ HashPath("recoverysplash") # HashPath("rootfs")
    BY <1>8, Zenon
  <2> QED
    BY <2>1, <2>2, <2>3, HitAmongThree
<1>19. /\ GetBytes(A, RootPath, "description") = A[2].value
       /\ GetBytes(A, RootPath, "compatible") = A[3].value
       /\ GetBytes(A, RootPath, "inmusic,devices") = A[4].value
       /\ GetBytes(A, ImagePath("splash"), "data") = A[7].value
       /\ GetBytes(A, ImagePath("recoverysplash"), "data") = A[13].value
       /\ GetBytes(A, ImagePath("rootfs"), "data") = A[19].value
       /\ GetBytes(A, HashPath("splash"), "value") = A[9].value
       /\ GetBytes(A, HashPath("recoverysplash"), "value") = A[15].value
  <2>1. HasBytes(A, RootPath, "description") /\ GetBytes(A, RootPath, "description") = A[2].value
    BY <1>9, <1>10, OnlyHit
  <2>2. HasBytes(A, RootPath, "compatible") /\ GetBytes(A, RootPath, "compatible") = A[3].value
    BY <1>9, <1>11, OnlyHit
  <2>3. HasBytes(A, RootPath, "inmusic,devices") /\ GetBytes(A, RootPath, "inmusic,devices") = A[4].value
    <3>1. PICK name : name = "inmusic,devices"
      OBVIOUS
    <3>2. Hits(A, RootPath, name) = {4}
      BY <1>12, <3>1, Zenon
    <3>3. HasBytes(A, RootPath, name) /\ GetBytes(A, RootPath, name) = A[4].value
      BY <1>9, <3>2, OnlyHit
    <3> QED
      BY <3>1, <3>3, Zenon
  <2>4. HasBytes(A, ImagePath("splash"), "data") /\ GetBytes(A, ImagePath("splash"), "data") = A[7].value
    BY <1>9, <1>13, OnlyHit
  <2>5. HasBytes(A, ImagePath("recoverysplash"), "data") /\ GetBytes(A, ImagePath("recoverysplash"), "data") = A[13].value
    BY <1>9, <1>14, OnlyHit
  <2>6. HasBytes(A, ImagePath("rootfs"), "data") /\ GetBytes(A, ImagePath("rootfs"), "data") = A[19].value
    BY <1>9, <1>15, OnlyHit
  <2>7. HasBytes(A, HashPath("splash"), "value") /\ GetBytes(A, HashPath("splash"), "value") = A[9].value
    BY <1>9, <1>16, OnlyHit
  <2>8. HasBytes(A, HashPath("recoverysplash"), "value") /\ GetBytes(A, HashPath("recoverysplash"), "value") = A[15].value
    BY <1>9, <1>17, OnlyHit
  <2> QED
    BY <2>1, <2>2, <2>3, <2>4, <2>5, <2>6, <2>7, <2>8, Zenon
<1>20. HasImages(A)
  <2>1. HasBytes(A, ImagePath("splash"), "data")
    BY <1>9, <1>13, OnlyHit
  <2>2. HasBytes(A, ImagePath("recoverysplash"), "data")
    BY <1>9, <1>14, OnlyHit
  <2>3. HasBytes(A, ImagePath("rootfs"), "data")
    BY <1>9, <1>15, OnlyHit
  <2> QED
    BY <2>1, <2>2, <2>3, Zenon DEF HasImages, ImageNames
<1>21. SaysParts(A, meta, splash, recovery, rootfs)
  <2>1. /\ A[2].value = meta.description /\ A[3].value = meta.compatible
        /\ A[4].value = meta.devices
    BY <1>3, Zenon
  <2>2. /\ A[7].value = splash /\ A[9].value = Hash(splash)
        /\ A[13].value = recovery /\ A[15].value = Hash(recovery) /\ A[19].value = rootfs
    BY <1>4, <1>5, <1>18, Zenon
  <2>3. /\ ImageData(A, "splash") = splash /\ ImageData(A, "recoverysplash") = recovery
        /\ ImageData(A, "rootfs") = rootfs
    BY <1>19, <2>2, Zenon DEF ImageData
  <2> QED
    BY <1>19, <1>20, <2>1, <2>2, <2>3, Zenon DEF SaysParts
<1> QED
  BY <1>1, <1>21, Zenon

\* What nam_fit_build writes (fit_image.c:384), nam_fit_parse accepts and its
\* getters give back: for any metadata and any images.
THEOREM WrittenIsRead ==
  \A meta, splash, recovery, rootfs :
    LET image == Build(meta, splash, recovery, rootfs)
    IN  /\ Parses(image)
        /\ SaysParts(Props(image), meta, splash, recovery, rootfs)
BY BuildIsRead, BuildSays
===============================================================================
