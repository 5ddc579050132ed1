---------------------------- MODULE FormatsProofs ---------------------------
(***************************************************************************)
(* For messages of any length SHA-256 has and any cut, blobs of up to      *)
(* sixteen sections of any size, and requests with any limits of their     *)
(* numbers, texts and songs: a digest covers the standard message, a blob  *)
(* that is accepted is one somebody encoded and its sections share no      *)
(* byte, and a request keeps its meaning in every document made of it.     *)
(***************************************************************************)
EXTENDS FormatsMC, SequenceTheorems, FiniteSetTheorems, WellFoundedInduction, TLAPS

-----------------------------------------------------------------------------
(* Concatenation of a sequence of sequences.                               *)
(***************************************************************************)

(* A nonempty set of numbers has a least one.                              *)
LEMMA LeastNumber ==
  ASSUME NEW T \in SUBSET Nat, T # {}
  PROVE  \E x \in T : \A y \in T : x <= y
<1> DEFINE R == OpToRel(<, Nat)
<1>1. PICK x \in T : \A y \in T : ~(<<y, x>> \in R)
  BY NatLessThanWellFounded, WFMin
<1>2. \A a, b \in Nat : a < b => <<a, b>> \in R
  BY Zenon DEF OpToRel
<1>3. \A y \in T : ~(y < x)
  BY <1>1, <1>2
<1> QED
  BY <1>3

(* The function FlattenSeq chooses.                                        *)
Flattens(f, n, s) == f = [i \in 1 .. n |-> IF i = 1 THEN s[i] ELSE f[i - 1] \o s[i]]

LEMMA FlattensAt ==
  ASSUME NEW f, NEW n, NEW s, Flattens(f, n, s), NEW i \in 1 .. n
  PROVE  f[i] = IF i = 1 THEN s[i] ELSE f[i - 1] \o s[i]
<1> DEFINE h(j) == IF j = 1 THEN s[j] ELSE f[j - 1] \o s[j]
<1>1. f = [j \in 1 .. n |-> h(j)]
  BY DEF Flattens
<1> HIDE DEF h
<1>2. f[i] = h(i)
  BY <1>1
<1> QED
  BY <1>2 DEF h

LEMMA FlattensPrefix ==
  ASSUME NEW n \in Nat, NEW m \in Nat, NEW s, NEW t, NEW f, NEW g, n <= m,
         \A i \in 1 .. n : s[i] = t[i], Flattens(f, n, s), Flattens(g, m, t)
  PROVE  \A i \in 1 .. n : f[i] = g[i]
<1> DEFINE T == {i \in 1 .. n : f[i] # g[i]}
<1> SUFFICES ASSUME T # {} PROVE FALSE
  OBVIOUS
<1>0. T \in SUBSET Nat
  OBVIOUS
<1>1. PICK x \in T : \A y \in T : x <= y
  <2> HIDE DEF T
  <2> QED
    BY <1>0, LeastNumber
<1>2. x \in 1 .. n /\ x \in 1 .. m /\ f[x] # g[x]
  BY <1>1
<1>3. f[x] = IF x = 1 THEN s[x] ELSE f[x - 1] \o s[x]
  BY <1>2, FlattensAt
<1>4. g[x] = IF x = 1 THEN t[x] ELSE g[x - 1] \o t[x]
  BY <1>2, FlattensAt
<1>5. x # 1 /\ f[x - 1] # g[x - 1]
  BY <1>2, <1>3, <1>4
<1>6. x - 1 \in T /\ ~(x <= x - 1)
  BY <1>2, <1>5
<1> QED
  BY <1>1, <1>6

LEMMA FlattensExtends ==
  ASSUME NEW n \in Nat, NEW s, NEW f, Flattens(f, n, s)
  PROVE  \E g : Flattens(g, n + 1, s)
<1> DEFINE h(j) == IF j = 1 THEN s[j] ELSE f[j - 1] \o s[j]
           g == [j \in 1 .. n + 1 |-> h(j)]
<1>1. \A j \in 1 .. n : f[j] = h(j)
  BY FlattensAt
<1>2. \A j \in 1 .. n + 1 : g[j] = h(j)
  OBVIOUS
<1>3. \A j \in 1 .. n : f[j] = g[j]
  <2> HIDE DEF h, g
  <2> QED
    BY <1>1, <1>2
<1>4. \A j \in 1 .. n + 1 : h(j) = IF j = 1 THEN s[j] ELSE g[j - 1] \o s[j]
  <2> SUFFICES ASSUME NEW j \in 1 .. n + 1, j # 1 PROVE f[j - 1] = g[j - 1]
    OBVIOUS
  <2>1. j - 1 \in 1 .. n
    OBVIOUS
  <2> QED
    BY <2>1, <1>3
<1>5. g = [j \in 1 .. n + 1 |-> IF j = 1 THEN s[j] ELSE g[j - 1] \o s[j]]
  <2> DEFINE e(j) == IF j = 1 THEN s[j] ELSE g[j - 1] \o s[j]
  <2>1. \A j \in 1 .. n + 1 : h(j) = e(j)
    BY <1>4
  <2>2. g = [j \in 1 .. n + 1 |-> h(j)]
    OBVIOUS
  <2> HIDE DEF h, e, g
  <2>3. g = [j \in 1 .. n + 1 |-> e(j)]
    BY <2>1, <2>2
  <2> QED
    BY <2>3 DEF e
<1> QED
  BY <1>5 DEF Flattens

LEMMA FlattensExists ==
  ASSUME NEW n \in Nat, NEW s
  PROVE  \E f : Flattens(f, n, s)
<1> DEFINE T == {m \in Nat : ~\E f : Flattens(f, m, s)}
<1> SUFFICES ASSUME T # {} PROVE FALSE
  OBVIOUS
<1>1. PICK x \in T : \A y \in T : x <= y
  BY LeastNumber
<1>2. x # 0
  <2> DEFINE f == [i \in 1 .. 0 |-> s]
  <2>1. f = [i \in 1 .. 0 |-> IF i = 1 THEN s[i] ELSE f[i - 1] \o s[i]]
    OBVIOUS
  <2> QED
    BY <2>1, <1>1 DEF Flattens
<1>3. x - 1 \in Nat /\ (x - 1) + 1 = x /\ x - 1 \notin T
  BY <1>1, <1>2
<1>4. PICK f : Flattens(f, x - 1, s)
  BY <1>3
<1>5. \E g : Flattens(g, x, s)
  BY <1>3, <1>4, FlattensExtends
<1> QED
  BY <1>1, <1>5

LEMMA FlattenIs ==
  ASSUME NEW s, Len(s) \in Nat \ {0}
  PROVE  \E f : Flattens(f, Len(s), s) /\ Digest!FlattenSeq(s) = f[Len(s)]
<1> DEFINE g == CHOOSE f : Flattens(f, Len(s), s)
<1>1. Flattens(g, Len(s), s)
  BY FlattensExists
<1>2. Digest!FlattenSeq(s) = g[Len(s)]
  BY DEF Digest!FlattenSeq, Flattens
<1> QED
  BY <1>1, <1>2

(* Both formats flatten alike.                                             *)
LEMMA SameFlatten ==
  ASSUME NEW s
  PROVE  Envelope!FlattenSeq(s) = Digest!FlattenSeq(s)
BY DEF Digest!FlattenSeq, Envelope!FlattenSeq

LEMMA FlattenEmpty == Digest!FlattenSeq(<<>>) = <<>>
BY DEF Digest!FlattenSeq

LEMMA FlattenType ==
  ASSUME NEW A, NEW s \in Seq(Seq(A))
  PROVE  Digest!FlattenSeq(s) \in Seq(A)
<1>1. CASE Len(s) = 0
  <2>1. s = <<>>
    BY <1>1
  <2>2. <<>> \in Seq(A)
    OBVIOUS
  <2>3. Digest!FlattenSeq(s) = Digest!FlattenSeq(<<>>)
    BY <2>1
  <2> QED
    BY <2>2, <2>3, FlattenEmpty
<1>2. CASE Len(s) # 0
  <2>1. Len(s) \in Nat \ {0}
    BY <1>2
  <2>2. PICK f : Flattens(f, Len(s), s) /\ Digest!FlattenSeq(s) = f[Len(s)]
    BY <2>1, FlattenIs
  <2> DEFINE T == {i \in 1 .. Len(s) : f[i] \notin Seq(A)}
  <2>3. ASSUME T # {} PROVE FALSE
    <3>0. T \in SUBSET Nat
      OBVIOUS
    <3>1. PICK x \in T : \A y \in T : x <= y
      <4> HIDE DEF T
      <4> QED
        BY <2>3, <3>0, LeastNumber
    <3>2. x \in 1 .. Len(s) /\ f[x] \notin Seq(A) /\ s[x] \in Seq(A)
      BY <3>1
    <3>3. f[x] = IF x = 1 THEN s[x] ELSE f[x - 1] \o s[x]
      BY <2>2, <3>2, FlattensAt
    <3>4. x # 1 /\ f[x - 1] \notin Seq(A)
      BY <3>2, <3>3, ConcatProperties
    <3>5. x - 1 \in T /\ ~(x <= x - 1)
      BY <3>2, <3>4
    <3> QED
      BY <3>1, <3>5
  <2> QED
    BY <2>1, <2>2, <2>3
<1> QED
  BY <1>1, <1>2

LEMMA FlattensFirst ==
  ASSUME NEW t, NEW g, Flattens(g, 1, t)
  PROVE  g[1] = t[1]
<1>1. g[1] = IF 1 = 1 THEN t[1] ELSE g[1 - 1] \o t[1]
  BY FlattensAt
<1> QED
  BY <1>1

LEMMA FlattenAppend ==
  ASSUME NEW A, NEW s \in Seq(Seq(A)), NEW x \in Seq(A)
  PROVE  Digest!FlattenSeq(Append(s, x)) = Digest!FlattenSeq(s) \o x
<1> SUFFICES ASSUME NEW t, t = Append(s, x), NEW n, n = Len(s)
             PROVE  Digest!FlattenSeq(t) = Digest!FlattenSeq(s) \o x
  OBVIOUS
<1>1. /\ n \in Nat /\ Len(t) = n + 1 /\ t[n + 1] = x
      /\ \A i \in 1 .. n : s[i] = t[i]
  OBVIOUS
<1>2. PICK g : Flattens(g, n + 1, t) /\ Digest!FlattenSeq(t) = g[n + 1]
  <2>1. Len(t) \in Nat \ {0}
    BY <1>1
  <2> QED
    BY <2>1, <1>1, FlattenIs
<1>3. CASE n = 0
  <2>1. s = <<>> /\ n + 1 = 1
    BY <1>1, <1>3
  <2>2. g[1] = x
    BY <1>1, <1>2, <2>1, FlattensFirst
  <2>3. <<>> \o x = x
    BY ConcatEmptySeq
  <2> QED
    BY <1>2, <2>1, <2>2, <2>3, FlattenEmpty
<1>4. CASE n # 0
  <2>1. PICK f : Flattens(f, n, s) /\ Digest!FlattenSeq(s) = f[n]
    BY <1>1, <1>4, FlattenIs
  <2>2. PICK m : m = n + 1
    OBVIOUS
  <2>3. /\ n \in Nat \ {0} /\ m \in Nat /\ n <= m /\ m - 1 = n /\ m # 1
        /\ m \in 1 .. m /\ n \in 1 .. n /\ Flattens(g, m, t)
    BY <1>1, <1>2, <1>4, <2>2
  <2>4. \A i \in 1 .. n : f[i] = g[i]
    BY ONLY <1>1, <2>1, <2>3, FlattensPrefix
  <2>5. g[m] = IF m = 1 THEN t[m] ELSE g[m - 1] \o t[m]
    <3>1. Flattens(g, m, t) /\ m \in 1 .. m
      BY ONLY <2>3
    <3> QED
      BY ONLY <3>1, FlattensAt
  <2> QED
    BY <1>1, <1>2, <2>1, <2>2, <2>3, <2>4, <2>5
<1> QED
  BY <1>3, <1>4


(* Length and concatenation under names of their own: the prover turns an  *)
(* equality of lengths or of concatenations into one of functions.         *)
Length(s) == Len(s)
Joined(s, t) == s \o t

LEMMA LengthType ==
  ASSUME NEW S, NEW s, s \in Seq(S)
  PROVE  Length(s) \in Nat /\ (Length(s) = 0 <=> s = <<>>)
BY DEF Length

LEMMA LengthOfNone ==
  ASSUME NEW S
  PROVE  <<>> \in Seq(S) /\ Length(<<>>) = 0
BY DEF Length

LEMMA LengthOfOne ==
  ASSUME NEW S, NEW x \in S
  PROVE  <<x>> \in Seq(S) /\ Length(<<x>>) = 1
BY DEF Length

LEMMA LengthOfFunction ==
  ASSUME NEW S, NEW n \in Nat, NEW f \in [1 .. n -> S]
  PROVE  f \in Seq(S) /\ Length(f) = n
<1>1. f \in Seq(S)
  OBVIOUS
<1>2. DOMAIN f = 1 .. n
  OBVIOUS
<1>3. Len(f) = n
  BY <1>1, <1>2
<1> QED
  BY <1>1, <1>3 DEF Length

LEMMA LengthAppend ==
  ASSUME NEW S, NEW s, NEW x, s \in Seq(S), x \in S
  PROVE  Append(s, x) \in Seq(S) /\ Length(Append(s, x)) = Length(s) + 1
BY AppendProperties DEF Length

LEMMA SameElements ==
  ASSUME NEW S, NEW s, NEW t, s \in Seq(S), t \in Seq(S), Length(s) = Length(t),
         \A i \in 1 .. Length(s) : s[i] = t[i]
  PROVE  s = t
BY SeqEqual DEF Length

LEMMA JoinedType ==
  ASSUME NEW S, NEW s, NEW t, s \in Seq(S), t \in Seq(S)
  PROVE  Joined(s, t) \in Seq(S) /\ Length(Joined(s, t)) = Length(s) + Length(t)
BY ConcatProperties DEF Joined, Length

LEMMA JoinedAt ==
  ASSUME NEW S, NEW s, NEW t, s \in Seq(S), t \in Seq(S),
         NEW i \in 1 .. Length(s) + Length(t)
  PROVE  Joined(s, t)[i] = IF i <= Length(s) THEN s[i] ELSE t[i - Length(s)]
BY ConcatProperties DEF Joined, Length

LEMMA JoinedEmpty ==
  ASSUME NEW S, NEW s, s \in Seq(S)
  PROVE  Joined(s, <<>>) = s /\ Joined(<<>>, s) = s
BY ConcatEmptySeq DEF Joined

LEMMA JoinedAssociates ==
  ASSUME NEW S, NEW s, NEW t, NEW u, s \in Seq(S), t \in Seq(S), u \in Seq(S)
  PROVE  Joined(Joined(s, t), u) = Joined(s, Joined(t, u))
BY ConcatAssociative DEF Joined

LEMMA ThreeParts ==
  ASSUME NEW S, NEW s, NEW t, NEW u, s \in Seq(S), t \in Seq(S), u \in Seq(S)
  PROVE  /\ Joined(s, t) \in Seq(S) /\ Joined(Joined(s, t), u) \in Seq(S)
         /\ Length(Joined(Joined(s, t), u)) = Length(s) + Length(t) + Length(u)
<1>1. Joined(s, t) \in Seq(S) /\ Length(Joined(s, t)) = Length(s) + Length(t)
  BY JoinedType
<1>2. /\ Joined(Joined(s, t), u) \in Seq(S)
      /\ Length(Joined(Joined(s, t), u)) = Length(Joined(s, t)) + Length(u)
  BY <1>1, JoinedType
<1> QED
  BY <1>1, <1>2

LEMMA FlattenJoins ==
  ASSUME NEW A, NEW s, NEW x, s \in Seq(Seq(A)), x \in Seq(A)
  PROVE  Digest!FlattenSeq(Append(s, x)) = Joined(Digest!FlattenSeq(s), x)
BY FlattenAppend DEF Joined

LEMMA SplitAt ==
  ASSUME NEW S, NEW p, p \in Seq(S), NEW k, k \in 0 .. Length(p)
  PROVE  /\ SubSeq(p, 1, k) \in Seq(S) /\ Length(SubSeq(p, 1, k)) = k
         /\ SubSeq(p, k + 1, Len(p)) \in Seq(S)
         /\ Length(SubSeq(p, k + 1, Len(p))) = Length(p) - k
         /\ Joined(SubSeq(p, 1, k), SubSeq(p, k + 1, Len(p))) = p
<1>1. Len(p) \in Nat /\ k \in 0 .. Len(p) /\ Length(p) = Len(p)
  BY DEF Length
<1>2. \A i \in 1 .. k : p[i] \in S
  BY <1>1
<1>3. \A i \in k + 1 .. Len(p) : p[i] \in S
  BY <1>1
<1>4. 1 \in Int /\ k \in Int /\ k + 1 \in Int /\ Len(p) \in Int
  BY <1>1
<1>5. SubSeq(p, 1, k) \in Seq(S) /\ Len(SubSeq(p, 1, k)) = IF 1 <= k THEN k - 1 + 1 ELSE 0
  BY ONLY <1>2, <1>4, SubSeqProperties
<1>6. /\ SubSeq(p, k + 1, Len(p)) \in Seq(S)
      /\ Len(SubSeq(p, k + 1, Len(p))) = IF k + 1 <= Len(p) THEN Len(p) - (k + 1) + 1 ELSE 0
  BY ONLY <1>3, <1>4, SubSeqProperties
<1>7. Length(SubSeq(p, 1, k)) = k
  BY <1>1, <1>5 DEF Length
<1>8. Length(SubSeq(p, k + 1, Len(p))) = Length(p) - k
  BY <1>1, <1>6 DEF Length
<1>9. /\ 1 \in 1 .. Len(p) + 1 /\ k \in 1 - 1 .. Len(p) /\ Len(p) \in k .. Len(p)
      /\ p \in Seq(S)
  BY <1>1
<1>10. SubSeq(p, 1, k) \o SubSeq(p, k + 1, Len(p)) = SubSeq(p, 1, Len(p))
  BY ONLY <1>9, ConcatAdjacentSubSeq
<1>11. SubSeq(p, 1, Len(p)) = p
  BY SubSeqFull
<1> QED
  BY ONLY <1>5, <1>6, <1>7, <1>8, <1>10, <1>11 DEF Joined

-----------------------------------------------------------------------------
(* The digest.                                                             *)

Byte == ({"message"} \X Nat) \cup {Digest!Added(v) : v \in {0, 128}}
        \cup {Digest!Added(Digest!Octet(8 * n, k)) : n \in Nat, k \in 0 .. 7}

(* All bytes so far, in order, and what they have to be while finish()     *)
(* pads: no earlier byte of zero ended at the place of the length.         *)
Held == Joined(Joined(Digest!FlattenSeq(hashed), block), pending)
ZeroBytes(z) == [i \in 1 .. z |-> Digest!Added(0)]
Message(n, z) == Joined(Joined(Digest!Data(1, n), <<Digest!Added(128)>>), ZeroBytes(z))
Fits(n, z) == \A j \in 0 .. z - 1 : (n + 1 + j) % 64 # 56
LengthOf(n) == [i \in 1 .. 8 |-> Digest!Added(Digest!Octet(8 * n, 8 - i))]

HeldInv ==
  /\ stage = "feeding" => Held = Digest!Data(1, fed) /\ bits = 8 * fed
  /\ stage = "padding" =>
       original = 8 * fed /\ \E z \in Nat : Fits(fed, z) /\ Held = Message(fed, z)
  /\ stage = "padded" =>
       \E z \in Nat : /\ Fits(fed, z) /\ (fed + 1 + z) % 64 = 56
                      /\ Held = Joined(Message(fed, z), LengthOf(fed))

DigestInv ==
  /\ fed \in 0 .. MaxLength /\ stage \in {"feeding", "padding", "padded"}
  /\ hashed \in Seq(Seq(Byte)) /\ block \in Seq(Byte) /\ pending \in Seq(Byte)
  /\ \A i \in 1 .. Length(hashed) : Length(hashed[i]) = 64
  /\ Length(Digest!FlattenSeq(hashed)) = 64 * Length(hashed) /\ Length(block) < 64
  /\ HeldInv

LEMMA DataType ==
  ASSUME NEW a \in Nat, NEW b \in Nat, a <= b + 1
  PROVE  /\ Digest!Data(a, b) \in Seq(Byte) /\ Length(Digest!Data(a, b)) = b - a + 1
         /\ \A i \in 1 .. b - a + 1 : Digest!Data(a, b)[i] = <<"message", a + i - 1>>
<1> DEFINE e(i) == <<"message", a + i - 1>>
           n == b - a + 1
           d == [i \in 1 .. n |-> e(i)]
<1>1. \A i \in 1 .. n : e(i) \in Byte
  BY DEF Byte
<1>2. n \in Nat
  OBVIOUS
<1>3. d \in Seq(Byte) /\ Length(d) = n /\ \A i \in 1 .. n : d[i] = e(i)
  <2> HIDE DEF e, n
  <2>1. d \in [1 .. n -> Byte] /\ \A i \in 1 .. n : d[i] = e(i)
    BY <1>1
  <2> HIDE DEF d
  <2> QED
    BY <1>2, <2>1, LengthOfFunction
<1> QED
  BY <1>3 DEF Digest!Data

LEMMA DataGrows ==
  ASSUME NEW a \in Nat, NEW b \in Nat, a <= b
  PROVE  Joined(Digest!Data(1, a), Digest!Data(a + 1, b)) = Digest!Data(1, b)
<1> SUFFICES ASSUME NEW s, s = Digest!Data(1, a), NEW t, t = Digest!Data(a + 1, b),
                    NEW u, u = Digest!Data(1, b)
             PROVE  Joined(s, t) = u
  OBVIOUS
<1>1. /\ s \in Seq(Byte) /\ Length(s) = a /\ \A i \in 1 .. a : s[i] = <<"message", i>>
  <2>1. 1 \in Nat /\ a \in Nat /\ 1 <= a + 1 /\ a - 1 + 1 = a /\ \A i \in 1 .. a : 1 + i - 1 = i
    OBVIOUS
  <2>2. /\ Digest!Data(1, a) \in Seq(Byte) /\ Length(Digest!Data(1, a)) = a - 1 + 1
        /\ \A i \in 1 .. a - 1 + 1 : Digest!Data(1, a)[i] = <<"message", 1 + i - 1>>
    BY ONLY <2>1, DataType
  <2> QED
    BY <2>1, <2>2
<1>2. /\ t \in Seq(Byte) /\ Length(t) = b - a
      /\ \A i \in 1 .. b - a : t[i] = <<"message", a + i>>
  <2>1. /\ a + 1 \in Nat /\ b \in Nat /\ a + 1 <= b + 1 /\ b - (a + 1) + 1 = b - a
        /\ \A i \in 1 .. b - a : (a + 1) + i - 1 = a + i
    OBVIOUS
  <2>2. /\ Digest!Data(a + 1, b) \in Seq(Byte)
        /\ Length(Digest!Data(a + 1, b)) = b - (a + 1) + 1
        /\ \A i \in 1 .. b - (a + 1) + 1 :
             Digest!Data(a + 1, b)[i] = <<"message", (a + 1) + i - 1>>
    BY ONLY <2>1, DataType
  <2> QED
    BY <2>1, <2>2
<1>3. /\ u \in Seq(Byte) /\ Length(u) = b /\ \A i \in 1 .. b : u[i] = <<"message", i>>
  <2>1. 1 \in Nat /\ b \in Nat /\ 1 <= b + 1 /\ b - 1 + 1 = b /\ \A i \in 1 .. b : 1 + i - 1 = i
    OBVIOUS
  <2>2. /\ Digest!Data(1, b) \in Seq(Byte) /\ Length(Digest!Data(1, b)) = b - 1 + 1
        /\ \A i \in 1 .. b - 1 + 1 : Digest!Data(1, b)[i] = <<"message", 1 + i - 1>>
    BY ONLY <2>1, DataType
  <2> QED
    BY <2>1, <2>2
<1>4. Joined(s, t) \in Seq(Byte) /\ Length(Joined(s, t)) = b
  BY <1>1, <1>2, JoinedType
<1>5. ASSUME NEW i \in 1 .. b PROVE Joined(s, t)[i] = u[i]
  <2>1. i \in 1 .. Length(s) + Length(t)
    BY <1>1, <1>2
  <2>2. Joined(s, t)[i] = IF i <= Length(s) THEN s[i] ELSE t[i - Length(s)]
    BY <1>1, <1>2, <2>1, JoinedAt
  <2>3. u[i] = <<"message", i>>
    BY <1>3
  <2>4. i <= a => s[i] = <<"message", i>>
    BY <1>1
  <2>5. ~(i <= a) => i - a \in 1 .. b - a /\ a + (i - a) = i
    OBVIOUS
  <2>6. ~(i <= a) => t[i - a] = <<"message", i>>
    BY <1>2, <2>5
  <2> QED
    BY <1>1, <2>2, <2>3, <2>4, <2>6
<1> QED
  BY <1>3, <1>4, <1>5, SameElements

LEMMA ZeroType ==
  ASSUME NEW z \in Nat
  PROVE  /\ ZeroBytes(z) \in Seq(Byte) /\ Length(ZeroBytes(z)) = z
         /\ \A i \in 1 .. z : ZeroBytes(z)[i] = Digest!Added(0)
<1> DEFINE x == Digest!Added(0)
           d == [i \in 1 .. z |-> x]
<1>1. x \in Byte
  BY DEF Byte
<1>2. d \in Seq(Byte) /\ Length(d) = z /\ \A i \in 1 .. z : d[i] = x
  <2> HIDE DEF x
  <2>1. d \in [1 .. z -> Byte] /\ \A i \in 1 .. z : d[i] = x
    BY <1>1
  <2> HIDE DEF d
  <2> QED
    BY <2>1, LengthOfFunction
<1> QED
  BY <1>2 DEF ZeroBytes

LEMMA ZeroGrows ==
  ASSUME NEW z \in Nat
  PROVE  Joined(ZeroBytes(z), <<Digest!Added(0)>>) = ZeroBytes(z + 1)
<1> SUFFICES ASSUME NEW s, s = ZeroBytes(z), NEW u, u = ZeroBytes(z + 1),
                    NEW x, x = Digest!Added(0)
             PROVE  Joined(s, <<x>>) = u
  OBVIOUS
<1>1. x \in Byte
  BY DEF Byte
<1>2. s \in Seq(Byte) /\ Length(s) = z /\ \A i \in 1 .. z : s[i] = x
  BY ZeroType
<1>3. z + 1 \in Nat
  OBVIOUS
<1>4. u \in Seq(Byte) /\ Length(u) = z + 1 /\ \A i \in 1 .. z + 1 : u[i] = x
  BY <1>3, ZeroType
<1>5. <<x>> \in Seq(Byte) /\ Length(<<x>>) = 1 /\ <<x>>[1] = x
  BY <1>1, LengthOfOne
<1> SUFFICES ASSUME NEW one, one = <<x>> PROVE Joined(s, one) = u
  OBVIOUS
<1>6. one \in Seq(Byte) /\ Length(one) = 1 /\ one[1] = x
  BY <1>5
<1>7. Joined(s, one) \in Seq(Byte) /\ Length(Joined(s, one)) = z + 1
  <2>1. /\ s \in Seq(Byte) /\ Length(s) = z
        /\ one \in Seq(Byte) /\ Length(one) = 1
    BY <1>2, <1>6
  <2>2. Joined(s, one) \in Seq(Byte) /\ Length(Joined(s, one)) = Length(s) + Length(one)
    BY ONLY <2>1, JoinedType
  <2> QED
    BY <2>1, <2>2
<1>8. ASSUME NEW i \in 1 .. z + 1 PROVE Joined(s, one)[i] = u[i]
  <2>1. i \in 1 .. Length(s) + Length(one)
    BY <1>2, <1>6
  <2>2. Joined(s, one)[i] = IF i <= Length(s) THEN s[i] ELSE one[i - Length(s)]
    <3>1. s \in Seq(Byte) /\ one \in Seq(Byte)
      BY <1>2, <1>6
    <3> QED
      BY ONLY <3>1, <2>1, JoinedAt
  <2>3. ~(i <= z) => i - z = 1
    OBVIOUS
  <2>4. i <= z => s[i] = x
    BY <1>2
  <2>5. u[i] = x
    BY <1>4
  <2> QED
    BY <1>2, <1>6, <2>2, <2>3, <2>4, <2>5
<1> QED
  BY <1>4, <1>7, <1>8, SameElements

LEMMA LengthFieldType ==
  ASSUME NEW n \in Nat
  PROVE  LengthOf(n) \in Seq(Byte) /\ Length(LengthOf(n)) = 8
<1> DEFINE e(i) == Digest!Added(Digest!Octet(8 * n, 8 - i))
           d == [i \in 1 .. 8 |-> e(i)]
<1>1. \A i \in 1 .. 8 : e(i) \in Byte
  <2>1. \A i \in 1 .. 8 : 8 - i \in 0 .. 7
    OBVIOUS
  <2>2. ASSUME NEW k \in 0 .. 7 PROVE Digest!Added(Digest!Octet(8 * n, k)) \in Byte
    <3> DEFINE f(m, j) == Digest!Added(Digest!Octet(8 * m, j))
    <3>1. f(n, k) \in {f(m, j) : m \in Nat, j \in 0 .. 7}
      <4> HIDE DEF f
      <4> QED
        OBVIOUS
    <3>2. Byte = ({"message"} \X Nat) \cup {Digest!Added(v) : v \in {0, 128}}
                 \cup {f(m, j) : m \in Nat, j \in 0 .. 7}
      BY DEF Byte
    <3> HIDE DEF f
    <3>3. f(n, k) \in Byte
      BY <3>1, <3>2
    <3> QED
      BY <3>3 DEF f
  <2> QED
    BY <2>1, <2>2
<1>2. d \in [1 .. 8 -> Byte]
  <2> HIDE DEF e
  <2> QED
    BY <1>1
<1>3. d \in Seq(Byte) /\ Length(d) = 8
  <2> HIDE DEF d
  <2> QED
    BY <1>2, LengthOfFunction
<1> QED
  BY <1>3 DEF LengthOf

LEMMA MessageType ==
  ASSUME NEW n \in Nat, NEW z \in Nat
  PROVE  Message(n, z) \in Seq(Byte) /\ Length(Message(n, z)) = n + 1 + z
<1> SUFFICES ASSUME NEW d, d = Digest!Data(1, n), NEW x, x = <<Digest!Added(128)>>,
                    NEW o, o = ZeroBytes(z)
             PROVE  /\ Joined(Joined(d, x), o) \in Seq(Byte)
                    /\ Length(Joined(Joined(d, x), o)) = n + 1 + z
  BY DEF Message
<1>1. x \in Seq(Byte) /\ Length(x) = 1
  <2>1. Digest!Added(128) \in Byte
    BY DEF Byte
  <2> QED
    BY <2>1, LengthOfOne
<1>2. d \in Seq(Byte) /\ Length(d) = n
  <2>1. 1 \in Nat /\ 1 <= n + 1 /\ n - 1 + 1 = n
    OBVIOUS
  <2> QED
    BY <2>1, DataType
<1>3. o \in Seq(Byte) /\ Length(o) = z
  BY ZeroType
<1>4. /\ Joined(Joined(d, x), o) \in Seq(Byte)
      /\ Length(Joined(Joined(d, x), o)) = Length(d) + Length(x) + Length(o)
  BY ONLY <1>1, <1>2, <1>3, ThreeParts
<1> QED
  BY <1>1, <1>2, <1>3, <1>4

LEMMA HeldType ==
  ASSUME DigestInv
  PROVE  /\ Digest!FlattenSeq(hashed) \in Seq(Byte)
         /\ Joined(Digest!FlattenSeq(hashed), block) \in Seq(Byte) /\ Held \in Seq(Byte)
         /\ Length(Held) = 64 * Length(hashed) + Length(block) + Length(pending)
<1> SUFFICES ASSUME NEW flat, flat = Digest!FlattenSeq(hashed)
             PROVE  /\ flat \in Seq(Byte) /\ Joined(flat, block) \in Seq(Byte)
                    /\ Joined(Joined(flat, block), pending) \in Seq(Byte)
                    /\ Length(Joined(Joined(flat, block), pending))
                         = 64 * Length(hashed) + Length(block) + Length(pending)
  BY DEF Held
<1>1. flat \in Seq(Byte)
  BY FlattenType DEF DigestInv
<1>2. /\ block \in Seq(Byte) /\ pending \in Seq(Byte)
      /\ Length(flat) = 64 * Length(hashed)
  BY DEF DigestInv
<1>3. /\ Joined(flat, block) \in Seq(Byte) /\ Joined(Joined(flat, block), pending) \in Seq(Byte)
      /\ Length(Joined(Joined(flat, block), pending))
           = Length(flat) + Length(block) + Length(pending)
  BY ONLY <1>1, <1>2, ThreeParts
<1> QED
  BY <1>1, <1>2, <1>3

(* What update() is given comes after everything else.                     *)
LEMMA HeldGrows ==
  ASSUME DigestInv, pending = <<>>, UNCHANGED <<hashed, block>>
  PROVE  Held' = Joined(Held, pending')
<1>1. Joined(Digest!FlattenSeq(hashed), block) \in Seq(Byte)
  BY HeldType
<1>2. Held = Joined(Joined(Digest!FlattenSeq(hashed), block), <<>>)
  BY DEF Held
<1>3. Held = Joined(Digest!FlattenSeq(hashed), block)
  BY <1>1, <1>2, JoinedEmpty
<1>4. Held' = Joined(Joined(Digest!FlattenSeq(hashed), block), pending')
  BY DEF Held
<1> QED
  BY <1>3, <1>4

(* A turn of the loop moves the border between block and piece.            *)
LEMMA CopyMoves ==
  ASSUME NEW S, NEW h, NEW b, NEW p, NEW l, NEW r,
         h \in Seq(S), b \in Seq(S), l \in Seq(S), r \in Seq(S), Joined(l, r) = p
  PROVE  Joined(Joined(h, Joined(b, l)), r) = Joined(Joined(h, b), p)
<1>1. Joined(Joined(h, b), l) = Joined(h, Joined(b, l))
  BY JoinedAssociates
<1>2. Joined(h, b) \in Seq(S)
  BY JoinedType
<1>3. Joined(Joined(Joined(h, b), l), r) = Joined(Joined(h, b), Joined(l, r))
  BY <1>2, JoinedAssociates
<1> QED
  BY <1>1, <1>3

LEMMA DigestStart == Digest!Init => DigestInv
<1> SUFFICES ASSUME Digest!Init PROVE DigestInv
  OBVIOUS
<1>1. /\ fed = 0 /\ bits = 0 /\ stage = "feeding"
      /\ hashed = <<>> /\ block = <<>> /\ pending = <<>>
  BY DEF Digest!Init
<1>2. Digest!FlattenSeq(hashed) = <<>>
  <2>1. Digest!FlattenSeq(hashed) = Digest!FlattenSeq(<<>>)
    BY <1>1
  <2> QED
    BY <2>1, FlattenEmpty
<1>3. <<>> \in Seq(Byte) /\ <<>> \in Seq(Seq(Byte)) /\ Length(<<>>) = 0
  BY LengthOfNone
<1>4. Held = <<>>
  <2>1. Joined(<<>>, <<>>) = <<>>
    BY <1>3, JoinedEmpty
  <2>2. Held = Joined(Joined(<<>>, <<>>), <<>>)
    BY <1>1, <1>2 DEF Held
  <2> QED
    BY <2>1, <2>2
<1>5. Digest!Data(1, 0) = <<>>
  BY DEF Digest!Data
<1>6. HeldInv
  BY <1>1, <1>4, <1>5 DEF HeldInv
<1>7. 0 \in 0 .. MaxLength
  BY FormatsAssumption DEF Digest!DigestAssumption
<1> QED
  BY <1>1, <1>2, <1>3, <1>6, <1>7 DEF DigestInv

LEMMA FeedKeeps == DigestInv /\ Digest!Feed => DigestInv'
<1> SUFFICES ASSUME DigestInv, Digest!Feed PROVE DigestInv'
  OBVIOUS
<1>1. PICK n \in Pieces : /\ fed + n <= MaxLength /\ fed' = fed + n
                          /\ Digest!Update(Digest!Data(fed + 1, fed + n))
  BY DEF Digest!Feed
<1>2. n \in Nat \ {0} /\ fed \in Nat /\ MaxLength \in Nat
  BY FormatsAssumption DEF Digest!DigestAssumption, DigestInv
<1>3. /\ pending = <<>> /\ pending' = Digest!Data(fed + 1, fed + n)
      /\ bits' = (bits + 8 * Length(pending')) % CountRange
  BY <1>1 DEF Digest!Update, Length
<1>4. pending' \in Seq(Byte) /\ Length(pending') = n
  <2>1. fed + 1 \in Nat /\ fed + n \in Nat /\ fed + 1 <= (fed + n) + 1
    BY <1>2
  <2>2. /\ Digest!Data(fed + 1, fed + n) \in Seq(Byte)
        /\ Length(Digest!Data(fed + 1, fed + n)) = (fed + n) - (fed + 1) + 1
    BY ONLY <2>1, DataType
  <2> QED
    BY <1>2, <1>3, <2>2
<1>5. stage = "feeding" /\ UNCHANGED <<original, block, hashed, stage>>
  BY DEF Digest!Feed
<1>6. Held = Digest!Data(1, fed) /\ bits = 8 * fed
  BY <1>5 DEF DigestInv, HeldInv
<1>7. Held' = Digest!Data(1, fed')
  <2>1. Held' = Joined(Held, pending')
    BY <1>3, <1>5, HeldGrows
  <2>2. fed \in Nat /\ fed + n \in Nat /\ fed <= fed + n
    BY <1>2
  <2>3. Joined(Digest!Data(1, fed), Digest!Data(fed + 1, fed + n)) = Digest!Data(1, fed + n)
    BY ONLY <2>2, DataGrows
  <2> QED
    BY <1>1, <1>3, <1>6, <2>1, <2>3
<1>8. bits' = 8 * fed'
  <2>1. CountRange \in Nat /\ 8 * MaxLength < CountRange
    BY FormatsAssumption DEF Digest!DigestAssumption
  <2>2. 8 * (fed + n) \in Nat /\ 8 * (fed + n) < CountRange
    BY <1>1, <1>2, <2>1
  <2>3. (8 * (fed + n)) % CountRange = 8 * (fed + n)
    BY ONLY <2>1, <2>2
  <2>4. bits' = (8 * (fed + n)) % CountRange
    <3>1. bits + 8 * Length(pending') = 8 * (fed + n)
      BY <1>2, <1>4, <1>6
    <3> QED
      BY ONLY <1>3, <3>1
  <2> QED
    BY <1>1, <2>3, <2>4
<1>9. HeldInv'
  BY <1>5, <1>7, <1>8 DEF HeldInv
<1>10. fed' \in 0 .. MaxLength
  BY <1>1, <1>2
<1> QED
  BY <1>4, <1>5, <1>9, <1>10 DEF DigestInv

LEMMA CopyKeeps == DigestInv /\ Digest!Copy => DigestInv'
<1> SUFFICES ASSUME DigestInv, Digest!Copy PROVE DigestInv'
  OBVIOUS
<1>1. PICK take, moved, filled :
        /\ take = (IF Len(pending) < 64 - Len(block) THEN Len(pending) ELSE 64 - Len(block))
        /\ moved = SubSeq(pending, 1, take) /\ filled = Joined(block, moved)
        /\ pending # <<>> /\ pending' = SubSeq(pending, take + 1, Len(pending))
        /\ hashed' = IF Length(filled) = 64 THEN Append(hashed, filled) ELSE hashed
        /\ block' = IF Length(filled) = 64 THEN <<>> ELSE filled
        /\ UNCHANGED <<fed, bits, original, stage>>
  BY DEF Digest!Copy, Digest!BlockSize, Digest!Buffered, Joined, Length
<1>2. PICK flat : flat = Digest!FlattenSeq(hashed)
  OBVIOUS
<1>3. /\ block \in Seq(Byte) /\ pending \in Seq(Byte) /\ flat \in Seq(Byte)
      /\ hashed \in Seq(Seq(Byte)) /\ Length(block) < 64
      /\ Length(flat) = 64 * Length(hashed)
  BY <1>2, HeldType DEF DigestInv
<1>4. \A i \in 1 .. Length(hashed) : Length(hashed[i]) = 64
  BY DEF DigestInv
<1>5. /\ take \in 1 .. Length(pending) /\ take \in 0 .. Length(pending)
      /\ Length(block) + take <= 64 /\ Length(block) \in Nat /\ Length(hashed) \in Nat
  <2>1. Len(pending) = Length(pending) /\ Len(block) = Length(block)
    BY DEF Length
  <2>2. Length(pending) \in Nat \ {0} /\ Length(block) \in Nat /\ Length(hashed) \in Nat
    BY <1>1, <1>3, LengthType
  <2>3. take = IF Length(pending) < 64 - Length(block) THEN Length(pending)
               ELSE 64 - Length(block)
    BY <1>1, <2>1
  <2> QED
    BY <1>3, <2>2, <2>3
<1>6. /\ moved \in Seq(Byte) /\ Length(moved) = take /\ pending' \in Seq(Byte)
      /\ Joined(moved, pending') = pending
  <2>1. pending \in Seq(Byte) /\ take \in 0 .. Length(pending)
    BY <1>3, <1>5
  <2>2. /\ SubSeq(pending, 1, take) \in Seq(Byte) /\ Length(SubSeq(pending, 1, take)) = take
        /\ SubSeq(pending, take + 1, Len(pending)) \in Seq(Byte)
        /\ Joined(SubSeq(pending, 1, take), SubSeq(pending, take + 1, Len(pending))) = pending
    BY ONLY <2>1, SplitAt
  <2>3. moved = SubSeq(pending, 1, take) /\ pending' = SubSeq(pending, take + 1, Len(pending))
    BY <1>1
  <2> QED
    BY ONLY <2>2, <2>3
<1>7. Joined(Joined(flat, filled), pending') = Joined(Joined(flat, block), pending)
  <2>1. filled = Joined(block, moved)
    BY <1>1
  <2> QED
    BY ONLY <1>3, <1>6, <2>1, CopyMoves
<1>8. filled \in Seq(Byte) /\ Length(filled) = Length(block) + take
  <2>1. filled = Joined(block, moved)
    BY <1>1
  <2> QED
    BY ONLY <1>3, <1>6, <2>1, JoinedType
<1>9. Held = Joined(Joined(flat, block), pending)
  BY <1>2 DEF Held
<1>10. /\ hashed' \in Seq(Seq(Byte)) /\ block' \in Seq(Byte) /\ Length(block') < 64
       /\ \A i \in 1 .. Length(hashed') : Length(hashed'[i]) = 64
       /\ Length(Digest!FlattenSeq(hashed')) = 64 * Length(hashed')
       /\ Held' = Held
  <2>1. CASE Length(filled) = 64
    <3>1. hashed' = Append(hashed, filled) /\ block' = <<>>
      BY <1>1, <2>1
    <3>2. hashed' \in Seq(Seq(Byte)) /\ Length(hashed') = Length(hashed) + 1
      BY ONLY <1>3, <1>8, <3>1, LengthAppend
    <3>3. Digest!FlattenSeq(hashed') = Joined(flat, filled)
      BY ONLY <1>2, <1>3, <1>8, <3>1, FlattenJoins
    <3>4. /\ Joined(flat, filled) \in Seq(Byte)
          /\ Length(Joined(flat, filled)) = Length(flat) + Length(filled)
      BY ONLY <1>3, <1>8, JoinedType
    <3>5. Held' = Joined(Joined(Joined(flat, filled), <<>>), pending')
      BY <3>1, <3>3 DEF Held
    <3>6. Joined(Joined(flat, filled), <<>>) = Joined(flat, filled)
      BY ONLY <3>4, JoinedEmpty
    <3>7. Held' = Held
      BY ONLY <1>7, <1>9, <3>5, <3>6
    <3>8. \A i \in 1 .. Length(hashed') : Length(hashed'[i]) = 64
      <4>1. hashed \in Seq(Seq(Byte)) /\ filled \in Seq(Byte)
        BY <1>3, <1>8
      <4>2. /\ Len(hashed) \in Nat /\ \A i \in 1 .. Len(hashed) : hashed'[i] = hashed[i]
            /\ hashed'[Len(hashed) + 1] = filled
        BY ONLY <3>1, <4>1, AppendProperties
      <4>3. Length(hashed) = Len(hashed)
        BY DEF Length
      <4>4. ASSUME NEW i \in 1 .. Length(hashed') PROVE Length(hashed'[i]) = 64
        <5>1. i \in 1 .. Len(hashed) \/ i = Len(hashed) + 1
          BY ONLY <3>2, <4>2, <4>3, <4>4
        <5> QED
          BY ONLY <1>4, <2>1, <4>2, <4>3, <5>1
      <4> QED
        BY <4>4
    <3>9. Length(Digest!FlattenSeq(hashed')) = 64 * Length(hashed')
      BY ONLY <1>3, <1>5, <2>1, <3>2, <3>3, <3>4
    <3>10. block' \in Seq(Byte) /\ Length(block') < 64
      BY <3>1, LengthOfNone
    <3> QED
      BY ONLY <3>2, <3>7, <3>8, <3>9, <3>10
  <2>2. CASE Length(filled) # 64
    <3>1. hashed' = hashed /\ block' = filled
      BY <1>1, <2>2
    <3>2. Length(block') < 64
      BY ONLY <1>3, <1>5, <1>8, <2>2, <3>1
    <3>3. Held' = Joined(Joined(flat, filled), pending')
      BY <1>2, <3>1 DEF Held
    <3> QED
      BY ONLY <1>2, <1>3, <1>4, <1>7, <1>8, <1>9, <3>1, <3>2, <3>3
  <2> QED
    BY ONLY <2>1, <2>2
<1>11. HeldInv'
  <2>1. HeldInv /\ UNCHANGED <<fed, bits, original, stage>> /\ Held' = Held
    BY <1>1, <1>10 DEF DigestInv
  <2> QED
    BY ONLY <2>1 DEF HeldInv
<1>12. fed' \in 0 .. MaxLength /\ stage' \in {"feeding", "padding", "padded"}
  BY <1>1 DEF DigestInv
<1> QED
  BY ONLY <1>6, <1>10, <1>11, <1>12 DEF DigestInv

LEMMA OneByte ==
  ASSUME NEW v \in {0, 128}
  PROVE  <<Digest!Added(v)>> \in Seq(Byte) /\ Length(<<Digest!Added(v)>>) = 1
<1> SUFFICES ASSUME NEW x, x = Digest!Added(v)
             PROVE  <<x>> \in Seq(Byte) /\ Length(<<x>>) = 1
  OBVIOUS
<1>1. x \in Byte
  BY DEF Byte
<1> QED
  BY <1>1, LengthOfOne

LEMMA MessageStarts ==
  ASSUME NEW n \in Nat
  PROVE  Joined(Digest!Data(1, n), <<Digest!Added(128)>>) = Message(n, 0)
<1> SUFFICES ASSUME NEW d, d = Digest!Data(1, n), NEW x, x = <<Digest!Added(128)>>
             PROVE  Joined(d, x) = Joined(Joined(d, x), ZeroBytes(0))
  BY DEF Message
<1>1. d \in Seq(Byte)
  <2>1. 1 \in Nat /\ 1 <= n + 1
    OBVIOUS
  <2> QED
    BY <2>1, DataType
<1>2. x \in Seq(Byte)
  BY OneByte
<1>3. Joined(d, x) \in Seq(Byte)
  BY <1>1, <1>2, JoinedType
<1>4. ZeroBytes(0) = <<>>
  BY ZeroType, LengthType
<1> QED
  BY <1>3, <1>4, JoinedEmpty

LEMMA MessageGrows ==
  ASSUME NEW n \in Nat, NEW z \in Nat
  PROVE  Joined(Message(n, z), <<Digest!Added(0)>>) = Message(n, z + 1)
<1> SUFFICES ASSUME NEW d, d = Joined(Digest!Data(1, n), <<Digest!Added(128)>>),
                    NEW x, x = <<Digest!Added(0)>>
             PROVE  Joined(Joined(d, ZeroBytes(z)), x) = Joined(d, ZeroBytes(z + 1))
  BY DEF Message
<1>1. Digest!Data(1, n) \in Seq(Byte)
  <2>1. 1 \in Nat /\ 1 <= n + 1
    OBVIOUS
  <2> QED
    BY <2>1, DataType
<1>2. <<Digest!Added(128)>> \in Seq(Byte) /\ x \in Seq(Byte)
  BY OneByte
<1>3. d \in Seq(Byte)
  BY <1>1, <1>2, JoinedType
<1>4. ZeroBytes(z) \in Seq(Byte)
  BY ZeroType
<1>5. Joined(Joined(d, ZeroBytes(z)), x) = Joined(d, Joined(ZeroBytes(z), x))
  BY ONLY <1>2, <1>3, <1>4, JoinedAssociates
<1>6. Joined(ZeroBytes(z), x) = ZeroBytes(z + 1)
  BY ZeroGrows
<1> QED
  BY ONLY <1>5, <1>6

LEMMA BlockRemainder ==
  ASSUME NEW h \in Nat, NEW b \in Nat, b < 64, NEW n, n = 64 * h + b
  PROVE  n % 64 = b
OBVIOUS

(* Between two updates the length says where the block ends.               *)
LEMMA BlockEnds ==
  ASSUME DigestInv, pending = <<>>
  PROVE  /\ Length(block) \in Nat /\ Length(hashed) \in Nat
         /\ Length(Held) = 64 * Length(hashed) + Length(block)
         /\ Length(Held) % 64 = Length(block)
<1>1. block \in Seq(Byte) /\ hashed \in Seq(Seq(Byte)) /\ Length(block) < 64
  BY DEF DigestInv
<1>2. Length(block) \in Nat /\ Length(hashed) \in Nat
  BY ONLY <1>1, LengthType
<1>3. Length(pending) = 0
  <2>1. Length(<<>>) = 0
    BY LengthOfNone
  <2> QED
    BY <2>1
<1>4. Length(Held) = 64 * Length(hashed) + Length(block) + Length(pending)
  BY HeldType
<1>5. Length(Held) = 64 * Length(hashed) + Length(block)
  BY ONLY <1>2, <1>3, <1>4
<1>6. Length(Held) % 64 = Length(block)
  BY ONLY <1>1, <1>2, <1>5, BlockRemainder
<1> QED
  BY ONLY <1>2, <1>5, <1>6

LEMMA FinishKeeps == DigestInv /\ Digest!Finish => DigestInv'
<1> SUFFICES ASSUME DigestInv, Digest!Finish PROVE DigestInv'
  OBVIOUS
<1>1. /\ stage = "feeding" /\ pending = <<>> /\ pending' = <<Digest!Added(128)>>
      /\ original' = bits /\ stage' = "padding" /\ UNCHANGED <<fed, block, hashed>>
  BY DEF Digest!Finish, Digest!Update, Digest!OriginalBits
<1>2. Held = Digest!Data(1, fed) /\ bits = 8 * fed /\ fed \in Nat
  BY <1>1 DEF DigestInv, HeldInv
<1>3. Held' = Message(fed, 0)
  <2>1. Held' = Joined(Held, pending')
    BY <1>1, HeldGrows
  <2>2. Joined(Digest!Data(1, fed), <<Digest!Added(128)>>) = Message(fed, 0)
    BY <1>2, MessageStarts
  <2> QED
    BY ONLY <1>1, <1>2, <2>1, <2>2
<1>4. Fits(fed, 0)
  BY DEF Fits
<1>5. HeldInv'
  BY <1>1, <1>2, <1>3, <1>4 DEF HeldInv, Fits
<1>6. pending' \in Seq(Byte)
  BY <1>1, OneByte
<1> QED
  BY <1>1, <1>5, <1>6 DEF DigestInv

LEMMA PadZeroKeeps == DigestInv /\ Digest!PadZero => DigestInv'
<1> SUFFICES ASSUME DigestInv, Digest!PadZero PROVE DigestInv'
  OBVIOUS
<1>1. /\ stage = "padding" /\ pending = <<>> /\ pending' = <<Digest!Added(0)>>
      /\ Length(block) # 56 /\ UNCHANGED <<fed, original, block, hashed, stage>>
  BY DEF Digest!PadZero, Digest!Update, Digest!LengthAt, Length
<1>2. PICK z \in Nat : original = 8 * fed /\ Fits(fed, z) /\ Held = Message(fed, z)
  BY <1>1 DEF DigestInv, HeldInv
<1>3. fed \in Nat /\ z + 1 \in Nat
  BY DEF DigestInv
<1>4. Held' = Message(fed, z + 1)
  <2>1. Held' = Joined(Held, pending')
    BY <1>1, HeldGrows
  <2>2. Joined(Message(fed, z), <<Digest!Added(0)>>) = Message(fed, z + 1)
    BY <1>3, MessageGrows
  <2> QED
    BY ONLY <1>1, <1>2, <2>1, <2>2
<1>5. Fits(fed, z + 1)
  <2>1. (fed + 1 + z) % 64 # 56
    BY <1>1, <1>2, <1>3, BlockEnds, MessageType
  <2>2. \A j \in 0 .. (z + 1) - 1 : j \in 0 .. z - 1 \/ j = z
    BY <1>3
  <2>3. \A j \in 0 .. z - 1 : (fed + 1 + j) % 64 # 56
    BY <1>2 DEF Fits
  <2> QED
    BY ONLY <2>1, <2>2, <2>3 DEF Fits
<1>6. HeldInv'
  <2>1. \E y \in Nat : Fits(fed', y) /\ Held' = Message(fed', y)
    BY ONLY <1>1, <1>3, <1>4, <1>5
  <2>2. original' = 8 * fed' /\ stage' = "padding"
    BY <1>1, <1>2
  <2> QED
    BY ONLY <2>1, <2>2 DEF HeldInv, Fits
<1>7. pending' \in Seq(Byte)
  BY <1>1, OneByte
<1> QED
  BY <1>1, <1>6, <1>7 DEF DigestInv

LEMMA PadLengthKeeps == DigestInv /\ Digest!PadLength => DigestInv'
<1> SUFFICES ASSUME DigestInv, Digest!PadLength PROVE DigestInv'
  OBVIOUS
<1>1. /\ stage = "padding" /\ pending = <<>> /\ pending' = Digest!LengthField
      /\ Length(block) = 56 /\ stage' = "padded" /\ UNCHANGED <<fed, original, block, hashed>>
  BY DEF Digest!PadLength, Digest!Update, Digest!LengthAt, Length
<1>2. PICK z \in Nat : original = 8 * fed /\ Fits(fed, z) /\ Held = Message(fed, z)
  BY <1>1 DEF DigestInv, HeldInv
<1>3. fed \in Nat
  BY DEF DigestInv
<1>4. pending' = LengthOf(fed)
  BY <1>1, <1>2 DEF Digest!LengthField, LengthOf
<1>5. Held' = Joined(Message(fed, z), LengthOf(fed))
  <2>1. Held' = Joined(Held, pending')
    BY <1>1, HeldGrows
  <2> QED
    BY ONLY <1>2, <1>4, <2>1
<1>6. (fed + 1 + z) % 64 = 56
  BY <1>1, <1>2, <1>3, BlockEnds, MessageType
<1>7. HeldInv'
  <2>1. \E y \in Nat : /\ Fits(fed', y) /\ (fed' + 1 + y) % 64 = 56
                       /\ Held' = Joined(Message(fed', y), LengthOf(fed'))
    BY ONLY <1>1, <1>2, <1>5, <1>6
  <2> QED
    BY ONLY <1>1, <2>1 DEF HeldInv, Fits
<1>8. pending' \in Seq(Byte)
  BY <1>3, <1>4, LengthFieldType
<1> QED
  BY <1>1, <1>7, <1>8 DEF DigestInv

LEMMA DigestRests == DigestInv /\ UNCHANGED digestVars => DigestInv'
BY DEF digestVars, DigestInv, HeldInv, Held, Fits

LEMMA DigestStep == DigestInv /\ Digest!Next => DigestInv'
BY FeedKeeps, CopyKeeps, FinishKeeps, PadZeroKeeps, PadLengthKeeps DEF Digest!Next

(* Any 64 lengths in a row meet each place in the block once.              *)
LEMMA FewZeros ==
  ASSUME NEW n \in Nat, NEW z \in Nat, Fits(n, z)
  PROVE  z \in 0 .. 63
<1> SUFFICES ASSUME z > 63 PROVE FALSE
  OBVIOUS
<1> DEFINE j == (55 - n) % 64
<1>1. j \in 0 .. 63 /\ (n + 1 + j) % 64 = 56
  OBVIOUS
<1>2. j \in 0 .. z - 1
  BY <1>1
<1> QED
  BY <1>1, <1>2 DEF Fits

LEMMA ZerosAre ==
  ASSUME NEW n \in Nat, NEW z \in 0 .. 63, (n + 1 + z) % 64 = 56
  PROVE  Digest!Zeros(n) = z
<1>1. (n + 1 + z + 8) % 64 = 0
  OBVIOUS
<1>2. \A k \in 0 .. 63 : (n + 1 + k + 8) % 64 = 0 => k = z
  OBVIOUS
<1> QED
  BY <1>1, <1>2 DEF Digest!Zeros, Digest!BlockSize

LEMMA DigestMeaning == DigestInv => Digest!DigestIsStandard /\ Digest!DigestEnds
<1> SUFFICES ASSUME DigestInv PROVE Digest!DigestIsStandard /\ Digest!DigestEnds
  OBVIOUS
<1>1. /\ fed \in Nat /\ fed <= MaxLength /\ MaxLength \in Nat
      /\ stage \in {"feeding", "padding", "padded"}
  BY FormatsAssumption DEF Digest!DigestAssumption, DigestInv
<1>2. /\ Length(hashed) \in Nat /\ Length(block) \in Nat /\ Length(pending) \in Nat
      /\ Length(Held) = 64 * Length(hashed) + Length(block) + Length(pending)
  BY HeldType, LengthType DEF DigestInv
<1>3. ASSUME stage = "padded"
      PROVE  \E z \in 0 .. 63 : /\ (fed + 1 + z) % 64 = 56
                                /\ Held = Joined(Message(fed, z), LengthOf(fed))
                                /\ Length(Held) = fed + 1 + z + 8
  <2>1. PICK z \in Nat : /\ Fits(fed, z) /\ (fed + 1 + z) % 64 = 56
                         /\ Held = Joined(Message(fed, z), LengthOf(fed))
    BY <1>3 DEF DigestInv, HeldInv
  <2>2. z \in 0 .. 63
    BY <1>1, <2>1, FewZeros
  <2>3. /\ Message(fed, z) \in Seq(Byte) /\ Length(Message(fed, z)) = fed + 1 + z
        /\ LengthOf(fed) \in Seq(Byte) /\ Length(LengthOf(fed)) = 8
    BY <1>1, MessageType, LengthFieldType
  <2>4. Length(Held) = (fed + 1 + z) + 8
    BY ONLY <2>1, <2>3, JoinedType
  <2> QED
    BY <1>1, <2>1, <2>2, <2>4
<1>4. Length(Held) <= fed + 72
  <2>1. CASE stage = "feeding"
    <3>1. Held = Digest!Data(1, fed)
      BY <2>1 DEF DigestInv, HeldInv
    <3>2. fed \in Nat /\ 1 \in Nat /\ 1 <= fed + 1 /\ fed - 1 + 1 = fed
      BY <1>1
    <3>3. Length(Digest!Data(1, fed)) = fed - 1 + 1
      BY ONLY <3>2, DataType
    <3> QED
      BY <1>1, <3>1, <3>2, <3>3
  <2>2. CASE stage = "padding"
    <3>1. PICK z \in Nat : Fits(fed, z) /\ Held = Message(fed, z)
      BY <2>2 DEF DigestInv, HeldInv
    <3>2. z \in 0 .. 63
      BY <1>1, <3>1, FewZeros
    <3>3. Length(Message(fed, z)) = fed + 1 + z
      BY <1>1, MessageType
    <3> QED
      BY <1>1, <3>1, <3>2, <3>3
  <2>3. CASE stage = "padded"
    BY <1>1, <1>3, <2>3
  <2> QED
    BY <1>1, <2>1, <2>2, <2>3
<1>5. Digest!DigestEnds
  <2>1. 64 * Length(hashed) <= MaxLength + 72
    BY <1>1, <1>2, <1>4
  <2>2. \A h, m \in Nat : 64 * h <= m + 72 => h <= m \div 64 + 2
    OBVIOUS
  <2>3. Length(hashed) <= MaxLength \div 64 + 2
    BY <1>1, <1>2, <2>1, <2>2
  <2> QED
    BY <2>3 DEF Digest!DigestEnds, Digest!MaxBlocks, Digest!BlockSize, Length
<1>6. ASSUME Digest!Finished
      PROVE  /\ Digest!FlattenSeq(hashed) = Digest!Padded(fed) /\ block = <<>>
             /\ \A i \in 1 .. Length(hashed) : Length(hashed[i]) = 64
  <2>1. stage = "padded" /\ pending = <<>>
    BY <1>6 DEF Digest!Finished
  <2>2. PICK z \in 0 .. 63 : /\ (fed + 1 + z) % 64 = 56
                             /\ Held = Joined(Message(fed, z), LengthOf(fed))
                             /\ Length(Held) = fed + 1 + z + 8
    BY <1>3, <2>1
  <2>3. Length(block) = 0
    <3>1. Length(block) = (fed + 1 + z + 8) % 64
      BY <2>1, <2>2, BlockEnds
    <3>2. (fed + 1 + z + 8) % 64 = 0
      BY <1>1, <2>2
    <3> QED
      BY <3>1, <3>2
  <2>4. block = <<>>
    BY <2>3, LengthType DEF DigestInv
  <2>5. Held = Digest!FlattenSeq(hashed)
    <3>1. Digest!FlattenSeq(hashed) \in Seq(Byte)
      BY HeldType
    <3>2. Held = Joined(Joined(Digest!FlattenSeq(hashed), <<>>), <<>>)
      BY <2>1, <2>4 DEF Held
    <3> QED
      BY ONLY <3>1, <3>2, JoinedEmpty
  <2>6. Digest!Zeros(fed) = z
    BY <1>1, <2>2, ZerosAre
  <2>7. Digest!Padded(fed) = Joined(Message(fed, z), LengthOf(fed))
    BY <2>6, Zenon DEF Digest!Padded, Joined, Message, ZeroBytes, LengthOf
  <2> QED
    BY <2>2, <2>4, <2>5, <2>7 DEF DigestInv
<1>7. Digest!DigestIsStandard
  BY <1>6 DEF Digest!DigestIsStandard, Digest!BlockSize, Length
<1> QED
  BY <1>5, <1>7

-----------------------------------------------------------------------------
(* The envelope: ranges in their order.                                    *)

Letter == {"x", "y", "z"}
Sections == [kind : Nat \ {0}, bytes : Seq(Letter)]
Entries == [kind : Nat, offset : Nat, count : Nat]

Directory(b) == b.fields.directory
Before(d, i, j) == d[i].offset < d[j].offset \/ (d[i].offset = d[j].offset /\ i < j)
Rank(b, i) == Envelope!Cardinality(Envelope!Preceding(b, i))

LEMMA SameCardinality ==
  ASSUME NEW S
  PROVE  Envelope!Cardinality(S) = Cardinality(S)
BY DEF Envelope!Cardinality, Cardinality

LEMMA EntryAt ==
  ASSUME NEW d \in Seq(Entries), NEW i \in 1 .. Length(d)
  PROVE  /\ d[i] \in Entries /\ d[i].offset \in Nat /\ d[i].count \in Nat /\ d[i].kind \in Nat
         /\ i \in Nat
<1>1. d[i] \in Entries
  BY ElementOfSeq DEF Length
<1> QED
  BY <1>1, LengthType DEF Entries

LEMMA PrecedingIs ==
  ASSUME NEW b, NEW d, d = b.fields.directory, d \in Seq(Entries), NEW i \in 1 .. Length(d)
  PROVE  Envelope!Preceding(b, i) = {j \in 1 .. Length(d) : Before(d, j, i)}
<1>1. DOMAIN d = 1 .. Length(d)
  BY DEF Length
<1>2. ASSUME NEW j \in 1 .. Length(d)
      PROVE  Envelope!SortsBefore(Envelope!RangeAt(b, j), Envelope!RangeAt(b, i)) <=> Before(d, j, i)
  BY DEF Envelope!SortsBefore, Envelope!RangeAt, Before
<1>3. Envelope!Preceding(b, i) =
        {j \in 1 .. Length(d) : Envelope!SortsBefore(Envelope!RangeAt(b, j), Envelope!RangeAt(b, i))}
  BY <1>1 DEF Envelope!Preceding
<1> QED
  BY <1>2, <1>3

LEMMA RankType ==
  ASSUME NEW b, NEW d, d = b.fields.directory, d \in Seq(Entries), NEW i \in 1 .. Length(d)
  PROVE  /\ IsFiniteSet(Envelope!Preceding(b, i)) /\ Rank(b, i) \in 0 .. Length(d) - 1
<1>1. Length(d) \in Nat
  BY LengthType
<1>2. IsFiniteSet(1 .. Length(d)) /\ Cardinality(1 .. Length(d)) = Length(d)
  BY <1>1, FS_Interval
<1>3. /\ IsFiniteSet((1 .. Length(d)) \ {i})
      /\ Cardinality((1 .. Length(d)) \ {i}) = Length(d) - 1
  BY <1>2, FS_RemoveElement
<1>4. Envelope!Preceding(b, i) \in SUBSET ((1 .. Length(d)) \ {i})
  <2>1. ~Before(d, i, i)
    <3>1. d[i].offset \in Nat /\ i \in Nat
      BY EntryAt
    <3> QED
      BY <3>1 DEF Before
  <2> QED
    BY <2>1, PrecedingIs
<1>5. /\ IsFiniteSet(Envelope!Preceding(b, i))
      /\ Cardinality(Envelope!Preceding(b, i)) <= Cardinality((1 .. Length(d)) \ {i})
  BY ONLY <1>3, <1>4, FS_Subset
<1>6. Cardinality(Envelope!Preceding(b, i)) \in Nat
  BY <1>5, FS_CardinalityType
<1> QED
  BY <1>1, <1>3, <1>5, <1>6, SameCardinality DEF Rank

LEMMA BeforeOrders ==
  ASSUME NEW d \in Seq(Entries), NEW i \in 1 .. Length(d), NEW j \in 1 .. Length(d),
         NEW k \in 1 .. Length(d)
  PROVE  /\ i # j => Before(d, i, j) \/ Before(d, j, i)
         /\ ~(Before(d, i, j) /\ Before(d, j, i)) /\ ~Before(d, i, i)
         /\ Before(d, i, j) /\ Before(d, j, k) => Before(d, i, k)
         /\ Before(d, i, j) => d[i].offset <= d[j].offset
<1>1. /\ d[i].offset \in Nat /\ d[j].offset \in Nat /\ d[k].offset \in Nat
      /\ i \in Nat /\ j \in Nat /\ k \in Nat
  BY EntryAt
<1>2. i # j => Before(d, i, j) \/ Before(d, j, i)
  BY ONLY <1>1 DEF Before
<1>3. ~(Before(d, i, j) /\ Before(d, j, i)) /\ ~Before(d, i, i)
  BY ONLY <1>1 DEF Before
<1>4. Before(d, i, j) /\ Before(d, j, k) => Before(d, i, k)
  BY ONLY <1>1 DEF Before
<1>5. Before(d, i, j) => d[i].offset <= d[j].offset
  BY ONLY <1>1 DEF Before
<1> QED
  BY ONLY <1>2, <1>3, <1>4, <1>5

LEMMA RankGrows ==
  ASSUME NEW b, NEW d, d = b.fields.directory, d \in Seq(Entries),
         NEW i \in 1 .. Length(d), NEW j \in 1 .. Length(d), Before(d, i, j)
  PROVE  Rank(b, i) < Rank(b, j)
<1> DEFINE P == Envelope!Preceding(b, i)
           Q == Envelope!Preceding(b, j)
<1>1. P = {k \in 1 .. Length(d) : Before(d, k, i)} /\ Q = {k \in 1 .. Length(d) : Before(d, k, j)}
  BY PrecedingIs
<1>2. IsFiniteSet(P) /\ IsFiniteSet(Q) /\ Cardinality(P) \in Nat /\ Cardinality(Q) \in Nat
  BY RankType, SameCardinality DEF Rank
<1>3. i \notin P /\ P \cup {i} \in SUBSET Q
  BY <1>1, BeforeOrders
<1> HIDE DEF P, Q
<1>4. IsFiniteSet(P \cup {i}) /\ Cardinality(P \cup {i}) = Cardinality(P) + 1
  BY ONLY <1>2, <1>3, FS_AddElement
<1>5. Cardinality(P \cup {i}) <= Cardinality(Q)
  BY ONLY <1>2, <1>3, FS_Subset
<1>6. Cardinality(P) < Cardinality(Q)
  BY ONLY <1>2, <1>4, <1>5
<1> QED
  BY <1>6, SameCardinality DEF Rank, P, Q

LEMMA RankTells ==
  ASSUME NEW b, NEW d, d = b.fields.directory, d \in Seq(Entries),
         NEW i \in 1 .. Length(d), NEW j \in 1 .. Length(d)
  PROVE  /\ Rank(b, i) = Rank(b, j) => i = j
         /\ Rank(b, i) < Rank(b, j) => Before(d, i, j)
<1>1. Rank(b, i) \in Nat /\ Rank(b, j) \in Nat
  BY RankType
<1>2. Before(d, i, j) => Rank(b, i) < Rank(b, j)
  BY RankGrows
<1>3. Before(d, j, i) => Rank(b, j) < Rank(b, i)
  BY RankGrows
<1>4. i # j => Before(d, i, j) \/ Before(d, j, i)
  BY BeforeOrders
<1> QED
  BY <1>1, <1>2, <1>3, <1>4

LEMMA RangesAtRank ==
  ASSUME NEW b, NEW d, d = b.fields.directory, d \in Seq(Entries),
         NEW i \in 1 .. Length(d), NEW k, k = Rank(b, i) + 1
  PROVE  /\ k \in 1 .. Length(d) /\ Envelope!Ranges(b)[k] = Envelope!RangeAt(b, i)
         /\ DOMAIN Envelope!Ranges(b) = 1 .. Length(d)
<1>1. DOMAIN d = 1 .. Length(d) /\ Length(d) \in Nat
  BY DEF Length
<1>2. k \in 1 .. Length(d) /\ Rank(b, i) = k - 1
  BY <1>1, RankType
<1> DEFINE D == DOMAIN b.fields.directory
<1>3. D = 1 .. Length(d)
  BY <1>1
<1>4. Envelope!Ranges(b)
        = [m \in D |-> Envelope!RangeAt(b, CHOOSE y \in D : Rank(b, y) = m - 1)]
  BY DEF Envelope!Ranges, Rank
<1> HIDE DEF D
<1>5. k \in D /\ DOMAIN Envelope!Ranges(b) = D
  BY <1>2, <1>3, <1>4
<1>6. PICK x : x = CHOOSE y \in D : Rank(b, y) = k - 1
  OBVIOUS
<1>7. Envelope!Ranges(b)[k] = Envelope!RangeAt(b, x)
  BY ONLY <1>4, <1>5, <1>6
<1>8. i \in D /\ Rank(b, i) = k - 1
  BY <1>2, <1>3
<1>9. x \in D /\ Rank(b, x) = k - 1
  BY ONLY <1>6, <1>8, Zenon
<1>10. x \in 1 .. Length(d) /\ Rank(b, x) = Rank(b, i) /\ i \in 1 .. Length(d)
       /\ d = b.fields.directory /\ d \in Seq(Entries)
  BY ONLY <1>3, <1>8, <1>9, d = b.fields.directory, d \in Seq(Entries)
<1>11. x = i
  BY ONLY <1>10, RankTells
<1> QED
  BY ONLY <1>2, <1>3, <1>5, <1>7, <1>11

LEMMA NextInOrder ==
  ASSUME NEW b, NEW d, d = b.fields.directory, d \in Seq(Entries),
         NEW i \in 1 .. Length(d), NEW j \in 1 .. Length(d), Before(d, i, j)
  PROVE  \E m \in 1 .. Length(d) : Rank(b, m) = Rank(b, i) + 1 /\ d[m].offset <= d[j].offset
<1> DEFINE After == {x \in 1 .. Length(d) : Before(d, i, x)}
           T == {Rank(b, x) : x \in After}
<1>1. T \in SUBSET Nat /\ T # {}
  BY RankType
<1>2. PICK t \in T : \A y \in T : t <= y
  <2> HIDE DEF T
  <2> QED
    BY <1>1, LeastNumber
<1>3. PICK m \in After : Rank(b, m) = t
  BY <1>2
<1>4. \A x \in After : Rank(b, m) <= Rank(b, x)
  BY <1>2, <1>3
<1>5. m \in 1 .. Length(d) /\ Before(d, i, m)
  BY <1>3
<1>6. \A x \in 1 .. Length(d) : Rank(b, x) \in Nat
  BY RankType
<1>7. d[m].offset <= d[j].offset
  <2>1. ~Before(d, j, m)
    <3>1. Rank(b, m) <= Rank(b, j)
      BY <1>4
    <3>2. Before(d, j, m) => Rank(b, j) < Rank(b, m)
      BY <1>5, RankGrows
    <3> QED
      BY <1>5, <1>6, <3>1, <3>2
  <2>2. j = m \/ Before(d, m, j)
    BY <1>5, <2>1, BeforeOrders
  <2>3. d[m].offset \in Nat
    BY <1>5, EntryAt
  <2> QED
    BY <1>5, <2>2, <2>3, BeforeOrders
<1>8. Envelope!Preceding(b, m) = Envelope!Preceding(b, i) \cup {i}
  <2>1. ASSUME NEW y \in 1 .. Length(d)
        PROVE  Before(d, y, m) <=> Before(d, y, i) \/ y = i
    <3>1. CASE y = i
      BY <1>5, <3>1
    <3>2. CASE Before(d, y, i)
      BY <1>5, <3>2, BeforeOrders
    <3>3. CASE y # i /\ ~Before(d, y, i)
      <4>1. y \in After
        BY <3>3, BeforeOrders
      <4>2. Rank(b, m) <= Rank(b, y)
        BY <1>4, <4>1
      <4>3. Before(d, y, m) => Rank(b, y) < Rank(b, m)
        BY <1>5, RankGrows
      <4> QED
        BY <1>5, <1>6, <3>3, <4>2, <4>3
    <3> QED
      BY <3>1, <3>2, <3>3
  <2>2. /\ Envelope!Preceding(b, m) = {y \in 1 .. Length(d) : Before(d, y, m)}
        /\ Envelope!Preceding(b, i) = {y \in 1 .. Length(d) : Before(d, y, i)}
    BY <1>5, PrecedingIs
  <2> QED
    BY <2>1, <2>2
<1>9. Rank(b, m) = Rank(b, i) + 1
  <2>1. IsFiniteSet(Envelope!Preceding(b, i))
    BY RankType
  <2>2. i \notin Envelope!Preceding(b, i)
    BY PrecedingIs, BeforeOrders
  <2>3. Cardinality(Envelope!Preceding(b, i) \cup {i}) = Cardinality(Envelope!Preceding(b, i)) + 1
    BY ONLY <2>1, <2>2, FS_AddElement
  <2> QED
    BY <1>8, <2>3, SameCardinality DEF Rank
<1> QED
  BY <1>5, <1>7, <1>9

(* The check of neighbours is enough.                                      *)
LEMMA NoOverlapAnywhere ==
  ASSUME NEW b, NEW d, d = b.fields.directory, d \in Seq(Entries), ~Envelope!Overlap(b),
         NEW i \in 1 .. Length(d), NEW j \in 1 .. Length(d), Before(d, i, j)
  PROVE  ~(Envelope!CheckedAdd(d[i].offset, d[i].count) > d[j].offset)
           \/ Envelope!CheckedAdd(d[i].offset, d[i].count) \notin Int
<1> SUFFICES ASSUME Envelope!CheckedAdd(d[i].offset, d[i].count) \in Int
             PROVE  ~(Envelope!CheckedAdd(d[i].offset, d[i].count) > d[j].offset)
  OBVIOUS
<1>1. PICK m \in 1 .. Length(d) : Rank(b, m) = Rank(b, i) + 1 /\ d[m].offset <= d[j].offset
  BY NextInOrder
<1>2. Rank(b, i) \in Nat
  BY RankType
<1> DEFINE k == Rank(b, m) + 1
<1>3. k - 1 = Rank(b, i) + 1
  BY <1>1, <1>2
<1>4. k \in 1 .. Length(d) /\ Envelope!Ranges(b)[k] = Envelope!RangeAt(b, m)
      /\ DOMAIN Envelope!Ranges(b) = 1 .. Length(d)
  BY RangesAtRank
<1>5. k - 1 \in 1 .. Length(d) /\ Envelope!Ranges(b)[k - 1] = Envelope!RangeAt(b, i)
  BY <1>3, RangesAtRank
<1> HIDE DEF k
<1>6. Len(Envelope!Ranges(b)) = Length(d)
  <2>1. Length(d) \in Nat
    BY LengthType
  <2> QED
    BY <1>4, <2>1
<1>7. k \in 2 .. Len(Envelope!Ranges(b))
  BY <1>4, <1>5, <1>6
<1>8. ~Envelope!NeighboursOverlap(Envelope!Ranges(b), k)
  BY <1>7 DEF Envelope!Overlap
<1>9. ~(Envelope!RangeAt(b, i).end > Envelope!RangeAt(b, m).begin)
  BY <1>4, <1>5, <1>8 DEF Envelope!NeighboursOverlap
<1>10. ~(Envelope!CheckedAdd(d[i].offset, d[i].count) > d[m].offset)
  BY <1>9 DEF Envelope!RangeAt
<1>11. d[m].offset \in Nat /\ d[j].offset \in Nat /\ d[m].offset <= d[j].offset
  BY <1>1, EntryAt
<1>12. PICK z : z = Envelope!CheckedAdd(d[i].offset, d[i].count)
  OBVIOUS
<1>13. z \in Int /\ ~(z > d[m].offset)
  BY <1>10, <1>12
<1>14. ~(z > d[j].offset)
  BY ONLY <1>11, <1>13
<1> QED
  BY <1>12, <1>14

-----------------------------------------------------------------------------
(* The envelope: what the decoder accepts.                                 *)

Fields ==
  [magic : {"LEVOLM02", "LEVOFL02"}, version : {0, 1}, stage : {0, 1}, count : Nat,
   header : Nat, total : Nat, directory : Seq(Entries), payload : Seq(Letter)]

FieldsOk(f) ==
  f \in Fields /\ f.directory # <<>> /\ f.count = Length(f.directory)

LEMMA HeaderType ==
  ASSUME NEW n \in Nat
  PROVE  Envelope!HeaderBytes(n) \in Nat
<1>1. FixedHeader \in Nat /\ Entry \in Nat
  BY FormatsAssumption DEF Envelope!EnvelopeAssumption
<1>2. n * Entry \in Nat
  BY <1>1
<1> QED
  BY <1>1, <1>2 DEF Envelope!HeaderBytes

LEMMA WordType ==
  /\ Word \in Nat /\ MaxBlob \in Nat /\ FixedHeader \in Nat /\ MaxBlob < Word
  /\ Envelope!Words \in SUBSET Nat
<1>1. /\ Word \in Nat /\ MaxBlob \in Nat /\ FixedHeader \in Nat /\ MaxBlob < Word
      /\ MaxSections \in Nat /\ Entry \in Nat
      /\ FixedHeader + MaxSections * Entry < MaxBlob
  BY FormatsAssumption DEF Envelope!EnvelopeAssumption
<1>2. MaxSections * Entry \in Nat
  BY <1>1
<1>3. FixedHeader < Word /\ 1 <= Word
  BY <1>1, <1>2
<1> QED
  BY <1>1, <1>3 DEF Envelope!Words

(* An entry in range ends where it says: the addition did not wrap.        *)
LEMMA InRangeEnds ==
  ASSUME NEW b, b.fields.header \in Nat, b.fields.total \in Nat, NEW e \in Entries,
         Envelope!InRange(b, e)
  PROVE  /\ Envelope!CheckedAdd(e.offset, e.count) = e.offset + e.count
         /\ b.fields.header <= e.offset /\ e.offset + e.count <= b.fields.total
<1>1. e.offset \in Nat /\ e.count \in Nat
  BY DEF Entries
<1>2. /\ e.offset >= b.fields.header
      /\ Envelope!CheckedAdd(e.offset, e.count) \in 0 .. b.fields.total
  BY DEF Envelope!InRange
<1>3. Envelope!CheckedAdd(e.offset, e.count) # Envelope!Overflow
  BY <1>2 DEF Envelope!Overflow
<1>4. Envelope!CheckedAdd(e.offset, e.count) = e.offset + e.count
  BY <1>3 DEF Envelope!CheckedAdd
<1> QED
  BY <1>1, <1>2, <1>4

LEMMA Extract ==
  ASSUME NEW S, NEW p, p \in Seq(S), NEW x \in Nat, NEW c \in Nat, x + c <= Length(p)
  PROVE  /\ SubSeq(p, x + 1, x + c) \in Seq(S) /\ Length(SubSeq(p, x + 1, x + c)) = c
         /\ \A k \in 1 .. c : SubSeq(p, x + 1, x + c)[k] = p[x + k]
<1>1. Len(p) \in Nat /\ Length(p) = Len(p)
  BY DEF Length
<1>2. \A i \in x + 1 .. x + c : p[i] \in S
  BY <1>1
<1>3. x + 1 \in Int /\ x + c \in Int
  OBVIOUS
<1>4. /\ SubSeq(p, x + 1, x + c) \in Seq(S)
      /\ Len(SubSeq(p, x + 1, x + c)) = IF x + 1 <= x + c THEN x + c - (x + 1) + 1 ELSE 0
      /\ \A k \in 1 .. x + c - (x + 1) + 1 : SubSeq(p, x + 1, x + c)[k] = p[x + 1 + k - 1]
  BY ONLY <1>2, <1>3, SubSeqProperties
<1>5. (IF x + 1 <= x + c THEN x + c - (x + 1) + 1 ELSE 0) = c /\ x + c - (x + 1) + 1 = c
  OBVIOUS
<1>6. \A k \in 1 .. c : x + 1 + k - 1 = x + k
  OBVIOUS
<1> QED
  BY ONLY <1>4, <1>5, <1>6 DEF Length

(* The bytes of a section of an accepted blob: c of them from x to w, in a *)
(* payload p that follows a header of h bytes.                             *)
Payload(b) == b.fields.payload
Cut(p, from, to) == SubSeq(p, from, to)
Located(b, p, h, x, c, w) ==
  /\ Directory(b) \in Seq(Entries) /\ p = Payload(b) /\ p \in Seq(Letter)
  /\ h = Envelope!HeaderBytes(Length(Directory(b))) /\ h \in Nat
  /\ x \in Nat /\ c \in Nat /\ w = x + c /\ h <= x /\ w <= h + Length(p)

LEMMA BytesAtIs ==
  ASSUME NEW b, NEW p, NEW h, NEW x, NEW c, NEW w, Located(b, p, h, x, c, w)
  PROVE  /\ Envelope!BytesAt(b, x, w) = Cut(p, x - h + 1, x - h + c)
         /\ x - h \in Nat /\ x - h + c <= Length(p) /\ p \in Seq(Letter) /\ c \in Nat
<1>1. h = Envelope!HeaderBytes(Len(Directory(b))) /\ p = Payload(b)
  BY DEF Located, Length
<1>2. PICK l : l = Length(p)
  OBVIOUS
<1>3. p \in Seq(Letter)
  BY DEF Located
<1>4. /\ l \in Nat /\ w <= h + l /\ w = x + c /\ x \in Nat /\ c \in Nat /\ h <= x
      /\ h \in Nat
  BY <1>2, <1>3, LengthType DEF Located
<1>5. x - h \in Nat /\ x - h + c <= l /\ w - h = x - h + c
  BY ONLY <1>4
<1>6. Envelope!BytesAt(b, x, w)
        = Cut(Payload(b), x - Envelope!HeaderBytes(Len(Directory(b))) + 1,
              w - Envelope!HeaderBytes(Len(Directory(b))))
  BY DEF Envelope!BytesAt, Payload, Directory, Cut
<1>7. Envelope!BytesAt(b, x, w) = Cut(p, x - h + 1, w - h)
  BY ONLY <1>1, <1>6, Zenon
<1> QED
  BY ONLY <1>2, <1>3, <1>4, <1>5, <1>7

LEMMA BytesLength ==
  ASSUME NEW b, NEW p, NEW h, NEW x, NEW c, NEW w, Located(b, p, h, x, c, w)
  PROVE  /\ Envelope!BytesAt(b, x, w) \in Seq(Letter)
         /\ Length(Envelope!BytesAt(b, x, w)) = c
<1>1. PICK y : y = x - h
  OBVIOUS
<1>2. /\ Envelope!BytesAt(b, x, w) = Cut(p, y + 1, y + c)
      /\ y \in Nat /\ y + c <= Length(p) /\ p \in Seq(Letter) /\ c \in Nat
  BY <1>1, BytesAtIs
<1>3. Cut(p, y + 1, y + c) \in Seq(Letter) /\ Length(Cut(p, y + 1, y + c)) = c
  BY ONLY <1>2, Extract DEF Cut
<1> QED
  BY ONLY <1>2, <1>3

LEMMA ByteAt ==
  ASSUME NEW b, NEW p, NEW h, NEW x, NEW c, NEW w, Located(b, p, h, x, c, w),
         NEW k \in 1 .. c
  PROVE  Envelope!BytesAt(b, x, w)[k] = p[x - h + k]
<1>1. PICK y : y = x - h
  OBVIOUS
<1>2. /\ Envelope!BytesAt(b, x, w) = Cut(p, y + 1, y + c)
      /\ y \in Nat /\ y + c <= Length(p) /\ p \in Seq(Letter) /\ c \in Nat
  BY <1>1, BytesAtIs
<1>3. Cut(p, y + 1, y + c)[k] = p[y + k]
  BY ONLY <1>2, k \in 1 .. c, Extract DEF Cut
<1> QED
  BY ONLY <1>1, <1>2, <1>3

LEMMA AcceptedMeans ==
  ASSUME NEW b, FieldsOk(b.fields), Envelope!decode(b, "LEVOLM02").status = "accepted"
  PROVE  /\ Envelope!Accepted(b, "LEVOLM02")
         /\ Envelope!decode(b, "LEVOLM02").sections
              = [i \in 1 .. Length(b.fields.directory) |->
                   [kind |-> b.fields.directory[i].kind,
                    bytes |-> Envelope!BytesAt(b, b.fields.directory[i].offset,
                                Envelope!CheckedAdd(b.fields.directory[i].offset,
                                                    b.fields.directory[i].count))]]
<1>1. b.fields.directory \in Seq(Entries) /\ b.fields.directory # <<>>
  BY DEF FieldsOk, Fields
<1>2. DOMAIN b.fields.directory = 1 .. Length(b.fields.directory)
  BY <1>1 DEF Length
<1>3. Envelope!Accepted(b, "LEVOLM02")
  BY DEF Envelope!decode, Envelope!Rejected, Envelope!Outcome
<1> QED
  BY <1>1, <1>2, <1>3 DEF Envelope!decode, Envelope!Outcome

LEMMA AcceptedSections ==
  ASSUME NEW b, FieldsOk(b.fields), NEW s,
         s = Envelope!decode(b, "LEVOLM02"), s.status = "accepted",
         NEW i \in 1 .. Length(b.fields.directory)
  PROVE  /\ Length(s.sections[i].bytes) = b.fields.directory[i].count
         /\ Envelope!CheckedAdd(b.fields.directory[i].offset, b.fields.directory[i].count)
              = b.fields.directory[i].offset + b.fields.directory[i].count
<1>1. PICK d : d = b.fields.directory
  OBVIOUS
<1>2. PICK e : e = d[i]
  OBVIOUS
<1>3. /\ d \in Seq(Entries) /\ b.fields.header \in Nat /\ b.fields.total \in Nat
      /\ b.fields.payload \in Seq(Letter) /\ b.fields.count = Length(d)
  BY <1>1 DEF FieldsOk, Fields
<1>4. e \in Entries /\ e.offset \in Nat /\ e.count \in Nat
  BY <1>1, <1>2, <1>3, EntryAt
<1>5. /\ Envelope!Accepted(b, "LEVOLM02")
      /\ s.sections[i].bytes
           = Envelope!BytesAt(b, e.offset, Envelope!CheckedAdd(e.offset, e.count))
  <2>1. i \in 1 .. Length(b.fields.directory) /\ e = b.fields.directory[i]
    BY <1>1, <1>2
  <2>2. /\ Envelope!Accepted(b, "LEVOLM02")
        /\ s.sections
             = [k \in 1 .. Length(b.fields.directory) |->
                  [kind |-> b.fields.directory[k].kind,
                   bytes |-> Envelope!BytesAt(b, b.fields.directory[k].offset,
                               Envelope!CheckedAdd(b.fields.directory[k].offset,
                                                   b.fields.directory[k].count))]]
    BY AcceptedMeans
  <2> QED
    BY ONLY <2>1, <2>2
<1>6. Envelope!InRange(b, e)
  BY <1>1, <1>2, <1>3, <1>5 DEF Envelope!Accepted, Length
<1>7. /\ Envelope!CheckedAdd(e.offset, e.count) = e.offset + e.count
      /\ b.fields.header <= e.offset /\ e.offset + e.count <= b.fields.total
  BY ONLY <1>3, <1>4, <1>6, InRangeEnds
<1>8. /\ b.fields.header = Envelope!HeaderBytes(Length(d))
      /\ b.fields.total = Envelope!HeaderBytes(Length(d)) + Length(b.fields.payload)
  BY <1>1, <1>3, <1>5 DEF Envelope!Accepted, Envelope!HeaderAccepted, Envelope!Size, Length
<1>9. Length(Envelope!BytesAt(b, e.offset, e.offset + e.count)) = e.count
  <2>1. PICK h : h = Envelope!HeaderBytes(Length(d))
    OBVIOUS
  <2>2. PICK p : p = Payload(b)
    OBVIOUS
  <2>3. d = Directory(b) /\ p = b.fields.payload
    BY <1>1, <2>2 DEF Directory, Payload
  <2>4. h \in Nat
    BY <1>3, <2>1, LengthType, HeaderType
  <2>5. Located(b, p, h, e.offset, e.count, e.offset + e.count)
    BY ONLY <1>3, <1>4, <1>7, <1>8, <2>1, <2>2, <2>3, <2>4 DEF Located
  <2> QED
    BY ONLY <2>5, BytesLength
<1> QED
  BY <1>1, <1>2, <1>5, <1>7, <1>9

(* Whoever wrote it, an accepted blob has sections apart.                  *)
LEMMA AcceptedSeparate ==
  ASSUME NEW b, FieldsOk(b.fields), NEW s,
         s = Envelope!decode(b, "LEVOLM02"), s.status = "accepted",
         NEW i \in 1 .. Length(b.fields.directory), NEW j \in 1 .. Length(b.fields.directory),
         Before(b.fields.directory, i, j)
  PROVE  Envelope!Span(b.fields.directory[i]) \cap Envelope!Span(b.fields.directory[j]) = {}
<1>1. PICK d : d = b.fields.directory
  OBVIOUS
<1>2. d \in Seq(Entries)
  BY <1>1 DEF FieldsOk, Fields
<1>3. /\ d[i].offset \in Nat /\ d[i].count \in Nat
      /\ d[j].offset \in Nat /\ d[j].count \in Nat
  BY <1>1, <1>2, EntryAt
<1>4. ~Envelope!Overlap(b)
  BY AcceptedMeans DEF Envelope!Accepted
<1>5. Envelope!CheckedAdd(d[i].offset, d[i].count) = d[i].offset + d[i].count
  BY <1>1, AcceptedSections
<1>6. ~(Envelope!CheckedAdd(d[i].offset, d[i].count) > d[j].offset)
        \/ Envelope!CheckedAdd(d[i].offset, d[i].count) \notin Int
  BY <1>1, <1>2, <1>4, NoOverlapAnywhere
<1>7. d[i].offset + d[i].count <= d[j].offset
  BY <1>3, <1>5, <1>6
<1>8. \A k \in 0 .. d[i].count - 1 : \A l \in 0 .. d[j].count - 1 :
        d[i].offset + k # d[j].offset + l
  BY <1>3, <1>7
<1> QED
  BY <1>1, <1>8 DEF Envelope!Span

-----------------------------------------------------------------------------
(* The envelope: what was encoded is decoded.                              *)

Parts(list) == [i \in 1 .. Len(list) |-> list[i].bytes]
Prefix(list, i) == Envelope!Concatenated(SubSeq(list, 1, i))

LEMMA SectionAt ==
  ASSUME NEW list \in Seq(Sections), NEW i \in 1 .. Length(list)
  PROVE  /\ list[i] \in Sections /\ list[i].bytes \in Seq(Letter)
         /\ list[i].kind \in Nat /\ list[i].kind # 0
<1>1. list[i] \in Sections
  BY ElementOfSeq DEF Length
<1> QED
  BY <1>1 DEF Sections

LEMMA PartsType ==
  ASSUME NEW list \in Seq(Sections)
  PROVE  /\ Parts(list) \in Seq(Seq(Letter)) /\ Length(Parts(list)) = Length(list)
         /\ \A i \in 1 .. Length(list) : Parts(list)[i] = list[i].bytes
<1>1. PICK n : n = Length(list)
  OBVIOUS
<1>2. n \in Nat
  BY <1>1, LengthType
<1>3. Parts(list) = [i \in 1 .. n |-> list[i].bytes]
  BY <1>1 DEF Parts, Length
<1>4. Parts(list) \in [1 .. n -> Seq(Letter)]
  BY <1>1, <1>3, SectionAt
<1>5. Parts(list) \in Seq(Seq(Letter)) /\ Length(Parts(list)) = n
  BY <1>2, <1>4, LengthOfFunction
<1> QED
  BY <1>1, <1>3, <1>5

LEMMA ConcatenatedIs ==
  ASSUME NEW list
  PROVE  Envelope!Concatenated(list) = Digest!FlattenSeq(Parts(list))
BY SameFlatten DEF Envelope!Concatenated, Parts

LEMMA ConcatenatedType ==
  ASSUME NEW list \in Seq(Sections)
  PROVE  Envelope!Concatenated(list) \in Seq(Letter)
BY PartsType, ConcatenatedIs, FlattenType

LEMMA ConcatenatedAppend ==
  ASSUME NEW list \in Seq(Sections), NEW x \in Sections
  PROVE  Envelope!Concatenated(Append(list, x)) = Joined(Envelope!Concatenated(list), x.bytes)
<1>1. Append(list, x) \in Seq(Sections) /\ Length(Append(list, x)) = Length(list) + 1
  BY LengthAppend
<1>2. x.bytes \in Seq(Letter) /\ Length(list) \in Nat
  BY LengthType DEF Sections
<1>3. PICK s : s = Parts(list)
  OBVIOUS
<1>4. s \in Seq(Seq(Letter)) /\ Length(s) = Length(list)
      /\ \A i \in 1 .. Length(list) : s[i] = list[i].bytes
  BY <1>3, PartsType
<1>5. PICK t : t = Append(list, x)
  OBVIOUS
<1>6. /\ Parts(t) \in Seq(Seq(Letter)) /\ Length(Parts(t)) = Length(list) + 1
      /\ \A i \in 1 .. Length(list) + 1 : Parts(t)[i] = t[i].bytes
  BY <1>1, <1>5, PartsType
<1>7. /\ Append(s, x.bytes) \in Seq(Seq(Letter))
      /\ Length(Append(s, x.bytes)) = Length(list) + 1
  BY ONLY <1>2, <1>4, LengthAppend
<1>8. ASSUME NEW i \in 1 .. Length(list) + 1
      PROVE  Parts(t)[i] = Append(s, x.bytes)[i]
  <2>1. CASE i \in 1 .. Length(list)
    <3>1. t[i] = list[i]
      BY <1>5, <2>1, AppendProperties DEF Length
    <3>2. Append(s, x.bytes)[i] = s[i]
      <4>1. i \in 1 .. Len(s)
        BY <1>4, <2>1 DEF Length
      <4> QED
        BY <1>2, <1>4, <4>1, AppendProperties
    <3> QED
      BY <1>4, <1>6, <2>1, <3>1, <3>2
  <2>2. CASE i = Length(list) + 1
    <3>1. t[i] = x
      BY <1>5, <2>2, AppendProperties DEF Length
    <3>2. Append(s, x.bytes)[i] = x.bytes
      <4>1. i = Len(s) + 1
        BY <1>4, <2>2 DEF Length
      <4> QED
        BY <1>2, <1>4, <4>1, AppendProperties
    <3> QED
      BY <1>6, <3>1, <3>2
  <2>3. i \in 1 .. Length(list) \/ i = Length(list) + 1
    BY <1>2
  <2> QED
    BY ONLY <2>1, <2>2, <2>3
<1>9. Parts(t) = Append(s, x.bytes)
  BY ONLY <1>6, <1>7, <1>8, SameElements
<1>10. Digest!FlattenSeq(Append(s, x.bytes)) = Joined(Digest!FlattenSeq(s), x.bytes)
  BY ONLY <1>2, <1>4, FlattenJoins
<1> QED
  BY ONLY <1>3, <1>5, <1>9, <1>10, ConcatenatedIs

LEMMA PrefixType ==
  ASSUME NEW list \in Seq(Sections), NEW i \in 0 .. Length(list)
  PROVE  Prefix(list, i) \in Seq(Letter) /\ Length(Prefix(list, i)) \in Nat
<1>1. SubSeq(list, 1, i) \in Seq(Sections)
  BY SplitAt
<1>2. Prefix(list, i) \in Seq(Letter)
  BY <1>1, ConcatenatedType DEF Prefix
<1> QED
  BY <1>2, LengthType

LEMMA PrefixWhole ==
  ASSUME NEW list \in Seq(Sections)
  PROVE  Prefix(list, Length(list)) = Envelope!Concatenated(list)
<1>1. SubSeq(list, 1, Len(list)) = list
  BY SubSeqFull
<1>2. SubSeq(list, 1, Length(list)) = list
  BY <1>1 DEF Length
<1> QED
  BY <1>2 DEF Prefix

LEMMA PrefixStep ==
  ASSUME NEW list \in Seq(Sections), NEW i \in 1 .. Length(list)
  PROVE  Prefix(list, i) = Joined(Prefix(list, i - 1), list[i].bytes)
<1>1. Length(list) \in Nat /\ list[i] \in Sections
  BY LengthType, SectionAt
<1>2. PICK j : j = i - 1
  OBVIOUS
<1>3. j \in 0 .. Length(list) /\ i \in 0 .. Length(list) /\ i = j + 1 /\ j \in Nat
  BY <1>1, <1>2
<1>4. PICK s : s = SubSeq(list, 1, j)
  OBVIOUS
<1>5. PICK t : t = SubSeq(list, 1, i)
  OBVIOUS
<1>6. s \in Seq(Sections) /\ Length(s) = j
  BY <1>3, <1>4, SplitAt
<1>7. t \in Seq(Sections) /\ Length(t) = i
  BY <1>3, <1>5, SplitAt
<1>8. \A k \in 1 .. i : t[k] = list[k]
  BY <1>1, <1>5, SubSeqProperties DEF Length
<1>9. \A k \in 1 .. j : s[k] = list[k]
  BY <1>1, <1>3, <1>4, SubSeqProperties DEF Length
<1>10. PICK u : u = Append(s, list[i])
  OBVIOUS
<1>11. u \in Seq(Sections) /\ Length(u) = i
  BY <1>1, <1>3, <1>6, <1>10, LengthAppend
<1>12. ASSUME NEW k \in 1 .. i PROVE t[k] = u[k]
  <2>1. Len(s) = j
    BY <1>6 DEF Length
  <2>2. CASE k \in 1 .. j
    <3>1. u[k] = s[k]
      BY <1>1, <1>6, <1>10, <2>1, <2>2, AppendProperties
    <3> QED
      BY <1>8, <1>9, <2>2, <3>1
  <2>3. CASE k = i
    <3>1. u[k] = list[i]
      BY <1>1, <1>3, <1>6, <1>10, <2>1, <2>3, AppendProperties
    <3> QED
      BY <1>8, <2>3, <3>1
  <2> QED
    BY <1>3, <2>2, <2>3
<1>13. t = u
  BY ONLY <1>7, <1>11, <1>12, SameElements
<1>14. Envelope!Concatenated(u) = Joined(Envelope!Concatenated(s), list[i].bytes)
  BY <1>1, <1>6, <1>10, ConcatenatedAppend
<1> QED
  BY ONLY <1>2, <1>4, <1>5, <1>13, <1>14 DEF Prefix

(* The bytes of a section follow those before it, and others follow them.  *)
LEMMA PrefixGrows ==
  ASSUME NEW list \in Seq(Sections), NEW i \in 0 .. Length(list), NEW j \in i .. Length(list)
  PROVE  \E r \in Seq(Letter) : Prefix(list, j) = Joined(Prefix(list, i), r)
<1> DEFINE Q(k) == \E r \in Seq(Letter) : Prefix(list, k) = Joined(Prefix(list, i), r)
           T == {k \in i .. Length(list) : ~Q(k)}
<1> SUFFICES ASSUME T # {} PROVE FALSE
  OBVIOUS
<1>1. Length(list) \in Nat
  BY LengthType
<1>2. T \in SUBSET Nat
  BY <1>1
<1>3. PICK k \in T : \A y \in T : k <= y
  <2> HIDE DEF T
  <2> QED
    BY <1>2, LeastNumber
<1>4. k \in i .. Length(list) /\ ~Q(k)
  BY <1>3
<1>5. k # i
  <2>1. Prefix(list, i) \in Seq(Letter)
    BY PrefixType
  <2>2. Prefix(list, i) = Joined(Prefix(list, i), <<>>)
    BY <2>1, JoinedEmpty
  <2>3. <<>> \in Seq(Letter)
    OBVIOUS
  <2> QED
    BY <1>4, <2>2, <2>3
<1>6. k - 1 \in i .. Length(list) /\ k - 1 \notin T /\ k \in 1 .. Length(list)
  BY <1>1, <1>3, <1>4, <1>5
<1>7. PICK r \in Seq(Letter) : Prefix(list, k - 1) = Joined(Prefix(list, i), r)
  BY <1>6
<1>8. Prefix(list, k) = Joined(Prefix(list, k - 1), list[k].bytes)
  BY <1>6, PrefixStep
<1>9. Prefix(list, i) \in Seq(Letter) /\ list[k].bytes \in Seq(Letter)
  BY <1>6, PrefixType, SectionAt
<1>10. Prefix(list, k) = Joined(Prefix(list, i), Joined(r, list[k].bytes))
  BY <1>7, <1>8, <1>9, JoinedAssociates
<1>11. Joined(r, list[k].bytes) \in Seq(Letter)
  BY <1>9, JoinedType
<1> QED
  BY <1>4, <1>10, <1>11

-----------------------------------------------------------------------------
(* The envelope: the round trip.                                           *)

(* An encoding, field by field.                                            *)
LEMMA EncodedIs ==
  ASSUME NEW list \in Seq(Sections), NEW b, b = Envelope!encode("LEVOLM02", list),
         NEW n, n = Length(list), NEW h, h = Envelope!HeaderBytes(n)
  PROVE  /\ b = [fields |-> b.fields, digest |-> b.fields]
         /\ b.fields.magic = "LEVOLM02" /\ b.fields.version = 1 /\ b.fields.stage = 1
         /\ b.fields.count = n /\ b.fields.header = h
         /\ b.fields.total = Envelope!TotalBytes(list)
         /\ b.fields.payload = Prefix(list, n)
         /\ b.fields.directory
              = [i \in 1 .. n |-> [kind |-> list[i].kind, offset |-> Envelope!OffsetOf(list, i),
                                   count |-> Length(list[i].bytes)]]
         /\ b.fields = [magic |-> "LEVOLM02", version |-> 1, stage |-> 1, count |-> n,
                        header |-> h, total |-> b.fields.total,
                        directory |-> b.fields.directory, payload |-> b.fields.payload]
<1>1. n = Len(list)
  BY DEF Length
<1>2. Envelope!Concatenated(list) = Prefix(list, n)
  BY PrefixWhole
<1> QED
  BY <1>1, <1>2 DEF Envelope!encode, Length

LEMMA EncodedHeader ==
  ASSUME NEW list \in Seq(Sections), NEW b, b = Envelope!encode("LEVOLM02", list)
  PROVE  /\ b.fields.magic = "LEVOLM02" /\ b.fields.version = 1 /\ b.fields.stage = 1
         /\ b.fields.count = Length(list)
         /\ b.fields.header = Envelope!HeaderBytes(Length(list))
         /\ b.fields.total = Envelope!TotalBytes(list)
         /\ b.fields.payload = Prefix(list, Length(list))
<1>1. Length(list) = Len(list)
  BY DEF Length
<1>2. Envelope!Concatenated(list) = Prefix(list, Length(list))
  BY PrefixWhole
<1> QED
  BY <1>1, <1>2 DEF Envelope!encode, Length

LEMMA EncodedEntry ==
  ASSUME NEW list \in Seq(Sections), NEW b, b = Envelope!encode("LEVOLM02", list),
         NEW i \in 1 .. Length(list)
  PROVE  b.fields.directory[i]
           = [kind |-> list[i].kind, offset |-> Envelope!OffsetOf(list, i),
              count |-> Length(list[i].bytes)]
<1>1. i \in 1 .. Len(list)
  BY DEF Length
<1> QED
  BY <1>1 DEF Envelope!encode, Length

LEMMA OffsetIs ==
  ASSUME NEW list \in Seq(Sections), NEW i \in 1 .. Length(list),
         NEW h, h = Envelope!HeaderBytes(Length(list))
  PROVE  /\ Envelope!OffsetOf(list, i) = h + Length(Prefix(list, i - 1))
         /\ Envelope!OffsetOf(list, i) + Length(list[i].bytes) = h + Length(Prefix(list, i))
         /\ Length(list[i].bytes) \in Nat /\ h \in Nat
         /\ Length(Prefix(list, i - 1)) \in Nat /\ Length(Prefix(list, i)) \in Nat
<1>1. Length(list) \in Nat
  BY LengthType
<1>2. PICK j : j = i - 1
  OBVIOUS
<1>3. j \in 0 .. Length(list) /\ i \in 0 .. Length(list)
  BY <1>1, <1>2
<1>4. Prefix(list, j) \in Seq(Letter) /\ Length(Prefix(list, j)) \in Nat
  BY <1>3, PrefixType
<1>5. Length(Prefix(list, i)) \in Nat
  BY <1>3, PrefixType
<1>6. list[i].bytes \in Seq(Letter) /\ Length(list[i].bytes) \in Nat
  BY SectionAt, LengthType
<1>7. Prefix(list, i) = Joined(Prefix(list, j), list[i].bytes)
  BY <1>2, PrefixStep
<1>8. Length(Prefix(list, i)) = Length(Prefix(list, j)) + Length(list[i].bytes)
  BY ONLY <1>4, <1>6, <1>7, JoinedType
<1>9. h \in Nat
  BY <1>1, HeaderType
<1>10. Envelope!OffsetOf(list, i) = h + Length(Prefix(list, j))
  BY <1>2 DEF Envelope!OffsetOf, Prefix, Length
<1>11. h + Length(Prefix(list, j)) + Length(list[i].bytes) = h + Length(Prefix(list, i))
  BY ONLY <1>4, <1>6, <1>8, <1>9
<1> QED
  BY ONLY <1>2, <1>4, <1>5, <1>6, <1>9, <1>10, <1>11

LEMMA TotalIs ==
  ASSUME NEW list \in Seq(Sections), NEW h, h = Envelope!HeaderBytes(Length(list))
  PROVE  /\ Envelope!TotalBytes(list) = h + Length(Prefix(list, Length(list)))
         /\ Length(Prefix(list, Length(list))) \in Nat /\ h \in Nat
         /\ Prefix(list, Length(list)) \in Seq(Letter)
<1>1. Length(list) \in Nat
  BY LengthType
<1>2. Length(list) \in 0 .. Length(list)
  BY <1>1
<1>3. /\ Length(Prefix(list, Length(list))) \in Nat
      /\ Prefix(list, Length(list)) \in Seq(Letter)
  BY <1>2, PrefixType
<1>4. h \in Nat
  BY <1>1, HeaderType
<1>5. Envelope!TotalBytes(list) = h + Length(Prefix(list, Length(list)))
  BY PrefixWhole DEF Envelope!TotalBytes, Length
<1> QED
  BY <1>3, <1>4, <1>5

LEMMA PrefixBounds ==
  ASSUME NEW list \in Seq(Sections), NEW i \in 0 .. Length(list), NEW j \in i .. Length(list)
  PROVE  Length(Prefix(list, i)) <= Length(Prefix(list, j))
<1>1. PICK r \in Seq(Letter) : Prefix(list, j) = Joined(Prefix(list, i), r)
  BY PrefixGrows
<1>2. Prefix(list, i) \in Seq(Letter) /\ Length(Prefix(list, i)) \in Nat
  BY PrefixType
<1>3. Length(r) \in Nat
  BY LengthType
<1>4. Length(Prefix(list, j)) = Length(Prefix(list, i)) + Length(r)
  BY <1>1, <1>2, JoinedType
<1> QED
  BY <1>2, <1>3, <1>4

LEMMA EncodedFields ==
  ASSUME NEW list \in Seq(Sections), list # <<>>, NEW b, b = Envelope!encode("LEVOLM02", list)
  PROVE  FieldsOk(b.fields) /\ b.digest = b.fields
<1>1. PICK n : n = Length(list)
  OBVIOUS
<1>2. PICK h : h = Envelope!HeaderBytes(n)
  OBVIOUS
<1>3. n \in Nat /\ n # 0 /\ h \in Nat
  BY <1>1, <1>2, LengthType, HeaderType
<1>4. PICK f : f = b.fields
  OBVIOUS
<1>5. /\ b = [fields |-> b.fields, digest |-> b.fields]
      /\ f.total = Envelope!TotalBytes(list) /\ f.payload = Prefix(list, n)
      /\ f.directory
           = [i \in 1 .. n |-> [kind |-> list[i].kind, offset |-> Envelope!OffsetOf(list, i),
                                count |-> Length(list[i].bytes)]]
      /\ f = [magic |-> "LEVOLM02", version |-> 1, stage |-> 1, count |-> n,
              header |-> h, total |-> f.total, directory |-> f.directory, payload |-> f.payload]
  BY ONLY <1>1, <1>2, <1>4, list \in Seq(Sections), b = Envelope!encode("LEVOLM02", list), EncodedIs
<1>6. f.total \in Nat /\ f.payload \in Seq(Letter)
  BY <1>1, <1>2, <1>5, TotalIs
<1>7. \A i \in 1 .. n : [kind |-> list[i].kind, offset |-> Envelope!OffsetOf(list, i),
                         count |-> Length(list[i].bytes)] \in Entries
  BY <1>1, SectionAt, OffsetIs DEF Entries
<1>8. f.directory \in [1 .. n -> Entries]
  BY <1>5, <1>7
<1>9. f.directory \in Seq(Entries) /\ Length(f.directory) = n
  BY <1>3, <1>8, LengthOfFunction
<1>10. f.directory # <<>>
  BY <1>3, <1>9, LengthType
<1>11. f \in Fields
  <2>1. f = [magic |-> "LEVOLM02", version |-> 1, stage |-> 1, count |-> n,
              header |-> h, total |-> f.total, directory |-> f.directory, payload |-> f.payload]
    BY ONLY <1>5
  <2> QED
    BY ONLY <2>1, <1>3, <1>6, <1>9, SMTT(20) DEF Fields
<1>12. f.count = n
  BY ONLY <1>5
<1>13. b.digest = b.fields
  BY ONLY <1>5
<1> QED
  BY ONLY <1>4, <1>9, <1>10, <1>11, <1>12, <1>13 DEF FieldsOk

(* Every entry of an encoding is in range, and they follow each other.     *)
LEMMA EncodedEntries ==
  ASSUME NEW list \in Seq(Sections), Envelope!TotalBytes(list) <= MaxBlob,
         NEW b, b = Envelope!encode("LEVOLM02", list), NEW i \in 1 .. Length(list),
         NEW h, h = Envelope!HeaderBytes(Length(list)), NEW e, e = b.fields.directory[i]
  PROVE  /\ e = [kind |-> list[i].kind, offset |-> h + Length(Prefix(list, i - 1)),
                 count |-> Length(list[i].bytes)]
         /\ Envelope!CheckedAdd(e.offset, e.count) = h + Length(Prefix(list, i))
         /\ e.offset + e.count = h + Length(Prefix(list, i))
         /\ Envelope!InRange(b, e)
<1>1. PICK n : n = Length(list)
  OBVIOUS
<1>2. n \in Nat /\ i \in 0 .. n /\ n \in i .. n /\ i \in 1 .. n
  BY <1>1, LengthType
<1>3. b.fields.header = h /\ b.fields.total = Envelope!TotalBytes(list)
  BY EncodedHeader
<1>4. e = [kind |-> list[i].kind, offset |-> Envelope!OffsetOf(list, i),
           count |-> Length(list[i].bytes)]
  BY EncodedEntry
<1>5. PICK o : o = Length(Prefix(list, i - 1))
  OBVIOUS
<1>6. PICK p : p = Length(Prefix(list, i))
  OBVIOUS
<1>7. PICK c : c = Length(list[i].bytes)
  OBVIOUS
<1>8. /\ Envelope!OffsetOf(list, i) = h + o /\ Envelope!OffsetOf(list, i) + c = h + p
      /\ c \in Nat /\ h \in Nat /\ o \in Nat /\ p \in Nat
  BY <1>1, <1>5, <1>6, <1>7, OffsetIs
<1>9. PICK q : q = Length(Prefix(list, n))
  OBVIOUS
<1>10. q \in Nat /\ Envelope!TotalBytes(list) = h + q
  BY <1>1, <1>9, TotalIs
<1>11. p <= q
  BY <1>1, <1>2, <1>6, <1>9, PrefixBounds
<1>12. Word \in Nat /\ MaxBlob \in Nat /\ MaxBlob < Word
  BY WordType
<1>13. h + o + c = h + p /\ h + p <= MaxBlob /\ h + p <= Word - 1
  BY ONLY <1>8, <1>10, <1>11, <1>12, Envelope!TotalBytes(list) <= MaxBlob
<1>14. e.offset = h + o /\ e.count = c /\ e.kind = list[i].kind
  BY <1>4, <1>7, <1>8
<1>15. Envelope!CheckedAdd(e.offset, e.count) = h + p
  <2>1. ~(c > Word - 1 - (h + o))
    BY ONLY <1>8, <1>12, <1>13
  <2>2. Envelope!CheckedAdd(h + o, c) = h + o + c
    BY <2>1 DEF Envelope!CheckedAdd
  <2> QED
    BY ONLY <1>13, <1>14, <2>2
<1>16. list[i].kind # 0
  BY SectionAt
<1>17. Envelope!InRange(b, e)
  <2>1. e.kind # 0 /\ e.offset >= b.fields.header
    BY ONLY <1>3, <1>8, <1>14, <1>16
  <2>2. h + p \in 0 .. b.fields.total
    BY ONLY <1>3, <1>8, <1>10, <1>11
  <2> QED
    BY ONLY <1>15, <2>1, <2>2 DEF Envelope!InRange
<1> QED
  BY ONLY <1>4, <1>5, <1>6, <1>7, <1>8, <1>13, <1>14, <1>15, <1>17

(* The directory of an encoding is in the order of its offsets.            *)
LEMMA EncodedOrder ==
  ASSUME NEW list \in Seq(Sections), list # <<>>, Envelope!TotalBytes(list) <= MaxBlob,
         NEW b, b = Envelope!encode("LEVOLM02", list), NEW i \in 1 .. Length(list)
  PROVE  Envelope!Preceding(b, i) = 1 .. i - 1 /\ Rank(b, i) = i - 1
<1>1. PICK d : d = b.fields.directory
  OBVIOUS
<1>2. PICK n : n = Length(list)
  OBVIOUS
<1>3. n \in Nat
  BY <1>2, LengthType
<1>4. d \in Seq(Entries) /\ Length(d) = n
  <2>1. FieldsOk(b.fields)
    BY EncodedFields
  <2>2. b.fields.count = n
    BY <1>2, EncodedHeader
  <2> QED
    BY ONLY <1>1, <2>1, <2>2 DEF FieldsOk, Fields
<1>5. ASSUME NEW j \in 1 .. n, NEW k \in 1 .. n, j < k
      PROVE  d[j].offset <= d[k].offset
  <2>1. PICK h : h = Envelope!HeaderBytes(Length(list))
    OBVIOUS
  <2>2. d[j].offset = h + Length(Prefix(list, j - 1))
    BY <1>1, <1>2, <2>1, EncodedEntries
  <2>3. d[k].offset = h + Length(Prefix(list, k - 1))
    BY <1>1, <1>2, <2>1, EncodedEntries
  <2>4. PICK x : x = j - 1
    OBVIOUS
  <2>5. PICK y : y = k - 1
    OBVIOUS
  <2>6. x \in 0 .. Length(list) /\ y \in x .. Length(list) /\ y \in 0 .. Length(list)
    BY <1>2, <1>3, <1>5, <2>4, <2>5
  <2>7. /\ Length(Prefix(list, x)) <= Length(Prefix(list, y))
        /\ Length(Prefix(list, x)) \in Nat /\ Length(Prefix(list, y)) \in Nat
    BY <2>6, PrefixBounds, PrefixType
  <2>8. h \in Nat
    BY <1>2, <1>3, <2>1, HeaderType
  <2> QED
    BY ONLY <2>2, <2>3, <2>4, <2>5, <2>7, <2>8
<1>6. \A k \in 1 .. n : d[k].offset \in Nat
  BY <1>4, EntryAt
<1>7. ASSUME NEW j \in 1 .. n PROVE Before(d, j, i) <=> j \in 1 .. i - 1
  <2>0. i \in 1 .. n /\ i \in Nat /\ j \in Nat
    BY <1>2, <1>3
  <2>1. CASE j < i
    <3>1. d[j].offset <= d[i].offset
      BY <1>5, <2>0, <2>1
    <3> QED
      BY ONLY <1>6, <2>0, <2>1, <3>1, <1>3, j \in 1 .. n DEF Before
  <2>2. CASE i < j
    <3>1. d[i].offset <= d[j].offset
      BY <1>5, <2>0, <2>2
    <3> QED
      BY ONLY <1>6, <2>0, <2>2, <3>1, <1>3, j \in 1 .. n DEF Before
  <2>3. CASE i = j
    BY ONLY <1>6, <2>0, <2>3, <1>3, j \in 1 .. n DEF Before
  <2> QED
    BY ONLY <2>0, <2>1, <2>2, <2>3
<1>8. Envelope!Preceding(b, i) = {j \in 1 .. n : Before(d, j, i)}
  BY <1>1, <1>2, <1>4, PrecedingIs
<1>9. Envelope!Preceding(b, i) = 1 .. i - 1
  <2>1. i \in 1 .. n
    BY <1>2
  <2>2. \A j \in 1 .. i - 1 : j \in 1 .. n
    BY <1>3, <2>1
  <2> QED
    BY ONLY <1>7, <1>8, <2>2
<1>10. Envelope!Cardinality(1 .. i - 1) = i - 1
  <2>1. i - 1 \in Nat
    BY <1>2, <1>3
  <2>2. Cardinality(1 .. i - 1) = i - 1
    BY <2>1, FS_Interval
  <2> QED
    BY <2>2, SameCardinality
<1> QED
  BY <1>9, <1>10 DEF Rank

LEMMA EncodedApart ==
  ASSUME NEW list \in Seq(Sections), list # <<>>, Envelope!TotalBytes(list) <= MaxBlob,
         NEW b, b = Envelope!encode("LEVOLM02", list)
  PROVE  ~Envelope!Overlap(b)
<1>1. PICK d : d = b.fields.directory
  OBVIOUS
<1>2. PICK n : n = Length(list)
  OBVIOUS
<1>3. PICK h : h = Envelope!HeaderBytes(n)
  OBVIOUS
<1>4. n \in Nat /\ n # 0 /\ h \in Nat
  BY <1>2, <1>3, LengthType, HeaderType
<1>5. d \in Seq(Entries) /\ Length(d) = n
  <2>1. FieldsOk(b.fields)
    BY EncodedFields
  <2>2. b.fields.count = n
    BY <1>2, EncodedHeader
  <2> QED
    BY ONLY <1>1, <2>1, <2>2 DEF FieldsOk, Fields
<1>6. ASSUME NEW i \in 1 .. n
      PROVE  /\ Envelope!Ranges(b)[i] = Envelope!RangeAt(b, i)
             /\ DOMAIN Envelope!Ranges(b) = 1 .. n
  <2>1. Rank(b, i) = i - 1
    BY <1>2, EncodedOrder
  <2>2. i = Rank(b, i) + 1
    BY <2>1
  <2> QED
    BY <1>1, <1>5, <2>2, RangesAtRank
<1>7. Len(Envelope!Ranges(b)) = n
  <2>1. DOMAIN Envelope!Ranges(b) = 1 .. n
    BY <1>4, <1>6
  <2> QED
    BY <1>4, <2>1
<1>8. ASSUME NEW i \in 2 .. n
      PROVE  ~Envelope!NeighboursOverlap(Envelope!Ranges(b), i)
  <2>1. PICK j : j = i - 1
    OBVIOUS
  <2>2. j \in 1 .. n /\ i \in 1 .. n /\ j \in 0 .. n
    BY <1>4, <2>1
  <2>3. Envelope!CheckedAdd(d[j].offset, d[j].count) = h + Length(Prefix(list, j))
    BY <1>1, <1>2, <1>3, <2>2, EncodedEntries
  <2>4. d[i].offset = h + Length(Prefix(list, i - 1))
    BY <1>1, <1>2, <1>3, <2>2, EncodedEntries
  <2>5. Envelope!RangeAt(b, j).end = h + Length(Prefix(list, j))
    BY <1>1, <2>3 DEF Envelope!RangeAt
  <2>6. Envelope!RangeAt(b, i).begin = h + Length(Prefix(list, i - 1))
    BY <1>1, <2>4 DEF Envelope!RangeAt
  <2>7. Length(Prefix(list, j)) \in Nat
    BY <1>2, <2>2, PrefixType
  <2>8. ~(h + Length(Prefix(list, j)) > h + Length(Prefix(list, j)))
    BY <1>4, <2>7
  <2>9. /\ Envelope!Ranges(b)[j] = Envelope!RangeAt(b, j)
        /\ Envelope!Ranges(b)[i] = Envelope!RangeAt(b, i)
    BY <1>6, <2>2
  <2> QED
    BY ONLY <2>1, <2>5, <2>6, <2>8, <2>9 DEF Envelope!NeighboursOverlap
<1> QED
  BY <1>7, <1>8 DEF Envelope!Overlap

LEMMA EncodedAccepted ==
  ASSUME NEW list \in Seq(Sections), list # <<>>, Envelope!TotalBytes(list) <= MaxBlob,
         NEW b, b = Envelope!encode("LEVOLM02", list)
  PROVE  Envelope!Accepted(b, "LEVOLM02")
<1>1. PICK n : n = Length(list)
  OBVIOUS
<1>2. PICK h : h = Envelope!HeaderBytes(n)
  OBVIOUS
<1>3. n \in Nat /\ h \in Nat
  BY <1>1, <1>2, LengthType, HeaderType
<1>4. /\ b.fields.magic = "LEVOLM02" /\ b.fields.version = 1 /\ b.fields.stage = 1
      /\ b.fields.count = n /\ b.fields.header = h
      /\ b.fields.total = Envelope!TotalBytes(list)
      /\ b.fields.payload = Prefix(list, n)
  BY <1>1, <1>2, EncodedHeader
<1>5. FieldsOk(b.fields) /\ b.digest = b.fields
  BY EncodedFields
<1>6. PICK d : d = b.fields.directory
  OBVIOUS
<1>7. d \in Seq(Entries) /\ Length(d) = n
  BY <1>4, <1>5, <1>6 DEF FieldsOk, Fields
<1>8. PICK q : q = Length(Prefix(list, n))
  OBVIOUS
<1>9. Envelope!TotalBytes(list) = h + q /\ q \in Nat
  BY <1>1, <1>2, <1>8, TotalIs
<1>10. Envelope!Size(b) = h + q
  <2>1. Len(b.fields.directory) = n /\ Len(b.fields.payload) = q
    BY <1>4, <1>6, <1>7, <1>8 DEF Length
  <2>2. Envelope!Size(b) = Envelope!HeaderBytes(Len(b.fields.directory)) + Len(b.fields.payload)
    BY DEF Envelope!Size
  <2> QED
    BY ONLY <1>2, <2>1, <2>2
<1>11. /\ Envelope!Size(b) <= MaxBlob /\ b.fields.stage # 0
       /\ b.fields.header = Envelope!HeaderBytes(b.fields.count)
       /\ b.fields.total = Envelope!Size(b) /\ b.fields.total >= b.fields.header
  BY ONLY <1>2, <1>3, <1>4, <1>9, <1>10, Envelope!TotalBytes(list) <= MaxBlob
<1>12. Envelope!HeaderAccepted(b, "LEVOLM02")
  BY ONLY <1>4, <1>11 DEF Envelope!HeaderAccepted
<1>13. \A i \in 1 .. n : Envelope!InRange(b, d[i])
  BY <1>1, <1>2, <1>6, EncodedEntries
<1>14. DOMAIN b.fields.directory = 1 .. n
  BY <1>6, <1>7 DEF Length
<1>15. ~Envelope!Overlap(b)
  BY EncodedApart
<1> QED
  BY ONLY <1>5, <1>6, <1>12, <1>13, <1>14, <1>15 DEF Envelope!Accepted, Envelope!DigestMatches

(* The bytes read at an entry are those of the section.                    *)
LEMMA EncodedBytes ==
  ASSUME NEW list \in Seq(Sections), list # <<>>, Envelope!TotalBytes(list) <= MaxBlob,
         NEW b, b = Envelope!encode("LEVOLM02", list), NEW i \in 1 .. Length(list),
         NEW e, e = b.fields.directory[i]
  PROVE  /\ Envelope!BytesAt(b, e.offset, Envelope!CheckedAdd(e.offset, e.count)) = list[i].bytes
         /\ e.kind = list[i].kind
<1>1. PICK n : n = Length(list)
  OBVIOUS
<1>2. PICK h : h = Envelope!HeaderBytes(n)
  OBVIOUS
<1>3. n \in Nat /\ h \in Nat /\ i - 1 \in 0 .. n /\ i \in 0 .. n /\ n \in i .. n
  <2>1. n \in Nat
    BY <1>1, LengthType
  <2>2. h \in Nat
    BY <1>2, <2>1, HeaderType
  <2>3. i \in 1 .. n
    BY <1>1
  <2> QED
    BY ONLY <2>1, <2>2, <2>3
<1>4. PICK s : s = Prefix(list, i - 1)
  OBVIOUS
<1>5. PICK t : t = list[i].bytes
  OBVIOUS
<1>6. PICK o : o = Length(s)
  OBVIOUS
<1>7. PICK c : c = Length(t)
  OBVIOUS
<1>8. s \in Seq(Letter) /\ t \in Seq(Letter) /\ o \in Nat /\ c \in Nat
  BY <1>1, <1>3, <1>4, <1>5, <1>6, <1>7, PrefixType, SectionAt, LengthType
<1>9. Prefix(list, i) = Joined(s, t) /\ Length(Joined(s, t)) = o + c
      /\ Joined(s, t) \in Seq(Letter)
  BY <1>4, <1>5, <1>6, <1>7, <1>8, PrefixStep, JoinedType
<1>10. PICK r \in Seq(Letter) : Prefix(list, n) = Joined(Joined(s, t), r)
  BY <1>1, <1>3, <1>9, PrefixGrows
<1>11. /\ e = [kind |-> list[i].kind, offset |-> h + o, count |-> c]
       /\ Envelope!CheckedAdd(e.offset, e.count) = h + (o + c)
  BY <1>1, <1>2, <1>4, <1>5, <1>6, <1>7, <1>9, EncodedEntries
<1>12. b.fields.count = n /\ b.fields.payload = Prefix(list, n)
  BY <1>1, <1>2, EncodedHeader
<1>13. FieldsOk(b.fields)
  BY EncodedFields
<1>14. PICK p : p = Payload(b)
  OBVIOUS
<1>15. /\ Directory(b) \in Seq(Entries) /\ p \in Seq(Letter) /\ Length(Directory(b)) = n
       /\ p = Prefix(list, n)
  BY ONLY <1>12, <1>13, <1>14 DEF FieldsOk, Fields, Directory, Payload
<1>16. Length(r) \in Nat /\ Length(p) = o + c + Length(r)
  BY <1>8, <1>9, <1>10, <1>15, LengthType, JoinedType
<1>17. PICK x : x = h + o
  OBVIOUS
<1>18. PICK w : w = x + c
  OBVIOUS
<1>19. /\ x \in Nat /\ h <= x /\ w <= h + Length(p) /\ w = h + (o + c) /\ x - h = o
       /\ w = x + c
  BY ONLY <1>3, <1>8, <1>16, <1>17, <1>18
<1>20. Located(b, p, h, x, c, w)
  BY ONLY <1>2, <1>3, <1>8, <1>14, <1>15, <1>19 DEF Located
<1>21. PICK y : y = Envelope!BytesAt(b, x, w)
  OBVIOUS
<1>22. y \in Seq(Letter) /\ Length(y) = c
  BY ONLY <1>20, <1>21, BytesLength
<1>23. ASSUME NEW k \in 1 .. c PROVE y[k] = t[k]
  <2>1. y[k] = p[o + k]
    <3>1. Envelope!BytesAt(b, x, w)[k] = p[x - h + k]
      BY ONLY <1>20, k \in 1 .. c, ByteAt
    <3> QED
      BY ONLY <1>19, <1>21, <3>1
  <2>2. PICK m : m = o + k
    OBVIOUS
  <2>3. m \in 1 .. o + c /\ m \in 1 .. o + c + Length(r) /\ ~(m <= o) /\ m - o = k /\ m <= o + c
    BY <1>8, <1>16, <2>2
  <2>4. p[m] = Joined(s, t)[m]
    <3>1. PICK q : q = Joined(s, t)
      OBVIOUS
    <3>2. /\ q \in Seq(Letter) /\ Length(q) = o + c /\ p = Joined(q, r)
          /\ m \in 1 .. Length(q) + Length(r) /\ m <= Length(q)
      BY <1>9, <1>10, <1>15, <2>3, <3>1
    <3>3. p[m] = q[m]
      BY ONLY <3>2, r \in Seq(Letter), JoinedAt
    <3> QED
      BY ONLY <3>1, <3>3
  <2>5. Joined(s, t)[m] = t[k]
    <3>1. /\ m \in 1 .. Length(s) + Length(t) /\ ~(m <= Length(s)) /\ m - Length(s) = k
          /\ s \in Seq(Letter) /\ t \in Seq(Letter)
      BY ONLY <1>6, <1>7, <1>8, <2>3
    <3>2. Joined(s, t)[m] = IF m <= Length(s) THEN s[m] ELSE t[m - Length(s)]
      BY ONLY <3>1, JoinedAt
    <3> QED
      BY ONLY <3>1, <3>2
  <2> QED
    BY <2>1, <2>2, <2>4, <2>5
<1>24. y = t
  BY ONLY <1>7, <1>8, <1>22, <1>23, SameElements
<1>25. e.offset = x /\ Envelope!CheckedAdd(e.offset, e.count) = w
  BY <1>11, <1>17, <1>19
<1> QED
  BY <1>5, <1>11, <1>21, <1>24, <1>25

LEMMA RoundTrip ==
  ASSUME NEW list \in Seq(Sections), list # <<>>, Envelope!TotalBytes(list) <= MaxBlob
  PROVE  Envelope!decode(Envelope!encode("LEVOLM02", list), "LEVOLM02")
           = Envelope!Outcome("accepted", list)
<1>1. PICK b : b = Envelope!encode("LEVOLM02", list)
  OBVIOUS
<1>2. PICK n : n = Length(list)
  OBVIOUS
<1>3. n \in Nat
  BY <1>2, LengthType
<1>4. Envelope!Accepted(b, "LEVOLM02")
  BY <1>1, EncodedAccepted
<1>5. FieldsOk(b.fields)
  BY <1>1, EncodedFields
<1>6. b.fields.count = n
  BY <1>1, <1>2, EncodedHeader
<1>7. DOMAIN b.fields.directory = 1 .. n /\ b.fields.directory # <<>>
  <2>1. /\ b.fields.directory \in Seq(Entries) /\ b.fields.directory # <<>>
        /\ Length(b.fields.directory) = n
    BY <1>5, <1>6 DEF FieldsOk, Fields
  <2>2. DOMAIN b.fields.directory = 1 .. Length(b.fields.directory)
    BY <2>1 DEF Length
  <2> QED
    BY ONLY <2>1, <2>2
<1>8. PICK l : l = [i \in DOMAIN b.fields.directory |->
            LET e == b.fields.directory[i]
            IN [kind |-> e.kind,
                bytes |-> Envelope!BytesAt(b, e.offset, Envelope!CheckedAdd(e.offset, e.count))]]
  OBVIOUS
<1>9. Envelope!decode(b, "LEVOLM02") = Envelope!Outcome("accepted", l)
  BY <1>4, <1>7, <1>8 DEF Envelope!decode
<1>10. \A i \in 1 .. n : list[i] = [kind |-> list[i].kind, bytes |-> list[i].bytes]
  BY <1>2, SectionAt DEF Sections
<1>11. ASSUME NEW i \in 1 .. n PROVE l[i] = list[i]
  <2>1. PICK e : e = b.fields.directory[i]
    OBVIOUS
  <2>2. l[i] = [kind |-> e.kind,
                bytes |-> Envelope!BytesAt(b, e.offset, Envelope!CheckedAdd(e.offset, e.count))]
    BY <1>7, <1>8, <2>1
  <2>3. /\ Envelope!BytesAt(b, e.offset, Envelope!CheckedAdd(e.offset, e.count)) = list[i].bytes
        /\ e.kind = list[i].kind
    BY <1>1, <1>2, <2>1, EncodedBytes
  <2> QED
    BY ONLY <1>10, <2>2, <2>3, i \in 1 .. n
<1>12. l \in [1 .. n -> Sections]
  <2>1. l = [i \in 1 .. n |-> l[i]]
    BY <1>7, <1>8
  <2>2. \A i \in 1 .. n : l[i] \in Sections
    BY <1>2, <1>11, SectionAt
  <2> QED
    BY ONLY <2>1, <2>2
<1>13. l \in Seq(Sections) /\ Length(l) = n
  BY <1>3, <1>12, LengthOfFunction
<1>14. l = list
  BY <1>2, <1>11, <1>13, SameElements
<1> QED
  BY <1>1, <1>9, <1>14

-----------------------------------------------------------------------------
(* The envelope: the invariant.                                            *)

EnvelopeInv ==
  /\ sections \in Seq(Sections)
  /\ origin \in {"none", "encoded", "damaged", "other writer"}
  /\ decoded # Envelope!Pending =>
       origin # "none" /\ decoded = Envelope!decode(blob, "LEVOLM02")
  /\ origin \in {"encoded", "other writer"} =>
       FieldsOk(blob.fields) /\ blob = [fields |-> blob.fields, digest |-> blob.digest]
  /\ origin = "encoded" =>
       /\ sections # <<>> /\ Envelope!TotalBytes(sections) <= MaxBlob
       /\ blob = Envelope!encode("LEVOLM02", sections)
  /\ origin = "damaged" => blob.fields # blob.digest

(* A change of one field leaves a blob that has the fields of one.         *)
LEMMA PayloadChanges ==
  ASSUME NEW p \in Seq(Letter)
  PROVE  /\ Append(p, "x") \in Seq(Letter)
         /\ \A n \in 0 .. Len(p) : SubSeq(p, 1, n) \in Seq(Letter)
         /\ \A i \in DOMAIN p : [p EXCEPT ![i] = "z"] \in Seq(Letter)
<1>1. "x" \in Letter /\ "z" \in Letter
  BY DEF Letter
<1>2. Append(p, "x") \in Seq(Letter)
  BY <1>1, AppendProperties
<1>3. ASSUME NEW n \in 0 .. Len(p) PROVE SubSeq(p, 1, n) \in Seq(Letter)
  BY SplitAt DEF Length
<1>4. ASSUME NEW i \in DOMAIN p PROVE [p EXCEPT ![i] = "z"] \in Seq(Letter)
  BY <1>1, ExceptSeq
<1> QED
  BY <1>2, <1>3, <1>4

LEMMA DirectoryChanges ==
  ASSUME NEW d \in Seq(Entries), d # <<>>, NEW i \in DOMAIN d, NEW e \in Entries
  PROVE  /\ [d EXCEPT ![i] = e] \in Seq(Entries) /\ [d EXCEPT ![i] = e] # <<>>
         /\ Length([d EXCEPT ![i] = e]) = Length(d)
<1>1. /\ [d EXCEPT ![i] = e] \in Seq(Entries)
      /\ Len([d EXCEPT ![i] = e]) = Len(d)
  BY ExceptSeq
<1>2. Length([d EXCEPT ![i] = e]) = Length(d)
  BY <1>1 DEF Length
<1> QED
  BY <1>1, <1>2, LengthType

LEMMA EntryChanges ==
  ASSUME NEW e \in Entries, NEW n \in Nat
  PROVE  /\ [e EXCEPT !.offset = n] \in Entries /\ [e EXCEPT !.count = n] \in Entries
         /\ [e EXCEPT !.kind = 0] \in Entries
BY DEF Entries

LEMMA WithPayload ==
  ASSUME NEW f, FieldsOk(f), NEW p \in Seq(Letter)
  PROVE  FieldsOk([f EXCEPT !.payload = p])
BY DEF FieldsOk, Fields

LEMMA WithDirectory ==
  ASSUME NEW f, FieldsOk(f), NEW i \in DOMAIN f.directory, NEW e \in Entries
  PROVE  FieldsOk([f EXCEPT !.directory = [f.directory EXCEPT ![i] = e]])
<1>1. f \in Fields /\ f.directory \in Seq(Entries) /\ f.directory # <<>>
      /\ f.count = Length(f.directory)
  BY DEF FieldsOk, Fields
<1>2. PICK d : d = [f.directory EXCEPT ![i] = e]
  OBVIOUS
<1>3. d \in Seq(Entries) /\ d # <<>> /\ Length(d) = f.count
  BY <1>1, <1>2, DirectoryChanges
<1>4. PICK g : g = [f EXCEPT !.directory = d]
  OBVIOUS
<1>5. g \in Fields /\ g.directory = d /\ g.count = f.count
  BY ONLY <1>1, <1>3, <1>4 DEF Fields
<1>6. FieldsOk(g)
  BY ONLY <1>3, <1>5 DEF FieldsOk
<1> QED
  BY ONLY <1>2, <1>4, <1>6

LEMMA WithNumber ==
  ASSUME NEW f, FieldsOk(f), NEW n \in Nat
  PROVE  /\ FieldsOk([f EXCEPT !.total = n]) /\ FieldsOk([f EXCEPT !.header = n])
         /\ FieldsOk([f EXCEPT !.magic = "LEVOFL02"])
         /\ FieldsOk([f EXCEPT !.version = 0]) /\ FieldsOk([f EXCEPT !.stage = 0])
BY DEF FieldsOk, Fields

LEMMA DirectoriesOk ==
  ASSUME NEW f, f.directory \in Seq(Entries), NEW d \in Envelope!Directories(f)
  PROVE  d \in Seq(Entries) /\ d # <<>>
<1>1. PICK e : e = f.directory
  OBVIOUS
<1>2. e \in Seq(Entries)
  BY <1>1
<1>3. CASE \E n \in 1 .. Len(e) : d = SubSeq(e, 1, n)
  <2>1. PICK n \in 1 .. Len(e) : d = SubSeq(e, 1, n)
    BY <1>3
  <2>2. n \in 0 .. Length(e) /\ n # 0 /\ n \in Nat
    BY <1>2, LengthType DEF Length
  <2>3. SubSeq(e, 1, n) \in Seq(Entries) /\ Length(SubSeq(e, 1, n)) = n
    BY <1>2, <2>2, SplitAt
  <2>4. Length(d) # 0
    BY ONLY <2>1, <2>2, <2>3
  <2> QED
    BY ONLY <2>1, <2>3, <2>4, LengthOfNone
<1>4. CASE \E i \in DOMAIN e : d = Append(e, e[i])
  <2>1. PICK i \in DOMAIN e : d = Append(e, e[i])
    BY <1>4
  <2>2. e[i] \in Entries
    BY <1>2
  <2>3. d \in Seq(Entries) /\ Length(d) = Length(e) + 1
    BY <1>2, <2>1, <2>2, LengthAppend
  <2>4. Length(d) # 0
    BY ONLY <1>2, <2>3, LengthType
  <2> QED
    BY ONLY <2>3, <2>4, LengthOfNone
<1>5. \/ \E n \in 1 .. Len(e) : d = SubSeq(e, 1, n)
      \/ \E i \in DOMAIN e : d = Append(e, e[i])
  BY <1>1 DEF Envelope!Directories
<1> QED
  BY <1>3, <1>4, <1>5

LEMMA RecountedOk ==
  ASSUME NEW f, FieldsOk(f), NEW d \in Seq(Entries), d # <<>>
  PROVE  FieldsOk(Envelope!Recounted(f, d))
<1>1. f \in Fields /\ f.payload \in Seq(Letter)
  BY DEF FieldsOk, Fields
<1>2. PICK h : h = Envelope!HeaderBytes(Len(d))
  OBVIOUS
<1>3. PICK t : t = h + Len(f.payload)
  OBVIOUS
<1>4. Len(d) \in Nat /\ h \in Nat /\ t \in Nat
  <2>1. Len(d) \in Nat /\ Len(f.payload) \in Nat
    BY <1>1, LengthType DEF Length
  <2>2. h \in Nat
    BY <1>2, <2>1, HeaderType
  <2> QED
    BY ONLY <1>3, <2>1, <2>2
<1>5. PICK g : g = [f EXCEPT !.directory = d, !.count = Len(d), !.header = h, !.total = t]
  OBVIOUS
<1>6. g \in Fields /\ g.directory = d /\ g.count = Len(d)
  BY ONLY <1>1, <1>4, <1>5, d \in Seq(Entries) DEF Fields
<1>7. FieldsOk(g)
  BY ONLY <1>6, d # <<>> DEF FieldsOk, Length
<1>8. Envelope!Recounted(f, d) = g
  BY ONLY <1>2, <1>3, <1>5 DEF Envelope!Recounted
<1> QED
  BY ONLY <1>7, <1>8

LEMMA ChangesOk ==
  ASSUME NEW f, FieldsOk(f), NEW g \in Envelope!FieldChanges(f)
  PROVE  FieldsOk(g)
<1>1. f.payload \in Seq(Letter) /\ f.directory \in Seq(Entries)
  BY DEF FieldsOk, Fields
<1>2. \A i \in DOMAIN f.directory : f.directory[i] \in Entries
  BY <1>1
<1>3. \A n \in Envelope!Words : n \in Nat
  BY WordType
<1>4. 0 \in Nat
  OBVIOUS
<1>5. CASE g \in {[f EXCEPT !.magic = "LEVOFL02"], [f EXCEPT !.version = 0], [f EXCEPT !.stage = 0]}
  BY <1>4, <1>5, WithNumber
<1>6. CASE g = [f EXCEPT !.payload = Append(@, "x")]
  <2>1. Append(f.payload, "x") \in Seq(Letter)
    BY <1>1, PayloadChanges
  <2> QED
    BY <1>6, <2>1, WithPayload
<1>7. ASSUME NEW n \in Envelope!Words,
             g = [f EXCEPT !.total = n] \/ g = [f EXCEPT !.header = n]
      PROVE  FieldsOk(g)
  <2>1. n \in Nat
    BY <1>3
  <2>2. FieldsOk([f EXCEPT !.total = n]) /\ FieldsOk([f EXCEPT !.header = n])
    BY ONLY FieldsOk(f), <2>1, WithNumber
  <2> QED
    BY ONLY <1>7, <2>2
<1>8. ASSUME NEW n \in 0 .. Len(f.payload), g = [f EXCEPT !.payload = SubSeq(@, 1, n)]
      PROVE  FieldsOk(g)
  <2>1. SubSeq(f.payload, 1, n) \in Seq(Letter)
    BY <1>1, PayloadChanges
  <2> QED
    BY <1>8, <2>1, WithPayload
<1>9. ASSUME NEW i \in DOMAIN f.payload, g = [f EXCEPT !.payload[i] = "z"]
      PROVE  FieldsOk(g)
  <2>1. [f.payload EXCEPT ![i] = "z"] \in Seq(Letter)
    BY <1>1, PayloadChanges
  <2>2. g = [f EXCEPT !.payload = [f.payload EXCEPT ![i] = "z"]]
    BY <1>9
  <2> QED
    BY <2>1, <2>2, WithPayload
<1>10. ASSUME NEW i \in DOMAIN f.directory, NEW n \in Nat,
              \/ g = [f EXCEPT !.directory[i].offset = n]
              \/ g = [f EXCEPT !.directory[i].count = n]
              \/ g = [f EXCEPT !.directory[i].kind = 0]
       PROVE  FieldsOk(g)
  <2>1. PICK e : e = f.directory[i]
    OBVIOUS
  <2>2. e \in Entries
    BY <1>2, <2>1
  <2>3. /\ [e EXCEPT !.offset = n] \in Entries /\ [e EXCEPT !.count = n] \in Entries
        /\ [e EXCEPT !.kind = 0] \in Entries
    BY <2>2, EntryChanges
  <2>4. \/ g = [f EXCEPT !.directory = [f.directory EXCEPT ![i] = [e EXCEPT !.offset = n]]]
        \/ g = [f EXCEPT !.directory = [f.directory EXCEPT ![i] = [e EXCEPT !.count = n]]]
        \/ g = [f EXCEPT !.directory = [f.directory EXCEPT ![i] = [e EXCEPT !.kind = 0]]]
    BY <1>10, <2>1
  <2> QED
    BY <2>3, <2>4, WithDirectory
<1>12. ASSUME NEW d \in Envelope!Directories(f), g = Envelope!Recounted(f, d)
       PROVE  FieldsOk(g)
  <2>1. d \in Seq(Entries) /\ d # <<>>
    BY <1>1, DirectoriesOk
  <2> QED
    BY ONLY FieldsOk(f), <1>12, <2>1, RecountedOk
<1>11. \/ g \in {[f EXCEPT !.magic = "LEVOFL02"], [f EXCEPT !.version = 0], [f EXCEPT !.stage = 0]}
       \/ g = [f EXCEPT !.payload = Append(@, "x")]
       \/ \E n \in Envelope!Words : g = [f EXCEPT !.total = n] \/ g = [f EXCEPT !.header = n]
       \/ \E n \in 0 .. Len(f.payload) : g = [f EXCEPT !.payload = SubSeq(@, 1, n)]
       \/ \E i \in DOMAIN f.payload : g = [f EXCEPT !.payload[i] = "z"]
       \/ \E i \in DOMAIN f.directory : \E n \in Envelope!Words :
            \/ g = [f EXCEPT !.directory[i].offset = n]
            \/ g = [f EXCEPT !.directory[i].count = n]
       \/ \E i \in DOMAIN f.directory : g = [f EXCEPT !.directory[i].kind = 0]
       \/ \E d \in Envelope!Directories(f) : g = Envelope!Recounted(f, d)
  BY DEF Envelope!FieldChanges
<1> QED
  BY <1>3, <1>4, <1>5, <1>6, <1>7, <1>8, <1>9, <1>10, <1>11, <1>12

LEMMA EnvelopeStart == Envelope!Init => EnvelopeInv
BY LengthOfNone DEF EnvelopeInv, Envelope!Init

LEMMA EnvelopeRests == EnvelopeInv /\ UNCHANGED envelopeVars => EnvelopeInv'
BY DEF EnvelopeInv, envelopeVars

LEMMA AddSectionKeeps == EnvelopeInv /\ Envelope!AddSection => EnvelopeInv'
<1> SUFFICES ASSUME EnvelopeInv, Envelope!AddSection PROVE EnvelopeInv'
  OBVIOUS
<1>1. sections \in Seq(Sections) /\ origin = "none" /\ UNCHANGED <<blob, origin, decoded>>
  BY DEF EnvelopeInv, Envelope!AddSection
<1>2. PICK size \in 0 .. MaxSection, letter \in Envelope!Letters :
        sections' = Append(sections, [kind |-> Len(sections) + 1,
                                      bytes |-> [i \in 1 .. size |-> letter]])
  BY DEF Envelope!AddSection
<1>3. MaxSection \in Nat
  BY FormatsAssumption DEF Envelope!EnvelopeAssumption
<1>4. size \in Nat /\ letter \in Letter
  BY <1>3 DEF Envelope!Letters, Letter
<1>5. [i \in 1 .. size |-> letter] \in Seq(Letter)
  <2>1. [i \in 1 .. size |-> letter] \in [1 .. size -> Letter]
    BY <1>4
  <2> QED
    BY <1>4, <2>1, LengthOfFunction
<1>6. Len(sections) + 1 \in Nat \ {0}
  BY <1>1
<1>7. [kind |-> Len(sections) + 1, bytes |-> [i \in 1 .. size |-> letter]] \in Sections
  BY ONLY <1>5, <1>6 DEF Sections
<1>8. sections' \in Seq(Sections)
  BY <1>1, <1>2, <1>7, LengthAppend
<1> QED
  BY <1>1, <1>8 DEF EnvelopeInv

LEMMA EncodeKeeps == EnvelopeInv /\ Envelope!Encode => EnvelopeInv'
<1> SUFFICES ASSUME EnvelopeInv, Envelope!Encode PROVE EnvelopeInv'
  OBVIOUS
<1>1. /\ sections \in Seq(Sections) /\ sections # <<>> /\ origin = "none"
      /\ Envelope!TotalBytes(sections) <= MaxBlob
      /\ blob' = Envelope!encode("LEVOLM02", sections) /\ origin' = "encoded"
      /\ UNCHANGED <<sections, decoded>> /\ decoded = Envelope!Pending
  BY DEF EnvelopeInv, Envelope!Encode
<1>2. FieldsOk(blob'.fields) /\ blob'.digest = blob'.fields
  BY <1>1, EncodedFields
<1>3. blob' = [fields |-> blob'.fields, digest |-> blob'.digest]
  BY <1>1 DEF Envelope!encode
<1>4. UNCHANGED Envelope!TotalBytes(sections) /\ UNCHANGED Envelope!encode("LEVOLM02", sections)
  BY <1>1
<1>5. UNCHANGED Envelope!Pending
  BY DEF Envelope!Pending, Envelope!Outcome
<1> QED
  BY ONLY <1>1, <1>2, <1>3, <1>4, <1>5 DEF EnvelopeInv

LEMMA DamageKeeps == EnvelopeInv /\ Envelope!Damage => EnvelopeInv'
<1> SUFFICES ASSUME EnvelopeInv, Envelope!Damage PROVE EnvelopeInv'
  OBVIOUS
<1>1. /\ sections \in Seq(Sections) /\ origin = "encoded" /\ decoded = Envelope!Pending
      /\ origin' = "damaged" /\ UNCHANGED <<sections, decoded>>
  BY DEF EnvelopeInv, Envelope!Damage
<1>2. PICK f : f # blob.fields /\ blob' = [blob EXCEPT !.fields = f]
  BY DEF Envelope!Damage
<1>3. /\ FieldsOk(blob.fields) /\ blob = [fields |-> blob.fields, digest |-> blob.digest]
      /\ blob.digest = blob.fields
  BY <1>1, EncodedFields DEF EnvelopeInv
<1>5. blob'.fields = f /\ blob' = [fields |-> f, digest |-> blob.digest]
  BY ONLY <1>2, <1>3
<1>6. blob'.digest = blob.fields /\ f # blob.fields
  BY ONLY <1>2, <1>3, <1>5
<1>7. UNCHANGED Envelope!Pending
  BY DEF Envelope!Pending, Envelope!Outcome
<1> QED
  BY ONLY <1>1, <1>3, <1>5, <1>6, <1>7 DEF EnvelopeInv

LEMMA OtherWriterKeeps == EnvelopeInv /\ Envelope!OtherWriter => EnvelopeInv'
<1> SUFFICES ASSUME EnvelopeInv, Envelope!OtherWriter PROVE EnvelopeInv'
  OBVIOUS
<1>1. /\ sections \in Seq(Sections) /\ origin = "encoded" /\ decoded = Envelope!Pending
      /\ origin' = "other writer" /\ UNCHANGED <<sections, decoded>>
  BY DEF EnvelopeInv, Envelope!OtherWriter
<1>2. PICK f \in Envelope!FieldChanges(blob.fields) : \E g \in Envelope!FieldChanges(f) :
        blob' = [fields |-> g, digest |-> g]
  BY DEF Envelope!OtherWriter
<1>3. PICK g \in Envelope!FieldChanges(f) : blob' = [fields |-> g, digest |-> g]
  BY <1>2
<1>4. FieldsOk(blob.fields)
  BY <1>1 DEF EnvelopeInv
<1>5. FieldsOk(f)
  BY <1>2, <1>4, ChangesOk
<1>6. FieldsOk(g)
  BY <1>3, <1>5, ChangesOk
<1>7. blob'.fields = g /\ blob'.digest = g
  BY ONLY <1>3
<1>8. UNCHANGED Envelope!Pending
  BY DEF Envelope!Pending, Envelope!Outcome
<1> QED
  BY ONLY <1>1, <1>3, <1>6, <1>7, <1>8 DEF EnvelopeInv

LEMMA DecodeKeeps == EnvelopeInv /\ Envelope!Decode => EnvelopeInv'
<1> SUFFICES ASSUME EnvelopeInv, Envelope!Decode PROVE EnvelopeInv'
  OBVIOUS
<1>1. /\ origin # "none" /\ decoded' = Envelope!decode(blob, "LEVOLM02")
      /\ UNCHANGED <<sections, blob, origin>>
  BY DEF Envelope!Decode
<1>2. decoded' = Envelope!decode(blob, "LEVOLM02")'
  BY <1>1
<1>3. /\ UNCHANGED Envelope!TotalBytes(sections)
      /\ UNCHANGED Envelope!encode("LEVOLM02", sections)
  BY <1>1
<1> QED
  BY <1>1, <1>2, <1>3 DEF EnvelopeInv

LEMMA EnvelopeStep == EnvelopeInv /\ Envelope!Next => EnvelopeInv'
BY AddSectionKeeps, EncodeKeeps, DamageKeeps, OtherWriterKeeps, DecodeKeeps DEF Envelope!Next

LEMMA EnvelopeMeaning ==
  EnvelopeInv => Envelope!SavedComesBack /\ Envelope!DamageIsNoticed /\ Envelope!SectionsAreSeparate
<1> SUFFICES ASSUME EnvelopeInv
             PROVE  /\ Envelope!SavedComesBack /\ Envelope!DamageIsNoticed
                    /\ Envelope!SectionsAreSeparate
  OBVIOUS
<1>1. Envelope!SavedComesBack
  <2> SUFFICES ASSUME origin = "encoded", decoded # Envelope!Pending
               PROVE  decoded = Envelope!Outcome("accepted", sections)
    BY DEF Envelope!SavedComesBack
  <2>1. /\ sections \in Seq(Sections) /\ sections # <<>>
        /\ Envelope!TotalBytes(sections) <= MaxBlob
        /\ blob = Envelope!encode("LEVOLM02", sections)
        /\ decoded = Envelope!decode(blob, "LEVOLM02")
    BY DEF EnvelopeInv
  <2> QED
    BY <2>1, RoundTrip
<1>2. Envelope!DamageIsNoticed
  <2> SUFFICES ASSUME origin = "damaged", decoded # Envelope!Pending
               PROVE  decoded = Envelope!Rejected
    BY DEF Envelope!DamageIsNoticed
  <2>1. blob.fields # blob.digest /\ decoded = Envelope!decode(blob, "LEVOLM02")
    BY DEF EnvelopeInv
  <2>2. ~Envelope!Accepted(blob, "LEVOLM02")
    BY <2>1 DEF Envelope!Accepted, Envelope!DigestMatches
  <2> QED
    BY <2>1, <2>2 DEF Envelope!decode
<1>3. Envelope!SectionsAreSeparate
  <2> SUFFICES ASSUME decoded.status = "accepted"
               PROVE  LET d == blob.fields.directory
                      IN /\ \A i \in DOMAIN d : Len(decoded.sections[i].bytes) = d[i].count
                         /\ \A i, j \in DOMAIN d :
                              i # j => Envelope!Span(d[i]) \cap Envelope!Span(d[j]) = {}
    BY DEF Envelope!SectionsAreSeparate
  <2>1. decoded # Envelope!Pending /\ decoded # Envelope!Rejected
    BY DEF Envelope!Pending, Envelope!Rejected, Envelope!Outcome
  <2>8. origin # "damaged"
    BY <1>2, <2>1 DEF Envelope!DamageIsNoticed
  <2>2. FieldsOk(blob.fields) /\ decoded = Envelope!decode(blob, "LEVOLM02")
    BY <2>1, <2>8 DEF EnvelopeInv
  <2>3. PICK d : d = blob.fields.directory
    OBVIOUS
  <2>4. d \in Seq(Entries) /\ DOMAIN d = 1 .. Length(d)
    BY <2>2, <2>3 DEF FieldsOk, Fields, Length
  <2>5. ASSUME NEW i \in DOMAIN d PROVE Len(decoded.sections[i].bytes) = d[i].count
    <3>1. Length(decoded.sections[i].bytes) = d[i].count
      BY <2>2, <2>3, <2>4, AcceptedSections
    <3> QED
      BY ONLY <3>1 DEF Length
  <2>6. ASSUME NEW i \in DOMAIN d, NEW j \in DOMAIN d, Before(d, i, j)
        PROVE  Envelope!Span(d[i]) \cap Envelope!Span(d[j]) = {}
    <3>1. i \in 1 .. Length(blob.fields.directory) /\ j \in 1 .. Length(blob.fields.directory)
          /\ Before(blob.fields.directory, i, j)
      BY ONLY <2>3, <2>4, <2>6
    <3>2. Envelope!Span(blob.fields.directory[i]) \cap Envelope!Span(blob.fields.directory[j]) = {}
      BY <2>2, <3>1, AcceptedSeparate
    <3> QED
      BY ONLY <2>3, <3>2
  <2>7. \A i, j \in DOMAIN d : i # j => Envelope!Span(d[i]) \cap Envelope!Span(d[j]) = {}
    <3> SUFFICES ASSUME NEW i \in DOMAIN d, NEW j \in DOMAIN d, i # j
                 PROVE  Envelope!Span(d[i]) \cap Envelope!Span(d[j]) = {}
      OBVIOUS
    <3>1. Before(d, i, j) \/ Before(d, j, i)
      BY <2>4, BeforeOrders
    <3>2. Envelope!Span(d[j]) \cap Envelope!Span(d[i]) = Envelope!Span(d[i]) \cap Envelope!Span(d[j])
      OBVIOUS
    <3> QED
      BY ONLY <2>6, <3>1, <3>2, i \in DOMAIN d, j \in DOMAIN d
  <2> QED
    BY ONLY <2>3, <2>5, <2>7
<1> QED
  BY <1>1, <1>2, <1>3

-----------------------------------------------------------------------------
(* The request documents: the settings a document is made of.              *)

Targets == {Request!Last(Request!Sources[s]) : s \in Request!Settings}

LEMMA SettingsAre ==
  Request!Settings
    = {"lyrics", "description", "duration_seconds", "seed", "cfg_scale", "temperature",
       "top_k_mixed", "top_k_detail", "use_sampling", "repetition_window",
       "repetition_penalty", "ignore_tokens", "flow_seed", "flow_euler_steps",
       "flow_cfg_scale"}
BY DEF Request!Settings, Request!Sources

(* The setting a path belongs to.                                          *)
Owner(path) ==
  CASE path = "lyrics" -> "lyrics"
    [] path \in {"description", "caption"} -> "description"
    [] path \in {"duration", "duration_seconds"} -> "duration_seconds"
    [] path = "seed" -> "seed"
    [] path = "cfg_scale" -> "cfg_scale"
    [] path \in {"temperature", "sampling.temperature"} -> "temperature"
    [] path \in {"top_k_mixed", "sampling.top_k_mixed"} -> "top_k_mixed"
    [] path \in {"top_k_detail", "sampling.top_k_detail"} -> "top_k_detail"
    [] path = "sampling.use_sampling" -> "use_sampling"
    [] path = "sampling.repetition_window" -> "repetition_window"
    [] path = "sampling.repetition_penalty" -> "repetition_penalty"
    [] path = "sampling.ignore_tokens" -> "ignore_tokens"
    [] path = "flow.seed" -> "flow_seed"
    [] path \in {"inference_steps", "flow.euler_steps"} -> "flow_euler_steps"
    [] path \in {"guidance_scale", "flow.cfg_scale"} -> "flow_cfg_scale"

(* The paths of a setting, one or two of them, the last one canonical.     *)
First(s) ==
  CASE s = "description" -> "description"
    [] s = "duration_seconds" -> "duration"
    [] s = "temperature" -> "temperature"
    [] s = "top_k_mixed" -> "top_k_mixed"
    [] s = "top_k_detail" -> "top_k_detail"
    [] s = "flow_euler_steps" -> "inference_steps"
    [] s = "flow_cfg_scale" -> "guidance_scale"
Canonical(s) ==
  CASE s = "lyrics" -> "lyrics"
    [] s = "description" -> "caption"
    [] s = "duration_seconds" -> "duration_seconds"
    [] s = "seed" -> "seed"
    [] s = "cfg_scale" -> "cfg_scale"
    [] s = "temperature" -> "sampling.temperature"
    [] s = "top_k_mixed" -> "sampling.top_k_mixed"
    [] s = "top_k_detail" -> "sampling.top_k_detail"
    [] s = "use_sampling" -> "sampling.use_sampling"
    [] s = "repetition_window" -> "sampling.repetition_window"
    [] s = "repetition_penalty" -> "sampling.repetition_penalty"
    [] s = "ignore_tokens" -> "sampling.ignore_tokens"
    [] s = "flow_seed" -> "flow.seed"
    [] s = "flow_euler_steps" -> "flow.euler_steps"
    [] s = "flow_cfg_scale" -> "flow.cfg_scale"
TwoPaths == {"description", "duration_seconds", "temperature", "top_k_mixed", "top_k_detail",
             "flow_euler_steps", "flow_cfg_scale"}

LEMMA SourcesAre ==
  ASSUME NEW s \in Request!Settings
  PROVE  Request!Sources[s]
           = IF s \in TwoPaths THEN <<First(s), Canonical(s)>> ELSE <<Canonical(s)>>
BY SettingsAre DEF Request!Sources, TwoPaths, First, Canonical

LEMMA OwnersAre ==
  ASSUME NEW s \in Request!Settings
  PROVE  /\ Owner(Canonical(s)) = s
         /\ s \in TwoPaths => Owner(First(s)) = s /\ First(s) # Canonical(s)
<1>1. Owner(Canonical(s)) = s
  <2>1. CASE s \in {"lyrics", "description", "duration_seconds", "seed"}
    BY ONLY <2>1, ZenonT(30) DEF Canonical, Owner
  <2>2. CASE s \in {"cfg_scale", "temperature", "top_k_mixed", "top_k_detail"}
    BY ONLY <2>2, ZenonT(30) DEF Canonical, Owner
  <2>3. CASE s \in {"use_sampling", "repetition_window", "repetition_penalty", "ignore_tokens"}
    BY ONLY <2>3, ZenonT(30) DEF Canonical, Owner
  <2>4. CASE s \in {"flow_seed", "flow_euler_steps", "flow_cfg_scale"}
    BY ONLY <2>4, ZenonT(30) DEF Canonical, Owner
  <2>5. s \in Request!Settings
    OBVIOUS
  <2> QED
    BY ONLY <2>1, <2>2, <2>3, <2>4, <2>5, SettingsAre
<1>2. s \in TwoPaths => Owner(First(s)) = s
  BY SMTT(20) DEF TwoPaths, First, Owner
<1>3. s \in TwoPaths => First(s) # Canonical(s)
  BY SMTT(20) DEF TwoPaths, First, Canonical
<1> QED
  BY ONLY <1>1, <1>2, <1>3

LEMMA CanonicalIs ==
  ASSUME NEW s \in Request!Settings
  PROVE  Request!Last(Request!Sources[s]) = Canonical(s)
<1>1. Request!Last(<<Canonical(s)>>) = Canonical(s)
  BY DEF Request!Last
<1>2. Request!Last(<<First(s), Canonical(s)>>) = Canonical(s)
  BY DEF Request!Last
<1> QED
  BY <1>1, <1>2, SourcesAre

LEMMA PathsOfSetting ==
  ASSUME NEW s \in Request!Settings, NEW i \in DOMAIN Request!Sources[s]
  PROVE  /\ i \in {1, 2} /\ Owner(Request!Sources[s][i]) = s
         /\ \/ Request!Sources[s][i] = Canonical(s)
            \/ s \in TwoPaths /\ Request!Sources[s][i] = First(s)
<1>1. CASE s \in TwoPaths
  <2>1. Request!Sources[s] = <<First(s), Canonical(s)>>
    BY <1>1, SourcesAre
  <2>2. i \in {1, 2} /\ (Request!Sources[s][i] = First(s) \/ Request!Sources[s][i] = Canonical(s))
    BY <2>1
  <2> QED
    BY <1>1, <2>2, OwnersAre
<1>2. CASE s \notin TwoPaths
  <2>1. Request!Sources[s] = <<Canonical(s)>>
    BY <1>2, SourcesAre
  <2>2. i = 1 /\ Request!Sources[s][i] = Canonical(s)
    BY <2>1
  <2> QED
    BY <2>2, OwnersAre
<1> QED
  BY <1>1, <1>2

(* A canonical document names every setting once.                          *)
LEMMA SerializeDomain ==
  ASSUME NEW r
  PROVE  DOMAIN Request!serialize(r) = {Canonical(s) : s \in Request!Settings}
<1>1. DOMAIN Request!serialize(r) = {Request!Last(Request!Sources[s]) : s \in Request!Settings}
  BY DEF Request!serialize
<1> QED
  BY <1>1, CanonicalIs

LEMMA SerializeAt ==
  ASSUME NEW r, NEW s \in Request!Settings
  PROVE  Request!serialize(r)[Canonical(s)] = Request!JsonOf(Canonical(s), r[s])
<1>1. PICK path : path = Canonical(s)
  OBVIOUS
<1>2. path \in {Request!Last(Request!Sources[t]) : t \in Request!Settings}
  BY <1>1, CanonicalIs
<1>3. Request!serialize(r)[path]
        = Request!JsonOf(path, r[CHOOSE t \in Request!Settings :
                                   Request!Last(Request!Sources[t]) = path])
  BY <1>2 DEF Request!serialize
<1>4. PICK t : t = CHOOSE u \in Request!Settings : Request!Last(Request!Sources[u]) = path
  OBVIOUS
<1>5. t \in Request!Settings /\ Request!Last(Request!Sources[t]) = path
  BY <1>1, <1>4, CanonicalIs
<1>6. Canonical(t) = Canonical(s)
  BY <1>1, <1>5, CanonicalIs
<1>7. t = s
  BY <1>5, <1>6, OwnersAre
<1> QED
  BY ONLY <1>1, <1>3, <1>4, <1>7

LEMMA GivenIs ==
  ASSUME NEW d, DOMAIN d = {Canonical(s) : s \in Request!Settings}, NEW s \in Request!Settings
  PROVE  \E i \in {1, 2} : /\ Request!Given(s, d) = {i} /\ Request!Sources[s][i] = Canonical(s)
<1>1. Request!Given(s, d) = {i \in DOMAIN Request!Sources[s] : Request!Sources[s][i] \in DOMAIN d}
  BY DEF Request!Given
<1>2. Canonical(s) \in DOMAIN d
  OBVIOUS
<1>3. CASE s \in TwoPaths
  <2>1. Request!Sources[s] = <<First(s), Canonical(s)>>
    BY <1>3, SourcesAre
  <2>2. First(s) \notin DOMAIN d
    <3>1. ASSUME NEW t \in Request!Settings, First(s) = Canonical(t) PROVE FALSE
      <4>1. Owner(First(s)) = s /\ First(s) # Canonical(s)
        BY <1>3, OwnersAre
      <4>2. Owner(Canonical(t)) = t
        BY OwnersAre
      <4> QED
        BY <3>1, <4>1, <4>2
    <3> QED
      BY <3>1
  <2>3. DOMAIN Request!Sources[s] = {1, 2}
    BY <2>1
  <2>4. Request!Sources[s][1] = First(s) /\ Request!Sources[s][2] = Canonical(s)
    BY <2>1
  <2>5. Request!Given(s, d) = {2}
    BY ONLY <1>1, <1>2, <2>2, <2>3, <2>4
  <2> QED
    BY ONLY <2>4, <2>5
<1>4. CASE s \notin TwoPaths
  <2>1. Request!Sources[s] = <<Canonical(s)>>
    BY <1>4, SourcesAre
  <2>2. DOMAIN Request!Sources[s] = {1} /\ Request!Sources[s][1] = Canonical(s)
    BY <2>1
  <2>3. Request!Given(s, d) = {1}
    BY ONLY <1>1, <1>2, <2>2
  <2> QED
    BY ONLY <2>2, <2>3
<1> QED
  BY <1>3, <1>4

LEMMA MaxOfOne ==
  ASSUME NEW i \in {1, 2}
  PROVE  Request!Max({i}) = i
BY DEF Request!Max

LEMMA MaxOfTwo ==
  ASSUME NEW S \in SUBSET {1, 2}, S # {}
  PROVE  Request!Max(S) \in S
<1>1. \E x \in S : \A y \in S : x >= y
  <2>1. CASE 2 \in S
    <3>1. \A y \in S : 2 >= y
      OBVIOUS
    <3> QED
      BY <2>1, <3>1
  <2>2. CASE 2 \notin S
    <3>1. \A y \in S : y = 1
      BY <2>2
    <3>2. 1 \in S
      BY <3>1
    <3>3. \A y \in S : 1 >= y
      BY <3>1
    <3> QED
      BY <3>2, <3>3
  <2> QED
    BY <2>1, <2>2
<1> QED
  BY <1>1 DEF Request!Max

(* What a settled request can hold.                                        *)
WholeSettings == {"top_k_mixed", "top_k_detail", "repetition_window", "flow_seed",
                  "flow_euler_steps"}
InLimits(s, n) ==
  /\ s \in WholeSettings => n \in 0 .. MaxU64
  /\ s = "seed" => n \in -1 .. MaxU64
  /\ s \in {"temperature", "repetition_penalty", "flow_cfg_scale"} =>
       n \in 0 .. MaxFloat /\ Request!Narrow(n) = n
  /\ s = "cfg_scale" => n \in -MaxFloat .. MaxFloat /\ Request!Narrow(n) = n
  /\ s \in {"duration_seconds", "lyrics", "description"} => n \in Nat
Settled(r) ==
  /\ r = [s \in Request!Settings |-> r[s]]
  /\ \A s \in Request!Settings : InLimits(s, r[s])

LEMMA JsonKeeps ==
  ASSUME NEW path, NEW n
  PROVE  Request!JsonOf(path, n).n = n /\ Request!JsonOf(path, n) # Request!Null
BY DEF Request!JsonOf, Request!Null, Request!Text, Request!Whole, Request!Flag, Request!Ids,
       Request!Decimal, Request!Real

LEMMA CanonicalFloats ==
  ASSUME NEW s \in Request!Settings, Canonical(s) \in Request!FloatPaths
  PROVE  s \in {"temperature", "repetition_penalty", "flow_cfg_scale", "cfg_scale"}
BY SettingsAre DEF Canonical, Request!FloatPaths, Request!ScalePaths

LEMMA UnderstoodBack ==
  ASSUME NEW s \in Request!Settings, NEW n, InLimits(s, n)
  PROVE  Request!Understood(Canonical(s), Request!JsonOf(Canonical(s), n)) = n
<1>1. /\ Request!JsonOf(Canonical(s), n).n = n
      /\ Request!JsonOf(Canonical(s), n) # Request!Null
  BY JsonKeeps
<1>2. CASE Canonical(s) \in Request!FloatPaths
  <2>1. Request!Narrow(n) = n
    BY <1>2, CanonicalFloats DEF InLimits
  <2> QED
    BY <1>1, <1>2, <2>1 DEF Request!Understood
<1>3. CASE Canonical(s) \notin Request!FloatPaths
  BY <1>1, <1>3 DEF Request!Understood
<1> QED
  BY <1>2, <1>3

LEMMA ParseAt ==
  ASSUME NEW d, NEW s \in Request!Settings
  PROVE  /\ Request!parse(d) = [t \in Request!Settings |-> Request!parse(d)[t]]
         /\ Request!Given(s, d) = {} => Request!parse(d)[s] = Request!Default(s)
         /\ Request!Given(s, d) # {} =>
              Request!parse(d)[s]
                = Request!Understood(Request!Sources[s][Request!Max(Request!Given(s, d))],
                                     d[Request!Sources[s][Request!Max(Request!Given(s, d))]])
BY DEF Request!parse

(* Parsing undoes serialization.                                           *)
LEMMA ParseOfSerialize ==
  ASSUME NEW r, Settled(r)
  PROVE  Request!parse(Request!serialize(r)) = r
<1>1. PICK d : d = Request!serialize(r)
  OBVIOUS
<1>2. DOMAIN d = {Canonical(s) : s \in Request!Settings}
  BY <1>1, SerializeDomain
<1>3. ASSUME NEW s \in Request!Settings
      PROVE  Request!parse(d)[s] = r[s]
  <2>1. PICK i \in {1, 2} : /\ Request!Given(s, d) = {i} /\ Request!Sources[s][i] = Canonical(s)
    BY <1>2, GivenIs
  <2>2. Request!Max(Request!Given(s, d)) = i
    BY <2>1, MaxOfOne
  <2>3. Request!Given(s, d) # {}
    BY <2>1
  <2>4. Request!parse(d)[s] = Request!Understood(Canonical(s), d[Canonical(s)])
    BY <2>1, <2>2, <2>3, ParseAt
  <2>5. d[Canonical(s)] = Request!JsonOf(Canonical(s), r[s])
    BY <1>1, SerializeAt
  <2>6. InLimits(s, r[s])
    BY DEF Settled
  <2> QED
    BY <2>4, <2>5, <2>6, UnderstoodBack
<1>4. Request!parse(d) = [s \in Request!Settings |-> Request!parse(d)[s]]
  BY DEF Request!parse
<1>5. r = [s \in Request!Settings |-> r[s]]
  BY DEF Settled
<1> QED
  BY ONLY <1>1, <1>3, <1>4, <1>5

-----------------------------------------------------------------------------
(* The request documents: what is written is accepted.                     *)

LEMMA BoundsOfRequest ==
  /\ MaxU64 \in Nat /\ MaxU64 >= 2 /\ MaxFloat \in Nat /\ MaxFloat >= 2 /\ MaxFloat % 2 = 0
  /\ MaxTemperature \in 1 .. MaxFloat
<1>1. MaxU64 \in Nat /\ MaxU64 >= 2 /\ MaxTemperature \in 1 .. MaxFloat /\ MaxFloat % 2 = 0
      /\ MaxFloat \in Nat
  BY FormatsAssumption DEF Request!RequestAssumption
<1>2. MaxFloat # 1
  BY <1>1
<1> QED
  BY <1>1, <1>2

LEMMA NarrowIs ==
  ASSUME NEW n \in Int
  PROVE  /\ Request!Narrow(n) \in Int /\ Request!Narrow(Request!Narrow(n)) = Request!Narrow(n)
         /\ Request!Narrow(n) <= n /\ n <= Request!Narrow(n) + 1
<1>1. PICK m : m = n \div 2
  OBVIOUS
<1>2. m \in Int /\ 2 * m <= n /\ n <= 2 * m + 1
  BY <1>1
<1>3. (2 * m) \div 2 = m
  BY <1>2
<1> QED
  BY <1>1, <1>2, <1>3 DEF Request!Narrow

LEMMA NarrowInLimits ==
  ASSUME NEW n \in Int
  PROVE  /\ n \in 0 .. MaxFloat => Request!Narrow(n) \in 0 .. MaxFloat
         /\ n \in -MaxFloat .. MaxFloat => Request!Narrow(n) \in -MaxFloat .. MaxFloat
<1>1. PICK m : m = n \div 2
  OBVIOUS
<1>2. m \in Int /\ 2 * m <= n /\ n <= 2 * m + 1
  BY <1>1
<1>3. Request!Narrow(n) = 2 * m
  BY <1>1 DEF Request!Narrow
<1>4. PICK k \in Nat : MaxFloat = 2 * k
  BY BoundsOfRequest
<1>5. n \in 0 .. MaxFloat => 2 * m \in 0 .. MaxFloat
  BY ONLY <1>2, <1>4, n \in Int
<1>6. n \in -MaxFloat .. MaxFloat => 2 * m \in -MaxFloat .. MaxFloat
  BY ONLY <1>2, <1>4, n \in Int
<1> QED
  BY ONLY <1>3, <1>5, <1>6

(* A canonical field is valid where its setting is in its limits.          *)
LEMMA CanonicalValid ==
  ASSUME NEW s \in Request!Settings, NEW n, InLimits(s, n),
         s = "repetition_penalty" => n > 0, s = "seed" => n # Request!NoSeed
  PROVE  /\ Canonical(s) \in Request!Paths
         /\ Request!Valid(Canonical(s), Request!JsonOf(Canonical(s), n))
<1> USE DEF Request!Valid, Request!WellTyped, Request!JsonOf, Request!TextPaths,
        Request!DurationPaths, Request!WholePaths, Request!ScalePaths, Request!FloatPaths
<1>1. CASE s \in WholeSettings
  <2>1. Canonical(s) \in Request!WholePaths
    BY <1>1 DEF WholeSettings, Canonical
  <2>2. n \in 0 .. MaxU64
    BY <1>1 DEF InLimits
  <2>3. Request!JsonOf(Canonical(s), n) = Request!Whole(n)
    BY <2>1
  <2>4. Request!ExactU64(Request!Whole(n))
    BY <2>2 DEF Request!ExactU64, Request!Whole
  <2> QED
    BY <2>1, <2>3, <2>4 DEF Request!Paths
<1>2. CASE s = "seed"
  <2>1. n \in 0 .. MaxU64
    BY <1>2, BoundsOfRequest DEF InLimits, Request!NoSeed
  <2>2. Request!JsonOf("seed", n) = Request!Whole(n)
    OBVIOUS
  <2>3. Request!ExactU64(Request!Whole(n))
    BY <2>1 DEF Request!ExactU64, Request!Whole
  <2>4. Canonical(s) = "seed"
    BY <1>2 DEF Canonical
  <2> QED
    BY <2>2, <2>3, <2>4 DEF Request!Paths
<1>3. CASE s \in {"temperature", "repetition_penalty", "flow_cfg_scale", "cfg_scale"}
  <2>1. Canonical(s) \in {"sampling.temperature", "sampling.repetition_penalty",
                          "flow.cfg_scale", "cfg_scale"}
    BY <1>3 DEF Canonical
  <2>2. Request!JsonOf(Canonical(s), n) = Request!Decimal(n)
    BY <2>1
  <2>3. Request!IsNumber(Request!Decimal(n)) /\ Request!Decimal(n).n = n
    BY DEF Request!IsNumber, Request!Decimal, Request!Real
  <2>4. CASE s = "temperature"
    <3>1. n \in 0 .. MaxFloat /\ Canonical(s) = "sampling.temperature"
      BY <2>4 DEF InLimits, Canonical
    <3> QED
      BY <2>2, <2>3, <3>1 DEF Request!Paths
  <2>5. CASE s = "repetition_penalty"
    <3>1. n \in 1 .. MaxFloat /\ Canonical(s) = "sampling.repetition_penalty"
      BY <2>5, BoundsOfRequest DEF InLimits, Canonical
    <3> QED
      BY <2>2, <2>3, <3>1 DEF Request!Paths
  <2>6. CASE s = "flow_cfg_scale"
    <3>1. n \in 0 .. MaxFloat /\ Canonical(s) = "flow.cfg_scale"
      BY <2>6 DEF InLimits, Canonical
    <3> QED
      BY <2>2, <2>3, <3>1 DEF Request!Paths
  <2>7. CASE s = "cfg_scale"
    <3>1. n \in -MaxFloat .. MaxFloat /\ Canonical(s) = "cfg_scale"
      BY <2>7 DEF InLimits, Canonical
    <3> QED
      BY <2>2, <2>3, <3>1 DEF Request!Paths
  <2> QED
    BY <1>3, <2>4, <2>5, <2>6, <2>7
<1>4. CASE s \in {"lyrics", "description"}
  <2>1. Canonical(s) \in {"lyrics", "caption"}
    BY <1>4 DEF Canonical
  <2>2. Request!JsonOf(Canonical(s), n).type = "string"
    BY <2>1 DEF Request!Text
  <2> QED
    BY <2>1, <2>2 DEF Request!Paths
<1>5. CASE s = "duration_seconds"
  <2>1. Canonical(s) = "duration_seconds"
    BY <1>5 DEF Canonical
  <2>2. Request!IsNumber(Request!JsonOf(Canonical(s), n))
    BY <2>1 DEF Request!IsNumber, Request!Decimal, Request!Real
  <2> QED
    BY <2>1, <2>2 DEF Request!Paths
<1>6. CASE s = "use_sampling"
  <2>1. Canonical(s) = "sampling.use_sampling"
    BY <1>6 DEF Canonical
  <2>2. Request!JsonOf(Canonical(s), n).type = "boolean"
    BY <2>1 DEF Request!Flag
  <2> QED
    BY <2>1, <2>2 DEF Request!Paths
<1>7. CASE s = "ignore_tokens"
  <2>1. Canonical(s) = "sampling.ignore_tokens"
    BY <1>7 DEF Canonical
  <2>2. Request!JsonOf(Canonical(s), n).type = "array"
    BY <2>1 DEF Request!Ids
  <2> QED
    BY <2>1, <2>2 DEF Request!Paths
<1> QED
  BY <1>1, <1>2, <1>3, <1>4, <1>5, <1>6, <1>7, SettingsAre DEF WholeSettings

LEMMA SerializeAccepted ==
  ASSUME NEW r, Settled(r), r["repetition_penalty"] > 0, r["seed"] # Request!NoSeed
  PROVE  Request!Accepts(Request!serialize(r))
<1>1. PICK d : d = Request!serialize(r)
  OBVIOUS
<1>2. DOMAIN d = {Canonical(s) : s \in Request!Settings}
  BY <1>1, SerializeDomain
<1>3. ASSUME NEW s \in Request!Settings
      PROVE  Canonical(s) \in Request!Paths /\ Request!Valid(Canonical(s), d[Canonical(s)])
  <2>1. d[Canonical(s)] = Request!JsonOf(Canonical(s), r[s])
    BY <1>1, SerializeAt
  <2>2. InLimits(s, r[s])
    BY DEF Settled
  <2>3. s = "repetition_penalty" => r[s] > 0
    OBVIOUS
  <2>4. s = "seed" => r[s] # Request!NoSeed
    OBVIOUS
  <2> QED
    BY <2>1, <2>2, <2>3, <2>4, CanonicalValid
<1>4. DOMAIN d \subseteq Request!Paths
  BY <1>2, <1>3
<1>5. \A path \in DOMAIN d : Request!Valid(path, d[path])
  BY <1>2, <1>3
<1>6. "duration" \notin DOMAIN d /\ "description" \notin DOMAIN d
  <2>1. ASSUME NEW s \in Request!Settings
        PROVE  Canonical(s) # "duration" /\ Canonical(s) # "description"
    <3>1. Owner("duration") = "duration_seconds" /\ Owner("description") = "description"
      BY DEF Owner
    <3>2. Owner(Canonical(s)) = s
      BY OwnersAre
    <3>3. Canonical("duration_seconds") # "duration" /\ Canonical("description") # "description"
      BY DEF Canonical
    <3> QED
      BY <3>1, <3>2, <3>3
  <2> QED
    BY <1>2, <2>1
<1>7. "caption" \in DOMAIN d
  <2>1. "description" \in Request!Settings /\ Canonical("description") = "caption"
    BY SettingsAre DEF Canonical
  <2> QED
    BY <1>2, <2>1
<1> QED
  BY <1>1, <1>4, <1>5, <1>6, <1>7 DEF Request!Accepts, Request!DurationPaths

-----------------------------------------------------------------------------
(* The request documents: what is accepted is within its limits.           *)

ValueOk(path, v) ==
  /\ v.type = "null" => v = Request!Null
  /\ path \in Request!DurationPaths \cup Request!TextPaths /\ v.type # "null" => v.n \in Nat
DocOk(d) == \A path \in DOMAIN d : ValueOk(path, d[path])

LEMMA DefaultLimits ==
  ASSUME NEW s \in Request!Settings
  PROVE  InLimits(s, Request!Default(s))
<1>1. Request!Default(s) \in {0, 2} \/ (s = "seed" /\ Request!Default(s) = -1)
  BY DEF Request!Default, Request!NoSeed
<1>2. Request!Default("seed") = -1
  BY DEF Request!Default, Request!NoSeed
<1>3. Request!Narrow(0) = 0 /\ Request!Narrow(2) = 2
  BY DEF Request!Narrow
<1>4. CASE s = "seed"
  BY <1>2, <1>4, BoundsOfRequest DEF InLimits, WholeSettings
<1>5. CASE s # "seed"
  BY <1>1, <1>3, <1>5, BoundsOfRequest DEF InLimits
<1> QED
  BY <1>4, <1>5

LEMMA UnderstoodLimits ==
  ASSUME NEW s \in Request!Settings, NEW path, NEW v, Request!Valid(path, v), ValueOk(path, v),
         path = Canonical(s) \/ (s \in TwoPaths /\ path = First(s))
  PROVE  InLimits(s, Request!Understood(path, v))
<1> USE DEF Request!Valid, Request!WellTyped, Request!TextPaths,
        Request!DurationPaths, Request!WholePaths, Request!ScalePaths, Request!FloatPaths
<1>1. CASE s \in WholeSettings
  <2>1. path \in Request!WholePaths
    BY <1>1 DEF WholeSettings, Canonical, First, TwoPaths
  <2>2. Request!ExactU64(v)
    BY <2>1
  <2>3. v # Request!Null /\ v.n \in 0 .. MaxU64
    BY <2>2 DEF Request!ExactU64, Request!Null
  <2>4. Request!Understood(path, v) = v.n
    BY <2>1, <2>3 DEF Request!Understood
  <2> QED
    BY <1>1, <2>3, <2>4 DEF InLimits, WholeSettings
<1>2. CASE s = "seed"
  <2>1. path = "seed"
    BY <1>2 DEF Canonical, First, TwoPaths
  <2>2. v = Request!Null \/ v.n \in 0 .. MaxU64
    BY <2>1 DEF ValueOk, Request!ExactU64
  <2>3. Request!Understood(path, v) = IF v = Request!Null THEN -1 ELSE v.n
    BY <2>1 DEF Request!Understood, Request!NoSeed
  <2> QED
    BY <1>2, <2>2, <2>3, BoundsOfRequest DEF InLimits, WholeSettings
<1>3. CASE s \in {"temperature", "repetition_penalty", "flow_cfg_scale"}
  <2>1. path \in {"temperature", "sampling.temperature", "sampling.repetition_penalty",
                  "guidance_scale", "flow.cfg_scale"}
    BY <1>3 DEF Canonical, First, TwoPaths
  <2>2. v.n \in 0 .. MaxFloat
    <3>1. CASE path = "temperature"
      <4>1. v.n \in 1 .. MaxTemperature
        BY <3>1
      <4> QED
        BY ONLY <4>1, BoundsOfRequest
    <3>2. CASE path = "sampling.temperature"
      BY <3>2
    <3>3. CASE path = "sampling.repetition_penalty"
      <4>1. v.n \in 1 .. MaxFloat
        BY <3>3
      <4> QED
        BY ONLY <4>1, BoundsOfRequest
    <3>4. CASE path \in {"guidance_scale", "flow.cfg_scale"}
      BY <3>4
    <3> QED
      BY ONLY <2>1, <3>1, <3>2, <3>3, <3>4
  <2>3. Request!Understood(path, v) = Request!Narrow(v.n)
    BY <2>1 DEF Request!Understood
  <2>4. /\ Request!Narrow(v.n) \in 0 .. MaxFloat
        /\ Request!Narrow(Request!Narrow(v.n)) = Request!Narrow(v.n)
    BY <2>2, NarrowIs, NarrowInLimits
  <2> QED
    BY <1>3, <2>3, <2>4 DEF InLimits, WholeSettings
<1>4. CASE s = "cfg_scale"
  <2>1. path = "cfg_scale"
    BY <1>4 DEF Canonical, First, TwoPaths
  <2>2. v.n \in -MaxFloat .. MaxFloat /\ v.n \in Int
    BY <2>1, BoundsOfRequest
  <2>3. Request!Understood(path, v) = Request!Narrow(v.n)
    BY <2>1 DEF Request!Understood
  <2>4. /\ Request!Narrow(v.n) \in -MaxFloat .. MaxFloat
        /\ Request!Narrow(Request!Narrow(v.n)) = Request!Narrow(v.n)
    BY <2>2, NarrowIs, NarrowInLimits
  <2> QED
    BY <1>4, <2>3, <2>4 DEF InLimits, WholeSettings
<1>5. CASE s = "duration_seconds"
  <2>1. path \in Request!DurationPaths /\ path \notin Request!FloatPaths
    BY <1>5 DEF Canonical, First, TwoPaths
  <2>2. v.type # "null" /\ v # Request!Null
    <3>1. CASE path = "duration"
      <4>1. Request!IsNumber(v)
        BY <3>1
      <4> QED
        BY ONLY <4>1 DEF Request!IsNumber, Request!Null
    <3>2. CASE path = "duration_seconds"
      <4>1. Request!IsNumber(v)
        BY <3>2
      <4> QED
        BY ONLY <4>1 DEF Request!IsNumber, Request!Null
    <3> QED
      BY <2>1, <3>1, <3>2
  <2>3. v.n \in Nat
    BY <2>1, <2>2 DEF ValueOk
  <2>4. Request!Understood(path, v) = v.n
    BY <2>1, <2>2 DEF Request!Understood
  <2> QED
    BY <1>5, <2>3, <2>4 DEF InLimits, WholeSettings
<1>6. CASE s \in {"lyrics", "description"}
  <2>1. path \in Request!TextPaths /\ path \notin Request!FloatPaths
    BY <1>6 DEF Canonical, First, TwoPaths
  <2>2. v.type = "string"
    BY <2>1
  <2>3. v # Request!Null
    BY ONLY <2>2 DEF Request!Null
  <2>4. v.n \in Nat
    BY ONLY <2>1, <2>2, ValueOk(path, v) DEF ValueOk
  <2>5. Request!Understood(path, v) = v.n
    BY ONLY <2>1, <2>3 DEF Request!Understood
  <2> QED
    BY ONLY <1>6, <2>4, <2>5 DEF InLimits, WholeSettings
<1>7. CASE s \in {"use_sampling", "ignore_tokens"}
  BY <1>7 DEF InLimits, WholeSettings
<1> QED
  BY <1>1, <1>2, <1>3, <1>4, <1>5, <1>6, <1>7, SettingsAre DEF WholeSettings

LEMMA ParseSettled ==
  ASSUME NEW d, Request!Accepts(d), DocOk(d)
  PROVE  Settled(Request!parse(d))
<1>1. ASSUME NEW s \in Request!Settings
      PROVE  InLimits(s, Request!parse(d)[s])
  <2>1. CASE Request!Given(s, d) = {}
    BY <2>1, ParseAt, DefaultLimits
  <2>2. CASE Request!Given(s, d) # {}
    <3>1. PICK i : i = Request!Max(Request!Given(s, d))
      OBVIOUS
    <3>2. PICK path : path = Request!Sources[s][i]
      OBVIOUS
    <3>3. Request!Given(s, d) \in SUBSET {1, 2}
      BY PathsOfSetting DEF Request!Given
    <3>4. i \in Request!Given(s, d)
      BY <2>2, <3>1, <3>3, MaxOfTwo
    <3>5. i \in DOMAIN Request!Sources[s] /\ path \in DOMAIN d
      BY <3>2, <3>4 DEF Request!Given
    <3>6. path = Canonical(s) \/ (s \in TwoPaths /\ path = First(s))
      BY <3>2, <3>5, PathsOfSetting
    <3>7. Request!Valid(path, d[path]) /\ ValueOk(path, d[path])
      BY <3>5 DEF Request!Accepts, DocOk
    <3>8. Request!parse(d)[s] = Request!Understood(path, d[path])
      BY <2>2, <3>1, <3>2, ParseAt
    <3> QED
      BY <3>6, <3>7, <3>8, UnderstoodLimits
  <2> QED
    BY <2>1, <2>2
<1>2. Request!parse(d) = [s \in Request!Settings |-> Request!parse(d)[s]]
  BY DEF Request!parse
<1> QED
  BY <1>1, <1>2 DEF Settled

LEMMA OffersOk ==
  ASSUME NEW path, NEW v \in Request!Offers(path)
  PROVE  ValueOk(path, v)
<1>1. CASE v = Request!Null
  BY <1>1 DEF ValueOk, Request!Null
<1>2. CASE v # Request!Null
  <2>1. CASE path \in Request!DurationPaths
    <3>1. v \in {Request!Real(1), Request!Real(3)}
      BY <1>2, <2>1 DEF Request!Offers, Request!TextPaths, Request!FloatPaths,
           Request!ScalePaths, Request!DurationPaths
    <3> QED
      BY <3>1 DEF ValueOk, Request!Real
  <2>3. CASE path \in Request!TextPaths
    <3>1. v \in {Request!Text(1), Request!Text(5)}
      BY <1>2, <2>3 DEF Request!Offers, Request!TextPaths, Request!FloatPaths,
           Request!ScalePaths, Request!DurationPaths
    <3> QED
      BY <3>1 DEF ValueOk, Request!Text
  <2>2. CASE path \notin Request!DurationPaths \cup Request!TextPaths
    <3>1. v.type # "null"
      BY <1>2, <2>2 DEF Request!Offers, Request!Text, Request!Real, Request!Flag, Request!Ids,
           Request!Whole
    <3> QED
      BY <2>2, <3>1 DEF ValueOk
  <2> QED
    BY <2>1, <2>2, <2>3
<1> QED
  BY <1>1, <1>2

LEMMA SettledChanges ==
  ASSUME NEW r, Settled(r)
  PROVE  /\ \A n \in 0 .. MaxU64 :
              Settled([r EXCEPT !.seed = n]) /\ [r EXCEPT !.seed = n]["seed"] = n
         /\ /\ Settled([r EXCEPT !.duration_seconds = @ + 1])
            /\ [r EXCEPT !.duration_seconds = @ + 1]["duration_seconds"] = r["duration_seconds"] + 1
            /\ r["duration_seconds"] \in Nat
<1>1. r = [s \in Request!Settings |-> r[s]] /\ \A s \in Request!Settings : InLimits(s, r[s])
  BY DEF Settled
<1>2. "seed" \in Request!Settings /\ "duration_seconds" \in Request!Settings
  BY SettingsAre
<1>3. r["duration_seconds"] \in Nat
  BY <1>1, <1>2 DEF InLimits
<1>4. InLimits("duration_seconds", r["duration_seconds"] + 1)
  BY <1>3 DEF InLimits, WholeSettings
<1>5. \A n \in 0 .. MaxU64 : InLimits("seed", n)
  BY BoundsOfRequest DEF InLimits, WholeSettings
<1>6. ASSUME NEW n \in 0 .. MaxU64
      PROVE  Settled([r EXCEPT !.seed = n]) /\ [r EXCEPT !.seed = n]["seed"] = n
  BY <1>1, <1>2, <1>5 DEF Settled
<1>7. /\ Settled([r EXCEPT !.duration_seconds = @ + 1])
      /\ [r EXCEPT !.duration_seconds = @ + 1]["duration_seconds"] = r["duration_seconds"] + 1
  BY <1>1, <1>2, <1>4 DEF Settled
<1> QED
  BY <1>3, <1>6, <1>7

-----------------------------------------------------------------------------
(* The request documents: the invariant.                                   *)

(* The completions somebody may have made of one.                          *)
Edits(c, r) ==
  {[c EXCEPT !.duration = @ + 1], [c EXCEPT !.duration = Request!Absent],
   [c EXCEPT !.tokens = "edited"], [c EXCEPT !.codes = @ + 1],
   [c EXCEPT !.frame_count = 0],
   [c EXCEPT !.request = Request!serialize([r EXCEPT !.duration_seconds = @ + 1])],
   [c EXCEPT !.request = [p \in DOMAIN @ \ {"seed"} |-> @[p]]]}

(* The songs CODES may have completed.                                     *)
Lengths == 0 .. MaxFrames

(* The texts of the user are those of every document made of the request.  *)
Foreseen ==
  Request!Cardinality(Request!CanonicalPaths) + Request!TextBytes(doc)
    + CodeBytes * Request!CodesOf(written) > MaxBytes

RequestInv ==
  /\ phase \in {"composing", "refused", "resolved", "failed", "CODES", "completed", "DIFFUSE",
                "too large", "unreadable"}
  /\ DocOk(doc) /\ edited \in BOOLEAN
  /\ phase \in {"composing", "refused", "resolved", "failed", "CODES"} => ~edited
  /\ phase \notin {"composing", "refused"} =>
       Settled(first) /\ first["seed"] # Request!NoSeed /\ (~edited => read = first)
  /\ phase \notin {"composing", "refused"} =>
       Request!TextBytes(doc) = first["description"] + first["lyrics"]
  /\ phase \in {"CODES", "completed", "DIFFUSE"} =>
       first["repetition_penalty"] > 0 /\ read = first
  /\ phase \in {"resolved", "CODES", "DIFFUSE"} => written = Request!serialize(first)
  /\ phase = "completed" =>
       \E frames \in Lengths :
         IF edited THEN written \in Edits(Request!CompletionOf(first, frames), first)
         ELSE written = Request!CompletionOf(first, frames)
  /\ phase = "unreadable" =>
       \/ edited \/ first["repetition_penalty"] <= 0
       \/ Request!IsCompletion(written) /\ written["frame_count"] = 0
  /\ phase = "too large" => edited \/ Foreseen

LEMMA SameCount ==
  ASSUME NEW S
  PROVE  Request!Cardinality(S) = Cardinality(S)
BY DEF Request!Cardinality, Cardinality

LEMMA FewAreFinite == IsFiniteSet(Request!Settings)
<1>1. \A a, b, c : IsFiniteSet({a, b, c})
  <2> TAKE a, b, c
  <2>1. IsFiniteSet({a}) /\ IsFiniteSet({b}) /\ IsFiniteSet({c})
    BY FS_Singleton
  <2>2. IsFiniteSet({a} \cup {b})
    BY <2>1, FS_Union
  <2>3. IsFiniteSet(({a} \cup {b}) \cup {c})
    BY <2>1, <2>2, FS_Union
  <2>4. {a, b, c} = ({a} \cup {b}) \cup {c}
    OBVIOUS
  <2> QED
    BY ONLY <2>3, <2>4
<1>2. IsFiniteSet({"lyrics", "description", "duration_seconds"}
                  \cup {"seed", "cfg_scale", "temperature"})
  BY <1>1, FS_Union
<1>3. IsFiniteSet({"top_k_mixed", "top_k_detail", "use_sampling"}
                  \cup {"repetition_window", "repetition_penalty", "ignore_tokens"})
  BY <1>1, FS_Union
<1>4. IsFiniteSet({"flow_seed", "flow_euler_steps", "flow_cfg_scale"})
  BY <1>1
<1>5. PICK A : A = {"lyrics", "description", "duration_seconds"}
                    \cup {"seed", "cfg_scale", "temperature"}
  OBVIOUS
<1>6. PICK B : B = {"top_k_mixed", "top_k_detail", "use_sampling"}
                    \cup {"repetition_window", "repetition_penalty", "ignore_tokens"}
  OBVIOUS
<1>7. PICK C : C = {"flow_seed", "flow_euler_steps", "flow_cfg_scale"}
  OBVIOUS
<1>8. IsFiniteSet(A \cup B)
  BY ONLY <1>2, <1>3, <1>5, <1>6, FS_Union
<1>9. IsFiniteSet((A \cup B) \cup C)
  BY ONLY <1>4, <1>7, <1>8, FS_Union
<1>10. Request!Settings = (A \cup B) \cup C
  BY ONLY <1>5, <1>6, <1>7, SettingsAre
<1> QED
  BY ONLY <1>9, <1>10

(* A canonical document has the texts of its settings, and is none of a    *)
(* completion.                                                             *)
LEMMA CanonicalBytes ==
  ASSUME NEW r, Settled(r)
  PROVE  /\ Request!Bytes(Request!serialize(r))
              = Request!Cardinality(Request!CanonicalPaths) + (r["description"] + r["lyrics"])
         /\ Request!Bytes(Request!serialize(r)) \in Nat
         /\ ~Request!IsCompletion(Request!serialize(r))
         /\ Request!CodesOf(Request!serialize(r)) = 0
<1>1. PICK d : d = Request!serialize(r)
  OBVIOUS
<1>2. /\ DOMAIN d = Request!CanonicalPaths
      /\ DOMAIN d = {Canonical(s) : s \in Request!Settings}
  BY <1>1, SerializeDomain DEF Request!serialize, Request!CanonicalPaths
<1>3. /\ Canonical("lyrics") = "lyrics" /\ Canonical("description") = "caption"
      /\ "lyrics" \in Request!Settings /\ "description" \in Request!Settings
  BY SettingsAre DEF Canonical
<1>4. ASSUME NEW s \in Request!Settings
      PROVE  Canonical(s) # "description" /\ Canonical(s) # "frame_count"
  BY SettingsAre DEF Canonical
<1>5. /\ d["lyrics"] = Request!Text(r["lyrics"])
      /\ d["caption"] = Request!Text(r["description"])
  <2>1. /\ Request!JsonOf("lyrics", r["lyrics"]) = Request!Text(r["lyrics"])
        /\ Request!JsonOf("caption", r["description"]) = Request!Text(r["description"])
    BY DEF Request!JsonOf, Request!TextPaths, Request!WholePaths
  <2> QED
    BY <1>1, <1>3, <2>1, SerializeAt
<1>6. /\ Request!TextAt("lyrics", d) = r["lyrics"]
      /\ Request!TextAt("caption", d) = r["description"]
      /\ Request!TextAt("description", d) = 0
  <2>1. "lyrics" \in DOMAIN d /\ "caption" \in DOMAIN d /\ "description" \notin DOMAIN d
    BY <1>2, <1>3, <1>4
  <2>2. d["lyrics"].n = r["lyrics"] /\ d["caption"].n = r["description"]
    BY <1>5 DEF Request!Text
  <2> QED
    BY ONLY <2>1, <2>2 DEF Request!TextAt
<1>7. "frame_count" \notin DOMAIN d
  BY <1>2, <1>4
<1>8. r["description"] \in Nat /\ r["lyrics"] \in Nat
  BY SettingsAre DEF Settled, InLimits
<1>9. Request!Cardinality(DOMAIN d) = Request!Cardinality(Request!CanonicalPaths)
  BY <1>2
<1>10. Request!TextBytes(d) = r["description"] + r["lyrics"]
  BY <1>6, <1>8 DEF Request!TextBytes
<1>11. IsFiniteSet(Request!CanonicalPaths)
  <2>1. Request!CanonicalPaths = {Canonical(s) : s \in Request!Settings}
    BY <1>2
  <2>2. IsFiniteSet(Request!Settings)
    BY FewAreFinite
  <2>3. PICK f : f = [s \in Request!Settings |-> Canonical(s)]
    OBVIOUS
  <2>4. f \in Surjection(Request!Settings, Request!CanonicalPaths)
    BY <2>1, <2>3 DEF Surjection
  <2> QED
    BY <2>2, <2>4, FS_Surjection
<1>12. Request!Cardinality(Request!CanonicalPaths) \in Nat
  BY <1>11, FS_CardinalityType, SameCount
<1> QED
  BY <1>1, <1>7, <1>8, <1>9, <1>10, <1>12
     DEF Request!Bytes, Request!IsCompletion, Request!CodesOf

LEMMA CompletionReads ==
  ASSUME NEW r, NEW frames \in Nat,
         Settled(r), r["repetition_penalty"] > 0, r["seed"] # Request!NoSeed
  PROVE  /\ frames # 0 => Request!ReadsCodes(Request!CompletionOf(r, frames))
         /\ Request!parse(Request!CompletionOf(r, frames).request) = r
<1>1. PICK d : d = Request!serialize(r)
  OBVIOUS
<1>2. Request!parse(d) = r /\ Request!Accepts(d)
  BY <1>1, ParseOfSerialize, SerializeAccepted
<1>3. PICK c : c = Request!CompletionOf(r, frames)
  OBVIOUS
<1>4. /\ c.request = d /\ c.duration = r["duration_seconds"] /\ c.frame_count = frames
      /\ c.codes = 3 * frames /\ c.tokens = "sampled" /\ c.token_sha256 = "sampled"
  BY <1>1, <1>3 DEF Request!CompletionOf
<1>5. Request!parse(c.request) = r /\ Request!Accepts(c.request)
  BY ONLY <1>2, <1>4
<1>6. Request!DurationAgrees(c)
  BY ONLY <1>4, <1>5 DEF Request!DurationAgrees
<1>7. frames # 0 => Request!ReadsCodes(c)
  BY ONLY <1>4, <1>5, <1>6, r["seed"] # Request!NoSeed DEF Request!ReadsCodes
<1> QED
  BY ONLY <1>3, <1>5, <1>7

LEMMA CompletionSize ==
  ASSUME NEW r, NEW frames \in Nat, Settled(r)
  PROVE  LET c == Request!CompletionOf(r, frames)
         IN /\ Request!IsCompletion(c) /\ c["frame_count"] = frames
            /\ Request!CompletionBytes(c)
                 = Request!Cardinality(Request!CanonicalPaths)
                     + (r["description"] + r["lyrics"]) + CodeBytes * Request!CodesOf(c)
<1>1. PICK d : d = Request!serialize(r)
  OBVIOUS
<1>2. Request!Bytes(d)
        = Request!Cardinality(Request!CanonicalPaths) + (r["description"] + r["lyrics"])
  BY <1>1, CanonicalBytes
<1>3. PICK c : c = Request!CompletionOf(r, frames)
  OBVIOUS
<1>4. /\ c.request = d /\ c.codes = 3 * frames /\ c.frame_count = frames
      /\ "frame_count" \in DOMAIN c
  BY <1>1, <1>3 DEF Request!CompletionOf
<1>5. Request!CodesOf(c) = c.codes
  BY ONLY <1>4 DEF Request!CodesOf, Request!IsCompletion
<1> QED
  BY ONLY <1>2, <1>3, <1>4, <1>5 DEF Request!CompletionBytes, Request!IsCompletion

(* A reader of an edited completion has the settings that were completed,  *)
(* or refuses it.                                                          *)
LEMMA EditsRefused ==
  ASSUME NEW r, NEW frames \in Nat, Settled(r),
         NEW e \in Edits(Request!CompletionOf(r, frames), r), Request!ReadsCodes(e)
  PROVE  Request!parse(e.request) = r
<1>1. PICK d : d = Request!serialize(r)
  OBVIOUS
<1>2. Request!parse(d) = r
  BY <1>1, ParseOfSerialize
<1>3. PICK n : n = r["duration_seconds"]
  OBVIOUS
<1>4. n \in Nat
  BY <1>3, SettledChanges
<1>5. PICK c : c = [request |-> d, duration |-> n, frame_count |-> frames,
                    codes |-> 3 * frames, tokens |-> "sampled", token_sha256 |-> "sampled"]
  OBVIOUS
<1>6. Request!CompletionOf(r, frames) = c
  BY <1>1, <1>3, <1>5 DEF Request!CompletionOf
<1>7. /\ e.duration \in {Request!Absent, Request!parse(e.request)["duration_seconds"]}
      /\ Request!parse(e.request)["seed"] # Request!NoSeed
      /\ e.frame_count # 0 /\ e.codes = 3 * e.frame_count /\ e.token_sha256 = e.tokens
  BY DEF Request!ReadsCodes, Request!DurationAgrees
<1>8. \/ e = [c EXCEPT !.duration = @ + 1] \/ e = [c EXCEPT !.duration = Request!Absent]
      \/ e = [c EXCEPT !.tokens = "edited"] \/ e = [c EXCEPT !.codes = @ + 1]
      \/ e = [c EXCEPT !.frame_count = 0]
      \/ e = [c EXCEPT !.request = Request!serialize([r EXCEPT !.duration_seconds = @ + 1])]
      \/ e = [c EXCEPT !.request = [p \in DOMAIN @ \ {"seed"} |-> @[p]]]
  BY <1>6 DEF Edits
<1>9. CASE e = [c EXCEPT !.duration = @ + 1]
  <2>1. e.request = d
    BY ONLY <1>5, <1>9
  <2> QED
    BY ONLY <1>2, <2>1
<1>10. CASE e = [c EXCEPT !.duration = Request!Absent]
  <2>1. e.request = d
    BY ONLY <1>5, <1>10
  <2> QED
    BY ONLY <1>2, <2>1
<1>11. CASE e = [c EXCEPT !.tokens = "edited"]
  <2>1. e.tokens = "edited" /\ e.token_sha256 = "sampled"
    BY ONLY <1>5, <1>11
  <2> QED
    BY ONLY <1>7, <2>1
<1>12. CASE e = [c EXCEPT !.codes = @ + 1]
  <2>1. e.codes = 3 * frames + 1 /\ e.frame_count = frames
    BY ONLY <1>5, <1>12
  <2> QED
    BY ONLY <1>7, <2>1, frames \in Nat
<1>13. CASE e = [c EXCEPT !.frame_count = 0]
  <2>1. e.frame_count = 0
    BY ONLY <1>5, <1>13
  <2> QED
    BY ONLY <1>7, <2>1
<1>14. CASE e = [c EXCEPT !.request = Request!serialize([r EXCEPT !.duration_seconds = @ + 1])]
  <2>1. PICK q : q = [r EXCEPT !.duration_seconds = @ + 1]
    OBVIOUS
  <2>2. Settled(q) /\ q["duration_seconds"] = n + 1
    BY <1>3, <2>1, SettledChanges
  <2>3. Request!parse(Request!serialize(q)) = q
    BY <2>2, ParseOfSerialize
  <2>4. e.request = Request!serialize(q) /\ e.duration = n
    BY ONLY <1>5, <1>14, <2>1
  <2>5. e.duration \in {-1, n + 1}
    BY ONLY <1>7, <2>2, <2>3, <2>4 DEF Request!Absent
  <2> QED
    BY ONLY <1>4, <2>4, <2>5
<1>15. CASE e = [c EXCEPT !.request = [p \in DOMAIN @ \ {"seed"} |-> @[p]]]
  <2>1. PICK q : q = [p \in DOMAIN d \ {"seed"} |-> d[p]]
    OBVIOUS
  <2>2. e.request = q
    BY ONLY <1>5, <1>15, <2>1
  <2>3. "seed" \notin DOMAIN q
    BY ONLY <2>1
  <2>4. "seed" \in Request!Settings /\ Request!Sources["seed"] = <<"seed">>
    BY SettingsAre DEF Request!Sources
  <2>5. Request!Given("seed", q) = {}
    BY ONLY <2>3, <2>4 DEF Request!Given
  <2>6. Request!parse(q)["seed"] = Request!Default("seed")
    BY <2>4, <2>5, ParseAt
  <2>7. Request!Default("seed") = Request!NoSeed
    BY DEF Request!Default
  <2> QED
    BY ONLY <1>7, <2>2, <2>6, <2>7
<1> QED
  BY ONLY <1>8, <1>9, <1>10, <1>11, <1>12, <1>13, <1>14, <1>15

LEMMA RequestStart == Request!Init => RequestInv
<1> SUFFICES ASSUME Request!Init PROVE RequestInv
  OBVIOUS
<1>1. doc = <<>> /\ phase = "composing" /\ edited = FALSE
  BY DEF Request!Init
<1>2. DocOk(doc)
  <2>1. DOMAIN doc = {}
    BY <1>1
  <2> QED
    BY <2>1 DEF DocOk
<1> QED
  BY ONLY <1>1, <1>2 DEF RequestInv

LEMMA RequestRests == RequestInv /\ UNCHANGED requestVars => RequestInv'
<1> SUFFICES ASSUME RequestInv, UNCHANGED requestVars PROVE RequestInv'
  OBVIOUS
<1>1. /\ doc' = doc /\ phase' = phase /\ written' = written /\ first' = first /\ read' = read
      /\ edited' = edited
  BY DEF requestVars
<1>4. Foreseen' <=> Foreseen
  BY ONLY <1>1 DEF Foreseen
<1>2. CASE phase = "completed"
  BY ONLY RequestInv, <1>1, <1>2 DEF RequestInv
<1>3. CASE phase # "completed"
  BY ONLY RequestInv, <1>1, <1>3, <1>4 DEF RequestInv
<1> QED
  BY <1>2, <1>3

LEMMA ComposeKeeps == RequestInv /\ Request!Compose => RequestInv'
<1> SUFFICES ASSUME RequestInv, Request!Compose PROVE RequestInv'
  OBVIOUS
<1>1. phase = "composing" /\ DocOk(doc) /\ ~edited /\ edited \in BOOLEAN
      /\ UNCHANGED <<phase, written, first, read, edited>>
  BY DEF RequestInv, Request!Compose
<1>2. PICK path : \E v \in Request!Offers(path) :
        doc' = [p \in DOMAIN doc \cup {path} |-> IF p = path THEN v ELSE doc[p]]
  BY DEF Request!Compose
<1>3. PICK v \in Request!Offers(path) :
        doc' = [p \in DOMAIN doc \cup {path} |-> IF p = path THEN v ELSE doc[p]]
  BY <1>2
<1>4. ValueOk(path, v)
  BY OffersOk
<1>5. ASSUME NEW p \in DOMAIN doc' PROVE ValueOk(p, doc'[p])
  BY <1>1, <1>3, <1>4 DEF DocOk
<1>6. DocOk(doc')
  BY <1>5 DEF DocOk
<1> QED
  BY ONLY <1>1, <1>6 DEF RequestInv

LEMMA TextsSettle ==
  ASSUME NEW d, Request!Accepts(d), DocOk(d)
  PROVE  Request!TextBytes(d)
           = Request!parse(d)["description"] + Request!parse(d)["lyrics"]
<1>1. \A path \in DOMAIN d \cap {"caption", "description", "lyrics"} :
        Request!Understood(path, d[path]) = d[path].n
  <2> TAKE path \in DOMAIN d \cap {"caption", "description", "lyrics"}
  <2>1. d[path].type = "string"
    <3>1. Request!WellTyped(path, d[path])
      BY DEF Request!Accepts, Request!Valid
    <3>2. path \in Request!TextPaths
      BY DEF Request!TextPaths
    <3> QED
      BY ONLY <3>1, <3>2 DEF Request!WellTyped, Request!TextPaths, Request!DurationPaths,
         Request!WholePaths, Request!ScalePaths
  <2>2. d[path] # Request!Null
    BY <2>1 DEF Request!Null
  <2>3. path \notin Request!FloatPaths
    BY DEF Request!FloatPaths, Request!ScalePaths
  <2> QED
    BY <2>2, <2>3 DEF Request!Understood
<1>2. /\ "lyrics" \in Request!Settings /\ "description" \in Request!Settings
      /\ Request!Sources["lyrics"] = <<"lyrics">>
      /\ Request!Sources["description"] = <<"description", "caption">>
  BY SettingsAre DEF Request!Sources
<1>3. Request!TextAt("lyrics", d) = Request!parse(d)["lyrics"]
  <2>1. CASE "lyrics" \in DOMAIN d
    <3>1. Request!Given("lyrics", d) = {1}
      BY <1>2, <2>1 DEF Request!Given
    <3>2. Request!Max({1}) = 1
      BY MaxOfOne
    <3>3. Request!parse(d)["lyrics"] = Request!Understood("lyrics", d["lyrics"])
      BY <1>2, <3>1, <3>2, ParseAt
    <3> QED
      BY <1>1, <2>1, <3>3 DEF Request!TextAt
  <2>2. CASE "lyrics" \notin DOMAIN d
    <3>1. Request!Given("lyrics", d) = {}
      BY <1>2, <2>2 DEF Request!Given
    <3>2. Request!parse(d)["lyrics"] = Request!Default("lyrics")
      BY <1>2, <3>1, ParseAt
    <3>3. Request!Default("lyrics") = 0
      BY DEF Request!Default
    <3> QED
      BY <2>2, <3>2, <3>3 DEF Request!TextAt
  <2> QED
    BY <2>1, <2>2
<1>6. Request!parse(d)["description"] \in Nat /\ Request!parse(d)["lyrics"] \in Nat
  BY <1>2, ParseSettled DEF Settled, InLimits
<1>4. CASE "caption" \in DOMAIN d /\ "description" \notin DOMAIN d
  <2>1. Request!Given("description", d) = {2}
    BY <1>2, <1>4 DEF Request!Given
  <2>2. Request!Max({2}) = 2
    BY MaxOfOne
  <2>6. Request!Sources["description"][2] = "caption" /\ Request!Given("description", d) # {}
    BY <1>2, <2>1
  <2>7. Request!Sources["description"][Request!Max(Request!Given("description", d))] = "caption"
    BY ONLY <2>1, <2>2, <2>6
  <2>3. Request!parse(d)["description"] = Request!Understood("caption", d["caption"])
    BY ONLY <1>2, <2>6, <2>7, ParseAt
  <2>4. Request!TextAt("caption", d) = Request!parse(d)["description"]
    BY <1>1, <1>4, <2>3 DEF Request!TextAt
  <2>5. Request!TextAt("description", d) = 0
    BY <1>4 DEF Request!TextAt
  <2> QED
    BY ONLY <1>3, <1>6, <2>4, <2>5 DEF Request!TextBytes
<1>5. CASE "description" \in DOMAIN d /\ "caption" \notin DOMAIN d
  <2>1. Request!Given("description", d) = {1}
    BY <1>2, <1>5 DEF Request!Given
  <2>2. Request!Max({1}) = 1
    BY MaxOfOne
  <2>6. Request!Sources["description"][1] = "description" /\ Request!Given("description", d) # {}
    BY <1>2, <2>1
  <2>7. Request!Sources["description"][Request!Max(Request!Given("description", d))] = "description"
    BY ONLY <2>1, <2>2, <2>6
  <2>3. Request!parse(d)["description"] = Request!Understood("description", d["description"])
    BY ONLY <1>2, <2>6, <2>7, ParseAt
  <2>4. Request!TextAt("description", d) = Request!parse(d)["description"]
    BY <1>1, <1>5, <2>3 DEF Request!TextAt
  <2>5. Request!TextAt("caption", d) = 0
    BY <1>5 DEF Request!TextAt
  <2> QED
    BY ONLY <1>3, <1>6, <2>4, <2>5 DEF Request!TextBytes
<1> QED
  BY <1>4, <1>5 DEF Request!Accepts

LEMMA CodesKeeps == RequestInv /\ Request!Codes => RequestInv'
<1> SUFFICES ASSUME RequestInv, Request!Codes PROVE RequestInv'
  OBVIOUS
<1>1. phase = "composing" /\ DocOk(doc) /\ ~edited /\ edited \in BOOLEAN
      /\ UNCHANGED <<doc, edited>>
  BY DEF RequestInv, Request!Codes
<1>2. CASE phase' = "refused"
  BY ONLY <1>1, <1>2 DEF RequestInv
<1>3. CASE phase' # "refused"
  <2>1. Request!Accepts(doc)
    BY <1>3 DEF Request!Codes, Request!Goto
  <2>2. PICK seed \in IF Request!parse(doc)["seed"] = Request!NoSeed THEN 0 .. MaxU64
                      ELSE {Request!parse(doc)["seed"]} :
          first' = [Request!parse(doc) EXCEPT !.seed = seed]
    BY <1>3 DEF Request!Codes, Request!Goto
  <2>3. read' = first' /\ written' = Request!serialize(first') /\ phase' = "resolved"
    BY <1>3 DEF Request!Codes, Request!Goto
  <2>4. Settled(Request!parse(doc))
    BY <1>1, <2>1, ParseSettled
  <2>5. Request!parse(doc)["seed"] \in -1 .. MaxU64
    BY <2>4, SettingsAre DEF Settled, InLimits
  <2>6. seed \in 0 .. MaxU64
    BY <2>2, <2>5, BoundsOfRequest DEF Request!NoSeed
  <2>7. Settled(first') /\ first'["seed"] = seed
    BY <2>2, <2>4, <2>6, SettledChanges
  <2>8. first'["seed"] # Request!NoSeed
    BY ONLY <2>6, <2>7, BoundsOfRequest DEF Request!NoSeed
  <2>9. Request!TextBytes(doc') = first'["description"] + first'["lyrics"]
    <3>1. PICK r : r = Request!parse(doc)
      OBVIOUS
    <3>2. Request!TextBytes(doc) = r["description"] + r["lyrics"]
      BY <1>1, <2>1, <3>1, TextsSettle
    <3>3. first'["description"] = r["description"] /\ first'["lyrics"] = r["lyrics"]
      <4>1. r = [s \in Request!Settings |-> r[s]]
        BY <2>4, <3>1 DEF Settled
      <4>2. "description" \in Request!Settings /\ "lyrics" \in Request!Settings
        BY SettingsAre
      <4>3. first' = [r EXCEPT !.seed = seed]
        BY ONLY <2>2, <3>1
      <4> QED
        BY ONLY <4>1, <4>2, <4>3
    <3> QED
      BY ONLY <1>1, <3>2, <3>3
  <2> QED
    BY ONLY <1>1, <2>3, <2>7, <2>8, <2>9 DEF RequestInv
<1> QED
  BY <1>2, <1>3

LEMMA SampleKeeps == RequestInv /\ Request!Sample => RequestInv'
<1> SUFFICES ASSUME RequestInv, Request!Sample PROVE RequestInv'
  OBVIOUS
<1>1. /\ phase = "resolved" /\ UNCHANGED <<doc, written, first, read, edited>>
      /\ DocOk(doc) /\ edited \in BOOLEAN /\ ~edited /\ Settled(first)
      /\ first["seed"] # Request!NoSeed /\ read = first /\ written = Request!serialize(first)
      /\ Request!TextBytes(doc) = first["description"] + first["lyrics"]
  BY DEF RequestInv, Request!Sample
<1>2. phase' = "failed" \/ (phase' = "CODES" /\ read["repetition_penalty"] > 0)
  BY DEF Request!Sample, Request!Goto
<1>3. CASE phase' = "failed"
  BY ONLY <1>1, <1>3 DEF RequestInv
<1>4. CASE phase' = "CODES" /\ read["repetition_penalty"] > 0
  BY ONLY <1>1, <1>4 DEF RequestInv
<1> QED
  BY <1>2, <1>3, <1>4

LEMMA CodeBytesIs == CodeBytes \in Nat /\ CodeBytes * 0 = 0
BY FormatsAssumption DEF Request!RequestAssumption

LEMMA ResumeKeeps == RequestInv /\ Request!Resume => RequestInv'
<1> SUFFICES ASSUME RequestInv, Request!Resume PROVE RequestInv'
  OBVIOUS
<1>1. /\ phase \in {"resolved", "CODES", "DIFFUSE"} /\ UNCHANGED <<doc, written, first, edited>>
      /\ DocOk(doc) /\ edited \in BOOLEAN /\ Settled(first) /\ first["seed"] # Request!NoSeed
      /\ written = Request!serialize(first) /\ (~edited => read = first)
      /\ phase \in {"resolved", "CODES"} => ~edited
      /\ phase \in {"CODES", "DIFFUSE"} => first["repetition_penalty"] > 0 /\ read = first
      /\ Request!TextBytes(doc) = first["description"] + first["lyrics"]
  BY DEF RequestInv, Request!Resume
<1>2. Request!parse(written) = first
  BY <1>1, ParseOfSerialize
<1>3. first["repetition_penalty"] > 0 => Request!Accepts(written)
  BY <1>1, SerializeAccepted
<1>4. first["repetition_penalty"] \in Nat
  BY <1>1, BoundsOfRequest, SettingsAre DEF Settled, InLimits
<1>5. \/ phase' = "too large" /\ UNCHANGED read /\ Request!Bytes(written) > MaxBytes
      \/ phase' = "unreadable" /\ UNCHANGED read
           /\ (~Request!Accepts(written) \/ Request!parse(written)["seed"] = Request!NoSeed)
      \/ UNCHANGED phase /\ read' = Request!parse(written)
  BY DEF Request!Resume, Request!Goto
<1>6. CASE phase' = "too large" /\ UNCHANGED read /\ Request!Bytes(written) > MaxBytes
  <2>1. /\ Request!Bytes(written)
              = Request!Cardinality(Request!CanonicalPaths) + (first["description"] + first["lyrics"])
        /\ Request!Bytes(written) \in Nat /\ Request!CodesOf(written) = 0
    BY <1>1, CanonicalBytes
  <2>2. CodeBytes * Request!CodesOf(written) = 0
    BY <2>1, CodeBytesIs
  <2>3. Foreseen
    <3>1. Request!Cardinality(Request!CanonicalPaths) + Request!TextBytes(doc)
            = Request!Bytes(written)
      BY ONLY <1>1, <2>1
    <3>2. Request!Bytes(written) + 0 = Request!Bytes(written)
      BY ONLY <2>1
    <3> QED
      BY ONLY <1>6, <2>2, <3>1, <3>2 DEF Foreseen
  <2>4. Foreseen'
    BY ONLY <1>1, <2>3 DEF Foreseen
  <2> QED
    BY ONLY <1>1, <1>6, <2>4 DEF RequestInv
<1>7. CASE phase' = "unreadable" /\ UNCHANGED read /\ ~Request!Accepts(written)
  <2>1. first["repetition_penalty"] <= 0
    BY ONLY <1>3, <1>4, <1>7
  <2> QED
    BY ONLY <1>1, <1>7, <2>1 DEF RequestInv
<1>8. CASE UNCHANGED phase /\ read' = Request!parse(written)
  <2>1. read' = first
    BY <1>2, <1>8
  <2> QED
    BY ONLY <1>1, <1>8, <2>1 DEF RequestInv
<1> QED
  BY ONLY <1>1, <1>2, <1>5, <1>6, <1>7, <1>8

LEMMA CompleteKeeps == RequestInv /\ Request!Complete => RequestInv'
<1> SUFFICES ASSUME RequestInv, Request!Complete PROVE RequestInv'
  OBVIOUS
<1>1. /\ phase = "CODES" /\ phase' = "completed" /\ UNCHANGED <<doc, first, read, edited>>
      /\ DocOk(doc) /\ ~edited /\ edited \in BOOLEAN /\ Settled(first)
      /\ first["seed"] # Request!NoSeed /\ first["repetition_penalty"] > 0 /\ read = first
      /\ Request!TextBytes(doc) = first["description"] + first["lyrics"]
  BY DEF RequestInv, Request!Complete, Request!Goto
<1>2. \E frames \in Lengths : written' = Request!CompletionOf(read, frames)
  BY DEF Request!Complete, Lengths
<1>3. \E frames \in Lengths : written' = Request!CompletionOf(first', frames)
  BY ONLY <1>1, <1>2
<1> QED
  BY ONLY <1>1, <1>3 DEF RequestInv

LEMMA EditKeeps == RequestInv /\ Request!Edit => RequestInv'
<1> SUFFICES ASSUME RequestInv, Request!Edit PROVE RequestInv'
  OBVIOUS
<1>1. /\ phase = "completed" /\ edited' = TRUE /\ UNCHANGED <<doc, phase, first, read>>
      /\ DocOk(doc) /\ Settled(first) /\ first["seed"] # Request!NoSeed
      /\ first["repetition_penalty"] > 0 /\ read = first
      /\ \E frames \in Lengths : written = Request!CompletionOf(first, frames)
      /\ Request!TextBytes(doc) = first["description"] + first["lyrics"]
  BY DEF RequestInv, Request!Edit
<1>2. written' \in Edits(written, read)
  BY DEF Request!Edit, Edits
<1>3. \E frames \in Lengths : written' \in Edits(Request!CompletionOf(first', frames), first')
  BY ONLY <1>1, <1>2
<1> QED
  BY ONLY <1>1, <1>3 DEF RequestInv

LEMMA DiffuseKeeps == RequestInv /\ Request!Diffuse => RequestInv'
<1> SUFFICES ASSUME RequestInv, Request!Diffuse PROVE RequestInv'
  OBVIOUS
<1>1. /\ phase = "completed" /\ UNCHANGED <<doc, first, edited>> /\ edited \in BOOLEAN
      /\ DocOk(doc) /\ Settled(first) /\ first["seed"] # Request!NoSeed
      /\ first["repetition_penalty"] > 0 /\ read = first
      /\ Request!TextBytes(doc) = first["description"] + first["lyrics"]
      /\ \E frames \in Lengths :
           IF edited THEN written \in Edits(Request!CompletionOf(first, frames), first)
           ELSE written = Request!CompletionOf(first, frames)
  BY DEF RequestInv, Request!Diffuse
<1>6. PICK frames \in Lengths :
        IF edited THEN written \in Edits(Request!CompletionOf(first, frames), first)
        ELSE written = Request!CompletionOf(first, frames)
  BY ONLY <1>1
<1>7. frames \in Nat
  BY FormatsAssumption DEF Lengths, Request!RequestAssumption
<1>2. \/ /\ phase' = "too large" /\ UNCHANGED <<written, read>>
         /\ Request!CompletionBytes(written) > MaxBytes
      \/ phase' = "unreadable" /\ UNCHANGED <<written, read>> /\ ~Request!ReadsCodes(written)
      \/ /\ phase' = "DIFFUSE" /\ Request!ReadsCodes(written)
         /\ read' = Request!parse(written.request) /\ written' = Request!serialize(read')
  BY DEF Request!Diffuse, Request!Goto
<1>3. CASE /\ phase' = "too large" /\ UNCHANGED <<written, read>>
           /\ Request!CompletionBytes(written) > MaxBytes
  <2>1. CASE edited
    BY ONLY <1>1, <1>3, <2>1 DEF RequestInv
  <2>2. CASE ~edited
    <3>1. written = Request!CompletionOf(first, frames)
      BY ONLY <1>6, <2>2
    <3>2. Request!CompletionBytes(written)
            = Request!Cardinality(Request!CanonicalPaths)
                + (first["description"] + first["lyrics"]) + CodeBytes * Request!CodesOf(written)
      BY <1>1, <1>7, <3>1, CompletionSize
    <3>3. Foreseen
      BY ONLY <1>1, <1>3, <3>2 DEF Foreseen
    <3>4. Foreseen'
      BY ONLY <1>1, <1>3, <3>3 DEF Foreseen
    <3> QED
      BY ONLY <1>1, <1>3, <3>4 DEF RequestInv
  <2> QED
    BY <2>1, <2>2
<1>4. CASE phase' = "unreadable" /\ UNCHANGED <<written, read>> /\ ~Request!ReadsCodes(written)
  <2>1. edited \/ (Request!IsCompletion(written) /\ written["frame_count"] = 0)
    <3>1. CASE ~edited
      <4>1. written = Request!CompletionOf(first, frames)
        BY ONLY <1>6, <3>1
      <4>2. frames = 0
        BY <1>1, <1>4, <1>7, <4>1, CompletionReads
      <4> QED
        BY <1>1, <1>7, <4>1, <4>2, CompletionSize
    <3> QED
      BY <3>1
  <2> QED
    BY ONLY <1>1, <1>4, <2>1 DEF RequestInv, Request!IsCompletion
<1>5. CASE /\ phase' = "DIFFUSE" /\ Request!ReadsCodes(written)
           /\ read' = Request!parse(written.request) /\ written' = Request!serialize(read')
  <2>1. Request!parse(written.request) = first
    <3>1. CASE edited
      BY <1>1, <1>5, <1>6, <1>7, <3>1, EditsRefused
    <3>2. CASE ~edited
      BY <1>1, <1>6, <1>7, <3>2, CompletionReads
    <3> QED
      BY <3>1, <3>2
  <2>2. read' = first /\ written' = Request!serialize(first')
    BY ONLY <1>1, <1>5, <2>1
  <2> QED
    BY ONLY <1>1, <1>5, <2>2 DEF RequestInv
<1> QED
  BY ONLY <1>2, <1>3, <1>4, <1>5

LEMMA RequestStep == RequestInv /\ Request!Next => RequestInv'
BY ComposeKeeps, CodesKeeps, SampleKeeps, ResumeKeeps, CompleteKeeps, EditKeeps, DiffuseKeeps
   DEF Request!Next

LEMMA RequestMeaning ==
  RequestInv => Request!SettingsSurvive /\ Request!WrittenIsReadable /\ Request!EditedIsRefused
BY DEF RequestInv, Foreseen, Request!SettingsSurvive, Request!WrittenIsReadable,
       Request!EditedIsRefused

-----------------------------------------------------------------------------
(* A behaviour is of one format, and the others rest.                      *)
FormatsInv == RequestInv /\ EnvelopeInv /\ DigestInv

LEMMA FormatsStart == FormatsInit => FormatsInv
BY RequestStart, EnvelopeStart, DigestStart DEF FormatsInit, FormatsInv

LEMMA FormatsStep ==
  FormatsInv /\ [FormatsNext]_<<format, requestVars, envelopeVars, digestVars>> => FormatsInv'
<1> SUFFICES ASSUME FormatsInv,
                    [FormatsNext]_<<format, requestVars, envelopeVars, digestVars>>
             PROVE  FormatsInv'
  OBVIOUS
<1>1. CASE Request!Next /\ UNCHANGED envelopeVars /\ UNCHANGED digestVars
  BY <1>1, RequestStep, EnvelopeRests, DigestRests DEF FormatsInv
<1>2. CASE Envelope!Next /\ UNCHANGED requestVars /\ UNCHANGED digestVars
  BY <1>2, RequestRests, EnvelopeStep, DigestRests DEF FormatsInv
<1>3. CASE Digest!Next /\ UNCHANGED requestVars /\ UNCHANGED envelopeVars
  BY <1>3, RequestRests, EnvelopeRests, DigestStep DEF FormatsInv
<1>4. CASE UNCHANGED requestVars /\ UNCHANGED envelopeVars /\ UNCHANGED digestVars
  BY <1>4, RequestRests, EnvelopeRests, DigestRests DEF FormatsInv
<1> QED
  BY <1>1, <1>2, <1>3, <1>4 DEF FormatsNext

LEMMA FormatsAlways == FormatsSpec => []FormatsInv
BY FormatsStart, FormatsStep, PTL DEF FormatsSpec

(* A request means the same in every document made of it, whatever the     *)
(* limits of its numbers: parsing undoes serialization                     *)
(* (levo-engine-request.cpp), so every document of its own that the engine *)
(* reads has the settings CODES first took, and an edited completion       *)
(* brings no other ones to the renderer.  A document nobody edited is not  *)
(* read in three cases only: the sampler would have refused the request,   *)
(* the completion has no frame, or the request's texts, every setting and  *)
(* the codes together exceed the size limit.                               *)
THEOREM RequestsStayMeaningful == FormatsSpec => []RequestsKeepTheirMeaning
<1>1. FormatsInv => RequestsKeepTheirMeaning
  BY RequestMeaning DEF FormatsInv, RequestsKeepTheirMeaning
<1> QED
  BY <1>1, FormatsAlways, PTL

(* The decoder of a resume blob (levo-checkpoint.cpp) gives back what was  *)
(* saved, refuses every damage to the bytes, and accepts from a writer who *)
(* lays the sections out in another way only sections that share no byte,  *)
(* for all sizes that fit a blob and as many sections as std::sort inserts *)
(* in order.                                                               *)
THEOREM SavedBlobsAreRead == FormatsSpec => []OnlySavedBlobsRead
<1>1. FormatsInv => OnlySavedBlobsRead
  BY EnvelopeMeaning DEF FormatsInv, OnlySavedBlobsRead
<1> QED
  BY <1>1, FormatsAlways, PTL

(* However a message whose bits the counter holds (2^61 bytes of its 64    *)
(* bits) is cut into updates, its digest covers the message, one end bit,  *)
(* zeros and the length from before the padding, in whole blocks, and      *)
(* finishing it ends (levo-token-io.cpp, levo-checkpoint.cpp).             *)
THEOREM DigestsAreStandard == FormatsSpec => []DigestIsStandard
<1>1. FormatsInv => DigestIsStandard
  BY DigestMeaning DEF FormatsInv, DigestIsStandard
<1> QED
  BY <1>1, FormatsAlways, PTL

=============================================================================
