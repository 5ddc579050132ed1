---------------------------- MODULE LayoutsProofs ---------------------------
(***************************************************************************)
(* The layouts of a song for every length: the conditioning prefix for any *)
(* texts, the windows of a song of any length, and the delayed codebooks   *)
(* of any provider.  For any context length, number of layers, vocabulary  *)
(* and number of failed graphs and resets: a K/V session answers as the    *)
(* uncached model does on all rows appended since the last reset.          *)
(***************************************************************************)
EXTENDS KvSession, LayoutsMC, FiniteSetTheorems, SequenceTheorems,
        WellFoundedInduction, TLAPS

allVars == <<subject, patternVars, assemblyVars, prefixVars>>

(* A non-empty set of naturals has a least element.                        *)
LEMMA LeastNatural ==
  ASSUME NEW T \in SUBSET Nat, T # {}
  PROVE  \E x \in T : \A y \in T : x <= y
<1> DEFINE R == OpToRel(<, Nat)
<1>1. PICK x \in T : \A y \in T : ~(<<y, x>> \in R)
  BY NatLessThanWellFounded, WFMin
<1>2. \A a, b \in Nat : a < b => <<a, b>> \in R
  BY Zenon DEF OpToRel
<1>3. \A y \in T : ~(y < x)
  BY <1>1, <1>2
<1> QED
  BY <1>3

LEMMA ByItsValues ==
  ASSUME NEW n, NEW g, NEW h, h = [i \in 1 .. n |-> g[i]]
  PROVE  h = [i \in 1 .. n |-> h[i]]
<1>1. \A i \in 1 .. n : h[i] = g[i]
  OBVIOUS
<1>2. [i \in 1 .. n |-> g[i]] = [i \in 1 .. n |-> h[i]]
  BY <1>1
<1> QED
  BY <1>2

LEMMA Concatenation ==
  ASSUME NEW S
  PROVE  \A a, b \in Seq(S) :
           /\ a \o b \in Seq(S) /\ Len(a \o b) = Len(a) + Len(b)
           /\ \A i \in 1 .. Len(a) + Len(b) :
                (a \o b)[i] = IF i <= Len(a) THEN a[i] ELSE b[i - Len(a)]
BY ConcatProperties

(* Two functions on 1 .. n and 1 .. m, one behind the other.               *)
LEMMA Joined ==
  ASSUME NEW n \in Nat, NEW m \in Nat, NEW s, NEW u,
         s = [i \in 1 .. n |-> s[i]], u = [i \in 1 .. m |-> u[i]]
  PROVE  /\ s \o u = [i \in 1 .. n + m |-> (s \o u)[i]]
         /\ \A i \in 1 .. n : (s \o u)[i] = s[i]
         /\ \A i \in n + 1 .. n + m : (s \o u)[i] = u[i - n]
<1> DEFINE S == {s[i] : i \in 1 .. n} \cup {u[i] : i \in 1 .. m}
<1>1. (\A i \in 1 .. n : s[i] \in S) /\ (\A i \in 1 .. m : u[i] \in S)
  OBVIOUS
<1> HIDE DEF S
<1>2. s \in Seq(S) /\ u \in Seq(S) /\ Len(s) = n /\ Len(u) = m
  <2>1. [i \in 1 .. n |-> s[i]] \in Seq(S) /\ Len([i \in 1 .. n |-> s[i]]) = n
    BY <1>1
  <2>2. [i \in 1 .. m |-> u[i]] \in Seq(S) /\ Len([i \in 1 .. m |-> u[i]]) = m
    BY <1>1
  <2> QED
    BY <2>1, <2>2, Zenon
<1>3. /\ s \o u \in Seq(S) /\ Len(s \o u) = n + m
      /\ \A i \in 1 .. n + m : (s \o u)[i] = IF i <= n THEN s[i] ELSE u[i - n]
  <2>1. /\ s \o u \in Seq(S) /\ Len(s \o u) = Len(s) + Len(u)
        /\ \A i \in 1 .. Len(s) + Len(u) :
             (s \o u)[i] = IF i <= Len(s) THEN s[i] ELSE u[i - Len(s)]
    BY <1>2, Concatenation, Zenon
  <2> QED
    BY <1>2, <2>1
<1>4. s \o u = [i \in 1 .. n + m |-> (s \o u)[i]]
  BY <1>3
<1> QED
  BY <1>3, <1>4

-----------------------------------------------------------------------------
(* The conditioning prefix.                                                *)

PrefixLengths ==
  /\ LyricsPrefix \in Nat /\ StylePrefix \in Nat /\ PromptPrefix \in Nat
  /\ PromptPrefix > 1

LEMMA Lengths == PrefixLengths
BY LayoutsAssumption DEF Prefix!ConditionerAssumption, PrefixLengths

(* A text is tokens; the tokenizer puts its own first.                     *)
IsText(text) == \E n \in Nat : text = [i \in 1 .. n |-> text[i]]

LEMMA EncodedText ==
  ASSUME NEW text, IsText(text)
  PROVE  /\ Len(Prefix!encode(text)) \in Nat \ {0}
         /\ Prefix!encode(<<>>)[1] = Prefix!ImStart /\ Len(Prefix!encode(<<>>)) = 1
<1>1. PICK n \in Nat : text = [i \in 1 .. n |-> text[i]]
  BY DEF IsText
<1>2. <<Prefix!ImStart>> = [i \in 1 .. 1 |-> <<Prefix!ImStart>>[i]]
  OBVIOUS
<1>3. Len(Prefix!encode(text)) = n + 1
  <2>1. Prefix!encode(text) = [i \in 1 .. 1 + n |-> Prefix!encode(text)[i]]
    BY <1>1, <1>2, Joined DEF Prefix!encode
  <2> QED
    BY <2>1
<1>4. Prefix!encode(<<>>) = <<Prefix!ImStart>>
  BY DEF Prefix!encode
<1> QED
  BY <1>3, <1>4

LEMMA PaddedText ==
  ASSUME NEW text, IsText(text), NEW length \in Nat,
         NEW padded, padded = Prefix!padded_tokens(text, length)
  PROVE  /\ padded.content \in 0 .. length
         /\ \A t \in 1 .. length : t <= Len(Prefix!encode(text)) <=> t <= padded.content
         /\ Len(padded.ids) = length
         /\ \A t \in 1 .. length : padded.ids[t] =
              IF t <= padded.content THEN Prefix!encode(text)[t] ELSE Prefix!QwenPadId
BY EncodedText DEF Prefix!padded_tokens

(* What is in a prefix: lyrics, the prompt of its tower, style.            *)
LEMMA PrefixColumns ==
  ASSUME NEW text, NEW tower, NEW style
  PROVE  LET p == Prefix!Prefix(text, tower, style)
         IN /\ DOMAIN p = Prefix!Columns
            /\ \A t \in 1 .. LyricsPrefix : p[t] = Prefix!LyricColumns(text)[t]
            /\ \A t \in LyricsPrefix + 1 .. LyricsPrefix + PromptPrefix :
                 p[t] = Prefix!PromptColumns(tower)[t - LyricsPrefix]
            /\ \A t \in LyricsPrefix + PromptPrefix + 1
                          .. LyricsPrefix + PromptPrefix + StylePrefix :
                 p[t] = Prefix!StyleColumns(style)[t - (LyricsPrefix + PromptPrefix)]
<1> DEFINE l == Prefix!LyricColumns(text)
           m == Prefix!PromptColumns(tower)
           s == Prefix!StyleColumns(style)
<1>1. l = [i \in 1 .. LyricsPrefix |-> l[i]]
  BY DEF Prefix!LyricColumns
<1>2. m = [i \in 1 .. PromptPrefix |-> m[i]]
  BY DEF Prefix!PromptColumns
<1>3. s = [i \in 1 .. StylePrefix |-> s[i]]
  BY DEF Prefix!StyleColumns
<1>4. Prefix!Prefix(text, tower, style) = (l \o m) \o s
  BY DEF Prefix!Prefix
<1> HIDE DEF l, m, s
<1>5. /\ l \o m = [i \in 1 .. LyricsPrefix + PromptPrefix |-> (l \o m)[i]]
      /\ \A i \in 1 .. LyricsPrefix : (l \o m)[i] = l[i]
      /\ \A i \in LyricsPrefix + 1 .. LyricsPrefix + PromptPrefix :
           (l \o m)[i] = m[i - LyricsPrefix]
  BY <1>1, <1>2, Lengths, Joined DEF PrefixLengths
<1> DEFINE lm == l \o m
<1>6. lm = [i \in 1 .. LyricsPrefix + PromptPrefix |-> lm[i]]
  BY <1>5
<1> HIDE DEF lm
<1>7. LyricsPrefix + PromptPrefix \in Nat /\ StylePrefix \in Nat
  BY Lengths DEF PrefixLengths
<1>8. /\ lm \o s = [i \in 1 .. (LyricsPrefix + PromptPrefix) + StylePrefix |-> (lm \o s)[i]]
      /\ \A i \in 1 .. LyricsPrefix + PromptPrefix : (lm \o s)[i] = lm[i]
      /\ \A i \in (LyricsPrefix + PromptPrefix) + 1
                    .. (LyricsPrefix + PromptPrefix) + StylePrefix :
           (lm \o s)[i] = s[i - (LyricsPrefix + PromptPrefix)]
  BY <1>3, <1>6, <1>7, Joined
<1>9. DOMAIN (lm \o s) = 1 .. (LyricsPrefix + PromptPrefix) + StylePrefix
  BY <1>8
<1>10. /\ \A i \in 1 .. LyricsPrefix : lm[i] = l[i]
      /\ \A i \in LyricsPrefix + 1 .. LyricsPrefix + PromptPrefix :
           lm[i] = m[i - LyricsPrefix]
  BY <1>5 DEF lm
<1>11. /\ \A i \in 1 .. LyricsPrefix : i \in 1 .. LyricsPrefix + PromptPrefix
      /\ \A i \in LyricsPrefix + 1 .. LyricsPrefix + PromptPrefix :
           i \in 1 .. LyricsPrefix + PromptPrefix
  BY Lengths DEF PrefixLengths
<1>12. \A i \in 1 .. LyricsPrefix : (lm \o s)[i] = l[i]
  BY <1>8, <1>10, <1>11, Zenon
<1>13. \A i \in LyricsPrefix + 1 .. LyricsPrefix + PromptPrefix :
         (lm \o s)[i] = m[i - LyricsPrefix]
  BY <1>8, <1>10, <1>11, Zenon
<1> QED
  BY <1>4, <1>8, <1>9, <1>12, <1>13 DEF Prefix!Columns, lm, l, m, s

(* A boundary has a section unless the next one follows; a column is in    *)
(* one section at most.                                                    *)
LEMMA SectionFacts ==
  ASSUME NEW padded, padded.content \in Nat, NEW b \in Prefix!Boundaries(padded)
  PROVE  /\ Prefix!SectionEnd(padded, b) \in b .. padded.content
         /\ \A c \in Prefix!Boundaries(padded) :
              c > b => Prefix!SectionEnd(padded, b) < c
         /\ \A e \in b .. padded.content - 1 : Prefix!SectionEnd(padded, b) = e =>
              e + 1 \in Prefix!Boundaries(padded)
<1>1. b \in 1 .. padded.content
  BY DEF Prefix!Boundaries
<1>2. CASE Prefix!Later(padded, b) = {}
  <2>1. Prefix!SectionEnd(padded, b) = padded.content
    BY <1>2 DEF Prefix!SectionEnd
  <2> QED
    BY <1>1, <1>2, <2>1 DEF Prefix!Later
<1>3. CASE Prefix!Later(padded, b) # {}
  <2> DEFINE first == Prefix!Min(Prefix!Later(padded, b))
  <2>1. Prefix!Later(padded, b) \in SUBSET Nat
    BY DEF Prefix!Later, Prefix!Boundaries
  <2>2. \E x \in Prefix!Later(padded, b) : \A y \in Prefix!Later(padded, b) : x <= y
    BY <1>3, <2>1, LeastNatural
  <2>3. first \in Prefix!Later(padded, b) /\ \A y \in Prefix!Later(padded, b) : first <= y
    BY <2>2, Zenon DEF Prefix!Min
  <2>4. Prefix!SectionEnd(padded, b) = first - 1
    BY <1>3 DEF Prefix!SectionEnd
  <2> HIDE DEF first
  <2>5. first \in Prefix!Boundaries(padded) /\ first > b /\ first \in 1 .. padded.content
    BY <2>3 DEF Prefix!Later, Prefix!Boundaries
  <2>6. \A c \in Prefix!Boundaries(padded) : c > b => first <= c
    BY <2>3 DEF Prefix!Later
  <2>7. \A c \in Prefix!Boundaries(padded) : c \in Nat
    BY DEF Prefix!Boundaries
  <2> QED
    BY <1>1, <2>4, <2>5, <2>6, <2>7
<1> QED
  BY <1>2, <1>3

(* The section of a column: none behind the content, its own on a          *)
(* structure token, and otherwise the section of the column before it.     *)
LEMMA SectionOfColumn ==
  ASSUME NEW padded, padded.content \in Nat, NEW t \in Nat \ {0}
  PROVE  /\ t > padded.content => Prefix!SectionOf(padded, t) = {}
         /\ t \in Prefix!Boundaries(padded) => Prefix!SectionOf(padded, t) = {t}
         /\ t <= padded.content /\ t \notin Prefix!Boundaries(padded) =>
              IF t = 1 THEN Prefix!SectionOf(padded, t) = {}
              ELSE Prefix!SectionOf(padded, t) = Prefix!SectionOf(padded, t - 1)
<1> DEFINE B == Prefix!Boundaries(padded)
           E(b) == Prefix!SectionEnd(padded, b)
<1>1. \A b \in B : b \in 1 .. padded.content
  BY DEF Prefix!Boundaries
<1>2. \A b \in B : E(b) \in b .. padded.content
  BY SectionFacts
<1>3. \A b, c \in B : c > b => E(b) < c
  BY SectionFacts
<1>4. \A b \in B : \A e \in b .. padded.content - 1 : E(b) = e => e + 1 \in B
  BY SectionFacts
<1>5. \A u : Prefix!SectionOf(padded, u) = {b \in B : b <= u /\ u <= E(b)}
  BY DEF Prefix!SectionOf
<1> HIDE DEF B, E
<1>6. ASSUME t > padded.content PROVE {b \in B : b <= t /\ t <= E(b)} = {}
  BY <1>1, <1>2, <1>6
<1>7. ASSUME t \in B PROVE {b \in B : b <= t /\ t <= E(b)} = {t}
  <2>1. ASSUME NEW b \in B PROVE b <= t /\ t <= E(b) <=> b = t
    <3>1. b \in Nat /\ E(b) \in Nat /\ E(t) \in Nat /\ t <= E(t)
      BY <1>1, <1>2, <1>7, <2>1
    <3>2. t > b => E(b) < t
      BY <1>3, <1>7, <2>1
    <3> QED
      BY <3>1, <3>2
  <2> QED
    BY <1>7, <2>1
<1>8. ASSUME t <= padded.content, t \notin B, t = 1
      PROVE  {b \in B : b <= t /\ t <= E(b)} = {}
  BY <1>1, <1>8
<1>9. ASSUME t <= padded.content, t \notin B, t # 1
      PROVE  {b \in B : b <= t /\ t <= E(b)} = {b \in B : b <= t - 1 /\ t - 1 <= E(b)}
  <2>1. ASSUME NEW b \in B PROVE b <= t /\ t <= E(b) <=> b <= t - 1 /\ t - 1 <= E(b)
    <3>1. /\ b \in 1 .. padded.content /\ b # t
          /\ E(b) \in b .. padded.content
      BY <1>1, <1>2, <1>9, <2>1
    <3>2. b <= t - 1 => E(b) # t - 1
      <4>1. SUFFICES ASSUME b <= t - 1, E(b) = t - 1 PROVE FALSE
        OBVIOUS
      <4>2. t - 1 \in b .. padded.content - 1
        BY <1>9, <3>1, <4>1
      <4>3. (t - 1) + 1 \in B
        BY <1>4, <2>1, <4>1, <4>2
      <4> QED
        BY <1>9, <4>3
    <3> QED
      BY <3>1, <3>2
  <2> QED
    BY <2>1
<1> QED
  BY <1>5, <1>6, <1>7, <1>8, <1>9 DEF B

(* One function at most carries a row from each column to the next.        *)
IsCarried(row, ids, n) ==
  row = [t \in 1 .. n |->
           IF t > Len(ids) THEN 0
           ELSE IF ids[t] \in StructureIds THEN ids[t] - Prefix!StructureBaseId
           ELSE IF t = 1 THEN 0 ELSE row[t - 1]]

LEMMA CarriedOnce ==
  ASSUME NEW ids, NEW n \in Nat, NEW f, NEW g, IsCarried(f, ids, n), IsCarried(g, ids, n)
  PROVE  \A t \in 1 .. n : f[t] = g[t]
<1> DEFINE T == {t \in 1 .. n : f[t] # g[t]}
<1>1. SUFFICES ASSUME T # {} PROVE FALSE
  OBVIOUS
<1>2. PICK t \in T : \A u \in T : t <= u
  <2>1. T \in SUBSET Nat
    OBVIOUS
  <2> QED
    BY <1>1, <2>1, LeastNatural
<1>3. t \in 1 .. n /\ f[t] # g[t]
  BY <1>2
<1>4. /\ f[t] = IF t > Len(ids) THEN 0
                ELSE IF ids[t] \in StructureIds THEN ids[t] - Prefix!StructureBaseId
                ELSE IF t = 1 THEN 0 ELSE f[t - 1]
      /\ g[t] = IF t > Len(ids) THEN 0
                ELSE IF ids[t] \in StructureIds THEN ids[t] - Prefix!StructureBaseId
                ELSE IF t = 1 THEN 0 ELSE g[t - 1]
  BY <1>3, Zenon DEF IsCarried
<1>5. t # 1 /\ f[t - 1] # g[t - 1]
  BY <1>3, <1>4
<1>6. t - 1 \in T
  BY <1>3, <1>5
<1> QED
  BY <1>2, <1>3, <1>6

(* The rows the code fills section by section carry over column by column. *)
LEMMA SectionRowsCarry ==
  ASSUME NEW text, IsText(text), NEW padded,
         padded = Prefix!padded_tokens(text, LyricsPrefix)
  PROVE  IsCarried(Prefix!SectionRows(padded), Prefix!encode(text), LyricsPrefix)
<1> DEFINE ids == Prefix!encode(text)
           rows == Prefix!SectionRows(padded)
           Of(t) == Prefix!SectionOf(padded, t)
           row(t) == IF Of(t) = {} THEN 0
                     ELSE padded.ids[CHOOSE b \in Of(t) : TRUE] - Prefix!StructureBaseId
<1>1. LyricsPrefix \in Nat
  BY Lengths DEF PrefixLengths
<1>2. /\ padded.content \in 0 .. LyricsPrefix /\ Len(padded.ids) = LyricsPrefix
      /\ \A t \in 1 .. LyricsPrefix : t <= Len(ids) <=> t <= padded.content
      /\ \A t \in 1 .. LyricsPrefix : t <= padded.content => padded.ids[t] = ids[t]
  BY <1>1, PaddedText
<1>3. Len(ids) \in Nat
  BY EncodedText
<1>4. rows = [t \in 1 .. LyricsPrefix |-> row(t)]
  BY <1>2 DEF Prefix!SectionRows
<1>5. SUFFICES ASSUME NEW t \in 1 .. LyricsPrefix
      PROVE  row(t) = IF t > Len(ids) THEN 0
                      ELSE IF ids[t] \in StructureIds THEN ids[t] - Prefix!StructureBaseId
                      ELSE IF t = 1 THEN 0 ELSE rows[t - 1]
  BY <1>4, ZenonT(30) DEF IsCarried
<1>6. /\ t > padded.content => Of(t) = {}
      /\ t \in Prefix!Boundaries(padded) => Of(t) = {t}
      /\ t <= padded.content /\ t \notin Prefix!Boundaries(padded) =>
           IF t = 1 THEN Of(t) = {} ELSE Of(t) = Of(t - 1)
  BY <1>1, <1>2, SectionOfColumn
<1>7. t \in Prefix!Boundaries(padded) <=> t <= padded.content /\ ids[t] \in StructureIds
  BY <1>1, <1>2 DEF Prefix!Boundaries
<1>8. t # 1 => rows[t - 1] = row(t - 1)
  BY <1>1, <1>4
<1>9. t > Len(ids) <=> t > padded.content
  BY <1>1, <1>2, <1>3
<1> HIDE DEF ids, rows, Of
<1>10. CASE t > Len(ids)
  BY <1>6, <1>9, <1>10
<1>11. CASE t <= padded.content /\ ids[t] \in StructureIds
  <2>1. Of(t) = {t} /\ padded.ids[t] = ids[t] /\ ~(t > Len(ids))
    BY <1>1, <1>2, <1>6, <1>7, <1>9, <1>11
  <2>2. (CHOOSE b \in {t} : TRUE) = t
    OBVIOUS
  <2> QED
    BY <1>11, <2>1, <2>2
<1>12. CASE t <= padded.content /\ ids[t] \notin StructureIds
  <2>1. ~(t > Len(ids)) /\ IF t = 1 THEN Of(t) = {} ELSE Of(t) = Of(t - 1)
    BY <1>1, <1>2, <1>6, <1>7, <1>9, <1>12
  <2> QED
    BY <1>8, <1>12, <2>1
<1> QED
  BY <1>1, <1>2, <1>3, <1>9, <1>10, <1>11, <1>12

(* What a branch holds once it is made, and the texts it is made from.     *)
PrefixInv ==
  /\ IsText(lyrics) /\ IsText(description)
  /\ step \in {"null", "prepared"} => conditional = Prefix!Branch(lyrics, description)
  /\ step = "prepared" => null = Prefix!Branch(<<>>, <<>>)

LEMMA EmptyIsText == IsText(<<>>)
<1>1. <<>> = [i \in 1 .. 0 |-> <<>>[i]]
  OBVIOUS
<1> QED
  BY <1>1 DEF IsText

LEMMA BoundedIsText ==
  ASSUME NEW longest \in Nat, NEW text \in Prefix!Texts(longest)
  PROVE  IsText(text)
<1>1. PICK n \in 0 .. longest : text \in [1 .. n -> Words \cup StructureIds]
  BY DEF Prefix!Texts, Prefix!BoundedSeq, Prefix!SeqOf
<1> QED
  BY <1>1 DEF IsText

LEMMA PrefixInductive == LayoutsSpec => []PrefixInv
<1>1. LayoutsInit => PrefixInv
  <2>1. SUFFICES ASSUME LayoutsInit PROVE PrefixInv
    OBVIOUS
  <2>2. step = "conditional"
    BY <2>1 DEF LayoutsInit, Prefix!Init
  <2>3. IsText(lyrics) /\ IsText(description)
    <3>1. CASE subject = "prefix"
      BY <2>1, <3>1, BoundedIsText, LayoutsAssumption DEF LayoutsInit, Prefix!Init
    <3>2. CASE subject # "prefix"
      BY <2>1, <3>2, EmptyIsText DEF LayoutsInit
    <3> QED
      BY <3>1, <3>2
  <2> QED
    BY <2>2, <2>3 DEF PrefixInv
<1>2. PrefixInv /\ [LayoutsNext]_allVars => PrefixInv'
  <2>1. SUFFICES ASSUME PrefixInv, [LayoutsNext]_allVars PROVE PrefixInv'
    OBVIOUS
  <2>2. CASE UNCHANGED prefixVars
    BY <2>1, <2>2 DEF PrefixInv, prefixVars
  <2>3. CASE Prefix!MakeConditional
    BY <2>1, <2>3 DEF PrefixInv, Prefix!MakeConditional
  <2>4. CASE Prefix!MakeNull
    BY <2>1, <2>4 DEF PrefixInv, Prefix!MakeNull
  <2> QED
    BY <2>1, <2>2, <2>3, <2>4 DEF LayoutsNext, allVars, Prefix!Next
<1> QED
  BY <1>1, <1>2, PTL DEF LayoutsSpec, allVars

(* Every row of the lyrics is the carried one.                             *)
LEMMA LyricRows ==
  ASSUME NEW text, IsText(text), NEW t \in 1 .. LyricsPrefix, NEW row,
         IsCarried(row, Prefix!encode(text), LyricsPrefix)
  PROVE  Prefix!LyricColumns(text)[t].row = row[t]
<1> DEFINE padded == Prefix!padded_tokens(text, LyricsPrefix)
<1>1. IsCarried(Prefix!SectionRows(padded), Prefix!encode(text), LyricsPrefix)
  BY SectionRowsCarry
<1>2. LyricsPrefix \in Nat
  BY Lengths DEF PrefixLengths
<1>3. Prefix!SectionRows(padded)[t] = row[t]
  BY <1>1, <1>2, CarriedOnce
<1>4. Prefix!LyricColumns(text)[t].row = Prefix!SectionRows(padded)[t]
  BY DEF Prefix!LyricColumns, Prefix!Column
<1> QED
  BY <1>3, <1>4

LEMMA SectionsKept == PrefixInv => Prefix!WordsKeepTheirSection
<1>1. SUFFICES ASSUME PrefixInv, step = "prepared", NEW t \in 1 .. LyricsPrefix
      PROVE  conditional.main[t].row = Prefix!Carried[t]
  BY DEF Prefix!WordsKeepTheirSection, Prefix!Prepared
<1>2. IsText(lyrics) /\ conditional.main = Prefix!Prefix(lyrics, "mixed", description)
  BY <1>1 DEF PrefixInv, Prefix!Branch
<1>3. conditional.main[t] = Prefix!LyricColumns(lyrics)[t]
  BY <1>2, PrefixColumns
<1>4. IsCarried(Prefix!Carried, Prefix!encode(lyrics), LyricsPrefix)
  <2> DEFINE ids == Prefix!encode(lyrics)
             P(row) == row = [u \in 1 .. LyricsPrefix |->
                         IF u > Len(ids) THEN 0
                         ELSE IF ids[u] \in StructureIds THEN ids[u] - Prefix!StructureBaseId
                         ELSE IF u = 1 THEN 0 ELSE row[u - 1]]
  <2>1. Prefix!Carried = CHOOSE row : P(row)
    BY DEF Prefix!Carried
  <2>2. \E row : P(row)
    BY <1>2, SectionRowsCarry DEF IsCarried
  <2> HIDE DEF P
  <2>3. P(Prefix!Carried)
    BY <2>1, <2>2, Zenon
  <2> QED
    BY <2>3 DEF P, IsCarried
<1> QED
  BY <1>2, <1>3, <1>4, LyricRows

(* Empty text is the tokenizer's own token and padding, in no section.     *)
LEMMA EmptyColumns ==
  /\ \A t \in 2 .. LyricsPrefix :
       /\ Prefix!LyricColumns(<<>>)[t].token = Prefix!QwenPadId
       /\ Prefix!LyricColumns(<<>>)[t].row = 0
  /\ \A t \in 2 .. StylePrefix :
       /\ Prefix!StyleColumns(<<>>)[t].token = Prefix!QwenPadId
       /\ Prefix!StyleColumns(<<>>)[t].row = 0
<1>1. LyricsPrefix \in Nat /\ StylePrefix \in Nat
  BY Lengths DEF PrefixLengths
<1>2. Len(Prefix!encode(<<>>)) = 1
  BY EmptyIsText, EncodedText
<1>3. ASSUME NEW length \in Nat, NEW t \in 2 .. length
      PROVE  Prefix!padded_tokens(<<>>, length).ids[t] = Prefix!QwenPadId
  <2>0. PICK text, padded : text = <<>> /\ padded = Prefix!padded_tokens(text, length)
    OBVIOUS
  <2>1. /\ t <= 1 <=> t <= padded.content
        /\ padded.ids[t] = IF t <= padded.content THEN Prefix!encode(<<>>)[t]
                           ELSE Prefix!QwenPadId
    <3>1. t \in 1 .. length
      BY <1>3
    <3>2. /\ \A i \in 1 .. length : i <= Len(Prefix!encode(text)) <=> i <= padded.content
          /\ \A i \in 1 .. length : padded.ids[i] =
               IF i <= padded.content THEN Prefix!encode(text)[i] ELSE Prefix!QwenPadId
      <4>1. IsText(text)
        BY <2>0, EmptyIsText
      <4> QED
        BY <2>0, <4>1, PaddedText
    <3> QED
      BY <1>2, <2>0, <3>1, <3>2, Zenon
  <2> QED
    BY <1>3, <2>0, <2>1
<1>4. ASSUME NEW t \in 2 .. LyricsPrefix
      PROVE  /\ Prefix!LyricColumns(<<>>)[t].token = Prefix!QwenPadId
             /\ Prefix!LyricColumns(<<>>)[t].row = 0
  <2> DEFINE padded == Prefix!padded_tokens(<<>>, LyricsPrefix)
             rows == Prefix!SectionRows(padded)
  <2>1. t \in 1 .. LyricsPrefix /\ t > 1
    BY <1>1, <1>4
  <2>2. Prefix!LyricColumns(<<>>)[t] = Prefix!Column("lyrics", padded.ids[t], rows[t])
    BY <2>1 DEF Prefix!LyricColumns
  <2>3. IsCarried(rows, Prefix!encode(<<>>), LyricsPrefix)
    BY EmptyIsText, SectionRowsCarry
  <2> HIDE DEF rows
  <2>4. rows[t] = 0
    BY <1>2, <2>1, <2>3 DEF IsCarried
  <2>5. padded.ids[t] = Prefix!QwenPadId
    BY <1>1, <1>3
  <2> QED
    BY <2>2, <2>4, <2>5 DEF Prefix!Column
<1>5. ASSUME NEW t \in 2 .. StylePrefix
      PROVE  /\ Prefix!StyleColumns(<<>>)[t].token = Prefix!QwenPadId
             /\ Prefix!StyleColumns(<<>>)[t].row = 0
  <2>1. t \in 1 .. StylePrefix
    BY <1>1, <1>5
  <2>2. Prefix!StyleColumns(<<>>)[t]
          = Prefix!Column("style", Prefix!padded_tokens(<<>>, StylePrefix).ids[t], 0)
    BY <2>1 DEF Prefix!StyleColumns
  <2> QED
    BY <1>1, <1>3, <2>2 DEF Prefix!Column
<1> QED
  BY <1>4, <1>5

LEMMA BranchesKept == PrefixInv => Prefix!BranchesAlign
<1> DEFINE P(text, tower, style) == Prefix!Prefix(text, tower, style)
<1>1. SUFFICES ASSUME PrefixInv, step = "prepared" PROVE Prefix!BranchesAlign
  BY DEF Prefix!BranchesAlign, Prefix!Prepared
<1>2. /\ conditional.main = P(lyrics, "mixed", description)
      /\ conditional.detail = P(lyrics, "vocal+bgm", description)
      /\ null.main = P(<<>>, "mixed", <<>>)
      /\ null.detail = P(<<>>, "vocal+bgm", <<>>)
  BY <1>1 DEF PrefixInv, Prefix!Branch
<1>3. LyricsPrefix \in Nat /\ PromptPrefix \in Nat /\ StylePrefix \in Nat
  BY Lengths DEF PrefixLengths
<1>4. {DOMAIN conditional.main, DOMAIN conditional.detail, DOMAIN null.main, DOMAIN null.detail}
        = {Prefix!Columns}
  <2>1. /\ DOMAIN conditional.main = Prefix!Columns /\ DOMAIN conditional.detail = Prefix!Columns
        /\ DOMAIN null.main = Prefix!Columns /\ DOMAIN null.detail = Prefix!Columns
    BY <1>2, PrefixColumns
  <2> QED
    BY <2>1
<1>5. ASSUME NEW t \in Prefix!Columns
      PROVE  /\ conditional.main[t].table = null.main[t].table
             /\ Prefix!IsPrompt(t) => conditional.main[t] = null.main[t]
                                    /\ conditional.detail[t] = null.detail[t]
             /\ ~Prefix!IsPrompt(t) => conditional.main[t] = conditional.detail[t]
             /\ ~Prefix!IsPrompt(t) /\ t \notin {1, LyricsPrefix + PromptPrefix + 1} =>
                  null.main[t].token = Prefix!QwenPadId /\ null.main[t].row = 0
  <2>1. CASE t \in 1 .. LyricsPrefix
    <3>1. /\ conditional.main[t] = Prefix!LyricColumns(lyrics)[t]
          /\ conditional.detail[t] = Prefix!LyricColumns(lyrics)[t]
          /\ null.main[t] = Prefix!LyricColumns(<<>>)[t]
      BY <1>2, <2>1, PrefixColumns
    <3>2. \A text : Prefix!LyricColumns(text)[t].table = "lyrics"
      BY <2>1 DEF Prefix!LyricColumns, Prefix!Column
    <3>3. ~Prefix!IsPrompt(t) /\ (t # 1 => t \in 2 .. LyricsPrefix)
      BY <1>3, <2>1 DEF Prefix!IsPrompt
    <3> QED
      BY <3>1, <3>2, <3>3, EmptyColumns
  <2>2. CASE t \in LyricsPrefix + 1 .. LyricsPrefix + PromptPrefix
    <3>1. /\ conditional.main[t] = null.main[t]
          /\ conditional.detail[t] = null.detail[t]
      BY <1>2, <2>2, PrefixColumns
    <3>2. Prefix!IsPrompt(t)
      BY <1>3, <2>2 DEF Prefix!IsPrompt
    <3> QED
      BY <3>1, <3>2
  <2>3. CASE t \in LyricsPrefix + PromptPrefix + 1 .. LyricsPrefix + PromptPrefix + StylePrefix
    <3> DEFINE u == t - (LyricsPrefix + PromptPrefix)
    <3>1. /\ conditional.main[t] = Prefix!StyleColumns(description)[u]
          /\ conditional.detail[t] = Prefix!StyleColumns(description)[u]
          /\ null.main[t] = Prefix!StyleColumns(<<>>)[u]
      BY <1>2, <2>3, PrefixColumns
    <3>2. u \in 1 .. StylePrefix /\ (u # 1 => u \in 2 .. StylePrefix)
      BY <1>3, <2>3
    <3>3. \A text : Prefix!StyleColumns(text)[u].table = "style"
      BY <3>2 DEF Prefix!StyleColumns, Prefix!Column
    <3>4. ~Prefix!IsPrompt(t) /\ (t # LyricsPrefix + PromptPrefix + 1 => u # 1)
      BY <1>3, <2>3 DEF Prefix!IsPrompt
    <3> HIDE DEF u
    <3> QED
      BY <3>1, <3>2, <3>3, <3>4, EmptyColumns
  <2> QED
    BY <1>3, <1>5, <2>1, <2>2, <2>3 DEF Prefix!Columns
<1> QED
  BY <1>4, <1>5, Zenon DEF Prefix!BranchesAlign

(* In every prefix the conditioner prepares, whatever the two texts and    *)
(* the lengths, each word carries its section and the branches and towers  *)
(* agree column by column (conditioner::prepare).              *)
THEOREM PrefixesStayAligned == LayoutsSpec => []PrefixesAlign
BY PrefixInductive, SectionsKept, BranchesKept, PTL DEF PrefixesAlign

-----------------------------------------------------------------------------
(* The windows of the renderer.                                            *)

ScheduleLengths ==
  /\ HopFrames \in Nat \ {0} /\ OverlapFrames \in Nat \ {0}
  /\ OverlapFrames <= HopFrames /\ WindowFrames = HopFrames + OverlapFrames
  /\ SamplesPerFrame \in Nat \ {0, 1}

LEMMA Frames == ScheduleLengths
BY LayoutsAssumption DEF Assembly!ScheduleAssumption, ScheduleLengths

LEMMA Monotone ==
  ASSUME NEW a \in Nat, NEW b \in Nat, a <= b, NEW c \in Nat
  PROVE  c * a <= c * b /\ a * c <= b * c /\ c * a \in Nat
<1>1. PICK d \in Nat : b = a + d
  <2>1. b - a \in Nat /\ b = a + (b - a)
    OBVIOUS
  <2> QED
    BY <2>1
<1>2. c * b = c * a + c * d /\ c * d \in Nat /\ c * a \in Nat /\ a * c = c * a /\ b * c = c * b
  BY <1>1
<1> QED
  BY <1>2

(* How many windows a song takes.                                          *)
Count(frames) == IF frames <= WindowFrames THEN 1 ELSE Assembly!Groups(frames)

LEMMA GroupsCover ==
  ASSUME NEW frames \in Nat, frames > WindowFrames
  PROVE  /\ Assembly!Groups(frames) \in Nat \ {0}
         /\ HopFrames * Assembly!Groups(frames) >= frames - OverlapFrames
         /\ HopFrames * Assembly!Groups(frames) - (frames - OverlapFrames) < HopFrames
<1> DEFINE base == frames - OverlapFrames
           q == base \div HopFrames
           r == base % HopFrames
<1>1. base \in Nat /\ base > HopFrames /\ HopFrames \in Nat /\ HopFrames > 0
  BY Frames DEF ScheduleLengths
<1> HIDE DEF base
<1>2. /\ q \in Int /\ r \in 0 .. HopFrames - 1 /\ base = HopFrames * q + r
  BY <1>1
<1>3. Assembly!Groups(frames) = q + (IF r # 0 THEN 1 ELSE 0)
  BY DEF Assembly!Groups, base
<1> HIDE DEF q, r
<1>4. q \in Nat /\ q # 0
  <2>1. SUFFICES ASSUME q <= 0 PROVE FALSE
    BY <1>2
  <2>2. HopFrames * q <= 0
    BY <1>1, <1>2, <2>1
  <2> QED
    BY <1>1, <1>2, <2>2
<1>5. HopFrames * (q + 1) = HopFrames * q + HopFrames
  BY <1>1, <1>4
<1> QED
  BY <1>1, <1>2, <1>3, <1>4, <1>5 DEF base

LEMMA PaddedLength ==
  ASSUME NEW frames \in Nat \ {0}
  PROVE  /\ Count(frames) \in Nat \ {0}
         /\ HopFrames * (Count(frames) - 1) \in Nat
         /\ Assembly!PaddedFrames(frames)
              = HopFrames * (Count(frames) - 1) + WindowFrames
         /\ Assembly!PaddedFrames(frames) >= frames
         /\ Count(frames) > 1 => Assembly!PaddedFrames(frames) - frames < HopFrames
<1>1. /\ HopFrames \in Nat \ {0} /\ OverlapFrames \in Nat
      /\ WindowFrames = HopFrames + OverlapFrames
  BY Frames DEF ScheduleLengths
<1>2. CASE frames <= WindowFrames
  <2>1. Count(frames) = 1 /\ Assembly!PaddedFrames(frames) = WindowFrames
    BY <1>2 DEF Count, Assembly!PaddedFrames
  <2>2. HopFrames * (1 - 1) = 0
    BY <1>1
  <2> QED
    BY <1>1, <1>2, <2>1, <2>2
<1>3. CASE frames > WindowFrames
  <2> DEFINE g == Assembly!Groups(frames)
  <2>1. /\ g \in Nat \ {0} /\ HopFrames * g >= frames - OverlapFrames
        /\ HopFrames * g - (frames - OverlapFrames) < HopFrames
    BY <1>3, GroupsCover
  <2>2. Count(frames) = g /\ Assembly!PaddedFrames(frames) = g * HopFrames + OverlapFrames
    BY <1>1, <1>3 DEF Count, Assembly!PaddedFrames
  <2> HIDE DEF g
  <2>3. /\ HopFrames * (g - 1) \in Nat /\ g * HopFrames = HopFrames * g
        /\ HopFrames * g = HopFrames * (g - 1) + HopFrames
    BY <1>1, <2>1
  <2> QED
    BY <1>1, <2>1, <2>2, <2>3
<1> QED
  BY <1>1, <1>2, <1>3

(* The windows of a song are one per hop.                                  *)
WindowAt(frames, w) ==
  LET offset == HopFrames * (w - 1)
  IN [input_offset  |-> offset,
      output_offset |-> offset * SamplesPerFrame,
      overlap_left  |-> IF offset = 0 THEN 0 ELSE OverlapFrames * SamplesPerFrame,
      overlap_right |-> IF offset < Assembly!PaddedFrames(frames) - WindowFrames
                        THEN OverlapFrames * SamplesPerFrame ELSE 0]

LEMMA WindowPerHop ==
  ASSUME NEW frames \in Nat \ {0}
  PROVE  /\ Assembly!Windows(frames) = [w \in 1 .. Count(frames) |-> WindowAt(frames, w)]
         /\ Len(Assembly!Windows(frames)) = Count(frames)
         /\ Assembly!FlowWindowCount(frames) = Count(frames)
<1> DEFINE padded == Assembly!PaddedFrames(frames)
           n == Count(frames)
<1>1. /\ HopFrames \in Nat \ {0} /\ WindowFrames \in Nat /\ OverlapFrames \in Nat
      /\ WindowFrames = HopFrames + OverlapFrames
  BY Frames DEF ScheduleLengths
<1>2. n \in Nat \ {0} /\ HopFrames * (n - 1) \in Nat
      /\ padded = HopFrames * (n - 1) + WindowFrames
  BY PaddedLength
<1>3. Assembly!FlowWindowCount(frames) = 1 + (padded - WindowFrames) \div HopFrames
  BY DEF Assembly!FlowWindowCount, Assembly!PaddedFrames
<1>4. {j \in 1 .. padded : Assembly!RoomFor(frames, HopFrames * (j - 1))}
        = {j \in 1 .. padded : HopFrames * (j - 1) <= padded - WindowFrames}
  BY DEF Assembly!RoomFor
<1>5. Assembly!Windows(frames)
        = [w \in {j \in 1 .. padded : Assembly!RoomFor(frames, HopFrames * (j - 1))} |->
             WindowAt(frames, w)]
  BY DEF Assembly!Windows, WindowAt
<1> HIDE DEF padded, n
<1>6. {j \in 1 .. padded : HopFrames * (j - 1) <= padded - WindowFrames} = 1 .. n
  <2>1. ASSUME NEW j \in 1 .. padded, HopFrames * (j - 1) <= padded - WindowFrames
        PROVE  j \in 1 .. n
    <3>1. SUFFICES ASSUME j > n PROVE FALSE
      BY <1>2, <2>1
    <3>2. n <= j - 1 /\ n \in Nat /\ j - 1 \in Nat
      BY <1>2, <2>1, <3>1
    <3>3. HopFrames * n <= HopFrames * (j - 1) /\ HopFrames * (j - 1) \in Nat
      BY <1>1, <3>2, Monotone
    <3>4. HopFrames * n = HopFrames * (n - 1) + HopFrames
      BY <1>1, <1>2
    <3> QED
      BY <1>1, <1>2, <2>1, <3>3, <3>4
  <2>2. ASSUME NEW j \in 1 .. n
        PROVE  j \in 1 .. padded /\ HopFrames * (j - 1) <= padded - WindowFrames
    <3>1. j - 1 <= n - 1 /\ j - 1 \in Nat /\ n - 1 \in Nat
      BY <1>2, <2>2
    <3>2. HopFrames * (j - 1) <= HopFrames * (n - 1) /\ HopFrames * (j - 1) \in Nat
      BY <1>1, <3>1, Monotone
    <3>3. 1 * (n - 1) <= HopFrames * (n - 1)
      <4>1. 1 \in Nat /\ 1 <= HopFrames /\ HopFrames \in Nat
        BY <1>1
      <4> QED
        BY <3>1, <4>1, Monotone
    <3> QED
      BY <1>1, <1>2, <2>2, <3>1, <3>2, <3>3
  <2> QED
    BY <2>1, <2>2
<1>7. Assembly!Windows(frames) = [w \in 1 .. n |-> WindowAt(frames, w)]
  BY <1>4, <1>5, <1>6
<1>8. Len(Assembly!Windows(frames)) = n
  BY <1>2, <1>7
<1>9. (HopFrames * (n - 1)) \div HopFrames = n - 1
  BY <1>1, <1>2
<1>10. 1 + (padded - WindowFrames) \div HopFrames = n
  BY <1>1, <1>2, <1>9
<1> QED
  BY <1>3, <1>7, <1>8, <1>10 DEF padded, n

(* The same lengths in samples: a hop, an overlap, and a window's offset.  *)
HopSamples == HopFrames * SamplesPerFrame
Offset(w) == HopSamples * (w - 1)

LEMMA SampleLengths ==
  /\ HopSamples \in Nat \ {0} /\ Assembly!OverlapSamples \in Nat
  /\ Assembly!OverlapSamples > 1 /\ Assembly!OverlapSamples <= HopSamples
  /\ Assembly!WindowSamples = HopSamples + Assembly!OverlapSamples
  /\ Assembly!Unit = Assembly!OverlapSamples - 1
<1>1. /\ HopFrames \in Nat \ {0} /\ OverlapFrames \in Nat \ {0}
      /\ OverlapFrames <= HopFrames /\ WindowFrames = HopFrames + OverlapFrames
      /\ SamplesPerFrame \in Nat \ {0, 1}
  BY Frames DEF ScheduleLengths
<1>2. /\ HopFrames * SamplesPerFrame \in Nat \ {0}
      /\ OverlapFrames * SamplesPerFrame \in Nat
      /\ OverlapFrames * SamplesPerFrame <= HopFrames * SamplesPerFrame
      /\ 1 * SamplesPerFrame <= OverlapFrames * SamplesPerFrame
  <2>1. /\ 1 \in Nat /\ 1 <= OverlapFrames /\ HopFrames \in Nat /\ OverlapFrames \in Nat
        /\ SamplesPerFrame \in Nat
    BY <1>1
  <2>2. /\ OverlapFrames * SamplesPerFrame <= HopFrames * SamplesPerFrame
        /\ 1 * SamplesPerFrame <= OverlapFrames * SamplesPerFrame
    BY <1>1, <2>1, Monotone
  <2> QED
    BY <1>1, <2>1, <2>2
<1>3. WindowFrames * SamplesPerFrame
        = HopFrames * SamplesPerFrame + OverlapFrames * SamplesPerFrame
  BY <1>1
<1> QED
  BY <1>1, <1>2, <1>3 DEF HopSamples, Assembly!OverlapSamples, Assembly!WindowSamples,
                          Assembly!Unit

LEMMA Offsets ==
  /\ Offset(1) = 0
  /\ \A w \in Nat \ {0} :
       /\ Offset(w) \in Nat /\ Offset(w + 1) = Offset(w) + HopSamples
       /\ Offset(w) = (HopFrames * (w - 1)) * SamplesPerFrame
  /\ \A v, w \in Nat \ {0} : v < w => Offset(v) + HopSamples <= Offset(w)
<1>1. HopSamples \in Nat /\ HopFrames \in Nat /\ SamplesPerFrame \in Nat
  BY SampleLengths, Frames DEF ScheduleLengths
<1>2. Offset(1) = 0
  BY <1>1 DEF Offset
<1>3. ASSUME NEW w \in Nat \ {0}
      PROVE  /\ Offset(w) \in Nat /\ Offset(w + 1) = Offset(w) + HopSamples
             /\ Offset(w) = (HopFrames * (w - 1)) * SamplesPerFrame
  <2>1. Offset(w) \in Nat
    BY <1>1, <1>3 DEF Offset
  <2>2. HopSamples * ((w + 1) - 1) = HopSamples * (w - 1) + HopSamples
    BY <1>1, <1>3
  <2>3. (HopFrames * SamplesPerFrame) * (w - 1) = (HopFrames * (w - 1)) * SamplesPerFrame
    BY <1>1, <1>3
  <2> QED
    BY <2>1, <2>2, <2>3 DEF Offset, HopSamples
<1>4. ASSUME NEW v \in Nat \ {0}, NEW w \in Nat \ {0}, v < w
      PROVE  Offset(v) + HopSamples <= Offset(w)
  <2>1. v \in Nat /\ w - 1 \in Nat /\ v <= w - 1
    BY <1>4
  <2>2. HopSamples * v <= HopSamples * (w - 1)
    BY <1>1, <2>1, Monotone
  <2>3. Offset(v + 1) = HopSamples * v
    BY <1>1, <1>4 DEF Offset
  <2> QED
    BY <1>3, <1>4, <2>2, <2>3 DEF Offset
<1> QED
  BY <1>2, <1>3, <1>4

(* The song in samples: its windows end with it and cover its target.      *)
LEMMA SampleCover ==
  ASSUME NEW frames \in Nat \ {0}
  PROVE  /\ Assembly!PaddedFrames(frames) * SamplesPerFrame
              = Offset(Count(frames)) + Assembly!WindowSamples
         /\ Assembly!TargetSamples(frames) \in Nat
         /\ Assembly!TargetSamples(frames)
              <= Offset(Count(frames)) + Assembly!WindowSamples
         /\ Count(frames) > 1 => Assembly!TargetSamples(frames) > Offset(Count(frames))
<1> DEFINE padded == Assembly!PaddedFrames(frames)
           n == Count(frames)
           a == HopFrames * (n - 1)
<1>1. /\ n \in Nat \ {0} /\ a \in Nat /\ padded = a + WindowFrames /\ padded >= frames
      /\ n > 1 => padded - frames < HopFrames
  BY PaddedLength
<1>2. /\ HopFrames \in Nat /\ WindowFrames \in Nat /\ OverlapFrames \in Nat
      /\ SamplesPerFrame \in Nat \ {0} /\ WindowFrames = HopFrames + OverlapFrames
      /\ OverlapFrames > 0
  BY Frames DEF ScheduleLengths
<1>3. Offset(n) = a * SamplesPerFrame
  BY <1>1, Offsets
<1> HIDE DEF padded, n, a
<1>4. padded * SamplesPerFrame = a * SamplesPerFrame + WindowFrames * SamplesPerFrame
  BY <1>1, <1>2
<1>5. frames * SamplesPerFrame \in Nat /\ frames * SamplesPerFrame <= padded * SamplesPerFrame
  <2>1. padded \in Nat /\ SamplesPerFrame \in Nat /\ frames \in Nat
    BY <1>1, <1>2
  <2> QED
    BY <1>1, <2>1, Monotone
<1>6. ASSUME n > 1 PROVE frames * SamplesPerFrame > a * SamplesPerFrame
  <2>1. a + 1 \in Nat /\ a + 1 <= frames /\ SamplesPerFrame \in Nat /\ frames \in Nat
    BY <1>1, <1>2, <1>6
  <2>2. (a + 1) * SamplesPerFrame <= frames * SamplesPerFrame
    BY <2>1, Monotone
  <2>3. (a + 1) * SamplesPerFrame = a * SamplesPerFrame + SamplesPerFrame
    BY <1>1, <1>2
  <2> QED
    BY <1>1, <1>2, <1>5, <2>2, <2>3
<1> QED
  BY <1>3, <1>4, <1>5, <1>6
    DEF Assembly!TargetSamples, Assembly!WindowSamples, padded, n

(* The sum of the weights of one part, and of two.                         *)
Weigh(total, parts) ==
  total = [s \in SUBSET parts |->
             IF s = {} THEN 0
             ELSE LET x == CHOOSE x \in s : TRUE IN x.weight + total[s \ {x}]]

TotalWeight(parts) == Assembly!MapThenSumSet(LAMBDA p : p.weight, parts)

LEMMA SumUnfolds ==
  ASSUME NEW parts, \E total : Weigh(total, parts)
  PROVE  \E total : /\ Weigh(total, parts)
                    /\ Assembly!MapThenSumSet(LAMBDA p : p.weight, parts) = total[parts]
<1> DEFINE iter == CHOOSE total : Weigh(total, parts)
<1>1. Weigh(iter, parts)
  OBVIOUS
<1>2. Assembly!MapThenSumSet(LAMBDA p : p.weight, parts) = iter[parts]
  BY DEF Assembly!MapThenSumSet, Assembly!MapThenFoldSet, Weigh
<1> QED
  BY <1>1, <1>2

LEMMA SumOfOne ==
  ASSUME NEW a, a.weight \in Nat
  PROVE  Assembly!MapThenSumSet(LAMBDA p : p.weight, {a}) = a.weight
<1>1. \E total : Weigh(total, {a})
  <2> DEFINE g == [s \in SUBSET {a} |-> IF s = {} THEN 0 ELSE a.weight]
  <2>1. ASSUME NEW s \in SUBSET {a}, s # {}
        PROVE  (CHOOSE x \in s : TRUE) = a /\ s \ {a} = {}
    BY <2>1
  <2>2. g[{}] = 0
    OBVIOUS
  <2>3. ASSUME NEW s \in SUBSET {a}
        PROVE  g[s] = IF s = {} THEN 0
                      ELSE LET x == CHOOSE x \in s : TRUE IN x.weight + g[s \ {x}]
    BY <2>1, <2>2
  <2>4. Weigh(g, {a})
    BY <2>3, Zenon DEF Weigh
  <2> QED
    BY <2>4
<1>2. PICK total : /\ Weigh(total, {a})
                   /\ Assembly!MapThenSumSet(LAMBDA p : p.weight, {a}) = total[{a}]
  BY <1>1, SumUnfolds
<1>3. (CHOOSE x \in {a} : TRUE) = a /\ {a} \ {a} = {}
  OBVIOUS
<1>4. total[{}] = 0 /\ total[{a}] = a.weight + total[{a} \ {a}]
  BY <1>2, <1>3 DEF Weigh
<1> QED
  BY <1>2, <1>3, <1>4

LEMMA SumOfTwo ==
  ASSUME NEW a, NEW b, a # b, a.weight \in Nat, b.weight \in Nat
  PROVE  Assembly!MapThenSumSet(LAMBDA p : p.weight, {a, b}) = a.weight + b.weight
<1> DEFINE of(x, s) == IF x \in s THEN x.weight ELSE 0
           g == [s \in SUBSET {a, b} |-> of(a, s) + of(b, s)]
<1>1. \E total : Weigh(total, {a, b})
  <2>1. ASSUME NEW s \in SUBSET {a, b}
        PROVE  g[s] = IF s = {} THEN 0
                      ELSE LET x == CHOOSE x \in s : TRUE IN x.weight + g[s \ {x}]
    <3>1. CASE s = {}
      BY <3>1
    <3>2. CASE s # {}
      <4> DEFINE x == CHOOSE x \in s : TRUE
      <4>1. x \in s /\ x \in {a, b} /\ s \ {x} \in SUBSET {a, b}
        BY <3>2
      <4> HIDE DEF x
      <4>2. of(a, s) + of(b, s) = x.weight + (of(a, s \ {x}) + of(b, s \ {x}))
        <5>1. CASE x = a
          BY <4>1, <5>1
        <5>2. CASE x = b
          BY <4>1, <5>2
        <5> QED
          BY <4>1, <5>1, <5>2
      <4>3. g[s] = x.weight + g[s \ {x}]
        BY <4>1, <4>2
      <4> QED
        BY <3>2, <4>3 DEF x
    <3> QED
      BY <3>1, <3>2
  <2>2. Weigh(g, {a, b})
    BY <2>1, Zenon DEF Weigh
  <2> QED
    BY <2>2
<1>2. PICK total : /\ Weigh(total, {a, b})
                   /\ Assembly!MapThenSumSet(LAMBDA p : p.weight, {a, b}) = total[{a, b}]
  BY <1>1, SumUnfolds
<1> DEFINE x == CHOOSE x \in {a, b} : TRUE
<1>3. x \in {a, b} /\ total[{a, b}] = x.weight + total[{a, b} \ {x}]
  BY <1>2 DEF Weigh
<1> HIDE DEF x
<1>4. ASSUME NEW y \in {a, b} PROVE total[{y}] = y.weight
  <2>1. (CHOOSE z \in {y} : TRUE) = y /\ {y} \ {y} = {}
    OBVIOUS
  <2>2. total[{}] = 0 /\ total[{y}] = y.weight + total[{y} \ {y}]
    BY <1>2, <1>4, <2>1 DEF Weigh
  <2> QED
    BY <1>4, <2>1, <2>2
<1>5. CASE x = a
  <2>1. {a, b} \ {x} = {b}
    BY <1>5
  <2> QED
    BY <1>2, <1>3, <1>4, <1>5, <2>1
<1>6. CASE x = b
  <2>1. {a, b} \ {x} = {a}
    BY <1>6
  <2>2. total[{a, b}] = b.weight + a.weight
    BY <1>3, <1>4, <1>6, <2>1
  <2>3. b.weight + a.weight = a.weight + b.weight
    OBVIOUS
  <2> QED
    BY <1>2, <2>2, <2>3
<1> QED
  BY <1>3, <1>5, <1>6

-----------------------------------------------------------------------------
(* What the buffers hold once `mixed` windows are in them: of an overlap   *)
(* two parts, of the rest of a window one, up to the window behind it.     *)
Blended(w, k) ==
  {Assembly!Part(w - 1, HopSamples + k, Assembly!Unit - k), Assembly!Part(w, k, k)}
Covered(buffer, done, w, k) ==
  /\ w > 1 /\ k < Assembly!OverlapSamples => buffer[Offset(w) + k] = Blended(w, k)
  /\ (w = 1 \/ k >= Assembly!OverlapSamples) /\ (k < HopSamples \/ w = done) =>
       buffer[Offset(w) + k] = {Assembly!Part(w, k, Assembly!Unit)}

AssemblyInv ==
  /\ source \in Nat \ {0} /\ mixed \in 0 .. Count(source)
  /\ DOMAIN audio = 0 .. (IF mixed = Count(source) THEN Assembly!TargetSamples(source)
                          ELSE Assembly!PaddedFrames(source) * SamplesPerFrame) - 1
  /\ \A w \in 1 .. mixed, k \in 0 .. Assembly!WindowSamples - 1 :
       Offset(w) + k \in DOMAIN audio => Covered(audio, mixed, w, k)

LEMMA OutputOffset ==
  ASSUME NEW frames \in Nat \ {0}, NEW w \in 1 .. Count(frames)
  PROVE  /\ Assembly!Windows(frames)[w].output_offset = Offset(w)
         /\ Assembly!Windows(frames)[w].input_offset = HopFrames * (w - 1)
<1>1. Assembly!Windows(frames)[w] = WindowAt(frames, w)
  BY WindowPerHop
<1>2. w \in Nat \ {0}
  BY PaddedLength
<1> QED
  BY <1>1, <1>2, Offsets DEF WindowAt

(* A sample the next window reaches is its own, or mixed with the previous *)
(* window's.                                                               *)
LEMMA MixCovers ==
  ASSUME AssemblyInv, mixed < Count(source),
         NEW w \in 1 .. mixed + 1, NEW k \in 0 .. Assembly!WindowSamples - 1,
         Offset(w) + k \in DOMAIN audio
  PROVE  Covered(Assembly!Mix(audio, mixed + 1), mixed + 1, w, k)
<1> DEFINE over == Assembly!OverlapSamples
           unit == Assembly!Unit
           s == Offset(w) + k
           next == mixed + 1
           mix == Assembly!Mix(audio, next)
           at == s - Offset(next)
           left == IF next = 1 THEN 0 ELSE over
<1>1. /\ source \in Nat \ {0} /\ mixed \in Nat /\ next \in 1 .. Count(source)
      /\ w \in Nat \ {0} /\ next \in Nat \ {0} /\ Count(source) \in Nat
  <2>1. source \in Nat \ {0} /\ mixed \in 0 .. Count(source)
    BY DEF AssemblyInv
  <2>2. Count(source) \in Nat \ {0}
    BY <2>1, PaddedLength
  <2>3. mixed \in Nat /\ next \in 1 .. Count(source) /\ next \in Nat \ {0}
    BY <2>1, <2>2
  <2> QED
    BY <2>1, <2>2, <2>3
<1>2. /\ HopSamples \in Nat /\ HopSamples > 0 /\ over \in Nat /\ over > 1
      /\ over <= HopSamples /\ Assembly!WindowSamples = HopSamples + over
      /\ unit = over - 1
  BY SampleLengths
<1>3. k \in Nat /\ k < HopSamples + over
  BY <1>2
<1>4. Offset(w) \in Nat /\ Offset(next) \in Nat
  BY <1>1, Offsets
<1>5. mix[s] = IF at < 0 \/ at >= Assembly!WindowSamples THEN audio[s]
               ELSE IF at < left THEN Assembly!Blend(audio[s], next, at)
               ELSE {Assembly!Part(next, at, unit)}
  <2>1. Assembly!Windows(source)[next].output_offset = Offset(next)
    BY <1>1, OutputOffset
  <2> QED
    BY <2>1 DEF Assembly!Mix
<1>6. \A v \in 1 .. mixed, j \in 0 .. Assembly!WindowSamples - 1 :
        Offset(v) + j \in DOMAIN audio => Covered(audio, mixed, v, j)
  BY DEF AssemblyInv
<1>7. CASE w <= mixed
  <2>1. Offset(w) + HopSamples <= Offset(next)
    BY <1>1, <1>7, Offsets
  <2>2. Covered(audio, mixed, w, k)
    BY <1>1, <1>6, <1>7
  <2>3. k < HopSamples => mix[s] = audio[s]
    BY <1>2, <1>3, <1>4, <1>5, <2>1
  <2> HIDE DEF mix, s
  <2>4. w # next
    BY <1>1, <1>7
  <2> QED
    BY <1>2, <1>3, <2>2, <2>3, <2>4 DEF Covered, s, mix
<1>8. CASE w = next
  <2>1. at = k
    BY <1>3, <1>4, <1>8
  <2>2. mix[s] = IF k < left THEN Assembly!Blend(audio[s], next, k)
                 ELSE {Assembly!Part(next, k, unit)}
    BY <1>2, <1>3, <1>5, <2>1
  <2>3. CASE next > 1 /\ k < over
    <3>1. Offset(next) = Offset(mixed) + HopSamples /\ mixed \in 1 .. mixed
      BY <1>1, <2>3, Offsets
    <3>2. s = Offset(mixed) + (HopSamples + k)
      <4>1. mixed \in Nat \ {0}
        BY <1>1, <2>3
      <4>2. Offset(mixed) \in Nat
        BY <4>1, Offsets
      <4> QED
        BY <1>2, <1>3, <1>8, <3>1, <4>2
    <3>3. HopSamples + k \in 0 .. Assembly!WindowSamples - 1 /\ HopSamples + k >= over
      BY <1>2, <1>3, <2>3
    <3> HIDE DEF s
    <3>4. audio[s] = {Assembly!Part(mixed, HopSamples + k, unit)}
      <4>1. Covered(audio, mixed, mixed, HopSamples + k)
        BY <1>6, <3>1, <3>2, <3>3 DEF s
      <4> QED
        BY <3>2, <3>3, <4>1 DEF Covered
    <3>5. (unit * (unit - k)) \div unit = unit - k
      BY <1>2, <1>3, <2>3
    <3>6. Assembly!Blend(audio[s], next, k) = Blended(next, k)
      <4>1. next - 1 = mixed
        BY <1>1
      <4> QED
        BY <3>4, <3>5, <4>1 DEF Assembly!Blend, Assembly!Part, Blended
    <3>7. mix[s] = Blended(w, k)
      BY <1>8, <2>2, <2>3, <3>6
    <3> QED
      BY <1>1, <1>2, <1>3, <1>8, <2>3, <3>7 DEF Covered, s
  <2>4. CASE ~(next > 1 /\ k < over)
    <3>1. ~(k < left)
      BY <1>1, <1>3, <2>4
    <3>2. mix[s] = {Assembly!Part(w, k, unit)}
      BY <1>8, <2>2, <3>1
    <3> HIDE DEF mix, s
    <3> QED
      BY <1>8, <2>4, <3>2 DEF Covered, s, mix
  <2> QED
    BY <2>3, <2>4
<1> QED
  BY <1>1, <1>7, <1>8

LEMMA AssemblyStep ==
  ASSUME AssemblyInv, Assembly!AddWindow
  PROVE  AssemblyInv'
<1> DEFINE n == Count(source)
           mix == Assembly!Mix(audio, mixed + 1)
<1>1. /\ source' = source /\ mixed' = mixed + 1 /\ mixed < n /\ mixed + 1 \in 0 .. n
      /\ n \in Nat \ {0} /\ mixed \in Nat /\ source \in Nat \ {0}
      /\ Len(Assembly!Windows(source)) = n
  BY WindowPerHop, PaddedLength DEF AssemblyInv, Assembly!AddWindow
<1>2. DOMAIN mix = DOMAIN audio
  BY DEF Assembly!Mix
<1>3. DOMAIN audio = 0 .. Assembly!PaddedFrames(source) * SamplesPerFrame - 1
  BY <1>1 DEF AssemblyInv
<1>4. \A w \in 1 .. mixed + 1, k \in 0 .. Assembly!WindowSamples - 1 :
        Offset(w) + k \in DOMAIN audio => Covered(mix, mixed + 1, w, k)
  BY <1>1, MixCovers
<1>5. Count(source') = n
  BY <1>1
<1>6. CASE mixed + 1 # n
  <2>1. audio' = mix
    BY <1>1, <1>6 DEF Assembly!AddWindow
  <2>2. DOMAIN audio' = 0 .. Assembly!PaddedFrames(source') * SamplesPerFrame - 1
    BY <1>1, <1>2, <1>3, <2>1
  <2>3. \A w \in 1 .. mixed', k \in 0 .. Assembly!WindowSamples - 1 :
          Offset(w) + k \in DOMAIN audio' => Covered(audio', mixed', w, k)
    BY <1>1, <1>2, <1>4, <2>1
  <2> QED
    BY <1>1, <1>5, <1>6, <2>2, <2>3 DEF AssemblyInv
<1>7. CASE mixed + 1 = n
  <2> DEFINE target == 0 .. Assembly!TargetSamples(source) - 1
  <2>1. audio' = [s \in target |-> mix[s]]
    BY <1>1, <1>7 DEF Assembly!AddWindow, Assembly!Restrict
  <2>2. target \in SUBSET DOMAIN audio
    <3>1. /\ Assembly!PaddedFrames(source) * SamplesPerFrame
               = Offset(n) + Assembly!WindowSamples
          /\ Assembly!TargetSamples(source) \in Nat
          /\ Assembly!TargetSamples(source) <= Offset(n) + Assembly!WindowSamples
      BY <1>1, SampleCover
    <3>2. Assembly!WindowSamples \in Nat
      BY SampleLengths
    <3>3. Offset(n) \in Nat
      BY <1>1, Offsets
    <3> HIDE DEF n
    <3> QED
      BY <1>3, <3>1, <3>2, <3>3
  <2>3. ASSUME NEW w \in 1 .. mixed', NEW k \in 0 .. Assembly!WindowSamples - 1,
               Offset(w) + k \in DOMAIN audio'
        PROVE  Covered(audio', mixed', w, k)
    <3>1. Offset(w) + k \in target /\ Offset(w) + k \in DOMAIN audio /\ w \in 1 .. mixed + 1
      BY <1>1, <2>1, <2>2, <2>3
    <3>2. Covered(mix, mixed + 1, w, k)
      BY <1>4, <3>1
    <3>3. audio'[Offset(w) + k] = mix[Offset(w) + k]
      BY <2>1, <3>1
    <3> HIDE DEF mix, target
    <3> QED
      BY <1>1, <3>2, <3>3 DEF Covered
  <2>4. DOMAIN audio' = 0 .. Assembly!TargetSamples(source') - 1
    BY <1>1, <2>1
  <2> QED
    BY <1>1, <1>5, <1>7, <2>3, <2>4 DEF AssemblyInv
<1> QED
  BY <1>6, <1>7

LEMMA AssemblyInductive == LayoutsSpec => []AssemblyInv
<1>1. LayoutsInit => AssemblyInv
  <2>1. SUFFICES ASSUME LayoutsInit PROVE AssemblyInv
    OBVIOUS
  <2>2. /\ source \in Nat \ {0} /\ mixed = 0
        /\ DOMAIN audio = 0 .. Assembly!PaddedFrames(source) * SamplesPerFrame - 1
    BY <2>1, LayoutsAssumption DEF LayoutsInit, Assembly!Init
  <2>3. Count(source) \in Nat \ {0}
    BY <2>2, PaddedLength
  <2> QED
    BY <2>2, <2>3 DEF AssemblyInv
<1>2. AssemblyInv /\ [LayoutsNext]_allVars => AssemblyInv'
  <2>1. SUFFICES ASSUME AssemblyInv, [LayoutsNext]_allVars PROVE AssemblyInv'
    OBVIOUS
  <2>2. CASE UNCHANGED assemblyVars
    BY <2>1, <2>2 DEF AssemblyInv, assemblyVars, Covered, Blended
  <2>3. CASE Assembly!AddWindow
    BY <2>1, <2>3, AssemblyStep
  <2> QED
    BY <2>1, <2>2, <2>3 DEF LayoutsNext, allVars, Assembly!Next
<1> QED
  BY <1>1, <1>2, PTL DEF LayoutsSpec, allVars

-----------------------------------------------------------------------------
(* What the invariant says of the finished song, and of its seams.         *)

LEMMA ScheduleKept == AssemblyInv => Assembly!ScheduleCoversSource
<1> DEFINE windows == Assembly!Windows(source)
           n == Len(windows)
           padded == Assembly!PaddedFrames(source)
<1>1. SUFFICES ASSUME AssemblyInv PROVE Assembly!ScheduleCoversSource
  OBVIOUS
<1>2. source \in Nat \ {0}
  BY <1>1 DEF AssemblyInv
<1>3. /\ n = Count(source) /\ n = Assembly!FlowWindowCount(source)
      /\ \A w \in 1 .. n : windows[w] = WindowAt(source, w)
  BY <1>2, WindowPerHop
<1>4. /\ n \in Nat \ {0} /\ HopFrames * (n - 1) \in Nat
      /\ padded = HopFrames * (n - 1) + WindowFrames /\ padded >= source
      /\ n > 1 => padded - source < HopFrames
  BY <1>2, <1>3, PaddedLength
<1>5. /\ HopFrames \in Nat \ {0} /\ WindowFrames \in Nat /\ OverlapFrames \in Nat
      /\ SamplesPerFrame \in Nat
      /\ WindowFrames = HopFrames + OverlapFrames
  BY Frames DEF ScheduleLengths
<1> HIDE DEF windows, n, padded
<1>6. windows[n].input_offset + WindowFrames = padded
  <2>1. windows[n] = WindowAt(source, n)
    BY <1>3, <1>4
  <2>2. windows[n].input_offset = HopFrames * (n - 1)
    BY <2>1 DEF WindowAt
  <2> QED
    BY <1>4, <2>2
<1>7. padded = WindowFrames \/ padded - source < HopFrames
  <2>1. CASE n = 1
    BY <1>4, <1>5, <2>1
  <2>2. CASE n # 1
    BY <1>4, <2>2
  <2> QED
    BY <2>1, <2>2
<1>8. windows[1].overlap_left = 0 /\ windows[n].overlap_right = 0
  <2>1. HopFrames * (1 - 1) = 0 /\ 1 \in 1 .. n /\ n \in 1 .. n
    BY <1>4, <1>5
  <2>2. ~(HopFrames * (n - 1) < padded - WindowFrames)
    BY <1>4, <1>5
  <2>3. WindowAt(source, 1).overlap_left = 0
    BY <2>1 DEF WindowAt
  <2>4. WindowAt(source, n).overlap_right = 0
    BY <2>2 DEF WindowAt, padded
  <2> QED
    BY <1>3, <2>1, <2>3, <2>4
<1>9. ASSUME NEW i \in 1 .. n - 1
      PROVE  /\ windows[i].overlap_right = windows[i + 1].overlap_left
             /\ windows[i + 1].output_offset + windows[i].overlap_right
                  = windows[i].output_offset + Assembly!WindowSamples
  <2>1. i \in 1 .. n /\ i + 1 \in 1 .. n /\ i \in Nat \ {0}
    BY <1>4, <1>9
  <2>2. windows[i] = WindowAt(source, i) /\ windows[i + 1] = WindowAt(source, i + 1)
    BY <1>3, <2>1
  <2>3. HopFrames * (i - 1) < HopFrames * (n - 1)
    <3>1. i \in Nat /\ n - 1 \in Nat /\ i <= n - 1 /\ HopFrames \in Nat
      BY <1>4, <1>5, <1>9
    <3>2. HopFrames * i <= HopFrames * (n - 1)
      BY <3>1, Monotone
    <3>3. HopFrames * i = HopFrames * (i - 1) + HopFrames /\ HopFrames * (i - 1) \in Nat
      BY <1>5, <2>1
    <3> QED
      BY <1>4, <1>5, <3>2, <3>3
  <2>4. HopFrames * ((i + 1) - 1) # 0
    BY <1>5, <2>1
  <2>5. windows[i].overlap_right = Assembly!OverlapSamples
    BY <1>4, <1>5, <2>2, <2>3 DEF WindowAt, padded, Assembly!OverlapSamples
  <2>6. windows[i + 1].overlap_left = Assembly!OverlapSamples
    BY <2>2, <2>4 DEF WindowAt, Assembly!OverlapSamples
  <2>7. windows[i].output_offset = Offset(i) /\ windows[i + 1].output_offset = Offset(i + 1)
    <3>1. i + 1 \in Nat \ {0}
      BY <2>1
    <3> QED
      BY <2>1, <2>2, <3>1, Offsets DEF WindowAt
  <2>8. Offset(i) \in Nat /\ Offset(i + 1) = Offset(i) + HopSamples
    BY <2>1, Offsets
  <2> QED
    BY <2>5, <2>6, <2>7, <2>8, SampleLengths
<1> QED
  BY <1>3, <1>4, <1>6, <1>7, <1>8, <1>9 DEF Assembly!ScheduleCoversSource, windows, n, padded

(* Every sample is in the last window that reaches it.                     *)
LEMMA Located ==
  ASSUME NEW n \in Nat \ {0}, NEW s \in Nat, s < Offset(n) + Assembly!WindowSamples
  PROVE  \E w \in 1 .. n, k \in 0 .. Assembly!WindowSamples - 1 :
           s = Offset(w) + k /\ (k < HopSamples \/ w = n)
<1>1. /\ HopSamples \in Nat /\ HopSamples > 0
      /\ Assembly!WindowSamples \in Nat /\ HopSamples <= Assembly!WindowSamples
  BY SampleLengths
<1>2. Offset(n) \in Nat
  BY Offsets
<1>3. CASE s >= Offset(n)
  <2>1. n \in 1 .. n /\ s - Offset(n) \in 0 .. Assembly!WindowSamples - 1
        /\ s = Offset(n) + (s - Offset(n))
    BY <1>1, <1>2, <1>3
  <2> QED
    BY <2>1
<1>4. CASE s < Offset(n)
  <2> DEFINE q == s \div HopSamples
             r == s % HopSamples
  <2>1. q \in Nat /\ r \in 0 .. HopSamples - 1 /\ s = HopSamples * q + r
    BY <1>1
  <2> HIDE DEF q, r
  <2>2. q + 1 <= n
    <3>1. SUFFICES ASSUME q > n - 1 PROVE FALSE
      BY <2>1
    <3>2. n - 1 \in Nat /\ n - 1 <= q
      BY <2>1, <3>1
    <3>3. HopSamples * (n - 1) <= HopSamples * q /\ HopSamples * (n - 1) \in Nat
      BY <1>1, <2>1, <3>2, Monotone
    <3> QED
      BY <1>1, <1>4, <2>1, <3>3 DEF Offset
  <2>3. Offset(q + 1) = HopSamples * q
    BY <2>1 DEF Offset
  <2>4. q + 1 \in 1 .. n /\ r \in 0 .. Assembly!WindowSamples - 1 /\ r < HopSamples
    BY <1>1, <2>1, <2>2
  <2>5. s = Offset(q + 1) + r
    BY <2>1, <2>3
  <2> QED
    BY <2>4, <2>5
<1> QED
  BY <1>2, <1>3, <1>4

LEMMA PartsOfSample ==
  ASSUME AssemblyInv, NEW w \in 1 .. mixed, NEW k \in 0 .. Assembly!WindowSamples - 1,
         Offset(w) + k \in DOMAIN audio, k < HopSamples \/ w = mixed
  PROVE  /\ TotalWeight(audio[Offset(w) + k]) = Assembly!Unit
         /\ \A p \in audio[Offset(w) + k] :
              Assembly!Windows(source)[p.window].output_offset + p.at = Offset(w) + k
<1> DEFINE parts == audio[Offset(w) + k]
           over == Assembly!OverlapSamples
           unit == Assembly!Unit
           Part(v, at, weight) == Assembly!Part(v, at, weight)
<1>1. /\ source \in Nat \ {0} /\ w \in Nat \ {0} /\ w \in 1 .. Count(source)
      /\ Count(source) \in Nat /\ k \in Nat
  <2>1. source \in Nat \ {0} /\ mixed \in 0 .. Count(source)
    BY DEF AssemblyInv
  <2>2. Count(source) \in Nat \ {0}
    BY <2>1, PaddedLength
  <2>3. Assembly!WindowSamples \in Nat
    BY SampleLengths
  <2>4. k \in Nat
    BY <2>3
  <2> QED
    BY <2>1, <2>2, <2>4
<1>2. HopSamples \in Nat /\ over \in Nat /\ over > 1 /\ unit = over - 1
  BY SampleLengths
<1>3. Offset(w) \in Nat
  BY <1>1, Offsets
<1>4. Covered(audio, mixed, w, k)
  BY DEF AssemblyInv
<1>5. CASE w > 1 /\ k < over
  <2> DEFINE a == Part(w - 1, HopSamples + k, unit - k)
             b == Part(w, k, k)
  <2>1. parts = {a, b}
    BY <1>4, <1>5 DEF Covered, Blended
  <2>2. /\ a.window = w - 1 /\ a.at = HopSamples + k /\ a.weight = unit - k
        /\ b.window = w /\ b.at = k /\ b.weight = k
    BY DEF Assembly!Part
  <2> HIDE DEF a, b, parts
  <2>3. TotalWeight(parts) = unit
    <3>1. a # b /\ a.weight \in Nat /\ b.weight \in Nat /\ a.weight + b.weight = unit
      BY <1>1, <1>2, <1>5, <2>2
    <3>2. TotalWeight({a, b}) = a.weight + b.weight
      BY <3>1, SumOfTwo DEF TotalWeight
    <3> QED
      BY <2>1, <3>1, <3>2
  <2>4. /\ Assembly!Windows(source)[w].output_offset = Offset(w)
        /\ Assembly!Windows(source)[w - 1].output_offset = Offset(w - 1)
    <3>1. w - 1 \in 1 .. Count(source)
      BY <1>1, <1>5
    <3> QED
      BY <1>1, <3>1, OutputOffset
  <2>5. Offset(w) = Offset(w - 1) + HopSamples /\ Offset(w - 1) \in Nat
    <3>1. w - 1 \in Nat \ {0} /\ (w - 1) + 1 = w
      BY <1>1, <1>5
    <3>2. Offset(w - 1) \in Nat /\ Offset((w - 1) + 1) = Offset(w - 1) + HopSamples
      BY <3>1, Offsets
    <3> QED
      BY <3>1, <3>2
  <2>6. Offset(w - 1) + (HopSamples + k) = Offset(w) + k
    BY <1>1, <1>2, <2>5
  <2>7. \A p \in parts :
          Assembly!Windows(source)[p.window].output_offset + p.at = Offset(w) + k
    BY <2>1, <2>2, <2>4, <2>6
  <2> QED
    BY <2>3, <2>7 DEF parts
<1>6. CASE ~(w > 1 /\ k < over)
  <2> DEFINE a == Part(w, k, unit)
  <2>1. parts = {a}
    BY <1>1, <1>2, <1>4, <1>6 DEF Covered
  <2>2. a.window = w /\ a.at = k /\ a.weight = unit
    BY DEF Assembly!Part
  <2> HIDE DEF a, parts
  <2>3. TotalWeight(parts) = unit
    <3>1. a.weight \in Nat
      BY <1>2, <2>2
    <3>2. TotalWeight({a}) = a.weight
      BY <3>1, SumOfOne DEF TotalWeight
    <3> QED
      BY <2>1, <2>2, <3>2
  <2>4. Assembly!Windows(source)[w].output_offset = Offset(w)
    BY <1>1, OutputOffset
  <2> QED
    BY <2>1, <2>2, <2>3, <2>4 DEF parts
<1> QED
  BY <1>5, <1>6

LEMMA AudioKept == AssemblyInv => Assembly!AudioIsAligned
<1>1. SUFFICES ASSUME AssemblyInv, mixed = Len(Assembly!Windows(source))
      PROVE  /\ DOMAIN audio = 0 .. Assembly!TargetSamples(source) - 1
             /\ \A s \in DOMAIN audio :
                  /\ TotalWeight(audio[s]) = Assembly!Unit
                  /\ \A p \in audio[s] :
                       Assembly!Windows(source)[p.window].output_offset + p.at = s
  BY DEF Assembly!AudioIsAligned, Assembly!Finished, TotalWeight
<1>2. /\ source \in Nat \ {0} /\ mixed = Count(source) /\ Count(source) \in Nat \ {0}
      /\ DOMAIN audio = 0 .. Assembly!TargetSamples(source) - 1
  <2>1. source \in Nat \ {0}
    BY <1>1 DEF AssemblyInv
  <2>2. mixed = Count(source) /\ Count(source) \in Nat \ {0}
    BY <1>1, <2>1, WindowPerHop, PaddedLength
  <2> QED
    BY <1>1, <2>1, <2>2 DEF AssemblyInv
<1>3. ASSUME NEW s \in DOMAIN audio
      PROVE  \E w \in 1 .. mixed, k \in 0 .. Assembly!WindowSamples - 1 :
               s = Offset(w) + k /\ (k < HopSamples \/ w = mixed)
  <2>1. /\ Assembly!TargetSamples(source) \in Nat
        /\ Assembly!TargetSamples(source) <= Offset(mixed) + Assembly!WindowSamples
    BY <1>2, SampleCover
  <2>2. Offset(mixed) \in Nat
    BY <1>2, Offsets
  <2>3. Assembly!WindowSamples \in Nat
    BY SampleLengths
  <2>4. s \in Nat /\ s < Offset(mixed) + Assembly!WindowSamples
    BY <1>2, <1>3, <2>1, <2>2, <2>3
  <2> QED
    BY <1>2, <2>4, Located
<1> QED
  BY <1>1, <1>2, <1>3, PartsOfSample

(* A window's first sample is in the buffer as long as the window is.      *)
LEMMA FirstIsKept ==
  ASSUME AssemblyInv, NEW w \in 2 .. mixed
  PROVE  Offset(w) \in DOMAIN audio
<1> DEFINE n == Count(source)
<1>1. /\ source \in Nat \ {0} /\ n \in Nat \ {0} /\ mixed \in 0 .. n
      /\ w \in Nat \ {0} /\ w <= n /\ n > 1
      /\ DOMAIN audio = 0 .. (IF mixed = n THEN Assembly!TargetSamples(source)
                              ELSE Assembly!PaddedFrames(source) * SamplesPerFrame) - 1
  <2>1. source \in Nat \ {0} /\ mixed \in 0 .. n
    BY DEF AssemblyInv
  <2>2. n \in Nat \ {0}
    BY <2>1, PaddedLength
  <2> QED
    BY <2>1, <2>2 DEF AssemblyInv
<1>2. /\ Assembly!PaddedFrames(source) * SamplesPerFrame = Offset(n) + Assembly!WindowSamples
      /\ Assembly!TargetSamples(source) \in Nat
      /\ Assembly!TargetSamples(source) > Offset(n)
  BY <1>1, SampleCover
<1>3. Offset(w) \in Nat /\ Offset(n) \in Nat /\ Offset(w) <= Offset(n)
  <2>1. Offset(w) \in Nat /\ Offset(n) \in Nat
    BY <1>1, Offsets
  <2>2. CASE w = n
    BY <2>1, <2>2
  <2>3. CASE w # n
    <3>1. w < n
      BY <1>1, <2>3
    <3>2. Offset(w) + HopSamples <= Offset(n)
      BY <1>1, <3>1, Offsets
    <3>3. HopSamples \in Nat
      BY SampleLengths
    <3> QED
      BY <2>1, <3>2, <3>3
  <2> QED
    BY <2>2, <2>3
<1>4. Assembly!WindowSamples \in Nat /\ Assembly!WindowSamples > 0
  BY SampleLengths
<1> HIDE DEF n
<1> QED
  BY <1>1, <1>2, <1>3, <1>4

LEMMA SeamsKept == AssemblyInv => Assembly!SeamsAreContinuous
<1> DEFINE over == Assembly!OverlapSamples
           unit == Assembly!Unit
<1>1. SUFFICES ASSUME AssemblyInv, NEW w \in 2 .. mixed
      PROVE  LET first == Assembly!Windows(source)[w].output_offset
                 last  == first + over - 1
             IN /\ \A p \in audio[first] : p.weight > 0 => p.window = w - 1
                /\ last \in DOMAIN audio =>
                     \A p \in audio[last] : p.weight > 0 => p.window = w
  BY DEF Assembly!SeamsAreContinuous
<1>2. /\ source \in Nat \ {0} /\ w \in 1 .. Count(source) /\ w \in Nat \ {0} /\ w > 1
      /\ w \in 1 .. mixed
  <2>1. source \in Nat \ {0} /\ mixed \in 0 .. Count(source)
    BY <1>1 DEF AssemblyInv
  <2>2. Count(source) \in Nat \ {0}
    BY <2>1, PaddedLength
  <2> QED
    BY <1>1, <2>1, <2>2
<1>3. Assembly!Windows(source)[w].output_offset = Offset(w) /\ Offset(w) \in Nat
  BY <1>2, OutputOffset, Offsets
<1>4. /\ over \in Nat /\ over > 1 /\ unit = over - 1
      /\ 0 \in 0 .. Assembly!WindowSamples - 1
      /\ over - 1 \in 0 .. Assembly!WindowSamples - 1
  BY SampleLengths
<1>5. ASSUME NEW k \in 0 .. over - 1, Offset(w) + k \in DOMAIN audio
      PROVE  audio[Offset(w) + k] = Blended(w, k)
  <2>1. k \in 0 .. Assembly!WindowSamples - 1 /\ k < over
    BY <1>4, <1>5, SampleLengths
  <2>2. Covered(audio, mixed, w, k)
    BY <1>1, <1>2, <1>5, <2>1 DEF AssemblyInv
  <2> QED
    BY <1>2, <2>1, <2>2 DEF Covered
<1>6. ASSUME NEW p \in audio[Offset(w)], p.weight > 0 PROVE p.window = w - 1
  <2>1. Offset(w) + 0 = Offset(w) /\ Offset(w) \in DOMAIN audio /\ 0 \in 0 .. over - 1
    BY <1>1, <1>3, <1>4, FirstIsKept
  <2>2. audio[Offset(w)] = Blended(w, 0)
    BY <1>5, <2>1
  <2>3. p \in {Assembly!Part(w - 1, HopSamples + 0, unit - 0), Assembly!Part(w, 0, 0)}
    BY <1>6, <2>2 DEF Blended
  <2> QED
    BY <1>6, <2>3 DEF Assembly!Part
<1>7. ASSUME Offset(w) + over - 1 \in DOMAIN audio,
             NEW p \in audio[Offset(w) + over - 1], p.weight > 0
      PROVE  p.window = w
  <2>1. Offset(w) + over - 1 = Offset(w) + (over - 1) /\ over - 1 \in 0 .. over - 1
    BY <1>3, <1>4
  <2>2. audio[Offset(w) + over - 1] = Blended(w, over - 1)
    BY <1>5, <1>7, <2>1
  <2>3. p \in {Assembly!Part(w - 1, HopSamples + (over - 1), unit - (over - 1)),
              Assembly!Part(w, over - 1, over - 1)}
    BY <1>7, <2>2 DEF Blended
  <2>4. unit - (over - 1) = 0
    BY <1>4
  <2> QED
    BY <1>7, <2>3, <2>4 DEF Assembly!Part
<1> HIDE DEF over, unit
<1> QED
  BY <1>3, <1>6, <1>7

-----------------------------------------------------------------------------
(* The joined latents: every frame is the window's own for its moment.     *)
LatentInv ==
  /\ source \in Nat \ {0} /\ mixed \in 0 .. Count(source)
  /\ LET length == IF mixed = 0 THEN 0
                   ELSE IF mixed = Count(source) THEN source
                   ELSE HopFrames * mixed + OverlapFrames
     IN latents = [f \in 1 .. length |-> latents[f]]
  /\ \A f \in DOMAIN latents :
       \E w \in 1 .. mixed, i \in 0 .. WindowFrames - 1 :
         latents[f] = <<w, i>> /\ HopFrames * (w - 1) + i = f - 1

LEMMA LatentStep ==
  ASSUME LatentInv, Assembly!AddWindow
  PROVE  LatentInv'
<1> DEFINE n == Count(source)
           next == mixed + 1
           join == Assembly!Join(latents, next)
           old == IF mixed = 0 THEN 0 ELSE HopFrames * mixed + OverlapFrames
           new == HopFrames * next + OverlapFrames
           size == IF next = 1 THEN WindowFrames ELSE HopFrames
           more == IF next = 1 THEN [i \in 1 .. WindowFrames |-> <<next, i - 1>>]
                   ELSE Assembly!Continuation(next)
           From(f, pair) == \E w \in 1 .. next, i \in 0 .. WindowFrames - 1 :
                              pair = <<w, i>> /\ HopFrames * (w - 1) + i = f - 1
<1>1. /\ source' = source /\ mixed' = next /\ mixed < n /\ next \in 0 .. n
      /\ n \in Nat \ {0} /\ mixed \in Nat /\ source \in Nat \ {0}
      /\ Len(Assembly!Windows(source)) = n
  BY WindowPerHop, PaddedLength DEF LatentInv, Assembly!AddWindow
<1>2. /\ HopFrames \in Nat \ {0} /\ OverlapFrames \in Nat /\ WindowFrames \in Nat
      /\ WindowFrames = HopFrames + OverlapFrames
  BY Frames DEF ScheduleLengths
<1>3. latents = [f \in 1 .. old |-> latents[f]]
  BY <1>1 DEF LatentInv
<1>4. /\ HopFrames * mixed \in Nat /\ HopFrames * next = HopFrames * mixed + HopFrames
      /\ HopFrames * 1 = HopFrames /\ HopFrames * (next - 1) = HopFrames * mixed
      /\ HopFrames * 0 = 0
  BY <1>1, <1>2
<1>5. old \in Nat /\ size \in Nat /\ new \in Nat /\ old + size = new
  <2>1. CASE mixed = 0
    BY <1>2, <1>4, <2>1
  <2>2. CASE mixed # 0
    BY <1>1, <1>2, <1>4, <2>2
  <2> QED
    BY <2>1, <2>2
<1>6. more = [i \in 1 .. size |-> more[i]]
  BY DEF Assembly!Continuation
<1>7. \A i \in 1 .. size : From(old + i, more[i])
  <2>1. SUFFICES ASSUME NEW i \in 1 .. size PROVE From(old + i, more[i])
    OBVIOUS
  <2>2. CASE mixed = 0
    <3>1. more[i] = <<next, i - 1>> /\ old + i = i
      BY <1>1, <2>1, <2>2
    <3>2. next \in 1 .. next /\ i - 1 \in 0 .. WindowFrames - 1
          /\ HopFrames * (next - 1) + (i - 1) = i - 1
      BY <1>1, <1>2, <1>4, <2>1, <2>2
    <3> QED
      BY <3>1, <3>2
  <2>3. CASE mixed # 0
    <3>1. more[i] = <<next, OverlapFrames + i - 1>> /\ i \in 1 .. HopFrames
      BY <1>1, <2>1, <2>3 DEF Assembly!Continuation
    <3>2. /\ next \in 1 .. next /\ OverlapFrames + i - 1 \in 0 .. WindowFrames - 1
          /\ HopFrames * (next - 1) + (OverlapFrames + i - 1) = (old + i) - 1
      BY <1>1, <1>2, <1>4, <2>3, <3>1
    <3> QED
      BY <3>1, <3>2
  <2> QED
    BY <2>2, <2>3
<1>8. \A f \in 1 .. old : From(f, latents[f])
  <2>1. \A f \in 1 .. old : f \in DOMAIN latents
    BY <1>3
  <2>2. \A w \in 1 .. mixed : w \in 1 .. next
    BY <1>1
  <2> QED
    BY <2>1, <2>2, Zenon DEF LatentInv
<1>9. join = latents \o more
  BY DEF Assembly!Join
<1> HIDE DEF join, more, old, size, From, new
<1>10. /\ join = [f \in 1 .. new |-> join[f]]
       /\ \A f \in 1 .. new : From(f, join[f])
  <2>1. /\ join = [f \in 1 .. old + size |-> join[f]]
        /\ \A f \in 1 .. old : join[f] = latents[f]
        /\ \A f \in old + 1 .. old + size : join[f] = more[f - old]
    BY <1>3, <1>5, <1>6, <1>9, Joined
  <2>2. ASSUME NEW f \in 1 .. new PROVE From(f, join[f])
    <3>1. CASE f <= old
      <4>1. f \in 1 .. old
        BY <1>5, <2>2, <3>1
      <4> QED
        BY <1>8, <2>1, <4>1, Zenon
    <3>2. CASE f > old
      <4>1. f \in old + 1 .. old + size /\ f - old \in 1 .. size /\ old + (f - old) = f
        BY <1>5, <2>2, <3>2
      <4> QED
        BY <1>7, <2>1, <4>1
    <3> QED
      BY <1>5, <2>2, <3>1, <3>2
  <2> QED
    BY <1>5, <2>1, <2>2
<1>11. CASE next # n
  <2>1. latents' = join /\ mixed' # 0 /\ mixed' # Count(source')
    BY <1>1, <1>11 DEF Assembly!AddWindow, join
  <2>2. DOMAIN latents' = 1 .. new
    BY <1>10, <2>1, Zenon
  <2> QED
    BY <1>1, <1>10, <2>1, <2>2 DEF LatentInv, From, new
<1>12. CASE next = n
  <2>1. latents' = SubSeq(join, 1, source) /\ mixed' # 0 /\ mixed' = Count(source')
    BY <1>1, <1>12 DEF Assembly!AddWindow, join
  <2>2. source <= new
    <3>1. /\ Assembly!PaddedFrames(source) = HopFrames * (n - 1) + WindowFrames
          /\ Assembly!PaddedFrames(source) >= source
      BY <1>1, PaddedLength
    <3> QED
      BY <1>1, <1>2, <1>4, <1>12, <3>1 DEF new
  <2>3. latents' = [f \in 1 .. source |-> join[f]]
    BY <1>1, <1>5, <1>10, <2>1, <2>2
  <2>4. \A f \in 1 .. source : latents'[f] = join[f]
    BY <2>3
  <2>5. latents' = [f \in 1 .. source |-> latents'[f]]
    BY <2>3, ByItsValues
  <2>6. ASSUME NEW f \in 1 .. source
        PROVE  \E w \in 1 .. next, i \in 0 .. WindowFrames - 1 :
                 latents'[f] = <<w, i>> /\ HopFrames * (w - 1) + i = f - 1
    <3>1. f \in 1 .. new
      BY <1>1, <1>5, <2>2, <2>6
    <3>2. From(f, join[f]) /\ latents'[f] = join[f]
      BY <1>10, <2>4, <2>6, <3>1, Zenon
    <3> QED
      BY <3>2, Zenon DEF From
  <2>7. DOMAIN latents' = 1 .. source
    BY <2>3, Zenon
  <2> QED
    BY <1>1, <2>1, <2>5, <2>6, <2>7 DEF LatentInv
<1> QED
  BY <1>11, <1>12

LEMMA LatentInductive == LayoutsSpec => []LatentInv
<1>1. LayoutsInit => LatentInv
  <2>1. SUFFICES ASSUME LayoutsInit PROVE LatentInv
    OBVIOUS
  <2>2. source \in Nat \ {0} /\ mixed = 0 /\ latents = <<>>
    BY <2>1, LayoutsAssumption DEF LayoutsInit, Assembly!Init
  <2>3. Count(source) \in Nat \ {0}
    BY <2>2, PaddedLength
  <2>4. latents = [f \in 1 .. 0 |-> latents[f]]
    BY <2>2
  <2> QED
    BY <2>2, <2>3, <2>4 DEF LatentInv
<1>2. LatentInv /\ [LayoutsNext]_allVars => LatentInv'
  <2>1. SUFFICES ASSUME LatentInv, [LayoutsNext]_allVars PROVE LatentInv'
    OBVIOUS
  <2>2. CASE UNCHANGED assemblyVars
    <3>1. source' = source /\ mixed' = mixed /\ latents' = latents
      BY <2>2 DEF assemblyVars
    <3>2. source' \in Nat \ {0} /\ mixed' \in 0 .. Count(source')
      BY <2>1, <3>1 DEF LatentInv
    <3>3. \A f \in DOMAIN latents' :
            \E w \in 1 .. mixed', i \in 0 .. WindowFrames - 1 :
              latents'[f] = <<w, i>> /\ HopFrames * (w - 1) + i = f - 1
      <4>1. \A f \in DOMAIN latents :
              \E w \in 1 .. mixed, i \in 0 .. WindowFrames - 1 :
                latents[f] = <<w, i>> /\ HopFrames * (w - 1) + i = f - 1
        BY <2>1 DEF LatentInv
      <4> QED
        BY <3>1, <4>1
    <3>4. LET length == IF mixed' = 0 THEN 0
                        ELSE IF mixed' = Count(source') THEN source'
                        ELSE HopFrames * mixed' + OverlapFrames
          IN latents' = [f \in 1 .. length |-> latents'[f]]
      BY <2>1, <3>1 DEF LatentInv
    <3> QED
      BY <3>2, <3>3, <3>4, Zenon DEF LatentInv
  <2>3. CASE Assembly!AddWindow
    BY <2>1, <2>3, LatentStep
  <2> QED
    BY <2>1, <2>2, <2>3 DEF LayoutsNext, allVars, Assembly!Next
<1> QED
  BY <1>1, <1>2, PTL DEF LayoutsSpec, allVars

LEMMA LatentsKept == LatentInv => Assembly!LatentsAreAligned
<1>1. SUFFICES ASSUME LatentInv PROVE Assembly!LatentsAreAligned
  OBVIOUS
<1>2. /\ source \in Nat \ {0} /\ mixed \in 0 .. Count(source)
      /\ Count(source) \in Nat \ {0} /\ Len(Assembly!Windows(source)) = Count(source)
  <2>1. source \in Nat \ {0}
    BY <1>1 DEF LatentInv
  <2> QED
    BY <1>1, <2>1, PaddedLength, WindowPerHop DEF LatentInv
<1>3. PICK length \in Nat : /\ latents = [f \in 1 .. length |-> latents[f]]
                            /\ mixed = Count(source) => length = source
  <2>1. HopFrames * mixed + OverlapFrames \in Nat
    BY <1>2, Frames DEF ScheduleLengths
  <2> QED
    BY <1>1, <1>2, <2>1 DEF LatentInv
<1>4. Len(latents) = length /\ DOMAIN latents = 1 .. length
  BY <1>3
<1>5. ASSUME NEW f \in 1 .. Len(latents)
      PROVE  LET time == Assembly!Windows(source)[latents[f][1]].input_offset + latents[f][2]
             IN /\ time = f - 1
                /\ f <= source => Assembly!PaddedSourceIndex(source, time) = f - 1
  <2>1. PICK w \in 1 .. mixed, i \in 0 .. WindowFrames - 1 :
          latents[f] = <<w, i>> /\ HopFrames * (w - 1) + i = f - 1
    BY <1>1, <1>4, <1>5, Zenon DEF LatentInv
  <2>2. w \in 1 .. Count(source)
    BY <1>2, <2>1
  <2>3. Assembly!Windows(source)[w].input_offset = HopFrames * (w - 1)
    BY <1>2, <2>2, OutputOffset
  <2>4. latents[f][1] = w /\ latents[f][2] = i
    BY <2>1
  <2>5. Assembly!Windows(source)[latents[f][1]].input_offset + latents[f][2] = f - 1
    BY <2>1, <2>3, <2>4
  <2>6. ASSUME f <= source PROVE (f - 1) % source = f - 1
    <3>1. f - 1 \in Nat /\ f - 1 < source /\ source \in Nat
      BY <1>2, <1>4, <1>5, <2>6
    <3> QED
      BY <3>1
  <2> QED
    BY <2>5, <2>6 DEF Assembly!PaddedSourceIndex
<1>6. Assembly!Finished => Len(latents) = source
  BY <1>2, <1>3, <1>4 DEF Assembly!Finished
<1> QED
  BY <1>5, <1>6 DEF Assembly!LatentsAreAligned

(* For every song, whatever the lengths of a window, its hop and a frame:  *)
(* the windows cover it, every sample and latent that is joined is its     *)
(* window's for that moment, the parts of a sample weigh one and no window *)
(* switches in abruptly (make_renderer_schedule, assemble_renderer_audio,  *)
(* assemble_flow_latent_windows).                                          *)
THEOREM WindowsAlwaysJoin == LayoutsSpec => []WindowsJoin
BY AssemblyInductive, LatentInductive, ScheduleKept, AudioKept, SeamsKept, LatentsKept, PTL
   DEF WindowsJoin

-----------------------------------------------------------------------------
(* The delayed codebooks.                                                  *)

IsDelayed(p) ==
  /\ p.depth \in Nat \ {0} /\ p.delays \in [0 .. p.depth - 1 -> Nat]
  /\ p.flatten \in Nat /\ p.empty \in Nat
  /\ \A q \in 1 .. p.depth - 1 : p.delays[q - 1] <= p.delays[q]

FirstOf(p, frames) == IF p.flatten < frames THEN p.flatten ELSE frames
SlantOf(p, frames) == 1 + p.empty + FirstOf(p, frames) * p.depth
SizeOf(p, frames) == SlantOf(p, frames) + (frames - FirstOf(p, frames)) + Pattern!LastDelay(p)

(* The step that holds frame t of codebook q: one step per codebook in the *)
(* flattened frames, one per frame on the diagonal.                        *)
StepOf(p, frames, q, t) ==
  IF t < FirstOf(p, frames) THEN 1 + p.empty + t * p.depth + q
  ELSE SlantOf(p, frames) + (t - FirstOf(p, frames)) + p.delays[q]

LEMMA DelaysAreSorted ==
  ASSUME NEW p, IsDelayed(p), NEW q \in Pattern!Books(p)
  PROVE  p.delays[0] <= p.delays[q] /\ p.delays[q] <= Pattern!LastDelay(p)
<1> DEFINE K == p.depth
           d == p.delays
<1>1. /\ K \in Nat \ {0} /\ d \in [0 .. K - 1 -> Nat]
      /\ \A i \in 1 .. K - 1 : d[i - 1] <= d[i]
      /\ q \in 0 .. K - 1
  BY DEF IsDelayed, Pattern!Books
<1> HIDE DEF K, d
<1>2. d[0] <= d[q]
  <2> DEFINE T == {i \in 0 .. K - 1 : ~(d[0] <= d[i])}
  <2>1. SUFFICES ASSUME T # {} PROVE FALSE
    BY <1>1
  <2>2. T \in SUBSET Nat
    BY <1>1
  <2>3. PICK i \in T : \A j \in T : i <= j
    BY <2>1, <2>2, LeastNatural
  <2>4. i \in 0 .. K - 1 /\ ~(d[0] <= d[i]) /\ i # 0
    BY <1>1, <2>3
  <2>5. i \in 1 .. K - 1 /\ i - 1 \in 0 .. K - 1 /\ d[i - 1] <= d[i]
    BY <1>1, <2>4
  <2>6. d[0] <= d[i - 1]
    BY <1>1, <2>3, <2>5
  <2>7. d[0] \in Nat /\ d[i] \in Nat /\ d[i - 1] \in Nat
    BY <1>1, <2>4, <2>5
  <2> QED
    BY <2>4, <2>5, <2>6, <2>7
<1>3. d[q] <= d[K - 1]
  <2> DEFINE T == {j \in 0 .. K - 1 : ~(d[(K - 1) - j] <= d[K - 1])}
  <2>1. SUFFICES ASSUME T # {} PROVE FALSE
    <3>1. (K - 1) - q \in 0 .. K - 1 /\ (K - 1) - ((K - 1) - q) = q
      BY <1>1
    <3> QED
      BY <3>1
  <2>2. T \in SUBSET Nat
    BY <1>1
  <2>3. PICK j \in T : \A i \in T : j <= i
    BY <2>1, <2>2, LeastNatural
  <2> DEFINE i == (K - 1) - j
  <2>4. j \in 0 .. K - 1 /\ ~(d[i] <= d[K - 1]) /\ j # 0
    BY <1>1, <2>3
  <2>5. i + 1 \in 1 .. K - 1 /\ i \in 0 .. K - 1 /\ d[(i + 1) - 1] <= d[i + 1] /\ (i + 1) - 1 = i
    BY <1>1, <2>4
  <2>6. d[i + 1] <= d[K - 1]
    <3>1. j - 1 \in 0 .. K - 1 /\ (K - 1) - (j - 1) = i + 1 /\ ~(j <= j - 1)
      BY <1>1, <2>4
    <3> QED
      BY <2>3, <3>1
  <2>7. d[K - 1] \in Nat /\ d[i] \in Nat /\ d[i + 1] \in Nat
    BY <1>1, <2>5
  <2> HIDE DEF i
  <2> QED
    BY <2>4, <2>5, <2>6, <2>7
<1> QED
  BY <1>2, <1>3 DEF Pattern!LastDelay, K, d

LEMMA LayoutLengths ==
  ASSUME NEW p, IsDelayed(p), NEW frames \in Nat
  PROVE  /\ FirstOf(p, frames) \in 0 .. frames
         /\ SlantOf(p, frames) \in Nat /\ SlantOf(p, frames) >= 1 + p.empty
         /\ Pattern!LastDelay(p) \in Nat /\ p.delays[0] \in Nat
         /\ SizeOf(p, frames) \in Nat /\ SizeOf(p, frames) >= SlantOf(p, frames)
         /\ 0 \in Pattern!Books(p)
<1>1. /\ p.depth \in Nat \ {0} /\ p.delays \in [0 .. p.depth - 1 -> Nat]
      /\ p.flatten \in Nat /\ p.empty \in Nat
  BY DEF IsDelayed
<1>2. FirstOf(p, frames) \in 0 .. frames
  BY <1>1 DEF FirstOf
<1>3. FirstOf(p, frames) * p.depth \in Nat
  BY <1>1, <1>2
<1>4. Pattern!LastDelay(p) \in Nat /\ p.delays[0] \in Nat
  BY <1>1 DEF Pattern!LastDelay
<1>5. SlantOf(p, frames) \in Nat /\ SlantOf(p, frames) >= 1 + p.empty
  BY <1>1, <1>3 DEF SlantOf
<1>6. SizeOf(p, frames) \in Nat /\ SizeOf(p, frames) >= SlantOf(p, frames)
  BY <1>2, <1>4, <1>5 DEF SizeOf
<1>7. 0 \in Pattern!Books(p)
  BY <1>1 DEF Pattern!Books
<1> QED
  BY <1>2, <1>4, <1>5, <1>6, <1>7

(* The step of a frame: later for a later frame, no earlier for a later    *)
(* codebook, and inside the layout for every frame of the tensor.          *)
LEMMA StepOrder ==
  ASSUME NEW p, IsDelayed(p), NEW frames \in Nat, NEW q \in Pattern!Books(p), NEW t \in Nat
  PROVE  /\ StepOf(p, frames, q, t) \in Nat /\ StepOf(p, frames, q, t) > p.empty
         /\ \A u \in Nat : t < u => StepOf(p, frames, q, t) < StepOf(p, frames, q, u)
         /\ t < FirstOf(p, frames) => StepOf(p, frames, q, t) < SlantOf(p, frames)
         /\ q # 0 => StepOf(p, frames, q - 1, t) <= StepOf(p, frames, q, t)
         /\ t < frames => StepOf(p, frames, q, t) < SizeOf(p, frames)
<1> DEFINE F == FirstOf(p, frames)
           C == SlantOf(p, frames)
           K == p.depth
           D == Pattern!LastDelay(p)
           Step(b, u) == StepOf(p, frames, b, u)
<1>1. /\ K \in Nat \ {0} /\ p.delays \in [0 .. K - 1 -> Nat] /\ p.empty \in Nat
      /\ \A b \in 1 .. K - 1 : p.delays[b - 1] <= p.delays[b]
      /\ q \in 0 .. K - 1
  BY DEF IsDelayed, Pattern!Books
<1>2. /\ F \in 0 .. frames /\ C \in Nat /\ C >= 1 + p.empty /\ D \in Nat
  BY LayoutLengths
<1>3. p.delays[q] \in Nat /\ p.delays[q] <= D
  BY <1>1, DelaysAreSorted
<1>4. C = 1 + p.empty + F * K /\ SizeOf(p, frames) = C + (frames - F) + D
  BY DEF SlantOf, SizeOf
<1>5. \A b, u : Step(b, u) = IF u < F THEN 1 + p.empty + u * K + b
                             ELSE C + (u - F) + p.delays[b]
  BY DEF StepOf
<1> HIDE DEF F, C, K, D, Step
<1>6. \A u \in Nat : u * K \in Nat
  BY <1>1
<1>7. \A u, v \in Nat : u < v => u * K + K <= v * K
  <2>1. ASSUME NEW u \in Nat, NEW v \in Nat, u < v PROVE u * K + K <= v * K
    <3>1. u + 1 \in Nat /\ u + 1 <= v /\ K \in Nat
      BY <1>1, <2>1
    <3>2. (u + 1) * K <= v * K
      BY <3>1, Monotone
    <3>3. (u + 1) * K = u * K + K
      BY <3>1
    <3> QED
      BY <3>2, <3>3
  <2> QED
    BY <2>1
<1>8. \A u \in Nat : u < F => Step(q, u) < C
  <2>1. SUFFICES ASSUME NEW u \in Nat, u < F PROVE Step(q, u) < C
    OBVIOUS
  <2> DEFINE a == u * K
             c == F * K
  <2>2. a + K <= c /\ a \in Nat /\ c \in Nat
    BY <1>2, <1>6, <1>7, <2>1
  <2>3. Step(q, u) = 1 + p.empty + a + q /\ C = 1 + p.empty + c
    BY <1>4, <1>5, <2>1
  <2> HIDE DEF a, c
  <2>4. q \in Nat /\ q < K /\ K \in Nat /\ p.empty \in Nat
    BY <1>1
  <2> QED
    BY <2>2, <2>3, <2>4
<1>9. Step(q, t) \in Nat /\ Step(q, t) > p.empty
  <2>1. CASE t < F
    <3> DEFINE a == t * K
    <3>1. Step(q, t) = 1 + p.empty + a + q /\ a \in Nat
      BY <1>5, <1>6, <2>1
    <3>2. p.empty \in Nat /\ q \in Nat
      BY <1>1
    <3> HIDE DEF a
    <3> QED
      BY <3>1, <3>2
  <2>2. CASE ~(t < F)
    <3>1. Step(q, t) = C + (t - F) + p.delays[q] /\ t - F \in Nat
      BY <1>2, <1>5, <2>2
    <3>2. p.empty \in Nat /\ p.delays[q] \in Nat /\ C \in Nat /\ C > p.empty
      BY <1>1, <1>2, <1>3
    <3> QED
      BY <3>1, <3>2
  <2> QED
    BY <2>1, <2>2
<1>10. ASSUME NEW u \in Nat, t < u PROVE Step(q, t) < Step(q, u)
  <2>1. CASE u < F
    <3> DEFINE a == t * K
               c == u * K
    <3>1. a + K <= c /\ a \in Nat /\ c \in Nat /\ t < F
      BY <1>2, <1>6, <1>7, <1>10, <2>1
    <3>2. Step(q, t) = 1 + p.empty + a + q
      BY <1>5, <3>1
    <3>3. Step(q, u) = 1 + p.empty + c + q
      BY <1>5, <2>1
    <3>4. q \in Nat /\ K \in Nat /\ K > 0 /\ p.empty \in Nat
      BY <1>1
    <3> HIDE DEF a, c
    <3> QED
      BY <3>1, <3>2, <3>3, <3>4
  <2>2. CASE ~(u < F)
    <3>1. Step(q, u) = C + (u - F) + p.delays[q] /\ u - F \in Nat
      BY <1>2, <1>5, <2>2
    <3>2. CASE t < F
      <4>1. Step(q, t) < C
        BY <1>8, <3>2
      <4> QED
        BY <1>2, <1>3, <1>9, <3>1, <4>1
    <3>3. CASE ~(t < F)
      BY <1>2, <1>3, <1>5, <1>10, <3>1, <3>3
    <3> QED
      BY <3>2, <3>3
  <2> QED
    BY <2>1, <2>2
<1>11. ASSUME q # 0 PROVE Step(q - 1, t) <= Step(q, t)
  <2>1. q \in 1 .. K - 1 /\ q - 1 \in 0 .. K - 1 /\ p.delays[q - 1] <= p.delays[q]
    <3>1. q \in 1 .. K - 1 /\ q - 1 \in 0 .. K - 1
      BY <1>1, <1>11
    <3> QED
      BY <1>1, <3>1
  <2>2. p.delays[q - 1] \in Nat
    BY <1>1, <2>1
  <2>3. CASE t < F
    <3> DEFINE a == t * K
    <3>1. a \in Nat /\ q \in Nat /\ p.empty \in Nat
      BY <1>1, <1>6
    <3>2. Step(q - 1, t) = 1 + p.empty + a + (q - 1)
      BY <1>5, <2>3
    <3>3. Step(q, t) = 1 + p.empty + a + q
      BY <1>5, <2>3
    <3> HIDE DEF a
    <3> QED
      BY <3>1, <3>2, <3>3
  <2>4. CASE ~(t < F)
    BY <1>2, <1>3, <1>5, <2>1, <2>2, <2>4
  <2> QED
    BY <2>3, <2>4
<1>12. ASSUME t < frames PROVE Step(q, t) < SizeOf(p, frames)
  <2>1. CASE t < F
    BY <1>2, <1>4, <1>8, <1>9, <2>1
  <2>2. CASE ~(t < F)
    BY <1>2, <1>3, <1>4, <1>5, <1>12, <2>2
  <2> QED
    BY <2>1, <2>2
<1> QED
  BY <1>8, <1>9, <1>10, <1>11, <1>12 DEF F, C, Step

LEMMA DividedAgain ==
  ASSUME NEW k \in Nat \ {0}, NEW t \in Nat, NEW q \in 0 .. k - 1
  PROVE  (t * k + q) \div k = t /\ (t * k + q) % k = q
<1> DEFINE n == t * k + q
           d == n \div k
           r == n % k
<1>1. n \in Nat /\ k \in Nat /\ t * k \in Nat
  OBVIOUS
<1>2. d \in Nat /\ r \in 0 .. k - 1 /\ n = k * d + r
  BY <1>1
<1>3. n = k * t + q
  OBVIOUS
<1> HIDE DEF n, d, r
<1>4. ~(d < t)
  <2>1. SUFFICES ASSUME d < t PROVE FALSE
    OBVIOUS
  <2>2. d + 1 \in Nat /\ d + 1 <= t
    BY <1>2, <2>1
  <2>3. k * (d + 1) <= k * t
    BY <1>1, <2>2, Monotone
  <2>4. k * (d + 1) = k * d + k
    BY <1>2
  <2> QED
    BY <1>1, <1>2, <1>3, <2>3, <2>4
<1>5. ~(t < d)
  <2>1. SUFFICES ASSUME t < d PROVE FALSE
    OBVIOUS
  <2>2. t + 1 \in Nat /\ t + 1 <= d
    BY <1>2, <2>1
  <2>3. k * (t + 1) <= k * d
    BY <1>1, <1>2, <2>2, Monotone
  <2>4. k * (t + 1) = k * t + k
    OBVIOUS
  <2> QED
    BY <1>1, <1>2, <1>3, <2>3, <2>4
<1>6. d = t
  BY <1>2, <1>4, <1>5
<1>7. r = q
  BY <1>1, <1>2, <1>3, <1>6
<1> QED
  BY <1>6, <1>7 DEF d, r, n

(* A layout holds each frame at its step, and nothing else.                *)
Coordinate(t, q) == [timestep |-> t, codebook |-> q]

LEMMA LayoutHolds ==
  ASSUME NEW p, IsDelayed(p), NEW frames \in Nat
  PROVE  /\ DOMAIN Pattern!Layout(p, frames) = 0 .. SizeOf(p, frames) - 1
         /\ \A s \in 0 .. SizeOf(p, frames) - 1 : \A c :
              c \in Pattern!Layout(p, frames)[s] <=>
                \E q \in Pattern!Books(p), t \in Nat :
                  c = Coordinate(t, q) /\ StepOf(p, frames, q, t) = s
<1> DEFINE F == FirstOf(p, frames)
           C == SlantOf(p, frames)
           B == 1 + p.empty
           K == p.depth
           d == p.delays
           D == Pattern!LastDelay(p)
           Step(b, u) == StepOf(p, frames, b, u)
           size == SizeOf(p, frames)
           layout == [s \in 0 .. C + frames + D - F - 1 |->
                        IF s < B THEN {}
                        ELSE IF s < C THEN {Coordinate((s - B) \div K, (s - B) % K)}
                        ELSE {Coordinate((F + (s - C)) - d[q], q) :
                                q \in Pattern!Diagonal(p, F, F + (s - C))}]
<1>1. Pattern!Layout(p, frames) = layout
  BY DEF Pattern!Layout, FirstOf, SlantOf, Coordinate
<1>2. /\ K \in Nat \ {0} /\ d \in [0 .. K - 1 -> Nat] /\ p.empty \in Nat
      /\ Pattern!Books(p) = 0 .. K - 1
  BY DEF IsDelayed, Pattern!Books
<1>3. F \in 0 .. frames /\ C \in Nat /\ C >= B /\ D \in Nat /\ B \in Nat
  <2>1. F \in 0 .. frames /\ C \in Nat /\ C >= 1 + p.empty /\ D \in Nat
    BY LayoutLengths
  <2>2. 1 + p.empty \in Nat
    BY <1>2
  <2> QED
    BY <2>1, <2>2
<1>4. /\ size \in Nat /\ 0 .. C + frames + D - F - 1 = 0 .. size - 1
  <2>1. size = C + (frames - F) + D
    BY DEF SizeOf
  <2> HIDE DEF F, C, D, size
  <2> QED
    BY <1>3, <2>1
<1>5. C = B + F * K
  BY DEF SlantOf
<1>6. \A q \in Pattern!Books(p), t \in Nat :
        /\ Step(q, t) \in Nat /\ Step(q, t) > p.empty
        /\ t < F => Step(q, t) < C
  BY StepOrder
<1>7. \A q, t : Step(q, t) = IF t < F THEN 1 + p.empty + t * K + q
                             ELSE C + (t - F) + d[q]
  BY DEF StepOf
<1>8. \A s : Pattern!Diagonal(p, F, F + (s - C))
              = {q \in Pattern!Books(p) : F + (s - C) >= d[q] + F}
  BY DEF Pattern!Diagonal
<1> HIDE DEF F, C, K, d, D, Step, size
<1>9. ASSUME NEW s \in 0 .. size - 1, s < B
      PROVE  ~ \E q \in Pattern!Books(p), t \in Nat : Step(q, t) = s
  <2>1. s \in Nat /\ p.empty \in Nat /\ ~(s > p.empty)
    BY <1>2, <1>4, <1>9
  <2> QED
    BY <1>6, <2>1
<1>10. ASSUME NEW s \in 0 .. size - 1, ~(s < B), s < C
       PROVE  \A c : c = Coordinate((s - B) \div K, (s - B) % K) <=>
                     \E q \in Pattern!Books(p), t \in Nat :
                       c = Coordinate(t, q) /\ Step(q, t) = s
  <2> DEFINE t0 == (s - B) \div K
             q0 == (s - B) % K
  <2>1. s \in Nat /\ s - B \in Nat
    BY <1>3, <1>4, <1>10
  <2>2. t0 \in Nat /\ q0 \in 0 .. K - 1 /\ s - B = K * t0 + q0
    <3> DEFINE n == s - B
    <3>1. n \in Nat /\ K \in Nat /\ K > 0
      BY <1>2, <2>1
    <3> HIDE DEF n
    <3>2. n \div K \in Nat /\ n % K \in 0 .. K - 1 /\ n = K * (n \div K) + (n % K)
      BY <3>1
    <3> QED
      BY <3>2 DEF n
  <2>3. ASSUME NEW q \in Pattern!Books(p), NEW t \in Nat, Step(q, t) = s
        PROVE  t = t0 /\ q = q0
    <3>1. t < F
      <4>1. SUFFICES ASSUME ~(t < F) PROVE FALSE
        OBVIOUS
      <4>2. Step(q, t) = C + (t - F) + d[q] /\ d[q] \in Nat
        BY <1>2, <1>7, <4>1
      <4> QED
        BY <1>3, <1>10, <2>1, <2>3, <4>1, <4>2
    <3>2. s = B + (t * K + q) /\ t * K + q \in Nat
      <4>1. s = 1 + p.empty + t * K + q
        BY <1>7, <2>3, <3>1
      <4>2. t * K \in Nat /\ q \in Nat /\ p.empty \in Nat
        BY <1>2
      <4> QED
        BY <4>1, <4>2
    <3>3. s - B = t * K + q
      BY <1>3, <3>2
    <3> QED
      BY <1>2, <3>3, DividedAgain
  <2> HIDE DEF t0, q0
  <2>4. Step(q0, t0) = s
    <3>1. t0 < F
      <4>1. SUFFICES ASSUME F <= t0 PROVE FALSE
        BY <1>3, <2>2
      <4>2. F \in Nat /\ K \in Nat
        BY <1>2, <1>3
      <4>3. K * F <= K * t0 /\ K * F = F * K /\ K * F \in Nat
        BY <2>2, <4>1, <4>2, Monotone
      <4> DEFINE m == K * t0
                 k == F * K
      <4>4. q0 \in Nat /\ s - B = m + q0 /\ k <= m /\ k \in Nat /\ m \in Nat /\ C = B + k
        BY <1>2, <1>5, <2>2, <4>3
      <4> HIDE DEF m, k
      <4> QED
        BY <1>3, <1>10, <2>1, <4>4
    <3>2. Step(q0, t0) = B + t0 * K + q0
      BY <1>7, <3>1
    <3>3. t0 * K = K * t0 /\ K * t0 \in Nat /\ q0 \in Nat
      BY <1>2, <2>2
    <3>4. s = B + (K * t0 + q0)
      BY <1>3, <2>1, <2>2
    <3> QED
      BY <1>3, <3>2, <3>3, <3>4
  <2>5. q0 \in Pattern!Books(p) /\ t0 \in Nat
    BY <1>2, <2>2
  <2> QED
    BY <2>3, <2>4, <2>5 DEF t0, q0
<1>11. ASSUME NEW s \in 0 .. size - 1, ~(s < C)
       PROVE  \A c : c \in {Coordinate((F + (s - C)) - d[q], q) :
                             q \in {b \in Pattern!Books(p) : F + (s - C) >= d[b] + F}} <=>
                     \E q \in Pattern!Books(p), t \in Nat :
                       c = Coordinate(t, q) /\ Step(q, t) = s
  <2>1. s \in Nat /\ s - C \in Nat /\ F \in Nat
    BY <1>3, <1>4, <1>11
  <2>2. ASSUME NEW q \in Pattern!Books(p), F + (s - C) >= d[q] + F
        PROVE  /\ (F + (s - C)) - d[q] \in Nat
               /\ Step(q, (F + (s - C)) - d[q]) = s
    <3>1. d[q] \in Nat
      BY <1>2
    <3>2. (F + (s - C)) - d[q] \in Nat /\ ~((F + (s - C)) - d[q] < F)
      BY <2>1, <2>2, <3>1
    <3>3. Step(q, (F + (s - C)) - d[q]) = C + (((F + (s - C)) - d[q]) - F) + d[q]
      BY <1>7, <3>2
    <3> QED
      BY <1>3, <2>1, <3>1, <3>2, <3>3
  <2>3. ASSUME NEW q \in Pattern!Books(p), NEW t \in Nat, Step(q, t) = s
        PROVE  t = (F + (s - C)) - d[q] /\ F + (s - C) >= d[q] + F
    <3>1. ~(t < F)
      BY <1>3, <1>6, <1>11, <2>1, <2>3
    <3>2. s = C + (t - F) + d[q] /\ d[q] \in Nat
      BY <1>2, <1>7, <2>3, <3>1
    <3> QED
      BY <1>3, <2>1, <3>1, <3>2
  <2> QED
    BY <2>2, <2>3
<1>12. ASSUME NEW s \in 0 .. size - 1, NEW c
       PROVE  c \in layout[s] <=> \E q \in Pattern!Books(p), t \in Nat :
                                   c = Coordinate(t, q) /\ Step(q, t) = s
  <2>1. CASE s < B
    BY <1>4, <1>9, <2>1
  <2>2. CASE ~(s < B) /\ s < C
    <3>1. layout[s] = {Coordinate((s - B) \div K, (s - B) % K)}
      BY <1>4, <2>2
    <3> HIDE DEF layout
    <3> QED
      BY <1>10, <2>2, <3>1
  <2>3. CASE ~(s < C)
    <3>1. layout[s] = {Coordinate((F + (s - C)) - d[q], q) :
                         q \in {b \in Pattern!Books(p) : F + (s - C) >= d[b] + F}}
      <4>1. ~(s < B)
        BY <1>3, <1>4, <2>3
      <4> QED
        BY <1>4, <1>8, <2>3, <4>1
    <3> HIDE DEF layout
    <3> QED
      BY <1>11, <2>3, <3>1
  <2> QED
    BY <2>1, <2>2, <2>3
<1>13. DOMAIN layout = 0 .. size - 1
  BY <1>4
<1> HIDE DEF layout
<1> QED
  BY <1>1, <1>12, <1>13 DEF Step, size

LEMMA SameCoordinate ==
  ASSUME NEW t, NEW q, NEW u, NEW b, Coordinate(t, q) = Coordinate(u, b)
  PROVE  t = u /\ q = b
<1>1. /\ Coordinate(t, q).timestep = t /\ Coordinate(t, q).codebook = q
      /\ Coordinate(u, b).timestep = u /\ Coordinate(u, b).codebook = b
  BY DEF Coordinate
<1> QED
  BY <1>1

(* A frame is at one step, and a step has one frame of a codebook.         *)
LEMMA StepsHolding ==
  ASSUME NEW p, IsDelayed(p), NEW frames \in Nat,
         NEW q \in Pattern!Books(p), NEW t \in 0 .. frames - 1
  PROVE  /\ Pattern!StepsOf(Pattern!Layout(p, frames), q, t) = {StepOf(p, frames, q, t)}
         /\ Pattern!FramesAt(Pattern!Layout(p, frames), frames, q, StepOf(p, frames, q, t)) = {t}
         /\ StepOf(p, frames, q, t) \in DOMAIN Pattern!Layout(p, frames)
<1> DEFINE layout == Pattern!Layout(p, frames)
           Step(b, u) == StepOf(p, frames, b, u)
           size == SizeOf(p, frames)
<1>1. /\ DOMAIN layout = 0 .. size - 1
      /\ \A s \in 0 .. size - 1 : \A c : c \in layout[s] <=>
           \E b \in Pattern!Books(p), u \in Nat : c = Coordinate(u, b) /\ Step(b, u) = s
  BY LayoutHolds
<1>2. t \in Nat /\ size \in Nat /\ Step(q, t) \in 0 .. size - 1
  <2>1. t \in Nat /\ t < frames
    OBVIOUS
  <2>2. Step(q, t) \in Nat /\ Step(q, t) < size
    BY <2>1, StepOrder
  <2>3. size \in Nat
    BY LayoutLengths
  <2> HIDE DEF Step, size
  <2> QED
    BY <2>1, <2>2, <2>3
<1>3. \A u \in Nat : Step(q, u) = Step(q, t) => u = t
  <2>1. SUFFICES ASSUME NEW u \in Nat, Step(q, u) = Step(q, t), u # t PROVE FALSE
    OBVIOUS
  <2>2. Step(q, u) \in Nat /\ Step(q, t) \in Nat
    BY <1>2, StepOrder
  <2>3. CASE u < t
    <3>1. Step(q, u) < Step(q, t)
      BY <1>2, <2>3, StepOrder
    <3> HIDE DEF Step
    <3> QED
      BY <2>1, <2>2, <3>1
  <2>4. CASE t < u
    <3>1. Step(q, t) < Step(q, u)
      BY <1>2, <2>4, StepOrder
    <3> HIDE DEF Step
    <3> QED
      BY <2>1, <2>2, <3>1
  <2> QED
    BY <1>2, <2>1, <2>3, <2>4
<1> HIDE DEF layout, Step, size
<1>4. \A s \in 0 .. size - 1, u \in Nat :
        Coordinate(u, q) \in layout[s] <=> Step(q, u) = s
  <2>1. ASSUME NEW s \in 0 .. size - 1, NEW u \in Nat
        PROVE  Coordinate(u, q) \in layout[s] <=> Step(q, u) = s
    <3>1. ASSUME Coordinate(u, q) \in layout[s] PROVE Step(q, u) = s
      <4>1. PICK b \in Pattern!Books(p), v \in Nat :
              Coordinate(u, q) = Coordinate(v, b) /\ Step(b, v) = s
        BY <1>1, <3>1
      <4> QED
        BY <4>1, SameCoordinate
    <3>2. ASSUME Step(q, u) = s PROVE Coordinate(u, q) \in layout[s]
      BY <1>1, <3>2
    <3> QED
      BY <3>1, <3>2
  <2> QED
    BY <2>1
<1>5. Pattern!StepsOf(layout, q, t) = {Step(q, t)}
  <2>1. Pattern!StepsOf(layout, q, t) = {s \in DOMAIN layout : Coordinate(t, q) \in layout[s]}
    BY DEF Pattern!StepsOf, Coordinate
  <2>2. \A s \in DOMAIN layout : Coordinate(t, q) \in layout[s] <=> s = Step(q, t)
    BY <1>1, <1>2, <1>4
  <2> QED
    BY <1>1, <1>2, <2>1, <2>2
<1>6. Pattern!FramesAt(layout, frames, q, Step(q, t)) = {t}
  <2> DEFINE held == layout[Step(q, t)]
  <2>1. Pattern!FramesAt(layout, frames, q, Step(q, t))
          = {c.timestep : c \in {d \in held : d.codebook = q /\ d.timestep < frames}}
    BY DEF Pattern!FramesAt
  <2>2. Coordinate(t, q) \in held
    BY <1>2, <1>4
  <2>3. \A c \in held : c.codebook = q => c = Coordinate(t, q)
    <3>1. SUFFICES ASSUME NEW c \in held, c.codebook = q PROVE c = Coordinate(t, q)
      OBVIOUS
    <3>2. PICK b \in Pattern!Books(p), v \in Nat : c = Coordinate(v, b) /\ Step(b, v) = Step(q, t)
      BY <1>1, <1>2, <3>1
    <3>3. b = q
      BY <3>1, <3>2 DEF Coordinate
    <3> QED
      BY <1>3, <3>2, <3>3
  <2>4. Coordinate(t, q).codebook = q /\ Coordinate(t, q).timestep = t /\ t < frames
    BY DEF Coordinate
  <2> HIDE DEF held
  <2>5. {d \in held : d.codebook = q /\ d.timestep < frames} = {Coordinate(t, q)}
    BY <2>2, <2>3, <2>4
  <2> QED
    BY <2>1, <2>4, <2>5
<1> QED
  BY <1>1, <1>2, <1>5, <1>6 DEF layout, Step

LEMMA LayoutsAreValid ==
  ASSUME NEW p, IsDelayed(p), NEW frames \in Nat
  PROVE  Pattern!IsPattern(Pattern!Layout(p, frames), p.depth)
<1> DEFINE layout == Pattern!Layout(p, frames)
           Step(b, u) == StepOf(p, frames, b, u)
           size == SizeOf(p, frames)
<1>1. /\ DOMAIN layout = 0 .. size - 1
      /\ \A s \in 0 .. size - 1 : \A c : c \in layout[s] <=>
           \E b \in Pattern!Books(p), u \in Nat : c = Coordinate(u, b) /\ Step(b, u) = s
  BY LayoutHolds
<1>2. size \in Nat /\ size > 0 /\ p.empty \in Nat
  <2>1. /\ size \in Nat /\ size >= SlantOf(p, frames) /\ SlantOf(p, frames) \in Nat
        /\ SlantOf(p, frames) >= 1 + p.empty
    BY LayoutLengths
  <2>2. p.empty \in Nat
    BY DEF IsDelayed
  <2> HIDE DEF size
  <2> QED
    BY <2>1, <2>2
<1>3. \A q \in Pattern!Books(p), t \in Nat :
        /\ Step(q, t) \in Nat /\ Step(q, t) > p.empty
        /\ \A u \in Nat : t < u => Step(q, t) < Step(q, u)
  BY StepOrder
<1>4. Pattern!Books(p) = 0 .. p.depth - 1
  BY DEF Pattern!Books
<1> HIDE DEF layout, Step, size
<1>5. 0 \in DOMAIN layout /\ layout[0] = {}
  <2>1. 0 \in 0 .. size - 1
    BY <1>2
  <2>2. \A q \in Pattern!Books(p), u \in Nat : Step(q, u) # 0
    BY <1>2, <1>3
  <2> QED
    BY <1>1, <2>1, <2>2
<1>6. ASSUME NEW s \in DOMAIN layout, NEW c \in layout[s]
      PROVE  /\ c.codebook \in 0 .. p.depth - 1
             /\ \A d \in layout[s] : c.codebook = d.codebook => c = d
             /\ \A r \in 0 .. s : \A d \in layout[r] :
                  c.codebook = d.codebook => d.timestep <= c.timestep
  <2>1. PICK q \in Pattern!Books(p), t \in Nat : c = Coordinate(t, q) /\ Step(q, t) = s
    BY <1>1, <1>6
  <2>2. c.codebook = q /\ c.timestep = t
    BY <2>1 DEF Coordinate
  <2>3. ASSUME NEW r \in 0 .. s, NEW d \in layout[r], c.codebook = d.codebook
        PROVE  d.timestep <= c.timestep /\ (r = s => c = d)
    <3>1. r \in 0 .. size - 1 /\ r \in Nat /\ s \in Nat /\ r <= s
      BY <1>1, <1>2, <1>6, <2>3
    <3>2. PICK b \in Pattern!Books(p), u \in Nat : d = Coordinate(u, b) /\ Step(b, u) = r
      BY <1>1, <2>3, <3>1
    <3>3. d.codebook = b /\ d.timestep = u
      BY <3>2 DEF Coordinate
    <3>4. b = q
      BY <2>2, <2>3, <3>3
    <3>5. ~(t < u)
      BY <1>3, <2>1, <3>1, <3>2, <3>4
    <3>6. r = s => ~(u < t)
      BY <1>3, <2>1, <3>1, <3>2, <3>4
    <3>7. r = s => u = t
      BY <3>5, <3>6
    <3> QED
      BY <2>1, <2>2, <3>2, <3>3, <3>4, <3>5, <3>7
  <2>4. s \in 0 .. s
    BY <1>1, <1>2, <1>6
  <2> QED
    BY <1>4, <2>2, <2>3, <2>4
<1> QED
  BY <1>5, <1>6 DEF Pattern!IsPattern, layout

PatternInv ==
  subject = "pattern" =>
    IsDelayed(provider) /\ timesteps \in Nat /\ received \in Nat

LEMMA PatternInductive == LayoutsSpec => []PatternInv
<1>1. LayoutsInit => PatternInv
  <2>1. SUFFICES ASSUME LayoutsInit, subject = "pattern" PROVE PatternInv
    BY DEF PatternInv
  <2>2. provider \in Pattern!Providers /\ timesteps \in 0 .. MaxTimesteps /\ received = 0
    BY <2>1 DEF LayoutsInit, Pattern!Init
  <2>3. /\ Pattern!IsProvider(provider)
        /\ \E k \in 1 .. MaxDepth :
             provider \in [depth : {k}, delays : [0 .. k - 1 -> 0 .. MaxDelaySteps],
                           flatten : 0 .. MaxFlatten, empty : 0 .. MaxEmpty]
    BY <2>2 DEF Pattern!Providers
  <2>4. provider.depth \in Nat \ {0} /\ provider.flatten \in Nat /\ provider.empty \in Nat
    BY <2>3, LayoutsAssumption
  <2>5. IsDelayed(provider)
    BY <2>3, <2>4 DEF IsDelayed, Pattern!IsProvider
  <2> QED
    BY <2>2, <2>5, LayoutsAssumption DEF PatternInv
<1>2. PatternInv /\ [LayoutsNext]_allVars => PatternInv'
  <2>1. SUFFICES ASSUME PatternInv, [LayoutsNext]_allVars PROVE PatternInv'
    OBVIOUS
  <2>2. CASE UNCHANGED patternVars /\ UNCHANGED subject
    BY <2>1, <2>2 DEF PatternInv, patternVars, IsDelayed
  <2>3. CASE subject = "pattern" /\ Pattern!Receive /\ UNCHANGED subject
    BY <2>1, <2>3 DEF PatternInv, IsDelayed, Pattern!Receive
  <2> QED
    BY <2>1, <2>2, <2>3 DEF LayoutsNext, allVars, Pattern!Next
<1> QED
  BY <1>1, <1>2, PTL DEF LayoutsSpec, allVars

LEMMA StepsCounted ==
  ASSUME NEW p, IsDelayed(p), NEW frames \in Nat
  PROVE  Pattern!StepCount(Pattern!Layout(p, frames)) = SizeOf(p, frames)
<1>1. DOMAIN Pattern!Layout(p, frames) = 0 .. SizeOf(p, frames) - 1
  BY LayoutHolds
<1>2. SizeOf(p, frames) \in Nat
  BY LayoutLengths
<1> DEFINE n == SizeOf(p, frames)
<1>3. Cardinality(0 .. n - 1) = n
  <2>1. n \in Nat
    BY <1>2
  <2> HIDE DEF n
  <2>2. 0 \in Int /\ n - 1 \in Int
    BY <2>1
  <2>3. Cardinality(0 .. n - 1) = IF 0 > n - 1 THEN 0 ELSE (n - 1) - 0 + 1
    BY <2>2, FS_Interval
  <2> QED
    BY <2>1, <2>3
<1> QED
  BY <1>1, <1>3 DEF Pattern!StepCount, Pattern!Cardinality, Cardinality

(* Reverting what has arrived of the built sequence: a frame whose step is *)
(* in it comes back as it was put in, and any other one is special.        *)
LEMMA RunReverts ==
  ASSUME PatternInv, subject = "pattern",
         NEW q \in Pattern!Books(provider), NEW t \in 0 .. timesteps - 1,
         NEW s, s = StepOf(provider, timesteps, q, t)
  PROVE  /\ Pattern!StepsOf(Pattern!TheLayout, q, t) = {s} /\ s \in Nat
         /\ s < received => /\ Pattern!SoFar.values[q][t] = Pattern!Frame(q, t)
                            /\ Pattern!SoFar.mask[q][t] = 1
                            /\ Pattern!SoFar.indexes[q][t] = s + q * received
         /\ ~(s < received) => /\ Pattern!SoFar.values[q][t] = Pattern!Special
                               /\ Pattern!SoFar.mask[q][t] = 0
         /\ Pattern!Built.indexes[q][s] = t + q * timesteps
<1> DEFINE layout == Pattern!TheLayout
           held(b, r) == Pattern!FramesAt(layout, timesteps, b, r)
           seen == Pattern!Received(layout, q, t, received)
<1>1. IsDelayed(provider) /\ timesteps \in Nat /\ received \in Nat
  BY DEF PatternInv
<1>2. /\ Pattern!StepsOf(layout, q, t) = {s} /\ held(q, s) = {t} /\ s \in DOMAIN layout
      /\ s \in Nat
  <2>1. /\ Pattern!StepsOf(layout, q, t) = {s} /\ held(q, s) = {t} /\ s \in DOMAIN layout
    BY <1>1, StepsHolding DEF Pattern!TheLayout
  <2>2. t \in Nat
    BY <1>1
  <2> QED
    BY <1>1, <2>1, <2>2, StepOrder
<1>3. q \in 0 .. provider.depth - 1
  BY DEF Pattern!Books
<1>4. (CHOOSE u \in {t} : TRUE) = t /\ {t} # {}
  OBVIOUS
<1>5. Pattern!Tensor[q][t] = Pattern!Frame(q, t)
  BY DEF Pattern!Tensor
<1>6. /\ Pattern!Built.values[q][s] = Pattern!Tensor[q][t]
      /\ Pattern!Built.indexes[q][s] = t + q * timesteps
  <2>1. Pattern!Built.values = [b \in 0 .. provider.depth - 1 |-> [r \in DOMAIN layout |->
          IF held(b, r) = {} THEN Pattern!Special
          ELSE Pattern!Tensor[b][CHOOSE u \in held(b, r) : TRUE]]]
    BY DEF Pattern!Built, Pattern!Build, Pattern!Depth
  <2>2. Pattern!Built.indexes = [b \in 0 .. provider.depth - 1 |-> [r \in DOMAIN layout |->
          IF held(b, r) = {} THEN provider.depth * timesteps
          ELSE (CHOOSE u \in held(b, r) : TRUE) + b * timesteps]]
    BY DEF Pattern!Built, Pattern!Build, Pattern!Depth
  <2> HIDE DEF held
  <2>3. Pattern!Built.values[q][s] = IF held(q, s) = {} THEN Pattern!Special
                                     ELSE Pattern!Tensor[q][CHOOSE u \in held(q, s) : TRUE]
    <3>1. Pattern!Built.values[q] = [r \in DOMAIN layout |->
            IF held(q, r) = {} THEN Pattern!Special
            ELSE Pattern!Tensor[q][CHOOSE u \in held(q, r) : TRUE]]
      BY <1>3, <2>1
    <3> QED
      BY <1>2, <3>1
  <2>4. Pattern!Built.indexes[q][s] = IF held(q, s) = {} THEN provider.depth * timesteps
                                      ELSE (CHOOSE u \in held(q, s) : TRUE) + q * timesteps
    <3>1. Pattern!Built.indexes[q] = [r \in DOMAIN layout |->
            IF held(q, r) = {} THEN provider.depth * timesteps
            ELSE (CHOOSE u \in held(q, r) : TRUE) + q * timesteps]
      BY <1>3, <2>2
    <3> QED
      BY <1>2, <3>1
  <2> QED
    BY <1>2, <1>4, <2>3, <2>4
<1>7. seen = IF s < received THEN {s} ELSE {}
  BY <1>2 DEF Pattern!Received
<1>8. Pattern!Max({s}) = s
  BY <1>2 DEF Pattern!Max
<1>9. /\ Pattern!SoFar.values[q][t] = IF seen = {} THEN Pattern!Special
                                      ELSE Pattern!Built.values[q][Pattern!Max(seen)]
      /\ Pattern!SoFar.mask[q][t] = IF seen = {} THEN 0 ELSE 1
      /\ Pattern!SoFar.indexes[q][t] = IF seen = {} THEN provider.depth * received
                                       ELSE Pattern!Max(seen) + q * received
  BY <1>3 DEF Pattern!SoFar, Pattern!Revert, Pattern!Depth
<1> HIDE DEF seen, held
<1> QED
  BY <1>2, <1>5, <1>6, <1>7, <1>8, <1>9

LEMMA RevertsKept == PatternInv /\ subject = "pattern" => Pattern!PrefixReverts
<1>1. SUFFICES ASSUME PatternInv, subject = "pattern" PROVE Pattern!PrefixReverts
  OBVIOUS
<1>2. IsDelayed(provider) /\ timesteps \in Nat /\ received \in Nat
  BY <1>1 DEF PatternInv
<1>3. ASSUME NEW q \in Pattern!Books(provider), NEW t \in 0 .. timesteps - 1
      PROVE  LET s == Pattern!SoFar.indexes[q][t] - q * received
             IN IF \E r \in Pattern!StepsOf(Pattern!TheLayout, q, t) : r < received
                THEN /\ Pattern!SoFar.values[q][t] = Pattern!Frame(q, t)
                     /\ Pattern!Built.indexes[q][s] = t + q * timesteps
                ELSE Pattern!SoFar.values[q][t] = Pattern!Special
  <2> DEFINE s == StepOf(provider, timesteps, q, t)
  <2>1. /\ Pattern!StepsOf(Pattern!TheLayout, q, t) = {s} /\ s \in Nat
        /\ s < received => /\ Pattern!SoFar.values[q][t] = Pattern!Frame(q, t)
                           /\ Pattern!SoFar.indexes[q][t] = s + q * received
        /\ ~(s < received) => Pattern!SoFar.values[q][t] = Pattern!Special
        /\ Pattern!Built.indexes[q][s] = t + q * timesteps
    BY <1>1, RunReverts
  <2> HIDE DEF s
  <2>2. (s + q * received) - q * received = s
    <3>1. q \in Nat
      BY <1>2, <1>3 DEF Pattern!Books, IsDelayed
    <3>2. q * received \in Nat
      BY <1>2, <3>1
    <3> QED
      BY <2>1, <3>2
  <2>3. CASE s < received
    BY <2>1, <2>2, <2>3
  <2>4. CASE ~(s < received)
    BY <2>1, <2>4
  <2> QED
    BY <2>3, <2>4
<1>4. ASSUME received = Pattern!StepCount(Pattern!TheLayout)
      PROVE  Pattern!SoFar.values = Pattern!Tensor
  <2>1. received = SizeOf(provider, timesteps)
    BY <1>2, <1>4, StepsCounted DEF Pattern!TheLayout
  <2>2. ASSUME NEW q \in Pattern!Books(provider), NEW t \in 0 .. timesteps - 1
        PROVE  Pattern!SoFar.values[q][t] = Pattern!Frame(q, t)
    <3>1. t \in Nat /\ t < timesteps
      BY <1>2, <2>2
    <3>2. StepOf(provider, timesteps, q, t) < received
      BY <1>2, <2>1, <3>1, StepOrder
    <3> QED
      BY <1>1, <3>2, RunReverts
  <2> DEFINE seen(q, t) == Pattern!Received(Pattern!TheLayout, q, t, received)
             value(q, t) == IF seen(q, t) = {} THEN Pattern!Special
                            ELSE Pattern!Built.values[q][Pattern!Max(seen(q, t))]
  <2>3. Pattern!SoFar.values = [q \in 0 .. provider.depth - 1 |->
                                 [t \in 0 .. timesteps - 1 |-> value(q, t)]]
    BY DEF Pattern!SoFar, Pattern!Revert, Pattern!Depth
  <2>4. Pattern!Tensor = [q \in 0 .. provider.depth - 1 |->
                            [t \in 0 .. timesteps - 1 |-> Pattern!Frame(q, t)]]
    BY DEF Pattern!Tensor, Pattern!Books
  <2>5. ASSUME NEW q \in 0 .. provider.depth - 1, NEW t \in 0 .. timesteps - 1
        PROVE  value(q, t) = Pattern!Frame(q, t)
    <3>1. Pattern!SoFar.values[q][t] = value(q, t)
      BY <2>3, <2>5
    <3> HIDE DEF value
    <3> QED
      BY <2>2, <2>5, <3>1 DEF Pattern!Books
  <2> HIDE DEF value
  <2> QED
    BY <2>3, <2>4, <2>5
<1> QED
  BY <1>3, <1>4 DEF Pattern!PrefixReverts, Pattern!Frames

LEMMA BooksKept == PatternInv /\ subject = "pattern" => Pattern!EarlierBooksLead
<1>1. SUFFICES ASSUME PatternInv, subject = "pattern",
                      NEW q \in 1 .. Pattern!Depth - 1, NEW t \in 0 .. timesteps - 1,
                      Pattern!SoFar.mask[q][t] = 1
      PROVE  Pattern!SoFar.mask[q - 1][t] = 1
  BY DEF Pattern!EarlierBooksLead, Pattern!Has
<1>2. IsDelayed(provider) /\ timesteps \in Nat /\ received \in Nat /\ t \in Nat
  BY <1>1 DEF PatternInv
<1>3. q \in Pattern!Books(provider) /\ q - 1 \in Pattern!Books(provider) /\ q # 0
  BY <1>1, <1>2 DEF IsDelayed, Pattern!Books, Pattern!Depth
<1> DEFINE s == StepOf(provider, timesteps, q, t)
           r == StepOf(provider, timesteps, q - 1, t)
<1>4. r <= s /\ r \in Nat /\ s \in Nat
  BY <1>2, <1>3, StepOrder
<1>5. s < received
  <2>1. ~(s < received) => Pattern!SoFar.mask[q][t] = 0
    BY <1>1, <1>3, RunReverts
  <2> QED
    BY <1>1, <2>1
<1>6. r < received => Pattern!SoFar.mask[q - 1][t] = 1
  BY <1>1, <1>3, RunReverts
<1> HIDE DEF r, s
<1> QED
  BY <1>2, <1>4, <1>5, <1>6

LEMMA LargestIs ==
  ASSUME NEW ends, NEW m \in Nat, m \in ends, \A e \in ends : e \in Nat /\ e <= m
  PROVE  Pattern!Max(ends) = m
<1> DEFINE Largest(x) == \A y \in ends : x >= y
<1>1. Largest(m)
  OBVIOUS
<1>2. \A x \in ends : Largest(x) => x = m
  OBVIOUS
<1>3. Pattern!Max(ends) = CHOOSE x \in ends : Largest(x)
  BY DEF Pattern!Max
<1> HIDE DEF Largest
<1> QED
  BY <1>1, <1>2, <1>3

MaxDelayOf(ends, frames) ==
  IF ends = {} \/ Pattern!Max(ends \cup {0}) < frames THEN 0
  ELSE Pattern!Max(ends) - frames

(* How far a layout runs past its frames: by what the first codebook is    *)
(* ahead of the last.                                                      *)
LEMMA RunsPast ==
  ASSUME NEW p, IsDelayed(p), NEW frames \in Nat
  PROVE  Pattern!MaxDelay(Pattern!Layout(p, frames), frames)
           = Pattern!LastDelay(p) - p.delays[0]
<1> DEFINE layout == Pattern!Layout(p, frames)
           Step(b, u) == StepOf(p, frames, b, u)
           size == SizeOf(p, frames)
           F == FirstOf(p, frames)
           C == SlantOf(p, frames)
           D == Pattern!LastDelay(p)
           d0 == p.delays[0]
           ahead == D - d0
           ends == {c.timestep + 1 : c \in UNION {layout[s] : s \in DOMAIN layout}}
<1>1. /\ DOMAIN layout = 0 .. size - 1
      /\ \A s \in 0 .. size - 1 : \A c : c \in layout[s] <=>
           \E b \in Pattern!Books(p), u \in Nat : c = Coordinate(u, b) /\ Step(b, u) = s
  BY LayoutHolds
<1>2. /\ size \in Nat /\ F \in 0 .. frames /\ C \in Nat /\ D \in Nat /\ d0 \in Nat
      /\ 0 \in Pattern!Books(p)
  BY LayoutLengths
<1>3. size = C + (frames - F) + D
  BY DEF SizeOf
<1>4. \A b \in Pattern!Books(p) : p.delays[b] \in Nat /\ d0 <= p.delays[b] /\ p.delays[b] <= D
  BY DelaysAreSorted DEF IsDelayed, Pattern!Books
<1>5. \A b \in Pattern!Books(p), u \in Nat :
        Step(b, u) \in Nat /\ (u < frames => Step(b, u) < size)
  BY StepOrder
<1>6. \A b, u : ~(u < F) => Step(b, u) = C + (u - F) + p.delays[b]
  BY DEF StepOf
<1>7. MaxDelayOf(ends, frames) = Pattern!MaxDelay(layout, frames)
  BY DEF Pattern!MaxDelay, MaxDelayOf
<1> HIDE DEF layout, Step, size, F, C, D, d0
<1>8. \A e : e \in ends <=> \E b \in Pattern!Books(p), u \in Nat : e = u + 1 /\ Step(b, u) < size
  <2>1. ASSUME NEW e \in ends
        PROVE  \E b \in Pattern!Books(p), u \in Nat : e = u + 1 /\ Step(b, u) < size
    <3>1. PICK s \in DOMAIN layout : \E c \in layout[s] : e = c.timestep + 1
      OBVIOUS
    <3>2. PICK c \in layout[s] : e = c.timestep + 1
      BY <3>1
    <3>3. PICK b \in Pattern!Books(p), u \in Nat : c = Coordinate(u, b) /\ Step(b, u) = s
      BY <1>1, <3>1, <3>2
    <3>4. c.timestep = u
      BY <3>3 DEF Coordinate
    <3>5. s < size
      BY <1>1, <1>2, <3>1
    <3> QED
      BY <3>2, <3>3, <3>4, <3>5
  <2>2. ASSUME NEW b \in Pattern!Books(p), NEW u \in Nat, Step(b, u) < size
        PROVE  u + 1 \in ends
    <3>1. Step(b, u) \in 0 .. size - 1
      <4>1. Step(b, u) \in Nat
        BY <1>5, <2>2
      <4> QED
        BY <1>2, <2>2, <4>1
    <3>2. Coordinate(u, b) \in layout[Step(b, u)] /\ Step(b, u) \in DOMAIN layout
      BY <1>1, <2>2, <3>1
    <3>3. Coordinate(u, b).timestep = u
      BY DEF Coordinate
    <3> QED
      BY <3>2, <3>3
  <2> HIDE DEF ends
  <2> QED
    BY <2>1, <2>2
<1> HIDE DEF ends
<1>9. ahead \in Nat
  BY <1>2, <1>4
<1>10. \A e \in ends : e \in Nat /\ e <= frames + ahead
  <2>1. SUFFICES ASSUME NEW b \in Pattern!Books(p), NEW u \in Nat, Step(b, u) < size
        PROVE  u + 1 <= frames + ahead
    BY <1>8
  <2>2. CASE u < F
    BY <1>2, <1>9, <2>1, <2>2
  <2>3. CASE ~(u < F)
    <3>1. C + (u - F) + p.delays[b] < C + (frames - F) + D
      BY <1>3, <1>6, <2>1, <2>3
    <3>2. p.delays[b] \in Nat /\ d0 <= p.delays[b] /\ F \in Nat
      BY <1>2, <1>4, <2>1
    <3> QED
      BY <1>2, <2>1, <3>1, <3>2
  <2> QED
    BY <2>2, <2>3
<1>11. CASE ends = {}
  <2>1. ahead = 0
    <3>1. SUFFICES ASSUME ahead > 0 PROVE FALSE
      BY <1>9
    <3>2. ~(frames < F) /\ Step(0, frames) = C + (frames - F) + d0
      BY <1>2, <1>6 DEF d0
    <3>3. Step(0, frames) < size
      BY <1>2, <1>3, <3>1, <3>2
    <3> QED
      BY <1>2, <1>8, <1>11, <3>3
  <2> QED
    BY <1>7, <1>11, <2>1 DEF MaxDelayOf, layout, D, d0
<1>12. CASE ends # {}
  <2>1. frames + ahead \in ends
    <3>1. CASE ahead > 0 \/ frames > F
      <4> DEFINE last == frames + ahead - 1
      <4>1. last \in Nat /\ ~(last < F) /\ last + 1 = frames + ahead
        BY <1>2, <1>9, <3>1
      <4>2. Step(0, last) = C + (last - F) + d0
        BY <1>6, <4>1 DEF d0
      <4>3. Step(0, last) < size
        BY <1>2, <1>3, <4>1, <4>2
      <4> HIDE DEF last
      <4> QED
        BY <1>2, <1>8, <4>1, <4>3
    <3>2. CASE ahead = 0 /\ frames = F
      <4>1. PICK e \in ends : TRUE
        BY <1>12
      <4>2. e \in Nat /\ e <= frames /\ e # 0
        BY <1>2, <1>8, <1>10, <3>2, <4>1
      <4>3. frames - 1 \in Nat /\ frames - 1 < frames /\ (frames - 1) + 1 = frames
        BY <4>2
      <4>4. Step(0, frames - 1) < size
        BY <1>2, <1>5, <4>3, Zenon
      <4> QED
        BY <1>2, <1>8, <3>2, <4>3, <4>4
    <3> QED
      BY <1>2, <1>9, <3>1, <3>2
  <2>2. Pattern!Max(ends) = frames + ahead
    BY <1>9, <1>10, <2>1, LargestIs
  <2>3. Pattern!Max(ends \cup {0}) = frames + ahead
    <3>1. frames + ahead \in ends \cup {0}
      BY <2>1
    <3>2. \A e \in ends \cup {0} : e \in Nat /\ e <= frames + ahead
      BY <1>9, <1>10
    <3> QED
      BY <1>9, <3>1, <3>2, LargestIs
  <2>4. ~(frames + ahead < frames) /\ (frames + ahead) - frames = ahead
    BY <1>9
  <2> QED
    BY <1>7, <1>12, <2>2, <2>3, <2>4 DEF MaxDelayOf, layout, D, d0
<1> QED
  BY <1>11, <1>12

LEMMA LongestIsKept ==
  PatternInv /\ subject = "pattern" => Pattern!ValidLayoutIsLongestInside
<1> DEFINE layout == Pattern!TheLayout
           p == provider
           frames == timesteps
           Step(b, u) == StepOf(p, frames, b, u)
           size == SizeOf(p, frames)
           F == FirstOf(p, frames)
           C == SlantOf(p, frames)
           D == Pattern!LastDelay(p)
           d0 == p.delays[0]
           end == C + (frames - F) + d0
           kept == DOMAIN Pattern!ValidLayout(layout, frames)
           Inside(r) == \A c \in layout[r] : c.timestep < frames
<1>1. SUFFICES ASSUME PatternInv, subject = "pattern", NEW s \in DOMAIN layout
      PROVE  s \in kept <=> \A r \in 0 .. s : Inside(r)
  BY DEF Pattern!ValidLayoutIsLongestInside
<1>2. IsDelayed(p) /\ frames \in Nat
  BY <1>1 DEF PatternInv
<1>3. /\ DOMAIN layout = 0 .. size - 1
      /\ \A r \in 0 .. size - 1 : \A c : c \in layout[r] <=>
           \E b \in Pattern!Books(p), u \in Nat : c = Coordinate(u, b) /\ Step(b, u) = r
  BY <1>2, LayoutHolds DEF Pattern!TheLayout
<1>4. /\ size \in Nat /\ F \in 0 .. frames /\ C \in Nat /\ D \in Nat /\ d0 \in Nat
      /\ 0 \in Pattern!Books(p)
  BY <1>2, LayoutLengths
<1>5. size = C + (frames - F) + D
  BY DEF SizeOf
<1>6. \A b \in Pattern!Books(p) : p.delays[b] \in Nat /\ d0 <= p.delays[b]
  BY <1>2, DelaysAreSorted DEF IsDelayed, Pattern!Books
<1>7. \A b, u : ~(u < F) => Step(b, u) = C + (u - F) + p.delays[b]
  BY DEF StepOf
<1>8. kept = {r \in 0 .. size - 1 : r < end}
  <2>1. Pattern!StepCount(layout) = size /\ Pattern!MaxDelay(layout, frames) = D - d0
    BY <1>2, StepsCounted, RunsPast DEF Pattern!TheLayout
  <2>2. size - (D - d0) = end
    <3> HIDE DEF F, C, D, d0, size
    <3> QED
      BY <1>2, <1>4, <1>5
  <2>3. kept = {r \in DOMAIN layout :
                  r < Pattern!StepCount(layout) - Pattern!MaxDelay(layout, frames)}
    BY DEF Pattern!ValidLayout
  <2> HIDE DEF layout, size, D, d0, end, kept
  <2> QED
    BY <1>3, <2>1, <2>2, <2>3
<1> HIDE DEF layout, Step, size, F, C, D, kept
<1>9. ASSUME s < end, NEW r \in 0 .. s, NEW c \in layout[r] PROVE c.timestep < frames
  <2>1. r \in 0 .. size - 1 /\ r \in Nat /\ r < end
    BY <1>1, <1>2, <1>3, <1>4, <1>9
  <2>2. PICK b \in Pattern!Books(p), u \in Nat : c = Coordinate(u, b) /\ Step(b, u) = r
    BY <1>3, <1>9, <2>1
  <2>3. c.timestep = u
    BY <2>2 DEF Coordinate
  <2>4. ~(u < F) => C + (u - F) + p.delays[b] < C + (frames - F) + d0
    BY <1>7, <2>1, <2>2
  <2>5. p.delays[b] \in Nat /\ d0 <= p.delays[b]
    BY <1>6, <2>2
  <2>6. u < frames
    <3>1. CASE u < F
      BY <1>2, <1>4, <2>2, <3>1
    <3>2. CASE ~(u < F)
      BY <1>2, <1>4, <2>2, <2>4, <2>5, <3>2
    <3> QED
      BY <3>1, <3>2
  <2> QED
    BY <2>3, <2>6
<1>10. ASSUME ~(s < end) PROVE ~ \A r \in 0 .. s : Inside(r)
  <2>1. s \in 0 .. size - 1 /\ end \in Nat /\ end \in 0 .. s /\ end \in 0 .. size - 1
    BY <1>1, <1>2, <1>3, <1>4, <1>10
  <2>2. ~(frames < F)
    BY <1>2, <1>4
  <2>3. Step(0, frames) = end
    BY <1>7, <2>2
  <2> HIDE DEF end
  <2>4. Coordinate(frames, 0) \in layout[end]
    BY <1>2, <1>3, <1>4, <2>1, <2>3
  <2>5. Coordinate(frames, 0).timestep = frames /\ ~(frames < frames)
    BY <1>2 DEF Coordinate
  <2> QED
    BY <2>1, <2>4, <2>5
<1> HIDE DEF end
<1>11. s \in kept <=> s < end
  BY <1>1, <1>3, <1>8
<1> QED
  BY <1>9, <1>10, <1>11

(* Whatever the depth, the delays, the flattening and the padding of a     *)
(* provider, and after any step of a sequence of any length: the layout is *)
(* a valid pattern, what has arrived reverts into exactly its frames, the  *)
(* earlier codebooks lead, and the valid layout is the longest inside      *)
(* (levo-pattern.cpp).                                                     *)
THEOREM PatternsAlwaysInvert == LayoutsSpec => []PatternInverts
<1>1. PatternInv => PatternInverts
  <2>1. SUFFICES ASSUME PatternInv, subject = "pattern"
        PROVE  /\ Pattern!LayoutIsPattern /\ Pattern!PrefixReverts
               /\ Pattern!EarlierBooksLead /\ Pattern!ValidLayoutIsLongestInside
    BY DEF PatternInverts
  <2>2. Pattern!LayoutIsPattern
    BY <2>1, LayoutsAreValid DEF PatternInv, Pattern!LayoutIsPattern, Pattern!TheLayout,
                                 Pattern!Depth
  <2> QED
    BY <2>1, <2>2, RevertsKept, BooksKept, LongestIsKept
<1> QED
  BY <1>1, PatternInductive, PTL

-----------------------------------------------------------------------------
(* A sequence of n rows.                                                   *)
RowsOf(n) == [1 .. n -> Lm!Row]

(* The rows of a batch of n that a failing graph may have written.         *)
PartsOf(n) == SUBSET (1 .. n)

(* The rows a running graph extends the cache to.                          *)
Extended == Lm!Joined(Cached, graph.batch)

(* Consecutive positions, and conditioning before anything else.           *)
Ordered(rows) ==
  /\ \A i \in 2 .. Len(rows) : rows[i].position = rows[i - 1].position + 1
  /\ \A i \in 1 .. Len(rows) : rows[i].input \in Conditions =>
       \A j \in 1 .. i : rows[j].input = rows[i].input /\ rows[j].position = j - 1

SessionInv ==
  /\ cells \in [Layers -> [1 .. Capacity -> Hiddens]]
  /\ cacheTokens \in 0 .. Capacity /\ nextPosition \in 0 .. Capacity
  /\ faults \in 0 .. MaxFaults /\ resets \in 0 .. MaxResets
  /\ graph.running \in BOOLEAN
  /\ graph = [running |-> graph.running, past |-> graph.past, batch |-> graph.batch,
              layer |-> graph.layer, hidden |-> graph.hidden, mixed |-> graph.mixed,
              count |-> graph.count]

(* The rows that count are rows, in order.                                 *)
RowsInv ==
  /\ Cached \in RowsOf(cacheTokens) /\ Ordered(Cached)
  /\ nextPosition = IF cacheTokens = 0 THEN 0 ELSE Cached[cacheTokens].position + 1

(* Every layer holds the K and V of the rows that count.                   *)
CellsInv ==
  \A g \in Layers : \A i \in 1 .. cacheTokens : cells[g][i] = Lm!Hidden(g - 1, Cached, i)

(* A running graph appends behind them; the layers it has run hold its     *)
(* rows too, and its hidden values are those of the uncached model.        *)
GraphOf(n) ==
  /\ graph.batch \in RowsOf(n) /\ graph.count \in 0 .. n
  /\ graph.past = cacheTokens /\ cacheTokens + n <= Capacity
  /\ Ordered(Extended)
  /\ graph.layer \in 0 .. Lm!LayerCount
  /\ \A g \in 1 .. graph.layer : \A i \in 1 .. cacheTokens + n :
       cells[g][i] = Lm!Hidden(g - 1, Extended, i)
  /\ \A j \in 1 .. n :
       graph.hidden[j] = Lm!Hidden(graph.layer, Extended, cacheTokens + j)
  /\ graph.layer >= MainLayers =>
       \A j \in 1 .. n : graph.mixed[j] = Lm!Hidden(MainLayers, Extended, cacheTokens + j)
GraphInv == graph.running => \E n \in 1 .. Capacity : GraphOf(n)

IInv == SessionInv /\ RowsInv /\ CellsInv /\ GraphInv

(* Of the rows past + 1 to past + n, those of `done` now hold `hidden`.     *)
Overwrites(w, cell, past, n, hidden, done) ==
  /\ w = [i \in 1 .. Capacity |-> w[i]]
  /\ \A i \in 1 .. Capacity : i \notin past + 1 .. past + n => w[i] = cell[i]
  /\ \A j \in done : w[past + j] = hidden[j]
  /\ \A j \in (1 .. n) \ done : w[past + j] = cell[past + j]

-----------------------------------------------------------------------------
(* There is a layer, and the first one sees the rows themselves.           *)
LEMMA LayerFacts ==
  /\ Lm!LayerCount \in Nat /\ Lm!LayerCount >= 1 /\ MainLayers \in 1 .. Lm!LayerCount
  /\ 1 \in Layers /\ Layers = 1 .. Lm!LayerCount
  /\ \A rows, i : Lm!Hidden(0, rows, i) = <<rows[i]>>
  /\ \A l \in Nat \ {0} : \A rows, i : Lm!Hidden(l, rows, i) = Lm!Prefix(rows, i)
<1>1. /\ Lm!LayerCount \in Nat /\ Lm!LayerCount >= 1 /\ MainLayers \in 1 .. Lm!LayerCount
      /\ 1 \in Layers /\ Layers = 1 .. Lm!LayerCount
  BY KvAssumption DEF Lm!LayerCount, Layers
<1>2. /\ \A rows, i : Lm!Hidden(0, rows, i) = <<rows[i]>>
      /\ \A l \in Nat \ {0} : \A rows, i : Lm!Hidden(l, rows, i) = Lm!Prefix(rows, i)
  BY DEF Lm!Hidden
<1> QED
  BY <1>1, <1>2

(* A finite function from 1 is a sequence of that length.                  *)
LEMMA RowsFacts ==
  ASSUME NEW S, NEW n \in Nat, NEW rows \in [1 .. n -> S]
  PROVE  rows \in Seq(S) /\ Len(rows) = n
OBVIOUS

(* Rows and a batch behind them: what the rows computed stays.             *)
LEMMA JoinedFacts ==
  ASSUME NEW m \in Nat, NEW n \in Nat, NEW rows \in RowsOf(m), NEW batch \in RowsOf(n)
  PROVE  /\ Lm!Joined(rows, batch) \in RowsOf(m + n)
         /\ Len(Lm!Joined(rows, batch)) = m + n
         /\ \A i \in 1 .. m : Lm!Joined(rows, batch)[i] = rows[i]
         /\ \A j \in 1 .. n : Lm!Joined(rows, batch)[m + j] = batch[j]
         /\ \A l \in Nat : \A i \in 1 .. m :
              Lm!Hidden(l, Lm!Joined(rows, batch), i) = Lm!Hidden(l, rows, i)
<1> DEFINE joined == Lm!Joined(rows, batch)
<1>1. Len(rows) = m /\ Len(batch) = n
  BY RowsFacts DEF RowsOf
<1>2. joined = [i \in 1 .. m + n |-> IF i <= m THEN rows[i] ELSE batch[i - m]]
  BY <1>1 DEF Lm!Joined
<1>3. joined \in RowsOf(m + n)
  BY <1>2 DEF RowsOf
<1>4. /\ \A i \in 1 .. m : joined[i] = rows[i]
      /\ \A j \in 1 .. n : joined[m + j] = batch[j]
  BY <1>2
<1>5. Len(joined) = m + n
  <2> HIDE DEF joined
  <2> QED
    BY <1>3, RowsFacts DEF RowsOf
<1>6. ASSUME NEW l \in Nat, NEW i \in 1 .. m
      PROVE  Lm!Hidden(l, joined, i) = Lm!Hidden(l, rows, i)
  <2>1. Lm!Prefix(joined, i) = Lm!Prefix(rows, i)
    <3>1. \A k \in 1 .. i : joined[k] = rows[k]
      BY <1>4
    <3> HIDE DEF joined
    <3> QED
      BY <3>1 DEF Lm!Prefix
  <2>2. joined[i] = rows[i]
    BY <1>4
  <2> HIDE DEF joined
  <2> QED
    BY <2>1, <2>2 DEF Lm!Hidden
<1> QED
  BY <1>3, <1>4, <1>5, <1>6

(* A hidden value is a non-empty sequence of rows that ends in its own.    *)
LEMMA HiddenFacts ==
  ASSUME NEW m \in 1 .. Capacity, NEW rows \in RowsOf(m), NEW l \in Nat, NEW i \in 1 .. m
  PROVE  /\ Lm!Hidden(l, rows, i) \in Hiddens
         /\ Lm!Hidden(l, rows, i) # Garbage
         /\ Lm!Hidden(l, rows, i)[Len(Lm!Hidden(l, rows, i))] = rows[i]
<1> DEFINE h == Lm!Hidden(l, rows, i)
<1>1. PICK n \in 1 .. i : h \in [1 .. n -> Lm!Row] /\ h[n] = rows[i]
  <2>1. CASE l = 0
    <3>1. h = <<rows[i]>>
      BY <2>1, LayerFacts
    <3>2. h \in [1 .. 1 -> Lm!Row] /\ h[1] = rows[i]
      BY <3>1 DEF RowsOf
    <3> QED
      BY <3>2
  <2>2. CASE l # 0
    <3>1. h = [k \in 1 .. i |-> rows[k]]
      BY <2>2, LayerFacts DEF Lm!Prefix
    <3>2. h \in [1 .. i -> Lm!Row] /\ h[i] = rows[i]
      BY <3>1 DEF RowsOf
    <3> QED
      BY <3>2
  <2> QED
    BY <2>1, <2>2
<1> HIDE DEF h
<1>2. Len(h) = n /\ h # Garbage
  BY <1>1, RowsFacts DEF Garbage
<1>3. h \in Hiddens
  BY <1>1, KvAssumption DEF Hiddens
<1> QED
  BY <1>1, <1>2, <1>3 DEF h

(* Attention over the rows up to k of one sequence is that sequence.       *)
LEMMA AttendFacts ==
  ASSUME NEW m \in 1 .. Capacity, NEW rows \in RowsOf(m), NEW k \in 1 .. m,
         NEW g \in Nat \ {0}, NEW cell,
         \A i \in 1 .. k : cell[i] = Lm!Hidden(g - 1, rows, i)
  PROVE  Attend(g, cell, 1 .. k) = Lm!Hidden(g, rows, k)
<1> DEFINE read == [i \in 1 .. k |-> cell[i][Len(cell[i])]]
<1>1. ASSUME NEW i \in 1 .. k
      PROVE  cell[i] # Garbage /\ cell[i][Len(cell[i])] = rows[i]
  <2> DEFINE h == Lm!Hidden(g - 1, rows, i)
  <2>1. g - 1 \in Nat /\ i \in 1 .. m /\ cell[i] = h
    OBVIOUS
  <2>2. h # Garbage /\ h[Len(h)] = rows[i]
    BY <2>1, HiddenFacts
  <2> QED
    BY <2>1, <2>2
<1>2. read = Lm!Prefix(rows, k) /\ \A i \in 1 .. k : read[i] = rows[i]
  BY <1>1 DEF Lm!Prefix
<1>3. ASSUME NEW i \in 1 .. k PROVE cell[i] = Lm!Hidden(g - 1, read, i)
  <2>1. read[i] = rows[i]
    BY <1>2
  <2>2. Lm!Prefix(read, i) = Lm!Prefix(rows, i)
    <3>1. \A j \in 1 .. i : read[j] = rows[j]
      BY <1>2
    <3> HIDE DEF read
    <3> QED
      BY <3>1 DEF Lm!Prefix
  <2>3. cell[i] = Lm!Hidden(g - 1, rows, i)
    OBVIOUS
  <2> HIDE DEF read
  <2> QED
    BY <2>1, <2>2, <2>3 DEF Lm!Hidden
<1>4. Attend(g, cell, 1 .. k) = read
  BY <1>1, <1>3 DEF Attend
<1>5. Lm!Hidden(g, rows, k) = Lm!Prefix(rows, k)
  BY LayerFacts
<1> QED
  BY <1>2, <1>4, <1>5

(* Which rows a graph writes.                                              *)
LEMMA WrittenFacts ==
  ASSUME NEW n \in Nat, NEW past \in Nat, past + n <= Capacity, NEW hidden, NEW cell,
         NEW done \in PartsOf(n)
  PROVE  Overwrites(Written(cell, past, hidden, done), cell, past, n, hidden, done)
<1> USE DEF PartsOf
<1> DEFINE w == Written(cell, past, hidden, done)
<1>1. w = [i \in 1 .. Capacity |-> IF \E j \in done : i = past + j
                                   THEN hidden[CHOOSE j \in done : i = past + j] ELSE cell[i]]
  BY DEF Written, CacheRow
<1>2. ASSUME NEW i \in 1 .. Capacity, i \notin past + 1 .. past + n PROVE w[i] = cell[i]
  <2>1. ~ \E j \in done : i = past + j
    BY <1>2
  <2> QED
    BY <1>1, <2>1
<1>3. ASSUME NEW j \in done PROVE w[past + j] = hidden[j]
  <2>1. j \in 1 .. n /\ past + j \in 1 .. Capacity
    BY KvAssumption
  <2>2. (CHOOSE k \in done : past + j = past + k) = j
    <3>1. \A k \in done : past + j = past + k => k = j
      BY <2>1
    <3> QED
      BY <3>1
  <2> QED
    BY <1>1, <2>1, <2>2
<1>4. ASSUME NEW j \in (1 .. n) \ done PROVE w[past + j] = cell[past + j]
  <2>1. past + j \in 1 .. Capacity
    BY KvAssumption
  <2>2. ~ \E k \in done : past + j = past + k
    <3>1. \A k \in done : k \in Int /\ k # j
      OBVIOUS
    <3> QED
      BY <3>1
  <2> QED
    BY <1>1, <2>1, <2>2
<1> QED
  BY <1>1, <1>2, <1>3, <1>4 DEF Overwrites

-----------------------------------------------------------------------------
(* A new session is empty.                                                 *)
LEMMA InitIInv == Init => IInv
<1> SUFFICES ASSUME Init PROVE IInv
  OBVIOUS
<1>1. SessionInv
  <2>1. Garbage \in Hiddens
    <3>1. Garbage \in [1 .. 0 -> Lm!Row]
      BY DEF Garbage
    <3> QED
      BY <3>1, KvAssumption DEF Hiddens
  <2>2. cells \in [Layers -> [1 .. Capacity -> Hiddens]]
    BY <2>1 DEF Init
  <2>3. graph.running = FALSE /\ graph = Idle
    BY DEF Init, Idle
  <2>4. graph = [running |-> graph.running, past |-> graph.past, batch |-> graph.batch,
              layer |-> graph.layer, hidden |-> graph.hidden, mixed |-> graph.mixed,
              count |-> graph.count]
    BY <2>3 DEF Idle
  <2>5. /\ cacheTokens \in 0 .. Capacity /\ nextPosition \in 0 .. Capacity
        /\ faults \in 0 .. MaxFaults /\ resets \in 0 .. MaxResets
    BY KvAssumption DEF Init
  <2> QED
    BY <2>2, <2>3, <2>4, <2>5 DEF SessionInv
<1>2. cacheTokens = 0 /\ nextPosition = 0 /\ ~graph.running
  BY DEF Init, Idle
<1>3. Cached \in RowsOf(0)
  BY <1>2 DEF Cached, RowsOf
<1>4. RowsInv
  <2>1. Len(Cached) = 0
    BY <1>3, RowsFacts DEF RowsOf
  <2> QED
    BY <1>2, <1>3, <2>1 DEF RowsInv, Ordered
<1>5. CellsInv /\ GraphInv
  BY <1>2 DEF CellsInv, GraphInv
<1> QED
  BY <1>1, <1>4, <1>5 DEF IInv

(* A graph begins with the rows it was given.                              *)
LEMMA BeginFacts ==
  ASSUME IInv, NEW n \in 1 .. Capacity, NEW rows \in RowsOf(n),
         NEW count \in 0 .. n, cacheTokens + n <= Capacity,
         Ordered(Lm!Joined(Cached, rows)), Begin(cacheTokens, rows, count)
  PROVE  IInv' /\ UNCHANGED <<Cached, logits>>
<1>1. /\ UNCHANGED <<cells, cacheTokens, nextPosition, logits, faults, resets>>
      /\ graph' = [running |-> TRUE, past |-> cacheTokens, batch |-> rows, layer |-> 0,
                   hidden |-> [j \in 1 .. Len(rows) |-> <<rows[j]>>],
                   mixed |-> <<>>, count |-> count]
  BY DEF Begin
<1>2. UNCHANGED Cached
  BY <1>1 DEF Cached
<1>3. SessionInv'
  BY <1>1 DEF IInv, SessionInv
<1>4. RowsInv'
  BY <1>1, <1>2 DEF IInv, RowsInv
<1>5. CellsInv'
  BY <1>1, <1>2 DEF IInv, CellsInv
<1>6. GraphInv'
  <2> DEFINE joined == Lm!Joined(Cached, rows)
  <2>0. Len(rows) = n
    BY RowsFacts DEF RowsOf
  <2>1. /\ graph'.batch = rows /\ graph'.past = cacheTokens /\ graph'.layer = 0
        /\ graph'.count = count /\ graph'.hidden = [j \in 1 .. n |-> <<rows[j]>>]
    BY <1>1, <2>0
  <2>2. Extended' = joined
    BY <1>2, <2>1 DEF Extended
  <2>3. \A j \in 1 .. n : joined[cacheTokens + j] = rows[j]
    BY JoinedFacts DEF IInv, RowsInv, SessionInv
  <2> HIDE DEF joined
  <2>4. \A j \in 1 .. n : graph'.hidden[j] = Lm!Hidden(0, joined, cacheTokens + j)
    <3> SUFFICES ASSUME NEW j \in 1 .. n
                 PROVE  graph'.hidden[j] = Lm!Hidden(0, joined, cacheTokens + j)
      OBVIOUS
    <3>1. graph'.hidden[j] = <<joined[cacheTokens + j]>>
      BY <2>1, <2>3
    <3> QED
      BY <3>1 DEF Lm!Hidden
  <2>5. ~(0 >= MainLayers) /\ 0 \in 0 .. Lm!LayerCount
    BY KvAssumption, LayerFacts
  <2>6. /\ Ordered(joined)
        /\ rows \in RowsOf(n) /\ count \in 0 .. n /\ cacheTokens + n <= Capacity
    BY DEF joined
  <2> QED
    <3>1. /\ graph'.batch \in RowsOf(n) /\ graph'.count \in 0 .. n
          /\ graph'.past = cacheTokens' /\ cacheTokens' + n <= Capacity
          /\ Ordered(Extended') /\ graph'.layer \in 0 .. Lm!LayerCount
      BY <1>1, <2>1, <2>2, <2>5, <2>6
    <3>2. \A g \in 1 .. graph'.layer : FALSE
      BY <2>1
    <3>3. \A j \in 1 .. n :
            graph'.hidden[j] = Lm!Hidden(graph'.layer, Extended', cacheTokens' + j)
      BY <1>1, <2>1, <2>2, <2>4
    <3>4. ~(graph'.layer >= MainLayers)
      BY <2>1, <2>5
    <3>5. GraphOf(n)'
      BY <3>1, <3>2, <3>3, <3>4 DEF GraphOf
    <3> QED
      BY <3>5 DEF GraphInv
<1> QED
  BY <1>1, <1>2, <1>3, <1>4, <1>5, <1>6 DEF IInv

(* Tokens go on where the session stands.                                  *)
LEMMA PrefillFacts ==
  ASSUME IInv, NEW tokens \in Texts, NEW start \in 0 .. Capacity - 1, Prefill(tokens, start)
  PROVE  IInv' /\ UNCHANGED <<Cached, logits>>
<1>1. PICK n \in 0 .. Capacity : tokens \in [1 .. n -> Tokens]
  BY DEF Texts
<1>2. /\ n >= 1 /\ n <= Capacity - cacheTokens /\ start + n <= Capacity
      /\ cacheTokens = 0 \/ start = nextPosition
      /\ Begin(cacheTokens, TokenRows(tokens, start), n) /\ Len(tokens) = n
  BY <1>1, RowsFacts DEF Prefill, Accepts
<1>3. /\ cacheTokens \in 0 .. Capacity /\ Capacity \in Nat /\ start \in Nat
      /\ Cached \in RowsOf(cacheTokens) /\ Ordered(Cached)
      /\ cacheTokens # 0 => nextPosition = Cached[cacheTokens].position + 1
  BY KvAssumption DEF IInv, SessionInv, RowsInv
<1> DEFINE rows == TokenRows(tokens, start)
           joined == Lm!Joined(Cached, rows)
<1>4. rows \in RowsOf(n)
  BY <1>1, <1>2, <1>3 DEF TokenRows, RowsOf, Lm!Row
<1>5. \A j \in 1 .. n : rows[j].position = start + j - 1 /\ rows[j].input \notin Conditions
  BY <1>1, <1>2, KvAssumption DEF TokenRows
<1> HIDE DEF rows
<1>6. /\ Len(joined) = cacheTokens + n
      /\ \A i \in 1 .. cacheTokens : joined[i] = Cached[i]
      /\ \A j \in 1 .. n : joined[cacheTokens + j] = rows[j]
  <2>1. cacheTokens \in Nat /\ n \in Nat /\ Cached \in RowsOf(cacheTokens)
    BY <1>3
  <2> QED
    BY <1>4, <2>1, JoinedFacts, ZenonT(30)
<1>7. \A i \in cacheTokens + 1 .. cacheTokens + n :
        joined[i] = rows[i - cacheTokens] /\ i - cacheTokens \in 1 .. n
  <2> SUFFICES ASSUME NEW i \in cacheTokens + 1 .. cacheTokens + n
               PROVE  joined[i] = rows[i - cacheTokens] /\ i - cacheTokens \in 1 .. n
    OBVIOUS
  <2>1. i - cacheTokens \in 1 .. n /\ cacheTokens + (i - cacheTokens) = i
    BY <1>3
  <2> QED
    BY <1>6, <2>1
<1>8. Len(Cached) = cacheTokens
  BY <1>3, RowsFacts DEF RowsOf
<1> HIDE DEF joined
<1>9. ASSUME NEW i \in 2 .. Len(joined)
      PROVE  joined[i].position = joined[i - 1].position + 1
  <2>1. CASE i <= cacheTokens
    <3>1. i \in 2 .. Len(Cached) /\ i \in 1 .. cacheTokens /\ i - 1 \in 1 .. cacheTokens
      BY <1>3, <1>8, <2>1
    <3> QED
      BY <1>3, <1>6, <3>1 DEF Ordered
  <2>2. CASE i = cacheTokens + 1
    <3>1. joined[i].position = start
      <4>1. i \in cacheTokens + 1 .. cacheTokens + n /\ i - cacheTokens = 1
        BY <1>2, <1>3, <2>2
      <4>2. joined[i] = rows[1] /\ 1 \in 1 .. n
        BY <1>7, <4>1
      <4> QED
        BY <1>3, <1>5, <4>2
    <3>2. cacheTokens \in 1 .. cacheTokens /\ joined[i - 1] = Cached[cacheTokens]
      BY <1>3, <1>6, <2>2
    <3> QED
      BY <1>2, <1>3, <3>1, <3>2
  <2>3. CASE i > cacheTokens + 1
    <3>1. i \in cacheTokens + 1 .. cacheTokens + n /\ i - 1 \in cacheTokens + 1 .. cacheTokens + n
      BY <1>3, <1>6, <2>3
    <3>2. /\ joined[i].position = start + (i - cacheTokens) - 1
          /\ joined[i - 1].position = start + (i - 1 - cacheTokens) - 1
      BY <1>5, <1>7, <3>1
    <3> QED
      BY <1>3, <3>1, <3>2
  <2> QED
    BY <1>3, <1>6, <2>1, <2>2, <2>3
<1>10. ASSUME NEW i \in 1 .. Len(joined), joined[i].input \in Conditions, NEW j \in 1 .. i
       PROVE  joined[j].input = joined[i].input /\ joined[j].position = j - 1
  <2>1. i <= cacheTokens
    <3> SUFFICES ASSUME i > cacheTokens PROVE FALSE
      BY <1>3, <1>6
    <3>1. i \in cacheTokens + 1 .. cacheTokens + n
      BY <1>3, <1>6
    <3>2. joined[i] = rows[i - cacheTokens] /\ i - cacheTokens \in 1 .. n
      BY <1>7, <3>1
    <3> QED
      BY <1>5, <1>10, <3>2
  <2>2. i \in 1 .. Len(Cached) /\ i \in 1 .. cacheTokens /\ j \in 1 .. cacheTokens
    BY <1>3, <1>8, <2>1
  <2> QED
    BY <1>3, <1>6, <1>10, <2>2, ZenonT(30) DEF Ordered
<1>11. Ordered(joined)
  BY <1>9, <1>10 DEF Ordered
<1> QED
  BY <1>2, <1>3, <1>4, <1>11, BeginFacts DEF rows, joined

(* Conditioning goes first, from position 0.                               *)
LEMMA ConditionedFacts ==
  ASSUME IInv, cacheTokens = 0, NEW c \in Conditions, NEW prefix \in 0 .. Capacity,
         NEW n \in 0 .. Capacity, NEW tokens \in [1 .. n -> Tokens],
         prefix + n <= Capacity, prefix + n >= 1, NEW count \in 0 .. prefix + n,
         Begin(0, ConditionedRows(c, prefix, tokens), count)
  PROVE  IInv' /\ UNCHANGED <<Cached, logits>>
<1> DEFINE m == prefix + n
           rows == ConditionedRows(c, prefix, tokens)
           joined == Lm!Joined(Cached, rows)
<1>1. m \in 1 .. Capacity /\ Len(tokens) = n
  BY RowsFacts
<1>2. rows = [i \in 1 .. m |-> [input |-> IF i <= prefix THEN c ELSE tokens[i - prefix],
                                position |-> i - 1]]
  BY <1>1 DEF ConditionedRows
<1>3. \A i \in 1 .. m : i > prefix => tokens[i - prefix] \in Tokens
  OBVIOUS
<1>4. rows \in RowsOf(m)
  BY <1>1, <1>2, <1>3, KvAssumption DEF RowsOf, Lm!Row
<1>5. \A i \in 1 .. m : /\ rows[i].position = i - 1
                        /\ i <= prefix => rows[i].input = c
                        /\ i > prefix => rows[i].input \notin Conditions
  BY <1>2, <1>3, KvAssumption
<1>6. Cached \in RowsOf(0)
  BY DEF IInv, RowsInv
<1> HIDE DEF rows
<1>7. Len(joined) = m /\ \A i \in 1 .. m : joined[i] = rows[i]
  <2>1. Len(joined) = 0 + m /\ \A i \in 1 .. m : joined[0 + i] = rows[i]
    BY <1>1, <1>4, <1>6, JoinedFacts
  <2> QED
    BY <1>1, <2>1
<1> HIDE DEF joined
<1>8. Ordered(joined)
  <2>1. ASSUME NEW i \in 2 .. m PROVE joined[i].position = joined[i - 1].position + 1
    <3>1. i \in 1 .. m /\ i - 1 \in 1 .. m
      BY <1>1
    <3>2. joined[i].position = i - 1 /\ joined[i - 1].position = i - 1 - 1
      BY <1>5, <1>7, <3>1
    <3> QED
      BY <3>1, <3>2
  <2>2. ASSUME NEW i \in 1 .. m, joined[i].input \in Conditions, NEW j \in 1 .. i
        PROVE  joined[j].input = joined[i].input /\ joined[j].position = j - 1
    <3>1. i <= prefix /\ j \in 1 .. m /\ j <= prefix
      BY <1>1, <1>5, <1>7, <2>2, SMTT(20)
    <3> QED
      BY <1>5, <1>7, <3>1
  <2> QED
    BY <1>7, <2>1, <2>2 DEF Ordered
<1> QED
  BY <1>1, <1>4, <1>8, BeginFacts DEF rows, joined

(* A layer writes the batch's K and V behind the rows that count, and the  *)
(* attention reads those and the batch's own.                              *)
LEMMA RunLayerFacts == IInv /\ RunLayer => IInv' /\ UNCHANGED <<Cached, logits>>
<1> SUFFICES ASSUME IInv, RunLayer PROVE IInv' /\ UNCHANGED <<Cached, logits>>
  OBVIOUS
<1>1. PICK n \in 1 .. Capacity : GraphOf(n)
  BY DEF IInv, GraphInv, RunLayer
<1> DEFINE g == graph.layer + 1
           k == cacheTokens
           cell == Written(cells[g], k, graph.hidden, 1 .. n)
           after == [j \in 1 .. n |-> Attend(g, cell, 1 .. k + j)]
<1>2. /\ graph.running /\ graph.layer \in Nat /\ g \in Layers /\ g \in Nat \ {0}
      /\ g - 1 = graph.layer /\ g <= Lm!LayerCount
  <2>1. graph.running /\ graph.layer < Lm!LayerCount
    BY DEF RunLayer
  <2>2. graph.layer \in 0 .. Lm!LayerCount
    BY <1>1 DEF GraphOf
  <2> QED
    BY <2>1, <2>2, LayerFacts
<1>3. /\ k \in Nat /\ n \in Nat /\ Capacity \in Nat /\ k + n \in 1 .. Capacity
      /\ graph.past = k /\ Len(graph.batch) = n /\ graph.batch \in RowsOf(n)
      /\ Cached \in RowsOf(k)
  <2>1. k \in 0 .. Capacity /\ Capacity \in Nat /\ Cached \in RowsOf(k)
    BY KvAssumption DEF IInv, SessionInv, RowsInv
  <2>2. graph.past = k /\ graph.batch \in RowsOf(n) /\ k + n <= Capacity
    BY <1>1 DEF GraphOf
  <2>3. Len(graph.batch) = n
    BY <2>2, RowsFacts DEF RowsOf
  <2> QED
    BY <2>1, <2>2, <2>3
<1>4. /\ cells' = [cells EXCEPT ![g] = cell]
      /\ graph' = [graph EXCEPT !.layer = g, !.hidden = after,
                                !.mixed = IF g = MainLayers THEN after ELSE @]
      /\ UNCHANGED <<cacheTokens, nextPosition, logits, faults, resets>>
  BY <1>3 DEF RunLayer, Visible
<1>5. /\ Extended \in RowsOf(k + n)
      /\ \A i \in 1 .. k : Extended[i] = Cached[i]
      /\ \A l \in Nat : \A i \in 1 .. k : Lm!Hidden(l, Extended, i) = Lm!Hidden(l, Cached, i)
  <2>1. k \in Nat /\ n \in Nat /\ Cached \in RowsOf(k) /\ graph.batch \in RowsOf(n)
    BY <1>3
  <2> QED
    BY <2>1, JoinedFacts, ZenonT(30) DEF Extended
<1>6. /\ \A i \in 1 .. Capacity : i \notin k + 1 .. k + n => cell[i] = cells[g][i]
      /\ \A j \in 1 .. n : cell[k + j] = graph.hidden[j]
      /\ cell = [i \in 1 .. Capacity |-> cell[i]]
  <2>1. n \in Nat /\ k \in Nat /\ k + n <= Capacity /\ (1 .. n) \in PartsOf(n)
    BY <1>3 DEF PartsOf
  <2> QED
    <3>1. Overwrites(cell, cells[g], k, n, graph.hidden, 1 .. n)
      BY <2>1, WrittenFacts
    <3> HIDE DEF cell
    <3> QED
      BY <3>1 DEF Overwrites
<1> HIDE DEF cell
<1>7. ASSUME NEW i \in 1 .. k + n PROVE cell[i] = Lm!Hidden(g - 1, Extended, i)
  <2>1. CASE i <= k
    <3>1. i \in 1 .. k /\ i \in 1 .. Capacity /\ i \notin k + 1 .. k + n
      BY <1>3, <2>1
    <3>2. cell[i] = cells[g][i] /\ cells[g][i] = Lm!Hidden(g - 1, Cached, i)
      BY <1>2, <1>6, <3>1 DEF IInv, CellsInv
    <3>3. Lm!Hidden(g - 1, Extended, i) = Lm!Hidden(g - 1, Cached, i)
      BY <1>2, <1>5, <3>1
    <3> QED
      BY <3>2, <3>3
  <2>2. CASE i > k
    <3>1. i - k \in 1 .. n /\ k + (i - k) = i
      BY <1>3, <2>2
    <3>2. cell[i] = graph.hidden[i - k]
      BY <1>6, <3>1
    <3>3. graph.hidden[i - k] = Lm!Hidden(graph.layer, Extended, i)
      BY <1>1, <3>1 DEF GraphOf
    <3> QED
      BY <1>2, <3>2, <3>3
  <2> QED
    BY <1>3, <2>1, <2>2
<1>8. ASSUME NEW j \in 1 .. n PROVE after[j] = Lm!Hidden(g, Extended, k + j)
  <2>1. k + j \in 1 .. k + n
    BY <1>3
  <2>2. \A i \in 1 .. k + j : cell[i] = Lm!Hidden(g - 1, Extended, i)
    BY <1>3, <1>7
  <2>3. Attend(g, cell, 1 .. k + j) = Lm!Hidden(g, Extended, k + j)
    BY <1>2, <1>3, <1>5, <2>1, <2>2, AttendFacts
  <2> QED
    BY <2>3
<1> HIDE DEF after
<1>9. \A h \in Layers : \A i \in 1 .. k : cells'[h][i] = cells[h][i]
  <2> SUFFICES ASSUME NEW h \in Layers, NEW i \in 1 .. k PROVE cells'[h][i] = cells[h][i]
    OBVIOUS
  <2>1. cell[i] = cells[g][i] /\ i \in 1 .. Capacity
    <3>1. i \in 1 .. Capacity /\ i \notin k + 1 .. k + n
      BY <1>3
    <3> QED
      BY <1>6, <3>1
  <2>2. cells \in [Layers -> [1 .. Capacity -> Hiddens]]
    BY DEF IInv, SessionInv
  <2> QED
    BY <1>2, <1>4, <2>1, <2>2
<1>10. Cached' = Cached
  <2>1. \A i \in 1 .. k : cells'[1][i] = cells[1][i]
    BY <1>9, LayerFacts
  <2> QED
    BY <1>4, <2>1 DEF Cached
<1>11. /\ graph'.running /\ graph'.past = k /\ graph'.batch = graph.batch
       /\ graph'.layer = g /\ graph'.hidden = after /\ graph'.count = graph.count
       /\ graph'.mixed = IF g = MainLayers THEN after ELSE graph.mixed
       /\ graph' = [running |-> graph'.running, past |-> graph'.past, batch |-> graph'.batch,
                    layer |-> graph'.layer, hidden |-> graph'.hidden,
                    mixed |-> graph'.mixed, count |-> graph'.count]
  <2>1. graph = [running |-> graph.running, past |-> graph.past, batch |-> graph.batch,
                 layer |-> graph.layer, hidden |-> graph.hidden, mixed |-> graph.mixed,
                 count |-> graph.count]
    BY DEF IInv, SessionInv
  <2>2. graph' = [running |-> graph.running, past |-> graph.past, batch |-> graph.batch,
                  layer |-> g, hidden |-> after,
                  mixed |-> IF g = MainLayers THEN after ELSE graph.mixed,
                  count |-> graph.count]
    BY <1>4, <2>1
  <2> QED
    BY <1>2, <1>3, <2>2
<1>12. Extended' = Extended
  BY <1>10, <1>11 DEF Extended
<1>13. SessionInv'
  <2>1. cell \in [1 .. Capacity -> Hiddens]
    <3>1. ASSUME NEW i \in 1 .. Capacity PROVE cell[i] \in Hiddens
      <4>1. CASE i \in 1 .. k + n
        BY <1>2, <1>3, <1>5, <1>7, <4>1, HiddenFacts
      <4>2. CASE i \notin 1 .. k + n
        <5>1. i \notin k + 1 .. k + n
          BY <1>3, <4>2
        <5>2. cell[i] = cells[g][i]
          BY <1>6, <5>1
        <5> QED
          BY <1>2, <5>2 DEF IInv, SessionInv
      <4> QED
        BY <4>1, <4>2
    <3> QED
      BY <1>6, <3>1
  <2>2. cells' \in [Layers -> [1 .. Capacity -> Hiddens]]
    BY <1>2, <1>4, <2>1 DEF IInv, SessionInv
  <2>3. /\ cacheTokens' \in 0 .. Capacity /\ nextPosition' \in 0 .. Capacity
        /\ faults' \in 0 .. MaxFaults /\ resets' \in 0 .. MaxResets
    BY <1>4 DEF IInv, SessionInv
  <2>4. graph'.running \in BOOLEAN
    BY <1>2, <1>11 DEF IInv, SessionInv
  <2> QED
    BY <1>11, <2>2, <2>3, <2>4 DEF SessionInv
<1>14. RowsInv'
  BY <1>4, <1>10 DEF IInv, RowsInv
<1>15. CellsInv'
  BY <1>4, <1>9, <1>10 DEF IInv, CellsInv
<1>16. GraphOf(n)'
  <2>1. /\ graph'.batch \in RowsOf(n) /\ graph'.count \in 0 .. n
        /\ graph'.past = cacheTokens' /\ cacheTokens' + n <= Capacity
        /\ Ordered(Extended') /\ graph'.layer \in 0 .. Lm!LayerCount
    BY <1>1, <1>2, <1>3, <1>4, <1>11, <1>12, LayerFacts DEF GraphOf
  <2>2. ASSUME NEW h \in 1 .. g, NEW i \in 1 .. k + n
        PROVE  cells'[h][i] = Lm!Hidden(h - 1, Extended, i)
    <3>1. h \in Layers /\ cells \in [Layers -> [1 .. Capacity -> Hiddens]]
      BY <1>2, LayerFacts DEF IInv, SessionInv
    <3>2. CASE h = g
      BY <1>2, <1>4, <1>7, <3>1, <3>2
    <3>3. CASE h # g
      <4>1. h \in 1 .. graph.layer
        BY <1>2, <3>3
      <4>2. cells'[h] = cells[h]
        BY <1>4, <3>1, <3>3
      <4> QED
        BY <1>1, <4>1, <4>2 DEF GraphOf
    <3> QED
      BY <3>2, <3>3
  <2>3. ASSUME g >= MainLayers, NEW j \in 1 .. n
        PROVE  graph'.mixed[j] = Lm!Hidden(MainLayers, Extended, k + j)
    <3>1. CASE g = MainLayers
      BY <1>8, <1>11, <3>1
    <3>2. CASE g # MainLayers
      <4>1. graph.layer >= MainLayers
        BY <1>2, <2>3, <3>2, LayerFacts
      <4> QED
        BY <1>1, <1>11, <3>2, <4>1 DEF GraphOf
    <3> QED
      BY <3>1, <3>2
  <2>4. \A h \in 1 .. graph'.layer : \A i \in 1 .. cacheTokens' + n :
          cells'[h][i] = Lm!Hidden(h - 1, Extended', i)
    BY <1>4, <1>11, <1>12, <2>2
  <2>5. \A j \in 1 .. n :
          graph'.hidden[j] = Lm!Hidden(graph'.layer, Extended', cacheTokens' + j)
    BY <1>4, <1>8, <1>11, <1>12
  <2>6. graph'.layer >= MainLayers =>
          \A j \in 1 .. n : graph'.mixed[j] = Lm!Hidden(MainLayers, Extended', cacheTokens' + j)
    BY <1>4, <1>11, <1>12, <2>3
  <2> QED
    BY <2>1, <2>4, <2>5, <2>6 DEF GraphOf
<1> QED
  BY <1>4, <1>10, <1>13, <1>14, <1>15, <1>16 DEF IInv, GraphInv

(* A finished graph is one evaluation of the uncached model.               *)
LEMMA FinishFacts ==
  ASSUME IInv, Finish
  PROVE  IInv' /\ \E batch \in Lm!Batches : \E count \in 0 .. Len(batch) : Lm!Evaluate(batch, count)
<1>1. PICK n \in 1 .. Capacity : GraphOf(n)
  BY DEF IInv, GraphInv, Finish
<1> DEFINE k == cacheTokens
           batch == graph.batch
           count == graph.count
<1>2. /\ k \in Nat /\ n \in Nat \ {0} /\ Capacity \in Nat /\ k + n \in 1 .. Capacity
      /\ graph.past = k /\ Len(batch) = n /\ batch \in RowsOf(n) /\ count \in 0 .. n
      /\ Cached \in RowsOf(k) /\ Len(Cached) = k
  <2>1. k \in 0 .. Capacity /\ Capacity \in Nat /\ Cached \in RowsOf(k)
    BY KvAssumption DEF IInv, SessionInv, RowsInv
  <2>2. graph.past = k /\ batch \in RowsOf(n) /\ k + n <= Capacity /\ count \in 0 .. n
    BY <1>1 DEF GraphOf
  <2>3. Len(batch) = n
    BY <2>2, RowsFacts DEF RowsOf
  <2>4. Len(Cached) = k
    BY <2>1, RowsFacts DEF RowsOf
  <2> QED
    BY <2>1, <2>2, <2>3, <2>4
<1>3. /\ cacheTokens' = k + n /\ nextPosition' = batch[n].position + 1
      /\ logits' = [i \in 1 .. count |-> [mixed |-> graph.mixed[n - count + i],
                                         detail |-> graph.hidden[n - count + i]]]
      /\ graph' = Idle /\ UNCHANGED <<cells, faults, resets>>
      /\ graph.layer = Lm!LayerCount
  BY <1>2 DEF Finish
<1>4. /\ Extended \in RowsOf(k + n) /\ Len(Extended) = k + n
      /\ \A i \in 1 .. k : Extended[i] = Cached[i]
      /\ \A j \in 1 .. n : Extended[k + j] = batch[j]
  <2>1. k \in Nat /\ n \in Nat /\ Cached \in RowsOf(k) /\ batch \in RowsOf(n)
    BY <1>2
  <2> HIDE DEF batch
  <2>2. /\ Lm!Joined(Cached, batch) \in RowsOf(k + n) /\ Len(Lm!Joined(Cached, batch)) = k + n
        /\ \A i \in 1 .. k : Lm!Joined(Cached, batch)[i] = Cached[i]
        /\ \A j \in 1 .. n : Lm!Joined(Cached, batch)[k + j] = batch[j]
    BY <2>1, JoinedFacts, ZenonT(30)
  <2> QED
    BY <2>2 DEF Extended, batch
<1>5. Cached' = Extended
  <2>1. ASSUME NEW i \in 1 .. k + n PROVE cells[1][i][1] = Extended[i]
    <3>1. cells[1][i] = Lm!Hidden(1 - 1, Extended, i)
      BY <1>1, <1>3, LayerFacts DEF GraphOf
    <3>2. cells[1][i] = <<Extended[i]>>
      BY <3>1 DEF Lm!Hidden
    <3> QED
      BY <3>2
  <2>2. Cached' = [i \in 1 .. k + n |-> cells[1][i][1]]
    BY <1>3 DEF Cached
  <2>3. Extended = [i \in 1 .. k + n |-> Extended[i]]
    BY <1>4 DEF RowsOf
  <2> QED
    BY <2>1, <2>2, <2>3
<1>6. /\ Ordered(Extended) /\ \A g \in Layers : \A i \in 1 .. k + n :
           cells[g][i] = Lm!Hidden(g - 1, Extended, i)
  BY <1>1, <1>3, LayerFacts DEF GraphOf
<1>7. batch[n] \in Lm!Row /\ batch[n] = Extended[k + n] /\ batch[n].position \in 0 .. Capacity - 1
  <2>1. n \in 1 .. n
    BY <1>2
  <2>2. batch[n] \in Lm!Row
    BY <1>2, <2>1 DEF RowsOf
  <2> QED
    BY <1>4, <2>1, <2>2 DEF Lm!Row
<1>8. IInv'
  <2>1. SessionInv'
    <3>1. cacheTokens' \in 0 .. Capacity /\ nextPosition' \in 0 .. Capacity
      BY <1>2, <1>3, <1>7
    <3>2. /\ graph'.running \in BOOLEAN
          /\ graph' = [running |-> graph'.running, past |-> graph'.past, batch |-> graph'.batch,
                       layer |-> graph'.layer, hidden |-> graph'.hidden,
                       mixed |-> graph'.mixed, count |-> graph'.count]
      BY <1>3 DEF Idle
    <3> QED
      BY <1>3, <3>1, <3>2 DEF IInv, SessionInv
  <2>2. RowsInv'
    BY <1>2, <1>3, <1>4, <1>5, <1>6, <1>7 DEF RowsInv
  <2>3. CellsInv'
    BY <1>3, <1>5, <1>6 DEF CellsInv
  <2>4. GraphInv'
    BY <1>3 DEF GraphInv, Idle
  <2> QED
    BY <2>1, <2>2, <2>3, <2>4 DEF IInv
<1>9. Lm!Evaluate(batch, count)
  <2>1. batch # <<>> /\ count \in 0 .. Len(batch) /\ Len(Cached) + Len(batch) <= Capacity
    BY <1>2
  <2>2. Lm!Continues(Cached, batch)
    <3>1. ASSUME NEW i \in 2 .. n PROVE batch[i].position = batch[i - 1].position + 1
      <4>1. /\ k + i \in 2 .. k + n /\ k + i - 1 = k + (i - 1)
            /\ i \in 1 .. n /\ i - 1 \in 1 .. n
        BY <1>2
      <4>2. \A h \in 2 .. k + n : Extended[h].position = Extended[h - 1].position + 1
        BY <1>4, <1>6 DEF Ordered
      <4>3. Extended[k + i].position = Extended[k + i - 1].position + 1
        BY <1>2, <4>1, <4>2
      <4> QED
        BY <1>4, <4>1, <4>3
    <3>2. ASSUME k > 0 PROVE batch[1].position = Cached[k].position + 1
      <4>1. k + 1 \in 2 .. k + n /\ k \in 1 .. k /\ 1 \in 1 .. n /\ k + 1 - 1 = k
        BY <1>2, <3>2
      <4>2. Extended[k + 1].position = Extended[k].position + 1
        BY <1>4, <1>6, <4>1 DEF Ordered
      <4> QED
        BY <1>4, <4>1, <4>2
    <3> QED
      BY <1>2, <3>1, <3>2 DEF Lm!Continues
  <2>3. Cached' = Lm!Joined(Cached, batch)
    BY <1>5 DEF Extended
  <2>4. logits' = Lm!Forward(Cached', count)
    <3>1. ASSUME NEW i \in 1 .. count
          PROVE  [mixed |-> graph.mixed[n - count + i], detail |-> graph.hidden[n - count + i]]
                   = Lm!LogitsAt(Extended, k + n - count + i)
      <4> DEFINE j == n - count + i
      <4>1. j \in 1 .. n /\ k + n - count + i = k + j
        BY <1>2
      <4>2. graph.hidden[j] = Lm!Hidden(Lm!LayerCount, Extended, k + j)
        BY <1>1, <1>3, <4>1 DEF GraphOf
      <4>3. graph.mixed[j] = Lm!Hidden(MainLayers, Extended, k + j)
        <5>1. graph.layer >= MainLayers
          BY <1>3, LayerFacts
        <5> QED
          BY <1>1, <4>1, <5>1 DEF GraphOf
      <4> QED
        <5>1. Lm!LogitsAt(Extended, k + j)
                = [mixed |-> graph.mixed[j], detail |-> graph.hidden[j]]
          BY <4>2, <4>3 DEF Lm!LogitsAt
        <5> QED
          BY <4>1, <5>1
    <3>2. Len(Cached') - count = k + n - count
      BY <1>2, <1>4, <1>5
    <3>3. Lm!Forward(Cached', count) = [i \in 1 .. count |-> Lm!LogitsAt(Extended, k + n - count + i)]
      BY <1>5, <3>2 DEF Lm!Forward
    <3> QED
      BY <1>3, <3>1, <3>3
  <2> QED
    BY <2>1, <2>2, <2>3, <2>4 DEF Lm!Evaluate
<1>10. batch \in Lm!Batches /\ count \in 0 .. Len(batch)
  BY <1>2 DEF Lm!Batches, RowsOf
<1> QED
  BY <1>8, <1>9, <1>10

(* A failed graph has written behind the rows that count only.             *)
LEMMA GraphFailsFacts ==
  ASSUME IInv, NEW done \in SUBSET (1 .. Len(graph.batch)), GraphFails(done)
  PROVE  IInv' /\ UNCHANGED <<Cached, logits>>
<1>1. PICK n \in 1 .. Capacity : GraphOf(n)
  BY DEF IInv, GraphInv, GraphFails
<1> DEFINE g == graph.layer + 1
           k == cacheTokens
           cell == Written(cells[g], k, graph.hidden, done)
<1>2. g \in Layers /\ g - 1 = graph.layer /\ graph.layer \in Nat
  <2>1. graph.layer < Lm!LayerCount
    BY DEF GraphFails
  <2>2. graph.layer \in 0 .. Lm!LayerCount
    BY <1>1 DEF GraphOf
  <2> QED
    BY <2>1, <2>2, LayerFacts
<1>3. /\ k \in Nat /\ n \in Nat /\ Capacity \in Nat /\ k + n \in 1 .. Capacity
      /\ graph.past = k /\ done \in PartsOf(n) /\ Cached \in RowsOf(k)
      /\ graph.batch \in RowsOf(n)
  <2>1. k \in 0 .. Capacity /\ Capacity \in Nat /\ Cached \in RowsOf(k)
    BY KvAssumption DEF IInv, SessionInv, RowsInv
  <2>2. graph.past = k /\ graph.batch \in RowsOf(n) /\ k + n <= Capacity
    BY <1>1 DEF GraphOf
  <2>3. Len(graph.batch) = n
    BY <2>2, RowsFacts DEF RowsOf
  <2> QED
    BY <2>1, <2>2, <2>3 DEF PartsOf
<1>4. /\ cells' = [cells EXCEPT ![g] = cell] /\ graph' = Idle
      /\ faults < MaxFaults /\ faults' = faults + 1
      /\ UNCHANGED <<cacheTokens, nextPosition, logits, resets>>
  BY <1>3 DEF GraphFails
<1>5. Overwrites(cell, cells[g], k, n, graph.hidden, done)
  <2>1. n \in Nat /\ k \in Nat /\ k + n <= Capacity /\ done \in PartsOf(n)
    BY <1>3
  <2> QED
    BY <2>1, WrittenFacts
<1> HIDE DEF cell
<1>6. \A h \in Layers : \A i \in 1 .. k : cells'[h][i] = cells[h][i]
  <2> SUFFICES ASSUME NEW h \in Layers, NEW i \in 1 .. k PROVE cells'[h][i] = cells[h][i]
    OBVIOUS
  <2>1. cell[i] = cells[g][i]
    <3>1. i \in 1 .. Capacity /\ i \notin k + 1 .. k + n
      BY <1>3
    <3> QED
      BY <1>5, <3>1 DEF Overwrites
  <2>2. cells \in [Layers -> [1 .. Capacity -> Hiddens]]
    BY DEF IInv, SessionInv
  <2> QED
    BY <1>2, <1>4, <2>1, <2>2
<1>7. Cached' = Cached
  <2>1. \A i \in 1 .. k : cells'[1][i] = cells[1][i]
    BY <1>6, LayerFacts
  <2> QED
    BY <1>4, <2>1 DEF Cached
<1>8. SessionInv'
  <2>1. ASSUME NEW i \in 1 .. Capacity PROVE cell[i] \in Hiddens
    <3>1. CASE i \notin k + 1 .. k + n
      <4>1. cell[i] = cells[g][i]
        BY <1>5, <3>1 DEF Overwrites
      <4> QED
        BY <1>2, <4>1 DEF IInv, SessionInv
    <3>2. CASE i \in k + 1 .. k + n
      <4>1. PICK j \in 1 .. n : i = k + j
        <5>1. i - k \in 1 .. n /\ i = k + (i - k)
          BY <1>3, <3>2
        <5> QED
          BY <5>1
      <4>2. CASE j \in done
        <5>1. cell[i] = graph.hidden[j]
          BY <1>5, <4>1, <4>2 DEF Overwrites
        <5>2. graph.hidden[j] = Lm!Hidden(graph.layer, Extended, k + j)
          BY <1>1 DEF GraphOf
        <5>3. Extended \in RowsOf(k + n)
          BY <1>3, JoinedFacts DEF Extended
        <5>4. k + j \in 1 .. k + n
          BY <1>3
        <5>5. Lm!Hidden(graph.layer, Extended, k + j) \in Hiddens
          BY <1>2, <1>3, <5>3, <5>4, HiddenFacts
        <5> QED
          BY <5>1, <5>2, <5>5
      <4>3. CASE j \notin done
        <5>1. cell[i] = cells[g][i]
          BY <1>5, <4>1, <4>3 DEF Overwrites
        <5> QED
          BY <1>2, <5>1 DEF IInv, SessionInv
      <4> QED
        BY <4>2, <4>3
    <3> QED
      BY <3>1, <3>2
  <2>2. cell \in [1 .. Capacity -> Hiddens]
    BY <1>5, <2>1 DEF Overwrites
  <2>3. cells' \in [Layers -> [1 .. Capacity -> Hiddens]]
    BY <1>2, <1>4, <2>2 DEF IInv, SessionInv
  <2>4. /\ cacheTokens' \in 0 .. Capacity /\ nextPosition' \in 0 .. Capacity
        /\ faults' \in 0 .. MaxFaults /\ resets' \in 0 .. MaxResets
    BY <1>4, KvAssumption DEF IInv, SessionInv
  <2>5. /\ graph'.running \in BOOLEAN
        /\ graph' = [running |-> graph'.running, past |-> graph'.past, batch |-> graph'.batch,
                     layer |-> graph'.layer, hidden |-> graph'.hidden,
                     mixed |-> graph'.mixed, count |-> graph'.count]
    BY <1>4 DEF Idle
  <2> QED
    BY <2>3, <2>4, <2>5 DEF SessionInv
<1>9. RowsInv'
  BY <1>4, <1>7 DEF IInv, RowsInv
<1>10. CellsInv'
  BY <1>4, <1>6, <1>7 DEF IInv, CellsInv
<1>11. GraphInv'
  BY <1>4 DEF GraphInv, Idle
<1> QED
  BY <1>4, <1>7, <1>8, <1>9, <1>10, <1>11 DEF IInv

(* A reset session holds no row.                                           *)
LEMMA ResetFacts ==
  ASSUME IInv, Reset
  PROVE  IInv' /\ Cached' = <<>> /\ UNCHANGED logits
<1>1. /\ ~graph.running /\ cacheTokens' = 0 /\ nextPosition' = 0
      /\ UNCHANGED <<cells, graph, logits, faults>>
      /\ resets < MaxResets /\ resets' = resets + 1
  BY DEF Reset
<1>2. SessionInv'
  BY <1>1, KvAssumption DEF IInv, SessionInv
<1>3. Cached' \in RowsOf(0) /\ Cached' = <<>>
  BY <1>1 DEF Cached, RowsOf
<1>4. RowsInv'
  <2>1. Len(Cached') = 0
    BY <1>3
  <2> QED
    BY <1>1, <1>3, <2>1 DEF RowsInv, Ordered
<1>5. CellsInv' /\ GraphInv'
  BY <1>1 DEF CellsInv, GraphInv
<1> QED
  BY <1>1, <1>2, <1>3, <1>4, <1>5 DEF IInv

-----------------------------------------------------------------------------
(* Every step keeps the invariant, and is a step of the uncached model or  *)
(* leaves the rows and the logits alone.                                   *)
LEMMA StepFacts ==
  ASSUME IInv, [Next]_kvars
  PROVE  IInv' /\ [Lm!Next]_<<Cached, logits>>
<1>1. ASSUME NEW tokens \in Texts, NEW start \in 0 .. Capacity - 1, Prefill(tokens, start)
      PROVE  IInv' /\ UNCHANGED <<Cached, logits>>
  BY <1>1, PrefillFacts
<1>2. ASSUME NEW c \in Conditions, NEW prefix \in 0 .. Capacity, NEW tokens \in Texts,
             PrefillConditioned(c, prefix, tokens)
      PROVE  IInv' /\ UNCHANGED <<Cached, logits>>
  <2>1. PICK n \in 0 .. Capacity : tokens \in [1 .. n -> Tokens]
    BY DEF Texts
  <2>2. Len(tokens) = n
    BY <2>1, RowsFacts
  <2>3. /\ cacheTokens = 0 /\ n >= 1 /\ prefix + n <= Capacity
        /\ Begin(0, ConditionedRows(c, prefix, tokens), n)
    BY <1>2, <2>2 DEF PrefillConditioned, Accepts
  <2>4. prefix + n >= 1 /\ n \in 0 .. prefix + n
    BY <2>3
  <2> QED
    BY <2>1, <2>3, <2>4, ConditionedFacts
<1>3. ASSUME NEW c \in Conditions, NEW prefix \in 0 .. Capacity, PrefillPrefix(c, prefix)
      PROVE  IInv' /\ UNCHANGED <<Cached, logits>>
  <2>1. /\ cacheTokens = 0 /\ prefix \in 1 .. Capacity
        /\ Begin(0, ConditionedRows(c, prefix, <<>>), 0)
    BY <1>3 DEF PrefillPrefix
  <2>2. /\ 0 \in 0 .. Capacity /\ prefix + 0 <= Capacity /\ prefix + 0 >= 1
        /\ 0 \in 0 .. prefix + 0
    BY <2>1, KvAssumption
  <2>3. <<>> \in [1 .. 0 -> Tokens]
    OBVIOUS
  <2> QED
    BY <2>1, <2>2, <2>3, ConditionedFacts
<1>4. CASE RunLayer
  BY <1>4, RunLayerFacts
<1>5. CASE Finish
  BY <1>5, FinishFacts DEF Lm!Next
<1>6. ASSUME NEW done \in SUBSET (1 .. Len(graph.batch)), GraphFails(done)
      PROVE  IInv' /\ UNCHANGED <<Cached, logits>>
  BY <1>6, GraphFailsFacts
<1>7. CASE Reset
  BY <1>7, ResetFacts DEF Lm!Next, Lm!Reset
<1>8. CASE UNCHANGED kvars
  <2>1. UNCHANGED <<Cached, Extended, logits, cells, cacheTokens, nextPosition, graph, faults, resets>>
    BY <1>8 DEF kvars, Cached, Extended
  <2>2. IInv'
    BY <2>1 DEF IInv, SessionInv, RowsInv, CellsInv, GraphInv, GraphOf
  <2> QED
    BY <2>1, <2>2
<1> QED
  BY <1>1, <1>2, <1>3, <1>4, <1>5, <1>6, <1>7, <1>8 DEF Next

(* The invariant holds throughout.                                         *)
LEMMA Invariant == Spec => []IInv
<1>1. Init => IInv
  BY InitIInv
<1>2. IInv /\ [Next]_kvars => IInv'
  BY StepFacts
<1> QED
  BY <1>1, <1>2, PTL DEF Spec

(* RowsAreSound follows from it.                                           *)
LEMMA SoundFacts == IInv => RowsAreSound
<1> SUFFICES ASSUME IInv PROVE RowsAreSound
  OBVIOUS
<1>1. cacheTokens \in Nat /\ Cached \in RowsOf(cacheTokens) /\ Ordered(Cached)
  BY KvAssumption DEF IInv, SessionInv, RowsInv
<1>2. Len(Cached) = cacheTokens
  BY <1>1, RowsFacts DEF RowsOf
<1>3. PositionsAreConsecutive
  BY <1>1, <1>2 DEF PositionsAreConsecutive, Ordered, IInv, RowsInv
<1>4. ConditionComesFirst
  BY <1>1, <1>2 DEF ConditionComesFirst, Ordered
<1>5. TypeOK
  <2>1. ASSUME graph.running
        PROVE  /\ graph.batch \in Lm!Batches
               /\ graph.past + Len(graph.batch) <= Capacity
               /\ graph.layer \in 0 .. Lm!LayerCount
               /\ graph.count \in 0 .. Len(graph.batch)
    <3>1. PICK n \in 1 .. Capacity : GraphOf(n)
      BY <2>1 DEF IInv, GraphInv
    <3>2. Len(graph.batch) = n
      BY <3>1, RowsFacts DEF GraphOf, RowsOf
    <3>3. graph.batch \in Lm!Batches
      BY <3>1 DEF GraphOf, RowsOf, Lm!Batches
    <3> QED
      BY <3>1, <3>2, <3>3 DEF GraphOf
  <2> QED
    BY <2>1 DEF IInv, SessionInv, TypeOK
<1> QED
  BY <1>3, <1>4, <1>5 DEF RowsAreSound

(* The rows that count carry consecutive positions within the context,     *)
(* behind conditioning that starts at position 0, through failed and       *)
(* forgotten appends.  (kv_session::prefill*, reset)                       *)
THEOREM RowsStaySound == Spec => []RowsAreSound
  BY Invariant, SoundFacts, PTL

(* A session answers as the uncached model would on everything appended    *)
(* since the last reset: failed graphs and forgotten rows leave nothing    *)
(* that a later answer depends on.  (src/src/levo-kv.cpp, levo-lm.cpp)     *)
THEOREM SessionImplementsUncachedLm == Spec => ImplementsUncachedLm
<1>1. Init => Lm!Init
  BY DEF Init, Lm!Init, Cached
<1>2. IInv /\ [Next]_kvars => [Lm!Next]_<<Cached, logits>>
  BY StepFacts
<1> QED
  BY <1>1, <1>2, Invariant, PTL DEF Spec, ImplementsUncachedLm, Lm!Spec
=============================================================================
