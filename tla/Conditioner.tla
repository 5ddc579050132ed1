---------------------------- MODULE Conditioner -----------------------------
(***************************************************************************)
(* levo-conditioner.cpp: the prefix of embedding rows CODES starts from.   *)
(* Lyrics and style are tokenized, cut or padded to their lengths, and the *)
(* lyrics carry a row for the section they are in.  A branch holds both    *)
(* towers' prefixes; there is one for the request and one for empty text.  *)
(* A column is the rows that are added up to it; the sums are left out.    *)
(***************************************************************************)
EXTENDS Integers, SequencesExt, FiniteSetsExt

CONSTANTS LyricsPrefix, PromptPrefix, StylePrefix,   (* lengths            *)
          MaxText, MaxStyle,   (* bounds: tokens of the two texts            *)
          Words,         (* ids of ordinary tokens and base specials       *)
          StructureIds   (* ids of the structure tokens                    *)

ConditionerAssumption ==
  LyricsPrefix \in Nat /\ StylePrefix \in Nat /\ PromptPrefix \in Nat \ {0, 1}

QwenPadId == 151643
ImStart == 151644
StructureBaseId == 151645
LyricsVocab == 151659
StyleVocab == 151652

VARIABLES lyrics, description, conditional, null, step

vars == <<lyrics, description, conditional, null, step>>

Nothing == [main |-> <<>>, detail |-> <<>>]
Texts(longest) == BoundedSeq(Words \cup StructureIds, longest)

Init ==
  /\ lyrics \in Texts(MaxText) /\ description \in Texts(MaxStyle)
  /\ conditional = Nothing /\ null = Nothing /\ step = "conditional"

(* The one tokenizer knows the structure tokens in any text.               *)
encode(text) == <<ImStart>> \o text

padded_tokens(text, length) ==
  LET ids == encode(text)
      content == IF Len(ids) < length THEN Len(ids) ELSE length
  IN  [ids |-> [t \in 1 .. length |-> IF t <= content THEN ids[t] ELSE QwenPadId],
       content |-> content]

(* Sections: from a structure token to the next one, or to the last        *)
(* content token.                                                          *)
Boundaries(padded) == {t \in 1 .. padded.content : padded.ids[t] \in StructureIds}
Later(padded, from) == {t \in Boundaries(padded) : t > from}
EndAtPadding(padded, from) ==
  IF Later(padded, from) = {} THEN Len(padded.ids) ELSE Min(Later(padded, from)) - 1
SectionEnd(padded, from) ==
  IF Later(padded, from) = {} THEN padded.content ELSE Min(Later(padded, from)) - 1

SectionOf(padded, t) == {b \in Boundaries(padded) : b <= t /\ t <= SectionEnd(padded, b)}
SectionRows(padded) ==
  [t \in 1 .. Len(padded.ids) |->
     IF SectionOf(padded, t) = {} THEN 0
     ELSE padded.ids[CHOOSE b \in SectionOf(padded, t) : TRUE] - StructureBaseId]

Column(table, token, row) == [table |-> table, token |-> token, row |-> row]

Embeds(text, length, vocab) == \A t \in 1 .. length : padded_tokens(text, length).ids[t] < vocab
LyricColumns(text) ==
  LET padded == padded_tokens(text, LyricsPrefix)
  IN  [t \in 1 .. LyricsPrefix |-> Column("lyrics", padded.ids[t], SectionRows(padded)[t])]
StyleColumns(text) ==
  [t \in 1 .. StylePrefix |-> Column("style", padded_tokens(text, StylePrefix).ids[t], 0)]

(* No audio prompt: its end-of-text row, then special-token frames.        *)
PromptColumns(tower) ==
  [t \in 1 .. PromptPrefix |-> Column(tower, IF t = 1 THEN "eot" ELSE "special", 0)]

Prefix(text, tower, style) == LyricColumns(text) \o PromptColumns(tower) \o StyleColumns(style)
BranchNotCleared(text, style) ==
  [main |-> Prefix(text, "mixed", style),
   detail |-> Prefix(text, "mixed", style) \o Prefix(text, "vocal+bgm", style)]
Branch(text, style) ==
  [main |-> Prefix(text, "mixed", style), detail |-> Prefix(text, "vocal+bgm", style)]

(* make_branch for the request, then for two empty texts.                  *)
MakeConditional ==
  /\ step = "conditional"
  /\ IF Embeds(lyrics, LyricsPrefix, LyricsVocab) /\ Embeds(description, StylePrefix, StyleVocab)
     THEN conditional' = Branch(lyrics, description) /\ step' = "null"
     ELSE step' = "failed" /\ UNCHANGED conditional
  /\ UNCHANGED <<lyrics, description, null>>

MakeNull ==
  /\ step = "null"
  /\ null' = Branch(<<>>, <<>>) /\ step' = "prepared"
  /\ UNCHANGED <<lyrics, description, conditional>>

Next == MakeConditional \/ MakeNull
Spec == Init /\ [][Next]_vars

-----------------------------------------------------------------------------
Prepared == step = "prepared"

(* The section a word belongs to is carried over from the word before it.  *)
Carried ==
  LET ids == encode(lyrics)
      row[t \in 1 .. LyricsPrefix] ==
        IF t > Len(ids) THEN 0
        ELSE IF ids[t] \in StructureIds THEN ids[t] - StructureBaseId
        ELSE IF t = 1 THEN 0 ELSE row[t - 1]
  IN  row

(* Each word of the lyrics is sung in the section of the last structure    *)
(* token before it, also when the lyrics are cut, and padding in none.     *)
WordsKeepTheirSection ==
  Prepared => \A t \in 1 .. LyricsPrefix : conditional.main[t].row = Carried[t]

(* Guidance subtracts the two branches, and both towers attend to one      *)
(* prefix: the branches have the same columns but for the text, and the    *)
(* towers the same ones but for the prompt, whatever the texts' lengths.   *)
IsPrompt(t) == LyricsPrefix < t /\ t <= LyricsPrefix + PromptPrefix
Columns == 1 .. LyricsPrefix + PromptPrefix + StylePrefix
BranchesAlign ==
  Prepared =>
    /\ {DOMAIN conditional.main, DOMAIN conditional.detail, DOMAIN null.main, DOMAIN null.detail}
         = {Columns}
    /\ \A t \in Columns :
        /\ conditional.main[t].table = null.main[t].table
        /\ IsPrompt(t) => conditional.main[t] = null.main[t] /\ conditional.detail[t] = null.detail[t]
        /\ ~IsPrompt(t) => conditional.main[t] = conditional.detail[t]
        /\ ~IsPrompt(t) /\ t \notin {1, LyricsPrefix + PromptPrefix + 1} =>
             null.main[t].token = QwenPadId /\ null.main[t].row = 0

(* "The checkpoint intentionally retains six unreachable style rows"       *)
(* (levo-model.cpp): the rows after the base tokenizer's ids.  The code     *)
(* does not keep this: a caption may name a section.                       *)
StyleRowsUnreachable ==
  Prepared =>
    \A t \in 1 .. StylePrefix :
      conditional.main[LyricsPrefix + PromptPrefix + t].token <= StructureBaseId
=============================================================================
