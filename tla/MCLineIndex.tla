----------------------------- MODULE MCLineIndex -----------------------------
\* Texts of up to four characters of one to three bytes, newlines among them.
EXTENDS LineIndex, SequencesExt
Utf8Of(chars) ==
  FlattenSeq([k \in DOMAIN chars |->
    CASE chars[k] = 0 -> <<"newline">> [] chars[k] = 1 -> <<"ascii">>
      [] OTHER -> [b \in 1..chars[k] |-> IF b = 1 THEN "leading" ELSE "continuation"]])
MCSourceTexts == {Utf8Of(chars) : chars \in UNION {[1..n -> 0..3] : n \in 0..4}}
==============================================================================
