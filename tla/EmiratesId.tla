----------------------------- MODULE EmiratesId -----------------------------
(***************************************************************************)
(* The Emirates ID of the identity form: modules/emirates-id/parser.ts and *)
(* EmiratesIdSchema of lib/validations/kyc.ts.  A typed text is a sequence *)
(* of digits, separators and letters; the canonical form of a number is    *)
(* its fifteen digits, since the dashes are put back where they belong.    *)
(***************************************************************************)
EXTENDS Integers, Sequences, SequencesExt

\* The characters of a text: a digit stands for itself.
Digit == 0..9
Separator == 10  \* a dash or white space
Letter == 11     \* anything else

Invalid == <<>>  \* the null of normaliseEmiratesId

\* input.replace(/[\s-]/g, ''): what is left of the first i characters, for every i.
StripSeparators(text) ==
    LET kept[i \in 0..Len(text)] ==
          IF i = 0 THEN <<>>
          ELSE IF text[i] = Separator THEN kept[i - 1] ELSE Append(kept[i - 1], text[i])
    IN kept[Len(text)]

\* The number of a text: EID_DIGIT_RE and the prefix 784.
NormaliseEmiratesId(text) ==
    LET digits == StripSeparators(text) IN
    IF /\ Len(digits) = 15
       /\ \A i \in 1..15 : digits[i] \in Digit
       /\ SubSeq(digits, 1, 3) = <<7, 8, 4>>
    THEN digits
    ELSE Invalid

\* Bug: a doubled digit above nine is taken modulo ten instead of minus nine.
DoubledModuloBug(d) == (2 * d) % 10

Doubled(d) == IF 2 * d > 9 THEN 2 * d - 9 ELSE 2 * d

\* From the right: every second digit is doubled, so the even positions of fifteen.
LuhnCheck(number) ==
    FoldSeq(+, 0, [i \in 1..15 |-> IF i % 2 = 0 THEN Doubled(number[i]) ELSE number[i]])
      % 10 = 0

\* EmiratesIdSchema: an accepted text is stored in its canonical form.
Accepted(text) ==
    NormaliseEmiratesId(text) # Invalid /\ LuhnCheck(NormaliseEmiratesId(text))
-----------------------------------------------------------------------------
Mistyped(text) == {[text EXCEPT ![i] = c] : i \in DOMAIN text, c \in Digit \cup {Letter}}

Swapped(text, i) == [text EXCEPT ![i] = text[i + 1], ![i + 1] = text[i]]

\* A swap of a nine and a zero is the one the check digit does not see.
NineZero(a, b) == {a, b} = {9, 0}

\* parser.ts: the check digit "is the documented behaviour of the EID system".  One
\* wrong character, or two neighbours typed in the wrong order, never turns an accepted
\* number into another accepted one, whatever the separators; nine and zero excepted.
TypoCaught(text) ==
    Accepted(text) =>
      /\ \A other \in Mistyped(text) :
           Accepted(other) => NormaliseEmiratesId(other) = NormaliseEmiratesId(text)
      /\ \A i \in 1..(Len(text) - 1) : ~NineZero(text[i], text[i + 1]) =>
           (Accepted(Swapped(text, i)) =>
              NormaliseEmiratesId(Swapped(text, i)) = NormaliseEmiratesId(text))
=============================================================================
