-------------------------------- MODULE Utf8 --------------------------------
(***************************************************************************)
(* Utf8Buffer of src/src/utf8.cpp: what drain() takes from the front of    *)
(* the pending bytes.  Bytes are the numbers 0..255; a text is a sequence  *)
(* of characters, and a character is the tuple of its bytes.               *)
(***************************************************************************)
EXTENDS Integers, Sequences, SequencesExt

Replacement == <<239, 191, 189>>     \* U+FFFD

\* The length that a lead byte announces; 0 if it is no lead byte.
Width(lead) ==
  CASE lead < 128        -> 1
    [] lead \in 194..223 -> 2
    [] lead \in 224..239 -> 3
    [] lead \in 240..244 -> 4
    [] OTHER             -> 0

\* Slip: overlong forms, surrogates and what lies beyond U+10FFFF pass.
SecondAny(lead, byte) == byte \in 128..191

\* The second byte, whose range depends on the lead byte.
Second(lead, byte) ==
  /\ byte \in 128..191
  /\ lead = 224 => byte >= 160
  /\ lead = 237 => byte < 160
  /\ lead = 240 => byte >= 144
  /\ lead = 244 => byte < 144

\* The bytes at the front are a character, or the beginning of one.
Valid(bytes) ==
  LET width == Width(bytes[1])
  IN /\ width # 0
     /\ \A i \in 2..width : i <= Len(bytes) =>
          IF i = 2 THEN Second(bytes[1], bytes[2]) ELSE bytes[i] \in 128..191

Short(bytes) == Len(bytes) < Width(bytes[1])

Waits(bytes, final) == Valid(bytes) /\ Short(bytes) /\ ~final

\* How many bytes one round of the loop takes, and what it puts out.
Step(bytes) ==
  IF Valid(bytes) /\ ~Short(bytes) THEN [taken |-> Width(bytes[1]), char |-> SubSeq(bytes, 1, Width(bytes[1]))]
  ELSE [taken |-> IF Valid(bytes) THEN Len(bytes) ELSE 1, char |-> Replacement]

\* drain(): the text, and what stays pending.
Drain(bytes, final) ==
  LET from(p) == SubSeq(bytes, p, Len(bytes))
      loop[p \in 1..(Len(bytes) + 1)] ==
        IF from(p) = <<>> \/ Waits(from(p), final) THEN [text |-> <<>>, pending |-> from(p)]
        ELSE LET step == Step(from(p))
                 rest == loop[p + step.taken]
             IN [rest EXCEPT !.text = <<step.char>> \o @]
  IN loop[1]

-----------------------------------------------------------------------------
(***************************************************************************)
(* The meaning of a whole byte string, by the table of well-formed byte    *)
(* sequences of the Unicode standard (table 3-7) and without a loop.       *)
(***************************************************************************)
Follows(b1) ==    \* the second bytes of the table
  CASE b1 \in 194..223 \/ b1 \in 225..236 \/ b1 \in 238..239 \/ b1 \in 241..243 -> 128..191
    [] b1 = 224 -> 160..191
    [] b1 = 237 -> 128..159
    [] b1 = 240 -> 144..191
    [] b1 = 244 -> 128..143
    [] OTHER    -> {}

Size(b1) == IF b1 < 128 THEN 1 ELSE IF b1 < 224 THEN 2 ELSE IF b1 < 240 THEN 3 ELSE 4

Begins(bytes) ==
  /\ bytes[1] < 128 \/ Follows(bytes[1]) # {}
  /\ Len(bytes) <= Size(bytes[1])
  /\ Len(bytes) >= 2 => bytes[2] \in Follows(bytes[1])
  /\ \A i \in 3..Len(bytes) : bytes[i] \in 128..191
WellFormed(bytes) == Begins(bytes) /\ Len(bytes) = Size(bytes[1])

\* Position by position: a character where one starts, nothing inside it, one
\* replacement for an unfinished character at the very end, and one for every
\* other byte.
Meaning(bytes) ==
  LET n == Len(bytes)
      characters == {w \in (1..n) \X (1..n) : w[1] <= w[2] /\ WellFormed(SubSeq(bytes, w[1], w[2]))}
      tails == {p \in 1..n : Begins(SubSeq(bytes, p, n)) /\ ~WellFormed(SubSeq(bytes, p, n))}
      at(p) == IF \E w \in characters : w[1] = p
               THEN LET w == CHOOSE w \in characters : w[1] = p IN <<SubSeq(bytes, w[1], w[2])>>
               ELSE IF \E w \in characters : p \in w[1]..w[2] THEN <<>>
               ELSE IF \E q \in tails : q < p THEN <<>>
               ELSE <<Replacement>>
  IN FlattenSeq([p \in 1..n |-> at(p)])
=============================================================================
