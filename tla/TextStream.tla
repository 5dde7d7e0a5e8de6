----------------------------- MODULE TextStream -----------------------------
(***************************************************************************)
(* The text of a request: each token's bytes go through the request's      *)
(* Utf8Buffer into the text of an event, and what the buffer still holds   *)
(* comes with the terminal event (src/src/engine.cpp, publishing loop and  *)
(* finish()).  The events are those of RequestStream; a client takes them  *)
(* when it likes and strings their texts together.                         *)
(***************************************************************************)
EXTENDS RequestStream, Utf8

CONSTANTS Pieces,      \* the byte strings of tokens
          BytesMax     \* bound: the bytes of a request

ASSUME TextAssumption == Pieces \subseteq Seq(0..255)

VARIABLES fed,         \* all bytes so far
          pending,     \* Active::text
          texts,       \* the texts of the events in `buffer`
          taken,       \* what the client has strung together
          cut          \* whether the client was too slow

textVars == <<fed, pending, texts, taken, cut>>
allVars  == <<streamVars, textVars>>

TextInit ==
  /\ StreamInit
  /\ fed = [r \in Requests |-> <<>>] /\ pending = fed /\ taken = fed /\ texts = fed
  /\ cut = [r \in Requests |-> FALSE]

Begin(r) == Submit(r) /\ UNCHANGED textVars

\* finish(): the terminal event takes along what is left.
EndText(r, bytes) ==
  /\ PutTerminal(r)
  /\ texts' = [texts EXCEPT ![r] = Append(@, Drain(bytes, TRUE).text)]
  /\ pending' = [pending EXCEPT ![r] = <<>>]

\* A token: its event is put, or the client's buffer is full and the text of
\* the event is lost with it.
Token(r, piece) ==
  LET drained == Drain(pending[r] \o piece, FALSE)
  IN /\ phase[r] = "open" /\ Len(fed[r]) + Len(piece) <= BytesMax
     /\ fed' = [fed EXCEPT ![r] = @ \o piece]
     /\ \/ /\ PutToken(r)
           /\ texts' = [texts EXCEPT ![r] = Append(@, drained.text)]
           /\ pending' = [pending EXCEPT ![r] = drained.pending]
           /\ UNCHANGED cut
        \/ /\ Len(buffer[r]) >= Capacity
           /\ EndText(r, drained.pending)
           /\ cut' = [cut EXCEPT ![r] = TRUE]
     /\ UNCHANGED taken

\* The last token is followed by the end at once; a cancellation or a failure
\* ends the text anywhere.
End(r) == EndText(r, pending[r]) /\ UNCHANGED <<fed, taken, cut>>

ClientTakes(r) ==
  /\ Take(r)
  /\ taken' = [taken EXCEPT ![r] = @ \o Head(texts[r])]
  /\ texts' = [texts EXCEPT ![r] = Tail(@)]
  /\ UNCHANGED <<fed, pending, cut>>

TextNext ==
  \E r \in Requests : \/ Begin(r) \/ End(r) \/ ClientTakes(r)
                      \/ \E piece \in Pieces : Token(r, piece)

TextSpec == TextInit /\ [][TextNext]_allVars

-----------------------------------------------------------------------------
\* However the tokens cut the bytes, the text that goes to a client that keeps
\* up is what the bytes mean as a whole: a character that is cut between tokens
\* arrives whole, every event carries whole characters only, and no more than
\* the beginning of one character is ever held back.
TextIsExact ==
  \A r \in Requests :
    /\ Len(pending[r]) <= 3
    /\ ~cut[r] =>
         LET sent == taken[r] \o FlattenSeq(texts[r])
         IN Meaning(fed[r]) = IF pending[r] = <<>> THEN sent ELSE Append(sent, Replacement)
=============================================================================
