----------------------------- MODULE MCTextStream -----------------------------
(* One request.  The bytes stand for the ranges that UTF-8 tells apart, and a *)
(* token has one or two of them.                                              *)
EXTENDS TextStream

Bytes == {65, 130, 150, 170, 193, 195, 224, 237, 240, 244}
MCPieces == {<<a>> : a \in Bytes} \cup {<<a, b>> : a \in Bytes \ {65}, b \in {130, 150, 170}}
=============================================================================
