------------------------------- MODULE MCEngine -------------------------------
(***************************************************************************)
(* Instances of the Engine for TLC.  Three requests whose prompts share    *)
(* their first block: r1 and r3 in one namespace, r2 in another and under  *)
(* the id of r1, so that it can only follow it.                            *)
(***************************************************************************)
EXTENDS EngineProperties

CONSTANTS r1, r2, r3

Three(x, y, z) == [r \in Requests |-> IF r = r1 THEN x ELSE IF r = r2 THEN y ELSE z]
MCIdOf      == Three("a", "a", "b")
MCPrompt    == Three(<<1, 1, 2>>, <<1, 1, 2>>, <<1, 1, 3>>)
MCMaxTokens == Three(2, 1, 2)
MCNamespace == Three("x", "y", "x")
=============================================================================
