---------------------------- MODULE MCPrefixIndex ----------------------------
(* Three sequences, two namespaces, and lists that share paths, end on the  *)
(* way of others, branch late or are no whole number of blocks.             *)
EXTENDS PrefixIndex

MCLists == {<<1, 2>>, <<1, 2, 1, 2>>, <<1, 2, 1, 3>>, <<1, 2, 1>>}
=============================================================================
