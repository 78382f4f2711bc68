------------------------ MODULE MCPrefixBlockCache ------------------------
(* PrefixBlockCache with prompts that grow and branch, for TLC.            *)
EXTENDS PrefixBlockCache

MCPrompts == {<<>>, <<1>>, <<1, 1>>, <<1, 2>>, <<1, 1, 1>>, <<1, 1, 2>>}
===========================================================================
