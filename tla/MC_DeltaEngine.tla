---------------------------- MODULE MC_DeltaEngine ----------------------------
(* Chunk payloads of one and two bytes; an earlier file is one of them.     *)
EXTENDS DeltaEngine

MCPayloads == {<<0>>, <<1>>, <<0, 1>>}
===============================================================================
