------------------------------ MODULE MC_RpcQspi ------------------------------
(* Two parts of 16 MB, one of which has a choice of erase sizes, two larger *)
(* ones, and one that no table lists.                                       *)
EXTENDS RpcQspi, TLC

MCCellsOf == 4 :> 2 @@ 64 :> 4 @@ 256 :> 8
MCParts == {"S25FS128S", "S25FS512S", "W25Q128JV", "MT25QL256", "another"}
MCCalls ==
  {<<"identify", 0, 0>>, <<"bulkErase", 0, 0>>,
   <<"erase", 1, 5>>, <<"erase", 9, 9>>,
   <<"parameterErase", 3, 4>>, <<"parameterErase", 10, 10>>,
   <<"save", 3, 4>>, <<"save", 9, 10>>, <<"page", 4, 4>>, <<"page", 10, 10>>,
   <<"read", 3, 4>>, <<"sectorRead", 9, 9>>}
=============================================================================
