SPECIFICATION FairSpec
CONSTANTS
  Get <- MCGet
  Health <- MCHealth
  Peers = {"any", "whole"}
  Pieces <- MCPieces
  Cap = 6
  SendBound = 7
INVARIANTS AnswersAreTheRequests AnswersArriveWhole
PROPERTY OnlyAStalledPeerHoldsOthers
CHECK_DEADLOCK FALSE
