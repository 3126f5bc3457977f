---------------------------- MODULE MCSseRoundTrip ----------------------------
EXTENDS SseRoundTrip

MCTypes == { << >>, << 32, 101 >>, << 101, 10 >>, << 101, 101, 101, 101 >> }
MCDatas ==
  { << >>, << 32, 120 >>, << 10 >>, << 120, 10, 195, 164 >>, << 58, 120, 10 >>,
    << 120, 13 >>, << 120, 120, 120, 120, 120 >>, << 255, 120 >>, << 120, 195 >> }
MCChunks == {}

=============================================================================
