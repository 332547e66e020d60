SPECIFICATION MCSpec

CONSTANTS
  NumRanks     = 1
  NumBanks     = 2
  Row          = {1, 2}
  T_RCD        = 1
  T_RP         = 1
  T_CAS        = 1
  T_RAS        = 2
  T_RC         = 3
  T_CWD        = 1
  T_WR         = 1
  T_WTR        = 1
  T_RTRS       = 1
  T_DATA_TRANS = 1
  T_RTP        = 2
  T_CCD        = 1
  T_XP         = 2
  T_XP_DLL     = 3
  T_PD_MIN     = 1
  T_RRD        = 1
  T_FAW        = 1
  T_REFI       = 9
  T_RFC        = 1
  MaxActs      = 2
  Batch        = 1
  HI_WM        = 1
  LO_WM        = 0
  MaxReads     = 3
  MaxWrites    = 3

INVARIANTS
  OneCommandACycle

PROPERTIES
  OldestServed
