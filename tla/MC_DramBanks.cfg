SPECIFICATION Spec

CONSTANTS
  NumRanks     = 2
  NumBanks     = 2
  Row          = {1}
  T_RCD = 1
  T_RP = 1
  T_CAS = 2
  T_RAS = 2
  T_RC = 3
  T_CWD        = 1
  T_WR = 1
  T_WTR        = 1
  T_RTRS       = 1
  T_DATA_TRANS = 2
  T_RTP = 1
  T_CCD = 1
  T_XP         = 2
  T_XP_DLL = 3
  T_PD_MIN     = 1
  T_RRD        = 1
  T_FAW = 3
  T_REFI = 4
  T_RFC = 1
  MaxActs      = 2
  Batch = 2

INVARIANTS
  TypeOK
  BusNotShared
  RanksWhole

PROPERTIES
  RowsClosedInTime
  WindowRefreshed
