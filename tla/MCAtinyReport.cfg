SPECIFICATION ReportSpec
CONSTANTS
  Reports <- MCReports
  MAX_BUFFER_REPORT_CNT = 1
  StoringCnts <- MCStoring
  COAP_MAX_RETRANSMIT = 1
  Mishaps = {"attributes", "memory", "clock"}
CHECK_DEADLOCK FALSE
INVARIANTS CountIsLength
PROPERTIES ReportPromise InFlightEnds
