SPECIFICATION MainFairSpec
CONSTANTS Plls = {0, 1} Indexes = {1, 2} Timeout = 1 MaxCfg = 1 Budgets <- MCBudgets
  Garbage = {77} Masters = {fpga_spi0, dac_spi1, spi_2} AdcMaster = spi_2 MaxWrite = 2 MaxRead = 2
INVARIANTS StatusOfRequest AppliedWhenDone AdcAsWritten Exchanged BusIsOurs
PROPERTIES RequestServed SwitchFollowed
CHECK_DEADLOCK FALSE
