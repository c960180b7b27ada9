---- MODULE MCDispatcher ----
EXTENDS Dispatcher, TLC

\* Registers of four bits: two reset lines with a bit beside each.
MCReset == 0 :> 1 @@ 1 :> 3
MCBrdDefault == 1 :> {1, 2, 3}
MCBrdValues == {{1}, {0, 3}}
MCMacValues == {{1}, {0, 1}}
MCLmsDefault == 0 :> 0 @@ 1 :> 1
\* Commands that share devices; the suites share none.
MCSuites == {{"LMS7002_WR", "LMS7002_RD", "LMS_RST", "BRDSPI16_WR", "BRDSPI16_RD",
              "GET_INFO", "OTHER"},
             {"ADF4002_WR", "ANALOG_VAL_WR", "ANALOG_VAL_RD"},
             {"SI5351_WR", "SI5351_RD"}}
====
