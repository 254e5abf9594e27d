----------------------------- MODULE MC_RunLoop -----------------------------
(* Machines: start-up options, each with a small guest and host.           *)
EXTENDS RunLoop

MCIrqs == {27, 30, 33, 34}
MCPrios == {0, 255}
MCTargets == {0}
TimerIds == {27, 30}
Arm == {{"ENABLE"}, {"ENABLE", "IMASK"}}

\* Both timers against the host clock, with offsets that wrap.
RealTime ==
  [RtClock |-> TRUE, Tty |-> FALSE, Engine |-> "pd", Devices |-> {"gic", "uart"},
   MaxInsn |-> 4, Horizon |-> 3, HostBytes |-> {}, Ids |-> TimerIds,
   GuestOps |-> {"timer", "gic", "pstate", "wfi"},
   CtlVals |-> Arm, CvalVals |-> {1, 3}, TvalVals |-> {-3, 1}, RtcVals |-> {}]

\* AE_RTCLOCK=0 --no-pd, with two deadlines to jump to and reboots.
Deterministic ==
  [RealTime EXCEPT !.RtClock = FALSE, !.Engine = "interp", !.MaxInsn = 5,
                   !.Ids = {27},
                   !.GuestOps = {"timer", "gic", "wfi", "psci"},
                   !.CtlVals = {{"ENABLE"}}, !.CvalVals = {6, 8}, !.TvalVals = {}]

\* A terminal, the UART and the RTC.
Interactive ==
  [RealTime EXCEPT !.Tty = TRUE, !.Devices = {"gic", "uart", "rtc"}, !.MaxInsn = 3,
                   !.Horizon = 0, !.HostBytes = {"k", "l"}, !.Ids = {33},
                   !.GuestOps = {"gic", "wfi", "uart", "rtc", "psci"},
                   !.RtcVals = {0, 1}]

\* A raw --bin image.
Raw ==
  [RealTime EXCEPT !.RtClock = FALSE, !.Devices = {}, !.MaxInsn = 4,
                   !.GuestOps = {"timer", "pstate", "wfi", "compute"}, !.TvalVals = {1}]

MCMachines == {RealTime, Deterministic, Interactive, Raw}
=============================================================================
