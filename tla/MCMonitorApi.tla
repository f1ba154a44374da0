---------------------------- MODULE MCMonitorApi ----------------------------
(***************************************************************************)
(* Instances of MonitorApi for TLC.                                        *)
(***************************************************************************)
EXTENDS MonitorApi, TLC

OmitAll == [mode |-> Unset, keep_alive_enabled |-> Unset,
            keep_alive_interval_seconds |-> Unset, keep_alive_path |-> Unset,
            check_interval_seconds |-> Unset]

WithKeepAlive == [mode |-> "monitor_and_keep_alive", keep_alive_enabled |-> TRUE,
                  keep_alive_interval_seconds |-> 1, keep_alive_path |-> "/p",
                  check_interval_seconds |-> 1]

Disable     == [OmitAll EXCEPT !.keep_alive_enabled = FALSE]
Enable      == [OmitAll EXCEPT !.keep_alive_enabled = TRUE, !.mode = "keep_alive",
                               !.keep_alive_interval_seconds = 2]
SetInterval == [OmitAll EXCEPT !.keep_alive_interval_seconds = 2]
NullEnabled == [OmitAll EXCEPT !.keep_alive_enabled = NULL]

Updates == {Disable, Enable, SetInterval, NullEnabled}
Toggles == {Disable, Enable, SetInterval}
OnlyWithKeepAlive == {WithKeepAlive}

\* Handlers of the same kind are interchangeable.
RequestSymmetry == Permutations(Requests)
=============================================================================
