----------------------------- MODULE MCListener -----------------------------
(* Values for the constants of Listener, for TLC.                          *)
EXTENDS Listener

CONSTANTS p1, p2, p3

\* Every combination of a kind of address, a port and limits that are zero or not.
SomeConfigs ==
    [listen_addr : {"blank", "path", "host"}, listen_port : {None, 1},
     flush_threshold_count : {0, 1}, default_series_max_bytes : {None, 0, 1}]

=============================================================================
