------------------------------ MODULE Listener ------------------------------
(***************************************************************************)
(* Starting and stopping server processes (main.rs, config.rs, and serve   *)
(* in transport/grpc/server.rs).  A process reads its configuration, opens *)
(* the engine and only then binds its address; on a Unix socket path it    *)
(* first removes what it takes for the stale socket of a dead server, and  *)
(* removes the path again when it stops.  All processes here are given the *)
(* same path and the same port; each step is one call to the file system,  *)
(* so that processes may come between, and anybody else who puts something *)
(* there.                                                                  *)
(***************************************************************************)
EXTENDS Integers

CONSTANTS
    Processes, \* server processes
    Configs,   \* what their configuration files say
    None,      \* Rust's None
    MaxKills   \* bound: how often a process is killed

Absent == "absent"
Strays == {"file", "dangling link"} \* what may be at the path that is not a socket

\* AppConfig.  Of an address only its kind matters: it is blank after trim(), it looks
\* like a path, or neither.
Config ==
    [listen_addr : {"blank", "path", "host"}, listen_port : Nat \union {None},
     flush_threshold_count : Nat, default_series_max_bytes : Nat \union {None}]
NoConfig ==
    [listen_addr |-> "blank", listen_port |-> None, flush_threshold_count |-> 0,
     default_series_max_bytes |-> None]

ASSUME ListenerAssumption ==
    /\ Configs \subseteq Config
    /\ None \notin Nat
    /\ Processes \intersect ({Absent} \union Strays) = {}
    /\ MaxKills \in Nat

VARIABLES
    node,   \* what is at the path: nothing, a stray, or the socket of a process
    pc,     \* where a process is in main
    config, \* the configuration it runs with
    kills,  \* how many were killed
    alone,  \* processes that no other one has run beside since they started, and ...
    left,   \* ... whether one of those that run or ran beside each other left, or others than
            \* servers changed the path, and ...
    ahead   \* ... processes that looked at the path or bound it before what is there came
            \* (the three are history only)

history == <<alone, left, ahead>>
vars == <<node, pc, config, kills, history>>

-----------------------------------------------------------------------------
(* config.rs                                                               *)

Validates_Mutant(c) == c.listen_addr # "blank" /\ c.default_series_max_bytes # 0

\* validate
Validates(c) ==
    /\ c.listen_addr # "blank"
    /\ c.flush_threshold_count # 0
    /\ c.default_series_max_bytes # 0

\* listen_endpoint: which endpoint an address and a port mean, if any.
Endpoint(c) ==
    IF c.listen_port # None /\ c.listen_addr # "path" THEN "tcp"
    ELSE IF c.listen_port = None /\ c.listen_addr = "path" THEN "unix"
    ELSE "error"

-----------------------------------------------------------------------------
(* main and serve                                                          *)

Up(p) == pc[p] # "down"
GoTo(p, place) == pc' = [pc EXCEPT ![p] = place]

\* The process ends, by itself or not.
End(p) == GoTo(p, "down") /\ config' = [config EXCEPT ![p] = NoConfig]

\* load_from_cli, load_from_path and listen_endpoint.  A process whose arguments or
\* file are refused ends with nothing done, which is no step.
Start(p) ==
    /\ ~Up(p)
    /\ \E c \in Configs :
        /\ Validates(c) /\ Endpoint(c) # "error"
        /\ config' = [config EXCEPT ![p] = c]
    /\ GoTo(p, "open")
    /\ IF \A q \in Processes : ~Up(q) THEN alone' = {p} /\ left' = FALSE
                                     ELSE alone' = {} /\ UNCHANGED left
    /\ ahead' = ahead \ {p}
    /\ UNCHANGED <<node, kills>>

\* Engine::open, which Storage models.
Opened(p) ==
    /\ pc[p] = "open"
    /\ GoTo(p, IF Endpoint(config[p]) = "unix" THEN "exists" ELSE "bind port")
    /\ UNCHANGED <<node, config, kills, history>>

OpenFails(p) == pc[p] = "open" /\ End(p) /\ UNCHANGED <<node, kills, history>>

\* serve_tcp: a port has one listener.
BindPort(p) ==
    /\ pc[p] = "bind port"
    /\ IF \E q \in Processes : pc[q] = "serve" /\ Endpoint(config[q]) = "tcp"
       THEN End(p)
       ELSE GoTo(p, "serve") /\ UNCHANGED config
    /\ UNCHANGED <<node, kills, history>>

\* cleanup_stale_unix_socket: path.exists() follows links, ...
Exists(p) ==
    /\ pc[p] = "exists"
    /\ GoTo(p, IF node \in {Absent, "dangling link"} THEN "bind" ELSE "inspect")
    /\ UNCHANGED <<node, config, kills, history>>

IsStale_Mutant(n) == n # Absent
IsStale_Mutant2(n) == n \in Processes /\ pc[n] = "serve"
IsStale(n) == n \in Processes

\* ... symlink_metadata fails if the node is gone by now, and what is not a socket is an
\* error, ...
Inspect(p) ==
    /\ pc[p] = "inspect"
    /\ IF IsStale(node) THEN GoTo(p, "remove") /\ UNCHANGED config ELSE End(p)
    /\ UNCHANGED <<node, kills, history>>

\* ... and whatever is there when remove_file runs goes.
RemoveStale(p) ==
    /\ pc[p] = "remove"
    /\ node' = Absent
    /\ IF node # Absent THEN GoTo(p, "bind") /\ UNCHANGED config ELSE End(p)
    /\ UNCHANGED <<kills, history>>

Bind_Mutant(p) ==
    /\ pc[p] = "bind"
    /\ IF node = Absent
       THEN node' = p /\ GoTo(p, "serve") /\ UNCHANGED config
       ELSE node' = Absent /\ End(p)
    /\ UNCHANGED <<kills, history>>

\* A path that exists cannot be bound.  UnixSocketCleanup does not exist yet, so a process
\* that fails here leaves the path alone.
Bind(p) ==
    /\ pc[p] = "bind"
    /\ IF node = Absent
       THEN node' = p /\ GoTo(p, "serve") /\ UNCHANGED config
       ELSE End(p) /\ UNCHANGED node
    /\ UNCHANGED <<kills, history>>

\* serve ends or is dropped: the listener is closed, ...
Stop(p) ==
    /\ pc[p] = "serve"
    /\ IF Endpoint(config[p]) = "unix" THEN GoTo(p, "clean up") /\ UNCHANGED config ELSE End(p)
    /\ UNCHANGED <<node, kills, history>>

CleanUp_Mutant(p) ==
    /\ pc[p] = "clean up"
    /\ End(p)
    /\ left' = TRUE
    /\ UNCHANGED <<node, kills, alone, ahead>>

\* ... then UnixSocketCleanup removes whatever is at the path.
CleanUp(p) ==
    /\ pc[p] = "clean up"
    /\ node' = Absent
    /\ End(p)
    /\ left' = TRUE
    /\ UNCHANGED <<kills, alone, ahead>>

\* Nothing handles a signal: a process that is killed leaves its socket.
Kill(p) ==
    /\ Up(p) /\ kills < MaxKills
    /\ kills' = kills + 1
    /\ End(p)
    /\ alone' = alone \ {p} /\ left' = TRUE
    /\ UNCHANGED <<node, ahead>>

\* Anybody else may at any time remove what is at the path or put something there that is
\* not a socket.  A server that is about to remove a stale socket, or that has bound the
\* path, will not look there again.
Meddle ==
    /\ node' \in {Absent} \union Strays
    /\ alone' = {} /\ left' = TRUE
    /\ ahead' = {p \in Processes : pc[p] \in {"remove", "serve", "clean up"}}
    /\ UNCHANGED <<pc, config, kills>>

Init ==
    /\ node \in {Absent} \union Strays
    /\ pc = [p \in Processes |-> "down"]
    /\ config = [p \in Processes |-> NoConfig]
    /\ kills = 0 /\ alone = {} /\ left = FALSE /\ ahead = {}

\* What a process does on its way to serving, and on its way out.
Proceed(p) ==
    \/ Opened(p) \/ OpenFails(p)
    \/ BindPort(p)
    \/ Exists(p) \/ Inspect(p) \/ RemoveStale(p) \/ Bind(p)
    \/ CleanUp(p)

Next ==
    \/ \E p \in Processes : Start(p) \/ Proceed(p) \/ Stop(p) \/ Kill(p)
    \/ Meddle

Spec == Init /\ [][Next]_vars

\* A process that runs keeps running; nobody has to start, stop or kill one.
FairSpec == Spec /\ \A p \in Processes : WF_vars(Proceed(p))

-----------------------------------------------------------------------------
(* Properties.                                                             *)

\* Every variable has its type, and the engine is opened with a configuration that is
\* as Storage assumes it.
TypeOK ==
    /\ node \in {Absent} \union Strays \union Processes
    /\ pc \in [Processes -> {"down", "open", "exists", "inspect", "remove", "bind",
                             "bind port", "serve", "clean up"}]
    /\ config \in [Processes -> Config]
    /\ kills \in Nat /\ alone \subseteq Processes /\ left \in BOOLEAN /\ ahead \subseteq Processes
    /\ \A p \in Processes : Up(p) =>
        /\ config[p].flush_threshold_count \in Nat \ {0}
        /\ config[p].default_series_max_bytes \in (Nat \ {0}) \union {None}

\* A server that starts where something else than a socket is leaves it there, however long
\* it takes and whatever other servers do: one that removes a file or a link had found a
\* socket or bound the path before that file or link came.  (Those do remove it: remove_file
\* takes what is there by then, and UnixSocketCleanup does not look.)
StrayKept ==
    [][\A p \in Processes \ ahead : node \in Strays /\ pc'[p] # pc[p] => node' = node]_vars

OnSocket(p) == pc[p] = "serve" /\ Endpoint(config[p]) = "unix"
Settled == \A p \in Processes : pc[p] \in {"down", "serve"}

\* Servers that start at the same time or while others serve may take the path from
\* each other, and some fail; but clients reach one of them when all is done, as long
\* as none of them stops or is killed and nobody else changes the path.
OneReachable ==
    ~left /\ Settled /\ (\E p \in Processes : OnSocket(p)) =>
        \E p \in Processes : OnSocket(p) /\ node = p

\* Servers that were not killed leave no socket behind, not even if they ran side by side.
NoLeftover == (\A p \in Processes : ~Up(p)) /\ kills = 0 => node \notin Processes

\* No crash can keep a server from starting again: a process that starts alone and opens
\* its engine comes to serve where clients reach it, whatever sockets others have left,
\* unless it is killed or disturbed or there is something else than a socket at its path.
RestartServes ==
    \A p \in Processes :
        /\ p \in alone /\ pc[p] \in {"exists", "bind port"} /\ node \notin Strays
        ~> \/ pc[p] = "serve" /\ (OnSocket(p) => node = p)
           \/ p \notin alone

=============================================================================
