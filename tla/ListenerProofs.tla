---------------------------- MODULE ListenerProofs ----------------------------
(***************************************************************************)
(* However many server processes start, stop and are killed at one socket  *)
(* path, in whatever order of their calls, and whatever others put there:  *)
(* none that still had to look removes what is not a socket, those that    *)
(* end leave nothing, and of those that take the path from each other one  *)
(* stays reachable.                                                        *)
(***************************************************************************)
EXTENDS Listener, TLAPS

-----------------------------------------------------------------------------
(* The inductive invariant.                                                *)

Unix(p) == Endpoint(config[p]) = "unix"

\* A process that has bound the path, and has not yet left.
HasBound(p) == pc[p] \in {"serve", "clean up"} /\ Unix(p)

\* Only a process with a Unix socket works on the path.
PlacesOK ==
    \A p \in Processes : /\ pc[p] \in {"exists", "inspect", "remove", "bind", "clean up"} => Unix(p)
                         /\ pc[p] = "bind port" => ~Unix(p)

\* Where something else than a socket is nobody comes to remove it or to serve, but for
\* those that looked or bound the path before it came.
StrayUntouched ==
    node \in Strays => \A p \in Processes \ ahead : pc[p] # "remove" /\ ~HasBound(p)

\* As long as nobody was killed a socket has its process.
SocketOwned == kills = 0 /\ node \in Processes => HasBound(node)

\* As long as nobody has left, a path taken from a server has another one, or is
\* about to.
Replaced ==
    ~left /\ (\E p \in Processes : HasBound(p)) =>
        \/ node \in Processes /\ HasBound(node)
        \/ node = Absent /\ \E q \in Processes : pc[q] = "bind"

ListenerInv == TypeOK /\ PlacesOK /\ StrayUntouched /\ SocketOwned /\ Replaced

-----------------------------------------------------------------------------
(* Every step keeps it.                                                    *)

\* Nobody works on the path before the first process starts.
LEMMA InitListener == Init => ListenerInv
  <1> SUFFICES ASSUME Init PROVE ListenerInv OBVIOUS
  <1>1. NoConfig \in Config BY DEF NoConfig, Config
  <1>2. TypeOK BY <1>1 DEF Init, TypeOK, Up
  <1>3. \A p \in Processes : pc[p] = "down" BY DEF Init
  <1>4. node \notin Processes BY ListenerAssumption DEF Init
  <1> QED BY <1>2, <1>3, <1>4
          DEF Init, ListenerInv, PlacesOK, StrayUntouched, SocketOwned, Replaced, HasBound

\* What a step of p to another place means for it and for the others.
LEMMA Moves ==
    ASSUME TypeOK, NEW p \in Processes, NEW place,
           \/ GoTo(p, place) /\ UNCHANGED config
           \/ place = "down" /\ End(p)
    PROVE  /\ pc'[p] = place
           /\ place # "down" => config'[p] = config[p]
           /\ \A q \in Processes \ {p} :
                  pc'[q] = pc[q] /\ (HasBound(q)' <=> HasBound(q)) /\ (Unix(q)' <=> Unix(q))
  <1>1. pc' = [pc EXCEPT ![p] = place] BY DEF GoTo, End
  <1>2. \A q \in Processes \ {p} : config'[q] = config[q] BY DEF End, TypeOK
  <1>3. pc'[p] = place /\ \A q \in Processes \ {p} : pc'[q] = pc[q] BY <1>1 DEF TypeOK
  <1>4. place # "down" => config'[p] = config[p] OBVIOUS
  <1> QED BY <1>2, <1>3, <1>4 DEF HasBound, Unix

\* Every step keeps the types: a process that starts has a configuration that was
\* validated, and keeps it until it ends.
LEMMA NextTypeOK == TypeOK /\ [Next]_vars => TypeOK'
  <1> SUFFICES ASSUME TypeOK, [Next]_vars PROVE TypeOK' OBVIOUS
  <1> DEFINE PCs == {"down", "open", "exists", "inspect", "remove", "bind", "bind port",
                     "serve", "clean up"}
  <1>1. NoConfig \in Config BY DEF NoConfig, Config
  <1>2. ASSUME NEW p \in Processes, NEW place \in PCs,
               \/ GoTo(p, place) /\ UNCHANGED config /\ Up(p)
               \/ place = "down" /\ End(p),
               node' \in {node, Absent, p}, kills' \in Nat, alone' \subseteq Processes,
               left' \in BOOLEAN, ahead' \subseteq Processes
        PROVE  TypeOK'
    <2>1. pc' = [pc EXCEPT ![p] = place] BY <1>2 DEF GoTo, End
    <2>2. pc' \in [Processes -> PCs] BY <2>1 DEF TypeOK
    <2>3. config' \in [Processes -> Config] BY <1>1, <1>2 DEF End, TypeOK
    <2>4. ASSUME NEW q \in Processes, pc'[q] # "down" PROVE config'[q] = config[q] /\ Up(q)
      <3>1. CASE q = p BY <2>1, <2>4, <3>1, <1>2 DEF TypeOK
      <3>2. CASE q # p BY <2>1, <2>4, <3>2, <1>2 DEF TypeOK, Up, End
      <3> QED BY <3>1, <3>2
    <2>5. \A q \in Processes : pc'[q] # "down" =>
              /\ config'[q].flush_threshold_count \in Nat \ {0}
              /\ config'[q].default_series_max_bytes \in (Nat \ {0}) \union {None}
      BY <2>4 DEF TypeOK
    <2> QED BY <2>2, <2>3, <2>5, <1>2 DEF TypeOK, Up
  <1>3. ASSUME NEW p \in Processes, Start(p) PROVE TypeOK'
    <2>1. PICK c \in Configs : Validates(c) /\ config' = [config EXCEPT ![p] = c]
      BY <1>3 DEF Start
    <2>2. c \in Config BY ListenerAssumption
    <2>3. /\ c.flush_threshold_count \in Nat \ {0}
          /\ c.default_series_max_bytes \in (Nat \ {0}) \union {None}
      BY <2>1, <2>2 DEF Validates, Config
    <2>4. pc' = [pc EXCEPT ![p] = "open"] /\ UNCHANGED <<node, kills>>
      BY <1>3 DEF Start, GoTo
    <2>5. alone' \subseteq Processes /\ left' \in BOOLEAN /\ ahead' \subseteq Processes
      BY <1>3 DEF Start, TypeOK
    <2>6. pc' \in [Processes -> PCs] BY <2>4 DEF TypeOK
    <2>7. config' \in [Processes -> Config] BY <2>1, <2>2 DEF TypeOK
    <2>8. \A q \in Processes : pc'[q] # "down" =>
              /\ config'[q].flush_threshold_count \in Nat \ {0}
              /\ config'[q].default_series_max_bytes \in (Nat \ {0}) \union {None}
      BY <2>1, <2>3, <2>4 DEF TypeOK, Up
    <2> QED BY <2>4, <2>5, <2>6, <2>7, <2>8 DEF TypeOK, Up
  <1>4. ASSUME NEW p \in Processes, Proceed(p) \/ Stop(p) \/ Kill(p) PROVE TypeOK'
    <2>1. node' \in {node, Absent, p} /\ alone' \subseteq Processes
      BY <1>4 DEF Proceed, Opened, OpenFails, BindPort, Exists, Inspect, RemoveStale, Bind,
                  CleanUp, Stop, Kill, history, TypeOK
    <2>2. kills' = kills \/ kills' = kills + 1
      BY <1>4 DEF Proceed, Opened, OpenFails, BindPort, Exists, Inspect, RemoveStale, Bind,
                  CleanUp, Stop, Kill
    <2>3. kills \in Nat BY DEF TypeOK
    <2>4. kills' \in Nat BY <2>2, <2>3
    <2>5. left' = left \/ left' = TRUE
      BY <1>4 DEF Proceed, Opened, OpenFails, BindPort, Exists, Inspect, RemoveStale, Bind,
                  CleanUp, Stop, Kill, history
    <2>6. left' \in BOOLEAN /\ ahead' \subseteq Processes
      <3>1. ahead' = ahead
        BY <1>4 DEF Proceed, Opened, OpenFails, BindPort, Exists, Inspect, RemoveStale, Bind,
                    CleanUp, Stop, Kill, history
      <3> QED BY <2>5, <3>1 DEF TypeOK
    <2>7. \E place \in PCs : \/ GoTo(p, place) /\ UNCHANGED config /\ Up(p)
                             \/ place = "down" /\ End(p)
      <3>1. CASE End(p) BY <3>1
      <3>2. ASSUME ~End(p)
            PROVE  Up(p) /\ UNCHANGED config /\ \E place \in PCs : GoTo(p, place)
        <4>1. Up(p) /\ UNCHANGED config
          BY <1>4, <3>2 DEF Proceed, Opened, OpenFails, BindPort, Exists, Inspect, RemoveStale,
                            Bind, CleanUp, Stop, Kill, Up
        <4>2. \/ GoTo(p, "exists") \/ GoTo(p, "bind port") \/ GoTo(p, "serve")
              \/ GoTo(p, "bind") \/ GoTo(p, "inspect") \/ GoTo(p, "remove")
              \/ GoTo(p, "clean up")
          <5>1. Opened(p) => GoTo(p, "exists") \/ GoTo(p, "bind port") BY DEF Opened
          <5>2. Exists(p) => GoTo(p, "bind") \/ GoTo(p, "inspect") BY DEF Exists
          <5> QED BY <1>4, <3>2, <5>1, <5>2
                  DEF Proceed, OpenFails, BindPort, Inspect, RemoveStale, Bind, CleanUp, Stop, Kill
        <4> QED BY <4>1, <4>2
      <3> QED BY <3>1, <3>2
    <2> QED BY <2>1, <2>4, <2>6, <2>7, <1>2
  <1>5. CASE Meddle
    <2>1. UNCHANGED <<pc, config, kills>> /\ alone' = {} /\ left' = TRUE BY <1>5 DEF Meddle
    <2>2. node' \in {Absent} \union Strays /\ ahead' \subseteq Processes BY <1>5 DEF Meddle
    <2> QED BY <2>1, <2>2 DEF TypeOK, Up
  <1>6. CASE UNCHANGED vars BY <1>6 DEF vars, history, TypeOK, Up
  <1> QED BY <1>3, <1>4, <1>5, <1>6 DEF Next

\* A step of p that neither changes the path nor what p has bound, and leaves the path
\* for nobody to bind.
LEMMA QuietStep ==
    ASSUME ListenerInv, TypeOK', NEW p \in Processes,
           UNCHANGED <<node, kills>>,
           left' = left \/ \A q \in Processes : ~HasBound(q),
           ahead' = ahead \/ (pc'[p] = "open" /\ ahead' = ahead \ {p}),
           \A q \in Processes \ {p} :
               pc'[q] = pc[q] /\ (HasBound(q)' <=> HasBound(q)) /\ (Unix(q)' <=> Unix(q)),
           HasBound(p)' <=> HasBound(p),
           pc[p] = "bind" => node # Absent,
           pc'[p] = "remove" => node \notin Strays,
           pc'[p] \in {"exists", "inspect", "remove", "bind", "clean up"} => Unix(p)',
           pc'[p] = "bind port" => ~Unix(p)'
    PROVE  ListenerInv'
  <1>1. \A q \in Processes : HasBound(q)' <=> HasBound(q) OBVIOUS
  <1>2. PlacesOK' BY DEF ListenerInv, PlacesOK
  <1>3. StrayUntouched'
    <2> SUFFICES ASSUME node \in Strays, NEW q \in Processes, q \notin ahead'
                 PROVE  pc'[q] # "remove" /\ ~HasBound(q)'
      BY DEF StrayUntouched, HasBound, Unix
    <2>1. CASE q # p BY <2>1, <1>1 DEF ListenerInv, StrayUntouched
    <2>2. CASE q = p /\ ahead' = ahead BY <2>2, <1>1 DEF ListenerInv, StrayUntouched
    <2>3. CASE q = p /\ pc'[p] = "open" BY <2>3 DEF HasBound
    <2> QED BY <2>1, <2>2, <2>3
  <1>4. SocketOwned' BY <1>1 DEF ListenerInv, SocketOwned, HasBound, Unix
  <1>5. Replaced'
    <2> SUFFICES ASSUME ~left', NEW q \in Processes, HasBound(q)'
                 PROVE  \/ node \in Processes /\ HasBound(node)'
                        \/ node = Absent /\ \E r \in Processes : pc'[r] = "bind"
      BY DEF Replaced, HasBound, Unix
    <2>1. HasBound(q) BY <1>1
    <2>2. left' = left BY <2>1
    <2>3. ~left BY <2>2
    <2>4. \/ node \in Processes /\ HasBound(node)
          \/ node = Absent /\ \E r \in Processes : pc[r] = "bind"
      BY <2>1, <2>3 DEF ListenerInv, Replaced
    <2> QED BY <2>4, <1>1
  <1> QED BY <1>2, <1>3, <1>4, <1>5 DEF ListenerInv

\* Most steps are quiet.
LEMMA QuietActions ==
    ASSUME ListenerInv, TypeOK', NEW p \in Processes,
           \/ Start(p) \/ Opened(p) \/ OpenFails(p) \/ BindPort(p) \/ Exists(p) \/ Inspect(p)
           \/ Stop(p)
           \/ node = Absent /\ RemoveStale(p)
           \/ node # Absent /\ Bind(p)
    PROVE  ListenerInv'
  <1> USE DEF ListenerInv
  <1>1. CASE Start(p)
    <2>1. PICK c \in Configs : config' = [config EXCEPT ![p] = c] BY <1>1 DEF Start
    <2>2. pc' = [pc EXCEPT ![p] = "open"] /\ pc[p] = "down" /\ UNCHANGED <<node, kills>>
      BY <1>1 DEF Start, GoTo, Up
    <2>3. pc'[p] = "open" BY <2>2 DEF TypeOK
    <2>4. \A q \in Processes \ {p} :
              pc'[q] = pc[q] /\ (HasBound(q)' <=> HasBound(q)) /\ (Unix(q)' <=> Unix(q))
      BY <2>1, <2>2 DEF TypeOK, HasBound, Unix
    <2>5. HasBound(p)' <=> HasBound(p) BY <2>2, <2>3 DEF HasBound
    <2>6. /\ left' = left \/ \A q \in Processes : ~HasBound(q)
          /\ ahead' = ahead \ {p}
      BY <1>1 DEF Start, Up, HasBound
    <2> QED BY <2>2, <2>3, <2>4, <2>5, <2>6, QuietStep
  <1>2. ASSUME NEW place, GoTo(p, place), UNCHANGED <<config, node, kills, history>>,
               (place \in {"serve", "clean up"} /\ Unix(p)) <=> HasBound(p),
               pc[p] = "bind" => node # Absent,
               place = "remove" => node \notin Strays,
               place \in {"exists", "inspect", "remove", "bind", "clean up"} => Unix(p),
               place = "bind port" => ~Unix(p)
        PROVE  ListenerInv'
    <2>1. /\ pc'[p] = place
          /\ \A q \in Processes \ {p} :
                 pc'[q] = pc[q] /\ (HasBound(q)' <=> HasBound(q)) /\ (Unix(q)' <=> Unix(q))
      BY <1>2, Moves
    <2>2. Unix(p)' <=> Unix(p) BY <1>2 DEF Unix
    <2>3. HasBound(p)' <=> HasBound(p) BY <1>2, <2>1, <2>2 DEF HasBound
    <2>4. UNCHANGED <<node, kills>> /\ left' = left /\ ahead' = ahead BY <1>2 DEF history
    <2>5. pc'[p] = "remove" => node \notin Strays BY <1>2, <2>1
    <2>6. /\ pc'[p] \in {"exists", "inspect", "remove", "bind", "clean up"} => Unix(p)'
          /\ pc'[p] = "bind port" => ~Unix(p)'
      BY <1>2, <2>1, <2>2
    <2> QED BY <1>2, <2>1, <2>3, <2>4, <2>5, <2>6, QuietStep
  <1>11. ASSUME End(p), UNCHANGED <<node, kills, history>>, ~HasBound(p),
                pc[p] = "bind" => node # Absent
         PROVE  ListenerInv'
    <2>1. /\ pc'[p] = "down"
          /\ \A q \in Processes \ {p} :
                 pc'[q] = pc[q] /\ (HasBound(q)' <=> HasBound(q)) /\ (Unix(q)' <=> Unix(q))
      BY <1>11, Moves
    <2>2. HasBound(p)' <=> HasBound(p) BY <1>11, <2>1 DEF HasBound
    <2>3. UNCHANGED <<node, kills>> /\ left' = left /\ ahead' = ahead BY <1>11 DEF history
    <2> QED BY <1>11, <2>1, <2>2, <2>3, QuietStep
  <1>3. CASE Opened(p)
    <2>1. CASE Unix(p)
      <3>1. GoTo(p, "exists") BY <1>3, <2>1 DEF Opened, Unix
      <3> QED BY <1>2, <1>3, <2>1, <3>1 DEF Opened, HasBound
    <2>2. CASE ~Unix(p)
      <3>1. GoTo(p, "bind port") BY <1>3, <2>2 DEF Opened, Unix
      <3> QED BY <1>2, <1>3, <2>2, <3>1 DEF Opened, HasBound
    <2> QED BY <2>1, <2>2
  <1>4. CASE OpenFails(p)
    <2>1. pc[p] = "open" /\ End(p) /\ UNCHANGED <<node, kills, history>> BY <1>4 DEF OpenFails
    <2> QED BY <1>11, <2>1 DEF HasBound
  <1>5. CASE BindPort(p)
    <2>1. ~Unix(p) /\ pc[p] = "bind port" BY <1>5 DEF BindPort, PlacesOK
    <2>2. \/ End(p)
          \/ GoTo(p, "serve") /\ UNCHANGED config
      BY <1>5 DEF BindPort
    <2>3. UNCHANGED <<node, kills, history>> BY <1>5 DEF BindPort
    <2>4. ~HasBound(p) BY <2>1 DEF HasBound
    <2>5. CASE End(p) BY <1>11, <2>1, <2>3, <2>4, <2>5
    <2>6. CASE GoTo(p, "serve") /\ UNCHANGED config BY <1>2, <2>1, <2>3, <2>4, <2>6
    <2> QED BY <2>2, <2>5, <2>6
  <1>6. CASE Exists(p)
    <2>1. Unix(p) /\ pc[p] = "exists" BY <1>6 DEF Exists, PlacesOK
    <2>2. GoTo(p, "bind") \/ GoTo(p, "inspect") BY <1>6 DEF Exists
    <2>3. UNCHANGED <<config, node, kills, history>> BY <1>6 DEF Exists
    <2>4. ~HasBound(p) BY <2>1 DEF HasBound
    <2>5. CASE GoTo(p, "bind") BY <1>2, <2>1, <2>3, <2>4, <2>5
    <2>6. CASE GoTo(p, "inspect") BY <1>2, <2>1, <2>3, <2>4, <2>6
    <2> QED BY <2>2, <2>5, <2>6
  <1>7. CASE Inspect(p)
    <2>1. Unix(p) /\ pc[p] = "inspect" BY <1>7 DEF Inspect, PlacesOK
    <2>2. ~HasBound(p) BY <2>1 DEF HasBound
    <2>3. CASE node \in Processes
      <3>1. node \notin Strays BY <2>3, ListenerAssumption
      <3>2. GoTo(p, "remove") /\ UNCHANGED <<config, node, kills, history>>
        BY <1>7, <2>3 DEF Inspect, IsStale
      <3> QED BY <1>2, <2>1, <2>2, <3>1, <3>2
    <2>4. CASE node \notin Processes
      <3>1. End(p) /\ UNCHANGED <<node, kills, history>> BY <1>7, <2>4 DEF Inspect, IsStale
      <3> QED BY <1>11, <2>1, <2>2, <3>1
    <2> QED BY <2>3, <2>4
  <1>8. CASE Stop(p)
    <2>1. pc[p] = "serve" /\ UNCHANGED <<node, kills, history>> BY <1>8 DEF Stop
    <2>2. CASE Unix(p)
      <3>1. GoTo(p, "clean up") /\ UNCHANGED config BY <1>8, <2>2 DEF Stop, Unix
      <3>2. HasBound(p) BY <2>1, <2>2 DEF HasBound
      <3> QED BY <1>2, <2>1, <2>2, <3>1, <3>2
    <2>3. CASE ~Unix(p)
      <3>1. End(p) BY <1>8, <2>3 DEF Stop, Unix
      <3>2. ~HasBound(p) BY <2>3 DEF HasBound
      <3> QED BY <1>11, <2>1, <3>1, <3>2
    <2> QED BY <2>2, <2>3
  <1>9. CASE node = Absent /\ RemoveStale(p)
    <2>1. pc[p] = "remove" /\ End(p) /\ UNCHANGED <<node, kills, history>>
      BY <1>9 DEF RemoveStale
    <2> QED BY <1>11, <2>1 DEF HasBound
  <1>10. CASE node # Absent /\ Bind(p)
    <2>1. pc[p] = "bind" /\ End(p) /\ UNCHANGED <<node, kills, history>>
      BY <1>10 DEF Bind
    <2> QED BY <1>10, <1>11, <2>1 DEF HasBound
  <1> QED BY <1>1, <1>3, <1>4, <1>5, <1>6, <1>7, <1>8, <1>9, <1>10

\* Who removes another one's socket goes on to bind its own.
LEMMA Removes ==
    ASSUME ListenerInv, TypeOK', NEW p \in Processes, node # Absent, RemoveStale(p)
    PROVE  ListenerInv'
  <1> USE DEF ListenerInv
  <1>1. GoTo(p, "bind") /\ UNCHANGED config /\ node' = Absent /\ pc[p] = "remove"
    BY DEF RemoveStale
  <1>2. /\ pc'[p] = "bind" /\ config'[p] = config[p]
        /\ \A q \in Processes \ {p} :
               pc'[q] = pc[q] /\ (HasBound(q)' <=> HasBound(q)) /\ (Unix(q)' <=> Unix(q))
    BY <1>1, Moves
  <1>3. PlacesOK' BY <1>1, <1>2 DEF PlacesOK, Unix
  <1>4. node' \notin Processes /\ node' \notin Strays
    BY <1>1, ListenerAssumption DEF Absent, Strays
  <1>5. Replaced' BY <1>1, <1>2 DEF Replaced
  <1> QED BY <1>3, <1>4, <1>5 DEF StrayUntouched, SocketOwned

\* Who binds the path has it.
LEMMA Binds ==
    ASSUME ListenerInv, TypeOK', NEW p \in Processes, node = Absent, Bind(p)
    PROVE  ListenerInv'
  <1> USE DEF ListenerInv
  <1>1. GoTo(p, "serve") /\ UNCHANGED config /\ node' = p /\ pc[p] = "bind" BY DEF Bind
  <1>2. /\ pc'[p] = "serve" /\ config'[p] = config[p]
        /\ \A q \in Processes \ {p} :
               pc'[q] = pc[q] /\ (HasBound(q)' <=> HasBound(q)) /\ (Unix(q)' <=> Unix(q))
    BY <1>1, Moves
  <1>3. Unix(p)' BY <1>1, <1>2 DEF PlacesOK, Unix
  <1>4. PlacesOK' BY <1>1, <1>2 DEF PlacesOK, Unix
  <1>5. node' \in Processes /\ node' \notin Strays BY <1>1, ListenerAssumption
  <1>6. node' = p BY <1>1
  <1>7. HasBound(p)' BY <1>2, <1>3 DEF HasBound
  <1>8. \A q \in Processes : node' = q => HasBound(q)' BY <1>6, <1>7
  <1>9. SocketOwned' BY <1>1, <1>2, <1>3 DEF SocketOwned, HasBound, Unix
  <1>10. Replaced' BY <1>1, <1>2, <1>3 DEF Replaced, HasBound, Unix
  <1> QED BY <1>4, <1>5, <1>9, <1>10 DEF StrayUntouched

\* Who leaves, by itself or killed, is not counted on any more.
LEMMA Leaves ==
    ASSUME ListenerInv, TypeOK', NEW p \in Processes, CleanUp(p) \/ Kill(p)
    PROVE  ListenerInv'
  <1> USE DEF ListenerInv
  <1>1. End(p) /\ left' = TRUE BY DEF CleanUp, Kill
  <1>2. /\ pc'[p] = "down"
        /\ \A q \in Processes \ {p} :
               pc'[q] = pc[q] /\ (HasBound(q)' <=> HasBound(q)) /\ (Unix(q)' <=> Unix(q))
    BY <1>1, Moves
  <1>3. PlacesOK' BY <1>2 DEF PlacesOK
  <1>4. Replaced' BY <1>1 DEF Replaced
  <1>5. CASE CleanUp(p)
    <2>1. node' = Absent BY <1>5 DEF CleanUp
    <2>2. node' \notin Processes /\ node' \notin Strays
      BY <2>1, ListenerAssumption DEF Absent, Strays
    <2> QED BY <1>3, <1>4, <2>2 DEF StrayUntouched, SocketOwned
  <1>6. CASE Kill(p)
    <2>1. node' = node /\ kills' = kills + 1 /\ ahead' = ahead BY <1>6 DEF Kill
    <2>2. kills \in Nat BY DEF TypeOK
    <2>3. kills' # 0 BY <2>1, <2>2
    <2>4. \A q \in Processes : /\ pc'[q] = "remove" => pc[q] = "remove"
                               /\ HasBound(q)' => HasBound(q)
      BY <1>2 DEF HasBound
    <2>5. StrayUntouched' BY <2>1, <2>4 DEF StrayUntouched
    <2> QED BY <1>3, <1>4, <2>3, <2>5 DEF SocketOwned
  <1> QED BY <1>5, <1>6

\* Whoever looked or bound the path before something was put there is recorded.
LEMMA Meddles ==
    ASSUME ListenerInv, TypeOK', Meddle
    PROVE  ListenerInv'
  <1> USE DEF ListenerInv
  <1>1. UNCHANGED <<pc, config, kills>> /\ left' = TRUE BY DEF Meddle
  <1>2. ahead' = {p \in Processes : pc[p] \in {"remove", "serve", "clean up"}} BY DEF Meddle
  <1>3. node' \notin Processes BY ListenerAssumption DEF Meddle
  <1>4. PlacesOK' BY <1>1 DEF PlacesOK, Unix
  <1>5. StrayUntouched' BY <1>1, <1>2 DEF StrayUntouched, HasBound, Unix
  <1>6. SocketOwned' BY <1>3 DEF SocketOwned
  <1>7. Replaced' BY <1>1 DEF Replaced
  <1> QED BY <1>4, <1>5, <1>6, <1>7

\* The invariant is inductive, and nobody who satisfies it touches a stray that came before
\* it had looked.
LEMMA NextListener ==
    ASSUME ListenerInv, [Next]_vars
    PROVE  /\ ListenerInv'
           /\ \A p \in Processes \ ahead : node \in Strays /\ pc'[p] # pc[p] => node' = node
  <1>1. TypeOK' BY NextTypeOK DEF ListenerInv
  <1>2. CASE UNCHANGED vars
    <2>1. UNCHANGED <<node, pc, config, kills, left, ahead>> BY <1>2 DEF vars, history
    <2> QED BY <1>1, <2>1 DEF ListenerInv, PlacesOK, StrayUntouched, SocketOwned, Replaced,
                              HasBound, Unix
  <1>3. ASSUME NEW p \in Processes, Start(p) \/ Proceed(p) \/ Stop(p) \/ Kill(p)
        PROVE  /\ ListenerInv'
               /\ \A q \in Processes \ ahead : node \in Strays /\ pc'[q] # pc[q] => node' = node
    <2>1. ListenerInv'
      BY <1>1, <1>3, QuietActions, Removes, Binds, Leaves DEF Proceed
    <2>2. ASSUME NEW q \in Processes \ ahead, node \in Strays, pc'[q] # pc[q]
          PROVE  node' = node
      <3>1. node # Absent BY <2>2 DEF Strays, Absent
      <3>2. q = p
        <4>1. \E place : pc' = [pc EXCEPT ![p] = place]
          BY <1>3 DEF Proceed, Start, Opened, OpenFails, BindPort, Exists, Inspect, RemoveStale,
                      Bind, CleanUp, Stop, Kill, GoTo, End
        <4> QED BY <2>2, <4>1 DEF ListenerInv, TypeOK
      <3>3. ~RemoveStale(p) BY <2>2, <3>2 DEF ListenerInv, StrayUntouched, RemoveStale
      <3>4. ~CleanUp(p)
        BY <2>2, <3>2 DEF ListenerInv, StrayUntouched, PlacesOK, HasBound, CleanUp
      <3> QED BY <1>3, <3>1, <3>3, <3>4
              DEF Proceed, Start, Opened, OpenFails, BindPort, Exists, Inspect, Bind, Stop, Kill
    <2> QED BY <2>1, <2>2
  <1>4. CASE Meddle BY <1>1, <1>4, Meddles DEF Meddle
  <1> QED BY <1>2, <1>3, <1>4 DEF Next

-----------------------------------------------------------------------------
(* The theorems.                                                           *)

\* The invariant holds of every state, for any number of processes and of kills.
THEOREM ListenerInvariant == Spec => []ListenerInv
  <1>1. Init => ListenerInv BY InitListener
  <1>2. ListenerInv /\ [Next]_vars => ListenerInv' BY NextListener
  <1> QED BY <1>1, <1>2, PTL DEF Spec

\* Every variable keeps its type: in particular what is at the path is nothing, a stray or
\* the socket of one of the processes.
THEOREM TypeCorrect == Spec => []TypeOK
  <1>1. ListenerInv => TypeOK BY DEF ListenerInv
  <1> QED BY <1>1, ListenerInvariant, PTL

\* However many servers start, take the path from each other and end, and whatever others put
\* there at any time, a server leaves alone a file or a link that was there before it looked;
\* one that comes between the look of cleanup_stale_unix_socket and its remove_file, or after
\* the bind, is not safe, since neither remove_file looks again.
THEOREM StraysKept == Spec => StrayKept
  <1>1. ListenerInv /\ [Next]_vars =>
            [\A p \in Processes \ ahead : node \in Strays /\ pc'[p] # pc[p] => node' = node]_vars
    BY NextListener
  <1> QED BY <1>1, ListenerInvariant, PTL DEF Spec, StrayKept

\* When the last of the servers has gone, and none was killed, the path is free.
THEOREM NothingLeftOver == Spec => []NoLeftover
  <1>1. ListenerInv => NoLeftover
    BY DEF ListenerInv, SocketOwned, NoLeftover, HasBound, Up
  <1> QED BY <1>1, ListenerInvariant, PTL

\* Servers that take the path from each other leave clients with one of them.
THEOREM StillReachable == Spec => []OneReachable
  <1>1. ListenerInv => OneReachable
    <2> SUFFICES ASSUME ListenerInv, ~left, Settled, NEW p \in Processes, OnSocket(p)
                 PROVE  \E q \in Processes : OnSocket(q) /\ node = q
      BY DEF OneReachable
    <2>1. HasBound(p) BY DEF OnSocket, HasBound, Unix
    <2>2. node \in Processes /\ HasBound(node)
      BY <2>1 DEF ListenerInv, Replaced, Settled
    <2>3. pc[node] = "serve" BY <2>2 DEF HasBound, Settled
    <2> QED BY <2>2, <2>3 DEF HasBound, OnSocket, Unix
  <1> QED BY <1>1, ListenerInvariant, PTL

=============================================================================
