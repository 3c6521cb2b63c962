------------------------------- MODULE Startup -------------------------------
(***************************************************************************)
(* How `all` starts (cli/src/main.rs): what it refuses before it has begun, *)
(* and what it says, writes and serves if it does not.                      *)
(*                                                                         *)
(* An invocation is [port, site, vault, onion, relay, role]: the port it    *)
(* counts from, and of each of the others none or one.  What the device has *)
(* beside its files: the store of credentials as load reads it, the daemons *)
(* on the path, and what fails while the onion's directory is made.         *)
(***************************************************************************)
EXTENDS Args, Site, Credentials

SurfaceNames == <<"panel", "site", "vault">>

StartupRefusals == <<"ports", "site", "vault", "store", "onion directory">>

(* In the order they are asked; the store only if there is a vault.         *)
RefusalOf(device, asked) ==
    FirstFlaw(StartupRefusals,
        {f \in ToSet(StartupRefusals) :
            \/ f = "ports" /\ AdjacentPorts(asked.port) = {}
            \/ f = "site" /\ \E d \in asked.site : OpenRoot(device.machine, d) # "none"
            \/ f = "vault" /\ \E d \in asked.vault : OpenRoot(device.machine, d) # "none"
            \/ f = "store" /\ asked.vault # {} /\ device.store.why # Sound
            \/ f = "onion directory" /\ asked.onion # {} /\ ~Prepare(device.fails).ok})

Served(asked) == {"panel"} \cup {"site" : d \in asked.site} \cup {"vault" : d \in asked.vault}

PortOf(asked, surface) == asked.port + (CHOOSE i \in DOMAIN SurfaceNames : SurfaceNames[i] = surface) - 1

PortsOf(asked, surface) == IF surface \in Served(asked) THEN {PortOf(asked, surface)} ELSE {}

(* The plan is written out whether or not a daemon is there to read it.     *)
OnionPlans(asked) ==
    {Torrc(d, BuildPlan(PortsOf(asked, "site"), PortsOf(asked, "vault"))) : d \in asked.onion}

(* all, to the scope of its threads.  Without a daemon the cell stays on its*)
(* own network, and says so.                                                *)
StartAll(device, asked) ==
    LET refused == RefusalOf(device, asked)
        live    == {p \in OnionPlans(asked) : FindDaemon(device.path, device.daemons) # {}}
        ceiling == CeilingFor(device.machine, Supply) # {}
        goes    == refused = Sound
    IN  [refused |-> refused,
         listens |-> {<<s, PortOf(asked, s)>> : s \in {s \in Served(asked) : goes}},
         onion   |-> {p \in live : goes},
         said    |-> UNION {Disclosures("onion", ceiling) : p \in {p \in live : goes}},
         relay   |-> {RelayLines(h, PortOf(asked, "site"), PortOf(asked, "vault")) :
                        h \in {h \in asked.relay : goes}},
         noIndex |-> {d \in asked.site : goes /\ ~HasIndex(device.machine, d)}]

-----------------------------------------------------------------------------
(* Properties. *)

(* Whatever is asked of whatever device, `all` starts with surfaces on ports*)
(* of their own; the onion publishes none but those, the panel never, each  *)
(* under one name, and only after it was said that it heats, that its theft *)
(* is for good, and, unless the charge is held, that nothing offsets the    *)
(* heat; and no way in from outside is taken for tried.  (all, build_plan,  *)
(* adjacent_ports, disclosures)                                             *)
StartIsAnnounced(device, asked) ==
    LET s == StartAll(device, asked)
    IN  /\ \A l \in s.listens : l[2] \in 1..PortMax
        /\ \A l, k \in s.listens : l[2] = k[2] => l = k
        /\ \A p \in s.onion :
              /\ \A t \in p.ports : \E l \in s.listens : l[1] # "panel" /\ l[2] = t.target
              /\ \A t, u \in p.ports : t.virtual = u.virtual => t = u
              /\ {"heat", "theft is permanent"} \subseteq s.said
              /\ "heat unmitigated" \in s.said
                    \/ Exists(device.machine, NodeOf(Supply, ControlNode("end_threshold")))
        /\ \A r \in s.relay : TellReachability(r.standing, 0).says # "verified"
=============================================================================
