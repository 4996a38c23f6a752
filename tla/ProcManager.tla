----------------------------- MODULE ProcManager -----------------------------
(***************************************************************************)
(* The dedicated-server processes of the lobby: the operating-system       *)
(* process of each game, the table of running children the lobby keeps     *)
(* (procManager.procs), the goroutine that waits for each child, and the   *)
(* UDP port the child binds.                                               *)
(*                                                                         *)
(* Source: services/lobby/proc.go; for the child's own life                *)
(* clients/silencer/src/game/init/game_init.cpp (start-up),                *)
(* clients/silencer/src/world/network/world_network.cpp (Listen, Bind) and *)
(* clients/silencer/src/game/loop/game_loop.cpp (quitting when empty).     *)
(*                                                                         *)
(* One process is started per game id, so a process is named by its game.  *)
(***************************************************************************)
EXTENDS LobbyView, FiniteSets

CONSTANTS
    GamePortBase,   \* -game-port-base; 0 = the operating system picks a port
    GamePortCount   \* -game-port-count

ASSUME PortAssumption == GamePortBase \in Nat /\ GamePortCount \in Nat \ {0}

VARIABLES
    procs,    \* procManager.procs: the games whose child is registered
    os,       \* the child: "none", "spawned", "serving" or "dead"
    doomed,   \* games a Stop took out of procs and has not killed yet
    waiter,   \* the goroutine in cmd.Wait: "none", "waiting", "exited", "done"
    boundport \* the UDP port the child bound, 0 when it has none

procVars == <<procs, doomed, os, waiter, boundport>>

(* Ports the operating system hands out when no base is configured.        *)
EphemeralPorts == Gids
Ports ==
    {0} \cup EphemeralPorts
        \cup GamePortBase .. (GamePortBase + GamePortCount - 1)

ProcTypeOK ==
    /\ procs \in SUBSET Gids
    /\ doomed \in SUBSET Gids
    /\ os \in [Gids -> {"none", "spawned", "serving", "dead"}]
    /\ waiter \in [Gids -> {"none", "waiting", "exited", "done"}]
    /\ boundport \in [Gids -> Ports]

ProcInit ==
    /\ procs = {}
    /\ doomed = {}
    /\ os = [g \in Gids |-> "none"]
    /\ waiter = [g \in Gids |-> "none"]
    /\ boundport = [g \in Gids |-> 0]

Alive(g) == os[g] \in {"spawned", "serving"}

-----------------------------------------------------------------------------

(* Start, first half: cmd.Start() has forked the child.                    *)
Spawn(g) ==
    /\ os' = [os EXCEPT ![g] = "spawned"]
    /\ UNCHANGED <<procs, doomed, waiter, boundport>>

(* Start, second half: the child enters procs under p.mu and the goroutine *)
(* that waits for it begins.                                               *)
Register(g) ==
    /\ procs' = procs \cup {g}
    /\ waiter' = [waiter EXCEPT ![g] = "waiting"]
    /\ UNCHANGED <<doomed, os, boundport>>

(* Stop, first half, under p.mu: the child is taken out of procs.          *)
StopFinds(g) ==
    /\ g \in procs
    /\ procs' = procs \ {g}
    /\ doomed' = doomed \cup {g}
    /\ UNCHANGED <<os, waiter, boundport>>

(* Stop of a game procs does not name does nothing.                        *)
StopMisses(g) == g \notin procs /\ UNCHANGED procVars

(* Mutant of StopKills: the child is forgotten, not killed.                *)
StopForgets(g) ==
    /\ g \in doomed
    /\ doomed' = doomed \ {g}
    /\ UNCHANGED <<procs, os, waiter, boundport>>

(* Stop, second half, after the unlock: the child it took is killed.       *)
StopKills(g) ==
    /\ g \in doomed
    /\ os' = [os EXCEPT ![g] = "dead"]
    /\ doomed' = doomed \ {g}
    /\ UNCHANGED <<procs, waiter, boundport>>

(* cmd.Wait returned: the child leaves procs; GameExited is called next.   *)
Reap(g) ==
    /\ waiter[g] = "waiting"
    /\ os[g] = "dead"
    /\ procs' = procs \ {g}
    /\ waiter' = [waiter EXCEPT ![g] = "exited"]
    /\ UNCHANGED <<doomed, os, boundport>>

-----------------------------------------------------------------------------

(* Mutant of WantedPort: the range is not wrapped around.                  *)
WantedPortUnwrapped(g) == GamePortBase + g

(* Mutant of WantedPort: the quotient is taken for the remainder.          *)
WantedPortQuotient(g) == GamePortBase + (g \div GamePortCount)

(* Game N asks for base + N % count; with no base, for any free port.      *)
WantedPort(g) == GamePortBase + (g % GamePortCount)

PortsInUse == {boundport[h] : h \in {k \in Gids : os[k] = "serving"}}

(* The ports Bind may end with.  bind() fails on a port another live child *)
(* holds; Listen then returns false, which start-up ignores, and the child *)
(* goes on with boundport 0.                                               *)
BindResults(g) ==
    IF GamePortBase = 0 THEN EphemeralPorts \ PortsInUse
    ELSE IF WantedPort(g) \in PortsInUse THEN {0} ELSE {WantedPort(g)}

(* The child is up: it bound its port and connected to the lobby.          *)
Serve(g) ==
    /\ os[g] = "spawned"
    /\ \E p \in BindResults(g) : boundport' = [boundport EXCEPT ![g] = p]
    /\ os' = [os EXCEPT ![g] = "serving"]
    /\ UNCHANGED <<procs, doomed, waiter>>

(* The child ends by itself: start-up failed, it crashed, or it quit       *)
(* because nobody was left.                                                *)
Die(g) ==
    /\ Alive(g)
    /\ os' = [os EXCEPT ![g] = "dead"]
    /\ UNCHANGED <<procs, doomed, waiter, boundport>>
=============================================================================
