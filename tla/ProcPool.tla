------------------------------- MODULE ProcPool -------------------------------
(***************************************************************************)
(* The process manager by itself, under any callers of Start and Stop, up  *)
(* to the end of the lobby: a signal makes it stop every child it knows    *)
(* and exit.  Its goroutines end with it, its children do not.             *)
(*                                                                         *)
(* Source: services/lobby/proc.go, services/lobby/main.go (the signal      *)
(* handler).  Any order of calls the hub can make is a behaviour here, so  *)
(* what holds here holds of the hub's children.                            *)
(***************************************************************************)
EXTENDS ProcManager

VARIABLES
    lobby,  \* the lobby process: "running", "stopping" or "exited"
    ids,    \* StopAll's copy of the keys of procs
    left,   \* those its loop has still to stop
    mine    \* the one its own Stop took out of procs and has to kill

poolVars == <<lobby, ids, left, mine>>
allVars == <<procVars, poolVars>>

PoolInit ==
    ProcInit /\ lobby = "running" /\ ids = {} /\ left = {} /\ mine = {}

(* Ids are handed out in order; game g is started at most once.            *)
StartChild(g) ==
    /\ lobby # "exited"
    /\ os[g] = "none"
    /\ \A h \in Gids : os[h] = "none" => g <= h
    /\ Spawn(g)
    /\ UNCHANGED poolVars

RegisterChild(g) ==
    /\ lobby # "exited"
    /\ os[g] # "none"
    /\ waiter[g] = "none"
    /\ Register(g)
    /\ UNCHANGED poolVars

(* A Stop of any other goroutine; any number of them may be between their  *)
(* two halves.                                                             *)
StopFindsChild(g) ==
    /\ lobby # "exited"
    /\ StopFinds(g)
    /\ UNCHANGED poolVars

StopKillsChild(g) ==
    /\ lobby # "exited"
    /\ g \notin mine
    /\ StopKills(g)
    /\ UNCHANGED poolVars

WaitReturns(g) ==
    /\ lobby # "exited"
    /\ Reap(g)
    /\ UNCHANGED poolVars

(* SIGTERM: StopAll copies the ids under the lock, stops them one by one   *)
(* without it, and the process exits.                                      *)
StopAll ==
    /\ lobby = "running"
    /\ lobby' = "stopping"
    /\ ids' = procs
    /\ left' = procs
    /\ UNCHANGED <<mine, procVars>>

StopAllFinds(g) ==
    /\ g \in left
    /\ mine = {}
    /\ StopFinds(g)
    /\ mine' = {g}
    /\ UNCHANGED <<lobby, ids, left>>

StopAllKills(g) ==
    /\ g \in mine
    /\ StopKills(g)
    /\ mine' = {}
    /\ left' = left \ {g}
    /\ UNCHANGED <<lobby, ids>>

(* Somebody else took the child, or its waiter did.                        *)
StopAllMisses(g) ==
    /\ g \in left
    /\ mine = {}
    /\ StopMisses(g)
    /\ left' = left \ {g}
    /\ UNCHANGED <<lobby, ids, mine>>

(* os.Exit: nobody waits for the other goroutines.                         *)
Exit ==
    /\ lobby = "stopping"
    /\ left = {}
    /\ lobby' = "exited"
    /\ UNCHANGED <<ids, left, mine, procVars>>

ChildStep(g) == (Serve(g) \/ Die(g)) /\ UNCHANGED poolVars

PoolNext ==
    \/ \E g \in Gids :
        \/ StartChild(g) \/ RegisterChild(g) \/ WaitReturns(g) \/ ChildStep(g)
        \/ StopFindsChild(g) \/ StopKillsChild(g)
        \/ StopAllFinds(g) \/ StopAllKills(g) \/ StopAllMisses(g)
    \/ StopAll
    \/ Exit

PoolSpec == PoolInit /\ [][PoolNext]_allVars

-----------------------------------------------------------------------------

(* A server finds its port free when the ids of the servers alive as it    *)
(* binds span less than GamePortCount, however they were started, stopped  *)
(* or crashed before.                                                      *)
NearbyGamesGetPorts ==
    [][\A g \in Gids :
        /\ os[g] = "spawned" /\ os'[g] = "serving"
        /\ \A h \in Gids : Alive(h) => g - h < GamePortCount /\ h - g < GamePortCount
        => boundport'[g] # 0]_allVars

(* A child that StopAll found and that outlives the lobby was in another   *)
(* goroutine's hands: a Stop had taken it out of procs, so that StopAll's  *)
(* own Stop missed it, and the exit came before the kill.  The others that *)
(* outlive the lobby were between fork and registration, or started later. *)
SurvivorsWereTaken ==
    lobby = "exited" => \A g \in ids : Alive(g) => g \in doomed

(* A server finds its port free while no more servers are alive than there *)
(* are ports.                                                              *)
PortPerConcurrentGame ==
    [][\A g \in Gids :
        /\ os[g] = "spawned" /\ os'[g] = "serving"
        /\ Cardinality({h \in Gids : Alive(h)}) <= GamePortCount
        => boundport'[g] # 0]_allVars
=============================================================================
