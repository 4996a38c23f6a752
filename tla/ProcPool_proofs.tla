--------------------------- MODULE ProcPool_proofs ---------------------------
(***************************************************************************)
(* Ports and shutdown of the process manager, for any number of games and  *)
(* any port range.                                                         *)
(***************************************************************************)
EXTENDS ProcPool, TLAPS

USE MaxGIDAssumption, PortAssumption

-----------------------------------------------------------------------------
(* Arithmetic: ids less than GamePortCount apart have different remainders.*)

LEMMA Division ==
    ASSUME NEW c \in Nat \ {0}, NEW g \in Nat
    PROVE  /\ g \div c \in Int
           /\ g % c \in Int
           /\ g = c * (g \div c) + (g % c)
OBVIOUS

LEMMA NextMultiple ==
    ASSUME NEW c \in Nat \ {0}, NEW k \in Int, NEW l \in Int, k > l
    PROVE  c * k \in Int /\ c * l \in Int /\ c * k >= c * l + c
OBVIOUS

LEMMA QuotientsAgree ==
    ASSUME NEW c \in Nat \ {0}, NEW q \in Int, NEW p \in Int, NEW r \in Int,
           NEW g \in Int, NEW h \in Int,
           g = c * q + r, h = c * p + r, g - h < c, h - g < c
    PROVE  q = p
<1>1. ~(q > p)
  BY NextMultiple
<1>2. ~(p > q)
  BY NextMultiple
<1> QED
  BY <1>1, <1>2

LEMMA SamePort ==
    ASSUME NEW c \in Nat \ {0}, NEW b \in Nat, NEW g \in Nat, NEW h \in Nat,
           b + (g % c) = b + (h % c)
    PROVE  g % c = h % c
<1> DEFINE r == g % c
           s == h % c
<1>1. r \in Int /\ s \in Int
  BY Division
<1>2. b + r = b + s
  OBVIOUS
<1> HIDE DEF r, s
<1>3. r = s
  BY <1>1, <1>2
<1> QED
  BY <1>3 DEF r, s

LEMMA NearbyRemainders ==
    ASSUME NEW c \in Nat \ {0}, NEW g \in Nat, NEW h \in Nat,
           g % c = h % c, g - h < c, h - g < c
    PROVE  g = h
<1>1. /\ g \div c \in Int
      /\ g % c \in Int
      /\ g = c * (g \div c) + (g % c)
  BY Division
<1>2. /\ h \div c \in Int
      /\ h = c * (h \div c) + (g % c)
  BY Division
<1>3. g \div c = h \div c
  BY ONLY <1>1, <1>2, QuotientsAgree, g - h < c, h - g < c, c \in Nat \ {0},
     g \in Nat, h \in Nat
<1> QED
  BY ONLY <1>1, <1>2, <1>3

-----------------------------------------------------------------------------
(* Every serving child holds the port it wants, or none.                   *)

PoolTypeOK ==
    /\ ProcTypeOK
    /\ lobby \in {"running", "stopping", "exited"}
    /\ ids \in SUBSET Gids
    /\ left \in SUBSET Gids
    /\ mine \in SUBSET Gids

PortsWanted ==
    GamePortBase # 0 =>
        \A g \in Gids : os[g] = "serving" => boundport[g] \in {0, WantedPort(g)}

(* The live children StopAll found are still to be stopped, and still in    *)
(* procs for Stop to find, or a Stop has one of them in hand.  StopAll's own *)
(* has it no longer when the loop is over.                                  *)
FoundAreStopped ==
    /\ lobby = "exited" => left = {}
    /\ \A g \in procs \cup doomed \cup ids : os[g] # "none"
    /\ \A g \in ids : Alive(g) => g \in doomed \/ g \in left \cap procs

PoolInv == PoolTypeOK /\ PortsWanted /\ FoundAreStopped

LEMMA WantedPortTypes ==
    ASSUME NEW g \in Gids
    PROVE  /\ WantedPort(g) \in Ports
           /\ GamePortBase # 0 => WantedPort(g) # 0
<1>1. g % GamePortCount \in 0 .. (GamePortCount - 1)
  BY DEF Gids
<1> QED
  BY <1>1 DEF WantedPort, Ports

LEMMA BoundPorts ==
    ASSUME NEW g \in Gids, NEW p \in BindResults(g)
    PROVE  /\ p \in Ports
           /\ GamePortBase # 0 => p \in {0, WantedPort(g)}
BY WantedPortTypes DEF BindResults, Ports

LEMMA PoolInit_Inv == PoolInit => PoolInv
BY DEF PoolInit, ProcInit, PoolInv, PoolTypeOK, ProcTypeOK, PortsWanted,
   FoundAreStopped, Ports, Alive

(* Every step keeps the invariant. *)
LEMMA PoolStep ==
    ASSUME PoolInv, [PoolNext]_allVars
    PROVE  PoolInv'
<1> USE DEF PoolInv, PoolTypeOK, ProcTypeOK, PortsWanted, FoundAreStopped,
    Alive, poolVars, procVars
<1>1. ASSUME NEW g \in Gids, StartChild(g)
      PROVE  PoolInv'
  BY <1>1 DEF StartChild, Spawn
<1>2. ASSUME NEW g \in Gids, RegisterChild(g)
      PROVE  PoolInv'
  BY <1>2 DEF RegisterChild, Register
<1>3. ASSUME NEW g \in Gids, StopFindsChild(g) \/ StopAllFinds(g)
      PROVE  PoolInv'
  BY <1>3 DEF StopFindsChild, StopAllFinds, StopFinds
<1>4. ASSUME NEW g \in Gids, WaitReturns(g)
      PROVE  PoolInv'
  BY <1>4 DEF WaitReturns, Reap
<1>5. ASSUME NEW g \in Gids, StopKillsChild(g) \/ StopAllKills(g)
      PROVE  PoolInv'
  BY <1>5 DEF StopKillsChild, StopAllKills, StopKills
<1>10. ASSUME NEW g \in Gids, StopAllMisses(g)
      PROVE  PoolInv'
  BY <1>10 DEF StopAllMisses, StopMisses
<1>6. ASSUME NEW g \in Gids, ChildStep(g)
      PROVE  PoolInv'
  <2>1. CASE Serve(g) /\ UNCHANGED poolVars
    <3>1. PICK p \in BindResults(g) : boundport' = [boundport EXCEPT ![g] = p]
      BY <2>1 DEF Serve
    <3>2. boundport' \in [Gids -> Ports]
      BY <3>1, BoundPorts
    <3>3. PortsWanted'
      BY <2>1, <3>1, BoundPorts DEF Serve, WantedPort
    <3> QED
      BY <2>1, <3>2, <3>3 DEF Serve
  <2>2. CASE Die(g) /\ UNCHANGED poolVars
    BY <2>2 DEF Die
  <2> QED
    BY <1>6, <2>1, <2>2 DEF ChildStep
<1>7. CASE StopAll
  BY <1>7 DEF StopAll
<1>8. CASE Exit
  BY <1>8 DEF Exit
<1>9. CASE UNCHANGED allVars
  BY <1>9 DEF allVars, WantedPort
<1> QED
  BY <1>1, <1>2, <1>3, <1>4, <1>5, <1>6, <1>7, <1>8, <1>9, <1>10 DEF PoolNext

LEMMA PoolInvariance == PoolSpec => []PoolInv
<1>1. PoolInv /\ [PoolNext]_allVars => PoolInv'
  BY PoolStep
<1> QED
  BY PoolInit_Inv, <1>1, PTL DEF PoolSpec

-----------------------------------------------------------------------------

(* A lobby that exits on a signal leaves no child behind that StopAll found *)
(* in procs, but those another goroutine's Stop took out of it and had not  *)
(* killed yet.                                                              *)
THEOREM SurvivorsAreExplained == PoolSpec => []SurvivorsWereTaken
<1>1. PoolInv => SurvivorsWereTaken
  BY DEF PoolInv, FoundAreStopped, SurvivorsWereTaken
<1> QED
  BY <1>1, PoolInvariance, PTL

(* A server whose id is less than GamePortCount away from every other live *)
(* server's gets its port.                                                 *)
THEOREM NearbyGamesDoNotCollide == PoolSpec => NearbyGamesGetPorts
<1>1. ASSUME PoolInv, [PoolNext]_allVars, NEW g \in Gids,
             os[g] = "spawned", os'[g] = "serving",
             \A h \in Gids : Alive(h) => g - h < GamePortCount /\ h - g < GamePortCount
      PROVE  boundport'[g] # 0
  <2>1. Serve(g)
    <3>1. ASSUME NEW k \in Gids,
                 \/ StartChild(k) \/ RegisterChild(k) \/ WaitReturns(k)
                 \/ StopFindsChild(k) \/ StopKillsChild(k)
                 \/ StopAllFinds(k) \/ StopAllKills(k) \/ StopAllMisses(k)
          PROVE  FALSE
      BY <1>1, <3>1 DEF StartChild, Spawn, RegisterChild, Register, WaitReturns,
         Reap, StopFindsChild, StopAllFinds, StopFinds, StopKillsChild,
         StopAllKills, StopKills, StopAllMisses, StopMisses, procVars,
         PoolInv, PoolTypeOK, ProcTypeOK
    <3>2. ASSUME NEW k \in Gids, ChildStep(k)
          PROVE  k = g /\ Serve(g)
      BY <1>1, <3>2 DEF ChildStep, Serve, Die, PoolInv, PoolTypeOK, ProcTypeOK
    <3>3. ~(StopAll \/ Exit \/ UNCHANGED allVars)
      BY <1>1 DEF StopAll, Exit, allVars, procVars
    <3> QED
      BY <1>1, <3>1, <3>2, <3>3 DEF PoolNext
  <2>2. PICK p \in BindResults(g) : boundport'[g] = p
    BY <1>1, <2>1 DEF Serve, PoolInv, PoolTypeOK, ProcTypeOK
  <2>3. CASE GamePortBase = 0
    BY <2>2, <2>3 DEF BindResults, EphemeralPorts, Gids
  <2>4. CASE GamePortBase # 0
    <3>1. ASSUME NEW h \in Gids, os[h] = "serving", boundport[h] = WantedPort(g)
          PROVE  FALSE
      <4>1. boundport[h] = WantedPort(h)
        BY <1>1, <2>4, <3>1, WantedPortTypes DEF PoolInv, PortsWanted
      <4>2. g \in Nat /\ h \in Nat
        BY DEF Gids
      <4>3. g % GamePortCount = h % GamePortCount
        <5>1. GamePortBase + (g % GamePortCount) = GamePortBase + (h % GamePortCount)
          BY ONLY <3>1, <4>1 DEF WantedPort
        <5> QED
          BY <4>2, <5>1, SamePort
      <4>4. g - h < GamePortCount /\ h - g < GamePortCount
        BY <1>1, <3>1 DEF Alive
      <4>5. g = h
        BY <4>2, <4>3, <4>4, NearbyRemainders
      <4> QED
        BY <1>1, <3>1, <4>5
    <3>2. WantedPort(g) \notin PortsInUse
      BY <3>1 DEF PortsInUse
    <3> QED
      BY <2>2, <2>4, <3>2, WantedPortTypes DEF BindResults
  <2> QED
    BY <2>3, <2>4
<1>2. PoolInv /\ [PoolNext]_allVars =>
        \A g \in Gids :
          /\ os[g] = "spawned" /\ os'[g] = "serving"
          /\ \A h \in Gids : Alive(h) => g - h < GamePortCount /\ h - g < GamePortCount
          => boundport'[g] # 0
  BY <1>1
<1> QED
  BY <1>2, PoolInvariance, PTL DEF PoolSpec, NearbyGamesGetPorts
=============================================================================
