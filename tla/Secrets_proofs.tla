---------------------------- MODULE Secrets_proofs ----------------------------
(***************************************************************************)
(* Proofs about a data-retrieval match, for any players, teams, terminals,  *)
(* order of the teams, threshold and number of secrets to win.              *)
(***************************************************************************)
EXTENDS Secrets, FiniteSetTheorems, TLAPS

(* A team makes progress only while no secret of its own is located.        *)
LocatedOnce == \A t \in Teams : progress[t] # 0 => beaming[t] = NoTerminal

-----------------------------------------------------------------------------
(* Types.                                                                   *)

(* Killing keeps the players' states among those a player may be in, and    *)
(* touches nobody who has gone.                                             *)
LEMMA KilledType ==
    ASSUME NEW ps, pstate \in [Players -> PlayerStates]
    PROVE  /\ Killed(ps) \in [Players -> PlayerStates]
           /\ \A p \in Players : Killed(ps)[p] = "gone" <=> pstate[p] = "gone"
  BY PlaceAssumption DEF Killed, PlayerStates, Standing

(* The outcome of a delivery is one of the teams, and it too touches nobody  *)
(* who has gone.                                                            *)
LEMMA DeliveredType ==
    ASSUME pstate \in [Players -> PlayerStates], winner \in Teams \cup {NoTeam},
           NEW t \in Teams, NEW n, OnSecretDelivered(t, n)
    PROVE  /\ pstate' \in [Players -> PlayerStates]
           /\ winner' \in Teams \cup {NoTeam}
           /\ \A p \in Players : pstate'[p] = "gone" <=> pstate[p] = "gone"
  <1>1. CASE n >= Needed /\ winner = NoTeam
    BY <1>1, KilledType DEF OnSecretDelivered, PlayerStates
  <1>2. CASE ~(n >= Needed /\ winner = NoTeam)
    BY <1>2 DEF OnSecretDelivered
  <1> QED BY <1>1, <1>2

(* Every variable keeps its type.                                           *)
LEMMA TypeStep == TypeOK /\ [Next]_vars => TypeOK'
  <1> SUFFICES ASSUME TypeOK, [Next]_vars PROVE TypeOK'
    OBVIOUS
  <1> USE DEF TypeOK
  <1>1. ASSUME EndTick PROVE TypeOK'
    BY <1>1 DEF EndTick, terminalVars, teamVars, playerVars, Turns, TerminalStates
  <1>2. ASSUME TickTerminals PROVE TypeOK'
    <2> USE DEF TickTerminals, playerVars, Turns, TerminalStates
    <2>1. turn' \in Turns
      BY <1>2, OrderAssumption
    <2>2. \A b \in Terminals, over \in SUBSET Terminals : Stepped(b, over) \in TerminalStates
      BY DEF Stepped
    <2>3. tstate' \in [Terminals -> TerminalStates]
      BY <1>2, <2>2
    <2>4. /\ hacker' \in [Terminals -> Players \cup {NoPlayer}]
          /\ beam' \in [Terminals -> BOOLEAN]
          /\ trace' \in [Terminals -> BOOLEAN]
          /\ beaming' \in [Teams -> Terminals \cup {NoTerminal}]
      BY <1>2
    <2> QED BY <1>2, <2>1, <2>3, <2>4
  <1>3. ASSUME NEW t \in Teams, TickTeam(t) PROVE TypeOK'
    <2> USE DEF TickTeam, Turns
    <2>1. turn' \in Turns
      BY <1>3, OrderAssumption
    <2>2. /\ secrets' \in [Teams -> Nat]
          /\ delivered' \in [Teams -> Players \cup {NoPlayer}]
          /\ pstate' \in [Players -> PlayerStates]
          /\ winner' \in Teams \cup {NoTeam}
      <3>1. CASE delivered[t] # NoPlayer
        BY <1>3, <3>1, DeliveredType
      <3>2. CASE delivered[t] = NoPlayer
        BY <1>3, <3>2
      <3> QED BY <3>1, <3>2
    <2>3. /\ progress' \in [Teams -> Nat]
          /\ tstate' \in [Terminals -> TerminalStates]
          /\ beam' \in [Terminals -> BOOLEAN]
          /\ beaming' \in [Teams -> Terminals \cup {NoTerminal}]
      <3>1. CASE progress[t] >= Threshold /\ Free # {}
        <4>1. OnSecretBeamReady(t)
          BY <1>3, <3>1
        <4>2. PICK b \in Free :
                /\ tstate' = [tstate EXCEPT ![b] = "SECRETBEAMING"]
                /\ beam' = [beam EXCEPT ![b] = TRUE]
                /\ beaming' = [beaming EXCEPT ![t] = b]
          BY <3>1, <4>1 DEF OnSecretBeamReady
        <4>3. progress' = [progress EXCEPT ![t] = 0]
          BY <4>1 DEF OnSecretBeamReady
        <4> QED BY <4>2, <4>3 DEF Free, TerminalStates
      <3>2. CASE progress[t] >= Threshold /\ Free = {}
        BY <1>3, <3>2 DEF OnSecretBeamReady
      <3>3. CASE ~(progress[t] >= Threshold)
        BY <1>3, <3>3
      <3> QED BY <3>1, <3>2, <3>3
    <2> QED BY <1>3, <2>1, <2>2, <2>3
  <1>4. ASSUME NEW o \in Teams, TraceOfPickUp(o) PROVE TypeOK'
    BY <1>4 DEF TraceOfPickUp, terminalVars, teamVars
  <1>5. ASSUME NEW p \in Players, NEW o \in Teams, PickUpItem(p, o) PROVE TypeOK'
    <2>1. ground \in [Teams -> Nat] /\ ground[o] \in Nat /\ ground[o] > 0
      BY <1>5 DEF PickUpItem
    <2>2. ground' \in [Teams -> Nat]
      <3> HIDE DEF TypeOK
      <3>1. ground[o] - 1 \in Nat
        BY <2>1
      <3>2. ground' = [ground EXCEPT ![o] = ground[o] - 1]
        BY <1>5 DEF PickUpItem
      <3> QED BY <2>1, <3>1, <3>2
    <2>3. /\ has' \in [Players -> Teams \cup {NoTeam}]
          /\ carrier' \in [Teams -> Players \cup {NoPlayer}]
      BY <1>5, SideAssumption DEF PickUpItem
    <2> QED BY <1>5, <2>2, <2>3 DEF PickUpItem, terminalVars
  <1>6. ASSUME NEW p \in Players, Kill(p) PROVE TypeOK'
    BY <1>6, KilledType DEF Kill, terminalVars, teamVars
  <1>7. ASSUME NEW p \in Players, NEW b \in Terminals, StartHacking(p, b) PROVE TypeOK'
    BY <1>7 DEF StartHacking, terminalVars, teamVars, PlayerStates
  <1>8. ASSUME NEW p \in Players, NEW b \in Terminals, Hack(p, b) PROVE TypeOK'
    BY <1>8, SideAssumption DEF Hack, playerVars, TerminalStates
  <1>9. ASSUME NEW p \in Players, NEW b \in Terminals, StopHacking(p, b) PROVE TypeOK'
    BY <1>9 DEF StopHacking, teamVars, PlayerStates, TerminalStates
  <1>10. ASSUME NEW p \in Players, BuyInfo(p) PROVE TypeOK'
    BY <1>10, SideAssumption DEF BuyInfo, terminalVars, playerVars
  <1>11. ASSUME NEW p \in Players, NEW b \in Terminals, TakeSecret(p, b) PROVE TypeOK'
    BY <1>11, SideAssumption DEF TakeSecret, TerminalStates
  <1>12. ASSUME NEW p \in Players, ReturnSecret(p) PROVE TypeOK'
    BY <1>12, SideAssumption DEF ReturnSecret, terminalVars
  <1>13. ASSUME NEW p \in Players, Traced(p) PROVE TypeOK'
    BY <1>13, SideAssumption, KilledType DEF Traced, terminalVars
  <1>14. ASSUME NEW p \in Players, DropAllItems(p) PROVE TypeOK'
    <2>1. CASE has[p] = NoTeam
      BY <1>14, <2>1 DEF DropAllItems, terminalVars, PlayerStates
    <2>2. CASE has[p] # NoTeam
      <3>1. /\ has' \in [Players -> Teams \cup {NoTeam}]
            /\ ptrace' \in [Players -> BOOLEAN]
            /\ carrier' \in [Teams -> Players \cup {NoPlayer}]
        BY <1>14, <2>2, SideAssumption DEF DropAllItems
      <3>2. ground' \in [Teams -> Nat] /\ pstate' \in [Players -> PlayerStates]
        BY <1>14, <2>2 DEF DropAllItems, PlayerStates
      <3> QED BY <1>14, <3>1, <3>2 DEF DropAllItems, terminalVars
    <2> QED BY <2>1, <2>2
  <1>15. ASSUME NEW p \in Players, Respawn(p) \/ Park(p) \/ Rejoin(p) PROVE TypeOK'
    BY <1>15 DEF Respawn, Park, Rejoin, terminalVars, teamVars, PlayerStates
  <1>16. ASSUME NEW p \in Players, Kick(p) PROVE TypeOK'
    BY <1>16 DEF Kick, terminalVars, teamVars, PlayerStates
  <1>17. ASSUME UNCHANGED vars PROVE TypeOK'
    BY <1>17 DEF vars, terminalVars, teamVars, playerVars
  <1> QED
    BY <1>1, <1>2, <1>3, <1>4, <1>5, <1>6, <1>7, <1>8, <1>9, <1>10, <1>11, <1>12,
       <1>13, <1>14, <1>15, <1>16, <1>17 DEF Next

(* Every variable keeps its type.                                           *)
THEOREM TypeCorrect == Spec => []TypeOK
  <1>1. Init => TypeOK
    BY DEF Init, TypeOK, Turns, TerminalStates, PlayerStates
  <1> QED BY <1>1, TypeStep, PTL DEF Spec

-----------------------------------------------------------------------------
(* The carrier.                                                             *)

(* Every step keeps the carrier of a team an agent of it that has a secret. *)
LEMMA CarrierStep == TypeOK /\ CarrierCarries /\ [Next]_vars => CarrierCarries'
  <1> SUFFICES ASSUME TypeOK, CarrierCarries, [Next]_vars PROVE CarrierCarries'
    OBVIOUS
  <1> USE DEF TypeOK, CarrierCarries
  <1>1. ASSUME UNCHANGED <<carrier, has>>,
               \A p \in Players : pstate[p] = "gone" => pstate'[p] = "gone"
        PROVE  CarrierCarries'
    BY <1>1
  <1>2. ASSUME NEW p \in Players,
               has' = [has EXCEPT ![p] = NoTeam],
               carrier' = [carrier EXCEPT ![Side[p]] = NoPlayer],
               \A q \in Players : pstate[q] = "gone" => pstate'[q] = "gone"
        PROVE  CarrierCarries'
    <2> SUFFICES ASSUME NEW t \in Teams, carrier'[t] # NoPlayer, pstate'[carrier'[t]] # "gone"
                 PROVE  Side[carrier'[t]] = t /\ has'[carrier'[t]] # NoTeam
      OBVIOUS
    <2>1. t # Side[p] /\ carrier'[t] = carrier[t]
      BY <1>2, SideAssumption
    <2>2. carrier[t] \in Players /\ Side[carrier[t]] = t /\ has[carrier[t]] # NoTeam
      BY <1>2, <2>1
    <2> QED BY <1>2, <2>1, <2>2
  <1>3. ASSUME NEW p \in Players, NEW o \in Teams,
               has' = [has EXCEPT ![p] = o],
               carrier' = [carrier EXCEPT ![Side[p]] = p],
               pstate' = pstate
        PROVE  CarrierCarries'
    BY <1>3, SideAssumption, NothingAssumption
  <1>4. ASSUME EndTick \/ TickTerminals \/ (\E o \in Teams : TraceOfPickUp(o)) PROVE CarrierCarries'
    BY <1>1, <1>4 DEF EndTick, TickTerminals, TraceOfPickUp, teamVars, playerVars
  <1>5. ASSUME NEW t \in Teams, TickTeam(t) PROVE CarrierCarries'
    <2>1. \A p \in Players : pstate[p] = "gone" => pstate'[p] = "gone"
      <3>1. CASE delivered[t] # NoPlayer
        BY <1>5, <3>1, DeliveredType DEF TickTeam
      <3>2. CASE delivered[t] = NoPlayer
        BY <1>5, <3>2 DEF TickTeam
      <3> QED BY <3>1, <3>2
    <2> QED BY <1>1, <1>5, <2>1 DEF TickTeam
  <1>6. ASSUME NEW p \in Players, NEW o \in Teams, PickUpItem(p, o) PROVE CarrierCarries'
    BY <1>3, <1>6 DEF PickUpItem
  <1>7. ASSUME NEW p \in Players, NEW b \in Terminals, TakeSecret(p, b) PROVE CarrierCarries'
    BY <1>3, <1>7, SideAssumption DEF TakeSecret
  <1>8. ASSUME NEW p \in Players, ReturnSecret(p) PROVE CarrierCarries'
    BY <1>2, <1>8 DEF ReturnSecret
  <1>9. ASSUME NEW p \in Players, Traced(p) PROVE CarrierCarries'
    BY <1>2, <1>9, KilledType DEF Traced
  <1>10. ASSUME NEW p \in Players, DropAllItems(p) PROVE CarrierCarries'
    <2>1. \A q \in Players : pstate[q] = "gone" => pstate'[q] = "gone"
      BY <1>10 DEF DropAllItems
    <2>2. CASE has[p] = NoTeam
      BY <1>1, <1>10, <2>1, <2>2 DEF DropAllItems
    <2>3. CASE has[p] # NoTeam
      BY <1>2, <1>10, <2>1, <2>3 DEF DropAllItems
    <2> QED BY <2>2, <2>3
  <1>11. ASSUME NEW p \in Players, Kick(p) PROVE CarrierCarries'
    BY <1>11 DEF Kick, teamVars
  <1>12. ASSUME NEW p \in Players, Kill(p) PROVE CarrierCarries'
    BY <1>1, <1>12, KilledType DEF Kill, teamVars
  <1>13. ASSUME NEW p \in Players, NEW b \in Terminals,
                StartHacking(p, b) \/ StopHacking(p, b)
         PROVE  CarrierCarries'
    BY <1>1, <1>13, PlaceAssumption DEF StartHacking, StopHacking, teamVars
  <1>14. ASSUME NEW p \in Players, NEW b \in Terminals, Hack(p, b) PROVE CarrierCarries'
    BY <1>1, <1>14 DEF Hack, playerVars
  <1>15. ASSUME NEW p \in Players, BuyInfo(p) PROVE CarrierCarries'
    BY <1>1, <1>15 DEF BuyInfo, playerVars
  <1>16. ASSUME NEW p \in Players, Respawn(p) \/ Park(p) \/ Rejoin(p) PROVE CarrierCarries'
    BY <1>1, <1>16 DEF Respawn, Park, Rejoin, teamVars
  <1>17. ASSUME UNCHANGED vars PROVE CarrierCarries'
    BY <1>1, <1>17 DEF vars, teamVars, playerVars
  <1> QED
    BY <1>4, <1>5, <1>6, <1>7, <1>8, <1>9, <1>10, <1>11, <1>12, <1>13, <1>14, <1>15,
       <1>16, <1>17 DEF Next

(* Whom a team's monitor follows is one of its own that has a secret.        *)
THEOREM TheCarrierCarries == Spec => []CarrierCarries
  <1>1. Init => CarrierCarries
    BY DEF Init, CarrierCarries
  <1> QED BY <1>1, CarrierStep, TypeCorrect, PTL DEF Spec

-----------------------------------------------------------------------------
(* The winner.                                                              *)

(* Every step keeps the winner a team with enough secrets, and one that has  *)
(* enough the occasion of a win.                                            *)
LEMMA WinnerStep == TypeOK /\ WinnerHasEnough /\ [Next]_vars => WinnerHasEnough'
  <1> SUFFICES ASSUME TypeOK, WinnerHasEnough, [Next]_vars PROVE WinnerHasEnough'
    OBVIOUS
  <1> USE DEF TypeOK, WinnerHasEnough
  <1>1. ASSUME UNCHANGED <<secrets, winner>> PROVE WinnerHasEnough'
    BY <1>1
  <1>2. ASSUME NEW t \in Teams, TickTeam(t) PROVE WinnerHasEnough'
    <2>1. CASE delivered[t] = NoPlayer
      BY <1>1, <1>2, <2>1 DEF TickTeam
    <2>2. CASE delivered[t] # NoPlayer
      <3>1. /\ secrets' = [secrets EXCEPT ![t] = secrets[t] + 1]
            /\ OnSecretDelivered(t, secrets[t] + 1)
        BY <1>2, <2>2 DEF TickTeam
      <3>2. CASE secrets[t] + 1 >= Needed /\ winner = NoTeam
        <4>1. winner' = t
          BY <3>1, <3>2 DEF OnSecretDelivered
        <4>2. secrets'[t] = secrets[t] + 1
          BY <3>1
        <4> QED BY <3>2, <4>1, <4>2, NothingAssumption
      <3>3. CASE ~(secrets[t] + 1 >= Needed /\ winner = NoTeam)
        <4>1. winner' = winner
          BY <3>1, <3>3 DEF OnSecretDelivered
        <4>2. \A u \in Teams : secrets'[u] >= secrets[u] /\ (u # t => secrets'[u] = secrets[u])
          BY <3>1
        <4>3. CASE winner # NoTeam
          <5>1. winner \in Teams /\ secrets[winner] \in Nat /\ secrets[winner] >= Needed
            BY <4>3
          <5>2. secrets'[winner] = secrets[winner] \/ secrets'[winner] = secrets[winner] + 1
            BY <3>1, <5>1
          <5>3. Needed \in Nat
            BY CountAssumption
          <5> HIDE DEF TypeOK
          <5>4. secrets'[winner] >= Needed
            BY <5>1, <5>2, <5>3
          <5> QED BY <4>1, <4>3, <5>4
        <4>4. CASE winner = NoTeam
          <5>1. \A u \in Teams : secrets[u] \in Nat /\ ~(secrets[u] >= Needed)
            BY <4>4, NothingAssumption
          <5>2. ASSUME NEW u \in Teams PROVE ~(secrets'[u] >= Needed)
            <6>1. CASE u = t
              BY <3>1, <3>3, <4>4, <6>1
            <6>2. CASE u # t
              BY <4>2, <5>1, <6>2
            <6> QED BY <6>1, <6>2
          <5>3. winner' = NoTeam
            BY <4>1, <4>4
          <5> HIDE DEF TypeOK
          <5> QED BY <5>2, <5>3
        <4> QED BY <4>3, <4>4
      <3> QED BY <3>2, <3>3
    <2> QED BY <2>1, <2>2
  <1>3. ASSUME ~\E t \in Teams : TickTeam(t) PROVE UNCHANGED <<secrets, winner>>
    BY <1>3 DEF Next, vars, terminalVars, teamVars, playerVars, EndTick, TickTerminals,
         TraceOfPickUp, PickUpItem, Kill, StartHacking, Hack, StopHacking, BuyInfo,
         TakeSecret, ReturnSecret, Traced, DropAllItems, Respawn, Park, Rejoin, Kick
  <1> QED BY <1>1, <1>2, <1>3

(* A match is won by the first team with enough secrets, and at once: what   *)
(* DataRetrievalMode::Tick looks for is never there.                        *)
THEOREM TheWinnerHasEnough == Spec => []WinnerHasEnough
  <1>1. Init => WinnerHasEnough
    BY CountAssumption DEF Init, WinnerHasEnough
  <1> QED BY <1>1, WinnerStep, TypeCorrect, PTL DEF Spec

-----------------------------------------------------------------------------
(* Locations.                                                               *)

(* Every step keeps a team that makes progress without a located secret, and *)
(* gives no team a second one.                                              *)
LEMMA LocatedStep ==
    TypeOK /\ LocatedOnce /\ [Next]_vars =>
        /\ LocatedOnce'
        /\ \A t \in Teams : beaming[t] # NoTerminal => beaming'[t] \in {beaming[t], NoTerminal}
  <1> DEFINE Once == \A t \in Teams :
                        beaming[t] # NoTerminal => beaming'[t] \in {beaming[t], NoTerminal}
  <1> SUFFICES ASSUME TypeOK, LocatedOnce, [Next]_vars PROVE LocatedOnce' /\ Once
    OBVIOUS
  <1> USE DEF TypeOK, LocatedOnce
  <1>1. ASSUME UNCHANGED progress,
               \A t \in Teams : beaming'[t] \in {beaming[t], NoTerminal}
        PROVE  LocatedOnce' /\ Once
    BY <1>1
  <1>2. ASSUME NEW t \in Teams, TickTeam(t) PROVE LocatedOnce' /\ Once
    <2>1. CASE progress[t] >= Threshold
      <3>1. beaming[t] = NoTerminal
        BY <2>1, CountAssumption
      <3>2. OnSecretBeamReady(t)
        BY <1>2, <2>1 DEF TickTeam
      <3>3. progress' = [progress EXCEPT ![t] = 0]
        BY <3>2 DEF OnSecretBeamReady
      <3>4. \A u \in Teams \ {t} : beaming'[u] = beaming[u]
        BY <3>2 DEF OnSecretBeamReady
      <3> QED BY <3>1, <3>3, <3>4
    <2>2. CASE ~(progress[t] >= Threshold)
      BY <1>1, <1>2, <2>2 DEF TickTeam
    <2> QED BY <2>1, <2>2
  <1>3. ASSUME NEW p \in Players, beaming[Side[p]] = NoTerminal, NEW d \in Nat,
               progress' = [progress EXCEPT ![Side[p]] = @ + d], beaming' = beaming
        PROVE  LocatedOnce' /\ Once
    BY <1>3, SideAssumption
  <1>4. ASSUME NEW p \in Players, BuyInfo(p) PROVE LocatedOnce' /\ Once
    BY <1>3, <1>4 DEF BuyInfo
  <1>5. ASSUME NEW p \in Players, NEW b \in Terminals, Hack(p, b) PROVE LocatedOnce' /\ Once
    <2>1. PICK d \in 0 .. 1 :
            /\ d = 1 => beaming[Side[p]] = NoTerminal
            /\ progress' = [progress EXCEPT ![Side[p]] = @ + d]
      BY <1>5 DEF Hack
    <2>2. beaming' = beaming
      BY <1>5 DEF Hack
    <2>3. CASE d = 1
      BY <1>3, <2>1, <2>2, <2>3
    <2>4. CASE d = 0
      BY <1>1, <2>1, <2>2, <2>4, SideAssumption
    <2> QED BY <2>1, <2>3, <2>4
  <1>6. ASSUME NEW p \in Players, NEW b \in Terminals, TakeSecret(p, b)
        PROVE  LocatedOnce' /\ Once
    BY <1>1, <1>6, SideAssumption DEF TakeSecret
  <1>7. ASSUME TickTerminals PROVE LocatedOnce' /\ Once
    BY <1>1, <1>7 DEF TickTerminals
  <1>8. ASSUME EndTick \/ (\E o \in Teams : TraceOfPickUp(o)) PROVE LocatedOnce' /\ Once
    BY <1>1, <1>8 DEF EndTick, TraceOfPickUp, teamVars
  <1>9. ASSUME NEW p \in Players,
               \/ Kill(p) \/ ReturnSecret(p) \/ Traced(p) \/ DropAllItems(p) \/ Respawn(p)
               \/ Park(p) \/ Rejoin(p) \/ Kick(p)
               \/ \E o \in Teams : PickUpItem(p, o)
               \/ \E b \in Terminals : StartHacking(p, b) \/ StopHacking(p, b)
        PROVE  LocatedOnce' /\ Once
    <2>1. UNCHANGED <<progress, beaming>>
      BY <1>9 DEF Kill, ReturnSecret, Traced, DropAllItems, Respawn, Park, Rejoin, Kick,
           PickUpItem, StartHacking, StopHacking, teamVars
    <2> QED BY <1>1, <2>1
  <1>10. ASSUME UNCHANGED vars PROVE LocatedOnce' /\ Once
    BY <1>1, <1>10 DEF vars, teamVars
  <1> QED
    BY <1>2, <1>4, <1>5, <1>6, <1>7, <1>8, <1>9, <1>10 DEF Next

(* A team locates one secret at a time.                                     *)
THEOREM LocatesOneAtATime == Spec => OneLocationAtATime
  <1>1. Init => LocatedOnce
    BY DEF Init, LocatedOnce
  <1>2. TypeOK /\ LocatedOnce /\ [Next]_vars =>
          [\A t \in Teams : beaming[t] # NoTerminal
              => beaming'[t] \in {beaming[t], NoTerminal}]_vars
    BY LocatedStep
  <1> QED BY <1>1, <1>2, LocatedStep, TypeCorrect, PTL DEF Spec, OneLocationAtATime

-----------------------------------------------------------------------------
(* Counting secrets.                                                        *)

(* One element for each of n[t] is finitely many, and one more for a team   *)
(* is one more.                                                             *)
LEMMA EachFinite ==
    ASSUME NEW n \in [Teams -> Nat]
    PROVE  IsFiniteSet(Each(n)) /\ Cardinality(Each(n)) \in Nat
  <1> DEFINE Column == [t \in Teams |-> {t} \X (1 .. n[t])]
             Columns == {Column[t] : t \in Teams}
  <1>1. Column \in Surjection(Teams, Columns)
    BY DEF Surjection
  <1>2. IsFiniteSet(Columns)
    BY ONLY <1>1, SizeAssumption, FS_Surjection
  <1>3. ASSUME NEW t \in Teams PROVE IsFiniteSet(Column[t])
    <2>1. IsFiniteSet(1 .. n[t])
      BY FS_Interval
    <2>2. IsFiniteSet({t})
      BY FS_Singleton
    <2> QED BY <2>1, <2>2, FS_Product
  <1>4. \A C \in Columns : IsFiniteSet(C)
    BY <1>3
  <1>5. Each(n) = UNION Columns
    BY DEF Each
  <1>6. IsFiniteSet(UNION Columns)
    <2> HIDE DEF Columns
    <2> QED BY <1>2, <1>4, FS_UNION
  <1> QED BY <1>5, <1>6, FS_CardinalityType

LEMMA OneMore ==
    ASSUME NEW n \in [Teams -> Nat], NEW m \in [Teams -> Nat], NEW t \in Teams,
           m[t] = n[t] + 1, \A u \in Teams : u # t => m[u] = n[u]
    PROVE  Cardinality(Each(m)) = Cardinality(Each(n)) + 1
  <1> DEFINE new == <<t, n[t] + 1>>
  <1>1. \A x : x \in Each(n) <=> \E u \in Teams : \E k \in 1 .. n[u] : x = <<u, k>>
    BY DEF Each
  <1>2. \A x : x \in Each(m) <=> \E u \in Teams : \E k \in 1 .. m[u] : x = <<u, k>>
    BY DEF Each
  <1>3. new \notin Each(n)
    BY <1>1
  <1>4. Each(m) = Each(n) \cup {new}
    <2>1. \A u \in Teams : m[u] = IF u = t THEN n[t] + 1 ELSE n[u]
      OBVIOUS
    <2>2. \A k : k \in 1 .. m[t] <=> k \in 1 .. n[t] \/ k = n[t] + 1
      BY <2>1
    <2>3. ASSUME NEW x \in Each(m) PROVE x \in Each(n) \cup {new}
      <3>1. PICK u \in Teams : \E k \in 1 .. m[u] : x = <<u, k>>
        BY <1>2
      <3>2. PICK k \in 1 .. m[u] : x = <<u, k>>
        BY <3>1
      <3> QED BY <1>1, <2>1, <2>2, <3>2
    <2>4. ASSUME NEW x \in Each(n) PROVE x \in Each(m)
      <3>1. PICK u \in Teams : \E k \in 1 .. n[u] : x = <<u, k>>
        BY <1>1
      <3>2. PICK k \in 1 .. n[u] : x = <<u, k>>
        BY <3>1
      <3>3. k \in 1 .. m[u]
        BY <2>1, <2>2
      <3> QED BY <1>2, <3>2, <3>3
    <2>5. new \in Each(m)
      <3>1. n[t] + 1 \in 1 .. m[t]
        BY <2>1
      <3> QED BY <1>2, <3>1
    <2> HIDE DEF new
    <2> QED BY <2>3, <2>4, <2>5
  <1> HIDE DEF new
  <1> QED BY <1>3, <1>4, EachFinite, FS_AddElement

(* A part of a set is no larger, with one of it left out it is smaller, and *)
(* with one more it is larger by one at most.                               *)
LEMMA PartIsSmaller ==
    ASSUME NEW A, IsFiniteSet(A), NEW B
    PROVE  /\ Cardinality(A) \in Nat
           /\ B \subseteq A =>
                 /\ IsFiniteSet(B) /\ Cardinality(B) \in Nat
                 /\ Cardinality(B) <= Cardinality(A)
           /\ \A x : x \in A /\ B \subseteq A \ {x} =>
                 Cardinality(B) <= Cardinality(A) - 1
           /\ \A x : B \subseteq A \cup {x} => Cardinality(B) <= Cardinality(A) + 1
  <1>1. Cardinality(A) \in Nat
    BY FS_CardinalityType
  <1>2. ASSUME B \subseteq A
        PROVE  /\ IsFiniteSet(B) /\ Cardinality(B) \in Nat
               /\ Cardinality(B) <= Cardinality(A)
    BY <1>2, FS_Subset, FS_CardinalityType
  <1>3. ASSUME NEW x, x \in A, B \subseteq A \ {x}
        PROVE  Cardinality(B) <= Cardinality(A) - 1
    <2>1. IsFiniteSet(A \ {x}) /\ Cardinality(A \ {x}) = Cardinality(A) - 1
      BY <1>3, FS_RemoveElement
    <2>2. Cardinality(B) <= Cardinality(A \ {x})
      BY <1>3, <2>1, FS_Subset
    <2> QED BY <2>1, <2>2
  <1>4. ASSUME NEW x, B \subseteq A \cup {x}
        PROVE  Cardinality(B) <= Cardinality(A) + 1
    <2>1. /\ IsFiniteSet(A \cup {x})
          /\ Cardinality(A \cup {x}) \in {Cardinality(A), Cardinality(A) + 1}
      BY FS_AddElement
    <2>2. Cardinality(B) \in Nat /\ Cardinality(B) <= Cardinality(A \cup {x})
      BY <1>4, <2>1, FS_Subset, FS_CardinalityType
    <2> QED BY <1>1, <2>1, <2>2
  <1> QED BY <1>1, <1>2, <1>3, <1>4

(* What Total counts is finite, before a step and after it.                 *)
LEMMA CountsAreNumbers ==
    ASSUME TypeOK, TypeOK'
    PROVE  /\ IsFiniteSet(Ready) /\ IsFiniteSet(Carriers) /\ IsFiniteSet(Pending)
           /\ IsFiniteSet(Ready')
           /\ Cardinality(Ready) \in Nat /\ Cardinality(Ready') \in Nat
           /\ Cardinality(Carriers) \in Nat /\ Cardinality(Carriers') \in Nat
           /\ Cardinality(Pending) \in Nat /\ Cardinality(Pending') \in Nat
           /\ Lying \in Nat /\ Lying' \in Nat
           /\ Counted \in Nat /\ Counted' \in Nat
  <1>1. /\ Ready \subseteq Terminals /\ Carriers \subseteq Players /\ Pending \subseteq Teams
        /\ Ready' \subseteq Terminals /\ Carriers' \subseteq Players /\ Pending' \subseteq Teams
    BY DEF Ready, Carriers, Pending
  <1>2. /\ IsFiniteSet(Ready) /\ IsFiniteSet(Carriers) /\ IsFiniteSet(Pending)
        /\ IsFiniteSet(Ready') /\ IsFiniteSet(Carriers') /\ IsFiniteSet(Pending')
    BY <1>1, SizeAssumption, FS_Subset
  <1>3. Lying \in Nat /\ Counted \in Nat
    BY EachFinite DEF TypeOK, Lying, Counted
  <1>4. Lying' \in Nat /\ Counted' \in Nat
    BY EachFinite DEF TypeOK, Lying, Counted
  <1> QED BY <1>2, <1>3, <1>4, FS_CardinalityType

(* What becomes ready is counted by the new ones.                           *)
LEMMA ReadyGrows ==
    ASSUME TypeOK, TypeOK'
    PROVE  /\ Cardinality(Ready' \ Ready) \in Nat
           /\ Cardinality(Ready') <= Cardinality(Ready) + Cardinality(Ready' \ Ready)
  <1>1. /\ IsFiniteSet(Ready') /\ IsFiniteSet(Ready)
        /\ Cardinality(Ready) \in Nat /\ Cardinality(Ready') \in Nat
    BY CountsAreNumbers
  <1>2. /\ IsFiniteSet(Ready' \ Ready)
        /\ Cardinality(Ready' \ Ready) = Cardinality(Ready') - Cardinality(Ready' \cap Ready)
    BY <1>1, FS_Difference
  <1>3. Cardinality(Ready' \cap Ready) \in Nat
        /\ Cardinality(Ready' \cap Ready) <= Cardinality(Ready)
    BY <1>1, PartIsSmaller, Ready' \cap Ready \subseteq Ready
  <1>4. Cardinality(Ready' \ Ready) \in Nat
    BY <1>2, FS_CardinalityType
  <1> QED BY <1>1, <1>2, <1>3, <1>4

(* A step that only touches terminals.                                      *)
LEMMA OnlyTerminals ==
    ASSUME TypeOK, TypeOK', UNCHANGED <<ground, has, delivered, secrets>>
    PROVE  Total' - Total <= Cardinality(Ready' \ Ready)
  <1>1. Carriers' = Carriers /\ Pending' = Pending /\ Lying' = Lying /\ Counted' = Counted
    BY DEF Carriers, Pending, Lying, Counted
  <1> QED BY <1>1, CountsAreNumbers, ReadyGrows DEF Total, About

(* A step after which no more terminals are ready, and that at most moves a  *)
(* secret from one place to another.                                        *)
LEMMA OnlyMoves ==
    ASSUME TypeOK, TypeOK',
           Cardinality(Ready') + Lying' + Cardinality(Carriers') + Cardinality(Pending')
               + Counted'
           <= Cardinality(Ready) + Lying + Cardinality(Carriers) + Cardinality(Pending)
               + Counted
    PROVE  Total' - Total <= Cardinality(Ready' \ Ready)
  BY CountsAreNumbers, ReadyGrows DEF Total, About

(* No step makes up a secret.                                               *)
LEMMA TotalStep ==
    ASSUME TypeOK, TypeOK', Next
    PROVE  Total' - Total <= Cardinality(Ready' \ Ready)
  <1> DEFINE Goal == Total' - Total <= Cardinality(Ready' \ Ready)
  <1>1. /\ IsFiniteSet(Ready) /\ IsFiniteSet(Carriers) /\ IsFiniteSet(Pending)
        /\ Cardinality(Ready) \in Nat /\ Cardinality(Ready') \in Nat
        /\ Cardinality(Carriers) \in Nat /\ Cardinality(Carriers') \in Nat
        /\ Cardinality(Pending) \in Nat /\ Cardinality(Pending') \in Nat
        /\ Lying \in Nat /\ Lying' \in Nat
        /\ Counted \in Nat /\ Counted' \in Nat
    BY CountsAreNumbers
  <1>2. /\ UNCHANGED tstate => Ready' = Ready
        /\ UNCHANGED has => Carriers' = Carriers
        /\ UNCHANGED delivered => Pending' = Pending
        /\ UNCHANGED ground => Lying' = Lying
        /\ UNCHANGED secrets => Counted' = Counted
    BY DEF Ready, Carriers, Pending, Lying, Counted
  <1>3. /\ ground \in [Teams -> Nat] /\ ground' \in [Teams -> Nat]
        /\ secrets \in [Teams -> Nat] /\ secrets' \in [Teams -> Nat]
        /\ has \in [Players -> Teams \cup {NoTeam}]
        /\ delivered \in [Teams -> Players \cup {NoPlayer}]
        /\ tstate \in [Terminals -> TerminalStates]
    BY DEF TypeOK
  <1>4. ASSUME NEW o \in Teams, ground[o] > 0, ground' = [ground EXCEPT ![o] = @ - 1]
        PROVE  Lying = Lying' + 1
    <2>1. ground[o] = ground'[o] + 1 /\ \A u \in Teams : u # o => ground[u] = ground'[u]
      BY <1>3, <1>4
    <2>2. Cardinality(Each(ground)) = Cardinality(Each(ground')) + 1
      BY ONLY <1>3, <2>1, o \in Teams, OneMore
    <2>3. Lying' = Cardinality(Each(ground'))
      BY DEF Lying, Each
    <2> QED BY <2>2, <2>3 DEF Lying
  <1>5. ASSUME NEW o \in Teams, ground' = [ground EXCEPT ![o] = @ + 1]
        PROVE  Lying' = Lying + 1
    <2>1. ground'[o] = ground[o] + 1 /\ \A u \in Teams : u # o => ground'[u] = ground[u]
      BY <1>3, <1>5
    <2>2. Cardinality(Each(ground')) = Cardinality(Each(ground)) + 1
      BY ONLY <1>3, <2>1, o \in Teams, OneMore
    <2>3. Lying' = Cardinality(Each(ground'))
      BY DEF Lying, Each
    <2> QED BY <2>2, <2>3 DEF Lying
  <1>6. ASSUME NEW t \in Teams, secrets' = [secrets EXCEPT ![t] = @ + 1]
        PROVE  Counted' = Counted + 1
    <2>1. secrets'[t] = secrets[t] + 1 /\ \A u \in Teams : u # t => secrets'[u] = secrets[u]
      BY <1>3, <1>6
    <2>2. Cardinality(Each(secrets')) = Cardinality(Each(secrets)) + 1
      BY ONLY <1>3, <2>1, t \in Teams, OneMore
    <2>3. Counted' = Cardinality(Each(secrets'))
      BY DEF Counted, Each
    <2> QED BY <2>2, <2>3 DEF Counted
  <1>7. ASSUME NEW p \in Players, \A q \in Players : q # p => has'[q] = has[q]
        PROVE  /\ Cardinality(Carriers') <= Cardinality(Carriers) + 1
               /\ has'[p] = NoTeam => Cardinality(Carriers') <= Cardinality(Carriers)
               /\ has'[p] = NoTeam /\ has[p] # NoTeam =>
                     Cardinality(Carriers') <= Cardinality(Carriers) - 1
    <2>1. Carriers' \subseteq Carriers \cup {p}
      BY <1>7 DEF Carriers
    <2>2. has'[p] = NoTeam => Carriers' \subseteq Carriers \ {p}
      BY <1>7 DEF Carriers
    <2>3. has[p] # NoTeam => p \in Carriers
      BY DEF Carriers
    <2> QED BY <1>1, <2>1, <2>2, <2>3, PartIsSmaller
  <1>8. ASSUME EndTick \/ TickTerminals PROVE Goal
    BY <1>8, OnlyTerminals DEF EndTick, TickTerminals, teamVars, playerVars
  <1>9. ASSUME NEW p \in Players,
               \/ Kill(p) \/ BuyInfo(p) \/ Respawn(p) \/ Park(p) \/ Rejoin(p)
               \/ \E b \in Terminals : StartHacking(p, b) \/ Hack(p, b) \/ StopHacking(p, b)
        PROVE  Goal
    BY <1>9, OnlyTerminals
    DEF Kill, BuyInfo, Respawn, Park, Rejoin, StartHacking, Hack, StopHacking, teamVars,
        playerVars
  <1>10. ASSUME NEW t \in Teams, TickTeam(t) PROVE Goal
    <2>1. Cardinality(Ready') <= Cardinality(Ready)
      <3>1. Ready' \subseteq Ready
        BY <1>3, <1>10 DEF TickTeam, OnSecretBeamReady, Ready
      <3> QED BY <1>1, <3>1, PartIsSmaller
    <2>2. Carriers' = Carriers /\ Lying' = Lying
      BY <1>2, <1>10 DEF TickTeam
    <2>3. CASE delivered[t] # NoPlayer
      <3>1. Counted' = Counted + 1
        BY <1>6, <1>10, <2>3 DEF TickTeam
      <3>2. delivered' = [delivered EXCEPT ![t] = NoPlayer]
        BY <1>10, <2>3 DEF TickTeam
      <3>3. t \in Pending /\ Pending' \subseteq Pending \ {t}
        BY <1>3, <2>3, <3>2 DEF Pending
      <3>4. Cardinality(Pending') <= Cardinality(Pending) - 1
        BY <1>1, <3>3, PartIsSmaller
      <3> QED BY <1>1, <2>1, <2>2, <3>1, <3>4, OnlyMoves
    <2>4. CASE delivered[t] = NoPlayer
      <3>1. Counted' = Counted /\ Pending' = Pending
        BY <1>2, <1>10, <2>4 DEF TickTeam
      <3> QED BY <1>1, <2>1, <2>2, <3>1, OnlyMoves
    <2> QED BY <2>3, <2>4
  <1>11. ASSUME NEW o \in Teams, TraceOfPickUp(o) PROVE Goal
    <2>1. Lying = Lying' + 1
      BY <1>4, <1>11 DEF TraceOfPickUp
    <2>2. Ready' = Ready /\ Carriers' = Carriers /\ Pending' = Pending /\ Counted' = Counted
      BY <1>2, <1>11 DEF TraceOfPickUp, terminalVars, teamVars
    <2> QED BY <1>1, <2>1, <2>2, OnlyMoves
  <1>12. ASSUME NEW p \in Players, NEW o \in Teams, PickUpItem(p, o) PROVE Goal
    <2>1. Lying = Lying' + 1
      BY <1>4, <1>12 DEF PickUpItem
    <2>2. Cardinality(Carriers') <= Cardinality(Carriers) + 1
      BY <1>3, <1>7, <1>12 DEF PickUpItem
    <2>3. Ready' = Ready /\ Pending' = Pending /\ Counted' = Counted
      BY <1>2, <1>12 DEF PickUpItem, terminalVars
    <2> QED BY <1>1, <2>1, <2>2, <2>3, OnlyMoves
  <1>13. ASSUME NEW p \in Players, NEW b \in Terminals, TakeSecret(p, b) PROVE Goal
    <2>1. b \in Ready /\ Ready' \subseteq Ready \ {b}
      BY <1>3, <1>13 DEF TakeSecret, Ready
    <2>2. Cardinality(Ready') <= Cardinality(Ready) - 1
      BY <1>1, <2>1, PartIsSmaller
    <2>3. Cardinality(Carriers') <= Cardinality(Carriers) + 1
      BY <1>3, <1>7, <1>13 DEF TakeSecret
    <2>4. Lying' = Lying /\ Pending' = Pending /\ Counted' = Counted
      BY <1>2, <1>13 DEF TakeSecret
    <2> QED BY <1>1, <2>2, <2>3, <2>4, OnlyMoves
  <1>14. ASSUME NEW p \in Players, ReturnSecret(p) PROVE Goal
    <2>1. Cardinality(Carriers') <= Cardinality(Carriers) - 1
      BY <1>3, <1>7, <1>14 DEF ReturnSecret
    <2>2. Pending' \subseteq Pending \cup {Side[p]}
      BY <1>3, <1>14 DEF ReturnSecret, Pending
    <2>3. Cardinality(Pending') <= Cardinality(Pending) + 1
      BY <1>1, <2>2, PartIsSmaller
    <2>4. Ready' = Ready /\ Lying' = Lying /\ Counted' = Counted
      BY <1>2, <1>14 DEF ReturnSecret, terminalVars
    <2> QED BY <1>1, <2>1, <2>3, <2>4, OnlyMoves
  <1>15. ASSUME NEW p \in Players, Traced(p) \/ Kick(p) PROVE Goal
    <2>1. Cardinality(Carriers') <= Cardinality(Carriers)
      BY <1>3, <1>7, <1>15 DEF Traced, Kick
    <2>2. Ready' = Ready /\ Lying' = Lying /\ Pending' = Pending /\ Counted' = Counted
      BY <1>2, <1>15 DEF Traced, Kick, terminalVars, teamVars
    <2> QED BY <1>1, <2>1, <2>2, OnlyMoves
  <1>16. ASSUME NEW p \in Players, DropAllItems(p) PROVE Goal
    <2>1. Ready' = Ready /\ Pending' = Pending /\ Counted' = Counted
      BY <1>2, <1>16 DEF DropAllItems, terminalVars
    <2>2. CASE has[p] = NoTeam
      <3>1. Lying' = Lying /\ Carriers' = Carriers
        BY <1>2, <1>16, <2>2 DEF DropAllItems
      <3> QED BY <1>1, <2>1, <3>1, OnlyMoves
    <2>3. CASE has[p] # NoTeam
      <3>1. Lying' = Lying + 1
        BY <1>3, <1>5, <1>16, <2>3 DEF DropAllItems
      <3>2. Cardinality(Carriers') <= Cardinality(Carriers) - 1
        BY <1>3, <1>7, <1>16, <2>3 DEF DropAllItems
      <3> QED BY <1>1, <2>1, <3>1, <3>2, OnlyMoves
    <2> QED BY <2>2, <2>3
  <1> QED
    BY <1>8, <1>9, <1>10, <1>11, <1>12, <1>13, <1>14, <1>15, <1>16 DEF Next

(* Secrets are never made up: with every step there are as many more, lying, *)
(* carried, delivered or counted, as terminals have just got one ready.     *)
THEOREM NothingIsMadeUp == Spec => NothingFromNothing
  <1>1. TypeOK /\ TypeOK' /\ [Next]_vars => [Total' - Total <= Cardinality(Ready' \ Ready)]_vars
    BY TotalStep
  <1> QED BY <1>1, TypeCorrect, PTL DEF Spec, NothingFromNothing
=============================================================================
