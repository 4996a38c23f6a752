------------------------------- MODULE Secrets -------------------------------
(***************************************************************************)
(* A data-retrieval match on its server: agents hack terminals for their    *)
(* team, enough progress locates a secret in a big terminal, an agent       *)
(* fetches it, drops it when killed, and brings it to its base; Needed      *)
(* secrets win.                                                            *)
(*                                                                         *)
(* A world tick ticks the terminals, then the teams, then every player for  *)
(* the inputs that came; turn is the object whose turn it is.  Where things *)
(* are is left to the players' choice, and a clock of seconds that counts   *)
(* down may run out at any tick.  Every team has its base.                  *)
(*                                                                         *)
(* Source: clients/silencer/src/game/modes/data_retrieval_mode.cpp,          *)
(* game/actor/team.cpp, stations/terminal.cpp, objects/pickup.cpp,          *)
(* actors/player/player.cpp, world/world.cpp, world/network.                *)
(***************************************************************************)
EXTENDS Integers, FiniteSets

CONSTANTS
    Players, Teams,
    Side,       \* the team of a player
    Terminals,  \* the big ones
    Order,      \* the teams tick after the terminals, one after the other
    NoPlayer, NoTeam, NoTerminal,
    Threshold,  \* secretProgressBeamThresh
    Needed,     \* secretsNeededToWin
    MaxSecrets, \* bound on the secrets located, about or counted
    Leavers     \* bound: the players that may lose their connection

Turns == Teams \cup {"terminals", "inputs"}

ASSUME SideAssumption == Side \in [Players -> Teams]
ASSUME OrderAssumption == Order \in [Turns -> Turns]
ASSUME NothingAssumption ==
    NoPlayer \notin Players /\ NoTeam \notin Teams /\ NoTerminal \notin Terminals
ASSUME PlaceAssumption ==
    /\ Terminals \cap {"up", "dying", "dead", "left", "parked", "gone"} = {}
    /\ Teams \cap {"terminals", "inputs"} = {}
ASSUME LeaverAssumption == Leavers \subseteq Players
ASSUME SizeAssumption ==
    IsFiniteSet(Players) /\ IsFiniteSet(Teams) /\ IsFiniteSet(Terminals)
ASSUME CountAssumption ==
    Threshold \in Nat \ {0} /\ Needed \in Nat \ {0} /\ MaxSecrets \in Nat

VARIABLES
    turn,
    tstate, hacker,    \* terminals: state, hackerid
    beam, trace,       \* beamingtime > 0, tracetime > 0
    progress, secrets, \* teams: secretprogress, secrets
    beaming,           \* beamingterminalid
    delivered,         \* secretdelivered
    carrier,           \* playerwithsecret
    pstate,            \* players; one that hacks is at its terminal
    has,               \* secretteamid while hassecret
    ptrace,            \* tracetime > 0
    ground,            \* secrets that lie about, by their secretteamid
    winner             \* winningteamid

terminalVars == <<tstate, hacker, beam, trace>>
teamVars == <<progress, secrets, beaming, delivered, carrier>>
playerVars == <<pstate, has, ptrace, ground>>
vars == <<turn, terminalVars, teamVars, playerVars, winner>>

TerminalStates == {"INACTIVE", "BEAMING", "READY", "HACKING", "HACKERGONE",
                   "SECRETBEAMING", "SECRETREADY"}
PlayerStates == Terminals \cup {"up", "dying", "dead", "left", "parked", "gone"}

TypeOK ==
    /\ turn \in Turns
    /\ tstate \in [Terminals -> TerminalStates]
    /\ hacker \in [Terminals -> Players \cup {NoPlayer}]
    /\ beam \in [Terminals -> BOOLEAN]
    /\ trace \in [Terminals -> BOOLEAN]
    /\ progress \in [Teams -> Nat]
    /\ secrets \in [Teams -> Nat]
    /\ beaming \in [Teams -> Terminals \cup {NoTerminal}]
    /\ delivered \in [Teams -> Players \cup {NoPlayer}]
    /\ carrier \in [Teams -> Players \cup {NoPlayer}]
    /\ pstate \in [Players -> PlayerStates]
    /\ has \in [Players -> Teams \cup {NoTeam}]
    /\ ptrace \in [Players -> BOOLEAN]
    /\ ground \in [Teams -> Nat]
    /\ winner \in Teams \cup {NoTeam}

Init ==
    /\ turn = "terminals"
    /\ tstate = [b \in Terminals |-> "INACTIVE"]
    /\ hacker = [b \in Terminals |-> NoPlayer]
    /\ beam = [b \in Terminals |-> FALSE]
    /\ trace = [b \in Terminals |-> FALSE]
    /\ progress = [t \in Teams |-> 0]
    /\ secrets = [t \in Teams |-> 0]
    /\ beaming = [t \in Teams |-> NoTerminal]
    /\ delivered = [t \in Teams |-> NoPlayer]
    /\ carrier = [t \in Teams |-> NoPlayer]
    /\ pstate = [p \in Players |-> "up"]
    /\ has = [p \in Players |-> NoTeam]
    /\ ptrace = [p \in Players |-> FALSE]
    /\ ground = [t \in Teams |-> 0]
    /\ winner = NoTeam

-----------------------------------------------------------------------------
(* Helpers.                                                                *)

Carriers == {p \in Players : has[p] # NoTeam}
Each(n) == UNION {{t} \X (1 .. n[t]) : t \in Teams}
Lying == Cardinality(Each(ground))
Counted == Cardinality(Each(secrets))
Ready == {b \in Terminals : tstate[b] = "SECRETREADY"}
Pending == {t \in Teams : delivered[t] # NoPlayer}

(* Secrets that somebody may still fetch, carry or deliver.                 *)
About == Cardinality(Ready) + Lying + Cardinality(Carriers) + Cardinality(Pending)

(* A bound of the model: nobody makes progress once the match is won, or     *)
(* with MaxSecrets located, about or counted.                              *)
Bounded ==
    /\ winner = NoTeam
    /\ About + Counted + Cardinality({t \in Teams : beaming[t] # NoTerminal}) < MaxSecrets

(* On its feet, where it can touch things and be hit.                       *)
Standing(p) == pstate[p] \in Terminals \cup {"up"}

(* KillByGovt on a set of players; one that has undeployed dies too.         *)
Killed(ps) ==
    [p \in Players |-> IF p \in ps /\ (Standing(p) \/ pstate[p] = "left")
                       THEN "dying" ELSE pstate[p]]

-----------------------------------------------------------------------------
(* TickObjects.                                                             *)

(* A terminal's state once it has seen that its hacker went, which one that  *)
(* was kicked never shows it; over are those whose clock of that state has   *)
(* run out.                                                                 *)
Stepped(b, over) ==
    LET s == IF hacker[b] # NoPlayer /\ pstate[hacker[b]] \notin {b, "gone"}
             THEN "HACKERGONE" ELSE tstate[b]
    IN  IF b \in over /\ s \in {"HACKING", "HACKERGONE"} THEN "INACTIVE"
        ELSE IF b \in over /\ s = "BEAMING" THEN "READY"
        ELSE s

(* Terminal::Tick of each: its state, then its trace, then its beaming.      *)
TickTerminals ==
    /\ turn = "terminals"
    /\ turn' = Order["terminals"]
    /\ \E over \in SUBSET Terminals,
          traced \in SUBSET {b \in Terminals : trace[b]},
          beamed \in SUBSET {b \in Terminals : beam[b]} :
        /\ hacker' = [b \in Terminals |->
                IF Stepped(b, over) = "HACKING" THEN hacker[b] ELSE NoPlayer]
        /\ tstate' = [b \in Terminals |->
                IF b \in beamed THEN "SECRETREADY"
                ELSE IF b \in traced THEN "INACTIVE"
                ELSE Stepped(b, over)]
        /\ trace' = [b \in Terminals |-> b \in beamed \/ (trace[b] /\ b \notin traced)]
        /\ beam' = [b \in Terminals |-> beam[b] /\ b \notin beamed]
        /\ beaming' = [t \in Teams |-> IF beaming[t] \in traced THEN NoTerminal ELSE beaming[t]]
    /\ UNCHANGED <<progress, secrets, delivered, carrier, playerVars, winner>>

(* The terminals OnSecretBeamReady chooses from.                            *)
Free == {b \in Terminals : tstate[b] \notin {"SECRETBEAMING", "SECRETREADY"}}

(* Mutant: the progress of a team is kept when its secret is located.       *)
OnSecretBeamReadyKept(t) ==
    /\ progress' = progress
    /\ IF Free = {} THEN UNCHANGED <<tstate, beam, beaming>>
       ELSE \E b \in Free :
            /\ tstate' = [tstate EXCEPT ![b] = "SECRETBEAMING"]
            /\ beam' = [beam EXCEPT ![b] = TRUE]
            /\ beaming' = [beaming EXCEPT ![t] = b]

OnSecretBeamReady(t) ==
    /\ progress' = [progress EXCEPT ![t] = 0]
    /\ IF Free = {} THEN UNCHANGED <<tstate, beam, beaming>>
       ELSE \E b \in Free :
            /\ tstate' = [tstate EXCEPT ![b] = "SECRETBEAMING"]
            /\ beam' = [beam EXCEPT ![b] = TRUE]
            /\ beaming' = [beaming EXCEPT ![t] = b]

(* Mutant: the secret that was just delivered does not count.               *)
OnSecretDeliveredLate(t, n) ==
    IF n > Needed /\ winner = NoTeam
    THEN /\ winner' = t
         /\ pstate' = [p \in Players |->
                IF Side[p] = t /\ pstate[p] \notin {"parked", "gone"} THEN "left"
                ELSE Killed(Players)[p]]
    ELSE UNCHANGED <<winner, pstate>>

(* OnSecretDelivered when the team has n secrets: the first team with        *)
(* enough wins, its players leave and the others are killed.                *)
OnSecretDelivered(t, n) ==
    IF n >= Needed /\ winner = NoTeam
    THEN /\ winner' = t
         /\ pstate' = [p \in Players |->
                IF Side[p] = t /\ pstate[p] \notin {"parked", "gone"} THEN "left"
                ELSE Killed(Players)[p]]
    ELSE UNCHANGED <<winner, pstate>>

(* Team::Tick.                                                              *)
TickTeam(t) ==
    /\ turn = t
    /\ turn' = Order[t]
    /\ IF delivered[t] # NoPlayer
       THEN /\ secrets' = [secrets EXCEPT ![t] = @ + 1]
            /\ OnSecretDelivered(t, secrets[t] + 1)
            /\ delivered' = [delivered EXCEPT ![t] = NoPlayer]
       ELSE UNCHANGED <<secrets, delivered, winner, pstate>>
    /\ IF progress[t] >= Threshold THEN OnSecretBeamReady(t)
       ELSE UNCHANGED <<progress, tstate, beam, beaming>>
    /\ UNCHANGED <<hacker, trace, carrier, has, ptrace, ground>>

(* Mutant: the secret may have been taken by another one in the same tick.   *)
PickUpItemTaken(p, o) ==
    /\ turn = "terminals"
    /\ Standing(p)
    /\ has[p] = NoTeam
    /\ has' = [has EXCEPT ![p] = o]
    /\ ptrace' = [ptrace EXCEPT ![p] = TRUE]
    /\ ground' = [ground EXCEPT ![o] = @ - 1]
    /\ carrier' = [carrier EXCEPT ![Side[p]] = p]
    /\ UNCHANGED <<turn, terminalVars, progress, secrets, beaming, delivered, pstate, winner>>

(* What was dropped or fired is newer than the terminals and ticks before     *)
(* them.  PickUp::Tick: a player takes a secret that lies there, or its      *)
(* trace is over.  An agent carries one at a time.                          *)
PickUpItem(p, o) ==
    /\ turn = "terminals"
    /\ ground[o] > 0
    /\ Standing(p)
    /\ has[p] = NoTeam
    /\ has' = [has EXCEPT ![p] = o]
    /\ ptrace' = [ptrace EXCEPT ![p] = TRUE]
    /\ ground' = [ground EXCEPT ![o] = @ - 1]
    /\ carrier' = [carrier EXCEPT ![Side[p]] = p]
    /\ UNCHANGED <<turn, terminalVars, progress, secrets, beaming, delivered, pstate, winner>>

TraceOfPickUp(o) ==
    /\ turn = "terminals"
    /\ ground[o] > 0
    /\ ground' = [ground EXCEPT ![o] = @ - 1]
    /\ UNCHANGED <<turn, terminalVars, teamVars, pstate, has, ptrace, winner>>

(* A projectile, a guard or poison.                                         *)
Kill(p) ==
    /\ turn = "terminals"
    /\ Standing(p)
    /\ pstate' = Killed({p})
    /\ UNCHANGED <<turn, terminalVars, teamVars, has, ptrace, ground, winner>>

-----------------------------------------------------------------------------
(* Player::Tick, for an input that came.                                    *)

StartHacking(p, b) ==
    /\ turn = "inputs"
    /\ pstate[p] = "up"
    /\ tstate[b] \in {"READY", "HACKERGONE"}
    /\ pstate' = [pstate EXCEPT ![p] = b]
    /\ UNCHANGED <<turn, terminalVars, teamVars, has, ptrace, ground, winner>>

(* Terminal::Hack, and what it yields to a team that has no secret located. *)
Hack(p, b) ==
    /\ turn = "inputs"
    /\ pstate[p] = b
    /\ tstate[b] \in {"READY", "HACKERGONE"} \/ (tstate[b] = "HACKING" /\ hacker[b] = p)
    /\ hacker[b] \in {NoPlayer, p}
    /\ tstate' = [tstate EXCEPT ![b] = "HACKING"]
    /\ hacker' = [hacker EXCEPT ![b] = p]
    /\ \E d \in 0 .. 1 :
        /\ d = 1 => beaming[Side[p]] = NoTerminal /\ Bounded /\ progress[Side[p]] < Threshold
        /\ progress' = [progress EXCEPT ![Side[p]] = @ + d]
    /\ UNCHANGED <<turn, beam, trace, secrets, beaming, delivered, carrier, playerVars, winner>>

(* It walks or jumps away, which tells the terminal, or gets up.             *)
StopHacking(p, b) ==
    /\ turn = "inputs"
    /\ pstate[p] = b
    /\ pstate' = [pstate EXCEPT ![p] = "up"]
    /\ \/ tstate' = [tstate EXCEPT ![b] = IF @ = "HACKING" THEN "HACKERGONE" ELSE @]
       \/ UNCHANGED tstate
    /\ UNCHANGED <<turn, hacker, beam, trace, teamVars, has, ptrace, ground, winner>>

(* BUY_INFO takes a team up to the last step.                               *)
BuyInfo(p) ==
    /\ turn = "inputs"
    /\ pstate[p] = "up"
    /\ beaming[Side[p]] = NoTerminal
    /\ progress[Side[p]] < Threshold - 1
    /\ Bounded
    /\ progress' = [progress EXCEPT ![Side[p]] = @ + 1]
    /\ UNCHANGED <<turn, terminalVars, secrets, beaming, delivered, carrier, playerVars, winner>>

(* The agent touches the terminal where its team's secret is ready.          *)
TakeSecret(p, b) ==
    /\ turn = "inputs"
    /\ pstate[p] \in {"up", b}
    /\ tstate[b] = "SECRETREADY"
    /\ beaming[Side[p]] = b
    /\ has[p] = NoTeam
    /\ tstate' = [tstate EXCEPT ![b] = "INACTIVE"]
    /\ trace' = [trace EXCEPT ![b] = FALSE]
    /\ beaming' = [beaming EXCEPT ![Side[p]] = NoTerminal]
    /\ has' = [has EXCEPT ![p] = Side[p]]
    /\ ptrace' = [ptrace EXCEPT ![p] = trace[b]]
    /\ carrier' = [carrier EXCEPT ![Side[p]] = p]
    /\ UNCHANGED <<turn, hacker, beam, progress, secrets, delivered, pstate, ground, winner>>

(* The agent touches its base's secret return.  The trace of what it brought *)
(* runs on until its next tick.                                             *)
ReturnSecret(p) ==
    /\ turn = "inputs"
    /\ pstate[p] = "up"
    /\ has[p] # NoTeam
    /\ delivered' = [delivered EXCEPT ![Side[p]] = p]
    /\ has' = [has EXCEPT ![p] = NoTeam]
    /\ carrier' = [carrier EXCEPT ![Side[p]] = NoPlayer]
    /\ UNCHANGED <<turn, terminalVars, progress, secrets, beaming, pstate, ptrace, ground, winner>>

(* Mutant: the team still takes the agent for its carrier.                  *)
TracedStillCarrier(p) ==
    /\ turn = "inputs"
    /\ ptrace[p]
    /\ pstate[p] \notin {"parked", "gone"}
    /\ has' = [has EXCEPT ![p] = NoTeam]
    /\ ptrace' = [ptrace EXCEPT ![p] = FALSE]
    /\ pstate' = Killed({p})
    /\ UNCHANGED <<turn, terminalVars, teamVars, ground, winner>>

(* The government has traced what the agent carries, or has just returned.   *)
Traced(p) ==
    /\ turn = "inputs"
    /\ ptrace[p]
    /\ pstate[p] \notin {"parked", "gone"}
    /\ has' = [has EXCEPT ![p] = NoTeam]
    /\ ptrace' = [ptrace EXCEPT ![p] = FALSE]
    /\ carrier' = [carrier EXCEPT ![Side[p]] = NoPlayer]
    /\ pstate' = Killed({p})
    /\ UNCHANGED <<turn, terminalVars, progress, secrets, beaming, delivered, ground, winner>>

(* Mutant: an agent that dies keeps the secret it dropped.                  *)
DropAllItemsKept(p) ==
    /\ turn = "inputs"
    /\ pstate[p] = "dying"
    /\ pstate' = [pstate EXCEPT ![p] = "dead"]
    /\ IF has[p] = NoTeam THEN UNCHANGED <<has, ptrace, ground, carrier>>
       ELSE /\ ground' = [ground EXCEPT ![has[p]] = @ + 1]
            /\ carrier' = [carrier EXCEPT ![Side[p]] = NoPlayer]
            /\ ptrace' = [ptrace EXCEPT ![p] = FALSE]
            /\ UNCHANGED has
    /\ UNCHANGED <<turn, terminalVars, progress, secrets, beaming, delivered, winner>>

(* The first tick of the dying state.                                       *)
DropAllItems(p) ==
    /\ turn = "inputs"
    /\ pstate[p] = "dying"
    /\ pstate' = [pstate EXCEPT ![p] = "dead"]
    /\ IF has[p] = NoTeam THEN UNCHANGED <<has, ptrace, ground, carrier>>
       ELSE /\ ground' = [ground EXCEPT ![has[p]] = @ + 1]
            /\ carrier' = [carrier EXCEPT ![Side[p]] = NoPlayer]
            /\ ptrace' = [ptrace EXCEPT ![p] = FALSE]
            /\ has' = [has EXCEPT ![p] = NoTeam]
    /\ UNCHANGED <<turn, terminalVars, progress, secrets, beaming, delivered, winner>>

Respawn(p) ==
    /\ turn = "inputs"
    /\ pstate[p] = "dead"
    /\ winner = NoTeam
    /\ pstate' = [pstate EXCEPT ![p] = "up"]
    /\ UNCHANGED <<turn, terminalVars, teamVars, has, ptrace, ground, winner>>

-----------------------------------------------------------------------------
(* The network, between two ticks.                                          *)

(* The connection is lost: the player undeploys, and nothing ticks it.       *)
Park(p) ==
    /\ turn = "inputs"
    /\ p \in Leavers
    /\ pstate[p] \notin {"parked", "gone"}
    /\ pstate' = [pstate EXCEPT ![p] = "parked"]
    /\ UNCHANGED <<turn, terminalVars, teamVars, has, ptrace, ground, winner>>

(* Its account connects again.                                              *)
Rejoin(p) ==
    /\ turn = "inputs"
    /\ pstate[p] = "parked"
    /\ pstate' = [pstate EXCEPT ![p] = "up"]
    /\ UNCHANGED <<turn, terminalVars, teamVars, has, ptrace, ground, winner>>

(* MSG_KICK: killed, but undeployed at once, and its body is destroyed with  *)
(* what it carries.                                                         *)
Kick(p) ==
    /\ turn = "inputs"
    /\ p \in Leavers
    /\ pstate[p] # "gone"
    /\ pstate' = [pstate EXCEPT ![p] = "gone"]
    /\ has' = [has EXCEPT ![p] = NoTeam]
    /\ ptrace' = [ptrace EXCEPT ![p] = FALSE]
    /\ UNCHANGED <<turn, terminalVars, teamVars, ground, winner>>

(* The tick is over; ActivateTerminals wakes terminals.  A player whose next *)
(* input came after it returned a secret has forgotten its trace.           *)
EndTick ==
    /\ turn = "inputs"
    /\ turn' = "terminals"
    /\ \E over \in SUBSET {p \in Players : ptrace[p] /\ has[p] = NoTeam} :
        ptrace' = [p \in Players |-> ptrace[p] /\ p \notin over]
    /\ \E woken \in SUBSET {b \in Terminals : tstate[b] = "INACTIVE"} :
        tstate' = [b \in Terminals |-> IF b \in woken THEN "BEAMING" ELSE tstate[b]]
    /\ UNCHANGED <<hacker, beam, trace, teamVars, pstate, has, ground, winner>>

Next ==
    \/ EndTick
    \/ TickTerminals
    \/ \E t \in Teams : TickTeam(t) \/ TraceOfPickUp(t)
    \/ \E p \in Players :
        \/ Kill(p) \/ BuyInfo(p) \/ ReturnSecret(p) \/ Traced(p)
        \/ DropAllItems(p) \/ Respawn(p) \/ Park(p) \/ Rejoin(p) \/ Kick(p)
        \/ \E b \in Terminals :
            StartHacking(p, b) \/ Hack(p, b) \/ StopHacking(p, b) \/ TakeSecret(p, b)
        \/ \E o \in Teams : PickUpItem(p, o)

Spec == Init /\ [][Next]_vars

-----------------------------------------------------------------------------
(* Secrets are never made up: as many more are about, or counted, as         *)
(* terminals have just got one ready, whoever drops, steals, delivers or     *)
(* loses how many in one tick.                                              *)
Total == About + Counted
NothingFromNothing == [][Total' - Total <= Cardinality(Ready' \ Ready)]_vars

(* A team locates one secret at a time: the terminal it waits for is         *)
(* forgotten before it is given another, however many of its agents hack.   *)
OneLocationAtATime ==
    [][\A t \in Teams : beaming[t] # NoTerminal => beaming'[t] \in {beaming[t], NoTerminal}]_vars

(* Whom a team's monitor follows is one of its own that has a secret, also   *)
(* where two of them carry one.                                             *)
CarrierCarries ==
    \A t \in Teams : carrier[t] # NoPlayer /\ pstate[carrier[t]] # "gone" =>
        Side[carrier[t]] = t /\ has[carrier[t]] # NoTeam

(* A match is won by the first team with enough secrets, and at once.        *)
WinnerHasEnough ==
    /\ winner # NoTeam => secrets[winner] >= Needed
    /\ \A t \in Teams : secrets[t] >= Needed => winner # NoTeam

-----------------------------------------------------------------------------
(* What the documentation says and the code does not do.                   *)

(* The terminal chosen for a team's secret is not another team's already.   *)
TerminalOfOneTeam ==
    \A t, u \in Teams : beaming[t] # NoTerminal /\ beaming[t] = beaming[u] => t = u

(* Every secret brought to the base is counted.                             *)
EachReturnCounts ==
    [][\A t \in Teams : delivered[t] # NoPlayer /\ delivered'[t] # delivered[t]
        => secrets'[t] = secrets[t] + 1]_vars

=============================================================================
