SPECIFICATION Spec
CONSTANTS
    Accounts = {"A", "B"}
    Clients = {"a1", "a2", "b"}
    AccountOf <- TwoClients
    Host = "A"
    Unfit = {"B"}
    Agencies = {"Noxis", "Lazarus"}
    LastSlot = 3
    MaxPlayers = 3
    MaxTeams = 2
    TeamSize = 2
    NoPeer = NoPeer
    NoTeam = NoTeam
INVARIANT EverybodyHasATeam
CHECK_DEADLOCK FALSE
