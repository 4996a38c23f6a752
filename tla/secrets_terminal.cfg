SPECIFICATION Spec
CONSTANTS
    a1 = a1
    a2 = a2
    b1 = b1
    red = red
    blue = blue
    t1 = t1
    t2 = t2
    Players = {a1, a2, b1}
    Teams = {red, blue}
    Side <- Sides
    Terminals = {t1, t2}
    Order <- TeamOrder
    NoPlayer = NoPlayer
    NoTeam = NoTeam
    NoTerminal = NoTerminal
    Threshold = 2
    Needed = 1
    MaxSecrets = 2
    Leavers = {b1}
SYMMETRY Alike
INVARIANTS
    TerminalOfOneTeam
