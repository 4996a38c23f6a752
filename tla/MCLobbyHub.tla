------------------------------ MODULE MCLobbyHub ------------------------------
(***************************************************************************)
(* Small instances of the hub: up to three connections of up to two        *)
(* players, and up to two games.                                           *)
(***************************************************************************)
EXTENDS LobbyHubInvariants, TLC

CONSTANTS c1, c2, c3, a, b

TwoClients == {c1, c2}
BothAccounts == {a, b}

(* One connection of one player; one connection each; two connections of   *)
(* one player; and the player of c1 also on c2, with c3 somebody else's.   *)
OneLogin == c1 :> {a}
OwnAccounts == (c1 :> {a}) @@ (c2 :> {b})
SameAccount == (c1 :> {a}) @@ (c2 :> {a})
Reconnect == (c1 :> {a}) @@ (c2 :> {a}) @@ (c3 :> {b})
=============================================================================
