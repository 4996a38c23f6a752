----------------------------- MODULE MCGamePeers -----------------------------
(***************************************************************************)
(* Two accounts, one of them with two clients, in a game of two teams.      *)
(***************************************************************************)
EXTENDS GamePeers, TLC

TwoClients == "a1" :> "A" @@ "a2" :> "A" @@ "b" :> "B"
=============================================================================
