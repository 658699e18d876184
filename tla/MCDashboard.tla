----------------------------- MODULE MCDashboard -----------------------------
(***************************************************************************)
(* Two agents, three connections.                                           *)
(***************************************************************************)
EXTENDS Dashboard

CONSTANTS a1, a2, w, p, q

OneStep == {a1}
OneSingle == {a2}
SmallOutput == (a1 :> <<"quiet", "metrics">>) @@ (a2 :> <<"metrics">>)
EndsCounted == {"Completed", "Killed"}
ThreeClients == {w, p, q}

(* A crowd of clients; two agents at a time; a user at the keyboard.        *)
SmallSetups ==
  {[agents |-> {a2}, clients |-> {w, p, q}, keys |-> {}],
   [agents |-> {a1, a2}, clients |-> {w, p}, keys |-> {}],
   [agents |-> {a1, a2}, clients |-> {w}, keys |-> {"q", "tab", "j", "k", "G", "g"}]}
==============================================================================
