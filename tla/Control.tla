------------------------------ MODULE Control -------------------------------
(***************************************************************************)
(* What the control API, the commands and the user's editor change beside  *)
(* running requests: settings and the agents' files (Agents), and which    *)
(* login is which (Logins).  The two touch different files of one home: a  *)
(* behaviour is the story of one, while the other stays where it starts.   *)
(***************************************************************************)
EXTENDS Agents, Logins

VARIABLE screen

control == <<access, agents, loginVars, screen>>

ControlInit ==
    /\ screen \in {"settings", "logins"}
    /\ AllInit
    /\ LoginsInit
    /\ screen = "settings" => /\ world = CHOOSE w \in World : TRUE
                              /\ room = CHOOSE e \in Errands : TRUE
    /\ screen = "logins" => /\ left = CHOOSE p \in Plans : TRUE
                            /\ tool = CHOOSE t \in Tool : TRUE

ControlNext ==
    \/ screen = "settings" /\ AllNext    /\ UNCHANGED <<loginVars, screen>>
    \/ screen = "logins"   /\ LoginsNext /\ UNCHANGED <<access, agents, screen>>

ControlSpec == ControlInit /\ [][ControlNext]_control
=============================================================================
