-------------------------- MODULE MCDeviceServices --------------------------
(***************************************************************************)
(* Lockdown and the services it starts, for TLC: one of Lockdown,          *)
(* PlistClients, PlistListeners, DeveloperImage, which finds the image     *)
(* that the image mounter mounts, and AfcPaths, which house arrest leads   *)
(* to, is chosen, and the others do nothing.                               *)
(***************************************************************************)
EXTENDS Lockdown, PlistClients, PlistListeners, DeveloperImage, AfcPaths, TLC

VARIABLE part

allVars == <<part, vars, clientsVars, listenersVars, imageVars, pathsVars>>

\* What does nothing starts in one state only.
MCInit ==
  /\ part \in {"lockdown", "clients", "listeners", "image", "paths"}
  /\ Init /\ ClientsInit /\ ListenersInit /\ ImageInit /\ PathsInit
  /\ part # "clients" => service = "mc_install" /\ size = 1 /\ worker.mounted = {}
  /\ part # "listeners" => listening = "house_arrest"
  /\ part # "image" => Len(archive) = 1
  /\ part # "paths" => tree = <<>>

MCNext ==
  /\ UNCHANGED part
  /\ \/ part = "lockdown" /\ Next /\ UNCHANGED <<clientsVars, listenersVars, imageVars, pathsVars>>
     \/ part = "clients" /\ ClientsNext /\ UNCHANGED <<vars, listenersVars, imageVars, pathsVars>>
     \/ part = "listeners" /\ ListenersNext /\ UNCHANGED <<vars, clientsVars, imageVars, pathsVars>>
     \/ part = "image" /\ ImageNext /\ UNCHANGED <<vars, clientsVars, listenersVars, pathsVars>>
     \/ part = "paths" /\ PathsNext /\ UNCHANGED <<vars, clientsVars, listenersVars, imageVars>>

MCSpec == MCInit /\ [][MCNext]_allVars

\* The images to mount are interchangeable as the names in the trees are, and no two parts
\* do anything in one behaviour: they are given the same model values.
Symmetry == Permutations(Callers) \cup Permutations(Names) \cup Permutations(Items)
=============================================================================
