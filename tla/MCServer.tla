------------------------------- MODULE MCServer -------------------------------
(***************************************************************************)
(* A server small enough for TLC: the threads of module Server, and the    *)
(* functions and proxy clients of module Registry.  The two share no       *)
(* variable, so that their steps commute and interleaving them shows       *)
(* nothing that each does not show alone; a behaviour is therefore one of  *)
(* either, chosen at its beginning, and the other half stands still.       *)
(***************************************************************************)
EXTENDS Server, Registry, TLC

VARIABLE half       \* which of the two this behaviour shows

allVars == <<vars, registryVars, half>>

Threads(A) == half = "threads" /\ A /\ UNCHANGED <<registryVars, half>>
Entries(A) == half = "entries" /\ A /\ UNCHANGED <<vars, half>>

HalvesInit == Init /\ RegistryInit /\ half \in {"threads", "entries"}

HalvesNext == Threads(Next) \/ Entries(RegistryNext)

\* The fairness is that of FairSpec.
HalvesSpec ==
  /\ HalvesInit
  /\ [][HalvesNext]_allVars
  /\ \A k \in Connections : WF_allVars(Threads(ConnectionStep(k)))
  /\ WF_allVars(Threads(AcceptorStep))
  /\ WF_allVars(Threads(FreerStep))
=============================================================================
