---------------------------- MODULE TunnelGateway ----------------------------
(***************************************************************************)
(* The gateway's process around its streams (crates/tcp-tunnel/src/bin/    *)
(* gateway.rs): it loads or creates its key, serves the connection of a    *)
(* client that dials the identity it was given, and may be killed and      *)
(* started again, or started twice on one key file.                        *)
(***************************************************************************)
EXTENDS KeyFile, TunnelStream

CONSTANT Nobody   \* no process

VARIABLE host     \* the process the client's connection leads to

vars == <<keyVars, streamVars, host>>

Init == KeyInit /\ StreamInit /\ host = Nobody

Starting ==
  /\ \E p \in Process : Load(p) \/ Generate(p) \/ Create(p) \/ Write(p)
  /\ UNCHANGED <<streamVars, host>>

\* iroh finds the process that has the dialed identity.
Dials(p) ==
  /\ Serves(p) /\ process[p].key = target
  /\ Connect /\ host' = p
  /\ UNCHANGED keyVars

\* The connections of a killed process are lost.
Killed(p) ==
  /\ Kill(p)
  /\ IF p # host THEN UNCHANGED <<streamVars, host>>
     ELSE /\ host' = Nobody /\ stalled' = FALSE
          /\ LoseLink \/ (link \notin {"handshake", "up"} /\
               UNCHANGED <<allow, ask, link, task, timer, flight, answer, pipe>>)

Next ==
  \/ Starting
  \/ \E p \in Process : Dials(p) \/ Killed(p)
  \/ (Works \/ Happens) /\ UNCHANGED <<keyVars, host>>

Spec == Init /\ [][Next]_vars

\* The runtime gets on with every task that can, messages arrive within Delay and deadlines
\* pass; nothing is assumed of the applications, of dials, or of the processes' starts.
FairSpec == Spec /\ WF_vars(Works /\ UNCHANGED <<keyVars, host>>)
=============================================================================
