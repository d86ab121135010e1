------------------------------- MODULE KeyFile -------------------------------
(***************************************************************************)
(* The key file that keeps an EndpointId across restarts                   *)
(* (load_or_create_key of crates/tcp-tunnel/src/bin/gateway.rs; client.rs  *)
(* has the same code), in its Unix form.  Several processes may be started *)
(* on one path, each may be killed at any moment, and the file is what     *)
(* they share.  A process goes on to serve when its load succeeds; an      *)
(* error of the load is the end of it.                                     *)
(***************************************************************************)
EXTENDS Naturals

CONSTANTS
  Process,   \* processes that are given the path
  MaxKeys    \* bound: secret keys drawn

ASSUME KeyAssumption == MaxKeys \in Nat

\* The key of an empty file, and of a process that has none; keys are numbers from 1.
NoKey == 0

VARIABLES
  file,       \* the key file: whether it exists, and the whole key that is in it
  process,    \* per process: how far its start is, and its key
  generated,  \* secret keys drawn so far; the next one is a number of its own
  target      \* the EndpointId that clients were given: the first one served

keyVars == <<file, process, generated, target>>

Stopped == [at |-> "stopped", key |-> NoKey]
NoFile == [exists |-> FALSE, key |-> NoKey]

KeyInit ==
  /\ file = NoFile
  /\ process = [p \in Process |-> Stopped]
  /\ generated = 0
  /\ target = NoKey

Starts(p, at, key) == process' = [process EXCEPT ![p] = [at |-> at, key |-> key]]
Serves(p) == process[p].at = "serving"

Serve(p, key) ==
  /\ Starts(p, "serving", key)
  /\ target' = IF target = NoKey THEN key ELSE target

\* A file that holds no whole key does not parse, and the start fails.
Load(p) ==
  /\ process[p].at = "stopped" /\ file.key # NoKey
  /\ Serve(p, file.key)
  /\ UNCHANGED <<file, generated>>

Generate(p) ==
  /\ process[p].at = "stopped" /\ ~file.exists /\ generated < MaxKeys
  /\ generated' = generated + 1
  /\ Starts(p, "create", generated + 1)
  /\ UNCHANGED <<file, target>>

\* Slip: an existing file is truncated and taken over (create instead of create_new).
Creates_Anyway == TRUE

\* create_new
Creates == ~file.exists

Create(p) ==
  /\ process[p].at = "create"
  /\ IF Creates
     THEN /\ file' = [exists |-> TRUE, key |-> NoKey]
          /\ Starts(p, "write", process[p].key)
     ELSE /\ process' = [process EXCEPT ![p] = Stopped]
          /\ UNCHANGED file
  /\ UNCHANGED <<generated, target>>

\* The end of write_all; until then the file is too short to be a key.
Write(p) ==
  /\ process[p].at = "write"
  /\ file' = [file EXCEPT !.key = process[p].key]
  /\ Serve(p, process[p].key)
  /\ UNCHANGED generated

Kill(p) ==
  /\ process[p] # Stopped
  /\ process' = [process EXCEPT ![p] = Stopped]
  /\ UNCHANGED <<file, generated, target>>

KeyNext == \E p \in Process : Load(p) \/ Generate(p) \/ Create(p) \/ Write(p) \/ Kill(p)

KeySpec == KeyInit /\ [][KeyNext]_keyVars

-----------------------------------------------------------------------------
\* "keeps the EndpointId stable across gateway restarts so the clients' configured
\* target stays valid" (gateway.rs:104-107): whatever starts race and wherever they are
\* killed, each process that serves has the identity that clients were given.
OneIdentity == \A p \in Process : Serves(p) => process[p].key = target
=============================================================================
