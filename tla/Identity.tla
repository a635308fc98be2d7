------------------------------ MODULE Identity ------------------------------
(***************************************************************************)
(* The identity an agent reports under, over its restarts: resolveAgentID  *)
(* of config/loader.go, the file it keeps the identity in, the             *)
(* configuration that may pin one, and the crashes in between.             *)
(*                                                                         *)
(* A UUID is the number of the generateUUID call that made it (they never  *)
(* collide); the file holds one of them or, absent or empty, none.  Names  *)
(* that Settings has too, the rest of the loader, carry the prefix ID.     *)
(***************************************************************************)
EXTENDS Naturals

CONSTANTS
  Writable,   \* the agent's user may create and write the identity file
  MaxUUIDs    \* bound on the identities generated

ASSUME IdentityAssumption == Writable \in BOOLEAN /\ MaxUUIDs \in Nat

VARIABLES
  phase,       \* what the agent is doing
  pinned,      \* agent_id of config.yaml, NoID if empty
  idFile,      \* content of the identity file as the system shows it
  disk,        \* what a power failure leaves of it
  agentID,     \* the identity resolved by the running process
  generated,   \* history: UUIDs generated so far
  lastID,      \* history: the identity the agent ran under last
  explained    \* history: since then a failed read, a failed write or a power
               \* failure took the saved identity away, or the configuration
               \* was edited

idVars == <<phase, pinned, idFile, disk, agentID, generated, lastID, explained>>

NoID == 0
UUIDs == 1 .. MaxUUIDs
PinnedID == MaxUUIDs + 1

IDInit ==
  /\ phase = "down"
  /\ pinned \in {NoID, PinnedID}
  /\ idFile = NoID /\ disk = NoID
  /\ agentID = NoID
  /\ generated = 0
  /\ lastID = NoID
  /\ explained = FALSE

\* main goes on with the identity: everything is reported under it.
RunAs(id) ==
  /\ phase' = "running"
  /\ agentID' = id
  /\ lastID' = id
  /\ explained' = FALSE

StartPinned ==
  /\ phase = "down"
  /\ pinned # NoID
  /\ RunAs(pinned)
  /\ UNCHANGED <<pinned, idFile, disk, generated>>

BadStartFromFile ==   \* mutant: an empty file is taken for an identity
  /\ phase = "down"
  /\ pinned = NoID
  /\ RunAs(idFile)
  /\ UNCHANGED <<pinned, idFile, disk, generated>>
\* The file is read without an error.
StartFromFile ==
  /\ phase = "down"
  /\ pinned = NoID /\ idFile # NoID
  /\ RunAs(idFile)
  /\ UNCHANGED <<pinned, idFile, disk, generated>>

NewIdentity ==
  /\ phase = "down" /\ pinned = NoID
  /\ generated < MaxUUIDs
  /\ generated' = generated + 1
  /\ agentID' = generated + 1
  /\ phase' = "open"
  /\ UNCHANGED <<pinned, idFile, disk, lastID>>

\* No file yet, or an empty one.
Generate == idFile = NoID /\ NewIdentity /\ UNCHANGED explained

\* Any error of ReadFile is taken for a missing file: the identity saved there
\* is passed over, and overwritten next.
GenerateUnread == idFile # NoID /\ NewIdentity /\ explained' = TRUE

\* MkdirAll, or WriteFile's open or write, fails and the error is ignored: the
\* identity is used all the same.
RunUnsaved ==
  /\ phase' = "running"
  /\ lastID' = agentID
  /\ UNCHANGED <<pinned, idFile, disk, agentID, generated>>

\* Without the permission always; else the file system is full or read-only.
OpenFails ==
  /\ phase = "open"
  /\ explained' = Writable
  /\ RunUnsaved

\* WriteFile creates or truncates the file before it writes.
OpenTruncates ==
  /\ phase = "open" /\ Writable
  /\ idFile' = NoID
  /\ phase' = "write"
  /\ UNCHANGED <<pinned, disk, agentID, generated, lastID, explained>>

BadWrite ==   \* mutant: the file is opened and never written
  /\ phase = "write"
  /\ RunAs(agentID)
  /\ UNCHANGED <<pinned, idFile, disk, generated>>
Write ==
  /\ phase = "write"
  /\ idFile' = agentID
  /\ RunAs(agentID)
  /\ UNCHANGED <<pinned, disk, generated>>

WriteFails ==
  /\ phase = "write"
  /\ explained' = TRUE
  /\ RunUnsaved
-----------------------------------------------------------------------------
(* The world around the agent.                                             *)

\* The process stops, is killed or crashes; the service manager restarts it.
Stop ==
  /\ phase # "down"
  /\ phase' = "down"
  /\ agentID' = NoID
  /\ UNCHANGED <<pinned, idFile, disk, generated, lastID, explained>>

\* The system writes the file back.
Sync ==
  /\ disk # idFile
  /\ disk' = idFile
  /\ UNCHANGED <<phase, pinned, idFile, agentID, generated, lastID, explained>>

PowerFailure ==
  /\ phase' = "down"
  /\ agentID' = NoID
  /\ idFile' = disk
  /\ explained' = (explained \/ disk # idFile)
  /\ UNCHANGED <<pinned, disk, generated, lastID>>

\* The operator pins an identity, or unpins it, before the next start.
EditConfig ==
  /\ phase = "down"
  /\ pinned' = IF pinned = NoID THEN PinnedID ELSE NoID
  /\ explained' = TRUE
  /\ UNCHANGED <<phase, idFile, disk, agentID, generated, lastID>>

IDNext ==
  \/ StartPinned \/ StartFromFile \/ Generate \/ GenerateUnread
  \/ OpenFails \/ OpenTruncates \/ Write \/ WriteFails
  \/ Stop \/ Sync \/ PowerFailure \/ EditConfig

IDSpec == IDInit /\ [][IDNext]_idVars
-----------------------------------------------------------------------------
IDTypeOK ==
  /\ phase \in {"down", "open", "write", "running"}
  /\ pinned \in {NoID, PinnedID}
  /\ idFile \in UUIDs \union {NoID} /\ disk \in UUIDs \union {NoID}
  /\ agentID \in UUIDs \union {PinnedID, NoID} /\ (agentID = NoID <=> phase = "down")
  /\ generated \in 0 .. MaxUUIDs
  /\ lastID \in UUIDs \union {PinnedID, NoID}
  /\ explained \in BOOLEAN

\* The identity is stable: an agent comes back under the identity it ran under
\* before, unless an edited configuration, a full disk, a power failure before
\* the file reached the disk, or a read of the file that failed explain the
\* change.  A kill at any point of resolveAgentID does not: the file it may
\* leave truncated held no identity in use, or one whose read had failed.
IdentityIsStable ==
  [][phase # "running" /\ phase' = "running" /\ lastID # NoID /\ ~explained
       => agentID' = lastID]_idVars

\* "agent_id is auto-generated on first run and persisted to
\* /etc/diagnostack/agent_id" (config.yaml:7): only the first start of a
\* configuration generates an identity.
GeneratedOnce ==
  [][phase = "down" /\ phase' = "open" => lastID = NoID \/ explained]_idVars
=============================================================================
