---------------------------- MODULE ArtifactFile ----------------------------
(***************************************************************************)
(* One file of the store, system call by system call, against a machine    *)
(* that may lose power.  Store._create makes it with O_EXCL, writes, syncs *)
(* the file, then its directory.  For Store.put a file already there must  *)
(* hold the same bytes and is then made durable by sync_artifact; for      *)
(* Store.consume and Store.recovery_marker it is a fence and refuses.      *)
(*                                                                         *)
(* `content` and `entry` are what running processes see; `onDisk` and      *)
(* `entryOnDisk` what a power loss leaves.  The kernel may write either    *)
(* back at any time, and only fsync makes sure of it.                      *)
(***************************************************************************)
CONSTANT Call   \* calls that store this artifact, over all processes and boots

VARIABLES
  fence,        \* whether the file is a fence; fixed
  entry,        \* the directory lists the file
  content,      \* "torn" (nothing or a prefix written) or "full"
  entryOnDisk, onDisk,
  stage         \* where each call is
fileVars == <<fence, entry, content, entryOnDisk, onDisk, stage>>
disk == <<entryOnDisk, onDisk>>

Moves(c, from, to) == stage[c] = from /\ stage' = [stage EXCEPT ![c] = to]

FileInit ==
  /\ fence \in BOOLEAN
  /\ entry = FALSE /\ content = "torn"
  /\ entryOnDisk = FALSE /\ onDisk = "torn"
  /\ stage = [c \in Call |-> "idle"]

\* open(O_CREAT | O_EXCL) succeeds: the file is new and empty.
Create(c) ==
  /\ Moves(c, "idle", "write") /\ ~entry
  /\ entry' = TRUE /\ content' = "torn" /\ onDisk' = "torn"
  /\ UNCHANGED <<fence, entryOnDisk>>

\* FileExistsError.  put compares what is there with its own bytes; a fence refuses.
ComparesExisting == ~fence

SameBytes == content = "full"

Exists(c) ==
  /\ entry
  /\ Moves(c, "idle", IF ComparesExisting /\ SameBytes THEN "fsync" ELSE "refused")
  /\ UNCHANGED <<fence, entry, content, disk>>

Write(c) ==
  /\ Moves(c, "write", "fsync") /\ content' = "full"
  /\ UNCHANGED <<fence, entry, disk>>

\* fsync of the file, in _create and in sync_artifact.
Unsynced == onDisk                                                         \* mutant
Synced == content

FsyncFile(c) ==
  /\ Moves(c, "fsync", "syncdir") /\ onDisk' = Synced
  /\ UNCHANGED <<fence, entry, content, entryOnDisk>>

\* fsync of the directory.
FsyncDirectory(c) ==
  /\ Moves(c, "syncdir", "synced") /\ entryOnDisk' = entry
  /\ UNCHANGED <<fence, entry, content, onDisk>>

Return(c) == Moves(c, "synced", "returned") /\ UNCHANGED <<fence, entry, content, disk>>

\* A system call fails (no space, I/O error) or the process is killed: the file stays.
Stop(c) ==
  /\ stage[c] \in {"write", "fsync", "syncdir", "synced"}
  /\ \E to \in {"refused", "dead"} : stage' = [stage EXCEPT ![c] = to]
  /\ UNCHANGED <<fence, entry, content, disk>>

Writeback ==
  /\ entry
  /\ \/ entryOnDisk' = TRUE /\ onDisk' = onDisk
     \/ entryOnDisk' = entryOnDisk /\ onDisk' = content
  /\ UNCHANGED <<fence, entry, content, stage>>

\* Every running process dies and the disk is all there is.
PowerLoss ==
  /\ entry' = entryOnDisk
  /\ content' = IF entryOnDisk THEN onDisk ELSE "torn"
  /\ onDisk' = content' /\ entryOnDisk' = entryOnDisk
  /\ stage' = [c \in Call |-> IF stage[c] \in {"write", "fsync", "syncdir", "synced"}
                              THEN "dead" ELSE stage[c]]
  /\ UNCHANGED fence

FileNext ==
  \/ \E c \in Call : \/ Create(c) \/ Exists(c) \/ Write(c) \/ FsyncFile(c)
                     \/ FsyncDirectory(c) \/ Return(c) \/ Stop(c)
  \/ Writeback
  \/ PowerLoss

FileSpec == FileInit /\ [][FileNext]_fileVars
-----------------------------------------------------------------------------
Returned == {c \in Call : stage[c] = "returned"}

Artifact == INSTANCE ImmutableArtifact
              WITH stored <- entryOnDisk /\ onDisk = "full", returned <- Returned, exclusive <- fence

\* The store's docstring, "Private immutable artifacts, durable atomic pointers and single-use
\* receipts": the file implements an artifact that survives once a call has returned.
ImplementsArtifact == Artifact!Spec

\* The types; proved with the rest rather than run.
TypeOK ==
  /\ fence \in BOOLEAN
  /\ entry \in BOOLEAN /\ entryOnDisk \in BOOLEAN
  /\ content \in {"torn", "full"} /\ onDisk \in {"torn", "full"}
  /\ stage \in [Call -> {"idle", "write", "fsync", "syncdir", "synced",
                         "returned", "refused", "dead"}]

Past(c, steps) == stage[c] \in steps \cup {"synced", "returned"}

\* Store._create and Store.put: the bytes are whole before they are synced, the file is
\* synced before its directory, and only a synced call returns; where the file is a fence
\* one call alone is ever on that path.  This is the inductive invariant.
BarriersInOrder ==
  /\ entryOnDisk => entry
  /\ onDisk = "full" => content = "full"
  /\ \A c \in Call :
       /\ Past(c, {"write", "fsync", "syncdir"}) => entry
       /\ Past(c, {"fsync", "syncdir"}) => content = "full"
       /\ Past(c, {"syncdir"}) => onDisk = "full"
       /\ Past(c, {}) => entryOnDisk
  /\ fence => \A c, d \in Call :
       Past(c, {"write", "fsync", "syncdir"}) /\ Past(d, {"write", "fsync", "syncdir"}) => c = d

\* Store._create and sync_artifact: a call that returned is never undone by a power loss,
\* whichever process created the file and whichever call made it durable.
DurableOnceReturned == Returned # {} => entryOnDisk /\ onDisk = "full"

\* Store.consume, "O_EXCL is the replay fence": at most one call ever passes the fence, also
\* when a power loss takes the marker of a call that had not returned.
FencePassedOnce == fence => \A c, d \in Returned : c = d
=============================================================================
