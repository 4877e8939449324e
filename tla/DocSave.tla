------------------------------ MODULE DocSave -------------------------------
(***************************************************************************)
(* Document.Save and Load of src/internal/document/document.go on a file   *)
(* system: Save truncates or creates <path>.tmp, writes it and renames it  *)
(* over the diagram file; Load opens the diagram file and reads it.  The   *)
(* name of the temporary file is the same for every writer, so two writers *)
(* that are not kept apart share one inode.                                *)
(*                                                                         *)
(* Writers are the PUT handlers, which hold s.mu around Save, and the job  *)
(* of an apply, which does not.                                            *)
(*                                                                         *)
(* The file system is external to src/: names, inodes and their contents.  *)
(* A document is a version with a size; a write that starts at offset 0 of *)
(* a longer text leaves the end of that text behind.                       *)
(***************************************************************************)
EXTENDS Naturals

CONSTANTS
  Writer,      \* who saves
  Locked,      \* the writers that hold s.mu around Save
  Reader,      \* who loads
  Version,     \* documents that are saved
  Size,        \* [Version -> Nat], the length of their encodings
  Inode,       \* files of the file system (as many as can be in use)
  NoInode, NoWriter, Empty, Torn

ASSUME SaveAssumption ==
  /\ Locked \subseteq Writer
  /\ NoWriter \notin Writer
  /\ NoInode \notin Inode
  /\ Size \in [Version -> Nat \ {0}]
  /\ Empty \notin Version /\ Torn \notin Version /\ Empty # Torn

VARIABLES
  doc,       \* the inode named by the diagram file
  tmp,       \* the inode named by <path>.tmp, or NoInode
  content,   \* [Inode -> Version, Empty or Torn]
  mu,        \* the writer that holds s.mu, or NoWriter
  pc,        \* control of Save
  saving,    \* the version a writer saves, Empty when it is idle
  fd,        \* the inode a writer opened and has not renamed, or NoInode
  reading    \* the inode a reader has open, or NoInode

(* History.  Only the properties look at it.                               *)
VARIABLE
  mixed      \* inodes that went through the hands of two writers at once,
             \* at least one of which does not hold s.mu

vars == <<doc, tmp, content, mu, pc, saving, fd, reading, mixed>>

Text == Version \cup {Empty, Torn}
Pc == {"idle", "open", "write", "rename"}

Active(w) == pc[w] \in {"write", "rename"}

InUse == {doc, tmp} \cup {fd[w] : w \in {x \in Writer : Active(x)}}
                    \cup {reading[r] : r \in Reader}

(* Opened by w, inode i is mixed when another writer is still active on it *)
(* and s.mu does not keep the two apart; otherwise it is clean again.      *)
Shared(w, i) ==
  \E x \in Writer \ {w} : Active(x) /\ fd[x] = i /\ ~({w, x} \subseteq Locked)

Init ==
  /\ doc \in Inode
  /\ tmp = NoInode
  /\ content \in [Inode -> Version]
  /\ \A i, j \in Inode : content[i] = content[j]
  /\ mu = NoWriter
  /\ pc = [w \in Writer |-> "idle"]
  /\ saving = [w \in Writer |-> Empty]
  /\ fd = [w \in Writer |-> NoInode]
  /\ reading = [r \in Reader |-> NoInode]
  /\ mixed = {}

-----------------------------------------------------------------------------
(* Variant: the PUT handler does not lock s.mu.                             *)
BeginUnlocked(w, v) ==
  /\ pc[w] = "idle"
  /\ pc' = [pc EXCEPT ![w] = "open"]
  /\ saving' = [saving EXCEPT ![w] = v]
  /\ UNCHANGED <<doc, tmp, content, mu, fd, reading, mixed>>

(* putDocument locks s.mu before it saves; Apply does not.                 *)
Begin(w, v) ==
  /\ pc[w] = "idle"
  /\ IF w \in Locked THEN mu = NoWriter /\ mu' = w ELSE UNCHANGED mu
  /\ pc' = [pc EXCEPT ![w] = "open"]
  /\ saving' = [saving EXCEPT ![w] = v]
  /\ UNCHANGED <<doc, tmp, content, fd, reading, mixed>>

(* Variant: the diagram file itself is truncated and rewritten.            *)
OpenInPlace(w) ==
  /\ pc[w] = "open"
  /\ content' = [content EXCEPT ![doc] = Empty]
  /\ fd' = [fd EXCEPT ![w] = doc]
  /\ tmp' = doc
  /\ pc' = [pc EXCEPT ![w] = "write"]
  /\ UNCHANGED <<doc, mu, saving, reading, mixed>>

(* os.WriteFile opens with O_CREATE and O_TRUNC: the temporary file is     *)
(* created, or the present one, anyone's, is emptied.                      *)
Open(w) ==
  /\ pc[w] = "open"
  /\ \E i \in IF tmp = NoInode THEN Inode \ InUse ELSE {tmp} :
       /\ tmp' = i
       /\ content' = [content EXCEPT ![i] = Empty]
       /\ fd' = [fd EXCEPT ![w] = i]
       /\ mixed' = IF Shared(w, i) THEN mixed \cup {i} ELSE mixed \ {i}
  /\ pc' = [pc EXCEPT ![w] = "write"]
  /\ UNCHANGED <<doc, mu, saving, reading>>

(* The write, at offset 0 of whatever the inode holds by now.              *)
Over(old, v) ==
  IF old = Empty THEN v
  ELSE IF old # Torn /\ Size[v] >= Size[old] THEN v
  ELSE Torn

Write(w) ==
  /\ pc[w] = "write"
  /\ content' = [content EXCEPT ![fd[w]] = Over(@, saving[w])]
  /\ pc' = [pc EXCEPT ![w] = "rename"]
  /\ UNCHANGED <<doc, tmp, mu, saving, fd, reading, mixed>>

(* Variant: the rename may come before the write.                           *)
RenameEarly(w) ==
  /\ pc[w] \in {"write", "rename"}
  /\ IF tmp = NoInode THEN UNCHANGED <<doc, tmp>> ELSE doc' = tmp /\ tmp' = NoInode
  /\ pc' = [pc EXCEPT ![w] = IF @ = "write" THEN "write" ELSE "idle"]
  /\ mu' = IF mu = w /\ pc[w] = "rename" THEN NoWriter ELSE mu
  /\ UNCHANGED <<content, saving, fd, reading, mixed>>

(* os.Rename moves whatever has the name by now, an error when nothing has *)
(* it.  The PUT handler unlocks on return.                                 *)
Rename(w) ==
  /\ pc[w] = "rename"
  /\ IF tmp = NoInode
     THEN UNCHANGED <<doc, tmp, mixed>>
     ELSE /\ doc' = tmp /\ tmp' = NoInode
          /\ mixed' = IF fd[w] = tmp THEN mixed ELSE mixed \cup {tmp}
  /\ pc' = [pc EXCEPT ![w] = "idle"]
  /\ mu' = IF mu = w THEN NoWriter ELSE mu
  /\ saving' = [saving EXCEPT ![w] = Empty]
  /\ fd' = [fd EXCEPT ![w] = NoInode]
  /\ UNCHANGED <<content, reading>>

(* Load: os.ReadFile opens the diagram file, reads, closes.                *)
OpenRead(r) ==
  /\ reading[r] = NoInode
  /\ reading' = [reading EXCEPT ![r] = doc]
  /\ UNCHANGED <<doc, tmp, content, mu, pc, saving, fd, mixed>>

CloseRead(r) ==
  /\ reading[r] # NoInode
  /\ reading' = [reading EXCEPT ![r] = NoInode]
  /\ UNCHANGED <<doc, tmp, content, mu, pc, saving, fd, mixed>>

(* The process is stopped at any point and started again; the temporary    *)
(* file stays behind.                                                      *)
Crash ==
  /\ mu' = NoWriter
  /\ pc' = [w \in Writer |-> "idle"]
  /\ saving' = [w \in Writer |-> Empty]
  /\ fd' = [w \in Writer |-> NoInode]
  /\ reading' = [r \in Reader |-> NoInode]
  /\ UNCHANGED <<doc, tmp, content, mixed>>

Next ==
  \/ \E w \in Writer, v \in Version : Begin(w, v)
  \/ \E w \in Writer : Open(w) \/ Write(w) \/ Rename(w)
  \/ \E r \in Reader : OpenRead(r) \/ CloseRead(r)
  \/ Crash

Spec == Init /\ [][Next]_vars

-----------------------------------------------------------------------------
(* Every variable stays within its set.                                    *)
TypeOK ==
  /\ doc \in Inode
  /\ tmp \in Inode \cup {NoInode}
  /\ content \in [Inode -> Text]
  /\ mu \in Writer \cup {NoWriter}
  /\ pc \in [Writer -> Pc]
  /\ saving \in [Writer -> Version \cup {Empty}]
  /\ fd \in [Writer -> Inode \cup {NoInode}]
  /\ reading \in [Reader -> Inode \cup {NoInode}]
  /\ mixed \subseteq Inode

(* The diagram file can always be loaded: at any moment, after a crash at  *)
(* any step and for a reader that opened it before a save replaced it, it  *)
(* holds one whole document.  Only a save of the job that meets another    *)
(* save between its open and its rename can spoil the file they share, and *)
(* only until it is replaced.                                              *)
FileIsWhole ==
  /\ doc \notin mixed => content[doc] \in Version
  /\ \A r \in Reader : reading[r] \notin mixed \cup {NoInode} => content[reading[r]] \in Version

(* What a reader has open does not change under it, unless it is such a    *)
(* file.                                                                   *)
ReadIsSnapshot ==
  [][\A r \in Reader :
       reading[r] \notin mixed \cup {NoInode} => content'[reading[r]] = content[reading[r]]]_vars

(* A save that comes to its rename finds its own temporary file there and  *)
(* puts its own document in place, whatever saves came before, crashed or  *)
(* wait: no error after the contents were replaced, no success with        *)
(* another writer's document on disk, unless its file is a shared one.     *)
SaveIsHonest ==
  [][\A w \in Writer :
       Rename(w) /\ fd[w] \notin mixed => tmp # NoInode /\ content[tmp] = saving[w]]_vars
=============================================================================
