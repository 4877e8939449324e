---------------------------- MODULE DocSaveProofs ----------------------------
(***************************************************************************)
(* Proofs about Document.Save and Load, for any number of writers of which *)
(* any hold s.mu, any number of readers, documents of any size and a crash *)
(* at any point.                                                           *)
(***************************************************************************)
EXTENDS DocSave, TLAPS

(* A writer whose inode is not mixed has it to itself: it is the temporary *)
(* file, and after the write it holds that writer's document.              *)
Owns(w) ==
  /\ tmp = fd[w]
  /\ pc[w] = "write" => content[tmp] = Empty
  /\ pc[w] = "rename" => content[tmp] = saving[w]

SaveInv ==
  /\ TypeOK
  /\ \A w \in Locked : pc[w] # "idle" => mu = w
  /\ \A w \in Writer : pc[w] # "idle" => saving[w] \in Version
  /\ \A w \in Writer : Active(w) => fd[w] \in Inode
  /\ \A w \in Writer : Active(w) /\ fd[w] \notin mixed => Owns(w)
  /\ \A w, x \in Writer : w # x /\ Active(w) /\ Active(x) /\ fd[w] = fd[x] => fd[w] \in mixed
  /\ tmp # doc
  /\ \A r \in Reader : reading[r] # NoInode => reading[r] # tmp
  /\ FileIsWhole

LEMMA SaveInvInit == Init => SaveInv
<1> SUFFICES ASSUME Init PROVE SaveInv
  OBVIOUS
<1>1. TypeOK
  BY SaveAssumption DEF Init, TypeOK, Text, Pc
<1> QED
  BY <1>1, SaveAssumption DEF Init, SaveInv, FileIsWhole, Active

LEMMA SaveInvNext ==
  ASSUME SaveInv, [Next]_vars
  PROVE  SaveInv'
<1> USE SaveAssumption DEF SaveInv, TypeOK, FileIsWhole
<1>1. ASSUME NEW w \in Writer, NEW v \in Version, Begin(w, v)
      PROVE  SaveInv'
  <2>1. /\ pc' = [pc EXCEPT ![w] = "open"] /\ pc[w] = "idle"
        /\ saving' = [saving EXCEPT ![w] = v]
        /\ UNCHANGED <<doc, tmp, content, fd, reading, mixed>>
        /\ IF w \in Locked THEN mu = NoWriter /\ mu' = w ELSE UNCHANGED mu
    BY <1>1 DEF Begin
  <2>2. TypeOK'
    BY <2>1 DEF Pc
  <2>3. \A x \in Locked : pc'[x] # "idle" => mu' = x
    BY <2>1
  <2>4. \A x \in Writer : /\ pc'[x] # "idle" => saving'[x] \in Version
                          /\ Active(x)' => Active(x) /\ pc'[x] = pc[x] /\ saving'[x] = saving[x]
    BY <2>1 DEF Active
  <2> QED
    BY <2>1, <2>2, <2>3, <2>4 DEF Owns
<1>2. ASSUME NEW w \in Writer, Open(w)
      PROVE  SaveInv'
  <2>1. PICK i \in IF tmp = NoInode THEN Inode \ InUse ELSE {tmp} :
          /\ tmp' = i
          /\ content' = [content EXCEPT ![i] = Empty]
          /\ fd' = [fd EXCEPT ![w] = i]
          /\ mixed' = IF Shared(w, i) THEN mixed \cup {i} ELSE mixed \ {i}
    BY <1>2 DEF Open
  <2>2. i \in Inode /\ i # doc /\ \A r \in Reader : reading[r] # i
    BY <2>1 DEF InUse
  <2>3. /\ pc[w] = "open" /\ pc' = [pc EXCEPT ![w] = "write"]
        /\ UNCHANGED <<doc, mu, saving, reading>>
    BY <1>2 DEF Open
  <2>4. TypeOK'
    BY <2>1, <2>2, <2>3 DEF Pc, Text
  <2>5. \A x \in Writer : Active(x)' => x = w \/ (Active(x) /\ pc'[x] = pc[x] /\ fd'[x] = fd[x])
    BY <2>1, <2>3 DEF Active
  <2>6. ASSUME NEW x \in Writer \ {w}, Active(x)
        PROVE  fd[x] \in mixed' /\ (fd[x] = i => i \in mixed')
    <3>1. CASE fd[x] = i
      <4>1. ~({w, x} \subseteq Locked)
        BY <2>3, <2>6 DEF Active
      <4>2. Shared(w, i)
        BY <2>6, <3>1, <4>1 DEF Shared
      <4> QED
        BY <2>1, <3>1, <4>2
    <3>2. CASE fd[x] # i
      <4>1. fd[x] \in mixed
        BY <2>1, <2>6, <3>2 DEF Owns
      <4> QED
        BY <2>1, <3>2, <4>1
    <3> QED
      BY <3>1, <3>2
  <2>7. \A x \in Writer : Active(x)' /\ fd'[x] \notin mixed' => x = w
    BY <2>5, <2>6
  <2>8. fd'[w] = i /\ pc'[w] = "write" /\ content'[i] = Empty /\ Owns(w)'
    BY <2>1, <2>2, <2>3 DEF Owns
  <2>9. \A x, y \in Writer : x # y /\ Active(x)' /\ Active(y)' /\ fd'[x] = fd'[y] => fd'[x] \in mixed'
    BY <2>5, <2>6, <2>8
  <2>10. FileIsWhole'
    <3>1. doc' \notin mixed' => doc \notin mixed
      BY <2>1, <2>2, <2>3
    <3>2. \A r \in Reader : reading'[r] \notin mixed' \cup {NoInode} => reading[r] \notin mixed
      BY <2>1, <2>2, <2>3
    <3> QED
      BY <2>1, <2>2, <2>3, <3>1, <3>2
  <2>11. \A x \in Locked : pc'[x] # "idle" => mu' = x
    BY <2>3
  <2>12. \A x \in Writer : /\ pc'[x] # "idle" => saving'[x] \in Version
                           /\ Active(x)' => fd'[x] \in Inode
    BY <2>2, <2>3, <2>5, <2>8
  <2> QED
    BY <2>1, <2>2, <2>3, <2>4, <2>7, <2>8, <2>9, <2>10, <2>11, <2>12
<1>3. ASSUME NEW w \in Writer, Write(w)
      PROVE  SaveInv'
  <2>1. /\ pc[w] = "write" /\ pc' = [pc EXCEPT ![w] = "rename"] /\ fd[w] \in Inode
        /\ content' = [content EXCEPT ![fd[w]] = Over(content[fd[w]], saving[w])]
        /\ UNCHANGED <<doc, tmp, mu, saving, fd, reading, mixed>>
    BY <1>3 DEF Write, Active
  <2>2. saving[w] \in Version
    BY <2>1
  <2>3. TypeOK'
    BY <2>1, <2>2 DEF Pc, Text, Over
  <2>4. CASE fd[w] \notin mixed
    <3>1. tmp = fd[w] /\ content[tmp] = Empty
      BY <2>1, <2>4 DEF Owns, Active
    <3>2. content'[tmp] = saving[w]
      BY <2>1, <3>1 DEF Over
    <3>3. \A i \in Inode : i # tmp => content'[i] = content[i]
      BY <2>1, <3>1
    <3>4. \A x \in Writer : Active(x)' => Active(x)
      BY <2>1 DEF Active
    <3>5. \A x \in Writer : Active(x)' /\ fd'[x] \notin mixed' => x = w
      BY <2>1, <2>4, <3>1, <3>4 DEF Owns, Active
    <3>6. Owns(w)'
      BY <2>1, <3>1, <3>2 DEF Owns
    <3>7. FileIsWhole'
      BY <2>1, <3>1, <3>3
    <3> QED
      BY <2>1, <2>3, <3>4, <3>5, <3>6, <3>7
  <2>5. CASE fd[w] \in mixed
    <3>1. \A i \in Inode : i \notin mixed => content'[i] = content[i]
      BY <2>1, <2>5
    <3>2. \A x \in Writer : Active(x)' => Active(x)
      BY <2>1 DEF Active
    <3>3. \A x \in Writer : Active(x)' /\ fd'[x] \notin mixed' => Owns(x)'
      BY <2>1, <2>5, <3>1, <3>2 DEF Owns
    <3>4. FileIsWhole'
      BY <2>1, <3>1
    <3> QED
      BY <2>1, <2>3, <3>2, <3>3, <3>4
  <2> QED
    BY <2>4, <2>5
<1>4. ASSUME NEW w \in Writer, Rename(w)
      PROVE  SaveInv'
  <2>1. /\ pc[w] = "rename" /\ pc' = [pc EXCEPT ![w] = "idle"]
        /\ mu' = IF mu = w THEN NoWriter ELSE mu
        /\ saving' = [saving EXCEPT ![w] = Empty]
        /\ fd' = [fd EXCEPT ![w] = NoInode]
        /\ UNCHANGED <<content, reading>>
    BY <1>4 DEF Rename
  <2>2. \A x \in Writer : /\ pc'[x] # "idle" => /\ x # w /\ pc'[x] = pc[x]
                                                /\ saving'[x] = saving[x] /\ fd'[x] = fd[x]
                          /\ Active(x)' => Active(x)
    BY <2>1 DEF Active
  <2>3. \A x \in Locked : pc'[x] # "idle" => mu' = x
    BY <2>1, <2>2
  <2>4. CASE tmp = NoInode
    <3>1. UNCHANGED <<doc, tmp, mixed>>
      BY <1>4, <2>4 DEF Rename
    <3>2. \A x \in Writer : Active(x)' /\ fd'[x] \notin mixed' => Owns(x)'
      BY <2>1, <2>2, <3>1 DEF Owns, Active
    <3>3. TypeOK'
      BY <2>1, <3>1 DEF Pc
    <3> QED
      BY <2>1, <2>2, <2>3, <3>1, <3>2, <3>3 DEF Active
  <2>5. CASE tmp # NoInode
    <3>1. /\ doc' = tmp /\ tmp' = NoInode
          /\ mixed' = IF fd[w] = tmp THEN mixed ELSE mixed \cup {tmp}
      BY <1>4, <2>5 DEF Rename
    <3>2. ASSUME NEW x \in Writer, Active(x)'
          PROVE  fd'[x] \in mixed'
      <4>1. x # w /\ Active(x) /\ fd'[x] = fd[x]
        BY <2>1, <2>2, <3>2 DEF Active
      <4>2. CASE fd[x] # tmp
        BY <3>1, <4>1, <4>2 DEF Owns
      <4>3. CASE fd[x] = tmp
        <5>1. Active(w)
          BY <2>1 DEF Active
        <5> QED
          BY <3>1, <4>1, <4>3, <5>1
      <4> QED
        BY <4>2, <4>3
    <3>3. doc' \notin mixed' => content'[doc'] \in Version
      <4> SUFFICES ASSUME tmp \notin mixed' PROVE content[tmp] \in Version
        BY <2>1, <3>1
      <4>1. fd[w] = tmp /\ tmp \notin mixed /\ Active(w) /\ saving[w] \in Version
        BY <2>1, <3>1 DEF Active
      <4> QED
        BY <2>1, <4>1 DEF Owns
    <3>4. FileIsWhole'
      BY <2>1, <3>1, <3>3
    <3>5. TypeOK'
      BY <2>1, <2>5, <3>1 DEF Pc
    <3> QED
      BY <2>1, <2>2, <2>3, <2>5, <3>1, <3>2, <3>4, <3>5 DEF Active
  <2> QED
    BY <2>4, <2>5
<1>5. ASSUME NEW r \in Reader, OpenRead(r) \/ CloseRead(r)
      PROVE  SaveInv'
  BY <1>5 DEF OpenRead, CloseRead, Owns, Active
<1>6. CASE Crash
  BY <1>6 DEF Crash, Pc, Active
<1>7. CASE UNCHANGED vars
  BY <1>7 DEF vars, Owns, Active
<1> QED
  BY <1>1, <1>2, <1>3, <1>4, <1>5, <1>6, <1>7 DEF Next

LEMMA SaveInvariant == Spec => []SaveInv
<1>1. SaveInv /\ [Next]_vars => SaveInv'
  BY SaveInvNext
<1> QED
  BY <1>1, SaveInvInit, PTL DEF Spec

(* The diagram file can be loaded at every moment, also after a crash in   *)
(* the middle of a save and with the job's save next to a PUT handler's,   *)
(* unless the two had the same temporary file open.                        *)
THEOREM SavedFileIsWhole == Spec => []FileIsWhole
<1>1. SaveInv => FileIsWhole
  BY DEF SaveInv
<1> QED
  BY <1>1, SaveInvariant, PTL

(* What a Load has open stays as it was when it was opened, unless it is   *)
(* such a file.                                                            *)
THEOREM LoadReadsASnapshot == Spec => ReadIsSnapshot
<1> DEFINE Kept == \A r \in Reader :
                     reading[r] \notin mixed \cup {NoInode} => content'[reading[r]] = content[reading[r]]
<1>1. SaveInv /\ [Next]_vars => [Kept]_vars
  <2> SUFFICES ASSUME SaveInv, [Next]_vars, NEW r \in Reader,
                      reading[r] \notin mixed \cup {NoInode}
               PROVE  content'[reading[r]] = content[reading[r]]
    OBVIOUS
  <2> USE DEF SaveInv, TypeOK
  <2>1. ASSUME NEW w \in Writer, Open(w)
        PROVE  content'[reading[r]] = content[reading[r]]
    <3>1. PICK i \in IF tmp = NoInode THEN Inode \ InUse ELSE {tmp} :
            content' = [content EXCEPT ![i] = Empty]
      BY <2>1 DEF Open
    <3>2. reading[r] # i
      BY <3>1 DEF InUse
    <3> QED
      BY <3>1, <3>2
  <2>2. ASSUME NEW w \in Writer, Write(w)
        PROVE  content'[reading[r]] = content[reading[r]]
    <3>1. fd[w] # reading[r]
      BY <2>2 DEF Write, Owns, Active
    <3> QED
      BY <2>2, <3>1 DEF Write
  <2>3. CASE UNCHANGED content
    BY <2>3
  <2> QED
    BY <2>1, <2>2, <2>3 DEF Next, Begin, Rename, OpenRead, CloseRead, Crash, vars
<1> QED
  BY <1>1, SaveInvariant, PTL DEF Spec, ReadIsSnapshot

(* The temporary file a save renames is its own and complete, for a PUT    *)
(* handler and for the job, unless it is a shared one.                     *)
THEOREM SavePutsItsOwnDocument == Spec => SaveIsHonest
<1>1. SaveInv /\ [Next]_vars =>
        [\A w \in Writer :
           Rename(w) /\ fd[w] \notin mixed => tmp # NoInode /\ content[tmp] = saving[w]]_vars
  BY SaveAssumption DEF SaveInv, TypeOK, Rename, Owns, Active
<1> QED
  BY <1>1, SaveInvariant, PTL DEF Spec, SaveIsHonest
=============================================================================
