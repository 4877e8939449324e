----------------------------- MODULE MCDocSave ------------------------------
(***************************************************************************)
(* Small instances of DocSave for TLC: a long and a short document.        *)
(***************************************************************************)
EXTENDS DocSave, TLC

CONSTANTS long, short
MCVersion == {long, short}
MCSize == [v \in MCVersion |-> IF v = long THEN 2 ELSE 1]

InodeSymmetry == Permutations(Inode)

(* FileIsWhole without its exception, which the code does not promise; the *)
(* configuration MCDocSaveJob shows how the job spoils the file.           *)
FileIsAlwaysWhole == content[doc] \in Version
=============================================================================
