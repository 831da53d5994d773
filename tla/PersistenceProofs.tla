------------------------- MODULE PersistenceProofs -------------------------
(***************************************************************************)
(* Proofs about the files that a node keeps: with the saver as the only    *)
(* thread that saves, no crash, power loss or failed call loses a save     *)
(* that returned Ok.                                                       *)
(***************************************************************************)
EXTENDS Persistence, TLAPS

State == [version : Nat, height : Nat]
Directory == [Name -> Inode \cup {Absent}]
Kept == {"path", "bak", "bak1"}
Label == {"idle", "create", "write", "roll", "backup", "previous", "commit", "sync"}

DiskType ==
    /\ live \in State
    /\ mode \in {"up", "crashed"}
    /\ pc \in [Thread -> Label]
    /\ snap \in [Thread -> State]
    /\ file \in [Thread -> Inode \cup {Absent}]
    /\ dir \in survivors
    /\ survivors \subseteq Directory
    /\ content \in [Inode -> State \cup Torn]
    /\ saved \in Nat

(***************************************************************************)
(* What a directory d must be for the load, with the files' contents c, to *)
(* find version s.  The primary file is complete or missing, and if it is  *)
(* missing the first backup is complete, or nothing was ever saved.        *)
(***************************************************************************)
Complete(c, i, s) == c[i] \in State /\ c[i].version >= s

Recoverable(d, c, s) ==
    /\ d["path"] # Absent => Complete(c, d["path"], s)
    /\ d["path"] = Absent /\ d["bak"] # Absent => Complete(c, d["bak"], s)
    /\ d["path"] = Absent /\ d["bak"] = Absent => s = 0

AllRecoverable == \A d \in survivors : Recoverable(d, content, saved)

(***************************************************************************)
(* No directory that may survive knows the inode of the temporary file     *)
(* under a name that is loaded.                                            *)
(***************************************************************************)
Apart(d, i) == i # Absent => \A n \in Kept : d[n] # i
TmpApart == \A d \in survivors : Apart(d, d["tmp"]) /\ Apart(d, dir["tmp"])

(***************************************************************************)
(* Where the saver is in a save.                                           *)
(***************************************************************************)
SaveInStep ==
    LET at == pc["saver"]
        f == file["saver"]
    IN /\ mode = "up" => live.version >= saved
       /\ at # "idle" => mode = "up" /\ snap["saver"].version >= saved /\ live.version >= snap["saver"].version
       /\ at \notin {"idle", "create"} => f # Absent
       /\ at = "write" => dir["tmp"] = f /\ content[f] = Empty
       /\ at \in {"roll", "backup", "previous", "commit"} => dir["tmp"] = f /\ content[f] = snap["saver"]
       /\ at \in {"backup", "previous"} => dir["path"] # Absent
       /\ at = "sync" => dir["path"] = f /\ content[f] = snap["saver"]

DiskInv == DiskType /\ AllRecoverable /\ TmpApart /\ SaveInStep
-----------------------------------------------------------------------------
OneSaver == Thread = {"saver"}

LEMMA ConstantsApart ==
    /\ Absent \notin Inode /\ Absent \notin State /\ Empty \notin State /\ Garbage \notin State
    /\ Fresh \in State /\ Fresh.version = 0
  BY PersistenceConstants DEF State, Fresh

LEMMA RecoverableLoads ==
    ASSUME DiskType, NEW d \in Directory, Recoverable(d, content, saved)
    PROVE  VersionOf(LoadFrom(d)) >= saved
  <1>0. saved \in Nat /\ content \in [Inode -> State \cup Torn] /\ \A n \in Name : d[n] \in Inode \cup {Absent}
    BY DEF DiskType, Directory
  <1>1. ASSUME NEW n \in Kept, Loadable(d, n)
        PROVE  content[d[n]] \in State /\ content[d[n]] # Absent /\ VersionOf(content[d[n]]) = content[d[n]].version
               /\ content[d[n]].version \in Nat
    <2>1. d[n] \in Inode /\ content[d[n]] \in State
      BY <1>0, <1>1 DEF Loadable, Kept, Name
    <2> QED BY <2>1, ConstantsApart DEF VersionOf, State
  <1>2. ASSUME NEW n \in Name, d[n] # Absent, Complete(content, d[n], saved) PROVE Loadable(d, n)
    BY <1>2, ConstantsApart DEF Loadable, Complete, Torn
  <1>3. CASE d["path"] # Absent
    <2>1. Complete(content, d["path"], saved) /\ Loadable(d, "path")
      BY <1>2, <1>3 DEF Recoverable, Name
    <2> QED BY <1>1, <2>1 DEF LoadFrom, Kept, Complete
  <1>4. CASE d["path"] = Absent /\ d["bak"] # Absent
    <2>1. Complete(content, d["bak"], saved) /\ Loadable(d, "bak") /\ ~Loadable(d, "path")
      BY <1>2, <1>4 DEF Recoverable, Name, Loadable
    <2> QED BY <1>1, <2>1 DEF LoadFrom, Kept, Complete
  <1>5. CASE d["path"] = Absent /\ d["bak"] = Absent
    <2>1. saved = 0 /\ ~Loadable(d, "path") /\ ~Loadable(d, "bak")
      BY <1>5 DEF Recoverable, Loadable
    <2>2. CASE Loadable(d, "bak1")
      BY <1>1, <2>1, <2>2 DEF LoadFrom, Kept
    <2>3. CASE ~Loadable(d, "bak1")
      BY <2>1, <2>3 DEF LoadFrom, VersionOf
    <2> QED BY <2>2, <2>3
  <1> QED BY <1>3, <1>4, <1>5

(***************************************************************************)
(* A directory stays recoverable when its own files are left as they are   *)
(* and no newer save is claimed.                                           *)
(***************************************************************************)
LEMMA RecoverableKept ==
    ASSUME NEW d \in Directory, NEW c, NEW c2, NEW s \in Nat, NEW s2 \in Nat, s2 <= s,
           Recoverable(d, c, s), \A n \in Kept : d[n] # Absent => c2[d[n]] = c[d[n]]
    PROVE  Recoverable(d, c2, s2)
  <1>1. ASSUME NEW n \in Kept, d[n] # Absent, Complete(c, d[n], s) PROVE Complete(c2, d[n], s2)
    <2>1. c[d[n]] \in State /\ c2[d[n]] = c[d[n]] /\ c[d[n]].version \in Nat
      BY <1>1 DEF Complete, State
    <2> QED BY <1>1, <2>1 DEF Complete
  <1>2. s = 0 => s2 = 0
    OBVIOUS
  <1> QED BY <1>1, <1>2 DEF Recoverable, Kept

LEMMA DiskInit == ASSUME OneSaver PROVE SavesInit => DiskInv
  <1> SUFFICES ASSUME SavesInit PROVE DiskInv
    OBVIOUS
  <1>1. dir \in Directory /\ dir["path"] = Absent /\ dir["bak"] = Absent /\ dir["tmp"] = Absent
    BY DEF SavesInit, Directory, Name
  <1>2. DiskType
    BY <1>1, ConstantsApart DEF SavesInit, DiskType, Label, Torn
  <1>3. AllRecoverable
    BY <1>1 DEF SavesInit, AllRecoverable, Recoverable
  <1>4. TmpApart
    BY <1>1 DEF SavesInit, TmpApart, Apart
  <1>5. SaveInStep
    BY <1>1, ConstantsApart DEF SavesInit, SaveInStep, OneSaver
  <1> QED BY <1>2, <1>3, <1>4, <1>5 DEF DiskInv

(***************************************************************************)
(* Steps that touch no file.                                               *)
(***************************************************************************)
LEMMA FilesUntouched ==
    ASSUME DiskInv, dir' = dir, survivors' = survivors, content' = content, saved' = saved
    PROVE  AllRecoverable' /\ TmpApart' /\ dir' \in survivors' /\ survivors' \subseteq Directory
           /\ content' \in [Inode -> State \cup Torn] /\ saved' \in Nat
  BY DEF DiskInv, DiskType, AllRecoverable, TmpApart

LEMMA GrowKeeps == ASSUME OneSaver, DiskInv, Grow PROVE DiskInv'
  <1>0. DiskType /\ SaveInStep
    BY DEF DiskInv
  <1>1. UNCHANGED <<mode, pc, snap, file, dir, survivors, content, saved>>
    BY DEF Grow
  <1>2. PICK h \in 0 .. live.height + 1 : live' = [version |-> live.version + 1, height |-> h]
    BY DEF Grow
  <1>3. live.version \in Nat /\ live.height \in Nat
    BY <1>0 DEF DiskType, State
  <1>4. live' \in State /\ live'.version = live.version + 1
    BY <1>2, <1>3 DEF State
  <1>5. DiskType'
    BY <1>0, <1>1, <1>4 DEF DiskType
  <1>6. SaveInStep'
    <2>1. mode' = "up" => live'.version >= saved'
      BY <1>0, <1>1, <1>3, <1>4 DEF SaveInStep, DiskType
    <2>2. snap["saver"].version \in Nat
      BY <1>0 DEF DiskType, OneSaver, State
    <2>3. live.version >= snap["saver"].version => live'.version >= snap["saver"].version
      BY <1>3, <1>4, <2>2
    <2> QED BY <1>0, <1>1, <2>1, <2>3 DEF SaveInStep
  <1> QED BY <1>1, <1>5, <1>6, FilesUntouched DEF DiskInv

LEMMA SnapshotKeeps == ASSUME OneSaver, DiskInv, Snapshot("saver") PROVE DiskInv'
  <1>0. DiskType /\ SaveInStep
    BY DEF DiskInv
  <1>1. /\ UNCHANGED <<live, mode, file, dir, survivors, content, saved>>
        /\ mode = "up" /\ snap' = [snap EXCEPT !["saver"] = live] /\ pc' = [pc EXCEPT !["saver"] = "create"]
    BY DEF Snapshot, At, Goto
  <1>2. /\ snap' \in [Thread -> State] /\ pc' \in [Thread -> Label]
        /\ snap'["saver"] = live /\ pc'["saver"] = "create"
    BY <1>0, <1>1 DEF DiskType, Label, OneSaver
  <1>3. DiskType'
    BY <1>0, <1>1, <1>2 DEF DiskType
  <1>4. SaveInStep'
    <2>1. live.version \in Nat /\ live.version >= live.version
      BY <1>0 DEF DiskType, State
    <2> QED BY <1>0, <1>1, <1>2, <2>1 DEF SaveInStep
  <1> QED BY <1>1, <1>3, <1>4, FilesUntouched DEF DiskInv

(***************************************************************************)
(* A save that fails leaves the saver where it was before.                 *)
(***************************************************************************)
LEMMA ReturnIs ==
    ASSUME OneSaver, DiskType, NEW ok \in BOOLEAN, Return("saver", ok), mode = "up"
    PROVE  /\ pc' \in [Thread -> Label] /\ pc'["saver"] = "idle"
           /\ file' \in [Thread -> Inode \cup {Absent}]
           /\ snap' \in [Thread -> State]
           /\ mode' = "up"
           /\ saved' = IF ok THEN snap["saver"].version ELSE saved
  BY ConstantsApart DEF Return, Goto, DiskType, Label, OneSaver

LEMMA GivesUpKeeps == ASSUME OneSaver, DiskInv, CreateFails("saver") \/ CommitFails("saver") PROVE DiskInv'
  <1>0. DiskType /\ SaveInStep
    BY DEF DiskInv
  <1>1. UNCHANGED <<live, dir, survivors, content>> /\ mode = "up" /\ Return("saver", FALSE)
    BY DEF CreateFails, CommitFails, At
  <1>2. /\ pc' \in [Thread -> Label] /\ pc'["saver"] = "idle" /\ file' \in [Thread -> Inode \cup {Absent}]
        /\ snap' \in [Thread -> State] /\ mode' = "up" /\ saved' = saved
    BY <1>0, <1>1, ReturnIs
  <1>3. DiskType'
    BY <1>0, <1>1, <1>2 DEF DiskType
  <1>4. SaveInStep'
    BY <1>0, <1>1, <1>2 DEF SaveInStep
  <1> QED BY <1>1, <1>2, <1>3, <1>4, FilesUntouched DEF DiskInv

(***************************************************************************)
(* Steps that write to the temporary file alone.                           *)
(***************************************************************************)
LEMMA TmpWritten ==
    ASSUME DiskInv, NEW i \in Inode, NEW c \in State \cup Torn, content' = [content EXCEPT ![i] = c],
           \A d \in survivors : Apart(d, i), saved' = saved
    PROVE  /\ content' \in [Inode -> State \cup Torn] /\ content'[i] = c
           /\ \A d \in survivors : Recoverable(d, content', saved')
  <1>0. DiskType /\ AllRecoverable /\ saved \in Nat /\ content \in [Inode -> State \cup Torn]
    BY DEF DiskInv, DiskType
  <1>1. ASSUME NEW d \in survivors PROVE Recoverable(d, content', saved')
    <2>1. d \in Directory /\ Recoverable(d, content, saved)
      BY <1>0 DEF DiskType, AllRecoverable
    <2>2. ASSUME NEW n \in Kept, d[n] # Absent PROVE content'[d[n]] = content[d[n]]
      <3>1. d[n] \in Inode /\ d[n] # i
        BY <2>1, <2>2, ConstantsApart DEF Directory, Kept, Name, Apart
      <3> QED BY <1>0, <3>1
    <2>3. saved' \in Nat /\ saved' <= saved
      BY <1>0
    <2> QED BY <1>0, <2>1, <2>2, <2>3, RecoverableKept
  <1> QED BY <1>0, <1>1

LEMMA WriteKeeps == ASSUME OneSaver, DiskInv, Write("saver") PROVE DiskInv'
  <1>0. DiskType /\ SaveInStep /\ TmpApart
    BY DEF DiskInv
  <1> DEFINE i == file["saver"]
  <1>1. /\ mode = "up" /\ pc["saver"] = "write" /\ pc' = [pc EXCEPT !["saver"] = "roll"]
        /\ UNCHANGED <<live, mode, snap, file, dir, survivors, saved>>
    BY DEF Write, At, Goto
  <1>2. i # Absent /\ dir["tmp"] = i /\ content[i] = Empty /\ snap["saver"].version >= saved
    BY <1>0, <1>1 DEF SaveInStep
  <1>3. i \in Inode /\ snap["saver"] \in State
    BY <1>0, <1>2 DEF DiskType, OneSaver
  <1>4. content' = [content EXCEPT ![i] = snap["saver"]]
    BY <1>2 DEF Write
  <1>5. \A d \in survivors : Apart(d, i)
    BY <1>0, <1>2 DEF TmpApart
  <1>6. /\ content' \in [Inode -> State \cup Torn] /\ content'[i] = snap["saver"]
        /\ \A d \in survivors : Recoverable(d, content', saved')
    BY <1>1, <1>3, <1>4, <1>5, TmpWritten
  <1>7. pc' \in [Thread -> Label] /\ pc'["saver"] = "roll"
    BY <1>0, <1>1 DEF DiskType, Label, OneSaver
  <1>8. DiskType'
    BY <1>0, <1>1, <1>6, <1>7 DEF DiskType
  <1>9. SaveInStep'
    BY <1>0, <1>1, <1>2, <1>6, <1>7 DEF SaveInStep
  <1>10. AllRecoverable' /\ TmpApart'
    BY <1>0, <1>1, <1>6 DEF AllRecoverable, TmpApart
  <1> QED BY <1>8, <1>9, <1>10 DEF DiskInv

LEMMA WriteFailsKeeps == ASSUME OneSaver, DiskInv, WriteFails("saver") PROVE DiskInv'
  <1>0. DiskType /\ SaveInStep /\ TmpApart
    BY DEF DiskInv
  <1> DEFINE i == file["saver"]
  <1>1. /\ mode = "up" /\ pc["saver"] = "write" /\ Return("saver", FALSE)
        /\ UNCHANGED <<live, dir, survivors>> /\ content' = [content EXCEPT ![i] = Garbage]
    BY DEF WriteFails, At
  <1>2. i # Absent /\ dir["tmp"] = i
    BY <1>0, <1>1 DEF SaveInStep
  <1>3. i \in Inode /\ Garbage \in State \cup Torn
    BY <1>0, <1>2 DEF DiskType, OneSaver, Torn
  <1>4. /\ pc' \in [Thread -> Label] /\ pc'["saver"] = "idle" /\ file' \in [Thread -> Inode \cup {Absent}]
        /\ snap' \in [Thread -> State] /\ mode' = "up" /\ saved' = saved
    BY <1>0, <1>1, ReturnIs
  <1>5. \A d \in survivors : Apart(d, i)
    BY <1>0, <1>2 DEF TmpApart
  <1>6. /\ content' \in [Inode -> State \cup Torn]
        /\ \A d \in survivors : Recoverable(d, content', saved')
    BY <1>1, <1>3, <1>4, <1>5, TmpWritten
  <1>8. DiskType'
    BY <1>0, <1>1, <1>4, <1>6 DEF DiskType
  <1>9. SaveInStep'
    BY <1>0, <1>1, <1>4 DEF SaveInStep
  <1>10. AllRecoverable' /\ TmpApart'
    BY <1>0, <1>1, <1>6 DEF AllRecoverable, TmpApart
  <1> QED BY <1>8, <1>9, <1>10 DEF DiskInv

LEMMA RollKeeps == ASSUME OneSaver, DiskInv, Roll("saver") PROVE DiskInv'
  <1>0. DiskType /\ SaveInStep
    BY DEF DiskInv
  <1>1. /\ UNCHANGED <<live, mode, snap, file, dir, survivors, content, saved>>
        /\ mode = "up" /\ pc["saver"] = "roll"
        /\ pc' = [pc EXCEPT !["saver"] = IF dir["path"] # Absent THEN "backup" ELSE "commit"]
    BY DEF Roll, At, Goto
  <1>2. /\ pc' \in [Thread -> Label]
        /\ pc'["saver"] = IF dir["path"] # Absent THEN "backup" ELSE "commit"
    BY <1>0, <1>1 DEF DiskType, Label, OneSaver
  <1>3. DiskType'
    BY <1>0, <1>1, <1>2 DEF DiskType
  <1>4. SaveInStep'
    BY <1>0, <1>1, <1>2 DEF SaveInStep
  <1> QED BY <1>1, <1>3, <1>4, FilesUntouched DEF DiskInv

(***************************************************************************)
(* The directory changes to d.                                             *)
(***************************************************************************)
LEMMA DirectoryChanges ==
    ASSUME DiskType', \A d \in survivors : Recoverable(d, content', saved'), NEW e, SetDir(e),
           Recoverable(e, content', saved'), Apart(e, e["tmp"]),
           \A d \in survivors : Apart(d, d["tmp"]) /\ Apart(d, e["tmp"])
    PROVE  AllRecoverable' /\ TmpApart'
  BY DEF SetDir, AllRecoverable, TmpApart

LEMMA CreateKeeps == ASSUME OneSaver, DiskInv, Create("saver") PROVE DiskInv'
  <1>0. DiskType /\ SaveInStep /\ TmpApart
    BY DEF DiskInv
  <1>1. /\ mode = "up" /\ pc["saver"] = "create" /\ pc' = [pc EXCEPT !["saver"] = "write"]
        /\ UNCHANGED <<live, mode, snap, saved>>
    BY DEF Create, At, Goto
  <1>2. PICK i \in Inode :
          /\ IF dir["tmp"] # Absent THEN i = dir["tmp"] ELSE i \notin Held
          /\ file' = [file EXCEPT !["saver"] = i]
          /\ content' = [content EXCEPT ![i] = Empty]
          /\ SetDir([dir EXCEPT !["tmp"] = i])
    BY DEF Create
  <1>3. PICK e : e = [dir EXCEPT !["tmp"] = i]
    OBVIOUS
  <1>4. dir \in Directory /\ survivors \subseteq Directory
    BY <1>0 DEF DiskType
  <1>5. e \in Directory /\ e["tmp"] = i /\ \A n \in Kept : e[n] = dir[n]
    BY <1>3, <1>4 DEF Directory, Name, Kept
  <1>6. ASSUME NEW d \in survivors PROVE Apart(d, i)
    <2>1. CASE dir["tmp"] # Absent
      BY <1>0, <1>2, <2>1 DEF TmpApart
    <2>2. CASE dir["tmp"] = Absent
      BY <1>2, <2>2 DEF Held, Apart, Kept, Name
    <2> QED BY <2>1, <2>2
  <1>7. Empty \in State \cup Torn /\ i # Absent
    BY ConstantsApart DEF Torn
  <1>8. /\ content' \in [Inode -> State \cup Torn] /\ content'[i] = Empty
        /\ \A d \in survivors : Recoverable(d, content', saved')
    BY <1>1, <1>2, <1>6, <1>7, TmpWritten
  <1>9. dir' = e /\ survivors' = survivors \cup {e} /\ SetDir(e)
    BY <1>2, <1>3 DEF SetDir
  <1>10. /\ pc' \in [Thread -> Label] /\ pc'["saver"] = "write"
         /\ file' \in [Thread -> Inode \cup {Absent}] /\ file'["saver"] = i
    BY <1>0, <1>1, <1>2 DEF DiskType, Label, OneSaver
  <1>11. DiskType'
    BY <1>0, <1>1, <1>4, <1>5, <1>8, <1>9, <1>10 DEF DiskType
  <1>12. Recoverable(e, content', saved')
    <2>1. Recoverable(dir, content', saved')
      BY <1>0, <1>8 DEF DiskType
    <2>2. e["path"] = dir["path"] /\ e["bak"] = dir["bak"]
      BY <1>5 DEF Kept
    <2> QED BY <2>1, <2>2 DEF Recoverable
  <1>13. Apart(e, e["tmp"])
    <2>1. Apart(dir, i)
      BY <1>0, <1>6 DEF DiskType
    <2> QED BY <1>5, <2>1 DEF Apart
  <1>14. \A d \in survivors : Apart(d, d["tmp"]) /\ Apart(d, e["tmp"])
    BY <1>0, <1>5, <1>6 DEF TmpApart
  <1>15. AllRecoverable' /\ TmpApart'
    BY <1>8, <1>9, <1>11, <1>12, <1>13, <1>14, DirectoryChanges
  <1>16. SaveInStep'
    BY <1>0, <1>1, <1>5, <1>7, <1>8, <1>9, <1>10 DEF SaveInStep
  <1> QED BY <1>11, <1>15, <1>16 DEF DiskInv

(***************************************************************************)
(* A rename on the way of a save: no content changes.                      *)
(***************************************************************************)
LEMMA RenameKeeps ==
    ASSUME OneSaver, DiskInv, NEW e \in Directory, SetDir(e), NEW label \in Label, Goto("saver", label),
           UNCHANGED <<live, mode, snap, file, content, saved>>,
           Recoverable(e, content, saved), Apart(e, e["tmp"]), e["tmp"] \in {Absent, dir["tmp"]}
    PROVE  /\ DiskType' /\ AllRecoverable' /\ TmpApart' /\ pc'["saver"] = label
           /\ dir' = e /\ UNCHANGED <<live, mode, snap, file, content, saved>>
  <1>0. DiskType /\ AllRecoverable /\ TmpApart
    BY DEF DiskInv
  <1>1. dir' = e /\ survivors' = survivors \cup {e}
    BY DEF SetDir
  <1>2. pc' \in [Thread -> Label] /\ pc'["saver"] = label
    BY <1>0 DEF DiskType, Goto, OneSaver
  <1>3. DiskType'
    BY <1>0, <1>1, <1>2 DEF DiskType
  <1>4. \A d \in survivors : Apart(d, d["tmp"]) /\ Apart(d, e["tmp"])
    BY <1>0 DEF TmpApart, Apart
  <1>5. (\A d \in survivors : Recoverable(d, content', saved')) /\ Recoverable(e, content', saved')
    BY <1>0 DEF AllRecoverable
  <1> QED BY <1>1, <1>2, <1>3, <1>4, <1>5, DirectoryChanges

LEMMA RollBackupKeeps == ASSUME OneSaver, DiskInv, RollBackup("saver") PROVE DiskInv'
  <1>0. DiskType /\ SaveInStep /\ AllRecoverable /\ TmpApart /\ dir \in Directory
    BY DEF DiskInv, DiskType
  <1>1. /\ mode = "up" /\ pc["saver"] = "backup" /\ Goto("saver", "previous") /\ TryRename("bak", "bak1")
        /\ UNCHANGED <<live, mode, snap, file, content, saved>>
    BY DEF RollBackup, At
  <1>2. dir["path"] # Absent
    BY <1>0, <1>1 DEF SaveInStep
  <1>3. CASE UNCHANGED <<dir, survivors>>
    <2>1. pc' \in [Thread -> Label] /\ pc'["saver"] = "previous"
      BY <1>0, <1>1 DEF DiskType, Label, Goto, OneSaver
    <2>2. DiskType' /\ SaveInStep'
      BY <1>0, <1>1, <1>2, <1>3, <2>1 DEF DiskType, SaveInStep
    <2> QED BY <1>1, <1>3, <2>2, FilesUntouched DEF DiskInv
  <1>4. CASE SetDir(Rename(dir, "bak", "bak1"))
    <2>1. PICK e : e = Rename(dir, "bak", "bak1")
      OBVIOUS
    <2>2. /\ e \in Directory /\ e["path"] = dir["path"] /\ e["bak"] = Absent
          /\ e["bak1"] = dir["bak"] /\ e["tmp"] = dir["tmp"]
      BY <1>0, <2>1 DEF Rename, Directory, Name
    <2>3. Recoverable(dir, content, saved) /\ Apart(dir, dir["tmp"])
      BY <1>0 DEF DiskType, AllRecoverable, TmpApart
    <2>4. Recoverable(e, content, saved) /\ Apart(e, e["tmp"])
      BY <1>2, <2>2, <2>3 DEF Recoverable, Apart, Kept
    <2>5. /\ DiskType' /\ AllRecoverable' /\ TmpApart' /\ pc'["saver"] = "previous" /\ dir' = e
      BY <1>1, <1>4, <2>1, <2>2, <2>4, RenameKeeps DEF Label
    <2>6. SaveInStep'
      BY <1>0, <1>1, <1>2, <2>2, <2>5 DEF SaveInStep
    <2> QED BY <2>5, <2>6 DEF DiskInv
  <1> QED BY <1>1, <1>3, <1>4 DEF TryRename

LEMMA RollPreviousKeeps == ASSUME OneSaver, DiskInv, RollPrevious("saver") PROVE DiskInv'
  <1>0. DiskType /\ SaveInStep /\ AllRecoverable /\ TmpApart /\ dir \in Directory
    BY DEF DiskInv, DiskType
  <1>1. /\ mode = "up" /\ pc["saver"] = "previous" /\ Goto("saver", "commit") /\ TryRename("path", "bak")
        /\ UNCHANGED <<live, mode, snap, file, content, saved>>
    BY DEF RollPrevious, At
  <1>2. dir["path"] # Absent
    BY <1>0, <1>1 DEF SaveInStep
  <1>3. CASE UNCHANGED <<dir, survivors>>
    <2>1. pc' \in [Thread -> Label] /\ pc'["saver"] = "commit"
      BY <1>0, <1>1 DEF DiskType, Label, Goto, OneSaver
    <2>2. DiskType' /\ SaveInStep'
      BY <1>0, <1>1, <1>2, <1>3, <2>1 DEF DiskType, SaveInStep
    <2> QED BY <1>1, <1>3, <2>2, FilesUntouched DEF DiskInv
  <1>4. CASE SetDir(Rename(dir, "path", "bak"))
    <2>1. PICK e : e = Rename(dir, "path", "bak")
      OBVIOUS
    <2>2. /\ e \in Directory /\ e["path"] = Absent /\ e["bak"] = dir["path"]
          /\ e["bak1"] = dir["bak1"] /\ e["tmp"] = dir["tmp"]
      BY <1>0, <2>1 DEF Rename, Directory, Name
    <2>3. Recoverable(dir, content, saved) /\ Apart(dir, dir["tmp"])
      BY <1>0 DEF DiskType, AllRecoverable, TmpApart
    <2>4. Recoverable(e, content, saved) /\ Apart(e, e["tmp"])
      <3>1. e["tmp"] # Absent => \A n \in Kept : e[n] # e["tmp"]
        BY <2>2, <2>3 DEF Apart, Kept
      <3> QED BY <1>2, <2>2, <2>3, <3>1 DEF Recoverable, Apart
    <2>5. /\ DiskType' /\ AllRecoverable' /\ TmpApart' /\ pc'["saver"] = "commit" /\ dir' = e
      BY <1>1, <1>4, <2>1, <2>2, <2>4, RenameKeeps DEF Label
    <2>6. SaveInStep'
      BY <1>0, <1>1, <2>2, <2>5 DEF SaveInStep
    <2> QED BY <2>5, <2>6 DEF DiskInv
  <1> QED BY <1>1, <1>3, <1>4 DEF TryRename

LEMMA CommitKeeps == ASSUME OneSaver, DiskInv, Commit("saver") PROVE DiskInv'
  <1>0. DiskType /\ SaveInStep /\ AllRecoverable /\ TmpApart /\ dir \in Directory
    BY DEF DiskInv, DiskType
  <1>1. /\ mode = "up" /\ pc["saver"] = "commit" /\ Goto("saver", "sync") /\ SetDir(Rename(dir, "tmp", "path"))
        /\ UNCHANGED <<live, mode, snap, file, content, saved>>
    BY DEF Commit, At
  <1>2. /\ dir["tmp"] = file["saver"] /\ file["saver"] # Absent /\ content[file["saver"]] = snap["saver"]
        /\ snap["saver"].version >= saved /\ snap["saver"] \in State
    BY <1>0, <1>1 DEF SaveInStep, DiskType, OneSaver
  <1>3. PICK e : e = Rename(dir, "tmp", "path")
    OBVIOUS
  <1>4. e \in Directory /\ e["path"] = file["saver"] /\ e["tmp"] = Absent
    BY <1>0, <1>2, <1>3 DEF Rename, Directory, Name
  <1>5. Recoverable(e, content, saved) /\ Apart(e, e["tmp"])
    BY <1>2, <1>4 DEF Recoverable, Complete, Apart
  <1>6. /\ DiskType' /\ AllRecoverable' /\ TmpApart' /\ pc'["saver"] = "sync" /\ dir' = e
    BY <1>1, <1>3, <1>4, <1>5, RenameKeeps DEF Label
  <1>7. SaveInStep'
    BY <1>0, <1>1, <1>2, <1>4, <1>6 DEF SaveInStep
  <1> QED BY <1>6, <1>7 DEF DiskInv

(***************************************************************************)
(* What a directory names is kept when the other files are freed.          *)
(***************************************************************************)
LEMMA FreeKeeps ==
    ASSUME DiskType, NEW d \in Directory, NEW open, FreeFiles(d, open)
    PROVE  /\ content' \in [Inode -> State \cup Torn]
           /\ \A n \in Name : d[n] # Absent => content'[d[n]] = content[d[n]]
  <1>0. content \in [Inode -> State \cup Torn]
    BY DEF DiskType
  <1>1. \A i \in Inode : content'[i] \in {content[i], Empty}
    BY DEF FreeFiles
  <1>2. content' \in [Inode -> State \cup Torn]
    <2>1. content' = [i \in Inode |-> IF i \in open \cup {d[n] : n \in Name} THEN content[i] ELSE Empty]
      BY DEF FreeFiles
    <2> QED BY <1>0, <2>1 DEF Torn
  <1>3. ASSUME NEW n \in Name, d[n] # Absent PROVE content'[d[n]] = content[d[n]]
    <2>1. d[n] \in Inode
      BY <1>3 DEF Directory
    <2> QED BY <2>1 DEF FreeFiles
  <1> QED BY <1>2, <1>3

LEMMA OneDirectory ==
    ASSUME NEW d, dir' = d, survivors' = {d}, Recoverable(d, content', saved'), Apart(d, d["tmp"])
    PROVE  AllRecoverable' /\ TmpApart'
  BY DEF AllRecoverable, TmpApart

LEMMA SyncKeeps == ASSUME OneSaver, DiskInv, SyncDir("saver") PROVE DiskInv'
  <1>0. DiskType /\ SaveInStep /\ TmpApart /\ dir \in Directory /\ dir \in survivors
    BY DEF DiskInv, DiskType
  <1>1. /\ mode = "up" /\ pc["saver"] = "sync" /\ Return("saver", TRUE)
        /\ survivors' = {dir} /\ UNCHANGED <<live, dir>>
        /\ FreeFiles(dir, {file[u] : u \in Thread \ {"saver"}})
    BY DEF SyncDir, At
  <1>2. /\ dir["path"] = file["saver"] /\ file["saver"] # Absent /\ content[dir["path"]] = snap["saver"]
        /\ snap["saver"] \in State /\ snap["saver"].version \in Nat
    BY <1>0, <1>1 DEF SaveInStep, DiskType, OneSaver, State
  <1>3. /\ pc' \in [Thread -> Label] /\ pc'["saver"] = "idle" /\ file' \in [Thread -> Inode \cup {Absent}]
        /\ snap' \in [Thread -> State] /\ mode' = "up" /\ saved' = snap["saver"].version
    BY <1>0, <1>1, ReturnIs
  <1>4. content' \in [Inode -> State \cup Torn] /\ content'[dir["path"]] = snap["saver"]
    <2>1. PICK open : FreeFiles(dir, open)
      BY <1>1
    <2>2. /\ content' \in [Inode -> State \cup Torn]
          /\ \A n \in Name : dir[n] # Absent => content'[dir[n]] = content[dir[n]]
      BY <1>0, <2>1, FreeKeeps
    <2> QED BY <1>2, <2>2 DEF Name
  <1>5. Recoverable(dir, content', saved')
    BY <1>2, <1>3, <1>4 DEF Recoverable, Complete
  <1>6. AllRecoverable' /\ TmpApart'
    <2>1. Apart(dir, dir["tmp"])
      BY <1>0 DEF TmpApart
    <2> QED BY <1>1, <1>5, <2>1, OneDirectory
  <1>7. DiskType'
    BY <1>0, <1>1, <1>2, <1>3, <1>4 DEF DiskType
  <1>8. live.version >= snap["saver"].version
    BY <1>0, <1>1 DEF SaveInStep
  <1>9. SaveInStep'
    BY <1>0, <1>1, <1>3, <1>8 DEF SaveInStep
  <1> QED BY <1>6, <1>7, <1>9 DEF DiskInv

LEMMA CrashKeeps == ASSUME OneSaver, DiskInv, Crash PROVE DiskInv'
  <1>0. DiskType /\ AllRecoverable /\ TmpApart /\ survivors \subseteq Directory /\ saved \in Nat
    BY DEF DiskInv, DiskType
  <1>1. mode' = "crashed" /\ Forget /\ live' = Fresh /\ saved' = saved
    BY DEF Crash
  <1>2. PICK d \in survivors : dir' = d /\ survivors' = {d} /\ FreeFiles(d, {})
    BY DEF Crash
  <1>3. /\ content' \in [Inode -> State \cup Torn]
        /\ \A n \in Name : d[n] # Absent => content'[d[n]] = content[d[n]]
    BY <1>0, <1>2, FreeKeeps
  <1>4. Recoverable(d, content', saved')
    <2>1. Recoverable(d, content, saved) /\ saved' <= saved /\ saved' \in Nat /\ d \in Directory
      BY <1>0, <1>1 DEF AllRecoverable
    <2>2. \A n \in Kept : d[n] # Absent => content'[d[n]] = content[d[n]]
      BY <1>3 DEF Kept, Name
    <2> QED BY <1>0, <2>1, <2>2, RecoverableKept
  <1>5. AllRecoverable' /\ TmpApart'
    <2>1. Apart(d, d["tmp"])
      BY <1>0 DEF TmpApart
    <2> QED BY <1>2, <1>4, <2>1, OneDirectory
  <1>6. DiskType'
    BY <1>0, <1>1, <1>2, <1>3, ConstantsApart DEF DiskType, Forget, Label
  <1>7. SaveInStep'
    BY <1>1 DEF SaveInStep, Forget, OneSaver
  <1> QED BY <1>5, <1>6, <1>7 DEF DiskInv

LEMMA RestartKeeps == ASSUME OneSaver, DiskInv, Restart PROVE DiskInv'
  <1>0. DiskType /\ AllRecoverable /\ TmpApart /\ dir \in survivors /\ dir \in Directory /\ saved \in Nat
    BY DEF DiskInv, DiskType
  <1>1. /\ mode' = "up" /\ Forget /\ live' = StartState(dir) /\ saved' = StartState(dir).version
        /\ survivors' = {dir} /\ dir' = dir /\ FreeFiles(dir, {})
    BY DEF Restart
  <1>2. /\ content' \in [Inode -> State \cup Torn]
        /\ \A n \in Name : dir[n] # Absent => content'[dir[n]] = content[dir[n]]
    BY <1>0, <1>1, FreeKeeps
  <1>3. Recoverable(dir, content, saved)
    BY <1>0 DEF AllRecoverable
  <1>4. /\ StartState(dir) \in State /\ saved' \in Nat
        /\ Recoverable(dir, content', saved')
    <2>1. CASE dir["path"] # Absent
      <3>1. Complete(content, dir["path"], saved) /\ content'[dir["path"]] = content[dir["path"]]
        BY <1>2, <1>3, <2>1 DEF Recoverable, Name
      <3>2. StartState(dir) = content[dir["path"]]
        BY <2>1, <3>1, ConstantsApart DEF StartState, LoadFrom, Loadable, Complete, Torn
      <3>3. saved' \in Nat /\ content[dir["path"]] \in State /\ saved' = content[dir["path"]].version
        BY <1>1, <3>1, <3>2 DEF Complete, State
      <3> QED BY <2>1, <3>1, <3>2, <3>3 DEF Recoverable, Complete
    <2>2. CASE dir["path"] = Absent
      <3>1. StartState(dir) = Fresh /\ saved' = 0
        BY <1>1, <2>2, ConstantsApart DEF StartState
      <3>2. 0 <= saved /\ 0 \in Nat /\ \A n \in Kept : dir[n] # Absent => content'[dir[n]] = content[dir[n]]
        BY <1>0, <1>2 DEF Kept, Name
      <3>3. Recoverable(dir, content', 0)
        BY <1>0, <1>3, <3>2, RecoverableKept
      <3> QED BY <3>1, <3>3, ConstantsApart
    <2> QED BY <2>1, <2>2
  <1>5. AllRecoverable' /\ TmpApart'
    <2>1. Apart(dir, dir["tmp"])
      BY <1>0 DEF TmpApart
    <2> QED BY <1>1, <1>4, <2>1, OneDirectory
  <1>6. DiskType'
    BY <1>0, <1>1, <1>2, <1>4, ConstantsApart DEF DiskType, Forget, Label
  <1>7. SaveInStep'
    BY <1>1, <1>4 DEF SaveInStep, Forget, OneSaver
  <1> QED BY <1>5, <1>6, <1>7 DEF DiskInv

LEMMA DiskInvKept == ASSUME OneSaver PROVE DiskInv /\ [SavesNext]_savesVars => DiskInv'
  <1> SUFFICES ASSUME DiskInv, [SavesNext]_savesVars PROVE DiskInv'
    OBVIOUS
  <1>1. CASE UNCHANGED savesVars
    <2>1. DiskType' /\ SaveInStep'
      BY <1>1 DEF savesVars, DiskInv, DiskType, SaveInStep
    <2> QED BY <1>1, <2>1, FilesUntouched DEF savesVars, DiskInv
  <1>2. CASE Grow \/ Crash \/ Restart
    BY <1>2, GrowKeeps, CrashKeeps, RestartKeeps
  <1>3. CASE Snapshot("saver") \/ Step("saver")
    BY <1>3, SnapshotKeeps, CreateKeeps, GivesUpKeeps, WriteKeeps, WriteFailsKeeps, RollKeeps, RollBackupKeeps,
       RollPreviousKeeps, CommitKeeps, SyncKeeps DEF Step
  <1> QED BY <1>1, <1>2, <1>3 DEF SavesNext, OneSaver

(***************************************************************************)
(* With any number of files, blocks, failed calls, crashes and restarts:   *)
(* whatever directory a crash or a power loss leaves in the middle of a    *)
(* save, `load_from` finds a state at least as new as the last save that   *)
(* returned Ok, as long as the saver is the only thread that saves         *)
(* (`save_to`, `load_from`).  With the shutdown handler beside it, which   *)
(* uses the same temporary file, this is not so.                           *)
(***************************************************************************)
THEOREM SavesRecover == ASSUME Thread = {"saver"} PROVE SavesSpec => []LoadFromRecovers
  <1>0. OneSaver
    BY DEF OneSaver
  <1>1. SavesInit => DiskInv
    BY <1>0, DiskInit
  <1>2. DiskInv /\ [SavesNext]_savesVars => DiskInv'
    BY <1>0, DiskInvKept
  <1>3. DiskInv => LoadFromRecovers
    BY RecoverableLoads DEF DiskInv, DiskType, AllRecoverable, LoadFromRecovers
  <1> QED BY <1>1, <1>2, <1>3, PTL DEF SavesSpec

=============================================================================
