---------------------------- MODULE Persistence ----------------------------
(***************************************************************************)
(* How a node keeps its chain state on disk: the periodic saver and the    *)
(* shutdown handler of `main`, both through `save_to` and its rolling      *)
(* backups, a crash or a power loss at any point, and the restart.         *)
(*                                                                         *)
(* A chain state is a version (it grows with every block added) and the    *)
(* height of its tip.  A directory maps file names to inodes, because the  *)
(* two threads may hold the same temporary file open while it is renamed.  *)
(*                                                                         *)
(* D_Xxx is D with the mistake Xxx, to see that a property notices it.     *)
(***************************************************************************)
EXTENDS Integers, FiniteSets

CONSTANTS
    Thread,      \* the threads that save: "saver", and "shutdown" if signals come
    Inode,       \* numbers of files
    MaxFaults,   \* bound: calls that fail
    MaxVersion,  \* bound: blocks added in one lineage of the chain
    Absent,      \* no file, no height
    Empty,       \* the contents of a file just truncated
    Garbage      \* the contents of a file with no valid integrity tag

ASSUME PersistenceConstants ==
    /\ Thread \subseteq {"saver", "shutdown"}
    /\ Inode \subseteq Nat
    /\ MaxFaults \in Nat
    /\ MaxVersion \in Nat
    /\ Absent \notin Inode
    /\ {Absent, Empty, Garbage} \cap [version : Nat, height : Nat] = {}

Name == {"path", "bak", "bak1", "tmp"}

VARIABLES
    live,        \* the chain state in memory
    mode,        \* "up", "crashed" or "stopped" (by the shutdown handler)
    pc,          \* what each thread does next
    snap,        \* the snapshot each thread is saving
    file,        \* the inode each thread has open
    last_saved,  \* the saver's dirty check: height of its last good save
    dir,         \* the directory as the process sees it
    survivors,   \* the directories that a power loss may leave
    content,     \* what each inode holds
    saved,       \* version of the newest save that returned Ok, or was loaded
    faults       \* calls that failed so far

savesVars == <<live, mode, pc, snap, file, last_saved, dir, survivors, content,
          saved, faults>>

Fresh == [version |-> 0, height |-> 0]

(***************************************************************************)
(* A file that is being written, or that two threads wrote over each       *)
(* other, has no valid integrity tag.                                      *)
(***************************************************************************)
Torn == {Empty, Garbage}

SavesInit ==
    /\ live = Fresh
    /\ mode = "up"
    /\ pc = [t \in Thread |-> "idle"]
    /\ snap = [t \in Thread |-> Fresh]
    /\ file = [t \in Thread |-> Absent]
    /\ last_saved = Absent
    /\ dir = [n \in Name |-> Absent]
    /\ survivors = {dir}
    /\ content = [i \in Inode |-> Empty]
    /\ saved = 0
    /\ faults = 0

-----------------------------------------------------------------------------
(***************************************************************************)
(* A block is added.  The height is the length of the selected chain: a    *)
(* side block does not move it, and a reorganisation may lower it.         *)
(***************************************************************************)
Grow ==
    /\ mode = "up"
    /\ live.version < MaxVersion
    /\ \E h \in 0 .. live.height + 1 :
          live' = [version |-> live.version + 1, height |-> h]
    /\ UNCHANGED <<mode, pc, snap, file, last_saved, dir, survivors, content,
                   saved, faults>>

Fails == faults < MaxFaults /\ faults' = faults + 1

At(t, label) == mode = "up" /\ pc[t] = label

Goto(t, label) == pc' = [pc EXCEPT ![t] = label]

(***************************************************************************)
(* The clone under the read lock.  The saver does it only if the height is *)
(* not the one it saved last; nothing counts as saved after a start.       *)
(***************************************************************************)
Dirty_FirstNotForced(h) == last_saved # Absent /\ h # last_saved
Dirty(h) == h # last_saved

Snapshot(t) ==
    /\ At(t, "idle")
    /\ t = "saver" => Dirty(live.height)
    /\ snap' = [snap EXCEPT ![t] = live]
    /\ Goto(t, "create")
    /\ UNCHANGED <<live, mode, file, last_saved, dir, survivors, content,
                   saved, faults>>

SetDir(d) == dir' = d /\ survivors' = survivors \cup {d}

Rename(d, from, to) == [d EXCEPT ![to] = d[from], ![from] = Absent]

(***************************************************************************)
(* Create: an existing temporary file is truncated, and may be one that    *)
(* the other thread has open.                                              *)
(***************************************************************************)
Held == {d[n] : d \in survivors, n \in Name} \cup {file[t] : t \in Thread}

(***************************************************************************)
(* A file is freed with its last name, unless a thread has it open.        *)
(***************************************************************************)
FreeFiles(d, open) ==
    content' = [i \in Inode |->
                  IF i \in open \cup {d[n] : n \in Name} THEN content[i] ELSE Empty]

Create(t) ==
    /\ At(t, "create")
    /\ \E i \in Inode :
          /\ IF dir["tmp"] # Absent THEN i = dir["tmp"]
             ELSE i \notin Held /\ \A j \in Inode \ Held : i <= j
          /\ file' = [file EXCEPT ![t] = i]
          /\ content' = [content EXCEPT ![i] = Empty]
          /\ SetDir([dir EXCEPT !["tmp"] = i])
    /\ Goto(t, "write")
    /\ UNCHANGED <<live, mode, snap, last_saved, saved, faults>>

(***************************************************************************)
(* The save returns: the saver goes back to its loop, the handler exits.   *)
(***************************************************************************)
Return(t, ok) ==
    /\ Goto(t, "idle")
    /\ file' = [file EXCEPT ![t] = Absent]
    /\ mode' = IF t = "shutdown" THEN "stopped" ELSE "up"
    /\ saved' = IF ok THEN snap[t].version ELSE saved
    /\ last_saved' = IF ok /\ t = "saver" THEN snap[t].height ELSE last_saved
    /\ snap' = IF t = "saver" THEN [snap EXCEPT ![t] = Fresh] ELSE snap

(***************************************************************************)
(* The state does not serialize, is too big, or the file cannot be made.   *)
(***************************************************************************)
CreateFails(t) ==
    /\ Fails
    /\ At(t, "create")
    /\ Return(t, FALSE)
    /\ UNCHANGED <<live, dir, survivors, content>>

(***************************************************************************)
(* Write and fsync.  If the other thread has written to the file since it  *)
(* was truncated, its longer tail may be left behind.                      *)
(***************************************************************************)
Write(t) ==
    /\ At(t, "write")
    /\ \E c \in IF content[file[t]] = Empty THEN {snap[t]} ELSE {snap[t], Garbage} :
          content' = [content EXCEPT ![file[t]] = c]
    /\ Goto(t, "roll")
    /\ UNCHANGED <<live, mode, snap, file, last_saved, dir, survivors, saved, faults>>

WriteFails(t) ==
    /\ Fails
    /\ At(t, "write")
    /\ content' = [content EXCEPT ![file[t]] = Garbage]
    /\ Return(t, FALSE)
    /\ UNCHANGED <<live, dir, survivors>>

(***************************************************************************)
(* The rolling of the backups.  The results of both renames are ignored.   *)
(***************************************************************************)
Roll(t) ==
    /\ At(t, "roll")
    /\ Goto(t, IF dir["path"] # Absent THEN "backup" ELSE "commit")
    /\ UNCHANGED <<live, mode, snap, file, last_saved, dir, survivors, content,
                   saved, faults>>

TryRename(from, to) ==
    \/ dir[from] # Absent /\ SetDir(Rename(dir, from, to)) /\ UNCHANGED faults
    \/ dir[from] = Absent /\ UNCHANGED <<dir, survivors, faults>>
    \/ dir[from] # Absent /\ Fails /\ UNCHANGED <<dir, survivors>>

RollBackup(t) ==
    /\ At(t, "backup")
    /\ TryRename("bak", "bak1")
    /\ Goto(t, "previous")
    /\ UNCHANGED <<live, mode, snap, file, last_saved, content, saved>>

RollPrevious(t) ==
    /\ At(t, "previous")
    /\ TryRename("path", "bak")
    /\ Goto(t, "commit")
    /\ UNCHANGED <<live, mode, snap, file, last_saved, content, saved>>

Commit(t) ==
    /\ At(t, "commit")
    /\ dir["tmp"] # Absent
    /\ SetDir(Rename(dir, "tmp", "path"))
    /\ Goto(t, "sync")
    /\ UNCHANGED <<live, mode, snap, file, last_saved, content, saved, faults>>

CommitFails(t) ==
    /\ At(t, "commit")
    /\ IF dir["tmp"] = Absent THEN UNCHANGED faults ELSE Fails
    /\ Return(t, FALSE)
    /\ UNCHANGED <<live, dir, survivors, content>>

(***************************************************************************)
(* The sync of the directory is taken to work: its result is ignored.      *)
(***************************************************************************)
SyncDir(t) ==
    /\ At(t, "sync")
    /\ survivors' = {dir}
    /\ FreeFiles(dir, {file[u] : u \in Thread \ {t}})
    /\ Return(t, TRUE)
    /\ UNCHANGED <<live, dir, faults>>

-----------------------------------------------------------------------------
(***************************************************************************)
(* A kill leaves the directory as it is; a power loss may undo the renames *)
(* made since the directory was last synced, the newest first.  What the   *)
(* threads held in memory is lost.                                         *)
(***************************************************************************)
Forget ==
    /\ pc' = [t \in Thread |-> "idle"]
    /\ snap' = [t \in Thread |-> Fresh]
    /\ file' = [t \in Thread |-> Absent]
    /\ last_saved' = Absent

Crash ==
    /\ mode = "up"
    /\ mode' = "crashed"
    /\ \E d \in survivors : dir' = d /\ survivors' = {d} /\ FreeFiles(d, {})
    /\ Forget
    /\ live' = Fresh
    /\ UNCHANGED <<saved, faults>>

(***************************************************************************)
(* `load_from`: the first of the three files that is complete.             *)
(***************************************************************************)
Loadable(d, n) == d[n] # Absent /\ content[d[n]] \notin Torn

LoadFrom_NoBackup(d) == IF Loadable(d, "path") THEN content[d["path"]] ELSE Absent

LoadFrom(d) ==
    IF Loadable(d, "path") THEN content[d["path"]]
    ELSE IF Loadable(d, "bak") THEN content[d["bak"]]
    ELSE IF Loadable(d, "bak1") THEN content[d["bak1"]]
    ELSE Absent

(***************************************************************************)
(* The start of `main`: it loads if the primary file exists, and starts    *)
(* from genesis if not.  If nothing can be loaded it exits, and an         *)
(* operator has to act.                                                    *)
(***************************************************************************)
StartState(d) == IF d["path"] # Absent THEN LoadFrom(d) ELSE Fresh

Restart ==
    /\ mode # "up"
    /\ StartState(dir) # Absent
    /\ mode' = "up"
    /\ live' = StartState(dir)
    /\ saved' = StartState(dir).version
    /\ Forget
    /\ survivors' = {dir}
    /\ FreeFiles(dir, {})
    /\ UNCHANGED <<dir, faults>>

Step(t) ==
    \/ Create(t) \/ CreateFails(t) \/ Write(t) \/ WriteFails(t) \/ Roll(t)
    \/ RollBackup(t) \/ RollPrevious(t) \/ Commit(t) \/ CommitFails(t) \/ SyncDir(t)

SavesNext ==
    \/ Grow
    \/ \E t \in Thread : Snapshot(t) \/ Step(t)
    \/ Crash
    \/ Restart

(***************************************************************************)
(* Both threads run on once they have begun, and the saver's loop polls    *)
(* for ever; nothing obliges blocks, signals, crashes or restarts to come. *)
(***************************************************************************)
Fairness ==
    /\ WF_savesVars(Snapshot("saver"))
    /\ \A t \in Thread : WF_savesVars(Step(t))

SavesSpec == SavesInit /\ [][SavesNext]_savesVars /\ Fairness

-----------------------------------------------------------------------------
VersionOf(s) == IF s = Absent THEN 0 ELSE s.version

(***************************************************************************)
(* Whatever a crash leaves, at whatever step of a save and with whichever  *)
(* renames undone or failed, `load_from` finds a state at least as new as  *)
(* the last save that returned Ok (`save_to`, `load_from`).                *)
(***************************************************************************)
LoadFromRecovers == \A d \in survivors : VersionOf(LoadFrom(d)) >= saved

(***************************************************************************)
(* A node that starts again has all but the save that was interrupted:     *)
(* `save_to` says "Worst case (a crash exactly mid-save) loses only the    *)
(* single most-recent save - never the whole chain".                       *)
(***************************************************************************)
RestartKeepsChain == mode # "up" => VersionOf(StartState(dir)) >= saved

(***************************************************************************)
(* The shutdown handler flushes "the latest chain state durably before     *)
(* exiting - so a clean stop never loses recent blocks": what the node     *)
(* starts from next is at least the handler's snapshot.                    *)
(***************************************************************************)
CleanStopKeepsChain ==
    mode = "stopped" => VersionOf(StartState(dir)) >= snap["shutdown"].version

(***************************************************************************)
(* A height at which the chain stays is on disk in the end, unless the     *)
(* process ends first: the dirty check, with its sentinel for "nothing     *)
(* saved yet", never makes the saver sleep while the height on disk is     *)
(* another one, also after a restart or a reorganisation (`main`, the      *)
(* saver thread).                                                          *)
(***************************************************************************)
HeightGetsSaved ==
    \A h \in 0..MaxVersion :
        []<>(mode # "up" \/ live.height # h \/ last_saved = h)
=============================================================================
