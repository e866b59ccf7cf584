---------------------------- MODULE AwgProfiles ----------------------------
(***************************************************************************)
(* The profile store of the privileged helper (helper_profiles.c) on the    *)
(* directories of helper_storage.c, for one profile: the configuration file *)
(* and the staging file of the operation under way.  One helper runs at a   *)
(* time (the storage lock); an administrator edits the configuration file   *)
(* without that lock at any moment, a system call may fail, the helper may  *)
(* be killed and the machine may crash.                                     *)
(*                                                                          *)
(* A crash finds, in each directory, one of the entries the directory had   *)
(* since it was last synchronised, and a file that was never synchronised   *)
(* is torn.  Staging files of earlier operations have names of their own    *)
(* and are left out; so are the text of a configuration and its wiping.     *)
(***************************************************************************)
EXTENDS Integers, Sequences

CONSTANTS MaxOps,       \* operations of helpers
          MaxEdits,     \* edits of the administrator
          MaxFaults,    \* system calls that fail
          MaxCrashes    \* kills of the helper and crashes of the machine

ASSUME BoundsAssumption ==
  {MaxOps, MaxEdits, MaxFaults, MaxCrashes} \subseteq Nat

VARIABLES files,  \* the files ever made; a file's number is its inode
          conf,   \* the file the configuration directory names, or 0
          temp,   \* the file the operation's staging name names, or 0
          disk,   \* the entries a crash may find in the two directories
          op,     \* the operation of the helper
          edit,   \* what the administrator did during the operation
          was,    \* conf, and disk.conf, when the operation began
          used    \* how much of each bound is used

vars == <<files, conf, temp, disk, op, edit, was, used>>

\* What a file holds: a configuration awg-quick accepts, one it refuses, text
\* that is no configuration, part of a text, or anything in a file whose owner
\* or mode the helper does not accept.
Kinds == {"good", "odd", "bad", "open"}
Statuses == {"none", "success", "stopped", "invalid_config", "unavailable",
             "not_found", "active", "interface_conflict", "replace_required",
             "filesystem_failed", "rollback_failed"}
Reports == {"none", "available", "changed", "invalid", "incompatible",
            "file_security"}
Operations == {"import", "replace", "delete", "list", "prepare"}

\* Owner, links and mode are the ones the helper requires.
Secure(i) == files[i].kind # "open"

File(kind, stamp) == [kind |-> kind, mtime |-> stamp, ctime |-> stamp,
                      synced |-> TRUE]
\* The metadata of a file that outlives a change of its name, and all of it.
Identity(i) == [ino |-> i, mtime |-> files[i].mtime, open |-> ~Secure(i)]
Metadata(i) == [id |-> Identity(i), ctime |-> files[i].ctime]

NoFile == [id |-> [ino |-> 0, mtime |-> 0, open |-> FALSE], ctime |-> 0]
Idle == [kind |-> "list", pc |-> "idle", text |-> "good", original |-> NoFile,
         ino |-> 0, late |-> FALSE, ret |-> "none", report |-> "none",
         result |-> "none"]
Unedited == [any |-> FALSE, last |-> NoFile.id, gone |-> FALSE, post |-> FALSE]

Init ==
  /\ \/ files = <<>> /\ conf = 0
     \/ files = <<File("good", 0)>> /\ conf = 1
  /\ temp = 0
  /\ disk = [conf |-> {conf}, temp |-> {0}]
  /\ op = Idle
  /\ edit = Unedited
  /\ was = [conf |-> conf, disk |-> {conf}]
  /\ used = [ops |-> 0, edits |-> 0, faults |-> 0, crashes |-> 0]

----------------------------------------------------------------------------
(* The steps of a helper                                                    *)

At(pc) == op.pc = pc
\* A helper holds the storage lock; a lock goes with its process.
Locked == op.pc \notin {"idle", "done"}
Goto(pc) == op' = [op EXCEPT !.pc = pc]
Return(r) == op' = [op EXCEPT !.pc = "done", !.result = r]
\* Remove the staging file, then return r.
Remove(r) == op' = [op EXCEPT !.pc = "remove", !.ret = r]

\* A change of directory entries, which a crash may or may not find.
Entries(c, t) ==
  /\ conf' = c /\ temp' = t
  /\ disk' = [conf |-> disk.conf \cup {c}, temp |-> disk.temp \cup {t}]
SyncConf == disk' = [disk EXCEPT !.conf = {conf}]
SyncStaging == disk' = [disk EXCEPT !.temp = {temp}]

Quiet == UNCHANGED <<files, conf, temp, disk>>
Fine == UNCHANGED used
Fault == /\ used.faults < MaxFaults
         /\ used' = [used EXCEPT !.faults = @ + 1]
         /\ Quiet
Ghosts == UNCHANGED <<edit, was>>

\* What the state of the tunnel lets an operation do (AwgTunnel).
RuntimeStates == {"success", "active", "interface_conflict"}
TargetStatus ==
  IF conf = 0 THEN {"not_found"}
  ELSE IF ~Secure(conf) THEN {"filesystem_failed"}
  ELSE RuntimeStates

\* Reading the stored configuration: metadata is compared before and after,
\* so what is read is one version of the file.
ReadStatus ==
  IF conf = 0 THEN "not_found"
  ELSE IF ~Secure(conf) THEN "filesystem_failed"
  ELSE IF files[conf].kind \in {"bad", "torn"} THEN "invalid_config"
  ELSE "success"

\* An operation begins; import and replace have read and validated the input.
Begin(kind, text) ==
  /\ ~Locked /\ used.ops < MaxOps
  /\ used' = [used EXCEPT !.ops = @ + 1]
  /\ temp' = 0 /\ disk' = [disk EXCEPT !.temp = {0}]
  /\ edit' = Unedited
  /\ was' = [conf |-> conf, disk |-> disk.conf]
  /\ op' = [Idle EXCEPT !.kind = kind, !.text = text,
              !.pc = CASE kind \in {"list", "prepare"} -> "read"
                       [] kind \in {"import", "replace"} /\ text = "bad" -> "done"
                       [] OTHER -> "check",
              !.result = IF kind \in {"import", "replace"} /\ text = "bad"
                         THEN "invalid_config" ELSE "none"]
  /\ UNCHANGED <<files, conf>>

\* The deadline passes or a stop is asked for: seen by the next check.
Late == /\ Locked /\ ~op.late
        /\ op' = [op EXCEPT !.late = TRUE]
        /\ Quiet /\ Fine

CheckTarget ==
  /\ At("check") /\ op.kind \in {"import", "replace"} /\ Quiet /\ Fine
  /\ \E s \in TargetStatus :
       CASE op.kind = "import" /\ s = "not_found" -> Goto("create")
         [] op.kind = "import" /\ s = "success" -> Return("replace_required")
         [] op.kind = "replace" /\ s = "success" -> Goto("identity")
         [] OTHER -> Return(s)

GetIdentity ==
  /\ At("identity") /\ Quiet /\ Fine
  /\ \/ /\ conf # 0 /\ Secure(conf)
        /\ op' = [op EXCEPT !.pc = "create", !.original = Metadata(conf)]
     \/ /\ conf # 0 => ~Secure(conf)
        /\ Return("filesystem_failed")

DeleteCheck ==
  /\ At("check") /\ op.kind = "delete" /\ Quiet /\ Fine
  /\ \E s \in RuntimeStates :
       CASE conf # 0 /\ ~Secure(conf) -> Return("filesystem_failed")
         [] s # "success" -> Return(s)
         [] op.late -> Return("stopped")
         [] conf = 0 -> Goto("end")
         [] OTHER -> Goto("erase")

\* The stored configuration is read with its metadata.
ListRead ==
  /\ At("read") /\ op.kind = "list" /\ Quiet /\ Fine
  /\ LET Report(r) == op' = [op EXCEPT !.pc = "end", !.report = r]
     IN CASE op.late -> Return("stopped")
          [] conf = 0 -> Goto("end")
          [] ReadStatus = "filesystem_failed" -> Report("file_security")
          [] ReadStatus = "invalid_config" -> Report("invalid")
          [] OTHER -> op' = [op EXCEPT !.pc = "create", !.text = files[conf].kind,
                                       !.original = Metadata(conf)]

PrepareRead ==
  /\ At("read") /\ op.kind = "prepare" /\ Quiet /\ Fine
  /\ IF ReadStatus # "success" THEN Return(ReadStatus)
     ELSE op' = [op EXCEPT !.pc = "create", !.text = files[conf].kind]

\* The candidate: made empty, written and synchronised, then given to
\* awg-quick strip.
Create ==
  /\ At("create") /\ Fine
  /\ files' = Append(files, [File("torn", 0) EXCEPT !.synced = FALSE])
  /\ op' = [op EXCEPT !.pc = "write", !.ino = Len(files) + 1]
  /\ Entries(conf, Len(files) + 1)

\* Mutant: the candidate is not synchronised.
Write_NoSync ==
  /\ At("write") /\ Fine
  /\ files' = [files EXCEPT ![op.ino].kind = op.text]
  /\ Goto("strip")
  /\ UNCHANGED <<conf, temp, disk>>

Write ==
  /\ At("write") /\ Fine
  /\ files' = [files EXCEPT ![op.ino].kind = op.text, ![op.ino].synced = TRUE]
  /\ Goto("strip")
  /\ UNCHANGED <<conf, temp, disk>>

Strip ==
  /\ At("strip") /\ Quiet /\ Fine
  /\ \/ op.late /\ Remove("stopped")
     \/ ~op.late /\ Remove("unavailable")
     \/ ~op.late /\ op.text = "odd" /\ Remove("invalid_config")
     \/ /\ ~op.late /\ op.text = "good"
        /\ CASE op.kind = "import" -> Goto("stop")
             [] op.kind = "replace" -> Goto("recheck")
             [] OTHER -> Remove("success")

Recheck ==
  /\ At("recheck") /\ Quiet /\ Fine
  /\ \E s \in TargetStatus : IF s = "success" THEN Goto("stop") ELSE Remove(s)

\* Mutant: a stop leaves the candidate where it is.
StopCheck_Leave ==
  /\ At("stop") /\ Quiet /\ Fine
  /\ IF op.late THEN Return("stopped") ELSE Goto("move")

StopCheck ==
  /\ At("stop") /\ Quiet /\ Fine
  /\ IF op.late THEN Remove("stopped") ELSE Goto("move")

\* renameat2 with RENAME_NOREPLACE, for import.
Rename ==
  /\ At("move") /\ op.kind = "import" /\ Fine /\ UNCHANGED files
  /\ \/ conf = 0 /\ Entries(temp, 0) /\ Goto("sync_conf")
     \/ conf # 0 /\ Goto("exists") /\ UNCHANGED <<conf, temp, disk>>

Exists ==
  /\ At("exists") /\ Quiet /\ Fine
  /\ \E s \in TargetStatus :
       Remove(CASE s = "success" -> "replace_required"
                [] s = "not_found" -> "filesystem_failed"
                [] OTHER -> s)

\* renameat2 with RENAME_EXCHANGE, for replace.
Exchange ==
  /\ At("move") /\ op.kind = "replace" /\ Fine /\ UNCHANGED files
  /\ \/ conf # 0 /\ Entries(temp, conf) /\ Goto("verify")
     \/ /\ conf = 0 /\ Remove("filesystem_failed")
        /\ UNCHANGED <<conf, temp, disk>>

\* Mutant: what was displaced is not looked at.
Verify_Trusting ==
  /\ At("verify") /\ Quiet /\ Fine
  /\ Goto("sync_conf")

\* What was displaced must be what was checked.
Verify ==
  /\ At("verify") /\ Quiet /\ Fine
  /\ Goto(IF Identity(temp) = op.original.id THEN "sync_conf" ELSE "rollback")

CommitConf == /\ At("sync_conf") /\ SyncConf /\ Goto("sync_staging")
              /\ Fine /\ UNCHANGED <<files, conf, temp>>

CommitStaging ==
  /\ At("sync_staging") /\ SyncStaging
  /\ Goto(IF op.kind = "import" THEN "end" ELSE "unlink")
  /\ Fine /\ UNCHANGED <<files, conf, temp>>

UnlinkOld == /\ At("unlink") /\ Entries(conf, 0) /\ Goto("sync_unlinked")
             /\ Fine /\ UNCHANGED files

\* Mutant: a failure here rolls back although the old file has no name left.
SyncUnlinked_Undo == /\ At("sync_unlinked") /\ Fault /\ Goto("rollback")

SyncUnlinked == /\ At("sync_unlinked") /\ SyncStaging /\ Goto("end")
                /\ Fine /\ UNCHANGED <<files, conf, temp>>

End == /\ At("end") /\ Quiet /\ Fine
       /\ Return(IF op.late THEN "stopped" ELSE "success")

\* Mutant: the entries are not exchanged back.
Rollback_Done ==
  /\ At("rollback") /\ Fine /\ Quiet
  /\ Remove("filesystem_failed")

\* rollback_replacement: exchange back, synchronise both, remove.
Rollback ==
  /\ At("rollback") /\ Fine /\ UNCHANGED files
  /\ \/ conf # 0 /\ Entries(temp, conf) /\ Goto("undo_conf")
     \/ /\ conf = 0 /\ Return("rollback_failed")
        /\ UNCHANGED <<conf, temp, disk>>

UndoConf == /\ At("undo_conf") /\ SyncConf /\ Goto("undo_staging")
            /\ Fine /\ UNCHANGED <<files, conf, temp>>

UndoStaging == /\ At("undo_staging") /\ SyncStaging
               /\ Remove("filesystem_failed")
               /\ Fine /\ UNCHANGED <<files, conf, temp>>

\* The staging file is gone, or could not be removed: the operation returns.
Removed(r) ==
  CASE op.kind = "list" /\ r \in {"success", "unavailable"} -> Goto("compare")
    [] op.kind = "list" /\ r = "invalid_config" ->
         op' = [op EXCEPT !.pc = "end", !.report = "incompatible"]
    [] OTHER -> Return(r)

RemoveTemp == /\ At("remove") /\ Entries(conf, 0) /\ Goto("remove_sync")
              /\ Fine /\ UNCHANGED files

RemoveSync == /\ At("remove_sync") /\ SyncStaging /\ Removed(op.ret)
              /\ Fine /\ UNCHANGED <<files, conf, temp>>

\* Mutant: the change time is not compared.
Compare_Mtime ==
  /\ At("compare") /\ Quiet /\ Fine
  /\ op' = [op EXCEPT !.pc = "end",
              !.report = IF conf # 0 /\ Identity(conf) = op.original.id
                         THEN "available" ELSE "changed"]

\* A list ends an inspection with the metadata it began with.
Compare ==
  /\ At("compare") /\ Quiet /\ Fine
  /\ op' = [op EXCEPT !.pc = "end",
              !.report = IF conf # 0 /\ Metadata(conf) = op.original
                         THEN "available" ELSE "changed"]

\* The configuration is removed: by delete, and by an import that could not
\* be made durable.
Erase == /\ At("erase") /\ Entries(0, temp) /\ Goto("erase_sync")
         /\ Fine /\ UNCHANGED files

EraseSync == /\ At("erase_sync") /\ SyncConf
             /\ IF op.kind = "delete" THEN Goto("end")
                ELSE Return("filesystem_failed")
             /\ Fine /\ UNCHANGED <<files, conf, temp>>

\* A system call fails: where the operation goes on.
CallFails ==
  /\ Fault
  /\ CASE op.pc \in {"check", "identity", "create"} -> Return("filesystem_failed")
       [] At("read") -> IF op.kind = "list"
                        THEN op' = [op EXCEPT !.pc = "end", !.report = "changed"]
                        ELSE Return("filesystem_failed")
       [] op.pc \in {"write", "recheck", "move", "exists"} ->
            Remove("filesystem_failed")
       [] op.pc \in {"sync_conf", "sync_staging"} ->
            Goto(IF op.kind = "import" THEN "erase" ELSE "rollback")
       [] op.pc \in {"verify", "unlink"} -> Goto("rollback")
       [] op.pc \in {"sync_unlinked", "rollback", "undo_conf", "undo_staging"} ->
            Return("rollback_failed")
       [] op.pc \in {"remove", "remove_sync"} -> Removed("filesystem_failed")
       [] At("compare") -> op' = [op EXCEPT !.pc = "end", !.report = "changed"]
       [] op.pc \in {"erase", "erase_sync"} ->
            Return(IF op.kind = "delete" THEN "filesystem_failed"
                   ELSE "rollback_failed")
       [] OTHER -> FALSE

Helper ==
  /\ Ghosts
  /\ \/ Late \/ CheckTarget \/ GetIdentity \/ DeleteCheck \/ ListRead
     \/ PrepareRead \/ Create \/ Write \/ Strip \/ Recheck \/ StopCheck
     \/ Rename \/ Exists \/ Exchange \/ Verify \/ CommitConf \/ CommitStaging
     \/ UnlinkOld \/ SyncUnlinked \/ End \/ Rollback \/ UndoConf \/ UndoStaging
     \/ RemoveTemp \/ RemoveSync \/ Compare \/ Erase \/ EraseSync \/ CallFails

----------------------------------------------------------------------------
(* The surroundings                                                         *)

\* The helper is killed: its staging file stays.
Killed ==
  /\ Locked /\ used.crashes < MaxCrashes
  /\ used' = [used EXCEPT !.crashes = @ + 1]
  /\ op' = Idle
  /\ UNCHANGED <<files, conf, temp, disk, edit, was>>

Crash ==
  /\ used.crashes < MaxCrashes
  /\ used' = [used EXCEPT !.crashes = @ + 1]
  /\ \E c \in disk.conf : conf' = c /\ disk' = [conf |-> {c}, temp |-> {0}]
  /\ temp' = 0
  /\ files' = [i \in DOMAIN files |->
                 IF files[i].synced THEN files[i]
                 ELSE [files[i] EXCEPT !.kind = "torn"]]
  /\ op' = Idle
  /\ UNCHANGED <<edit, was>>

\* An edit counts while the operation could still undo its own change: after
\* import began, or after replace took the identity, and before the move.
Undecided == /\ op.pc \in {"check", "identity", "create", "write", "strip",
                           "recheck", "stop", "move"}
             /\ op.kind = "import" \/ (op.kind = "replace" /\ op.original # NoFile)

\* The administrator leaves the configuration as file id, or without a file.
Edits(id, gone) ==
  /\ used.edits < MaxEdits
  /\ used' = [used EXCEPT !.edits = @ + 1]
  /\ edit' = [edit EXCEPT !.any = TRUE,
                !.last = IF Undecided THEN id ELSE @,
                !.gone = IF Undecided THEN gone /\ op.kind = "replace" ELSE @,
                !.post = @ \/ ~Undecided]
  /\ UNCHANGED <<temp, op, was>>

Stamp == used.edits + 1

\* A new file takes the name: an editor that renames, or a first file.
AdminReplaces(kind) ==
  /\ Edits([ino |-> Len(files) + 1, mtime |-> Stamp, open |-> kind = "open"], FALSE)
  /\ files' = Append(files, File(kind, Stamp))
  /\ conf' = Len(files) + 1
  /\ disk' = [disk EXCEPT !.conf = @ \cup {conf'}]

\* The file is written in place; a tool may restore its modification time.
AdminWrites(kind, keep) ==
  /\ conf # 0
  /\ LET stamp == IF keep THEN files[conf].mtime ELSE Stamp
     IN /\ Edits(IF keep THEN edit.last
                 ELSE [ino |-> conf, mtime |-> stamp, open |-> FALSE], FALSE)
        /\ files' = [files EXCEPT ![conf] =
                       [File(kind, stamp) EXCEPT !.ctime = Stamp]]
  /\ Secure(conf)
  /\ UNCHANGED <<conf, disk>>

AdminDeletes ==
  /\ conf # 0 /\ Edits(NoFile.id, TRUE)
  /\ conf' = 0 /\ disk' = [disk EXCEPT !.conf = @ \cup {0}]
  /\ UNCHANGED files

Admin == \/ \E k \in Kinds : AdminReplaces(k)
         \/ \E k \in Kinds \ {"open"}, keep \in BOOLEAN : AdminWrites(k, keep)
         \/ AdminDeletes

Next ==
  \/ \E kind \in Operations, text \in {"good", "odd", "bad"} :
       /\ kind \notin {"import", "replace"} => text = "good"
       /\ Begin(kind, text)
  \/ Helper
  \/ Killed
  \/ Crash
  \/ Admin

Spec == Init /\ [][Next]_vars

----------------------------------------------------------------------------
(* Properties                                                               *)

Inodes == 0..Len(files)

\* The state has its type, and an entry a crash may find is a file that is.
TypeOK ==
  /\ \A i \in DOMAIN files : files[i] \in [kind : Kinds \cup {"torn"},
                                mtime : Nat, ctime : Nat, synced : BOOLEAN]
  /\ conf \in Inodes /\ temp \in Inodes
  /\ conf \in disk.conf /\ disk.conf \subseteq Inodes
  /\ temp \in disk.temp /\ disk.temp \subseteq Inodes
  /\ op.result \in Statuses /\ op.ret \in Statuses /\ op.report \in Reports
  /\ (op.pc \in {"write", "strip", "recheck", "stop", "verify", "rollback"}) =>
       temp # 0

\* Whenever the machine crashes, the configuration it finds is whole, and
\* during an operation without edits it is one the directory held before the
\* operation or the new one (helper_storage.c writes and synchronises the
\* candidate before its name is moved).
CrashFindsOldOrNew ==
  /\ \A i \in disk.conf \ {0} : files[i].kind # "torn" /\ files[i].synced
  /\ (op.kind \in {"import", "replace"} /\ ~edit.any /\ op.pc # "idle") =>
       disk.conf \subseteq was.disk \cup {op.ino}

\* An import or a replacement that nobody disturbed ends with the new file
\* stored durably, reporting success or a stop that came too late, or with
\* what was there before, now and after a crash; only rollback_failed says
\* that neither is certain (rollback_replacement and the removal in import).
AllOrNothing ==
  (/\ op.pc = "done" /\ op.kind \in {"import", "replace"} /\ ~edit.any
   /\ op.result # "rollback_failed") =>
    \/ /\ conf = op.ino /\ disk.conf = {op.ino}
       /\ op.result \in {"success", "stopped"}
    \/ /\ conf = was.conf /\ disk.conf \subseteq was.disk
       /\ op.result # "success"

\* An edit the administrator made after the operation had looked at the
\* configuration and before it moved the new one is still there when the
\* operation ends (awg_helper_storage_displaced_matches_identity and
\* RENAME_NOREPLACE are there for this).
EditSurvives ==
  (/\ op.pc = "done" /\ op.kind \in {"import", "replace"} /\ ~edit.post
   /\ op.result # "rollback_failed") =>
    /\ edit.gone => conf = 0
    /\ edit.last.ino # 0 => conf # 0 /\ Identity(conf) = edit.last

\* An operation that does not report a failure of the file system leaves
\* nothing in the staging directory, now or after a crash.
StagingIsClean ==
  (op.pc = "done" /\ op.result \notin {"filesystem_failed", "rollback_failed"}) =>
    temp = 0 /\ disk.temp = {0}

\* A profile is reported available only if the file that is there at the end
\* of the inspection was accepted by it (inspect_profile compares the metadata,
\* the change time included).
AvailableWasValid ==
  [][(op'.report = "available" /\ op.report # "available") =>
       /\ conf # 0
       /\ \/ files[conf].kind = "good"
          \/ files[conf].kind = "odd" /\ op.ret = "unavailable"]_vars

\* Whenever an operation or the machine stops, the profile is the old one or the new one,
\* the report agrees with it, an edit by the administrator is not overwritten unseen, and
\* no staged file is left by a helper that was not killed.
StoreIsConsistent ==
  /\ TypeOK
  /\ CrashFindsOldOrNew
  /\ AllOrNothing
  /\ EditSurvives
  /\ StagingIsClean

----------------------------------------------------------------------------
(* The inductive invariant.  It adds to StoreIsConsistent where each step    *)
(* of an operation has got to.                                               *)

FileRecords == [kind : Kinds \cup {"torn"}, mtime : Nat, ctime : Nat, synced : BOOLEAN]
Identities  == [ino : Nat, mtime : Nat, open : BOOLEAN]
Texts == {"good", "odd", "bad"}
Pcs == {"idle", "check", "identity", "read", "create", "write", "strip", "recheck",
        "stop", "move", "exists", "verify", "sync_conf", "sync_staging", "unlink",
        "sync_unlinked", "end", "rollback", "undo_conf", "undo_staging", "remove",
        "remove_sync", "compare", "erase", "erase_sync", "done"}

OpRecords == [kind : Operations, pc : Pcs, text : Texts, late : BOOLEAN,
              original : [id : Identities, ctime : Nat], ino : Nat,
              ret : Statuses, report : Reports, result : Statuses]

StoreTypes ==
  /\ files \in Seq(FileRecords)
  /\ conf \in Inodes /\ temp \in Inodes
  /\ disk \in [conf : SUBSET Nat, temp : SUBSET Nat]
  /\ conf \in disk.conf /\ disk.conf \subseteq Inodes
  /\ temp \in disk.temp /\ disk.temp \subseteq Inodes
  /\ op \in OpRecords /\ op.ino \in Inodes
  /\ edit \in [any : BOOLEAN, last : Identities, gone : BOOLEAN, post : BOOLEAN]
  /\ was \in [conf : Nat, disk : SUBSET Nat] /\ was.conf \in was.disk
  /\ used \in [ops : Nat, edits : Nat, faults : Nat, crashes : Nat]

Storing == op.kind \in {"import", "replace"}

\* The steps that an operation of each kind has.
Inspecting == {"read", "create", "write", "strip", "remove", "remove_sync"}
StepsOf(kind) ==
  CASE kind = "import" ->
         {"check", "create", "write", "strip", "stop", "move", "exists", "sync_conf",
          "sync_staging", "end", "remove", "remove_sync", "erase", "erase_sync"}
    [] kind = "replace" ->
         {"check", "identity", "create", "write", "strip", "recheck", "stop", "move",
          "verify", "sync_conf", "sync_staging", "unlink", "sync_unlinked", "end",
          "rollback", "undo_conf", "undo_staging", "remove", "remove_sync"}
    [] kind = "delete"  -> {"check", "erase", "erase_sync", "end"}
    [] kind = "list"    -> Inspecting \cup {"compare", "end", "idle"}
    [] kind = "prepare" -> Inspecting
StepsFit ==
  /\ op.pc \in StepsOf(op.kind) \cup {"done"}
  /\ op.pc \in {"idle", "read", "check", "identity"} => op.ino = 0 /\ op.original = NoFile
  /\ op.kind = "import" => op.original = NoFile
  /\ op.kind = "replace" /\ op.pc \notin {"check", "identity", "done"} => op.original # NoFile
  /\ Storing /\ op.pc \in {"remove", "remove_sync"} => op.ret # "success"

\* A configuration that is on the way to the disk is whole when it gets there.
IsWhole(i) == files[i].kind # "torn" /\ files[i].synced
Candidate ==
  /\ op.pc \in {"check", "identity", "create", "write", "strip", "recheck", "stop", "move",
                "exists"} => op.text \in {"good", "odd"}
  /\ op.pc \in {"write", "strip", "recheck", "stop", "move", "exists"} =>
       temp = op.ino /\ op.ino # 0 /\ op.ino \notin disk.conf
  /\ op.pc \in {"strip", "recheck", "stop", "move", "exists"} =>
       files[op.ino].synced /\ files[op.ino].kind = op.text
  /\ (op.pc \in {"verify", "rollback", "unlink"}
       \/ (op.kind = "replace" /\ op.pc \in {"sync_conf", "sync_staging"})) =>
       temp # 0 /\ IsWhole(temp)

\* The steps at which nothing is, or will be found after a crash, under the staging name.
StagingFollows ==
  /\ (op.pc \in {"check", "identity", "read", "create", "compare", "end"}
       \/ (op.kind = "delete" /\ op.pc \in {"erase", "erase_sync"})) =>
       temp = 0 /\ disk.temp = {0}
  /\ (op.pc \in {"remove_sync", "sync_unlinked", "erase", "erase_sync"}
       \/ (op.kind = "import" /\ op.pc \in {"sync_conf", "sync_staging"})) => temp = 0

\* The steps at which nothing has been moved, or all has been moved back.
Before == {"check", "identity", "create", "write", "strip", "recheck", "stop", "move",
           "exists", "remove", "remove_sync"}
\* Where an operation has got to that nobody disturbed.
OldOrNew ==
  Storing /\ ~edit.any /\ op.pc # "idle" =>
    /\ op.pc \in Before => conf = was.conf /\ disk.conf \subseteq was.disk
    /\ op.pc \in {"verify", "sync_conf", "sync_staging", "unlink", "rollback", "erase"} =>
         conf = op.ino /\ was.conf = temp
    /\ op.pc \in {"sync_unlinked", "end"} => conf = op.ino
    /\ op.pc \in {"sync_staging", "unlink", "sync_unlinked", "end"} => disk.conf = {conf}
    /\ op.pc \in {"undo_conf", "undo_staging", "erase_sync"} => conf = was.conf
    /\ op.pc = "undo_staging" => disk.conf = {conf}

\* Every change has a time of its own, so a file that was changed can be told from what
\* was read of it.
StampsGrow ==
  /\ \A i \in 1..Len(files) : files[i].mtime <= used.edits /\ files[i].ctime <= used.edits
  /\ op.original.id.mtime <= used.edits /\ op.original.ctime <= used.edits
  /\ op.original.id.ino <= Len(files)
  /\ op.ino # 0 => op.original.id.ino < op.ino
  /\ op.original.id.ino = 0 => op.original = NoFile

\* Where an edit is that the operation must not lose.
Kept(i) == /\ edit.gone => i = 0
           /\ edit.last.ino # 0 => i # 0 /\ Identity(i) = edit.last
EditFollows ==
  Storing /\ ~edit.post /\ op.pc # "idle" =>
    /\ op.kind = "import" => ~edit.gone
    /\ op.kind = "replace" /\ op.original = NoFile => ~edit.gone /\ edit.last.ino = 0
    /\ edit.last.ino # 0 => edit.last # op.original.id
    /\ op.pc \in Before \cup {"undo_conf", "undo_staging"} => Kept(conf)
    /\ op.pc \in {"verify", "rollback"} => Kept(temp)
    /\ op.pc \in {"sync_conf", "sync_staging", "unlink", "sync_unlinked", "end", "erase",
                  "erase_sync"} => ~edit.gone /\ edit.last.ino = 0

\* What a list has read of the stored file is what the file holds, as long as its
\* metadata are the same.
InspectionHolds ==
  op.kind = "list" /\ op.pc \in {"create", "write", "strip", "remove", "remove_sync", "compare"} =>
    /\ op.text \in {"good", "odd"}
    /\ op.original.id.ino # 0
    /\ Metadata(op.original.id.ino) = op.original =>
         files[op.original.id.ino].kind = op.text
    /\ op.pc \in {"remove", "remove_sync", "compare"} /\ op.text = "odd" =>
         op.ret # "success"
    /\ op.pc = "compare" => op.ret \in {"success", "unavailable"}

IndInv ==
  /\ StoreTypes
  /\ StepsFit
  /\ Candidate
  /\ StagingFollows
  /\ OldOrNew
  /\ StampsGrow
  /\ EditFollows
  /\ InspectionHolds
  /\ StoreIsConsistent
============================================================================
