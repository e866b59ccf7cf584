------------------------- MODULE AwgProfilesProofs --------------------------
(***************************************************************************)
(* Proofs about AwgProfiles, for every number of operations, edits, failing *)
(* calls and crashes: the profile is always the old one or the new one, an  *)
(* edit by the administrator is not lost unseen, and a profile is reported  *)
(* available only when the file that is there was accepted.                 *)
(***************************************************************************)
EXTENDS AwgProfiles, SequenceTheorems, TLAPS

-----------------------------------------------------------------------------
(* The types, and the initial states.                                        *)

\* The type that the run checks follows from the type that the proof carries along.
LEMMA TypesFollow ==
  ASSUME StoreTypes, Candidate
  PROVE  TypeOK
  <1>1. \A i \in DOMAIN files : files[i] \in FileRecords
    <2>1. files \in Seq(FileRecords) /\ DOMAIN files = 1..Len(files)
      BY DEF StoreTypes
    <2> QED BY <2>1
  <1>2. op.pc \in {"write", "strip", "recheck", "stop", "verify", "rollback"} => temp # 0
    BY DEF Candidate
  <1>3. op.result \in Statuses /\ op.ret \in Statuses /\ op.report \in Reports
    BY DEF StoreTypes, OpRecords
  <1> QED BY <1>1, <1>2, <1>3 DEF StoreTypes, TypeOK, FileRecords

\* The same of the next state.
LEMMA TypesFollowNext ==
  ASSUME StoreTypes', Candidate'
  PROVE  TypeOK'
  BY TypesFollow, PTL

\* The inductive invariant holds at the start.
LEMMA InitHolds ==
  ASSUME Init
  PROVE  IndInv
  <1>1. \A k \in {"good"} : File(k, 0) \in FileRecords
    BY DEF File, FileRecords, Kinds
  <1>2. /\ files \in Seq(FileRecords) /\ conf \in Inodes /\ Len(files) \in {0, 1}
        /\ conf = Len(files) /\ \A i \in 1..Len(files) : files[i] = File("good", 0)
    <2>1. CASE files = <<>> /\ conf = 0
      BY <2>1 DEF Inodes
    <2>2. CASE files = <<File("good", 0)>> /\ conf = 1
      BY <1>1, <2>2 DEF Inodes
    <2> QED BY <2>1, <2>2 DEF Init
  <1>3. NoFile.id \in Identities /\ NoFile \in [id : Identities, ctime : Nat]
    BY DEF NoFile, Identities
  <1>4. StoreTypes
    BY <1>2, <1>3 DEF Init, StoreTypes, Inodes, Idle, OpRecords, Operations, Pcs, Texts,
       Statuses, Reports, Unedited
  <1>5. StepsFit
    BY DEF Init, StepsFit, Idle, StepsOf, Storing
  <1>6. Candidate /\ StagingFollows /\ OldOrNew /\ EditFollows /\ InspectionHolds
    BY DEF Init, Idle, Candidate, StagingFollows, OldOrNew, EditFollows, InspectionHolds, Storing
  <1>7. StampsGrow
    BY <1>2 DEF Init, StampsGrow, File, Idle, NoFile
  <1>8. TypeOK
    BY <1>4, <1>6, TypesFollow
  <1>9. CrashFindsOldOrNew /\ AllOrNothing /\ EditSurvives /\ StagingIsClean
    BY <1>2 DEF CrashFindsOldOrNew, AllOrNothing, EditSurvives, StagingIsClean, Init, Idle, File
  <1> QED BY <1>4, <1>5, <1>6, <1>7, <1>8, <1>9 DEF IndInv, StoreIsConsistent

-----------------------------------------------------------------------------
(* What the ways to go on make of an operation.                              *)

\* What is stored and what the surroundings did is as it was.
Untouched == /\ UNCHANGED <<files, conf, temp, disk, edit, was>>
             /\ used' \in [ops : Nat, edits : Nat, faults : Nat, crashes : Nat]
             /\ used'.edits = used.edits

\* The operation works on what it worked on.
SameWork == /\ op' \in OpRecords
            /\ op'.kind = op.kind /\ op'.text = op.text /\ op'.original = op.original
            /\ op'.ino = op.ino

\* Going on leaves what was found so far.
LEMMA GotoDoes ==
  ASSUME op \in OpRecords, NEW q \in Pcs, Goto(q)
  PROVE  /\ SameWork /\ op'.pc = q
         /\ op'.ret = op.ret /\ op'.report = op.report /\ op'.result = op.result
  BY DEF Goto, SameWork, OpRecords

\* Returning leaves the result.
LEMMA ReturnDoes ==
  ASSUME op \in OpRecords, NEW r \in Statuses, Return(r)
  PROVE  /\ SameWork /\ op'.pc = "done" /\ op'.result = r
         /\ op'.ret = op.ret /\ op'.report = op.report
  BY DEF Return, SameWork, OpRecords, Pcs

\* Removing the staging file keeps what is to be returned.
LEMMA RemoveDoes ==
  ASSUME op \in OpRecords, NEW r \in Statuses, Remove(r)
  PROVE  /\ SameWork /\ op'.pc = "remove" /\ op'.ret = r
         /\ op'.report = op.report /\ op'.result = op.result
  BY DEF Remove, SameWork, OpRecords, Pcs

\* What the tunnel lets an operation do is a status, and nothing is stored when it is
\* said not to be.
LEMMA TargetStatusIs ==
  ASSUME NEW s \in TargetStatus
  PROVE  /\ s \in {"success", "active", "interface_conflict", "not_found", "filesystem_failed"}
         /\ s \in Statuses
         /\ s = "not_found" <=> conf = 0
         /\ s = "success" => conf # 0 /\ Secure(conf)
  <1>1. CASE conf = 0
    BY <1>1 DEF TargetStatus, Statuses
  <1>2. CASE conf # 0 /\ ~Secure(conf)
    BY <1>2 DEF TargetStatus, Statuses
  <1>3. CASE conf # 0 /\ Secure(conf)
    BY <1>3 DEF TargetStatus, RuntimeStates, Statuses
  <1> QED BY <1>1, <1>2, <1>3

-----------------------------------------------------------------------------
(* Steps that change no file and no entry.                                   *)

\* Which operation is at a step.
StepTells ==
  /\ op.kind \in Operations
  /\ op.pc \in {"idle", "compare"} => op.kind = "list"
  /\ op.pc = "read" => op.kind \in {"list", "prepare"}
  /\ op.pc = "check" => op.kind \in {"import", "replace", "delete"}
  /\ op.pc = "exists" => op.kind = "import"
  /\ op.pc \in {"identity", "recheck", "verify", "unlink", "sync_unlinked", "rollback",
                "undo_conf", "undo_staging"} => op.kind = "replace"
  /\ op.pc \in {"stop", "move", "sync_conf", "sync_staging"} => op.kind \in {"import", "replace"}
  /\ op.pc \in {"erase", "erase_sync"} => op.kind \in {"import", "delete"}
  /\ op.pc \in {"create", "write", "strip", "remove", "remove_sync"} => op.kind # "delete"
  /\ op.pc = "end" => op.kind # "prepare"

\* The kind of an operation follows from its step.
LEMMA StepTellsKind ==
  ASSUME IndInv
  PROVE  StepTells
  <1>1. op.kind \in Operations /\ op.pc \in StepsOf(op.kind) \cup {"done"}
    BY DEF IndInv, StoreTypes, OpRecords, StepsFit
  <1> QED BY <1>1 DEF StepTells, Operations, StepsOf, Inspecting

\* An inspection of a file that "strip" refuses does not report success.
Refuses == op.kind = "list" /\ op.text = "odd"

\* The steps of an operation that go on with what it has, and the failures of a call.
Passes ==
  /\ SameWork
  /\ \/ /\ op.pc = "check" /\ op.kind = "import" /\ op'.pc = "create"
     \/ /\ op.pc = "check" /\ op.kind = "replace" /\ op'.pc = "identity"
     \/ /\ op.pc = "check" /\ op.kind = "delete" /\ op'.pc \in {"end", "erase"}
     \/ /\ op.pc \in {"check", "identity", "create"} /\ op'.pc = "done"
        /\ op'.result # "success"
     \/ /\ op.pc = "read" /\ op'.pc = "done"
     \/ /\ op.pc \in {"read", "compare"} /\ op.kind = "list" /\ op'.pc = "end"
     \/ /\ op.pc = "strip" /\ op.kind = "import" /\ op'.pc = "stop"
     \/ /\ op.pc = "strip" /\ op.kind = "replace" /\ op'.pc = "recheck"
     \/ /\ op.pc = "recheck" /\ op'.pc = "stop"
     \/ /\ op.pc = "stop" /\ op'.pc = "move"
     \/ /\ op.pc = "move" /\ op.kind = "import" /\ op'.pc = "exists"
     \/ /\ op.pc \in {"write", "strip", "recheck", "stop", "move", "exists"}
        /\ op'.pc = "remove" /\ (Storing \/ Refuses => op'.ret # "success")
     \/ /\ op.pc = "verify" /\ op'.pc = "sync_conf" /\ Identity(temp) = op.original.id
     \/ /\ op.pc \in {"verify", "sync_conf", "sync_staging", "unlink"}
        /\ op.kind = "replace" /\ op'.pc = "rollback"
     \/ /\ op.pc \in {"sync_conf", "sync_staging"} /\ op.kind = "import" /\ op'.pc = "erase"
     \/ /\ op.pc \in {"sync_unlinked", "rollback", "undo_conf", "undo_staging", "erase",
                      "erase_sync"}
        /\ op'.pc = "done"
        /\ op'.result = IF op.kind = "delete" THEN "filesystem_failed" ELSE "rollback_failed"
     \/ /\ op.pc \in {"remove", "remove_sync"} /\ op'.pc = "done"
        /\ op'.result = "filesystem_failed"
     \/ /\ op.pc = "end" /\ op'.pc = "done" /\ op'.result \in {"success", "stopped"}

\* They keep the invariant.
LEMMA PassKeeps ==
  ASSUME IndInv, Untouched, Passes
  PROVE  IndInv'
  <1>1. StoreTypes'
    BY DEF Passes, SameWork, Untouched, IndInv, StoreTypes, Inodes
  <1>0. StepTells
    BY StepTellsKind
  <1>2. StepsFit'
    <2>1. op'.pc \in StepsOf(op.kind) \cup {"done"}
      BY <1>0 DEF Passes, SameWork, StepTells, StepsOf, Operations, Inspecting
    <2>2. ~(op'.pc \in {"idle", "read", "check"}) /\ (op'.pc = "identity" => op.pc = "check")
      BY DEF Passes
    <2>3. op.kind = "replace" /\ op'.pc \notin {"check", "identity", "done"} =>
             op.pc \notin {"check", "identity", "done"}
      BY <1>0 DEF Passes, StepTells
    <2> QED BY <1>0, <2>1, <2>2, <2>3 DEF Passes, SameWork, IndInv, StepsFit, Storing, StepTells
  <1>3. Candidate'
    BY DEF Passes, SameWork, IndInv, Candidate, Untouched, IsWhole, StepsFit, StepsOf
  <1>4. StagingFollows'
    BY DEF Passes, SameWork, IndInv, StagingFollows, Untouched, StepsFit, StepsOf
  <1>5. OldOrNew'
    BY DEF Passes, SameWork, IndInv, OldOrNew, Untouched, Storing, Before
  <1>6. AllOrNothing'
    BY <1>0 DEF Passes, SameWork, IndInv, StepTells, OldOrNew, AllOrNothing, Untouched, Storing, Before, StepsFit
  <1>7. StampsGrow'
    BY DEF Passes, SameWork, IndInv, StampsGrow, Untouched
  <1>14. Kept(conf)' = Kept(conf) /\ Kept(temp)' = Kept(temp)
    BY DEF Untouched, Kept, Identity, Secure
  <1>8. EditFollows'
    <2>1. SUFFICES ASSUME Storing, ~edit.post, op.pc # "idle", EditFollows, op'.pc # "idle"
                   PROVE  EditFollows'
      BY <1>0 DEF IndInv, EditFollows, SameWork, Passes, Untouched, Storing, StepTells
    <2>2. op.pc = "verify" /\ op'.pc = "sync_conf" => ~edit.gone /\ edit.last.ino = 0
      BY <2>1 DEF Passes, EditFollows, Kept, IndInv, Candidate
    <2>3. ~edit.gone /\ edit.last.ino = 0 => Kept(conf) /\ Kept(temp)
      BY DEF Kept
    <2> QED BY <1>0, <1>14, <2>1, <2>2, <2>3 DEF Passes, SameWork, EditFollows, Untouched, Storing, Before, StepTells
  <1>9. EditSurvives'
    BY <1>0, <1>14 DEF Passes, SameWork, IndInv, EditFollows, EditSurvives, Untouched, Storing, Before, Kept, StepTells
  <1>10. InspectionHolds'
    BY <1>0 DEF Passes, SameWork, IndInv, InspectionHolds, Untouched, Refuses, Metadata, Identity, Secure, StepTells
  <1>11. CrashFindsOldOrNew'
    BY DEF Passes, SameWork, IndInv, StoreIsConsistent, CrashFindsOldOrNew, Untouched, StepsFit
  <1>12. StagingIsClean'
    BY DEF Passes, SameWork, IndInv, StoreIsConsistent, StagingIsClean, Untouched, StagingFollows
  <1>13. TypeOK'
    BY <1>1, <1>3, TypesFollowNext
  <1> QED BY <1>1, <1>2, <1>3, <1>4, <1>5, <1>6, <1>7, <1>8, <1>9, <1>10, <1>11, <1>12, <1>13
          DEF IndInv, StoreIsConsistent
-----------------------------------------------------------------------------
(* The steps of a helper that change no file and no entry.                   *)

\* A step without a fault, or with one, leaves the store untouched.
LEMMA QuietIsUntouched ==
  ASSUME IndInv, Ghosts, Fault \/ (Quiet /\ Fine)
  PROVE  Untouched
  BY DEF Ghosts, Quiet, Fine, Fault, Untouched, IndInv, StoreTypes

\* validate_target: import and replace look at the state of the tunnel.
LEMMA CheckTargetStep ==
  ASSUME IndInv, CheckTarget
  PROVE  Passes
  <1>1. PICK s \in TargetStatus :
     CASE op.kind = "import" /\ s = "not_found" -> Goto("create")
       [] op.kind = "import" /\ s = "success" -> Return("replace_required")
       [] op.kind = "replace" /\ s = "success" -> Goto("identity")
       [] OTHER -> Return(s)
    BY DEF CheckTarget
  <1>2. op.pc = "check" /\ op.kind \in {"import", "replace"} /\ op \in OpRecords
    BY DEF CheckTarget, At, IndInv, StoreTypes
  <1>3. s \in Statuses /\ "replace_required" \in Statuses /\ "create" \in Pcs /\ "identity" \in Pcs
    BY TargetStatusIs DEF Statuses, Pcs
  <1>4. CASE op.kind = "import" /\ s = "not_found"
    BY <1>1, <1>2, <1>3, <1>4, GotoDoes DEF Passes
  <1>5. CASE op.kind = "import" /\ s = "success"
    BY <1>1, <1>2, <1>3, <1>5, ReturnDoes DEF Passes
  <1>6. CASE op.kind = "replace" /\ s = "success"
    BY <1>1, <1>2, <1>3, <1>6, GotoDoes DEF Passes
  <1>7. CASE /\ ~(op.kind = "import" /\ s \in {"not_found", "success"})
             /\ ~(op.kind = "replace" /\ s = "success")
    BY <1>1, <1>2, <1>3, <1>7, ReturnDoes DEF Passes
  <1> QED BY <1>2, <1>4, <1>5, <1>6, <1>7

\* The delete operation looks at the file and at the state of the tunnel.
LEMMA DeleteCheckStep ==
  ASSUME IndInv, DeleteCheck
  PROVE  Passes
  <1>1. PICK s \in RuntimeStates :
      CASE conf # 0 /\ ~Secure(conf) -> Return("filesystem_failed")
         [] s # "success" -> Return(s)
         [] op.late -> Return("stopped")
         [] conf = 0 -> Goto("end")
         [] OTHER -> Goto("erase")
    BY DEF DeleteCheck
  <1>2. op.pc = "check" /\ op.kind = "delete" /\ op \in OpRecords
    BY DEF DeleteCheck, At, IndInv, StoreTypes
  <1>3. s \in Statuses /\ {"filesystem_failed", "stopped"} \subseteq Statuses
        /\ {"end", "erase"} \subseteq Pcs
    BY DEF RuntimeStates, Statuses, Pcs
  <1>4. \/ \E r \in Statuses \ {"success"} : Return(r)
        \/ \E q \in {"end", "erase"} : Goto(q)
    BY <1>1, <1>3
  <1>5. CASE \E r \in Statuses \ {"success"} : Return(r)
    BY <1>2, <1>5, ReturnDoes DEF Passes
  <1>6. CASE \E q \in {"end", "erase"} : Goto(q)
    BY <1>2, <1>3, <1>6, GotoDoes DEF Passes
  <1> QED BY <1>4, <1>5, <1>6

\* run_strip: the validation of the candidate succeeds, refuses, is not there or is stopped.
LEMMA StripStep ==
  ASSUME IndInv, Strip
  PROVE  Passes
  <1>1. op.pc = "strip" /\ op \in OpRecords /\ StepTells
    BY StepTellsKind DEF Strip, At, IndInv, StoreTypes
  <1>2. \/ \E r \in {"stopped", "unavailable", "invalid_config"} : Remove(r)
        \/ op.kind = "import" /\ Goto("stop")
        \/ op.kind = "replace" /\ Goto("recheck")
        \/ op.kind \notin {"import", "replace"} /\ op.text = "good" /\ Remove("success")
    BY DEF Strip
  <1>3. {"stopped", "unavailable", "invalid_config", "success"} \subseteq Statuses
        /\ {"stop", "recheck"} \subseteq Pcs
    BY DEF Statuses, Pcs
  <1>4. CASE \E r \in {"stopped", "unavailable", "invalid_config"} : Remove(r)
    BY <1>1, <1>3, <1>4, RemoveDoes DEF Passes
  <1>5. CASE op.kind = "import" /\ Goto("stop")
    BY <1>1, <1>3, <1>5, GotoDoes DEF Passes
  <1>7. CASE op.kind = "replace" /\ Goto("recheck")
    BY <1>1, <1>3, <1>7, GotoDoes DEF Passes
  <1>6. CASE op.kind \notin {"import", "replace"} /\ op.text = "good" /\ Remove("success")
    BY <1>1, <1>3, <1>6, RemoveDoes DEF Passes, Storing, Refuses
  <1> QED BY <1>2, <1>4, <1>5, <1>6, <1>7

\* replace looks at the state of the tunnel again.
LEMMA RecheckStep ==
  ASSUME IndInv, Recheck
  PROVE  Passes
  <1>1. op.pc = "recheck" /\ op \in OpRecords
    BY DEF Recheck, At, IndInv, StoreTypes
  <1>2. PICK s \in TargetStatus : IF s = "success" THEN Goto("stop") ELSE Remove(s)
    BY DEF Recheck
  <1>3. s \in Statuses /\ "stop" \in Pcs
    BY TargetStatusIs DEF Pcs
  <1>4. CASE s = "success"
    BY <1>1, <1>2, <1>3, <1>4, GotoDoes DEF Passes
  <1>5. CASE s # "success"
    BY <1>1, <1>2, <1>3, <1>5, RemoveDoes DEF Passes
  <1> QED BY <1>4, <1>5

\* A stop is obeyed until the configuration is moved.
LEMMA StopCheckStep ==
  ASSUME IndInv, StopCheck
  PROVE  Passes
  <1>1. op.pc = "stop" /\ op \in OpRecords /\ "stopped" \in Statuses /\ "move" \in Pcs
    BY DEF StopCheck, At, IndInv, StoreTypes, Statuses, Pcs
  <1>2. CASE op.late
    BY <1>1, <1>2, RemoveDoes DEF StopCheck, Passes
  <1>3. CASE ~op.late
    BY <1>1, <1>3, GotoDoes DEF StopCheck, Passes
  <1> QED BY <1>2, <1>3

\* import finds that a configuration is there.
LEMMA ExistsStep ==
  ASSUME IndInv, Exists
  PROVE  Passes
  <1>1. op.pc = "exists" /\ op \in OpRecords
    BY DEF Exists, At, IndInv, StoreTypes
  <1>2. \E r \in Statuses \ {"success"} : Remove(r)
    <2>1. PICK s \in TargetStatus :
       Remove(CASE s = "success" -> "replace_required"
                [] s = "not_found" -> "filesystem_failed"
                [] OTHER -> s)
      BY DEF Exists
    <2>2. s \in Statuses /\ {"replace_required", "filesystem_failed"} \subseteq Statuses
      BY TargetStatusIs DEF Statuses
    <2> QED BY <2>1, <2>2
  <1> QED BY <1>1, <1>2, RemoveDoes DEF Passes

\* awg_helper_storage_displaced_matches_identity: what was displaced is compared.
LEMMA VerifyStep ==
  ASSUME IndInv, Verify
  PROVE  Passes
  <1>1. op.pc = "verify" /\ op \in OpRecords /\ {"sync_conf", "rollback"} \subseteq Pcs /\ StepTells
    BY StepTellsKind DEF Verify, At, IndInv, StoreTypes, Pcs
  <1>2. CASE Identity(temp) = op.original.id
    BY <1>1, <1>2, GotoDoes DEF Verify, Passes
  <1>3. CASE Identity(temp) # op.original.id
    BY <1>1, <1>3, GotoDoes DEF Verify, Passes, StepTells
  <1> QED BY <1>2, <1>3

\* An operation ends.
LEMMA EndStep ==
  ASSUME IndInv, End
  PROVE  Passes
  <1>1. op.pc = "end" /\ op \in OpRecords /\ {"stopped", "success"} \subseteq Statuses
    BY DEF End, At, IndInv, StoreTypes, Statuses
  <1> QED BY <1>1, ReturnDoes DEF End, Passes

\* inspect_profile compares the metadata and reports.
LEMMA CompareStep ==
  ASSUME IndInv, Compare
  PROVE  Passes
  <1>1. op.pc = "compare" /\ op \in OpRecords /\ StepTells
    BY StepTellsKind DEF Compare, At, IndInv, StoreTypes
  <1>2. PICK r \in Reports : op' = [op EXCEPT !.pc = "end", !.report = r]
    BY DEF Compare, Reports
  <1>3. SameWork /\ op'.pc = "end"
    BY <1>1, <1>2 DEF SameWork, OpRecords, Pcs
  <1> QED BY <1>1, <1>3 DEF Passes, StepTells

\* A call fails: import removes what it stored, replace exchanges the entries back, and
\* the others return.
LEMMA CallFailsStep ==
  ASSUME IndInv, CallFails
  PROVE  Passes
  <1>1. op \in OpRecords /\ StepTells /\ {"filesystem_failed", "rollback_failed"} \subseteq Statuses
        /\ {"erase", "rollback", "end"} \subseteq Pcs
    BY StepTellsKind DEF IndInv, StoreTypes, Statuses, Pcs
  <1> DEFINE Changed == op' = [op EXCEPT !.pc = "end", !.report = "changed"]
  <1>2. Changed => SameWork /\ op'.pc = "end"
    BY <1>1, ZenonT(30) DEF SameWork, OpRecords, Pcs, Reports
  <1> HIDE DEF Changed
  <1>3. Removed("filesystem_failed") = Return("filesystem_failed")
    BY DEF Removed
  <1>4. CASE op.pc \in {"check", "identity", "create"}
    BY <1>1, <1>4, ReturnDoes DEF CallFails, Passes, At
  <1>5. CASE op.pc = "read"
    <2>1. IF op.kind = "list" THEN Changed ELSE Return("filesystem_failed")
      BY <1>5 DEF CallFails, At, Changed
    <2> QED BY <1>1, <1>2, <1>5, <2>1, ReturnDoes DEF Passes
  <1>6. CASE op.pc \in {"write", "recheck", "move", "exists"}
    BY <1>1, <1>6, RemoveDoes DEF CallFails, Passes, At
  <1>7. CASE op.pc \in {"sync_conf", "sync_staging"}
    BY <1>1, <1>7, GotoDoes DEF CallFails, Passes, At, StepTells
  <1>8. CASE op.pc \in {"verify", "unlink"}
    BY <1>1, <1>8, GotoDoes DEF CallFails, Passes, At, StepTells
  <1>9. CASE op.pc \in {"sync_unlinked", "rollback", "undo_conf", "undo_staging"}
    BY <1>1, <1>9, ReturnDoes DEF CallFails, Passes, At, StepTells
  <1>10. CASE op.pc \in {"remove", "remove_sync"}
    BY <1>1, <1>3, <1>10, ReturnDoes DEF CallFails, Passes, At
  <1>11. CASE op.pc = "compare"
    <2>1. Changed
      BY <1>11 DEF CallFails, At, Changed
    <2> QED BY <1>1, <1>2, <1>11, <2>1 DEF Passes, StepTells
  <1>12. CASE op.pc \in {"erase", "erase_sync"}
    BY <1>1, <1>12, ReturnDoes DEF CallFails, Passes, At
  <1> QED BY <1>4, <1>5, <1>6, <1>7, <1>8, <1>9, <1>10, <1>11, <1>12 DEF CallFails, At
-----------------------------------------------------------------------------
(* The steps of a helper that read the store.                                *)

\* A file that a directory names has metadata.
LEMMA FileFacts ==
  ASSUME StoreTypes, NEW i \in 1..Len(files)
  PROVE  /\ files[i] \in FileRecords
         /\ Identity(i) \in Identities /\ Metadata(i) \in [id : Identities, ctime : Nat]
         /\ Metadata(i).id = Identity(i) /\ Metadata(i).ctime = files[i].ctime
         /\ Identity(i).ino = i /\ Identity(i).mtime = files[i].mtime
         /\ Metadata(i) # NoFile
  <1>1. files[i] \in FileRecords
    BY DEF StoreTypes
  <1>2. i \in Nat /\ i # 0
    BY DEF StoreTypes
  <1> QED BY <1>1, <1>2 DEF Identity, Metadata, Identities, FileRecords, Secure, NoFile

\* A deadline or a stop changes nothing else.
LEMMA LateKeeps ==
  ASSUME IndInv, Ghosts, Late
  PROVE  IndInv'
  <1>1. Untouched
    BY QuietIsUntouched DEF Late
  <1>2. SameWork /\ op'.pc = op.pc /\ op'.ret = op.ret /\ op'.report = op.report
        /\ op'.result = op.result
    BY DEF IndInv, StoreTypes, Late, OpRecords, SameWork
  <1>3. StoreTypes'
    BY <1>1, <1>2 DEF SameWork, Untouched, IndInv, StoreTypes, Inodes
  <1>4. StepsFit' /\ Candidate' /\ StagingFollows'
    BY <1>1, <1>2, ZenonT(30) DEF SameWork, Untouched, IndInv, StepsFit, Candidate, StagingFollows, Storing,
       StepsOf, Inspecting, IsWhole
  <1>5. OldOrNew' /\ AllOrNothing' /\ StampsGrow' /\ CrashFindsOldOrNew' /\ StagingIsClean'
    BY <1>1, <1>2 DEF SameWork, Untouched, IndInv, StoreIsConsistent, OldOrNew, AllOrNothing,
       StampsGrow, CrashFindsOldOrNew, StagingIsClean, Storing, Before
  <1>6. EditFollows' /\ EditSurvives' /\ InspectionHolds'
    BY <1>1, <1>2 DEF SameWork, Untouched, IndInv, StoreIsConsistent, EditFollows, EditSurvives,
       InspectionHolds, Storing, Before, Kept, Identity, Metadata, Secure
  <1>7. TypeOK'
    BY <1>3, <1>4, TypesFollowNext
  <1> QED BY <1>3, <1>4, <1>5, <1>6, <1>7 DEF IndInv, StoreIsConsistent

\* A replacement takes the identity of the file it is to replace, or an inspection or a
\* session takes the text and the metadata of the file it is about.
LEMMA ReadingKeeps ==
  ASSUME IndInv, Untouched, conf # 0,
         op' \in OpRecords, op'.kind = op.kind, op'.ino = op.ino, op'.pc = "create",
         \/ /\ op.pc = "identity" /\ op'.text = op.text
            /\ op'.original = Metadata(conf)
         \/ /\ op.pc = "read" /\ op.kind = "list" /\ op'.text = files[conf].kind
            /\ op'.text \in {"good", "odd"} /\ op'.original = Metadata(conf)
         \/ /\ op.pc = "read" /\ op.kind = "prepare" /\ op'.text \in {"good", "odd"}
            /\ op'.original = op.original
  PROVE  IndInv'
  <1>1. /\ conf \in 1..Len(files) /\ StepTells /\ op.ino = 0 /\ op.original = NoFile
        /\ op.pc \in {"identity", "read"}
    BY StepTellsKind DEF IndInv, StoreTypes, Inodes, StepsFit
  <1>2. /\ Metadata(conf).id = Identity(conf) /\ Metadata(conf).ctime = files[conf].ctime
        /\ Identity(conf).ino = conf /\ Identity(conf).mtime = files[conf].mtime
        /\ Metadata(conf) # NoFile
    BY <1>1, FileFacts DEF IndInv
  <1>3. StoreTypes'
    BY DEF Untouched, IndInv, StoreTypes, Inodes
  <1>4. StepsFit' /\ Candidate' /\ StagingFollows'
    <2>1. op'.pc \in StepsOf(op'.kind)
      BY <1>1 DEF StepTells, StepsOf, Inspecting, Operations
    <2>2. op.kind = "import" => FALSE
      BY <1>1 DEF StepTells
    <2> QED BY <1>1, <1>2, <2>1, <2>2
            DEF Untouched, IndInv, StepsFit, Candidate, StagingFollows, Storing, StepTells
  <1>5. OldOrNew' /\ AllOrNothing' /\ CrashFindsOldOrNew' /\ StagingIsClean'
    BY <1>1 DEF Untouched, IndInv, StoreIsConsistent, OldOrNew, AllOrNothing,
       CrashFindsOldOrNew, StagingIsClean, Storing, Before, StepTells
  <1>6. StampsGrow'
    BY <1>1, <1>2 DEF Untouched, IndInv, StampsGrow, StoreTypes
  <1>7. EditFollows' /\ EditSurvives'
    BY <1>1, <1>2 DEF Untouched, IndInv, StoreIsConsistent, EditFollows, EditSurvives, Storing,
       Before, Kept, StepTells, Identity, Secure
  <1>8. InspectionHolds'
    BY <1>1, <1>2 DEF Untouched, InspectionHolds, StepTells, Metadata, Identity, Secure
  <1>9. TypeOK'
    BY <1>3, <1>4, TypesFollowNext
  <1> QED BY <1>3, <1>4, <1>5, <1>6, <1>7, <1>8, <1>9 DEF IndInv, StoreIsConsistent

\* replace takes the identity of what it is to replace.
LEMMA GetIdentityStep ==
  ASSUME IndInv, Ghosts, GetIdentity
  PROVE  IndInv'
  <1>1. Untouched /\ op.pc = "identity" /\ op \in OpRecords /\ "filesystem_failed" \in Statuses
    BY QuietIsUntouched DEF GetIdentity, At, IndInv, StoreTypes, Statuses
  <1>2. CASE /\ conf # 0 /\ Secure(conf)
             /\ op' = [op EXCEPT !.pc = "create", !.original = Metadata(conf)]
    <2>1. Metadata(conf) \in [id : Identities, ctime : Nat]
      BY <1>2, FileFacts DEF IndInv, StoreTypes, Inodes
    <2>2. /\ op' \in OpRecords /\ op'.kind = op.kind /\ op'.ino = op.ino /\ op'.pc = "create"
          /\ op'.text = op.text /\ op'.original = Metadata(conf)
      BY <1>1, <1>2, <2>1 DEF OpRecords, Pcs
    <2> QED BY <1>1, <1>2, <2>2, ReadingKeeps
  <1>3. CASE Return("filesystem_failed")
    <2>1. Passes
      BY <1>1, <1>3, ReturnDoes DEF Passes
    <2> QED BY <1>1, <2>1, PassKeeps
  <1> QED BY <1>2, <1>3 DEF GetIdentity

\* What is read of a file that can be read is a configuration.
LEMMA ReadIsConfiguration ==
  ASSUME IndInv, ReadStatus = "success"
  PROVE  /\ conf # 0 /\ files[conf].kind \in {"good", "odd"} /\ files[conf].kind \in Texts
         /\ Metadata(conf) \in [id : Identities, ctime : Nat]
  <1>1. conf # 0 /\ Secure(conf) /\ files[conf].kind \notin {"bad", "torn"}
    BY DEF ReadStatus
  <1>2. conf \in 1..Len(files)
    BY <1>1 DEF IndInv, StoreTypes, Inodes
  <1>3. files[conf] \in FileRecords /\ Metadata(conf) \in [id : Identities, ctime : Nat]
    BY <1>2, FileFacts DEF IndInv
  <1> QED BY <1>1, <1>3 DEF FileRecords, Kinds, Secure, Texts

\* The status of a read.
LEMMA ReadStatusIs ==
  ReadStatus \in {"not_found", "filesystem_failed", "invalid_config", "success"}
  BY DEF ReadStatus

\* inspect_profile reads the configuration.
LEMMA ListReadStep ==
  ASSUME IndInv, Ghosts, ListRead
  PROVE  IndInv'
  <1>1. Untouched /\ op.pc = "read" /\ op.kind = "list" /\ op \in OpRecords /\ "stopped" \in Statuses
        /\ "end" \in Pcs
    BY QuietIsUntouched DEF ListRead, At, IndInv, StoreTypes, Statuses, Pcs
  <1> DEFINE Report(r) == op' = [op EXCEPT !.pc = "end", !.report = r]
  <1>2. \/ Return("stopped")
        \/ Goto("end")
        \/ \E r \in {"file_security", "invalid"} : Report(r)
        \/ /\ ReadStatus = "success"
           /\ op' = [op EXCEPT !.pc = "create", !.text = files[conf].kind, !.original = Metadata(conf)]
    <2>1. ReadStatus = "not_found" => conf = 0
      BY DEF ReadStatus
    <2> QED BY <2>1, ReadStatusIs DEF ListRead
  <1>3. CASE Return("stopped")
    <2>1. Passes
      BY <1>1, <1>3, ReturnDoes DEF Passes
    <2> QED BY <1>1, <2>1, PassKeeps
  <1>4. CASE Goto("end")
    <2>1. Passes
      BY <1>1, <1>4, GotoDoes DEF Passes
    <2> QED BY <1>1, <2>1, PassKeeps
  <1>5. CASE \E r \in {"file_security", "invalid"} : Report(r)
    <2>1. SameWork /\ op'.pc = "end"
      BY <1>1, <1>5 DEF OpRecords, SameWork, Reports
    <2>2. Passes
      BY <1>1, <2>1 DEF Passes
    <2> QED BY <1>1, <2>2, PassKeeps
  <1>6. CASE /\ ReadStatus = "success"
             /\ op' = [op EXCEPT !.pc = "create", !.text = files[conf].kind, !.original = Metadata(conf)]
    <2>1. /\ conf # 0 /\ files[conf].kind \in {"good", "odd"} /\ files[conf].kind \in Texts
          /\ Metadata(conf) \in [id : Identities, ctime : Nat]
      BY <1>6, ReadIsConfiguration
    <2>2. /\ op' \in OpRecords /\ op'.kind = op.kind /\ op'.ino = op.ino /\ op'.pc = "create"
          /\ op'.text = files[conf].kind /\ op'.original = Metadata(conf)
      BY <1>1, <1>6, <2>1 DEF OpRecords, Pcs
    <2> QED BY <1>1, <2>1, <2>2, ReadingKeeps
  <1> QED BY <1>2, <1>3, <1>4, <1>5, <1>6

\* awg_helper_profile_prepare reads the configuration.
LEMMA PrepareReadStep ==
  ASSUME IndInv, Ghosts, PrepareRead
  PROVE  IndInv'
  <1>1. Untouched /\ op.pc = "read" /\ op.kind = "prepare" /\ op \in OpRecords
    BY QuietIsUntouched DEF PrepareRead, At, IndInv, StoreTypes
  <1>2. CASE ReadStatus # "success"
    <2>1. ReadStatus \in Statuses /\ Return(ReadStatus)
      BY <1>2, ReadStatusIs DEF PrepareRead, Statuses
    <2>2. Passes
      BY <1>1, <2>1, ReturnDoes DEF Passes
    <2> QED BY <1>1, <2>2, PassKeeps
  <1>3. CASE ReadStatus = "success"
    <2>1. conf # 0 /\ files[conf].kind \in {"good", "odd"} /\ files[conf].kind \in Texts
      BY <1>3, ReadIsConfiguration
    <2>2. /\ op' \in OpRecords /\ op'.kind = op.kind /\ op'.ino = op.ino /\ op'.pc = "create"
          /\ op'.text = files[conf].kind /\ op'.original = op.original
      BY <1>1, <1>3, <2>1, ZenonT(30) DEF PrepareRead, OpRecords, Pcs
    <2> QED BY <1>1, <2>1, <2>2, ReadingKeeps
  <1> QED BY <1>2, <1>3
-----------------------------------------------------------------------------
(* The steps of a helper that synchronise a directory.                       *)

\* A step changes the entries and no file.
Moving == /\ UNCHANGED <<files, edit, was, used>>
          /\ conf' \in Inodes /\ temp' \in Inodes
          /\ disk' \in [conf : SUBSET Nat, temp : SUBSET Nat]
          /\ conf' \in disk'.conf /\ disk'.conf \subseteq Inodes
          /\ temp' \in disk'.temp /\ disk'.temp \subseteq Inodes

\* It keeps the types.
LEMMA MovingIsTyped ==
  ASSUME IndInv, Moving, SameWork
  PROVE  StoreTypes' /\ StampsGrow'
  <1>1. StoreTypes'
    BY DEF IndInv, Moving, SameWork, StoreTypes, Inodes
  <1>2. StampsGrow'
    BY DEF IndInv, Moving, SameWork, StampsGrow
  <1> QED BY <1>1, <1>2

\* The directory of the configurations is synchronised: after the move, after it was
\* undone, and after the removal of a configuration.
LEMMA FlushingConfKeeps ==
  ASSUME IndInv, SameWork, UNCHANGED <<files, conf, temp, edit, was, used>>, SyncConf,
         \/ op.pc = "sync_conf" /\ op'.pc = "sync_staging"
         \/ op.pc = "undo_conf" /\ op'.pc = "undo_staging"
         \/ op.pc = "erase_sync" /\ op.kind = "delete" /\ op'.pc = "end"
         \/ /\ op.pc = "erase_sync" /\ op.kind = "import" /\ op'.pc = "done"
            /\ op'.result = "filesystem_failed"
  PROVE  IndInv'
  <1>1. /\ disk' \in [conf : SUBSET Nat, temp : SUBSET Nat] /\ disk'.conf = {conf}
        /\ disk'.temp = disk.temp /\ StepTells
    BY StepTellsKind DEF SyncConf, IndInv, StoreTypes, Inodes
  <1>2. Moving
    BY <1>1 DEF Moving, IndInv, StoreTypes
  <1>3. StoreTypes' /\ StampsGrow'
    BY <1>2, MovingIsTyped
  <1>4. StepsFit'
    <2>1. op'.pc \in StepsOf(op.kind) \cup {"done"}
      BY <1>1 DEF StepTells, StepsOf
    <2> QED BY <1>1, <2>1 DEF SameWork, IndInv, StepsFit, Storing, StepTells
  <1>5. Candidate' /\ StagingFollows'
    BY <1>1 DEF SameWork, IndInv, Candidate, StagingFollows, IsWhole, StepTells
  <1>6. OldOrNew' /\ AllOrNothing'
    BY <1>1 DEF SameWork, IndInv, OldOrNew, AllOrNothing, Storing, Before, StoreTypes, StepTells
  <1>7. Kept(conf)' = Kept(conf) /\ Kept(temp)' = Kept(temp)
    BY DEF Kept, Identity, Secure
  <1>8. ~edit.gone /\ edit.last.ino = 0 => Kept(conf)
    BY DEF Kept
  <1>9. EditFollows' /\ EditSurvives'
    BY <1>1, <1>7, <1>8 DEF SameWork, IndInv, StoreIsConsistent, EditFollows, EditSurvives, Storing,
       Before, Kept, StepTells
  <1>10. InspectionHolds'
    BY <1>1 DEF SameWork, InspectionHolds, StepTells
  <1>11. CrashFindsOldOrNew'
    BY <1>1 DEF SameWork, IndInv, StoreIsConsistent, CrashFindsOldOrNew, StepTells, StoreTypes
  <1>12. StagingIsClean'
    BY <1>1 DEF StagingIsClean
  <1>13. TypeOK'
    BY <1>3, <1>5, TypesFollowNext
  <1> QED BY <1>3, <1>4, <1>5, <1>6, <1>9, <1>10, <1>11, <1>12, <1>13
          DEF IndInv, StoreIsConsistent

\* The directory of the staging files is synchronised: after the move, after the old file
\* was removed, after the move was undone and after the candidate was removed.
LEMMA FlushingStagingKeeps ==
  ASSUME IndInv, SameWork, UNCHANGED <<files, conf, temp, edit, was, used>>, SyncStaging,
         \/ op.pc = "sync_staging" /\ op.kind = "import" /\ op'.pc = "end"
         \/ op.pc = "sync_staging" /\ op.kind = "replace" /\ op'.pc = "unlink"
         \/ op.pc = "sync_unlinked" /\ op'.pc = "end"
         \/ op.pc = "undo_staging" /\ op'.pc = "remove" /\ op'.ret = "filesystem_failed"
         \/ op.pc = "remove_sync" /\ op'.pc = "done" /\ op'.result = op.ret
         \/ op.pc = "remove_sync" /\ op.kind = "list" /\ op'.pc = "end"
         \/ /\ op.pc = "remove_sync" /\ op.kind = "list" /\ op'.pc = "compare"
            /\ op'.ret = op.ret /\ op.ret \in {"success", "unavailable"}
  PROVE  IndInv'
  <1>1. /\ disk' \in [conf : SUBSET Nat, temp : SUBSET Nat] /\ disk'.temp = {temp}
        /\ disk'.conf = disk.conf /\ StepTells
    BY StepTellsKind DEF SyncStaging, IndInv, StoreTypes, Inodes
  <1>2. Moving
    BY <1>1 DEF Moving, IndInv, StoreTypes
  <1>3. StoreTypes' /\ StampsGrow'
    BY <1>2, MovingIsTyped
  <1>4. StepsFit'
    <2>1. op'.pc \in StepsOf(op.kind) \cup {"done"}
      BY <1>1 DEF StepTells, StepsOf, Inspecting
    <2> QED BY <1>1, <2>1 DEF SameWork, IndInv, StepsFit, Storing, StepTells
  <1>5. Candidate' /\ StagingFollows'
    BY <1>1 DEF SameWork, IndInv, Candidate, StagingFollows, IsWhole, StepTells
  <1>6. OldOrNew' /\ AllOrNothing'
    BY <1>1 DEF SameWork, IndInv, StepsFit, OldOrNew, AllOrNothing, Storing, Before, StoreTypes, StepTells
  <1>7. Kept(conf)' = Kept(conf) /\ Kept(temp)' = Kept(temp)
    BY DEF Kept, Identity, Secure
  <1>9. EditFollows' /\ EditSurvives'
    BY <1>1, <1>7 DEF SameWork, IndInv, StoreIsConsistent, EditFollows, EditSurvives, Storing,
       Before, Kept, StepTells
  <1>10. InspectionHolds'
    BY <1>1 DEF SameWork, IndInv, InspectionHolds, StepTells, Metadata, Identity, Secure
  <1>11. CrashFindsOldOrNew'
    BY <1>1 DEF SameWork, IndInv, StoreIsConsistent, CrashFindsOldOrNew, StepTells, StoreTypes
  <1>12. StagingIsClean'
    BY <1>1 DEF IndInv, StagingFollows, StagingIsClean
  <1>13. TypeOK'
    BY <1>3, <1>5, TypesFollowNext
  <1> QED BY <1>3, <1>4, <1>5, <1>6, <1>9, <1>10, <1>11, <1>12, <1>13
          DEF IndInv, StoreIsConsistent
-----------------------------------------------------------------------------
(* The steps of a helper that change entries.                                *)

\* New entries are files that are.
LEMMA EntriesMove ==
  ASSUME IndInv, NEW c \in Inodes, NEW t \in Inodes, Entries(c, t),
         UNCHANGED <<files, edit, was, used>>
  PROVE  /\ Moving /\ conf' = c /\ temp' = t
         /\ disk'.conf = disk.conf \cup {c} /\ disk'.temp = disk.temp \cup {t}
  <1>1. /\ conf' = c /\ temp' = t /\ disk' \in [conf : SUBSET Nat, temp : SUBSET Nat]
        /\ disk'.conf = disk.conf \cup {c} /\ disk'.temp = disk.temp \cup {t}
    BY DEF Entries, IndInv, StoreTypes, Inodes
  <1> QED BY <1>1 DEF Moving, IndInv, StoreTypes

\* The staging file is removed: the old file after a replacement, or the candidate.
LEMMA DroppingKeeps ==
  ASSUME IndInv, SameWork, UNCHANGED <<files, edit, was, used>>, Entries(conf, 0),
         \/ op.pc = "unlink" /\ op'.pc = "sync_unlinked"
         \/ op.pc = "remove" /\ op'.pc = "remove_sync" /\ op'.ret = op.ret
  PROVE  IndInv'
  <1>1. /\ Moving /\ conf' = conf /\ temp' = 0
        /\ disk'.conf = disk.conf /\ disk'.temp = disk.temp \cup {0} /\ StepTells
    <2>1. 0 \in Inodes /\ conf \in Inodes /\ disk.conf \cup {conf} = disk.conf
      BY DEF IndInv, StoreTypes, Inodes
    <2>2. /\ Moving /\ conf' = conf /\ temp' = 0
          /\ disk'.conf = disk.conf \cup {conf} /\ disk'.temp = disk.temp \cup {0}
      BY <2>1, EntriesMove
    <2> QED BY <2>1, <2>2, StepTellsKind
  <1>2. StoreTypes' /\ StampsGrow'
    BY <1>1, MovingIsTyped
  <1>3. StepsFit'
    <2>1. op'.pc \in StepsOf(op.kind)
      BY <1>1 DEF StepTells, StepsOf, Inspecting, Operations
    <2> QED BY <1>1, <2>1 DEF SameWork, IndInv, StepsFit, Storing, StepTells
  <1>4. Candidate' /\ StagingFollows'
    BY <1>1 DEF SameWork, Candidate, StagingFollows, StepTells
  <1>5. OldOrNew' /\ AllOrNothing'
    BY <1>1 DEF SameWork, IndInv, OldOrNew, AllOrNothing, Storing, Before, StepTells
  <1>6. Kept(conf)' = Kept(conf)
    BY <1>1 DEF Kept, Identity, Secure
  <1>7. EditFollows' /\ EditSurvives'
    BY <1>1, <1>6 DEF SameWork, IndInv, EditFollows, EditSurvives, Storing, Before, StepTells
  <1>8. InspectionHolds'
    BY <1>1 DEF SameWork, IndInv, InspectionHolds, StepTells, Metadata, Identity, Secure
  <1>9. CrashFindsOldOrNew' /\ StagingIsClean'
    BY <1>1 DEF SameWork, IndInv, StoreIsConsistent, CrashFindsOldOrNew, StagingIsClean
  <1>10. TypeOK'
    BY <1>2, <1>4, TypesFollowNext
  <1> QED BY <1>2, <1>3, <1>4, <1>5, <1>7, <1>8, <1>9, <1>10 DEF IndInv, StoreIsConsistent

\* The entries are exchanged: by the move of a replacement, and by its undoing.
LEMMA ExchangingKeeps ==
  ASSUME IndInv, SameWork, UNCHANGED <<files, edit, was, used>>, Entries(temp, conf), conf # 0,
         \/ op.pc = "move" /\ op.kind = "replace" /\ op'.pc = "verify"
         \/ op.pc = "rollback" /\ op'.pc = "undo_conf"
  PROVE  IndInv'
  <1>1. /\ Moving /\ conf' = temp /\ temp' = conf
        /\ disk'.conf = disk.conf \cup {temp} /\ disk'.temp = disk.temp \cup {conf} /\ StepTells
    BY EntriesMove, StepTellsKind DEF IndInv, StoreTypes
  <1>2. StoreTypes' /\ StampsGrow'
    BY <1>1, MovingIsTyped
  <1>3. /\ temp # 0 /\ IsWhole(temp) /\ IsWhole(conf)
        /\ op.pc = "move" => temp = op.ino
    <2>1. IsWhole(conf)
      BY DEF IndInv, StoreTypes, StoreIsConsistent, CrashFindsOldOrNew, IsWhole
    <2> QED BY <2>1 DEF IndInv, Candidate, IsWhole
  <1>4. StepsFit'
    <2>1. op'.pc \in StepsOf(op.kind)
      BY <1>1 DEF StepTells, StepsOf
    <2> QED BY <1>1, <2>1 DEF SameWork, IndInv, StepsFit, Storing, StepTells
  <1>5. Candidate' /\ StagingFollows'
    BY <1>1, <1>3 DEF SameWork, Candidate, StagingFollows, StepTells, IsWhole
  <1>6. OldOrNew' /\ AllOrNothing'
    BY <1>1, <1>3 DEF SameWork, IndInv, OldOrNew, AllOrNothing, Storing, Before, StepTells
  <1>7. Kept(conf)' = Kept(temp) /\ Kept(temp)' = Kept(conf)
    BY <1>1 DEF Kept, Identity, Secure
  <1>8. EditFollows' /\ EditSurvives'
    BY <1>1, <1>7 DEF SameWork, IndInv, EditFollows, EditSurvives, Storing, Before, StepTells
  <1>9. InspectionHolds'
    BY <1>1 DEF SameWork, InspectionHolds, StepTells
  <1>10. CrashFindsOldOrNew' /\ StagingIsClean'
    <2>1. \A i \in disk'.conf \ {0} : files[i].kind # "torn" /\ files[i].synced
      BY <1>1, <1>3 DEF IndInv, StoreIsConsistent, CrashFindsOldOrNew, IsWhole
    <2>2. Storing /\ ~edit.any => disk'.conf \subseteq was.disk \cup {op.ino}
      BY <1>1, <1>3 DEF IndInv, StoreTypes, StoreIsConsistent, CrashFindsOldOrNew, OldOrNew, Storing
    <2> QED BY <1>1, <2>1, <2>2 DEF SameWork, CrashFindsOldOrNew, StagingIsClean, Storing
  <1>11. TypeOK'
    BY <1>2, <1>5, TypesFollowNext
  <1> QED BY <1>2, <1>4, <1>5, <1>6, <1>8, <1>9, <1>10, <1>11 DEF IndInv, StoreIsConsistent

\* import moves the candidate where no configuration is.
LEMMA RenamingKeeps ==
  ASSUME IndInv, SameWork, UNCHANGED <<files, edit, was, used>>, Entries(temp, 0), conf = 0,
         op.pc = "move", op.kind = "import", op'.pc = "sync_conf"
  PROVE  IndInv'
  <1>1. /\ Moving /\ conf' = temp /\ temp' = 0
        /\ disk'.conf = disk.conf \cup {temp} /\ disk'.temp = disk.temp \cup {0}
    BY EntriesMove DEF IndInv, StoreTypes, Inodes
  <1>2. StoreTypes' /\ StampsGrow'
    BY <1>1, MovingIsTyped
  <1>3. temp = op.ino /\ temp # 0 /\ IsWhole(temp)
    BY DEF IndInv, Candidate, IsWhole
  <1>4. StepsFit'
    BY <1>1 DEF SameWork, IndInv, StepsFit, Storing, StepsOf
  <1>5. Candidate' /\ StagingFollows'
    BY <1>1, <1>3 DEF SameWork, Candidate, StagingFollows
  <1>6. OldOrNew' /\ AllOrNothing'
    BY <1>1, <1>3 DEF SameWork, IndInv, OldOrNew, AllOrNothing, Storing, Before
  <1>7. EditFollows' /\ EditSurvives'
    BY <1>1 DEF SameWork, IndInv, EditFollows, EditSurvives, Storing, Before, Kept
  <1>8. InspectionHolds'
    BY <1>1 DEF SameWork, InspectionHolds
  <1>9. CrashFindsOldOrNew' /\ StagingIsClean'
    <2>1. \A i \in disk'.conf \ {0} : files[i].kind # "torn" /\ files[i].synced
      BY <1>1, <1>3 DEF IndInv, StoreIsConsistent, CrashFindsOldOrNew, IsWhole
    <2>2. ~edit.any => disk'.conf \subseteq was.disk \cup {op.ino}
      BY <1>1, <1>3 DEF IndInv, StoreIsConsistent, CrashFindsOldOrNew
    <2> QED BY <1>1, <2>1, <2>2 DEF SameWork, CrashFindsOldOrNew, StagingIsClean
  <1>10. TypeOK'
    BY <1>2, <1>5, TypesFollowNext
  <1> QED BY <1>2, <1>4, <1>5, <1>6, <1>7, <1>8, <1>9, <1>10 DEF IndInv, StoreIsConsistent

\* A configuration is removed: by delete, or by an import that could not be made durable.
LEMMA ErasingKeeps ==
  ASSUME IndInv, SameWork, UNCHANGED <<files, edit, was, used>>, Entries(0, temp),
         op.pc = "erase", op'.pc = "erase_sync"
  PROVE  IndInv'
  <1>1. /\ Moving /\ conf' = 0 /\ temp' = temp /\ temp = 0
        /\ disk'.conf = disk.conf \cup {0} /\ disk'.temp = disk.temp /\ StepTells
    <2>1. 0 \in Inodes /\ temp \in Inodes /\ temp = 0 /\ disk.temp \cup {temp} = disk.temp
      BY DEF IndInv, StoreTypes, Inodes, StagingFollows
    <2>2. /\ Moving /\ conf' = 0 /\ temp' = temp
          /\ disk'.conf = disk.conf \cup {0} /\ disk'.temp = disk.temp \cup {temp}
      BY <2>1, EntriesMove
    <2> QED BY <2>1, <2>2, StepTellsKind
  <1>2. StoreTypes' /\ StampsGrow'
    BY <1>1, MovingIsTyped
  <1>4. StepsFit'
    <2>1. op'.pc \in StepsOf(op.kind)
      BY <1>1 DEF StepTells, StepsOf
    <2> QED BY <1>1, <2>1 DEF SameWork, IndInv, StepsFit, Storing, StepTells
  <1>5. Candidate' /\ StagingFollows'
    BY <1>1 DEF SameWork, IndInv, Candidate, StagingFollows, StepTells
  <1>6. OldOrNew' /\ AllOrNothing'
    BY <1>1 DEF SameWork, IndInv, OldOrNew, AllOrNothing, Storing, Before, StepTells
  <1>7. EditFollows' /\ EditSurvives'
    BY <1>1 DEF SameWork, IndInv, EditFollows, EditSurvives, Storing, Before, Kept, StepTells
  <1>8. InspectionHolds'
    BY <1>1 DEF SameWork, InspectionHolds
  <1>9. CrashFindsOldOrNew' /\ StagingIsClean'
    <2>1. \A i \in disk'.conf \ {0} : files[i].kind # "torn" /\ files[i].synced
      BY <1>1 DEF IndInv, StoreIsConsistent, CrashFindsOldOrNew
    <2>2. Storing /\ ~edit.any => disk'.conf \subseteq was.disk \cup {op.ino}
      BY <1>1 DEF IndInv, StoreTypes, StoreIsConsistent, CrashFindsOldOrNew, OldOrNew, Storing
    <2> QED BY <1>1, <2>1, <2>2 DEF SameWork, CrashFindsOldOrNew, StagingIsClean, Storing
  <1>10. TypeOK'
    BY <1>2, <1>5, TypesFollowNext
  <1> QED BY <1>2, <1>4, <1>5, <1>6, <1>7, <1>8, <1>9, <1>10 DEF IndInv, StoreIsConsistent
-----------------------------------------------------------------------------
(* The steps of a helper that write the candidate.                           *)

\* The candidate is made, empty and not yet on the disk.
LEMMA CreateKeeps ==
  ASSUME IndInv, Ghosts, Create
  PROVE  IndInv'
  <1> DEFINE n == Len(files) + 1
             new == [File("torn", 0) EXCEPT !.synced = FALSE]
  <1>1. /\ op.pc = "create" /\ op \in OpRecords /\ UNCHANGED <<edit, was, used>>
        /\ temp = 0 /\ disk.temp = {0} /\ StepTells /\ n \in Nat /\ n # 0 /\ Len(files) \in Nat
    BY StepTellsKind DEF Create, At, Ghosts, Fine, IndInv, StoreTypes, StagingFollows
  <1>2. new \in FileRecords
    BY DEF File, FileRecords
  <1>3. /\ files' \in Seq(FileRecords) /\ Len(files') = n
        /\ \A i \in 1..Len(files) : files'[i] = files[i]
        /\ files'[n] = new
    BY <1>2, AppendProperties DEF Create, IndInv, StoreTypes
  <1>4. /\ op' \in OpRecords /\ op'.pc = "write" /\ op'.ino = n /\ op'.kind = op.kind
        /\ op'.text = op.text /\ op'.original = op.original
    BY <1>1 DEF Create, OpRecords, Pcs
  <1>5. /\ conf' = conf /\ temp' = n /\ disk' \in [conf : SUBSET Nat, temp : SUBSET Nat]
        /\ disk'.conf = disk.conf /\ disk'.temp = disk.temp \cup {n}
    BY <1>1 DEF Create, Entries, IndInv, StoreTypes, Inodes
  <1>6. conf \in 0..Len(files) /\ disk.conf \subseteq 0..Len(files) /\ n \notin disk.conf
    BY <1>1 DEF IndInv, StoreTypes, Inodes
  <1> HIDE DEF n, new
  <1>7. StoreTypes'
    BY <1>1, <1>3, <1>4, <1>5, <1>6 DEF IndInv, StoreTypes, Inodes, n
  <1>8. StepsFit'
    <2>1. "write" \in StepsOf(op.kind)
      BY <1>1 DEF StepTells, StepsOf, Inspecting, Operations, IndInv, StepsFit
    <2> QED BY <1>1, <1>4, <2>1 DEF IndInv, StepsFit, Storing
  <1>9. Candidate' /\ StagingFollows'
    BY <1>1, <1>4, <1>5, <1>6 DEF IndInv, Candidate, StagingFollows
  <1>10. OldOrNew' /\ AllOrNothing'
    BY <1>1, <1>4, <1>5 DEF IndInv, OldOrNew, AllOrNothing, Storing, Before
  <1>11. StampsGrow'
    <2>1. \A i \in 1..n : files'[i].mtime <= used.edits /\ files'[i].ctime <= used.edits
      <3>1. new.mtime = 0 /\ new.ctime = 0 /\ used.edits \in Nat
        BY DEF new, File, IndInv, StoreTypes
      <3> QED BY <1>1, <1>3, <3>1 DEF IndInv, StampsGrow, n
    <2> QED BY <1>1, <1>3, <1>4, <2>1, SMTT(30) DEF IndInv, StampsGrow, StoreTypes, OpRecords, Identities, n
  <1>12. Kept(conf)' = Kept(conf)
    BY <1>1, <1>3, <1>5, <1>6 DEF Kept, Identity, Secure
  <1>13. EditFollows' /\ EditSurvives'
    BY <1>1, <1>4, <1>5, <1>12 DEF IndInv, EditFollows, EditSurvives, Storing, Before
  <1>14. InspectionHolds'
    <2>1. op.original.id.ino \in 0..Len(files)
      BY SMTT(30) DEF IndInv, StampsGrow, StoreTypes, OpRecords, Identities
    <2> QED BY <1>1, <1>3, <1>4, <2>1 DEF IndInv, InspectionHolds, Metadata, Identity, Secure
  <1>15. CrashFindsOldOrNew' /\ StagingIsClean'
    <2>1. \A i \in disk'.conf \ {0} : files'[i].kind # "torn" /\ files'[i].synced
      BY <1>3, <1>5, <1>6 DEF IndInv, StoreIsConsistent, CrashFindsOldOrNew
    <2>2. Storing /\ ~edit.any => disk'.conf \subseteq was.disk \cup {op'.ino}
      BY <1>1, <1>5 DEF IndInv, OldOrNew, Before
    <2> QED BY <1>1, <1>4, <2>1, <2>2 DEF CrashFindsOldOrNew, StagingIsClean, Storing
  <1>16. TypeOK'
    BY <1>7, <1>9, TypesFollowNext
  <1> QED BY <1>7, <1>8, <1>9, <1>10, <1>11, <1>13, <1>14, <1>15, <1>16 DEF IndInv, StoreIsConsistent

\* The candidate is written and synchronised.
LEMMA WriteKeeps ==
  ASSUME IndInv, Ghosts, Write
  PROVE  IndInv'
  <1> DEFINE c == op.ino
             new == [files[c] EXCEPT !.kind = op.text, !.synced = TRUE]
  <1>1. /\ op.pc = "write" /\ op \in OpRecords /\ "strip" \in Pcs
        /\ UNCHANGED <<conf, temp, disk, edit, was, used>> /\ StepTells
        /\ Len(files) \in Nat
    BY StepTellsKind DEF Write, At, Ghosts, Fine, IndInv, StoreTypes, Pcs
  <1>2. /\ SameWork /\ op'.pc = "strip"
    BY <1>1, GotoDoes DEF Write
  <1>3. /\ c \in 1..Len(files) /\ temp = c /\ c \notin disk.conf /\ op.text \in {"good", "odd"}
        /\ files[c] \in FileRecords
    <2>1. c \in 1..Len(files) /\ temp = c /\ c \notin disk.conf
      BY <1>1 DEF IndInv, StoreTypes, Inodes, Candidate
    <2>2. op.text \in {"good", "odd"}
      BY <1>1 DEF IndInv, Candidate, InspectionHolds, StepTells
    <2> QED BY <2>1, <2>2, FileFacts DEF IndInv
  <1>4. /\ new \in FileRecords /\ new.mtime = files[c].mtime /\ new.ctime = files[c].ctime
        /\ new.kind = op.text /\ new.synced = TRUE
    BY <1>3 DEF FileRecords, Kinds
  <1>5. files' = [files EXCEPT ![c] = new]
    BY <1>3 DEF Write, IndInv, StoreTypes
  <1> HIDE DEF new, c
  <1>6. /\ files' \in Seq(FileRecords) /\ Len(files') = Len(files)
        /\ \A i \in 1..Len(files) : files'[i] = IF i = c THEN new ELSE files[i]
    BY <1>3, <1>4, <1>5, ExceptSeq DEF IndInv, StoreTypes
  <1>7. StoreTypes'
    BY <1>1, <1>2, <1>6 DEF IndInv, StoreTypes, Inodes, SameWork
  <1>8. StepsFit'
    <2>1. "strip" \in StepsOf(op.kind)
      BY <1>1 DEF StepTells, StepsOf, Inspecting, Operations, IndInv, StepsFit
    <2> QED BY <1>1, <1>2, <2>1 DEF IndInv, StepsFit, Storing, SameWork
  <1>9. Candidate' /\ StagingFollows'
    BY <1>1, <1>2, <1>3, <1>4, <1>6 DEF IndInv, Candidate, StagingFollows, SameWork, c
  <1>10. OldOrNew' /\ AllOrNothing'
    BY <1>1, <1>2 DEF IndInv, OldOrNew, AllOrNothing, Storing, Before, SameWork
  <1>11. StampsGrow'
    BY <1>1, <1>2, <1>3, <1>4, <1>6 DEF IndInv, StampsGrow, SameWork
  <1>12. Kept(conf)' = Kept(conf)
    <2>1. conf \in 0..Len(files) /\ conf # c
      BY <1>3 DEF IndInv, StoreTypes, Inodes
    <2>2. conf # 0 => Identity(conf)' = Identity(conf)
      BY <1>1, <1>6, <2>1 DEF Identity, Secure
    <2> QED BY <1>1, <2>2 DEF Kept
  <1>13. EditFollows' /\ EditSurvives'
    BY <1>1, <1>2, <1>12 DEF IndInv, EditFollows, EditSurvives, Storing, Before, SameWork
  <1>14. InspectionHolds'
    <2>1. op.original.id.ino \in 0..Len(files) /\ op.original.id.ino # c
      BY <1>3 DEF IndInv, StampsGrow, StoreTypes, OpRecords, Identities, c
    <2> QED BY <1>1, <1>2, <1>6, <2>1 DEF IndInv, InspectionHolds, Metadata, Identity, Secure, SameWork
  <1>15. CrashFindsOldOrNew' /\ StagingIsClean'
    <2>1. \A i \in disk'.conf \ {0} : files'[i].kind # "torn" /\ files'[i].synced
      BY <1>1, <1>3, <1>6 DEF IndInv, StoreTypes, Inodes, StoreIsConsistent, CrashFindsOldOrNew
    <2> QED BY <1>1, <1>2, <2>1
            DEF IndInv, StoreIsConsistent, CrashFindsOldOrNew, StagingIsClean, SameWork
  <1>16. TypeOK'
    BY <1>7, <1>9, TypesFollowNext
  <1> QED BY <1>7, <1>8, <1>9, <1>10, <1>11, <1>13, <1>14, <1>15, <1>16 DEF IndInv, StoreIsConsistent
-----------------------------------------------------------------------------
(* The surroundings.                                                         *)

\* Nothing is asked of a helper that is not there.
LEMMA IdleKeeps ==
  ASSUME IndInv, op' = Idle,
         UNCHANGED <<edit, was>>, used'.edits = used.edits,
         StoreTypes',
         \A i \in 1..Len(files') : files'[i].mtime <= used.edits /\ files'[i].ctime <= used.edits,
         \A i \in disk'.conf \ {0} : files'[i].kind # "torn" /\ files'[i].synced
  PROVE  IndInv'
  <1>1. /\ op'.pc = "idle" /\ op'.kind = "list" /\ op'.text = "good" /\ op'.original = NoFile
        /\ op'.ino = 0 /\ op'.ret = "none" /\ op'.report = "none" /\ op'.result = "none"
    BY DEF Idle
  <1>2. StepsFit' /\ Candidate' /\ StagingFollows' /\ OldOrNew' /\ AllOrNothing' /\ StagingIsClean'
        /\ EditFollows' /\ EditSurvives' /\ InspectionHolds'
    BY <1>1 DEF StepsFit, Candidate, StagingFollows, OldOrNew, AllOrNothing, StagingIsClean,
       EditFollows, EditSurvives, InspectionHolds, Storing, StepsOf
  <1>3. StampsGrow'
    BY <1>1 DEF NoFile, StampsGrow, StoreTypes, IndInv
  <1>4. CrashFindsOldOrNew'
    BY <1>1 DEF CrashFindsOldOrNew
  <1>5. TypeOK'
    BY <1>2, TypesFollowNext
  <1> QED BY <1>2, <1>3, <1>4, <1>5 DEF IndInv, StoreIsConsistent

\* An idle helper has its type.
LEMMA IdleIsTyped ==
  Idle \in OpRecords /\ Idle.ino = 0
  BY DEF Idle, OpRecords, NoFile, Identities, Operations, Pcs, Texts, Statuses, Reports

\* The helper is killed.
LEMMA KilledKeeps ==
  ASSUME IndInv, Killed
  PROVE  IndInv'
  <1>1. UNCHANGED <<files, conf, temp, disk, edit, was>> /\ op' = Idle
        /\ used' \in [ops : Nat, edits : Nat, faults : Nat, crashes : Nat]
        /\ used'.edits = used.edits
    BY DEF Killed, IndInv, StoreTypes
  <1>2. StoreTypes'
    BY <1>1, IdleIsTyped, SMTT(30) DEF IndInv, StoreTypes, Inodes
  <1>3. /\ \A i \in 1..Len(files') : files'[i].mtime <= used.edits /\ files'[i].ctime <= used.edits
        /\ \A i \in disk'.conf \ {0} : files'[i].kind # "torn" /\ files'[i].synced
    BY <1>1 DEF IndInv, StampsGrow, StoreIsConsistent, CrashFindsOldOrNew
  <1> QED BY <1>1, <1>2, <1>3, IdleKeeps

\* The machine crashes: files that were not synchronised are torn.
LEMMA CrashKeeps ==
  ASSUME IndInv, Crash
  PROVE  IndInv'
  <1>1. PICK c \in disk.conf : conf' = c /\ disk' = [conf |-> {c}, temp |-> {0}]
    BY DEF Crash
  <1>2. /\ temp' = 0 /\ op' = Idle /\ UNCHANGED <<edit, was>>
        /\ used' \in [ops : Nat, edits : Nat, faults : Nat, crashes : Nat]
        /\ used'.edits = used.edits
    <2>1. /\ temp' = 0 /\ op' = Idle /\ UNCHANGED <<edit, was>>
          /\ used' = [used EXCEPT !.crashes = @ + 1]
      BY DEF Crash
    <2>2. used \in [ops : Nat, edits : Nat, faults : Nat, crashes : Nat]
      BY DEF IndInv, StoreTypes
    <2>3. /\ used' \in [ops : Nat, edits : Nat, faults : Nat, crashes : Nat]
          /\ used'.edits = used.edits
      BY <2>1, <2>2
    <2> QED BY <2>1, <2>3
  <1> DEFINE after(i) == IF files[i].synced THEN files[i] ELSE [files[i] EXCEPT !.kind = "torn"]
  <1>3. \A i \in 1..Len(files) : /\ after(i) \in FileRecords
                                 /\ after(i).mtime = files[i].mtime /\ after(i).ctime = files[i].ctime
                                 /\ files[i].synced => after(i) = files[i]
    <2> TAKE i \in 1..Len(files)
    <2>1. files[i] \in FileRecords
      BY FileFacts DEF IndInv
    <2> QED BY <2>1 DEF FileRecords
  <1>4. Len(files) \in Nat /\ files' = [i \in 1..Len(files) |-> after(i)]
    BY DEF Crash, IndInv, StoreTypes
  <1> HIDE DEF after
  <1>5. /\ files' \in Seq(FileRecords) /\ Len(files') = Len(files)
        /\ \A i \in 1..Len(files) : files'[i] = after(i)
    BY <1>3, <1>4
  <1>6. StoreTypes'
    BY <1>1, <1>2, <1>5, IdleIsTyped DEF IndInv, StoreTypes, Inodes
  <1>7. /\ \A i \in 1..Len(files') : files'[i].mtime <= used.edits /\ files'[i].ctime <= used.edits
        /\ \A i \in disk'.conf \ {0} : files'[i].kind # "torn" /\ files'[i].synced
    BY <1>1, <1>3, <1>5, SMTT(30)
       DEF IndInv, StampsGrow, StoreTypes, Inodes, StoreIsConsistent, CrashFindsOldOrNew
  <1> QED BY <1>2, <1>6, <1>7, IdleKeeps

\* An operation begins.
LEMMA BeginKeeps ==
  ASSUME IndInv, NEW kind \in Operations, NEW text \in Texts, Begin(kind, text),
         kind \notin {"import", "replace"} => text = "good"
  PROVE  IndInv'
  <1> DEFINE refused == kind \in {"import", "replace"} /\ text = "bad"
             pc == CASE kind \in {"list", "prepare"} -> "read"
                     [] kind \in {"import", "replace"} /\ text = "bad" -> "done"
                     [] OTHER -> "check"
             result == IF refused THEN "invalid_config" ELSE "none"
  <1>1. /\ op' = [Idle EXCEPT !.kind = kind, !.text = text, !.pc = pc, !.result = result]
        /\ UNCHANGED <<files, conf>> /\ temp' = 0 /\ edit' = Unedited
        /\ was' = [conf |-> conf, disk |-> disk.conf]
    BY DEF Begin
  <1>2. /\ disk' \in [conf : SUBSET Nat, temp : SUBSET Nat] /\ disk'.conf = disk.conf
        /\ disk'.temp = {0} /\ used' \in [ops : Nat, edits : Nat, faults : Nat, crashes : Nat]
        /\ used'.edits = used.edits
    BY SMTT(30) DEF Begin, IndInv, StoreTypes
  <1>3. /\ pc \in {"read", "done", "check"} /\ result \in Statuses
        /\ pc = "read" => kind \in {"list", "prepare"}
        /\ pc = "done" <=> refused
        /\ pc = "check" => kind \in {"import", "replace", "delete"}
        /\ result # "success"
    BY DEF Operations, Statuses
  <1> HIDE DEF pc, result
  <1>4. /\ op' \in OpRecords /\ op'.ino = 0 /\ op'.original = NoFile /\ op'.kind = kind
        /\ op'.text = text /\ op'.pc = pc /\ op'.result = result
        /\ op'.report = "none" /\ op'.ret = "none"
    BY <1>1, <1>3 DEF Idle, OpRecords, NoFile, Identities, Pcs, Statuses, Reports
  <1>5. StoreTypes'
    BY <1>1, <1>2, <1>4, SMTT(30) DEF IndInv, StoreTypes, Inodes, Unedited, NoFile, Identities
  <1>6. StepsFit' /\ Candidate' /\ StagingFollows'
    <2>1. pc \in StepsOf(kind) \cup {"done"}
      BY <1>3 DEF StepsOf, Inspecting, Operations
    <2>2. pc = "check" => text \in {"good", "odd"}
      BY <1>3 DEF Texts, Operations
    <2> QED BY <1>1, <1>2, <1>3, <1>4, <2>1, <2>2 DEF StepsFit, Candidate, StagingFollows, Storing
  <1>7. OldOrNew' /\ AllOrNothing' /\ StagingIsClean'
    BY <1>1, <1>2, <1>3, <1>4 DEF OldOrNew, AllOrNothing, StagingIsClean, Before
  <1>8. StampsGrow'
    BY <1>1, <1>2, <1>4 DEF IndInv, StampsGrow, NoFile, StoreTypes
  <1>9. EditFollows' /\ EditSurvives' /\ InspectionHolds'
    BY <1>1, <1>3, <1>4 DEF EditFollows, EditSurvives, InspectionHolds, Unedited, Kept, NoFile
  <1>10. CrashFindsOldOrNew'
    BY <1>1, <1>2 DEF IndInv, StoreIsConsistent, CrashFindsOldOrNew
  <1>11. TypeOK'
    BY <1>5, <1>6, TypesFollowNext
  <1> QED BY <1>5, <1>6, <1>7, <1>8, <1>9, <1>10, <1>11 DEF IndInv, StoreIsConsistent
-----------------------------------------------------------------------------
(* The administrator.                                                        *)

\* An edit leaves the operation alone and is written down.
Noted == /\ UNCHANGED <<temp, op, was>>
         /\ used' \in [ops : Nat, edits : Nat, faults : Nat, crashes : Nat]
         /\ used'.edits = Stamp
         /\ edit' \in [any : BOOLEAN, last : Identities, gone : BOOLEAN, post : BOOLEAN]
         /\ edit'.any
         /\ ~edit'.post => ~edit.post /\ Undecided

\* What an edit says of itself.
LEMMA EditsDoes ==
  ASSUME IndInv, NEW id \in Identities, NEW gone \in BOOLEAN, Edits(id, gone)
  PROVE  /\ Noted
         /\ Undecided => edit'.last = id /\ edit'.gone = (gone /\ op.kind = "replace")
  <1>1. /\ UNCHANGED <<temp, op, was>>
        /\ used' \in [ops : Nat, edits : Nat, faults : Nat, crashes : Nat]
        /\ used'.edits = Stamp /\ Stamp \in Nat
    BY SMTT(30) DEF Edits, Stamp, IndInv, StoreTypes
  <1>2. edit \in [any : BOOLEAN, last : Identities, gone : BOOLEAN, post : BOOLEAN]
    BY DEF IndInv, StoreTypes
  <1>3. CASE Undecided
    <2>1. edit' = [edit EXCEPT !.any = TRUE, !.last = id, !.gone = (gone /\ op.kind = "replace"),
                               !.post = edit.post]
      BY <1>2, <1>3 DEF Edits
    <2> QED BY <1>1, <1>2, <1>3, <2>1 DEF Noted
  <1>4. CASE ~Undecided
    <2>1. edit' = [edit EXCEPT !.any = TRUE, !.post = TRUE]
      BY <1>2, <1>4 DEF Edits
    <2> QED BY <1>1, <1>2, <1>4, <2>1 DEF Noted
  <1> QED BY <1>3, <1>4

\* The files are whole that it leaves, and what it changes has a time of its own.
Stamped ==
  /\ files' \in Seq(FileRecords) /\ Len(files') >= Len(files)
  /\ \A i \in 1..Len(files) :
       \/ files'[i] = files[i]
       \/ i = conf /\ files'[i].kind # "torn" /\ files'[i].synced /\ files'[i].ctime = Stamp
  /\ \A i \in 1..Len(files') : files'[i].mtime <= Stamp /\ files'[i].ctime <= Stamp

\* It leaves the configuration under its name, under a new file's, or without a file.
Named ==
  /\ conf' \in 0..Len(files')
  /\ conf' \in {conf, 0} \/ conf' > Len(files)
  /\ conf' > Len(files) => files'[conf'].kind # "torn" /\ files'[conf'].synced
  /\ disk' = [disk EXCEPT !.conf = disk.conf \cup {conf'}]

\* It can be told from what the operation looked at.
Told ==
  ~edit'.post =>
    /\ edit'.gone => op.kind = "replace"
    /\ edit'.last.ino # 0 => edit'.last # op.original.id
    /\ Kept(conf)'

\* An edit like this keeps the invariant.
LEMMA EditedKeeps ==
  ASSUME IndInv, Noted, Stamped, Named, Told
  PROVE  IndInv'
  <1>0. /\ Len(files) \in Nat /\ disk \in [conf : SUBSET Nat, temp : SUBSET Nat]
        /\ disk.conf \subseteq 0..Len(files) /\ conf \in disk.conf /\ conf \in 0..Len(files)
        /\ temp \in 0..Len(files) /\ op.ino \in 0..Len(files) /\ used.edits \in Nat
        /\ disk.temp \subseteq 0..Len(files) /\ temp \in disk.temp
        /\ op \in OpRecords /\ was \in [conf : Nat, disk : SUBSET Nat] /\ was.conf \in was.disk
        /\ StepTells
    BY StepTellsKind, SMTT(30) DEF IndInv, StoreTypes, Inodes
  <1>1. /\ Len(files') \in Nat /\ Len(files) <= Len(files') /\ conf' \in 0..Len(files')
        /\ files' \in Seq(FileRecords)
    BY <1>0 DEF Stamped, Named
  <1>2. /\ disk' \in [conf : SUBSET Nat, temp : SUBSET Nat]
        /\ disk'.conf = disk.conf \cup {conf'} /\ disk'.temp = disk.temp
    BY <1>0, <1>1 DEF Named
  <1>3. StoreTypes'
    <2>1. disk'.conf \subseteq 0..Len(files') /\ disk'.temp \subseteq 0..Len(files')
      BY <1>0, <1>1, <1>2
    <2>2. temp \in 0..Len(files') /\ op.ino \in 0..Len(files')
      BY <1>0, <1>1
    <2> QED BY <1>0, <1>1, <1>2, <2>1, <2>2 DEF StoreTypes, Inodes, Noted
  <1>4. StepsFit'
    BY DEF Noted, IndInv, StepsFit, Storing
  <1>5. \A i \in 1..Len(files) : files[i].kind # "torn" /\ files[i].synced =>
                                  files'[i].kind # "torn" /\ files'[i].synced
    BY DEF Stamped
  <1>6. Candidate' /\ StagingFollows'
    <2>1. ASSUME op.ino # 0, op.ino \notin disk.conf
          PROVE  op.ino \notin disk'.conf /\ files'[op.ino] = files[op.ino]
      <3>1. op.ino \in 1..Len(files) /\ op.ino # conf
        BY <1>0, <2>1
      <3>2. files'[op.ino] = files[op.ino]
        BY <3>1 DEF Stamped
      <3>3. op.ino # conf'
        BY <3>1, <1>0, <2>1 DEF Named
      <3> QED BY <1>2, <2>1, <3>2, <3>3
    <2>2. temp # 0 /\ IsWhole(temp) => IsWhole(temp)'
      BY <1>0, <1>5 DEF IsWhole, Noted
    <2> QED BY <1>2, <2>1, <2>2 DEF Noted, IndInv, Candidate, StagingFollows
  <1>7. OldOrNew' /\ AllOrNothing' /\ StagingIsClean'
    BY <1>2 DEF Noted, IndInv, StoreIsConsistent, OldOrNew, AllOrNothing, StagingIsClean
  <1>8. used'.edits = used.edits + 1
    BY DEF Noted, Stamp
  <1>9. StampsGrow'
    <2>1. /\ op.original.id.mtime <= used.edits /\ op.original.ctime <= used.edits
          /\ op.original.id.mtime \in Nat /\ op.original.ctime \in Nat
          /\ op.original.id.ino <= Len(files) /\ op.original.id.ino \in Nat
      BY <1>0 DEF IndInv, StampsGrow, OpRecords, Identities
    <2>2. /\ op.original.id.mtime <= used'.edits /\ op.original.ctime <= used'.edits
          /\ op.original.id.ino <= Len(files')
      <3> DEFINE m == op.original.id.mtime
                 t == op.original.ctime
                 n == op.original.id.ino
      <3>1. m \in Nat /\ m <= used.edits /\ t \in Nat /\ t <= used.edits /\ n \in Nat /\ n <= Len(files)
        BY <2>1
      <3> HIDE DEF m, t, n
      <3>2. m <= used'.edits /\ t <= used'.edits /\ n <= Len(files')
        BY <1>0, <1>1, <1>8, <3>1
      <3> QED BY <3>2 DEF m, t, n
    <2>3. \A i \in 1..Len(files') : files'[i].mtime <= used'.edits /\ files'[i].ctime <= used'.edits
      BY DEF Stamped, Noted
    <2> QED BY <2>2, <2>3 DEF Noted, IndInv, StampsGrow
  <1>10. EditFollows' /\ EditSurvives'
    <2>1. SUFFICES ASSUME ~edit'.post
                   PROVE  EditFollows' /\ EditSurvives'
      BY DEF EditFollows, EditSurvives
    <2>2. /\ op.pc \in {"check", "identity", "create", "write", "strip", "recheck", "stop", "move"}
          /\ op.kind = "import" \/ (op.kind = "replace" /\ op.original # NoFile)
      BY <2>1 DEF Undecided, Noted
    <2> QED BY <2>1, <2>2 DEF EditFollows, EditSurvives, Before, Told, Noted
  <1>11. InspectionHolds'
    <2> DEFINE i == op.original.id.ino
    <2>1. /\ op.original.ctime \in Nat /\ op.original.ctime < Stamp
          /\ i \in 0..Len(files)
      BY <1>0 DEF IndInv, StampsGrow, OpRecords, Identities, Stamp
    <2>2. files'[i].ctime = Stamp => Metadata(i)' # op.original
      BY <2>1 DEF Metadata, Noted
    <2>3. files'[i] = files[i] => Metadata(i)' = Metadata(i)
      BY DEF Metadata, Identity, Secure, Noted
    <2>4. i # 0 => files'[i] = files[i] \/ files'[i].ctime = Stamp
      BY <2>1 DEF Stamped
    <2>5. InspectionHolds /\ op' = op
      BY DEF IndInv, Noted
    <2> QED BY <2>2, <2>3, <2>4, <2>5 DEF InspectionHolds
  <1>12. CrashFindsOldOrNew'
    <2>1. \A i \in disk'.conf \ {0} : files'[i].kind # "torn" /\ files'[i].synced
      <3> SUFFICES ASSUME NEW i \in disk'.conf, i # 0
                   PROVE  files'[i].kind # "torn" /\ files'[i].synced
        OBVIOUS
      <3>1. CASE i \in disk.conf
        BY <1>0, <1>5, <3>1 DEF IndInv, StoreIsConsistent, CrashFindsOldOrNew
      <3>2. CASE i \notin disk.conf
        BY <1>0, <1>2, <3>2 DEF Named
      <3> QED BY <3>1, <3>2
    <2> QED BY <2>1 DEF CrashFindsOldOrNew, Noted
  <1>13. TypeOK'
    BY <1>3, <1>6, TypesFollowNext
  <1> QED BY <1>3, <1>4, <1>6, <1>7, <1>9, <1>10, <1>11, <1>12, <1>13 DEF IndInv, StoreIsConsistent
\* The administrator puts a file of his own in place.
LEMMA AdminReplacesKeeps ==
  ASSUME IndInv, NEW kind \in Kinds, AdminReplaces(kind)
  PROVE  IndInv'
  <1> DEFINE n == Len(files) + 1
             new == File(kind, Stamp)
             id == [ino |-> n, mtime |-> Stamp, open |-> kind = "open"]
  <1>1. /\ Len(files) \in Nat /\ n \in Nat /\ n > Len(files) /\ n # 0
        /\ Stamp \in Nat /\ Stamp > used.edits /\ used.edits \in Nat
    BY DEF IndInv, StoreTypes, Stamp
  <1>2. id \in Identities /\ FALSE \in BOOLEAN
    BY <1>1 DEF Identities
  <1>3. /\ Edits(id, FALSE) /\ files' = Append(files, new) /\ conf' = n
        /\ disk' = [disk EXCEPT !.conf = disk.conf \cup {conf'}]
    BY DEF AdminReplaces
  <1>4. /\ new \in FileRecords /\ new.kind = kind /\ new.kind # "torn" /\ new.synced
        /\ new.mtime = Stamp /\ new.ctime = Stamp
    BY <1>1 DEF File, FileRecords, Kinds
  <1>5. /\ id.ino = n /\ id.mtime = Stamp /\ id.open = (kind = "open")
    OBVIOUS
  <1> HIDE DEF id, new
  <1>6. Noted /\ (Undecided => edit'.last = id /\ ~edit'.gone)
    BY <1>2, <1>3, EditsDoes
  <1>7. /\ files' \in Seq(FileRecords) /\ Len(files') = n
        /\ \A i \in 1..Len(files) : files'[i] = files[i]
        /\ files'[n] = new
    BY <1>3, <1>4, AppendProperties DEF IndInv, StoreTypes
  <1> HIDE DEF n
  <1>8. Stamped
    <2>1. \A i \in 1..Len(files') : i \in 1..Len(files) \/ i = n
      BY <1>1, <1>7 DEF n
    <2>2. \A i \in 1..Len(files) : files'[i].mtime <= Stamp /\ files'[i].ctime <= Stamp
      <3> TAKE i \in 1..Len(files)
      <3>1. /\ files[i].mtime \in Nat /\ files[i].ctime \in Nat
            /\ files[i].mtime <= used.edits /\ files[i].ctime <= used.edits
        BY FileFacts DEF IndInv, StampsGrow, FileRecords
      <3> QED BY <1>1, <1>7, <3>1
    <2>3. files'[n].mtime <= Stamp /\ files'[n].ctime <= Stamp
      BY <1>1, <1>4, <1>7
    <2> QED BY <1>1, <1>7, <2>1, <2>2, <2>3 DEF Stamped
  <1>9. Named
    BY <1>1, <1>3, <1>4, <1>7 DEF Named
  <1>10. Told
    <2> SUFFICES ASSUME ~edit'.post
                 PROVE  Told
      BY DEF Told
    <2>1. edit'.last = id /\ ~edit'.gone
      BY <1>6 DEF Noted
    <2>2. op.original.id.ino \in Nat /\ op.original.id.ino < n
      <3> DEFINE m == op.original.id.ino
      <3>1. m \in Nat /\ m <= Len(files)
        BY DEF IndInv, StampsGrow, StoreTypes, OpRecords, Identities
      <3> HIDE DEF m
      <3>2. m < n
        BY <1>1, <3>1 DEF n
      <3> QED BY <3>1, <3>2 DEF m
    <2>3. id # op.original.id
      BY <1>1, <1>5, <2>2
    <2>4. Identity(conf)' = id
      <3>1. Identity(conf)' = [ino |-> n, mtime |-> Stamp, open |-> ~(kind # "open")]
        BY <1>3, <1>4, <1>7 DEF Identity, Secure
      <3> QED BY <3>1 DEF id
    <2> QED BY <1>1, <1>3, <2>1, <2>3, <2>4 DEF Told, Kept
  <1> QED BY <1>6, <1>8, <1>9, <1>10, EditedKeeps

\* The administrator writes the file in place, with the time of the change or the old one.
LEMMA AdminWritesKeeps ==
  ASSUME IndInv, NEW kind \in Kinds \ {"open"}, NEW keep \in BOOLEAN, AdminWrites(kind, keep)
  PROVE  IndInv'
  <1> DEFINE stamp == IF keep THEN files[conf].mtime ELSE Stamp
             id == IF keep THEN edit.last ELSE [ino |-> conf, mtime |-> stamp, open |-> FALSE]
             new == [File(kind, stamp) EXCEPT !.ctime = Stamp]
  <1>1. /\ conf \in 1..Len(files) /\ Len(files) \in Nat /\ Secure(conf)
        /\ Stamp \in Nat /\ Stamp > used.edits /\ used.edits \in Nat
        /\ disk \in [conf : SUBSET Nat, temp : SUBSET Nat] /\ conf \in disk.conf
        /\ UNCHANGED <<conf, disk>>
    BY DEF AdminWrites, IndInv, StoreTypes, Inodes, Stamp
  <1>2. /\ files[conf] \in FileRecords /\ files[conf].mtime \in Nat
        /\ files[conf].mtime <= used.edits
    BY <1>1, FileFacts DEF IndInv, StampsGrow, FileRecords
  <1>3. stamp \in Nat /\ stamp <= Stamp
    BY <1>1, <1>2
  <1>4. /\ new \in FileRecords /\ new.kind = kind /\ kind # "torn" /\ kind # "open" /\ new.synced
        /\ new.mtime = stamp /\ new.ctime = Stamp
    BY <1>1, <1>3 DEF File, FileRecords, Kinds
  <1>5. id \in Identities /\ FALSE \in BOOLEAN
    BY <1>1, <1>3 DEF Identities, IndInv, StoreTypes
  <1>6. Edits(id, FALSE) /\ files' = [files EXCEPT ![conf] = new]
    BY DEF AdminWrites
  <1>7. /\ keep => id = edit.last /\ stamp = files[conf].mtime
        /\ ~keep => id = [ino |-> conf, mtime |-> Stamp, open |-> FALSE] /\ stamp = Stamp
    OBVIOUS
  <1> HIDE DEF id, new, stamp
  <1>8. Noted /\ (Undecided => edit'.last = id /\ ~edit'.gone)
    BY <1>5, <1>6, EditsDoes
  <1>9. /\ files' \in Seq(FileRecords) /\ Len(files') = Len(files)
        /\ \A i \in 1..Len(files) : files'[i] = IF i = conf THEN new ELSE files[i]
    BY <1>1, <1>4, <1>6, ExceptSeq DEF IndInv, StoreTypes
  <1>10. Stamped
    <2>1. \A i \in 1..Len(files') : files'[i].mtime <= Stamp /\ files'[i].ctime <= Stamp
      <3> TAKE i \in 1..Len(files')
      <3>1. /\ files[i].mtime \in Nat /\ files[i].ctime \in Nat
            /\ files[i].mtime <= used.edits /\ files[i].ctime <= used.edits
        BY <1>9, FileFacts DEF IndInv, StampsGrow, FileRecords
      <3> QED BY <1>1, <1>3, <1>4, <1>9, <3>1
    <2> QED BY <1>1, <1>4, <1>9, <2>1 DEF Stamped
  <1>11. Named
    BY <1>1, <1>9 DEF Named
  <1>12. Told
    <2> SUFFICES ASSUME ~edit'.post
                 PROVE  Told
      BY DEF Told
    <2>1. /\ edit'.last = id /\ ~edit'.gone /\ ~edit.post /\ op' = op
          /\ op.pc \in {"check", "identity", "create", "write", "strip", "recheck", "stop", "move"}
          /\ op.kind = "import" \/ (op.kind = "replace" /\ op.original # NoFile)
      BY <1>8 DEF Noted, Undecided
    <2>2. Identity(conf)' = [ino |-> conf, mtime |-> stamp, open |-> FALSE]
      BY <1>1, <1>4, <1>9 DEF Identity, Secure
    <2>3. CASE keep
      <3>1. /\ edit.last.ino # 0 => edit.last # op.original.id
            /\ Kept(conf)
        BY <2>1 DEF IndInv, EditFollows, Storing, Before
      <3>2. Identity(conf) = [ino |-> conf, mtime |-> stamp, open |-> FALSE]
        BY <1>1, <1>7, <2>3 DEF Identity
      <3> QED BY <1>1, <1>7, <2>1, <2>2, <2>3, <3>1, <3>2 DEF Told, Kept
    <2>4. CASE ~keep
      <3>1. op.original.id.mtime <= used.edits /\ op.original.id.mtime \in Nat
        BY DEF IndInv, StampsGrow, StoreTypes, OpRecords, Identities
      <3>2. id.mtime = Stamp /\ Identity(conf)' = id
        BY <1>7, <2>2, <2>4
      <3>3. id # op.original.id
        BY <1>1, <3>1, <3>2
      <3> QED BY <1>1, <2>1, <3>2, <3>3 DEF Told, Kept
    <2> QED BY <2>3, <2>4
  <1> QED BY <1>8, <1>10, <1>11, <1>12, EditedKeeps

\* The administrator deletes the file.
LEMMA AdminDeletesKeeps ==
  ASSUME IndInv, AdminDeletes
  PROVE  IndInv'
  <1>1. /\ conf' = 0 /\ Edits(NoFile.id, TRUE) /\ UNCHANGED files
        /\ disk' = [disk EXCEPT !.conf = disk.conf \cup {conf'}]
    BY DEF AdminDeletes
  <1>2. /\ NoFile.id \in Identities /\ NoFile.id.ino = 0 /\ TRUE \in BOOLEAN
        /\ Len(files) \in Nat /\ Stamp \in Nat /\ Stamp > used.edits /\ used.edits \in Nat
    BY DEF NoFile, Identities, IndInv, StoreTypes, Stamp
  <1>3. Noted /\ (Undecided => edit'.last = NoFile.id /\ (edit'.gone => op.kind = "replace"))
    BY <1>1, <1>2, EditsDoes
  <1>4. Stamped
    <2>1. \A i \in 1..Len(files') : files'[i].mtime <= Stamp /\ files'[i].ctime <= Stamp
      <3> TAKE i \in 1..Len(files')
      <3>1. /\ files[i].mtime \in Nat /\ files[i].ctime \in Nat
            /\ files[i].mtime <= used.edits /\ files[i].ctime <= used.edits
        BY <1>1, FileFacts DEF IndInv, StampsGrow, FileRecords
      <3> QED BY <1>1, <1>2, <3>1
    <2> QED BY <1>1, <1>2, <2>1 DEF Stamped, IndInv, StoreTypes
  <1>5. Named
    BY <1>1, <1>2 DEF Named
  <1>6. Told
    BY <1>1, <1>2, <1>3 DEF Told, Noted, Kept
  <1> QED BY <1>3, <1>4, <1>5, <1>6, EditedKeeps
-----------------------------------------------------------------------------
(* Every step keeps the invariant.                                           *)

\* The steps of a helper that move on or fail.
LEMMA QuietKeeps ==
  ASSUME IndInv, Ghosts,
         \/ CheckTarget \/ DeleteCheck \/ Strip \/ Recheck \/ StopCheck \/ Exists \/ Verify
         \/ End \/ Compare \/ CallFails
  PROVE  IndInv'
  <1>1. Passes
    BY CheckTargetStep, DeleteCheckStep, StripStep, RecheckStep, StopCheckStep, ExistsStep,
       VerifyStep, EndStep, CompareStep, CallFailsStep
  <1>2. Fault \/ (Quiet /\ Fine)
    BY DEF CheckTarget, DeleteCheck, Strip, Recheck, StopCheck, Exists, Verify, End, Compare,
       CallFails
  <1>3. Untouched
    BY <1>2, QuietIsUntouched
  <1> QED BY <1>1, <1>3, PassKeeps

\* The moves of the configuration, and what finds no configuration to move.
LEMMA MovesKeep ==
  ASSUME IndInv, Ghosts, Rename \/ Exchange \/ Rollback \/ Erase \/ UnlinkOld \/ RemoveTemp
  PROVE  IndInv'
  <1>1. /\ UNCHANGED <<files, edit, was, used>> /\ op \in OpRecords
        /\ {"sync_conf", "exists", "verify", "undo_conf", "erase_sync", "sync_unlinked",
            "remove_sync"} \subseteq Pcs
        /\ {"filesystem_failed", "rollback_failed"} \subseteq Statuses
    BY DEF Ghosts, Rename, Exchange, Rollback, Erase, UnlinkOld, RemoveTemp, Fine, IndInv,
       StoreTypes, Pcs, Statuses
  <1>2. UNCHANGED <<conf, temp, disk>> => Untouched
    BY <1>1 DEF Untouched, IndInv, StoreTypes
  <1>3. CASE Rename
    <2>1. op.pc = "move" /\ op.kind = "import"
      BY <1>3 DEF Rename, At
    <2>2. CASE conf = 0 /\ Entries(temp, 0) /\ Goto("sync_conf")
      <3>1. SameWork /\ op'.pc = "sync_conf"
        BY <1>1, <2>2, GotoDoes
      <3> QED BY <1>1, <2>1, <2>2, <3>1, RenamingKeeps
    <2>3. CASE conf # 0 /\ Goto("exists") /\ UNCHANGED <<conf, temp, disk>>
      <3>1. Passes
        BY <1>1, <2>1, <2>3, GotoDoes DEF Passes
      <3> QED BY <1>2, <2>3, <3>1, PassKeeps
    <2> QED BY <1>3, <2>2, <2>3 DEF Rename
  <1>4. CASE Exchange
    <2>1. op.pc = "move" /\ op.kind = "replace"
      BY <1>4 DEF Exchange, At
    <2>2. CASE conf # 0 /\ Entries(temp, conf) /\ Goto("verify")
      <3>1. SameWork /\ op'.pc = "verify"
        BY <1>1, <2>2, GotoDoes
      <3> QED BY <1>1, <2>1, <2>2, <3>1, ExchangingKeeps
    <2>3. CASE conf = 0 /\ Remove("filesystem_failed") /\ UNCHANGED <<conf, temp, disk>>
      <3>1. Passes
        BY <1>1, <2>1, <2>3, RemoveDoes DEF Passes
      <3> QED BY <1>2, <2>3, <3>1, PassKeeps
    <2> QED BY <1>4, <2>2, <2>3 DEF Exchange
  <1>5. CASE Rollback
    <2>1. op.pc = "rollback" /\ op.kind = "replace"
      BY <1>5, StepTellsKind DEF Rollback, At, StepTells
    <2>2. CASE conf # 0 /\ Entries(temp, conf) /\ Goto("undo_conf")
      <3>1. SameWork /\ op'.pc = "undo_conf"
        BY <1>1, <2>2, GotoDoes
      <3> QED BY <1>1, <2>1, <2>2, <3>1, ExchangingKeeps
    <2>3. CASE conf = 0 /\ Return("rollback_failed") /\ UNCHANGED <<conf, temp, disk>>
      <3>1. Passes
        BY <1>1, <2>1, <2>3, ReturnDoes DEF Passes
      <3> QED BY <1>2, <2>3, <3>1, PassKeeps
    <2> QED BY <1>5, <2>2, <2>3 DEF Rollback
  <1>6. CASE Erase
    <2>1. op.pc = "erase" /\ Entries(0, temp) /\ SameWork /\ op'.pc = "erase_sync"
      BY <1>1, <1>6, GotoDoes DEF Erase, At
    <2> QED BY <1>1, <2>1, ErasingKeeps
  <1>7. CASE UnlinkOld
    <2>1. op.pc = "unlink" /\ Entries(conf, 0) /\ SameWork /\ op'.pc = "sync_unlinked"
      BY <1>1, <1>7, GotoDoes DEF UnlinkOld, At
    <2> QED BY <1>1, <2>1, DroppingKeeps
  <1>8. CASE RemoveTemp
    <2>1. /\ op.pc = "remove" /\ Entries(conf, 0) /\ SameWork /\ op'.pc = "remove_sync"
          /\ op'.ret = op.ret
      BY <1>1, <1>8, GotoDoes DEF RemoveTemp, At
    <2> QED BY <1>1, <2>1, DroppingKeeps
  <1> QED BY <1>3, <1>4, <1>5, <1>6, <1>7, <1>8

\* The synchronisations of a directory.
LEMMA FlushesKeep ==
  ASSUME IndInv, Ghosts,
         \/ CommitConf \/ CommitStaging \/ SyncUnlinked \/ UndoConf \/ UndoStaging \/ RemoveSync
         \/ EraseSync
  PROVE  IndInv'
  <1>1. /\ UNCHANGED <<files, conf, temp, edit, was, used>> /\ op \in OpRecords
        /\ {"sync_staging", "end", "unlink", "undo_staging", "compare"} \subseteq Pcs
        /\ "filesystem_failed" \in Statuses /\ StepTells
    BY StepTellsKind DEF Ghosts, CommitConf, CommitStaging, SyncUnlinked, UndoConf, UndoStaging,
       RemoveSync, EraseSync, Fine, IndInv, StoreTypes, Pcs, Statuses
  <1>2. CASE CommitConf
    <2>1. op.pc = "sync_conf" /\ SyncConf /\ SameWork /\ op'.pc = "sync_staging"
      BY <1>1, <1>2, GotoDoes DEF CommitConf, At
    <2> QED BY <1>1, <2>1, FlushingConfKeeps
  <1>3. CASE CommitStaging
    <2>1. op.pc = "sync_staging" /\ SyncStaging /\ op.kind \in {"import", "replace"}
      BY <1>1, <1>3 DEF CommitStaging, At, StepTells
    <2>2. CASE op.kind = "import"
      <3>1. SameWork /\ op'.pc = "end"
        BY <1>1, <1>3, <2>2, GotoDoes DEF CommitStaging
      <3> QED BY <1>1, <2>1, <2>2, <3>1, FlushingStagingKeeps
    <2>3. CASE op.kind = "replace"
      <3>1. SameWork /\ op'.pc = "unlink"
        BY <1>1, <1>3, <2>3, GotoDoes DEF CommitStaging
      <3> QED BY <1>1, <2>1, <2>3, <3>1, FlushingStagingKeeps
    <2> QED BY <2>1, <2>2, <2>3
  <1>4. CASE SyncUnlinked
    <2>1. op.pc = "sync_unlinked" /\ SyncStaging /\ SameWork /\ op'.pc = "end"
      BY <1>1, <1>4, GotoDoes DEF SyncUnlinked, At
    <2> QED BY <1>1, <2>1, FlushingStagingKeeps
  <1>5. CASE UndoConf
    <2>1. op.pc = "undo_conf" /\ SyncConf /\ SameWork /\ op'.pc = "undo_staging"
      BY <1>1, <1>5, GotoDoes DEF UndoConf, At
    <2> QED BY <1>1, <2>1, FlushingConfKeeps
  <1>6. CASE UndoStaging
    <2>1. /\ op.pc = "undo_staging" /\ SyncStaging /\ SameWork /\ op'.pc = "remove"
          /\ op'.ret = "filesystem_failed"
      BY <1>1, <1>6, RemoveDoes DEF UndoStaging, At
    <2> QED BY <1>1, <2>1, FlushingStagingKeeps
  <1>7. CASE RemoveSync
    <2>1. op.pc = "remove_sync" /\ SyncStaging /\ Removed(op.ret) /\ op.ret \in Statuses
      BY <1>1, <1>7 DEF RemoveSync, At, OpRecords
    <2>2. CASE op.kind = "list" /\ op.ret \in {"success", "unavailable"}
      <3>1. SameWork /\ op'.pc = "compare" /\ op'.ret = op.ret
        BY <1>1, <2>1, <2>2, GotoDoes DEF Removed
      <3> QED BY <1>1, <2>1, <2>2, <3>1, FlushingStagingKeeps
    <2>3. CASE op.kind = "list" /\ op.ret = "invalid_config"
      <3>1. op' = [op EXCEPT !.pc = "end", !.report = "incompatible"]
        BY <2>1, <2>3 DEF Removed
      <3>2. SameWork /\ op'.pc = "end"
        BY <1>1, <3>1 DEF SameWork, OpRecords, Reports
      <3> QED BY <1>1, <2>1, <2>3, <3>2, FlushingStagingKeeps
    <2>4. CASE ~(op.kind = "list" /\ op.ret \in {"success", "unavailable", "invalid_config"})
      <3>1. Return(op.ret)
        BY <2>1, <2>4 DEF Removed
      <3>2. SameWork /\ op'.pc = "done" /\ op'.result = op.ret
        BY <1>1, <2>1, <3>1, ReturnDoes
      <3> QED BY <1>1, <2>1, <3>2, FlushingStagingKeeps
    <2> QED BY <2>2, <2>3, <2>4
  <1>8. CASE EraseSync
    <2>1. op.pc = "erase_sync" /\ SyncConf /\ op.kind \in {"import", "delete"}
      BY <1>1, <1>8 DEF EraseSync, At, StepTells
    <2>2. CASE op.kind = "delete"
      <3>1. SameWork /\ op'.pc = "end"
        BY <1>1, <1>8, <2>2, GotoDoes DEF EraseSync
      <3> QED BY <1>1, <2>1, <2>2, <3>1, FlushingConfKeeps
    <2>3. CASE op.kind = "import"
      <3>1. SameWork /\ op'.pc = "done" /\ op'.result = "filesystem_failed"
        BY <1>1, <1>8, <2>3, ReturnDoes DEF EraseSync
      <3> QED BY <1>1, <2>1, <2>3, <3>1, FlushingConfKeeps
    <2> QED BY <2>1, <2>2, <2>3
  <1> QED BY <1>2, <1>3, <1>4, <1>5, <1>6, <1>7, <1>8

\* Every step keeps the invariant.
LEMMA NextHolds ==
  ASSUME IndInv, [Next]_vars
  PROVE  IndInv'
  <1>1. CASE \E kind \in Operations, text \in {"good", "odd", "bad"} :
               /\ kind \notin {"import", "replace"} => text = "good"
               /\ Begin(kind, text)
    BY <1>1, BeginKeeps DEF Texts
  <1>2. CASE Helper
    BY <1>2, LateKeeps, QuietKeeps, MovesKeep, FlushesKeep, GetIdentityStep, ListReadStep,
       PrepareReadStep, CreateKeeps, WriteKeeps DEF Helper
  <1>3. CASE Killed \/ Crash
    BY <1>3, KilledKeeps, CrashKeeps
  <1>4. CASE Admin
    BY <1>4, AdminReplacesKeeps, AdminWritesKeeps, AdminDeletesKeeps DEF Admin
  <1>5. CASE UNCHANGED vars
    <2>1. UNCHANGED <<files, conf, temp, disk, op, edit, was, used>>
      BY <1>5 DEF vars
    <2>2. /\ StoreTypes' = StoreTypes /\ StepsFit' = StepsFit /\ Candidate' = Candidate
          /\ StagingFollows' = StagingFollows /\ OldOrNew' = OldOrNew /\ StampsGrow' = StampsGrow
      BY <2>1 DEF StoreTypes, Inodes, StepsFit, Storing, Candidate, IsWhole, StagingFollows,
         OldOrNew, StampsGrow
    <2>3. EditFollows' = EditFollows /\ InspectionHolds' = InspectionHolds /\ EditSurvives' = EditSurvives
      BY <2>1 DEF EditFollows, InspectionHolds, EditSurvives, Storing, Kept, Identity, Metadata, Secure
    <2>4. TypeOK' = TypeOK /\ CrashFindsOldOrNew' = CrashFindsOldOrNew
          /\ AllOrNothing' = AllOrNothing /\ StagingIsClean' = StagingIsClean
      BY <2>1 DEF TypeOK, Inodes, CrashFindsOldOrNew, AllOrNothing, StagingIsClean
    <2> QED BY <2>2, <2>3, <2>4 DEF IndInv, StoreIsConsistent
  <1> QED BY <1>1, <1>2, <1>3, <1>4, <1>5 DEF Next

\* The inductive invariant of the profile store: where each step of an operation has got to.
THEOREM InvariantHolds == Spec => []IndInv
  <1> QED BY InitHolds, NextHolds, PTL DEF Spec

\* Whenever an operation, the helper or the machine stops, the profile is the old one or the
\* new one, whole, the result agrees with it, an edit by the administrator is not overwritten
\* unseen, and a helper that was not killed leaves no staging file (helper_profiles.c with
\* helper_storage.c), whatever the numbers of operations, edits, failing calls and crashes.
THEOREM StoreStaysConsistent == Spec => []StoreIsConsistent
  <1>1. IndInv => StoreIsConsistent
    BY DEF IndInv
  <1> QED BY <1>1, InvariantHolds, PTL
-----------------------------------------------------------------------------
(* What a list reports.                                                      *)

\* Going on, returning and removing report nothing.
LEMMA NothingIsReported ==
  ASSUME op \in OpRecords, NEW q, Goto(q) \/ Return(q) \/ Remove(q)
  PROVE  op'.report = op.report
  BY DEF Goto, Return, Remove, OpRecords

\* Only the end of an inspection reports that a profile is available.
LEMMA OnlyCompareReports ==
  ASSUME IndInv, Next, op'.report = "available", op.report # "available"
  PROVE  Compare
  <1> SUFFICES ASSUME ~Compare
               PROVE  FALSE
    OBVIOUS
  <1>1. op \in OpRecords /\ op' # op
    BY DEF IndInv, StoreTypes
  <1> DEFINE Says(r) == op' = [op EXCEPT !.pc = "end", !.report = r]
  <1>2. ASSUME NEW r \in {"file_security", "invalid", "incompatible", "changed"}, Says(r)
        PROVE  FALSE
    BY <1>1, <1>2 DEF OpRecords
  <1> HIDE DEF Says
  <1>3. CASE Helper
    <2>1. CASE Late \/ GetIdentity \/ Create
      BY <1>1, <2>1, NothingIsReported DEF Late, GetIdentity, Create, OpRecords
    <2>2. CASE CheckTarget
      BY <1>1, <2>2, NothingIsReported DEF CheckTarget
    <2>3. CASE DeleteCheck
      BY <1>1, <2>3, NothingIsReported DEF DeleteCheck
    <2>4. CASE ListRead
      <3>1. op' # [op EXCEPT !.pc = "create", !.text = files[conf].kind, !.original = Metadata(conf)]
        BY <1>1 DEF OpRecords
      <3>2. \/ \E q : Goto(q) \/ Return(q)
            \/ Says("file_security") \/ Says("invalid")
        BY <2>4, <3>1 DEF ListRead, Says
      <3> QED BY <1>1, <1>2, <3>2, NothingIsReported
    <2>5. CASE PrepareRead
      BY <1>1, <2>5, NothingIsReported DEF PrepareRead, OpRecords
    <2>6. CASE Write \/ StopCheck \/ Verify \/ CommitConf \/ CommitStaging \/ UnlinkOld
               \/ SyncUnlinked \/ End \/ UndoConf \/ UndoStaging \/ RemoveTemp \/ Erase
      BY <1>1, <2>6, NothingIsReported DEF Write, StopCheck, Verify, CommitConf, CommitStaging,
         UnlinkOld, SyncUnlinked, End, UndoConf, UndoStaging, RemoveTemp, Erase
    <2>7. CASE Strip
      BY <1>1, <2>7, NothingIsReported DEF Strip
    <2>8. CASE Recheck \/ Exists
      BY <1>1, <2>8, NothingIsReported DEF Recheck, Exists
    <2>9. CASE Rename \/ Exchange \/ Rollback \/ EraseSync
      BY <1>1, <2>9, NothingIsReported DEF Rename, Exchange, Rollback, EraseSync
    <2>10. ASSUME NEW r, Removed(r)
           PROVE  FALSE
      <3>1. (\E q : Goto(q) \/ Return(q)) \/ Says("incompatible")
        BY <2>10 DEF Removed, Says
      <3> QED BY <1>1, <1>2, <3>1, NothingIsReported
    <2>11. CASE RemoveSync
      BY <2>10, <2>11 DEF RemoveSync
    <2>12. CASE CallFails
      <3>1. \/ \E q : Goto(q) \/ Return(q) \/ Remove(q)
            \/ \E r : Removed(r)
            \/ Says("changed")
        BY <2>12 DEF CallFails, Says
      <3> QED BY <1>1, <1>2, <2>10, <3>1, NothingIsReported
    <2> QED BY <1>3, <2>1, <2>2, <2>3, <2>4, <2>5, <2>6, <2>7, <2>8, <2>9, <2>11, <2>12 DEF Helper
  <1>4. CASE Killed \/ Crash
    BY <1>4 DEF Killed, Crash, Idle
  <1>5. CASE \E kind \in Operations, text \in {"good", "odd", "bad"} : Begin(kind, text)
    BY <1>5 DEF Begin, Idle
  <1>6. CASE Admin
    <2>1. \E id, gone : Edits(id, gone)
      BY <1>6 DEF Admin, AdminReplaces, AdminWrites, AdminDeletes
    <2> QED BY <1>1, <2>1 DEF Edits
  <1> QED BY <1>3, <1>4, <1>5, <1>6 DEF Next

\* A profile is reported available only when the file that is there at the end of the
\* inspection is one that the inspection accepted, or one it could not put to awg-quick
\* (inspect_profile in helper_profiles.c): whatever was edited during the inspection.
THEOREM AvailabilityIsEarned == Spec => AvailableWasValid
  <1> DEFINE Earned == /\ conf # 0
                       /\ \/ files[conf].kind = "good"
                          \/ files[conf].kind = "odd" /\ op.ret = "unavailable"
  <1>1. ASSUME IndInv, Next, op'.report = "available", op.report # "available"
        PROVE  Earned
    <2>1. Compare
      BY <1>1, OnlyCompareReports
    <2>2. op.pc = "compare" /\ op.kind = "list" /\ op \in OpRecords
      BY <1>1, <2>1, StepTellsKind DEF Compare, At, StepTells, IndInv, StoreTypes
    <2>3. conf # 0 /\ Metadata(conf) = op.original
      <3>1. op'.report = IF conf # 0 /\ Metadata(conf) = op.original THEN "available" ELSE "changed"
        BY <2>1, <2>2 DEF Compare, OpRecords
      <3> QED BY <1>1, <3>1
    <2>4. op.original.id.ino = conf
      BY <2>3 DEF Metadata, Identity
    <2> QED BY <1>1, <2>2, <2>3, <2>4 DEF IndInv, InspectionHolds
  <1>2. IndInv /\ [Next]_vars => [(op'.report = "available" /\ op.report # "available") => Earned]_vars
    BY <1>1
  <1> QED BY <1>2, InvariantHolds, PTL DEF Spec, AvailableWasValid
=============================================================================
