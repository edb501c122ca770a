-------------------------------- MODULE Binary --------------------------------
(***************************************************************************)
(* The installed binary: `slugaudit install` and `slugaudit update`        *)
(* (src/src/install.rs, install_place.rs, update.rs, update_fetch.rs,      *)
(* install/path.rs), run by several processes at once.                     *)
(*                                                                         *)
(* GitHub, curl and sha256sum are external: a release's asset may be       *)
(* uploaded again between two downloads, a download may end with other     *)
(* bytes, a digest tells builds apart.  A file's bytes survive a power     *)
(* loss only if they were synced; a rename is atomic and keeps its order.  *)
(***************************************************************************)
EXTENDS Naturals, FiniteSets

CONSTANTS
  Commands,     \* running `slugaudit install` and `slugaudit update` processes
  MaxTag,       \* bound: releases published
  MaxUploads,   \* bound: uploads of one release's asset
  MaxFaults     \* bound: processes killed and power lost

ASSUME BinaryAssumption == MaxTag \in Nat \ {0} /\ MaxUploads \in Nat \ {0} /\ MaxFaults \in Nat

VARIABLES
  target,    \* slugaudit
  prev,      \* slugaudit.prev
  uploads,   \* per release: uploads of its asset, 0 if it is not published
  command,   \* per process: what it runs and where it is
  pathLines, \* lines of the shell's startup file that add the directory
  faults

binaryVars == <<target, prev, uploads, command, pathLines, faults>>

Tags == 0..MaxTag
\* A file: the build it holds and whether its bytes are synced; a torn file
\* is what an unsynced one becomes, a garbled one is no build.
NoBinary == [tag |-> 0, upload |-> 0, state |-> "none", synced |-> TRUE]
Build(tag, upload) == [tag |-> tag, upload |-> upload, state |-> "whole", synced |-> FALSE]
Garbled == [NoBinary EXCEPT !.state = "garbled", !.synced = FALSE]
Whole(file) == file.state = "whole"
Exists(file) == file.state # "none"

Quiet == [pc |-> "quiet", kind |-> "none", current |-> 0, tag |-> 0, staged |-> NoBinary,
          kept |-> NoBinary, sums |-> 0, onPath |-> FALSE, end |-> "none"]
CommandPcs == {"quiet", "stage", "latest", "download", "sums", "verify", "mark", "copy", "sync",
               "place", "path", "append", "clean"}

BinaryInit ==
  /\ target \in {NoBinary, [Build(1, 1) EXCEPT !.synced = TRUE]} /\ prev = NoBinary
  /\ uploads = [t \in 1..MaxTag |-> IF t = 1 THEN 1 ELSE 0]
  /\ command = [c \in Commands |-> Quiet] /\ pathLines = 0 /\ faults = 0

AtStep(c, pc) == command[c].pc = pc
GoTo(c, pc) == command' = [command EXCEPT ![c].pc = pc]
UnchangedFiles == UNCHANGED <<target, prev, uploads, pathLines, faults>>
Ends(c, end) == command' = [command EXCEPT ![c] = [Quiet EXCEPT !.end = end]]

\* run_update starts with the version it was built as, 0 if that is not a
\* number; the build at hand is copied by run_install.
StartCommand(c) ==
  /\ command[c] = Quiet
  /\ \E kind \in {"install", "update"}, current \in 0..1 :
       command' = [command EXCEPT ![c] = [Quiet EXCEPT
         !.kind = kind, !.current = current, !.pc = IF kind = "install" THEN "stage" ELSE "latest"]]
  /\ UnchangedFiles

\* std::fs::copy; a failed one is removed.
StageInstall(c) ==
  /\ AtStep(c, "stage")
  /\ \/ command' = [command EXCEPT ![c].staged = Build(command[c].current, 1), ![c].pc = "mark"]
     \/ Ends(c, "error")
  /\ UnchangedFiles

\* fetch_latest_release, update_decision: an equal or newer build stops here,
\* one that cannot be compared goes on.
Latest == CHOOSE t \in 1..MaxTag : uploads[t] > 0 /\ \A u \in t + 1..MaxTag : uploads[u] = 0
UpToDate(current) == current # 0 /\ current >= Latest
AskLatest(c) ==
  /\ AtStep(c, "latest")
  /\ \/ IF UpToDate(command[c].current) THEN Ends(c, "up_to_date")
        ELSE command' = [command EXCEPT ![c].tag = Latest, ![c].pc = "download"]
     \/ Ends(c, "error")
  /\ UnchangedFiles

\* download: both files, each under a name of the process.
DownloadBinary(c) ==
  LET tag == command[c].tag IN
  /\ AtStep(c, "download")
  /\ \/ \E file \in {Build(tag, uploads[tag]), Garbled} :
          command' = [command EXCEPT ![c].staged = file, ![c].pc = "sums"]
     \/ command' = [command EXCEPT ![c].pc = "clean", ![c].end = "error"]
  /\ UnchangedFiles
DownloadSums(c) ==
  /\ AtStep(c, "sums")
  /\ \/ command' = [command EXCEPT ![c].sums = uploads[command[c].tag], ![c].pc = "verify"]
     \/ command' = [command EXCEPT ![c].pc = "clean", ![c].end = "error"]
  /\ UnchangedFiles

\* Wrong variant: the download is taken as it is.
Unverified(c) == TRUE
\* verify_checksum: the digest of the file is the one the sums name.
Verified(c) == Whole(command[c].staged) /\ command[c].staged.upload = command[c].sums
Verify(c) ==
  /\ AtStep(c, "verify")
  /\ command' = [command EXCEPT ![c].pc = IF Verified(c) THEN "mark" ELSE "clean",
                                ![c].end = IF Verified(c) THEN @ ELSE "error"]
  /\ UnchangedFiles

-----------------------------------------------------------------------------
\* place_staged_binary.

\* make_executable, then try_exists of the target.
MarkExecutable(c) ==
  /\ AtStep(c, "mark")
  /\ \/ GoTo(c, IF Exists(target) THEN "copy" ELSE "place")
     \/ command' = [command EXCEPT ![c].pc = "clean", ![c].end = "error"]
  /\ UnchangedFiles

\* retain_previous_binary: a copy under a name of the process, synced and
\* renamed.  Another process may have replaced the target, never emptied it.
CopyTarget(c) ==
  /\ AtStep(c, "copy")
  /\ \/ command' = [command EXCEPT ![c].kept = [target EXCEPT !.synced = FALSE], ![c].pc = "sync"]
     \/ command' = [command EXCEPT ![c].pc = "clean", ![c].end = "error"]
  /\ UnchangedFiles
\* Wrong variant: the retained copy is left to the page cache.
LeftToCache(file) == file
Synced(file) == [file EXCEPT !.synced = TRUE]
SyncAndRetain(c) ==
  /\ AtStep(c, "sync")
  /\ \/ prev' = Synced(command[c].kept) /\ GoTo(c, "place")
     \/ command' = [command EXCEPT ![c].pc = "clean", ![c].end = "error"] /\ UNCHANGED prev
  /\ UNCHANGED <<target, uploads, pathLines, faults>>

PlaceBinary(c) ==
  /\ AtStep(c, "place")
  /\ \/ /\ target' = command[c].staged
        /\ command' = [command EXCEPT ![c].staged = NoBinary, ![c].end = "placed",
                                      ![c].pc = IF command[c].kind = "install" THEN "path" ELSE "clean"]
     \/ command' = [command EXCEPT ![c].pc = "clean", ![c].end = "error"] /\ UNCHANGED target
  /\ UNCHANGED <<prev, uploads, pathLines, faults>>

\* remove_leftover of the process's own files, best effort.
CleanUp(c) ==
  /\ AtStep(c, "clean") /\ Ends(c, command[c].end) /\ UnchangedFiles

\* add_to_path: when the user agrees, the startup file is read, then
\* appended to if no line of it is the one to add.
ReadStartupFile(c) ==
  /\ AtStep(c, "path")
  /\ \/ command' = [command EXCEPT ![c].onPath = pathLines > 0, ![c].pc = "append"]
     \/ Ends(c, "placed")
  /\ UnchangedFiles
AppendLine(c) ==
  /\ AtStep(c, "append") /\ Ends(c, "placed")
  /\ pathLines' = IF command[c].onPath THEN pathLines ELSE pathLines + 1
  /\ UNCHANGED <<target, prev, uploads, faults>>

-----------------------------------------------------------------------------
Upload ==
  /\ \E t \in 1..MaxTag :
       /\ uploads[t] < MaxUploads /\ \A u \in 1..t - 1 : uploads[u] > 0
       /\ uploads' = [uploads EXCEPT ![t] = @ + 1]
  /\ UNCHANGED <<target, prev, command, pathLines, faults>>

KillCommand(c) ==
  /\ ~AtStep(c, "quiet") /\ faults < MaxFaults /\ faults' = faults + 1
  /\ Ends(c, "killed") /\ UNCHANGED <<target, prev, uploads, pathLines>>

\* The power goes: unsynced bytes may be lost, every process is.
Survives(file, after) == after = file \/ (~file.synced /\ after = [file EXCEPT !.state = "torn"])
LosePower ==
  /\ faults < MaxFaults /\ faults' = faults + 1
  /\ \E t \in {target, [target EXCEPT !.state = "torn"]}, p \in {prev, [prev EXCEPT !.state = "torn"]} :
       /\ Survives(target, t) /\ Survives(prev, p) /\ target' = t /\ prev' = p
  /\ command' = [c \in Commands |-> IF AtStep(c, "quiet") THEN command[c] ELSE [Quiet EXCEPT !.end = "killed"]]
  /\ UNCHANGED <<uploads, pathLines>>

BinaryNext ==
  \/ \E c \in Commands :
       \/ StartCommand(c) \/ StageInstall(c) \/ AskLatest(c) \/ DownloadBinary(c) \/ DownloadSums(c)
       \/ Verify(c) \/ MarkExecutable(c) \/ CopyTarget(c) \/ SyncAndRetain(c) \/ PlaceBinary(c)
       \/ CleanUp(c) \/ ReadStartupFile(c) \/ AppendLine(c) \/ KillCommand(c)
  \/ Upload \/ LosePower

BinarySpec == BinaryInit /\ [][BinaryNext]_binaryVars

BinaryTypeOK ==
  /\ \A file \in {target, prev} : file.state \in {"none", "whole", "torn", "garbled"} /\ file.tag \in Tags
  /\ \A c \in Commands : command[c].pc \in CommandPcs /\ command[c].staged.upload \in 0..MaxUploads
  /\ pathLines \in 0..Cardinality(Commands) /\ faults \in 0..MaxFaults

\* An earlier command retained a target that a power loss had torn.
RetainedTorn == prev.state = "torn" /\ prev.synced

\* Whatever commands run at once, fail, are killed or lose the power: no file
\* is ever one that verification refuses, the target does not go away, and
\* it or the one it displaced is whole, unless a later command retained a
\* target the power loss tore (place_staged_binary, retain_previous_binary).
BinaryIsRunnable ==
  /\ target.state # "garbled" /\ prev.state # "garbled"
  /\ Exists(prev) => Exists(target)
  /\ Exists(prev) => Whole(target) \/ Whole(prev) \/ RetainedTorn
  /\ faults = 0 /\ Exists(target) => Whole(target)

-----------------------------------------------------------------------------
(* The inductive invariant behind BinaryIsRunnable.                         *)

BinaryFiles == [tag : Nat, upload : Nat, state : {"none", "whole", "torn", "garbled"}, synced : BOOLEAN]
CommandStates ==
  [pc : CommandPcs, kind : {"none", "install", "update"}, current : 0..1, tag : Nat, staged : BinaryFiles,
   kept : BinaryFiles, sums : Nat, onPath : BOOLEAN,
   end : {"none", "error", "up_to_date", "placed", "killed"}]

BinaryShape ==
  /\ target \in BinaryFiles /\ prev \in BinaryFiles
  /\ uploads \in [1..MaxTag -> Nat] /\ uploads[1] > 0 /\ command \in [Commands -> CommandStates]
  /\ faults \in Nat

\* What a command downloads is published; past its check it stages a whole build
\* only; and it retains a copy of a target that was there.
CommandHolds(step, there) ==
  /\ step.pc \in {"download", "sums"} => step.tag \in 1..MaxTag
  /\ step.pc \in {"mark", "copy", "sync", "place"} => Whole(step.staged)
  /\ step.pc \in {"copy", "sync"} => there
  /\ step.pc = "sync" => step.kept.state \in {"whole", "torn"}

\* What is retained is synced: no power loss reaches it.  Before the first
\* fault every placed file is whole.
PlacedHold ==
  /\ target.state # "garbled" /\ (faults = 0 => target.state # "torn")
  /\ prev.state # "garbled" /\ prev.synced /\ (Exists(prev) => Exists(target))

BinaryInv ==
  BinaryShape /\ PlacedHold /\ \A c \in Commands : CommandHolds(command[c], Exists(target))
===============================================================================
