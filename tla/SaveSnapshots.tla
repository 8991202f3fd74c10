---------------------------- MODULE SaveSnapshots ----------------------------
(***************************************************************************)
(* The save points of one server and their snapshots                       *)
(* (servers/save_snapshots.py and the routes of api/server_saves.py).      *)
(* Nothing but the file system holds them: a save point is a directory     *)
(* the game writes, a snapshot is an archive with a manifest beside it,    *)
(* written and unlinked one after the other by worker threads.  Requests   *)
(* of several clients interleave wherever the code awaits or hands over to *)
(* a thread; the game writes while it runs; the backend may be killed.     *)
(*                                                                         *)
(* A save is identified with its uuid (m_Id of meta-info.json).  Labels,   *)
(* sizes and the other metadata are left out; a refused free-space check   *)
(* is a request that may end wherever the code makes the check.            *)
(***************************************************************************)
EXTENDS Naturals, FiniteSets

CONSTANTS
    Saves,          \* the saves the game writes and clients upload, by uuid
    Dirs,           \* the save point directories of the server's scenario
    Roots,          \* the directories a save is made in, by the game or an archive
    Playthroughs,   \* the sets of directories that make up one playthrough
    Ids,            \* snapshot ids; a bound on the snapshots that exist at once
    Clients,        \* concurrent requests
    Cap,            \* SAVE_SNAPSHOT_MAX_PER_SERVER
    Overlaps,       \* which overlaps the code leaves open are let happen:
                    \*   "start"  a server starts while saves are being changed
                    \*   "rename" a rename while the same snapshot is deleted
                    \*   "crash"  the backend is killed between a delete's two unlinks
                    \*   "arm"    a save is armed beside a delete that takes it away
    None            \* no save, no directory, no snapshot

ASSUME CapAssumption == Cap \in Nat \ {0}
ASSUME RootsAssumption == Roots \in [Saves -> SUBSET Dirs] /\ Playthroughs \subseteq SUBSET Dirs
ASSUME ClientsAssumption == IsFiniteSet(Clients) /\ Clients # {}

VARIABLES
    disk,       \* what each save point directory holds
    archive,    \* the archive of each snapshot: its root directory and content
    manifest,   \* the manifest of each snapshot: uuid, location, who made it
    pinned,     \* server.save_pinned_uuid
    running,    \* the supervisor has an active process of this server
    req,        \* the request of each client
    written,    \* history: saves the game finished or a client uploaded
    discarded   \* history: saves a copy of which a client or the game removed

vars == <<disk, archive, manifest, pinned, running, req, written, discarded>>

-----------------------------------------------------------------------------
(* A directory or an archive holds a save whole, or the part of it that an  *)
(* interrupted copy left, with its meta-info.json ("torn") or without.      *)
Content == [save: Saves, state: {"whole", "torn", "bare"}]

Archive == [root: Dirs, content: Content]

(* A manifest names the save and its directory; both are missing when the   *)
(* directory was archived without metadata.  Only create_snapshot knows the *)
(* scenario as well, an upload's is looked up when it is restored.          *)
Manifest == [uuid: Saves \cup {None}, dir: Dirs \cup {None}, scenario: BOOLEAN]

ASSUME NoneAssumption == None \notin Saves \cup Dirs \cup Ids \cup Content \cup Archive \cup Manifest

Uuid(c) == IF c = None \/ c.state = "bare" THEN None ELSE c.save

(* discover: every save point directory, with metadata or without.          *)
SavePoints == {d \in Dirs : disk[d] # None}

Located(u) == {d \in SavePoints : Uuid(disk[d]) = u}

Listed == {i \in Ids : manifest[i] # None}

(* The copies of a save of which nothing is missing. *)
WholeOnDisk(s) == \E d \in Dirs : disk[d] = [save |-> s, state |-> "whole"]
WholeInArchive(s) ==
    \E i \in Ids : archive[i] # None /\ archive[i].content = [save |-> s, state |-> "whole"]

(* What a removal that fails midway leaves of a directory.                  *)
Remains(c) ==
    IF c = None THEN {None}
    ELSE {[c EXCEPT !.state = st] : st \in {c.state, "bare"} \cup
                                          IF c.state = "bare" THEN {} ELSE {"torn"}}

Held(c) == IF c = None THEN {} ELSE {c.save}

(* What a request remembers between its steps: the snapshot it is about,    *)
(* the one it is making, the directory it archives or restores to (or those *)
(* it deletes), the uuid it looked for (or those it found there), the row   *)
(* or the files it read, the uuid to pin at its end.                        *)
Idle == [op |-> "none", pc |-> "idle", id |-> None, new |-> None, from |-> None,
         target |-> None, uuid |-> None, seen |-> None, arm |-> None]

Fresh(i) ==
    /\ archive[i] = None /\ manifest[i] = None
    /\ \A c \in Clients : i \notin {req[c].id, req[c].new}

(* Whether a request may begin beside those of the given kinds. *)
Apart(overlap, ops) == overlap \in Overlaps \/ \A k \in Clients : req[k].op \notin ops

(* A save may be armed beside the deletes that are known to leave it alone. *)
MayArm(u) ==
    "arm" \in Overlaps
      \/ \A k \in Clients : req[k].op = "remove" => req[k].pc # "find" /\ u \notin req[k].uuid

Changing == \E c \in Clients : req[c].op \in {"restore", "upload", "remove"}

(* _refuse_while_running: the only look at the supervisor a request takes. *)
NotRunning == ~running

Done(c) == req' = [req EXCEPT ![c] = Idle]

Goes(c, pc) == req' = [req EXCEPT ![c].pc = pc]

Init ==
    /\ disk = [d \in Dirs |-> None]
    /\ archive = [i \in Ids |-> None]
    /\ manifest = [i \in Ids |-> None]
    /\ pinned = None
    /\ running = FALSE
    /\ req = [c \in Clients |-> Idle]
    /\ written = {}
    /\ discarded = {}

-----------------------------------------------------------------------------
(* The game and the supervisor, as far as they touch the saves. *)

(* start falls back to the latest save when the pinned one is not on disk, *)
(* and consumes a selection that is not sticky.                            *)
StartServer ==
    /\ ~running
    /\ "start" \in Overlaps \/ ~Changing
    /\ running' = TRUE
    /\ pinned' \in {IF Located(pinned) = {} THEN None ELSE pinned, None}
    /\ UNCHANGED <<disk, archive, manifest, req, written, discarded>>

ServerExits ==
    /\ running
    /\ running' = FALSE
    /\ UNCHANGED <<disk, archive, manifest, pinned, req, written, discarded>>

(* An autosave into a directory of its own or over the oldest one. *)
GameSaves(s, d) ==
    /\ running
    /\ s \notin written
    /\ disk' = [disk EXCEPT ![d] = [save |-> s, state |-> "whole"]]
    /\ written' = written \cup {s}
    /\ discarded' = discarded \cup Held(disk[d])
    /\ UNCHANGED <<archive, manifest, pinned, running, req>>

(* The backend is killed, and the game with it. *)
Crash ==
    /\ \E c \in Clients : req[c] # Idle
    /\ "crash" \in Overlaps \/ \A c \in Clients : req[c].pc # "unlink"
    /\ req' = [c \in Clients |-> Idle]
    /\ running' = FALSE
    /\ UNCHANGED <<disk, archive, manifest, pinned, written, discarded>>

-----------------------------------------------------------------------------
(* create_snapshot, by its route and as the backup of a restore *)

CreateCall(c, u) ==
    /\ req[c] = Idle
    /\ NotRunning
    /\ req' = [req EXCEPT ![c] = [Idle EXCEPT !.op = "create", !.pc = "locate", !.uuid = u]]
    /\ UNCHANGED <<disk, archive, manifest, pinned, running, written, discarded>>

(* The cap is checked here, several steps before the manifest that counts;  *)
(* concurrent requests pass it together.                                    *)
AtCap == Cardinality(Listed) >= Cap

(* Locating by uuid goes over every save point, so the directory found need *)
(* not be the one a restore is about to replace.                            *)
Locate(c) ==
    /\ req[c].pc = "locate"
    /\ ~AtCap
    /\ \E d \in Located(req[c].uuid), i \in Ids :
          /\ Fresh(i)
          /\ req' = [req EXCEPT ![c].pc = "tar", ![c].from = d, ![c].new = i]
    /\ UNCHANGED <<disk, archive, manifest, pinned, running, written, discarded>>

(* Mutant of LocateFails: a restore goes on without its backup. *)
LocateFailsSoftly(c) ==
    /\ req[c].pc = "locate"
    /\ IF req[c].op = "restore" THEN Goes(c, "extract") ELSE Done(c)
    /\ UNCHANGED <<disk, archive, manifest, pinned, running, written, discarded>>

(* SaveNotFoundError, SnapshotCapExceededError or no space ends the request, *)
(* a restore too, before it has touched its target.                          *)
LocateFails(c) ==
    /\ req[c].pc = "locate"
    /\ Done(c)
    /\ UNCHANGED <<disk, archive, manifest, pinned, running, written, discarded>>

TarBegins(c) ==
    /\ req[c].pc = "tar"
    /\ disk[req[c].from] # None
    /\ req' = [req EXCEPT ![c].pc = "tarring", ![c].seen = disk[req[c].from]]
    /\ UNCHANGED <<disk, archive, manifest, pinned, running, written, discarded>>

(* The archive appears by os.replace.  A directory that changed under the   *)
(* tar gives an archive of the files that were still there.                 *)
TarEnds(c) ==
    LET d == req[c].from
        states == IF disk[d] = req[c].seen THEN {req[c].seen.state} ELSE {"torn", "bare"}
    IN  /\ req[c].pc = "tarring"
        /\ \E st \in states :
              archive' = [archive EXCEPT ![req[c].new] =
                  [root |-> d, content |-> [save |-> req[c].seen.save, state |-> st]]]
        /\ req' = [req EXCEPT ![c].pc = "manifest", ![c].seen = None]
        /\ UNCHANGED <<disk, manifest, pinned, running, written, discarded>>

(* A file vanished under the tar, or no space was left. *)
TarFails(c) ==
    /\ req[c].pc \in {"tar", "tarring"}
    /\ Done(c)
    /\ UNCHANGED <<disk, archive, manifest, pinned, running, written, discarded>>

NewManifest(r) ==
    [uuid |-> r.uuid, dir |-> IF r.uuid = None THEN None ELSE r.from,
     scenario |-> r.op # "upload" /\ r.uuid # None]

(* No space is left for it, or the process may not write it: the archive    *)
(* stays behind without a manifest.                                         *)
ManifestFails(c) ==
    /\ req[c].pc = "manifest"
    /\ Done(c)
    /\ UNCHANGED <<disk, archive, manifest, pinned, running, written, discarded>>

(* What follows the manifest: the route returns, a restore goes on to its   *)
(* target, an upload with restore_now ("id" is set) to a restore.           *)
WriteManifest(c) ==
    LET r == req[c] IN
    /\ r.pc = "manifest"
    /\ manifest' = [manifest EXCEPT ![r.new] = NewManifest(r)]
    /\ IF r.id = None THEN Done(c)
       ELSE req' = [req EXCEPT ![c].op = "restore", ![c].new = None, ![c].from = None, ![c].uuid = None,
                               ![c].pc = IF r.op = "restore" THEN "extract" ELSE "resolve"]
    /\ UNCHANGED <<disk, archive, pinned, running, written, discarded>>

-----------------------------------------------------------------------------
(* rename_snapshot and delete_snapshot: neither asks whether anything runs. *)
(* A client knows the ids list_snapshots gave it.                           *)

RenameReads(c, i) ==
    /\ req[c] = Idle
    /\ manifest[i] # None
    /\ Apart("rename", {"delete"})
    /\ req' = [req EXCEPT ![c] = [Idle EXCEPT !.op = "rename", !.pc = "rewrite",
                                              !.id = i, !.seen = manifest[i]]]
    /\ UNCHANGED <<disk, archive, manifest, pinned, running, written, discarded>>

RenameWrites(c) ==
    /\ req[c].pc = "rewrite"
    /\ manifest' = [manifest EXCEPT ![req[c].id] = req[c].seen]
    /\ Done(c)
    /\ UNCHANGED <<disk, archive, pinned, running, written, discarded>>

(* Two renames share one temporary file: the replace of the later one finds *)
(* it gone.                                                                 *)
RenameFails(c) ==
    /\ req[c].pc = "rewrite"
    /\ Done(c)
    /\ UNCHANGED <<disk, archive, manifest, pinned, running, written, discarded>>

(* Mutant of DeleteManifest: the request ends with the archive. *)
DeleteManifestNever(c) ==
    /\ req[c].pc = "unlink"
    /\ Done(c)
    /\ UNCHANGED <<disk, archive, manifest, pinned, running, written, discarded>>

DeleteArchive(c, i) ==
    /\ req[c] = Idle
    /\ Apart("rename", {"rename"})
    /\ manifest[i] # None
    /\ archive' = [archive EXCEPT ![i] = None]
    /\ discarded' = discarded \cup IF archive[i] = None THEN {} ELSE Held(archive[i].content)
    /\ req' = [req EXCEPT ![c] = [Idle EXCEPT !.op = "delete", !.pc = "unlink", !.id = i]]
    /\ UNCHANGED <<disk, manifest, pinned, running, written>>

DeleteManifest(c) ==
    /\ req[c].pc = "unlink"
    /\ manifest' = [manifest EXCEPT ![req[c].id] = None]
    /\ Done(c)
    /\ UNCHANGED <<disk, archive, pinned, running, written, discarded>>

-----------------------------------------------------------------------------
(* restore_snapshot *)

(* _auto_backup_existing: by uuid, and so through create_snapshot, or by a   *)
(* direct tar that knows no cap.                                            *)
BackupOf(r, d) ==
    IF Uuid(disk[d]) # None
    THEN {[r EXCEPT !.pc = "locate", !.target = d, !.uuid = Uuid(disk[d])]}
    ELSE {[r EXCEPT !.pc = "tar", !.target = d, !.from = d, !.new = n] : n \in {i \in Ids : Fresh(i)}}

(* Where it goes; what is there is backed up first.                         *)
Resolved(r) ==
    LET m == manifest[r.id]
        d == m.dir
    IN  IF \/ archive[r.id] = None \/ m = None \/ d = None
           \/ ~m.scenario /\ \A e \in SavePoints : Uuid(disk[e]) = None
        THEN {Idle}
        ELSE IF d \in SavePoints THEN BackupOf(r, d)
        ELSE {[r EXCEPT !.pc = "extract", !.target = d]}

(* The target is known with the manifest, or the saves are gone through for *)
(* the scenario of an upload.                                               *)
RestoreCall(c, i, arm) ==
    LET r == [Idle EXCEPT !.op = "restore", !.pc = "resolve", !.id = i,
                          !.arm = IF arm THEN manifest[i].uuid ELSE None]
    IN  /\ req[c] = Idle
        /\ NotRunning
        /\ archive[i] # None /\ manifest[i] # None
        /\ arm => MayArm(manifest[i].uuid)
        /\ \E q \in IF manifest[i].scenario THEN Resolved(r) ELSE {r} : req' = [req EXCEPT ![c] = q]
        /\ UNCHANGED <<disk, archive, manifest, pinned, running, written, discarded>>

Resolve(c) ==
    /\ req[c].pc = "resolve"
    /\ \E q \in Resolved(req[c]) : req' = [req EXCEPT ![c] = q]
    /\ UNCHANGED <<disk, archive, manifest, pinned, running, written, discarded>>

(* In the thread: the archive is validated, then the target removed. *)
RemoveTarget(c) ==
    /\ req[c].pc = "extract"
    /\ archive[req[c].id] # None
    /\ disk' = [disk EXCEPT ![req[c].target] = None]
    /\ Goes(c, "write")
    /\ UNCHANGED <<archive, manifest, pinned, running, written, discarded>>

(* ... and the members written under the archive's own root directory.      *)
Extract(c) ==
    LET r == req[c]
        a == archive[r.id]
    IN  /\ r.pc = "write"
        /\ a # None
        /\ disk' = [disk EXCEPT ![a.root] =
                      IF @ = None THEN a.content ELSE [a.content EXCEPT !.state = "torn"]]
        /\ IF r.arm = None THEN Done(c) ELSE Goes(c, "armed")
        /\ UNCHANGED <<archive, manifest, pinned, running, written, discarded>>

(* validate_archive refuses what is uploaded or restored, the archive is    *)
(* gone, or there is no space: nothing has happened.  The removal of the    *)
(* target fails midway, or the writing does: a part of a save is there.     *)
CopyFails(c) ==
    LET r == req[c]
        a == archive[r.id]
    IN  /\ r.pc \in {"store", "extract", "write"}
        /\ \/ UNCHANGED disk
           \/ /\ r.pc = "extract" /\ a # None
              /\ \E left \in Remains(disk[r.target]) : disk' = [disk EXCEPT ![r.target] = left]
           \/ /\ r.pc = "write" /\ a # None
              /\ \E st \in {"torn", "bare"} :
                    disk' = [disk EXCEPT ![a.root] = [save |-> a.content.save, state |-> st]]
        /\ Done(c)
        /\ UNCHANGED <<archive, manifest, pinned, running, written, discarded>>

-----------------------------------------------------------------------------
(* store_upload: no cap, and the restore it may go on to asks nothing again *)

UploadCall(c, s, d, restore, arm) ==
    /\ req[c] = Idle
    /\ NotRunning
    /\ restore /\ arm => MayArm(s)
    /\ \E i \in Ids :
          /\ Fresh(i)
          /\ req' = [req EXCEPT ![c] = [Idle EXCEPT
                !.op = "upload", !.pc = "store", !.new = i, !.from = d, !.uuid = s,
                !.id = IF restore THEN i ELSE None,
                !.arm = IF restore /\ arm THEN s ELSE None]]
    /\ UNCHANGED <<disk, archive, manifest, pinned, running, written, discarded>>

UploadStores(c) ==
    LET r == req[c] IN
    /\ r.pc = "store"
    /\ archive' = [archive EXCEPT ![r.new] =
                     [root |-> r.from, content |-> [save |-> r.uuid, state |-> "whole"]]]
    /\ written' = written \cup {r.uuid}
    /\ Goes(c, "manifest")
    /\ UNCHANGED <<disk, manifest, pinned, running, discarded>>

-----------------------------------------------------------------------------
(* The routes that remove save points or choose one *)

(* delete_save_point and delete_playthrough: the row is the one loaded with *)
(* the request ("seen"), before the directories are looked for.             *)
RemoveCall(c) ==
    /\ req[c] = Idle
    /\ NotRunning
    /\ "arm" \in Overlaps \/ \A k \in Clients : req[k].arm = None
    /\ req' = [req EXCEPT ![c] = [Idle EXCEPT !.op = "remove", !.pc = "find",
                                              !.uuid = {}, !.seen = pinned]]
    /\ UNCHANGED <<disk, archive, manifest, pinned, running, written, discarded>>

(* One save point by its uuid, or the directories of a playthrough.  Of the *)
(* row as it was loaded only a selection among the saves found matters.     *)
Removable(D) ==
    /\ D \cap SavePoints # {}
    /\ D \in Playthroughs \/ \E d \in SavePoints : D = {d} /\ Uuid(disk[d]) # None

RemoveFinds(c, D) ==
    LET found == {Uuid(disk[d]) : d \in D} \ {None} IN
    /\ req[c].pc = "find"
    /\ Removable(D)
    /\ req' = [req EXCEPT ![c].pc = "rmtree", ![c].target = D, ![c].uuid = found,
                          ![c].seen = IF @ \in found THEN @ ELSE None]
    /\ UNCHANGED <<disk, archive, manifest, pinned, running, written, discarded>>

(* In a thread, everything below the directories goes ...                   *)
RmTree(c) ==
    LET r == req[c] IN
    /\ r.pc = "rmtree"
    /\ disk' = [d \in Dirs |-> IF d \in r.target THEN None ELSE disk[d]]
    /\ discarded' = discarded \cup UNION {Held(disk[d]) : d \in r.target}
    /\ req' = [req EXCEPT ![c].pc = "commit", ![c].target = {}]
    /\ UNCHANGED <<archive, manifest, pinned, running, written>>

(* ... or one file is in the way, and what comes after it stays: the        *)
(* request ends before it has looked at the selection.                      *)
RmTreeFails(c) ==
    LET r == req[c] IN
    /\ r.pc = "rmtree"
    /\ \E gone \in SUBSET r.target : \E d \in r.target \ gone : \E left \in Remains(disk[d]) :
          disk' = [e \in Dirs |-> IF e \in gone THEN None ELSE IF e = d THEN left ELSE disk[e]]
    /\ discarded' = discarded \cup UNION {Held(disk[d]) : d \in r.target}
    /\ Done(c)
    /\ UNCHANGED <<archive, manifest, pinned, running, written>>

(* Mutant of RemoveCommits: the selection is left alone.                    *)
RemoveKeepsSelection(c) ==
    /\ req[c].pc = "commit"
    /\ Done(c)
    /\ UNCHANGED <<disk, archive, manifest, pinned, running, written, discarded>>

(* A selection is cleared when the row as it was loaded named one of them.  *)
RemoveCommits(c) ==
    LET r == req[c] IN
    /\ r.pc = "commit"
    /\ pinned' = IF r.seen \in r.uuid THEN None ELSE pinned
    /\ Done(c)
    /\ UNCHANGED <<disk, archive, manifest, running, written, discarded>>

(* arm_save: the save point is looked for, then the row written.            *)
ArmSave(c, u) ==
    /\ req[c] = Idle
    /\ MayArm(u)
    /\ Located(u) # {}
    /\ req' = [req EXCEPT ![c] = [Idle EXCEPT !.op = "arm", !.pc = "armed", !.arm = u]]
    /\ UNCHANGED <<disk, archive, manifest, pinned, running, written, discarded>>

(* The selection of an arm or a restore; its stickiness is left out.        *)
Arms(c) ==
    /\ req[c].pc = "armed"
    /\ pinned' = req[c].arm
    /\ Done(c)
    /\ UNCHANGED <<disk, archive, manifest, running, written, discarded>>

(* The request ends with nothing written: no such save point, a commit that *)
(* fails, a selection the row already had when it was loaded.               *)
NothingCommitted(c) ==
    /\ req[c].pc \in {"find", "commit", "armed"}
    /\ Done(c)
    /\ UNCHANGED <<disk, archive, manifest, pinned, running, written, discarded>>

(* arm_fresh and clear_selection. *)
Unpin ==
    /\ pinned # None
    /\ pinned' = None
    /\ UNCHANGED <<disk, archive, manifest, running, req, written, discarded>>

-----------------------------------------------------------------------------
GameStep ==
    \/ StartServer
    \/ ServerExits
    \/ \E s \in Saves : \E d \in Roots[s] : GameSaves(s, d)

NewRequest(c) ==
    \/ \E u \in Saves : CreateCall(c, u)
    \/ \E i \in Ids : RenameReads(c, i) \/ DeleteArchive(c, i)
    \/ \E i \in Ids, arm \in BOOLEAN : RestoreCall(c, i, arm)
    \/ \E s \in Saves, restore, arm \in BOOLEAN : \E d \in Roots[s] :
          UploadCall(c, s, d, restore, arm)
    \/ RemoveCall(c)
    \/ \E u \in Saves : ArmSave(c, u)

RequestStep(c) ==
    \/ Locate(c) \/ LocateFails(c)
    \/ TarBegins(c) \/ TarEnds(c) \/ TarFails(c)
    \/ WriteManifest(c) \/ ManifestFails(c)
    \/ RenameWrites(c) \/ RenameFails(c) \/ DeleteManifest(c)
    \/ Resolve(c) \/ RemoveTarget(c) \/ Extract(c) \/ CopyFails(c)
    \/ UploadStores(c)
    \/ \E D \in SUBSET Dirs : RemoveFinds(c, D)
    \/ RmTree(c) \/ RmTreeFails(c) \/ RemoveCommits(c)
    \/ Arms(c) \/ NothingCommitted(c)

Next ==
    \/ GameStep
    \/ Crash
    \/ Unpin
    \/ \E c \in Clients : NewRequest(c) \/ RequestStep(c)

Spec == Init /\ [][Next]_vars

-----------------------------------------------------------------------------
(* Types of the variables; "pc" of a request says where it is suspended. *)
TypeOK ==
    /\ disk \in [Dirs -> Content \cup {None}]
    /\ archive \in [Ids -> Archive \cup {None}]
    /\ manifest \in [Ids -> Manifest \cup {None}]
    /\ pinned \in Saves \cup {None}
    /\ running \in BOOLEAN
    /\ \A c \in Clients :
          /\ req[c].op \in {"none", "create", "rename", "delete", "restore", "upload", "remove", "arm"}
          /\ req[c].pc \in {"idle", "locate", "tar", "tarring", "manifest", "rewrite", "unlink",
                            "resolve", "extract", "write", "store", "find", "rmtree",
                            "commit", "armed"}
          /\ {req[c].id, req[c].new} \subseteq Ids \cup {None}
          /\ req[c].pc \in {"extract", "write"} => req[c].target \in Dirs /\ req[c].id \in Ids
    /\ written \subseteq Saves
    /\ discarded \subseteq Saves

(* restore_snapshot: what a restore replaces is snapshotted first.  Over     *)
(* failing copies, crashes and concurrent requests, a save nobody asked to   *)
(* remove has a whole copy on disk or in an archive.                         *)
NeverDiscarded ==
    \A s \in written \ discarded : WholeOnDisk(s) \/ WholeInArchive(s)

(* list_snapshots reads manifests only: what it lists can be downloaded and *)
(* restored, except while delete_snapshot is between its two files.         *)
ListedHasArchive ==
    \A i \in Listed :
        archive[i] # None \/ \E c \in Clients : req[c].pc = "unlink" /\ req[c].id = i

(* The delete routes: deleting the armed save point clears the selection.   *)
(* The files go first, in a thread; when the row is committed after that it *)
(* names no save the delete found, whatever was selected, started, restored *)
(* or cleared since the row was loaded.                                     *)
DeletingUnpins ==
    [][\A c \in Clients : RemoveCommits(c) => pinned' \notin req[c].uuid]_vars

=============================================================================
