------------------------ MODULE SaveSnapshotsProofs ------------------------
(***************************************************************************)
(* Theorems about SaveSnapshots, for any saves, directories, snapshot ids,  *)
(* cap and number of clients.                                               *)
(***************************************************************************)
EXTENDS SaveSnapshots, TLAPS

-----------------------------------------------------------------------------
(* The books: what a request remembers, and which snapshot is its own       *)

Ops == {"none", "create", "rename", "delete", "restore", "upload", "remove", "arm"}
Pcs == {"idle", "locate", "tar", "tarring", "manifest", "rewrite", "unlink",
        "resolve", "extract", "write", "store", "find", "rmtree", "commit", "armed"}

Requests ==
    [op : Ops, pc : Pcs, id : Ids \cup {None}, new : Ids \cup {None}, from : Dirs \cup {None},
     target : Dirs \cup {None} \cup SUBSET Dirs, uuid : Saves \cup {None} \cup SUBSET Saves,
     seen : Content \cup Manifest \cup Saves \cup {None}, arm : Saves \cup {None}]

(* A request that makes a snapshot, and a restore that knows its target.    *)
Making(r) == r.pc \in {"tar", "tarring", "manifest", "store"}
Targeted(r) == r.op = "restore" /\ r.pc \notin {"resolve", "armed"}

Wellformed(r) ==
    /\ r.pc = "idle" => r = Idle
    /\ r.pc \in {"locate", "tar", "tarring"} => r.op \in {"create", "restore"}
    /\ r.pc = "locate" => r.uuid \in Saves
    /\ Making(r) => r.new \in Ids /\ r.from \in Dirs /\ r.uuid \in Saves \cup {None}
    /\ r.pc = "tarring" => r.seen \in Content
    /\ r.pc = "manifest" => r.op \in {"create", "restore", "upload"}
    /\ r.pc = "rewrite" => r.op = "rename" /\ r.id \in Ids /\ r.seen \in Manifest
    /\ r.pc = "unlink" => r.op = "delete" /\ r.id \in Ids
    /\ r.pc \in {"resolve", "extract", "write"} => r.op = "restore"
    /\ r.pc = "resolve" => r.uuid \in Saves \cup {None}
    /\ r.pc = "store" => r.op = "upload" /\ r.uuid \in Saves
    /\ r.pc \in {"find", "rmtree", "commit"} => r.op = "remove"
    /\ r.pc = "armed" => r.op \in {"restore", "arm"} /\ r.arm \in Saves
    /\ r.op = "create" => r.id = None
    /\ r.op = "restore" => /\ r.id \in Ids
                           /\ r.pc \in {"resolve", "locate", "tar", "tarring", "manifest",
                                        "extract", "write", "armed"}
    /\ r.op = "upload" => r.pc \in {"store", "manifest"} /\ r.id \in {None, r.new}
    /\ r.op = "remove" => /\ r.pc \in {"find", "rmtree", "commit"}
                          /\ r.pc = "rmtree" => r.target \in SUBSET Dirs
                          /\ r.uuid \in SUBSET Saves /\ r.seen \in Saves \cup {None}
    /\ r.op = "arm" => r.pc = "armed"
    /\ Targeted(r) => r.target \in Dirs

Types ==
    /\ disk \in [Dirs -> Content \cup {None}]
    /\ archive \in [Ids -> Archive \cup {None}]
    /\ manifest \in [Ids -> Manifest \cup {None}]
    /\ pinned \in Saves \cup {None}
    /\ running \in BOOLEAN
    /\ written \in SUBSET Saves /\ discarded \in SUBSET Saves

(* The archive and the manifest a request makes are not there before.       *)
Makes(r) ==
    Making(r) =>
        /\ manifest[r.new] = None
        /\ IF r.pc = "manifest"
           THEN archive[r.new] # None /\ archive[r.new].root = r.from
           ELSE archive[r.new] = None
        /\ r.op = "restore" => r.new # r.id

(* What a manifest says of the directory is the root of its archive.        *)
Rooted(r) ==
    /\ r.pc = "rewrite" /\ archive[r.id] # None /\ r.seen.dir # None
          => r.seen.dir = archive[r.id].root
    /\ Targeted(r) /\ archive[r.id] # None => archive[r.id].root = r.target

ManifestsRooted ==
    \A i \in Ids : archive[i] # None /\ manifest[i] # None /\ manifest[i].dir # None
                      => manifest[i].dir = archive[i].root

Strangers(r, q) == Making(r) => r.new \notin {q.id, q.new}

Booked(r) == r \in Requests /\ Wellformed(r) /\ Makes(r) /\ Rooted(r)

Books ==
    /\ Types
    /\ ManifestsRooted
    /\ req = [c \in Clients |-> req[c]]
    /\ \A c \in Clients : Booked(req[c])
    /\ \A c, k \in Clients : c # k => Strangers(req[c], req[k])

LEMMA IdleIsBooked == Booked(Idle) /\ Idle.op = "none" /\ Idle.pc = "idle" /\ ~Making(Idle)
                      /\ Idle.id = None /\ Idle.new = None
BY DEF Booked, Idle, Requests, Wellformed, Makes, Rooted, Making, Targeted, Ops, Pcs

(* A step of one request: the snapshots it touches are in nobody else's     *)
(* making, and the archives it adds are in nobody else's hands.             *)
LEMMA BooksStay ==
    ASSUME Books, Types', ManifestsRooted',
           NEW c \in Clients, NEW r, req' = [req EXCEPT ![c] = r],
           Booked(r)',
           \A k \in Clients : k # c => Strangers(r, req[k]) /\ Strangers(req[k], r),
           \A k \in Clients, i \in Ids :
               k # c /\ Making(req[k]) /\ req[k].new = i
                   => archive'[i] = archive[i] /\ manifest'[i] = manifest[i],
           \A k \in Clients, i \in Ids :
               k # c /\ req[k].id = i => archive'[i] \in {archive[i], None}
    PROVE  Books'
<1>1. req'[c] = r /\ \A k \in Clients : k # c => req'[k] = req[k]
    BY DEF Books
<1>2. req' = [k \in Clients |-> req'[k]]
    BY DEF Books
<1>3. ASSUME NEW k \in Clients, k # c PROVE Booked(req[k])'
    <2>1. Booked(req[k]) /\ req'[k] = req[k]
        BY <1>1, <1>3 DEF Books
    <2> DEFINE q == req[k]
    <2>2. q \in Requests /\ Wellformed(q) /\ Makes(q) /\ Rooted(q)
        BY <2>1 DEF Booked
    <2>3. Making(q) => archive'[q.new] = archive[q.new] /\ manifest'[q.new] = manifest[q.new]
        BY <1>3, <2>2 DEF Wellformed
    <2>4. q.pc = "rewrite" \/ Targeted(q) => q.id \in Ids
        BY <2>2 DEF Wellformed, Targeted
    <2>5. q.id \in Ids => archive'[q.id] \in {archive[q.id], None}
        BY <1>3
    <2>6. Makes(req[k])'
        <3> HIDE DEF q
        <3>1. Making(q) => /\ manifest'[q.new] = None
                           /\ IF q.pc = "manifest"
                              THEN archive'[q.new] # None /\ archive'[q.new].root = q.from
                              ELSE archive'[q.new] = None
                           /\ q.op = "restore" => q.new # q.id
            BY <2>2, <2>3 DEF Makes
        <3> QED
            BY <3>1, <2>1 DEF Makes, Making, q
    <2>7. Rooted(req[k])'
        <3> HIDE DEF q
        <3>1. /\ q.pc = "rewrite" /\ archive'[q.id] # None /\ q.seen.dir # None
                    => q.seen.dir = archive'[q.id].root
              /\ Targeted(q) /\ archive'[q.id] # None => archive'[q.id].root = q.target
            BY <2>2, <2>4, <2>5 DEF Rooted
        <3> QED
            BY <3>1, <2>1 DEF Rooted, Targeted, q
    <2> QED
        BY <2>1, <2>2, <2>6, <2>7 DEF Booked, Wellformed, Making, Targeted
<1>4. \A k \in Clients : Booked(req[k])'
    BY <1>1, <1>3 DEF Booked, Wellformed, Makes, Rooted, Making, Targeted
<1>5. \A k, l \in Clients : k # l => Strangers(req[k], req[l])'
    BY <1>1 DEF Books, Strangers, Making
<1> QED
    BY <1>2, <1>4, <1>5 DEF Books

(* A step of one request that leaves the files alone.                       *)
LEMMA BooksOfARequest ==
    ASSUME Books, UNCHANGED <<disk, archive, manifest, written, discarded>>,
           pinned' \in Saves \cup {None}, running' \in BOOLEAN,
           NEW c \in Clients, NEW r, req' = [req EXCEPT ![c] = r], Booked(r),
           \A k \in Clients : k # c => Strangers(r, req[k]) /\ Strangers(req[k], r)
    PROVE  Books'
<1>1. Types' /\ ManifestsRooted'
    BY DEF Books, Types, ManifestsRooted
<1>2. Booked(r)'
    BY DEF Booked, Wellformed, Makes, Rooted, Making, Targeted
<1> QED
    BY <1>1, <1>2, BooksStay

(* ... by which it ends.                                                    *)
LEMMA BooksOfTheIdle ==
    ASSUME Books, UNCHANGED <<disk, archive, manifest, written, discarded>>,
           pinned' \in Saves \cup {None}, running' \in BOOLEAN,
           NEW c \in Clients, Done(c)
    PROVE  Books'
<1>1. \A k \in Clients : k # c => Strangers(Idle, req[k]) /\ Strangers(req[k], Idle)
    <2>1. \A k \in Clients : Making(req[k]) => req[k].new # None
        BY NoneAssumption DEF Books, Booked, Wellformed
    <2> QED
        BY <2>1, IdleIsBooked DEF Strangers
<1> QED
    BY <1>1, IdleIsBooked, BooksOfARequest DEF Done

(* Where a restore that has been called, or has found its scenario, goes.   *)
Restoring(c) == (\E i \in Ids, arm \in BOOLEAN : RestoreCall(c, i, arm)) \/ Resolve(c)

Onward(q) ==
    /\ q.op \in {"none", "restore"}
    /\ q.pc \in {"idle", "resolve", "extract", "locate", "tar"}
    /\ q.pc \in {"extract", "locate", "tar"} => q.target \in Dirs
    /\ q.pc = "extract" => disk[q.target] = None
    /\ q.pc = "locate" => q.uuid = Uuid(disk[q.target])
    /\ q.pc = "tar" => q.from = q.target

LEMMA ResolvedIsBooked ==
    ASSUME Books, NEW r \in Requests, r.op = "restore", r.pc = "resolve", r.id \in Ids,
           r.uuid \in Saves \cup {None}, NEW q \in Resolved(r)
    PROVE  /\ Booked(q) /\ Onward(q)
           /\ q = Idle \/ (q.id = r.id /\ q.arm = r.arm /\ q.op = "restore")
           /\ IF Making(q) THEN Fresh(q.new) ELSE q = Idle \/ q.new = r.new
<1> USE NoneAssumption
<1> DEFINE m == manifest[r.id]
           d == m.dir
           a == archive[r.id]
<1>types. Types /\ ManifestsRooted
    BY DEF Books
<1>1. CASE q = Idle
    BY <1>1, IdleIsBooked DEF Onward
<1>2. ASSUME q # Idle
      PROVE  /\ a # None /\ m # None /\ d # None
             /\ IF d \in SavePoints THEN q \in BackupOf(r, d)
                ELSE q = [r EXCEPT !.pc = "extract", !.target = d]
    BY <1>2 DEF Resolved
<1>3. ASSUME q # Idle PROVE d \in Dirs /\ a.root = d
    BY <1>2, <1>3, <1>types DEF ManifestsRooted, Types, Manifest
<1> HIDE DEF m, d
<1>4. CASE q # Idle /\ d \notin SavePoints
    <2>1. q = [r EXCEPT !.pc = "extract", !.target = d]
        BY <1>2, <1>4
    <2>d. d \in Dirs
        BY <1>3, <1>4
    <2>2. q \in Requests
        BY <2>d, <2>1 DEF Requests, Pcs
    <2>3. /\ q.op = "restore" /\ q.pc = "extract" /\ q.id = r.id /\ q.target = d /\ q.arm = r.arm
          /\ q.new = r.new
        BY <2>1 DEF Requests
    <2>4. disk[d] = None
        BY <1>3, <1>4 DEF SavePoints
    <2> QED
        BY <1>2, <1>3, <1>4, <2>2, <2>3, <2>4
           DEF Booked, Wellformed, Makes, Rooted, Making, Targeted, Onward
<1>5. CASE q # Idle /\ d \in SavePoints /\ Uuid(disk[d]) # None
    <2>1. q = [r EXCEPT !.pc = "locate", !.target = d, !.uuid = Uuid(disk[d])]
        BY <1>2, <1>5 DEF BackupOf
    <2>2. Uuid(disk[d]) \in Saves
        BY <1>3, <1>5, <1>types DEF Types, Uuid, Content
    <2>d. d \in Dirs
        BY <1>3, <1>5
    <2>3. q \in Requests
        BY <2>d, <2>1, <2>2 DEF Requests, Pcs
    <2>4. /\ q.op = "restore" /\ q.pc = "locate" /\ q.id = r.id /\ q.target = d /\ q.arm = r.arm
          /\ q.new = r.new /\ q.uuid = Uuid(disk[d])
        BY <2>1 DEF Requests
    <2> QED
        BY <1>2, <1>3, <1>5, <2>2, <2>3, <2>4
           DEF Booked, Wellformed, Makes, Rooted, Making, Targeted, Onward
<1>6. CASE q # Idle /\ d \in SavePoints /\ Uuid(disk[d]) = None
    <2>1. PICK n \in Ids : /\ Fresh(n)
                           /\ q = [r EXCEPT !.pc = "tar", !.target = d, !.from = d, !.new = n]
        BY <1>2, <1>6 DEF BackupOf
    <2>d. d \in Dirs
        BY <1>3, <1>6
    <2>2. q \in Requests
        BY <2>d, <2>1 DEF Requests, Pcs
    <2>3. /\ q.op = "restore" /\ q.pc = "tar" /\ q.id = r.id /\ q.target = d /\ q.arm = r.arm
          /\ q.from = d /\ q.new = n /\ q.uuid = r.uuid
        BY <2>1 DEF Requests
    <2>4. archive[n] = None /\ manifest[n] = None /\ n # r.id
        BY <1>2, <1>6, <2>1 DEF Fresh
    <2> QED
        BY <1>2, <1>3, <1>6, <2>1, <2>2, <2>3, <2>4
           DEF Booked, Wellformed, Makes, Rooted, Making, Targeted, Onward
<1> QED
    BY <1>1, <1>4, <1>5, <1>6

LEMMA RestoreGoesOn ==
    ASSUME Books, NEW c \in Clients, Restoring(c)
    PROVE  \E q : /\ req' = [req EXCEPT ![c] = q] /\ Booked(q) /\ Onward(q)
                  /\ \A k \in Clients : k # c => Strangers(q, req[k]) /\ Strangers(req[k], q)
                  /\ UNCHANGED <<disk, archive, manifest, pinned, running, written, discarded>>
                  /\ req[c].pc \in {"idle", "resolve"} /\ (running => req[c].op = "restore")
                  /\ q.arm # None => q.arm = req[c].arm \/ MayArm(q.arm)
<1> USE NoneAssumption
<1>types. Types /\ \A k \in Clients : Booked(req[k])
    BY DEF Books
<1>apart. \A k, l \in Clients : k # l => Strangers(req[k], req[l])
    BY DEF Books
<1>making. \A k \in Clients : Making(req[k]) => req[k].new \in Ids /\ manifest[req[k].new] = None
    BY <1>types DEF Booked, Wellformed, Makes
<1>alone. ASSUME NEW q, Booked(q), NEW k \in Clients, k # c,
                 Making(req[k]) => req[k].new # q.id,
                 IF Making(q) THEN Fresh(q.new) ELSE Making(req[k]) => req[k].new # q.new
          PROVE  Strangers(q, req[k]) /\ Strangers(req[k], q)
    <2>1. CASE Making(q)
        <3>1. q.new \in Ids /\ Fresh(q.new)
            BY <1>alone, <2>1 DEF Booked, Wellformed
        <3> QED
            BY <1>alone, <2>1, <3>1 DEF Strangers, Fresh
    <2> QED
        BY <1>alone, <2>1 DEF Strangers
<1>1. ASSUME NEW i \in Ids, NEW arm \in BOOLEAN, RestoreCall(c, i, arm)
      PROVE  \E q : /\ req' = [req EXCEPT ![c] = q] /\ Booked(q) /\ Onward(q)
                    /\ \A k \in Clients : k # c => Strangers(q, req[k]) /\ Strangers(req[k], q)
                    /\ q.arm # None => MayArm(q.arm)
    <2>r. PICK r : r = [Idle EXCEPT !.op = "restore", !.pc = "resolve", !.id = i,
                                    !.arm = IF arm THEN manifest[i].uuid ELSE None]
        OBVIOUS
    <2>1. /\ archive[i] # None /\ manifest[i] # None
          /\ arm => MayArm(manifest[i].uuid)
          /\ \E q \in IF manifest[i].scenario THEN Resolved(r) ELSE {r} : req' = [req EXCEPT ![c] = q]
        BY <1>1, <2>r DEF RestoreCall
    <2>2. manifest[i] \in Manifest
        BY <2>1, <1>types DEF Types
    <2>a. PICK x \in Saves \cup {None} :
              /\ x = IF arm THEN manifest[i].uuid ELSE None
              /\ x # None => MayArm(x)
        BY <2>1, <2>2 DEF Manifest
    <2>3. /\ r \in Requests /\ r.op = "restore" /\ r.pc = "resolve" /\ r.id = i /\ r.new = None
          /\ r.uuid \in Saves \cup {None}
          /\ r.arm # None => MayArm(r.arm)
        <3>1. r = [Idle EXCEPT !.op = "restore", !.pc = "resolve", !.id = i, !.arm = x]
            BY <2>r, <2>a
        <3> QED
            BY <3>1, <2>a DEF Requests, Ops, Pcs, Idle
    <2>4. Booked(r) /\ Onward(r) /\ ~Making(r)
        BY <2>3 DEF Booked, Wellformed, Makes, Rooted, Making, Targeted, Onward
    <2>5. PICK q : q \in Resolved(r) \cup {r} /\ req' = [req EXCEPT ![c] = q]
        BY <2>1
    <2>6. /\ Booked(q) /\ Onward(q)
          /\ q = Idle \/ (q.id = i /\ q.arm = r.arm)
          /\ IF Making(q) THEN Fresh(q.new) ELSE q.new = None
        <3>1. CASE q = r
            BY <3>1, <2>3, <2>4
        <3>2. CASE q \in Resolved(r)
            <4>1. /\ Booked(q) /\ Onward(q)
                  /\ q = Idle \/ (q.id = r.id /\ q.arm = r.arm /\ q.op = "restore")
                  /\ IF Making(q) THEN Fresh(q.new) ELSE q = Idle \/ q.new = r.new
                BY <3>2, <2>3, ResolvedIsBooked
            <4>2. Making(q) => Fresh(q.new)
                BY <4>1
            <4>3. ~Making(q) => q.new = None
                BY <4>1, <2>3, IdleIsBooked
            <4>4. q = Idle \/ (q.id = i /\ q.arm = r.arm)
                BY <4>1, <2>3
            <4> QED
                BY <4>1, <4>2, <4>3, <4>4
        <3> QED
            BY <2>5, <3>1, <3>2
    <2>7. \A k \in Clients : Making(req[k]) => req[k].new # q.id /\ req[k].new # None
        BY <2>1, <2>6, <1>making, IdleIsBooked
    <2>8. \A k \in Clients : k # c => Strangers(q, req[k]) /\ Strangers(req[k], q)
        BY <2>6, <2>7, <1>alone
    <2>9. q.arm # None => MayArm(q.arm)
        BY <2>3, <2>6 DEF Idle
    <2> QED
        BY <2>5, <2>6, <2>8, <2>9
<1>2. ASSUME Resolve(c)
      PROVE  \E q : /\ req' = [req EXCEPT ![c] = q] /\ Booked(q) /\ Onward(q)
                    /\ \A k \in Clients : k # c => Strangers(q, req[k]) /\ Strangers(req[k], q)
                    /\ q.arm # None => q.arm = req[c].arm
    <2>1. PICK q \in Resolved(req[c]) : req' = [req EXCEPT ![c] = q]
        BY <1>2 DEF Resolve
    <2>2. /\ req[c] \in Requests /\ req[c].op = "restore" /\ req[c].pc = "resolve" /\ req[c].id \in Ids
          /\ req[c].uuid \in Saves \cup {None}
        BY <1>2, <1>types DEF Resolve, Booked, Wellformed
    <2>3. /\ Booked(q) /\ Onward(q)
          /\ q = Idle \/ (q.id = req[c].id /\ q.arm = req[c].arm)
          /\ IF Making(q) THEN Fresh(q.new) ELSE q = Idle \/ q.new = req[c].new
        BY <2>2, ResolvedIsBooked
    <2>4. \A k \in Clients : k # c /\ Making(req[k]) =>
              req[k].new \notin {req[c].id, req[c].new, None}
        BY <1>apart, <1>making DEF Strangers
    <2>5. \A k \in Clients : k # c => Strangers(q, req[k]) /\ Strangers(req[k], q)
        BY <2>3, <2>4, <1>alone, IdleIsBooked
    <2>6. q.arm # None => q.arm = req[c].arm
        BY <2>3 DEF Idle
    <2> QED
        BY <2>1, <2>3, <2>5, <2>6
<1>3. Resolve(c) => req[c].op = "restore"
    BY <1>types DEF Resolve, Booked, Wellformed
<1>4. UNCHANGED <<disk, archive, manifest, pinned, running, written, discarded>>
    BY DEF Restoring, RestoreCall, Resolve
<1>5. req[c].pc \in {"idle", "resolve"} /\ (running => req[c].op = "restore")
    <2>1. CASE Resolve(c)
        BY <2>1, <1>3 DEF Resolve
    <2>2. CASE \E i \in Ids, arm \in BOOLEAN : RestoreCall(c, i, arm)
        <3>1. req[c] = Idle /\ ~running
            BY <2>2 DEF RestoreCall, NotRunning
        <3> QED
            BY <3>1, IdleIsBooked
    <2> QED
        BY <2>1, <2>2 DEF Restoring
<1> QED
    BY <1>1, <1>2, <1>4, <1>5 DEF Restoring

(* Every step keeps the books.                                              *)
LEMMA BooksAreKept ==
    ASSUME Books, [Next]_vars
    PROVE  Books'
<1> USE NoneAssumption
<1> DEFINE Alone(c, r) == \A k \in Clients : k # c => Strangers(r, req[k]) /\ Strangers(req[k], r)
<1>types. Types /\ \A c \in Clients : Booked(req[c])
    BY DEF Books
<1>apart. \A c, k \in Clients : c # k => Strangers(req[c], req[k])
    BY DEF Books
<1>making. ASSUME NEW c \in Clients, Making(req[c])
           PROVE  req[c].new \in Ids /\ manifest[req[c].new] = None
    BY <1>types, <1>making DEF Booked, Wellformed, Makes
<1>known. ASSUME NEW c \in Clients, NEW i \in Ids, manifest[i] # None, NEW k \in Clients,
                 Making(req[k])
          PROVE  req[k].new # i /\ req[k].new # None
    BY <1>making, <1>known
<1>fresh. ASSUME NEW i \in Ids, Fresh(i), NEW k \in Clients
          PROVE  req[k].new # i /\ req[k].id # i /\ archive[i] = None /\ manifest[i] = None
    BY <1>fresh DEF Fresh
<1>0. CASE UNCHANGED vars
    BY <1>0 DEF vars, Books, Types, ManifestsRooted, Booked, Wellformed, Makes, Rooted, Making,
                Targeted, Strangers
<1>1. CASE GameStep
    <2>1. req' = req /\ archive' = archive /\ manifest' = manifest
        BY <1>1 DEF GameStep, StartServer, ServerExits, GameSaves
    <2>2. ASSUME NEW s \in Saves, NEW d \in Roots[s], GameSaves(s, d) PROVE Types'
        <3>1. d \in Dirs /\ [save |-> s, state |-> "whole"] \in Content
            BY RootsAssumption DEF Content
        <3>2. Held(disk[d]) \in SUBSET Saves
            BY <3>1, <1>types DEF Types, Content, Held
        <3> QED
            BY <2>2, <3>1, <3>2, <1>types DEF GameSaves, Types
    <2>3. ASSUME StartServer \/ ServerExits PROVE Types'
        <3>1. running' \in BOOLEAN /\ pinned' \in Saves \cup {None}
            BY <2>3, <1>types DEF StartServer, ServerExits, Types
        <3>2. /\ disk' = disk /\ archive' = archive /\ manifest' = manifest
              /\ written' = written /\ discarded' = discarded
            BY <2>3 DEF StartServer, ServerExits
        <3> QED
            BY <3>1, <3>2, <1>types DEF Types
    <2>4. Types'
        <3>1. ASSUME \E s \in Saves : \E d \in Roots[s] : GameSaves(s, d) PROVE Types'
            BY <3>1, <2>2
        <3>2. \/ StartServer \/ ServerExits
              \/ \E s \in Saves : \E d \in Roots[s] : GameSaves(s, d)
            BY <1>1 DEF GameStep
        <3> QED
            BY <2>3, <3>1, <3>2
    <2> QED
        BY <2>1, <2>4 DEF Books, ManifestsRooted, Booked, Wellformed, Makes, Rooted, Making,
                          Targeted, Strangers
<1>2. CASE Crash
    <2>1. req' = [c \in Clients |-> Idle]
        BY <1>2 DEF Crash
    <2>2. Types' /\ ManifestsRooted'
        BY <1>2 DEF Crash, Books, Types, ManifestsRooted
    <2>3. Booked(Idle)'
        BY IdleIsBooked, <1>2 DEF Crash, Booked, Wellformed, Makes, Rooted, Making, Targeted
    <2>4. \A c \in Clients : Booked(req[c])'
        BY <2>1, <2>3 DEF Booked, Wellformed, Makes, Rooted, Making, Targeted
    <2>5. \A c, k \in Clients : c # k => Strangers(req[c], req[k])'
        BY <2>1, IdleIsBooked DEF Strangers, Making
    <2>6. req' = [c \in Clients |-> req'[c]]
        BY <2>1
    <2> QED
        BY <2>2, <2>4, <2>5, <2>6 DEF Books
<1>3. CASE Unpin
    <2>1. UNCHANGED <<disk, archive, manifest, running, req, written, discarded>>
        BY <1>3 DEF Unpin
    <2>2. Types'
        BY <1>3, <1>types DEF Unpin, Types
    <2> QED
        BY <2>1, <2>2 DEF Books, ManifestsRooted, Booked, Wellformed, Makes, Rooted, Making,
                          Targeted, Strangers
<1>4. ASSUME NEW c \in Clients, NEW u \in Saves, CreateCall(c, u) PROVE Books'
    <2> DEFINE r == [Idle EXCEPT !.op = "create", !.pc = "locate", !.uuid = u]
    <2>1. Booked(r)
        BY DEF Booked, Requests, Ops, Pcs, Wellformed, Makes, Rooted, Making, Targeted, Idle
    <2>2. Alone(c, r)
        BY <1>making DEF Strangers, Making, Idle
    <2> QED
        BY <1>4, <1>types, <2>1, <2>2, BooksOfARequest DEF CreateCall, Types
<1>5. ASSUME NEW c \in Clients, NEW i \in Ids, RenameReads(c, i) PROVE Books'
    <2> DEFINE r == [Idle EXCEPT !.op = "rename", !.pc = "rewrite", !.id = i, !.seen = manifest[i]]
    <2>1. manifest[i] \in Manifest
        BY <1>5, <1>types DEF RenameReads, Types
    <2>2. Booked(r)
        BY <1>5, <2>1
           DEF RenameReads, Books, ManifestsRooted, Booked, Requests, Ops, Pcs, Wellformed,
               Makes, Rooted, Making, Targeted, Idle
    <2>3. Alone(c, r)
        BY <1>5, <1>making DEF RenameReads, Strangers, Making, Idle
    <2> QED
        BY <1>5, <1>types, <2>2, <2>3, BooksOfARequest DEF RenameReads, Types
<1>6. ASSUME NEW c \in Clients, NEW i \in Ids, DeleteArchive(c, i) PROVE Books'
    <2>r. PICK r : r = [Idle EXCEPT !.op = "delete", !.pc = "unlink", !.id = i]
        OBVIOUS
    <2>1. Types' /\ ManifestsRooted'
        BY <1>6, <1>types DEF DeleteArchive, Books, ManifestsRooted, Types, Archive, Content, Held
    <2>2. Booked(r)'
        BY <2>r DEF Booked, Requests, Ops, Pcs, Wellformed, Makes, Rooted, Making, Targeted, Idle
    <2>3. Alone(c, r)
        BY <2>r, <1>6, <1>making DEF DeleteArchive, Strangers, Making, Idle
    <2>4. req' = [req EXCEPT ![c] = r] /\ manifest' = manifest
          /\ archive' = [archive EXCEPT ![i] = None] /\ manifest[i] # None
        BY <2>r, <1>6 DEF DeleteArchive
    <2>5. \A k \in Clients : Making(req[k]) => req[k].new # i
        BY <2>4, <1>making
    <2>6. \A k \in Clients, j \in Ids :
               k # c => /\ Making(req[k]) /\ req[k].new = j
                              => archive'[j] = archive[j] /\ manifest'[j] = manifest[j]
                        /\ req[k].id = j => archive'[j] \in {archive[j], None}
        BY <2>4, <2>5, <1>types DEF Types
    <2> QED
        BY <2>1, <2>2, <2>3, <2>4, <2>6, BooksStay
<1>7. ASSUME NEW c \in Clients, Restoring(c) PROVE Books'
    BY <1>7, <1>types, RestoreGoesOn, BooksOfARequest DEF Types
<1>8. ASSUME NEW c \in Clients, NEW s \in Saves, NEW restore \in BOOLEAN, NEW arm \in BOOLEAN,
             NEW d \in Roots[s], UploadCall(c, s, d, restore, arm)
      PROVE  Books'
    <2>1. PICK i \in Ids : Fresh(i) /\ req' = [req EXCEPT ![c] = [Idle EXCEPT
                !.op = "upload", !.pc = "store", !.new = i, !.from = d, !.uuid = s,
                !.id = IF restore THEN i ELSE None,
                !.arm = IF restore /\ arm THEN s ELSE None]]
        BY <1>8 DEF UploadCall
    <2> DEFINE r == [Idle EXCEPT
                !.op = "upload", !.pc = "store", !.new = i, !.from = d, !.uuid = s,
                !.id = IF restore THEN i ELSE None,
                !.arm = IF restore /\ arm THEN s ELSE None]
    <2>2. d \in Dirs
        BY RootsAssumption
    <2>3. Booked(r)
        BY <2>1, <2>2, <1>fresh
           DEF Booked, Requests, Ops, Pcs, Wellformed, Makes, Rooted, Making, Targeted, Idle
    <2>4. Alone(c, r)
        BY <2>1, <1>fresh, <1>making DEF Strangers, Making, Idle
    <2> QED
        BY <1>8, <1>types, <2>1, <2>3, <2>4, BooksOfARequest DEF UploadCall, Types
<1>9. ASSUME NEW c \in Clients, RemoveCall(c) PROVE Books'
    <2> DEFINE r == [Idle EXCEPT !.op = "remove", !.pc = "find", !.uuid = {}, !.seen = pinned]
    <2>1. Booked(r)
        BY <1>types
           DEF Types, Booked, Requests, Ops, Pcs, Wellformed, Makes, Rooted, Making, Targeted, Idle
    <2>2. Alone(c, r)
        BY <1>making DEF Strangers, Making, Idle
    <2> QED
        BY <1>9, <1>types, <2>1, <2>2, BooksOfARequest DEF RemoveCall, Types
<1>22. ASSUME NEW c \in Clients, NEW u \in Saves, ArmSave(c, u) PROVE Books'
    <2> DEFINE r == [Idle EXCEPT !.op = "arm", !.pc = "armed", !.arm = u]
    <2>1. Booked(r)
        BY DEF Booked, Requests, Ops, Pcs, Wellformed, Makes, Rooted, Making, Targeted, Idle
    <2>2. Alone(c, r)
        BY <1>making DEF Strangers, Making, Idle
    <2> QED
        BY <1>22, <1>types, <2>1, <2>2, BooksOfARequest DEF ArmSave, Types
<1>23. ASSUME NEW c \in Clients, NEW D \in SUBSET Dirs, RemoveFinds(c, D) PROVE Books'
    <2>u. PICK U : U = {Uuid(disk[d]) : d \in D} \ {None}
        OBVIOUS
    <2>x. PICK x : x = IF req[c].seen \in U THEN req[c].seen ELSE None
        OBVIOUS
    <2> DEFINE r == [req[c] EXCEPT !.pc = "rmtree", !.target = D, !.uuid = U, !.seen = x]
    <2>1. U \in SUBSET Saves
        BY <2>u, <1>types DEF Uuid, Types, Content
    <2>2. req[c].pc = "find" /\ req[c].op = "remove" /\ req[c].seen \in Saves \cup {None}
        BY <1>23, <1>types DEF RemoveFinds, Booked, Wellformed
    <2>3. req' = [req EXCEPT ![c] = r]
        BY <1>23, <2>u, <2>x DEF RemoveFinds, Books
    <2>4. r \in Requests
        <3>1. x \in Saves \cup {None} /\ req[c] \in Requests
            BY <2>x, <2>2, <1>types DEF Booked
        <3> QED
            BY <2>1, <3>1 DEF Requests, Pcs
    <2>5. /\ r.op = "remove" /\ r.pc = "rmtree" /\ r.target = D /\ r.uuid = U
          /\ r.seen \in Saves \cup {None} /\ r.id = req[c].id /\ r.new = req[c].new
        BY <2>2, <2>x, <1>types DEF Booked, Requests
    <2> HIDE DEF r
    <2>6. Booked(r)
        BY <2>1, <2>4, <2>5 DEF Booked, Wellformed, Makes, Rooted, Making, Targeted
    <2>7. Alone(c, r)
        BY <2>5, <1>apart DEF Strangers, Making
    <2> QED
        BY <1>23, <1>types, <2>3, <2>6, <2>7, BooksOfARequest DEF RemoveFinds, Types
<1>10. ASSUME NEW c \in Clients, Locate(c) PROVE Books'
    <2>1. PICK d \in Located(req[c].uuid), i \in Ids :
              Fresh(i) /\ req' = [req EXCEPT ![c].pc = "tar", ![c].from = d, ![c].new = i]
        BY <1>10 DEF Locate
    <2> DEFINE r == [req[c] EXCEPT !.pc = "tar", !.from = d, !.new = i]
    <2>2. req' = [req EXCEPT ![c] = r]
        BY <2>1, <1>types DEF Books
    <2>3. d \in Dirs
        BY DEF Located, SavePoints
    <2>4. Booked(r)
        <3>1. r \in Requests
            BY <2>3, <1>types DEF Booked, Requests, Pcs
        <3>2. /\ r.op = req[c].op /\ r.pc = "tar" /\ r.id = req[c].id /\ r.new = i /\ r.from = d
              /\ r.target = req[c].target /\ r.uuid = req[c].uuid
            BY <1>types DEF Booked, Requests
        <3>3. req[c].pc = "locate" /\ Wellformed(req[c]) /\ Rooted(req[c])
            BY <1>10, <1>types DEF Locate, Booked
        <3> HIDE DEF r
        <3>4. Wellformed(r) /\ Rooted(r)
            BY <2>3, <3>2, <3>3 DEF Wellformed, Rooted, Making, Targeted
        <3>5. Makes(r)
            BY <2>1, <3>2, <1>fresh DEF Makes
        <3> QED
            BY <3>1, <3>4, <3>5 DEF Booked
    <2>5. Alone(c, r)
        BY <2>1, <1>fresh, <1>apart, <1>types DEF Strangers, Making, Booked, Requests
    <2> QED
        BY <1>10, <1>types, <2>2, <2>4, <2>5, BooksOfARequest DEF Locate, Types
<1>11. ASSUME NEW c \in Clients,
              \/ LocateFails(c) \/ TarFails(c) \/ ManifestFails(c) \/ RenameFails(c)
              \/ RemoveCommits(c) \/ Arms(c) \/ NothingCommitted(c)
       PROVE  Books'
    <2>1. pinned' \in Saves \cup {None}
        BY <1>11, <1>types
           DEF LocateFails, TarFails, ManifestFails, RenameFails, RemoveCommits, Arms,
               NothingCommitted, Types, Booked, Wellformed
    <2> QED
        BY <1>11, <2>1, <1>types, BooksOfTheIdle
           DEF LocateFails, TarFails, ManifestFails, RenameFails, RemoveCommits, Arms,
               NothingCommitted, Types
<1>12. ASSUME NEW c \in Clients, TarBegins(c) PROVE Books'
    <2> DEFINE r == [req[c] EXCEPT !.pc = "tarring", !.seen = disk[req[c].from]]
    <2>1. req' = [req EXCEPT ![c] = r]
        BY <1>12 DEF TarBegins, Books
    <2>2. req[c].from \in Dirs /\ disk[req[c].from] \in Content
        BY <1>12, <1>types DEF TarBegins, Types, Booked, Wellformed, Making
    <2>3. Booked(r)
        <3>1. r \in Requests
            BY <2>2, <1>types DEF Booked, Requests, Pcs
        <3>2. /\ r.op = req[c].op /\ r.pc = "tarring" /\ r.id = req[c].id /\ r.new = req[c].new
              /\ r.from = req[c].from /\ r.target = req[c].target /\ r.uuid = req[c].uuid
              /\ r.seen \in Content
            BY <2>2, <1>types DEF Booked, Requests
        <3>3. req[c].pc = "tar" /\ Wellformed(req[c]) /\ Rooted(req[c]) /\ Makes(req[c])
            BY <1>12, <1>types DEF TarBegins, Booked
        <3> HIDE DEF r
        <3>4. Wellformed(r) /\ Rooted(r) /\ Makes(r)
            BY <3>2, <3>3 DEF Wellformed, Rooted, Makes, Making, Targeted
        <3> QED
            BY <3>1, <3>4 DEF Booked
    <2>4. Alone(c, r)
        BY <1>12, <1>apart, <1>types DEF TarBegins, Strangers, Making, Booked, Requests
    <2> QED
        BY <1>12, <1>types, <2>1, <2>3, <2>4, BooksOfARequest DEF TarBegins, Types
<1>13. ASSUME NEW c \in Clients, TarEnds(c) PROVE Books'
    <2>r. PICK r : r = [req[c] EXCEPT !.pc = "manifest", !.seen = None]
        OBVIOUS
    <2>n. PICK n : n = req[c].new
        OBVIOUS
    <2>1. PICK st \in {"whole", "torn", "bare"} : archive' = [archive EXCEPT ![n] =
              [root |-> req[c].from, content |-> [save |-> req[c].seen.save, state |-> st]]]
        <3>1. req[c].pc = "tarring" /\ req[c].seen \in Content
            BY <1>13, <1>types DEF TarEnds, Booked, Wellformed
        <3>2. req[c].seen.state \in {"whole", "torn", "bare"}
            BY <3>1 DEF Content
        <3> QED
            BY <2>n, <3>2, <1>13 DEF TarEnds
    <2>2. req' = [req EXCEPT ![c] = r] /\ req[c].pc = "tarring"
          /\ UNCHANGED <<disk, manifest, pinned, running, written, discarded>>
        BY <2>r, <1>13 DEF TarEnds, Books
    <2>3. n \in Ids /\ req[c].from \in Dirs /\ req[c].seen.save \in Saves /\ manifest[n] = None
        BY <2>2, <2>n, <1>types DEF Booked, Wellformed, Making, Content, Makes
    <2>4. Types'
        BY <2>1, <2>2, <2>3, <1>types DEF Types, Archive, Content
    <2>5. ManifestsRooted'
        BY <2>1, <2>2, <2>3, <1>types DEF Books, ManifestsRooted, Types
    <2>6. archive'[n] # None /\ archive'[n].root = req[c].from
          /\ \A i \in Ids : i # n => archive'[i] = archive[i]
        <3> DEFINE a == [root |-> req[c].from, content |-> [save |-> req[c].seen.save, state |-> st]]
        <3>1. archive' = [archive EXCEPT ![n] = a] /\ a \in Archive /\ a.root = req[c].from
            BY <2>1, <2>3 DEF Archive, Content
        <3> HIDE DEF a
        <3> QED
            BY <2>3, <3>1, <1>types DEF Types
    <2>7. Booked(r)'
        <3>1. r \in Requests
            BY <2>r, <1>types DEF Booked, Requests, Pcs
        <3>2. /\ r.op = req[c].op /\ r.pc = "manifest" /\ r.id = req[c].id /\ r.new = n
              /\ r.from = req[c].from /\ r.target = req[c].target /\ r.uuid = req[c].uuid
            BY <2>r, <2>n, <1>types DEF Booked, Requests
        <3>3. req[c].pc = "tarring" /\ Wellformed(req[c]) /\ Rooted(req[c]) /\ Makes(req[c])
            BY <2>2, <1>types DEF Booked
        <3>4. Wellformed(r)
            <4>1. req[c].op \in {"create", "restore"} /\ n \in Ids /\ req[c].from \in Dirs
                  /\ req[c].uuid \in Saves \cup {None}
                BY <2>n, <3>3 DEF Wellformed, Making
            <4>2. /\ req[c].op = "create" => req[c].id = None
                  /\ req[c].op = "restore" => req[c].id \in Ids /\ req[c].target \in Dirs
                BY <3>3 DEF Wellformed, Targeted
            <4> QED
                BY <3>2, <4>1, <4>2 DEF Wellformed, Making, Targeted
        <3>5. req[c].op = "restore" => n # req[c].id /\ req[c].id \in Ids
            BY <3>3, <2>n DEF Makes, Making, Wellformed
        <3>6. Makes(r)'
            BY <2>2, <2>3, <2>6, <3>2, <3>5 DEF Makes
        <3>7. Rooted(r)'
            BY <2>6, <3>2, <3>3, <3>5 DEF Rooted, Targeted
        <3> QED
            BY <3>1, <3>4, <3>6, <3>7 DEF Booked, Wellformed, Making, Targeted
    <2>8. Alone(c, r)
        BY <2>r, <2>2, <1>apart, <1>types DEF Strangers, Making, Booked, Requests
    <2>9. \A k \in Clients : k # c => (Making(req[k]) => req[k].new # n) /\ req[k].id # n
        BY <2>n, <2>2, <1>apart DEF Strangers, Making
    <2>10. \A k \in Clients, i \in Ids :
               k # c => /\ Making(req[k]) /\ req[k].new = i
                              => archive'[i] = archive[i] /\ manifest'[i] = manifest[i]
                        /\ req[k].id = i => archive'[i] \in {archive[i], None}
        BY <2>2, <2>6, <2>9
    <2>11. /\ \A k \in Clients, i \in Ids :
                 k # c /\ Making(req[k]) /\ req[k].new = i
                     => archive'[i] = archive[i] /\ manifest'[i] = manifest[i]
           /\ \A k \in Clients, i \in Ids :
                 k # c /\ req[k].id = i => archive'[i] \in {archive[i], None}
        BY <2>10
    <2>12. req' = [req EXCEPT ![c] = r]
        BY <2>2
    <2> QED
        BY <2>4, <2>5, <2>7, <2>8, <2>11, <2>12, BooksStay
<1>14. ASSUME NEW c \in Clients, WriteManifest(c) PROVE Books'
    <2>n. PICK n, m : n = req[c].new /\ m = NewManifest(req[c])
        OBVIOUS
    <2>1. /\ req[c].pc = "manifest" /\ manifest' = [manifest EXCEPT ![n] = m]
          /\ UNCHANGED <<disk, archive, pinned, running, written, discarded>>
        BY <2>n, <1>14 DEF WriteManifest
    <2>2. /\ n \in Ids /\ req[c].from \in Dirs /\ req[c].uuid \in Saves \cup {None}
          /\ archive[n] # None /\ archive[n].root = req[c].from
        BY <2>1, <2>n, <1>types DEF Booked, Wellformed, Makes, Making
    <2>3. m \in Manifest /\ m.dir \in {None, req[c].from}
        BY <2>2, <2>n DEF NewManifest, Manifest
    <2>4. Types'
        BY <2>1, <2>2, <2>3, <1>types DEF Types
    <2>5. ManifestsRooted'
        BY <2>1, <2>2, <2>3, <1>types DEF Books, ManifestsRooted, Types
    <2>6. \A k \in Clients : k # c => (Making(req[k]) => req[k].new # n)
        BY <2>1, <2>n, <1>apart DEF Strangers, Making
    <2>7. \A k \in Clients, i \in Ids :
               k # c => /\ Making(req[k]) /\ req[k].new = i
                              => archive'[i] = archive[i] /\ manifest'[i] = manifest[i]
                        /\ req[k].id = i => archive'[i] \in {archive[i], None}
        BY <2>1, <2>2, <2>6, <1>types DEF Types
    <2>8. ASSUME NEW r, req' = [req EXCEPT ![c] = r], Booked(r)', Alone(c, r) PROVE Books'
        BY <2>4, <2>5, <2>7, <2>8, BooksStay
    <2>9. CASE req[c].id # None
        <3>p. PICK p : p = IF req[c].op = "restore" THEN "extract" ELSE "resolve"
            OBVIOUS
        <3>r. PICK r : r = [req[c] EXCEPT !.op = "restore", !.new = None, !.from = None, !.uuid = None,
                                          !.pc = p]
            OBVIOUS
        <3>1. req' = [req EXCEPT ![c] = r]
            BY <3>p, <3>r, <2>9, <1>14 DEF WriteManifest, Books
        <3>2. r \in Requests
            <4>1. req[c] \in Requests
                BY <1>types DEF Booked
            <4>2. p \in {"extract", "resolve"}
                BY <3>p
            <4> QED
                BY <4>1, <4>2, <3>r DEF Requests, Ops, Pcs
        <3>3. /\ r.op = "restore" /\ r.pc = p /\ r.id = req[c].id /\ r.new = None
              /\ r.target = req[c].target /\ r.uuid = None
            BY <3>r, <1>types DEF Booked, Requests
        <3>4. /\ p \in {"extract", "resolve"} /\ req[c].id \in Ids
              /\ p = "extract" => Targeted(req[c]) /\ req[c].target \in Dirs
              /\ p = "resolve" => req[c].id = n
            BY <3>p, <2>1, <2>9, <2>n, <1>types DEF Booked, Wellformed, Targeted, Requests
        <3>5. Wellformed(r)
            BY <3>3, <3>4 DEF Wellformed, Making, Targeted
        <3>6. Makes(r)' /\ Rooted(r)'
            BY <2>1, <3>3, <3>4, <1>types DEF Booked, Makes, Rooted, Making, Targeted
        <3>7. Booked(r)'
            BY <3>2, <3>5, <3>6 DEF Booked, Wellformed, Making, Targeted
        <3>8. Alone(c, r)
            BY <3>3, <3>4, <2>1, <1>apart, <1>making DEF Strangers, Making
        <3> QED
            BY <2>8, <3>1, <3>7, <3>8
    <2>10. CASE req[c].id = None
        <3>1. req' = [req EXCEPT ![c] = Idle]
            BY <2>10, <1>14 DEF WriteManifest, Done
        <3>2. Booked(Idle)'
            BY IdleIsBooked DEF Booked, Wellformed, Makes, Rooted, Making, Targeted
        <3>3. Alone(c, Idle)
            BY <1>making, IdleIsBooked DEF Strangers
        <3> QED
            BY <2>8, <3>1, <3>2, <3>3
    <2> QED
        BY <2>9, <2>10
<1>15. ASSUME NEW c \in Clients, RenameWrites(c) \/ DeleteManifest(c) PROVE Books'
    <2>n. PICK n, m : n = req[c].id /\ m = IF req[c].pc = "rewrite" THEN req[c].seen ELSE None
        OBVIOUS
    <2>1. /\ req[c].pc \in {"rewrite", "unlink"}
          /\ manifest' = [manifest EXCEPT ![n] = m] /\ req' = [req EXCEPT ![c] = Idle]
          /\ UNCHANGED <<disk, archive, pinned, running, written, discarded>>
        BY <2>n, <1>15 DEF RenameWrites, DeleteManifest, Done
    <2>2. n \in Ids /\ m \in Manifest \cup {None}
        BY <2>1, <2>n, <1>types DEF Booked, Wellformed
    <2>3. archive[n] # None /\ m # None /\ m.dir # None => m.dir = archive[n].root
        BY <2>1, <2>n, <1>types DEF Booked, Rooted
    <2>4. Types'
        BY <2>1, <2>2, <1>types DEF Types
    <2>5. ManifestsRooted'
        BY <2>1, <2>2, <2>3, <1>types DEF Books, ManifestsRooted, Types
    <2>6. \A k \in Clients : k # c => (Making(req[k]) => req[k].new # n)
        BY <2>n, <1>apart DEF Strangers
    <2>7. \A k \in Clients, i \in Ids :
               k # c => /\ Making(req[k]) /\ req[k].new = i
                              => archive'[i] = archive[i] /\ manifest'[i] = manifest[i]
                        /\ req[k].id = i => archive'[i] \in {archive[i], None}
        BY <2>1, <2>2, <2>6, <1>types DEF Types
    <2>8. Booked(Idle)'
        BY IdleIsBooked DEF Booked, Wellformed, Makes, Rooted, Making, Targeted
    <2>9. Alone(c, Idle)
        BY <1>making, IdleIsBooked DEF Strangers
    <2> QED
        BY <2>1, <2>4, <2>5, <2>7, <2>8, <2>9, BooksStay
<1>17. ASSUME NEW c \in Clients, RemoveTarget(c) PROVE Books'
    <2>r. PICK r : r = [req[c] EXCEPT !.pc = "write"]
        OBVIOUS
    <2>1. /\ req' = [req EXCEPT ![c] = r] /\ req[c].pc = "extract"
          /\ disk' = [disk EXCEPT ![req[c].target] = None]
          /\ UNCHANGED <<archive, manifest, pinned, running, written, discarded>>
        BY <2>r, <1>17 DEF RemoveTarget, Goes, Books
    <2>2. Types' /\ ManifestsRooted'
        BY <2>1, <1>types DEF Books, Types, ManifestsRooted
    <2>3. r \in Requests
        BY <2>r, <1>types DEF Booked, Requests, Pcs
    <2>4. /\ r.op = req[c].op /\ r.pc = "write" /\ r.id = req[c].id /\ r.new = req[c].new
          /\ r.target = req[c].target
        BY <2>r, <1>types DEF Booked, Requests
    <2>5. Wellformed(r)
        BY <2>1, <2>4, <1>types DEF Booked, Wellformed, Making, Targeted
    <2>6. Makes(r)' /\ Rooted(r)'
        BY <2>1, <2>4, <1>types DEF Booked, Makes, Rooted, Making, Targeted
    <2>7. Booked(r)'
        BY <2>3, <2>5, <2>6 DEF Booked, Wellformed, Making, Targeted
    <2>8. Alone(c, r)
        BY <2>1, <2>4, <1>apart DEF Strangers, Making
    <2> QED
        BY <2>1, <2>2, <2>7, <2>8, BooksStay
<1>18. ASSUME NEW c \in Clients, Extract(c) PROVE Books'
    <2>a. PICK a : a = archive[req[c].id]
        OBVIOUS
    <2>1. /\ req[c].pc = "write" /\ a # None
          /\ UNCHANGED <<archive, manifest, pinned, running, written, discarded>>
        BY <2>a, <1>18 DEF Extract
    <2>2. /\ req[c].op = "restore" /\ req[c].id \in Ids /\ req[c].arm \in Saves \cup {None}
          /\ req[c].target \in Dirs
        BY <2>1, <1>types DEF Booked, Wellformed, Targeted, Requests
    <2>3. a \in Archive /\ a.content \in Content /\ [a.content EXCEPT !.state = "torn"] \in Content
        BY <2>a, <2>1, <2>2, <1>types DEF Types, Archive, Content
    <2>4. disk' \in [Dirs -> Content \cup {None}]
        BY <2>a, <2>3, <1>18, <1>types DEF Extract, Types
    <2>5. Types' /\ ManifestsRooted'
        BY <2>1, <2>4, <1>types DEF Books, Types, ManifestsRooted
    <2>6. CASE req[c].arm = None
        <3>1. Booked(Idle)'
            BY IdleIsBooked DEF Booked, Wellformed, Makes, Rooted, Making, Targeted
        <3>2. Alone(c, Idle)
            BY <1>making, IdleIsBooked DEF Strangers
        <3>3. req' = [req EXCEPT ![c] = Idle]
            BY <2>6, <1>18 DEF Extract, Done
        <3> QED
            BY <2>1, <2>5, <3>1, <3>2, <3>3, BooksStay
    <2>7. CASE req[c].arm # None
        <3>r. PICK r : r = [req[c] EXCEPT !.pc = "armed"]
            OBVIOUS
        <3>1. req' = [req EXCEPT ![c] = r]
            BY <3>r, <2>7, <1>18 DEF Extract, Goes, Books
        <3>2. r \in Requests
            BY <3>r, <1>types DEF Booked, Requests, Pcs
        <3>3. /\ r.op = "restore" /\ r.pc = "armed" /\ r.id = req[c].id /\ r.new = req[c].new
              /\ r.arm \in Saves
            BY <3>r, <2>2, <2>7, <1>types DEF Booked, Requests
        <3>4. Booked(r)'
            BY <2>2, <3>2, <3>3 DEF Booked, Wellformed, Makes, Rooted, Making, Targeted
        <3>5. Alone(c, r)
            BY <3>3, <1>apart DEF Strangers, Making
        <3> QED
            BY <2>1, <2>5, <3>1, <3>4, <3>5, BooksStay
    <2> QED
        BY <2>6, <2>7
<1>16. ASSUME NEW c \in Clients, CopyFails(c) \/ RmTreeFails(c) PROVE Books'
    <2>1. /\ req' = [req EXCEPT ![c] = Idle]
          /\ UNCHANGED <<archive, manifest, pinned, running, written>>
        BY <1>16 DEF CopyFails, RmTreeFails, Done
    <2>2. ASSUME NEW d \in Dirs PROVE Remains(disk[d]) \subseteq Content \cup {None}
        BY <1>types DEF Types, Remains, Content
    <2>3. Types'
        <3>1. CASE CopyFails(c)
            <4>1. discarded' = discarded
                BY <3>1 DEF CopyFails
            <4>2. CASE UNCHANGED disk
                BY <2>1, <4>1, <4>2, <1>types DEF Types
            <4>3. ASSUME req[c].pc = "extract", NEW left \in Remains(disk[req[c].target]),
                         disk' = [disk EXCEPT ![req[c].target] = left]
                  PROVE  Types'
                <5>1. req[c].target \in Dirs
                    BY <4>3, <1>types DEF Booked, Wellformed, Targeted
                <5>2. disk' \in [Dirs -> Content \cup {None}]
                    BY <4>3, <5>1, <2>2, <1>types DEF Types
                <5> QED
                    BY <2>1, <4>1, <5>2, <1>types DEF Types
            <4>4. ASSUME req[c].pc = "write", archive[req[c].id] # None, NEW st \in {"torn", "bare"},
                         disk' = [disk EXCEPT ![archive[req[c].id].root] =
                                     [save |-> archive[req[c].id].content.save, state |-> st]]
                  PROVE  Types'
                <5>1. archive[req[c].id] \in Archive
                    BY <4>4, <1>types DEF Types, Booked, Wellformed
                <5>2. [save |-> archive[req[c].id].content.save, state |-> st] \in Content
                    BY <5>1 DEF Archive, Content
                <5>3. disk' \in [Dirs -> Content \cup {None}]
                    BY <4>4, <5>2, <1>types DEF Types
                <5> QED
                    BY <2>1, <4>1, <5>3, <1>types DEF Types
            <4> QED
                BY <3>1, <4>2, <4>3, <4>4 DEF CopyFails
        <3>2. CASE RmTreeFails(c)
            <4>1. /\ discarded' = discarded \cup UNION {Held(disk[d]) : d \in req[c].target}
                  /\ req[c].pc = "rmtree"
                  /\ \E gone \in SUBSET req[c].target : \E d \in req[c].target \ gone :
                     \E left \in Remains(disk[d]) :
                        disk' = [e \in Dirs |-> IF e \in gone THEN None ELSE IF e = d THEN left
                                                ELSE disk[e]]
                BY <3>2 DEF RmTreeFails
            <4>2. req[c].target \in SUBSET Dirs
                BY <4>1, <1>types DEF Booked, Wellformed
            <4>3. UNION {Held(disk[d]) : d \in req[c].target} \in SUBSET Saves
                BY <4>2, <1>types DEF Types, Held, Content
            <4>4. disk' \in [Dirs -> Content \cup {None}]
                BY <4>1, <4>2, <2>2, <1>types DEF Types
            <4> QED
                BY <2>1, <4>1, <4>3, <4>4, <1>types DEF Types
        <3> QED
            BY <1>16, <3>1, <3>2
    <2>4. ManifestsRooted'
        BY <2>1 DEF Books, ManifestsRooted
    <2>5. Booked(Idle)'
        BY IdleIsBooked DEF Booked, Wellformed, Makes, Rooted, Making, Targeted
    <2>6. Alone(c, Idle)
        BY <1>making, IdleIsBooked DEF Strangers
    <2> QED
        BY <2>1, <2>3, <2>4, <2>5, <2>6, BooksStay
<1>24. ASSUME NEW c \in Clients, RmTree(c) PROVE Books'
    <2>r. PICK r : r = [req[c] EXCEPT !.pc = "commit", !.target = {}]
        OBVIOUS
    <2>1. /\ req[c].pc = "rmtree" /\ req' = [req EXCEPT ![c] = r]
          /\ disk' = [d \in Dirs |-> IF d \in req[c].target THEN None ELSE disk[d]]
          /\ discarded' = discarded \cup UNION {Held(disk[d]) : d \in req[c].target}
          /\ UNCHANGED <<archive, manifest, pinned, running, written>>
        BY <2>r, <1>24 DEF RmTree, Books
    <2>2. /\ req[c].op = "remove" /\ req[c].target \in SUBSET Dirs /\ req[c].uuid \in SUBSET Saves
          /\ req[c].seen \in Saves \cup {None}
        BY <2>1, <1>types DEF Booked, Wellformed
    <2>3. UNION {Held(disk[d]) : d \in req[c].target} \in SUBSET Saves
        BY <2>2, <1>types DEF Types, Held, Content
    <2>4. disk' \in [Dirs -> Content \cup {None}]
        BY <2>1, <1>types DEF Types
    <2>5. Types' /\ ManifestsRooted'
        BY <2>1, <2>3, <2>4, <1>types DEF Books, Types, ManifestsRooted
    <2>6. r \in Requests
        <3>1. req[c] \in Requests
            BY <1>types DEF Booked
        <3> QED
            BY <2>r, <3>1 DEF Requests, Pcs
    <2>7. /\ r.op = "remove" /\ r.pc = "commit" /\ r.id = req[c].id /\ r.new = req[c].new
          /\ r.uuid = req[c].uuid /\ r.seen = req[c].seen
        BY <2>r, <2>2, <1>types DEF Booked, Requests
    <2>8. Booked(r)'
        BY <2>2, <2>6, <2>7 DEF Booked, Wellformed, Makes, Rooted, Making, Targeted
    <2>9. Alone(c, r)
        BY <2>7, <1>apart DEF Strangers, Making
    <2> QED
        BY <2>1, <2>5, <2>8, <2>9, BooksStay
<1>19. ASSUME NEW c \in Clients, UploadStores(c) PROVE Books'
    <2>r. PICK r, n, a : /\ r = [req[c] EXCEPT !.pc = "manifest"] /\ n = req[c].new
                         /\ a = [root |-> req[c].from,
                                 content |-> [save |-> req[c].uuid, state |-> "whole"]]
        OBVIOUS
    <2>1. /\ req[c].pc = "store" /\ req' = [req EXCEPT ![c] = r]
          /\ archive' = [archive EXCEPT ![n] = a] /\ written' = written \cup {req[c].uuid}
          /\ UNCHANGED <<disk, manifest, pinned, running, discarded>>
        BY <2>r, <1>19 DEF UploadStores, Goes, Books
    <2>2. /\ n \in Ids /\ req[c].from \in Dirs /\ req[c].uuid \in Saves /\ req[c].op = "upload"
          /\ manifest[n] = None
        BY <2>1, <2>r, <1>types DEF Booked, Wellformed, Making, Makes
    <2>3. a \in Archive /\ a.root = req[c].from
        BY <2>2, <2>r DEF Archive, Content
    <2>4. Types'
        BY <2>1, <2>2, <2>3, <1>types DEF Types
    <2>5. archive'[n] # None /\ archive'[n].root = req[c].from
          /\ \A i \in Ids : i # n => archive'[i] = archive[i]
        BY <2>1, <2>2, <2>3, <1>types DEF Types
    <2>6. ManifestsRooted'
        BY <2>1, <2>2, <2>5, <1>types DEF Books, ManifestsRooted, Types
    <2>7. r \in Requests
        BY <2>r, <1>types DEF Booked, Requests, Pcs
    <2>8. /\ r.op = "upload" /\ r.pc = "manifest" /\ r.id = req[c].id /\ r.new = n
          /\ r.from = req[c].from /\ r.uuid = req[c].uuid
        BY <2>r, <2>2, <1>types DEF Booked, Requests
    <2>9. Wellformed(r)
        BY <2>1, <2>2, <2>8, <2>r, <1>types DEF Booked, Wellformed, Making, Targeted
    <2>10. Makes(r)' /\ Rooted(r)'
        BY <2>1, <2>2, <2>5, <2>8 DEF Makes, Rooted, Making, Targeted
    <2>11. Booked(r)'
        BY <2>7, <2>9, <2>10 DEF Booked, Wellformed, Making, Targeted
    <2>12. Alone(c, r)
        BY <2>1, <2>8, <2>r, <1>apart DEF Strangers, Making
    <2>13. \A k \in Clients : k # c => (Making(req[k]) => req[k].new # n) /\ req[k].id # n
        BY <2>1, <2>r, <1>apart DEF Strangers, Making
    <2>14. \A k \in Clients, i \in Ids :
               k # c => /\ Making(req[k]) /\ req[k].new = i
                              => archive'[i] = archive[i] /\ manifest'[i] = manifest[i]
                        /\ req[k].id = i => archive'[i] \in {archive[i], None}
        BY <2>1, <2>5, <2>13
    <2> QED
        BY <2>1, <2>4, <2>6, <2>11, <2>12, <2>14, BooksStay
<1>20. ASSUME NEW c \in Clients, NewRequest(c) PROVE Books'
    <2>1. CASE \E u \in Saves : CreateCall(c, u)
        BY <2>1, <1>4
    <2>2. CASE \E i \in Ids : RenameReads(c, i) \/ DeleteArchive(c, i)
        BY <2>2, <1>5, <1>6
    <2>3. CASE \E i \in Ids, arm \in BOOLEAN : RestoreCall(c, i, arm)
        BY <2>3, <1>7 DEF Restoring
    <2>4. CASE \E s \in Saves, restore, arm \in BOOLEAN : \E d \in Roots[s] :
                  UploadCall(c, s, d, restore, arm)
        BY <2>4, <1>8
    <2>5. CASE RemoveCall(c) \/ \E u \in Saves : ArmSave(c, u)
        BY <2>5, <1>9, <1>22
    <2> QED
        BY <1>20, <2>1, <2>2, <2>3, <2>4, <2>5 DEF NewRequest
<1>21. ASSUME NEW c \in Clients, RequestStep(c) PROVE Books'
    <2>1. CASE \E D \in SUBSET Dirs : RemoveFinds(c, D)
        BY <2>1, <1>23
    <2>2. CASE Resolve(c)
        BY <2>2, <1>7 DEF Restoring
    <2> QED
        BY <1>21, <2>1, <2>2, <1>10, <1>11, <1>12, <1>13, <1>14, <1>15, <1>16, <1>17, <1>18, <1>19, <1>24
           DEF RequestStep
<1> QED
    BY <1>0, <1>1, <1>2, <1>3, <1>20, <1>21 DEF Next

LEMMA BooksAtFirst == Init => Books
<1> SUFFICES ASSUME Init PROVE Books
    OBVIOUS
<1>1. req = [c \in Clients |-> Idle]
    BY DEF Init
<1>2. Types /\ ManifestsRooted
    BY DEF Init, Types, ManifestsRooted
<1>3. \A c \in Clients : Booked(req[c]) /\ ~Making(req[c])
    BY <1>1, IdleIsBooked
<1> QED
    BY <1>1, <1>2, <1>3 DEF Books, Strangers

(* What the requests hold and make, in every state.                         *)
THEOREM Bookkeeping == Spec => []Books
<1>1. Books /\ [Next]_vars => Books'
    BY BooksAreKept
<1> QED
    BY <1>1, BooksAtFirst, PTL DEF Spec

-----------------------------------------------------------------------------
(* The contents: where the one copy of a save is                            *)

Whole(s) == [save |-> s, state |-> "whole"]

(* A save that has to be somewhere, and of which no archive is whole.       *)
Uncovered(s) == s \in written /\ s \notin discarded /\ ~WholeInArchive(s)

(* Such a save is in the directory the game wrote, and nothing of it is     *)
(* elsewhere.                                                               *)
LiesIn(s, d) ==
    /\ disk[d] = Whole(s)
    /\ \A e \in Dirs : disk[e] # None /\ disk[e].save = s => e = d
    /\ \A i \in Ids : archive[i] # None /\ archive[i].content.save = s => archive[i].root = d

HeldIsWritten ==
    /\ \A d \in Dirs : disk[d] # None => disk[d].save \in written
    /\ \A i \in Ids : archive[i] # None => archive[i].content.save \in written

(* How far a restore that is about to replace it is with its backup.        *)
BackedUp(r, s) ==
    \/ r.pc = "locate" /\ r.uuid = s
    \/ r.pc = "tar" /\ r.from = r.target
    \/ r.pc = "tarring" /\ r.from = r.target /\ r.seen = Whole(s)

Backed(r) ==
    /\ r.pc = "tarring" =>
          /\ r.seen.save \in written
          /\ Uncovered(r.seen.save) => disk[r.from] = Whole(r.seen.save)
    /\ Targeted(r) => \A s \in Saves : Uncovered(s) /\ disk[r.target] = Whole(s) => BackedUp(r, s)

Contents ==
    /\ running => ~Changing
    /\ HeldIsWritten
    /\ \A s \in Saves : Uncovered(s) => \E d \in Dirs : LiesIn(s, d)
    /\ \A c \in Clients : Backed(req[c])

(* What a step must not do to a save that is still uncovered after it.      *)
Steady(s) ==
    /\ Uncovered(s)
    /\ \A e \in Dirs : /\ disk[e] = Whole(s) <=> disk'[e] = Whole(s)
                       /\ disk'[e] # None /\ disk'[e].save = s => disk[e] # None /\ disk[e].save = s
    /\ \A i \in Ids : archive'[i] # None /\ archive'[i].content.save = s =>
          archive'[i] = archive[i] \/ (archive'[i].root \in Dirs /\ disk[archive'[i].root] = Whole(s))

LEMMA IdleIsBacked == Backed(Idle)
BY DEF Backed, Idle, Targeted

LEMMA LyingStays ==
    ASSUME NEW s \in Saves, NEW d \in Dirs, LiesIn(s, d), Steady(s) PROVE LiesIn(s, d)'
<1>1. disk'[d] = Whole(s)
    BY DEF LiesIn, Steady
<1>2. \A e \in Dirs : disk'[e] # None /\ disk'[e].save = s => e = d
    BY DEF LiesIn, Steady
<1>3. ASSUME NEW e \in Dirs, disk[e] = Whole(s) PROVE e = d
    <2>1. Whole(s) # None /\ Whole(s).save = s
        BY NoneAssumption DEF Whole, Content
    <2> QED
        BY <1>3, <2>1 DEF LiesIn
<1>4. \A i \in Ids : archive'[i] # None /\ archive'[i].content.save = s => archive'[i].root = d
    BY <1>3 DEF LiesIn, Steady
<1> QED
    BY <1>1, <1>2, <1>4 DEF LiesIn, Whole

LEMMA ContentsStay ==
    ASSUME Books, Contents, written \subseteq written', HeldIsWritten', (running => ~Changing)',
           NEW c \in Clients, NEW r, req' = [req EXCEPT ![c] = r], Backed(r)',
           \A s \in Saves : Uncovered(s)' => Steady(s)
    PROVE  Contents'
<1>1. \A s \in Saves : Uncovered(s)' => \E d \in Dirs : LiesIn(s, d)'
    BY LyingStays DEF Contents, Steady
<1>2. req'[c] = r /\ \A k \in Clients : k # c => req'[k] = req[k]
    BY DEF Books
<1>3. ASSUME NEW k \in Clients, k # c PROVE Backed(req[k])'
    <2>q. PICK q : q = req[k]
        OBVIOUS
    <2>1. Backed(q) /\ req'[k] = q /\ Wellformed(q)
        BY <2>q, <1>2, <1>3 DEF Contents, Books, Booked
    <2>2. q.pc = "tarring" => q.from \in Dirs /\ q.seen.save \in Saves
        BY <2>1 DEF Wellformed, Making, Content
    <2>3. Targeted(q) => q.target \in Dirs
        BY <2>1 DEF Wellformed
    <2>4. q.pc = "tarring" =>
              /\ q.seen.save \in written'
              /\ Uncovered(q.seen.save)' => disk'[q.from] = Whole(q.seen.save)
        BY <2>1, <2>2 DEF Backed, Steady
    <2>5. Targeted(q) =>
             \A s \in Saves : Uncovered(s)' /\ disk'[q.target] = Whole(s) => BackedUp(q, s)
        BY <2>1, <2>3 DEF Backed, Steady
    <2>6. Backed(q)'
        BY <2>4, <2>5 DEF Backed, Targeted, BackedUp, Whole
    <2> QED
        BY <2>1, <2>6 DEF Backed, Targeted, BackedUp, Whole, Uncovered, WholeInArchive
<1>4. Backed(req[c])'
    BY <1>2 DEF Backed, Targeted, BackedUp, Whole, Uncovered, WholeInArchive
<1> QED
    BY <1>1, <1>3, <1>4 DEF Contents

(* A step of one request that leaves the directories and the archives.      *)
LEMMA ContentsOfARequest ==
    ASSUME Books, Contents, UNCHANGED <<disk, archive, running, written, discarded>>,
           NEW c \in Clients, NEW r, req' = [req EXCEPT ![c] = r], Backed(r),
           r.op \in {"restore", "upload", "remove"} => ~running \/ req[c].op \in {"restore", "upload", "remove"}
    PROVE  Contents'
<1>1. HeldIsWritten' /\ written \subseteq written'
    BY DEF Contents, HeldIsWritten
<1>2. (running => ~Changing)'
    BY DEF Contents, Changing, Books
<1>3. Backed(r)'
    BY DEF Backed, Targeted, BackedUp, Whole, Uncovered, WholeInArchive
<1>4. \A s \in Saves : Uncovered(s)' => Steady(s)
    BY DEF Steady, Uncovered, WholeInArchive
<1> QED
    BY <1>1, <1>2, <1>3, <1>4, ContentsStay

(* A new archive covers the save it holds, and uncovers none.               *)
LEMMA Covering ==
    ASSUME NEW s \in Saves, NEW n \in Ids, NEW a, a # None, archive[n] = None,
           archive'[n] = a, \A i \in Ids : i # n => archive'[i] = archive[i],
           written' \subseteq written \cup {a.content.save}, discarded' = discarded,
           Uncovered(s)'
    PROVE  a.content # Whole(s) /\ (s \in written => Uncovered(s))
<1>1. a.content # Whole(s)
    BY DEF Uncovered, WholeInArchive, Whole
<1>2. ~WholeInArchive(s)
    BY DEF Uncovered, WholeInArchive
<1> QED
    BY <1>1, <1>2 DEF Uncovered

(* What a removal leaves, whole or failing midway, was there before it.      *)
LEMMA Remaining ==
    ASSUME NEW c \in Content \cup {None}, NEW left \in {c, None} \cup Remains(c)
    PROVE  /\ left # None => c # None /\ left.save = c.save
           /\ \A s \in Saves : left = Whole(s) => c = Whole(s)
<1> USE NoneAssumption
<1>1. CASE left = c
    BY <1>1
<1>2. CASE left = None
    <2>1. \A s \in Saves : Whole(s) # None
        BY DEF Whole, Content
    <2> QED
        BY <1>2, <2>1
<1>3. CASE left \notin {c, None}
    <2>1. c # None
        BY <1>3 DEF Remains
    <2>2. PICK st : left = [c EXCEPT !.state = st] /\ st \in {c.state, "bare", "torn"}
        BY <1>3, <2>1 DEF Remains
    <2>3. c \in Content /\ left.save = c.save /\ left.state = st
        BY <2>1, <2>2 DEF Content
    <2>4. ASSUME NEW s \in Saves, left = Whole(s) PROVE c = Whole(s)
        <3>1. c.save = s /\ c.state = "whole"
            BY <2>2, <2>3, <2>4 DEF Whole
        <3> QED
            BY <2>3, <3>1 DEF Content, Whole
    <2> QED
        BY <2>1, <2>3, <2>4
<1> QED
    BY <1>1, <1>2, <1>3

LEMMA ContentsOfARemoval ==
    ASSUME Books, Contents, UNCHANGED <<archive, written, running>>, ~running, discarded \subseteq discarded',
           NEW c \in Clients, NEW r, req' = [req EXCEPT ![c] = r], ~Targeted(r), r.pc # "tarring",
           \A d \in Dirs : disk'[d] \in {disk[d], None} \cup Remains(disk[d]),
           \A s \in Saves, d \in Dirs : Uncovered(s)' /\ disk[d] = Whole(s) => disk'[d] = disk[d]
    PROVE  Contents'
<1>1. ASSUME NEW d \in Dirs
      PROVE  /\ disk'[d] # None => disk[d] # None /\ disk'[d].save = disk[d].save
             /\ \A s \in Saves : disk'[d] = Whole(s) => disk[d] = Whole(s)
    <2>1. disk[d] \in Content \cup {None} /\ disk'[d] \in {disk[d], None} \cup Remains(disk[d])
        BY DEF Books, Types
    <2> QED
        BY <2>1, Remaining
<1>2. HeldIsWritten' /\ written \subseteq written'
    BY <1>1 DEF Contents, HeldIsWritten
<1>3. (running => ~Changing)'
    OBVIOUS
<1>4. ASSUME NEW s \in Saves, Uncovered(s)' PROVE Steady(s)
    <2>1. Uncovered(s)
        BY <1>4 DEF Uncovered, WholeInArchive
    <2> QED
        BY <1>1, <1>4, <2>1 DEF Steady
<1>5. Backed(r)'
    BY DEF Backed, Targeted
<1> QED
    BY <1>2, <1>3, <1>4, <1>5, ContentsStay

LEMMA ContentsAreKept ==
    ASSUME "start" \notin Overlaps, Books, Contents, [Next]_vars
    PROVE  Contents'
<1> USE NoneAssumption
<1>types. Types /\ \A c \in Clients : Booked(req[c])
    BY DEF Books
<1>backed. \A c \in Clients : Backed(req[c])
    BY DEF Contents
<1>written. HeldIsWritten
    BY DEF Contents
<1>stopped. \A c \in Clients : req[c].op \in {"restore", "upload", "remove"} => ~running
    BY DEF Contents, Changing
<1>lies. \A s \in Saves : Uncovered(s) => \E d \in Dirs : LiesIn(s, d)
    BY DEF Contents
<1>whole. \A s \in Saves : Whole(s) \in Content /\ Whole(s) # None /\ Whole(s).save = s
    BY DEF Whole, Content
<1>0. CASE UNCHANGED vars
    BY <1>0 DEF vars, Contents, HeldIsWritten, Changing, Uncovered, WholeInArchive, LiesIn, Whole,
                Backed, BackedUp, Targeted
<1>1. ASSUME UNCHANGED <<disk, archive, req, written, discarded>>, (running => ~Changing)'
      PROVE  Contents'
    BY <1>1 DEF Contents, HeldIsWritten, Uncovered, WholeInArchive, LiesIn, Whole,
                Backed, BackedUp, Targeted
<1>2. CASE StartServer \/ ServerExits
    BY <1>1, <1>2 DEF StartServer, ServerExits, Changing
<1>3. CASE Unpin
    <2>1. UNCHANGED <<disk, archive, manifest, running, req, written, discarded>>
        BY <1>3 DEF Unpin
    <2> QED
        BY <1>1, <2>1 DEF Contents, Changing
<1>4. ASSUME NEW s \in Saves, NEW d \in Roots[s], GameSaves(s, d) PROVE Contents'
    <2>1. /\ running /\ s \notin written /\ disk' = [disk EXCEPT ![d] = Whole(s)]
          /\ written' = written \cup {s} /\ discarded' = discarded \cup Held(disk[d])
          /\ UNCHANGED <<archive, manifest, pinned, running, req>>
        BY <1>4 DEF GameSaves, Whole
    <2>2. d \in Dirs /\ disk'[d] = Whole(s) /\ \A e \in Dirs : e # d => disk'[e] = disk[e]
        BY <2>1, <1>types, RootsAssumption DEF Types
    <2>3. (running => ~Changing)'
        BY <2>1 DEF Contents, Changing
    <2>4. HeldIsWritten'
        BY <2>1, <2>2, <1>written, <1>whole DEF HeldIsWritten
    <2>5. \A t \in Saves : t # s /\ Uncovered(t)' => Uncovered(t) /\ t \notin Held(disk[d])
        BY <2>1 DEF Uncovered, WholeInArchive
    <2>6. ASSUME NEW t \in Saves, t # s, Uncovered(t)' PROVE Steady(t)
        <3>1. disk[d] # Whole(t) /\ (disk[d] # None => disk[d].save # t)
            BY <2>5, <2>6, <1>whole DEF Held
        <3>2. disk'[d] # Whole(t) /\ disk'[d].save # t
            BY <2>2, <2>6, <1>whole
        <3> QED
            BY <2>1, <2>2, <2>5, <2>6, <3>1, <3>2 DEF Steady
    <2>7. \A t \in Saves : t # s /\ Uncovered(t)' => \E e \in Dirs : LiesIn(t, e)'
        <3>1. \A t \in Saves : t # s /\ Uncovered(t)' => Steady(t) /\ Uncovered(t)
            BY <2>5, <2>6
        <3> QED
            BY <3>1, <1>lies, LyingStays
    <2>8. LiesIn(s, d)'
        BY <2>1, <2>2, <1>written, <1>whole DEF LiesIn, HeldIsWritten, Whole
    <2>9. \A t \in Saves : Uncovered(t)' => \E e \in Dirs : LiesIn(t, e)'
        BY <2>2, <2>7, <2>8
    <2>10. ASSUME NEW c \in Clients PROVE Backed(req[c])'
        <3>1. req'[c] = req[c] /\ ~Targeted(req[c]) /\ Backed(req[c])
            BY <2>1, <1>stopped, <1>backed DEF Targeted
        <3>2. ASSUME req[c].pc = "tarring"
              PROVE  /\ req[c].seen.save \in written'
                     /\ Uncovered(req[c].seen.save)' => disk'[req[c].from] = Whole(req[c].seen.save)
            <4>1. req[c].from \in Dirs /\ req[c].seen.save \in Saves /\ req[c].seen.save \in written
                BY <3>1, <3>2, <1>types DEF Booked, Wellformed, Making, Content, Backed
            <4>2. req[c].seen.save # s
                BY <4>1, <2>1
            <4> QED
                BY <2>1, <2>6, <3>1, <3>2, <4>1, <4>2 DEF Backed, Steady
        <3> QED
            BY <3>1, <3>2 DEF Backed, Targeted, Whole, Uncovered, WholeInArchive
    <2> QED
        BY <2>3, <2>4, <2>9, <2>10 DEF Contents
<1>5. CASE Crash
    <2>1. /\ req' = [c \in Clients |-> Idle] /\ running' = FALSE
          /\ UNCHANGED <<disk, archive, written, discarded>>
        BY <1>5 DEF Crash
    <2>2. \A c \in Clients : Backed(req[c])'
        BY <2>1 DEF Backed, Targeted, Idle
    <2> QED
        BY <2>1, <2>2 DEF Contents, HeldIsWritten, LiesIn, Whole, Uncovered, WholeInArchive
<1>6. ASSUME UNCHANGED <<disk, archive, running, written, discarded>>,
             NEW c \in Clients, req' = [req EXCEPT ![c] = Idle]
      PROVE  Contents'
    BY <1>6, IdleIsBacked, ContentsOfARequest DEF Idle
<1>13. ASSUME NEW c \in Clients, Restoring(c) PROVE Contents'
    <2>1. PICK q : /\ req' = [req EXCEPT ![c] = q] /\ Booked(q) /\ Onward(q)
                   /\ UNCHANGED <<disk, archive, manifest, pinned, running, written, discarded>>
                   /\ running => req[c].op = "restore"
        BY <1>13, RestoreGoesOn
    <2>2. ASSUME Targeted(q), NEW s \in Saves, disk[q.target] = Whole(s) PROVE BackedUp(q, s)
        <3>1. q.pc \in {"extract", "locate", "tar"}
            BY <2>1, <2>2, IdleIsBooked DEF Onward, Targeted, Booked, Wellformed
        <3>2. q.pc # "extract"
            BY <2>1, <2>2, <1>whole DEF Onward
        <3>3. Uuid(disk[q.target]) = s
            BY <2>2, <1>whole DEF Uuid, Whole
        <3> QED
            BY <2>1, <3>1, <3>2, <3>3 DEF Onward, BackedUp
    <2>3. q.pc # "tarring"
        BY <2>1 DEF Onward
    <2>4. Backed(q)
        BY <2>2, <2>3 DEF Backed
    <2> QED
        BY <2>1, <2>4, ContentsOfARequest
<1>7. ASSUME NEW c \in Clients, NewRequest(c) PROVE Contents'
    <2>1. ASSUME NEW u \in Saves, CreateCall(c, u) PROVE Contents'
        <3> DEFINE r == [Idle EXCEPT !.op = "create", !.pc = "locate", !.uuid = u]
        <3>1. Backed(r) /\ r.op = "create"
            BY DEF Backed, Targeted, Idle
        <3> HIDE DEF r
        <3> QED
            BY <2>1, <3>1, ContentsOfARequest DEF CreateCall, r
    <2>2. ASSUME NEW i \in Ids, RenameReads(c, i) PROVE Contents'
        <3>r. PICK r : r = [Idle EXCEPT !.op = "rename", !.pc = "rewrite", !.id = i, !.seen = manifest[i]]
            OBVIOUS
        <3>1. Backed(r) /\ r.op = "rename"
            BY <3>r DEF Backed, Targeted, Idle
        <3> QED
            BY <2>2, <3>r, <3>1, ContentsOfARequest DEF RenameReads
    <2>3. ASSUME NEW i \in Ids, DeleteArchive(c, i) PROVE Contents'
        <3>r. PICK r : r = [Idle EXCEPT !.op = "delete", !.pc = "unlink", !.id = i]
            OBVIOUS
        <3>1. /\ req' = [req EXCEPT ![c] = r] /\ archive' = [archive EXCEPT ![i] = None]
              /\ discarded' = discarded \cup IF archive[i] = None THEN {} ELSE Held(archive[i].content)
              /\ UNCHANGED <<disk, manifest, pinned, running, written>>
            BY <2>3, <3>r DEF DeleteArchive
        <3>2. Backed(r)' /\ r.op = "delete"
            BY <3>r DEF Backed, Targeted, Idle
        <3>3. \A j \in Ids : archive'[j] # None => archive'[j] = archive[j]
            BY <3>1, <1>types DEF Types
        <3>4. HeldIsWritten' /\ written \subseteq written'
            BY <3>1, <3>3, <1>written DEF HeldIsWritten
        <3>5. (running => ~Changing)'
            BY <3>1, <3>2, <1>stopped DEF Changing, Books
        <3>6. ASSUME NEW s \in Saves, Uncovered(s)' PROVE Steady(s)
            <4>1. s \notin discarded' /\ ~WholeInArchive(s)' /\ s \in written
                BY <3>1, <3>6 DEF Uncovered
            <4>2. \A j \in Ids : j # i => archive'[j] = archive[j]
                BY <3>1, <1>types DEF Types
            <4>3. archive[i] # None /\ archive[i].content = Whole(s) => s \in discarded'
                <5>1. Whole(s) # None /\ Whole(s).save = s
                    BY <1>whole
                <5> QED
                    BY <3>1, <5>1 DEF Held
            <4>4. ~WholeInArchive(s)
                BY <4>1, <4>2, <4>3 DEF WholeInArchive, Whole
            <4> QED
                BY <3>1, <3>3, <4>1, <4>4 DEF Steady, Uncovered
        <3> QED
            BY <3>1, <3>2, <3>4, <3>5, <3>6, ContentsStay
    <2>4. ASSUME NEW i \in Ids, NEW arm \in BOOLEAN, RestoreCall(c, i, arm) PROVE Contents'
        BY <2>4, <1>13 DEF Restoring
    <2>5. ASSUME NEW s \in Saves, NEW restore \in BOOLEAN, NEW arm \in BOOLEAN, NEW d \in Roots[s],
                 UploadCall(c, s, d, restore, arm)
          PROVE  Contents'
        <3>1. PICK i \in Ids : req' = [req EXCEPT ![c] = [Idle EXCEPT
                    !.op = "upload", !.pc = "store", !.new = i, !.from = d, !.uuid = s,
                    !.id = IF restore THEN i ELSE None,
                    !.arm = IF restore /\ arm THEN s ELSE None]]
            BY <2>5 DEF UploadCall
        <3>r. PICK r : r = [Idle EXCEPT
                    !.op = "upload", !.pc = "store", !.new = i, !.from = d, !.uuid = s,
                    !.id = IF restore THEN i ELSE None,
                    !.arm = IF restore /\ arm THEN s ELSE None]
            OBVIOUS
        <3>2. Backed(r)
            BY <3>r DEF Backed, Targeted, Idle
        <3> QED
            BY <2>5, <3>r, <3>1, <3>2, ContentsOfARequest DEF UploadCall, NotRunning
    <2>6. ASSUME RemoveCall(c) PROVE Contents'
        <3>r. PICK r : r = [Idle EXCEPT !.op = "remove", !.pc = "find", !.uuid = {}, !.seen = pinned]
            OBVIOUS
        <3>1. Backed(r)
            BY <3>r DEF Backed, Targeted, Idle
        <3> QED
            BY <2>6, <3>r, <3>1, ContentsOfARequest DEF RemoveCall, NotRunning
    <2>7. ASSUME NEW u \in Saves, ArmSave(c, u) PROVE Contents'
        <3>r. PICK r : r = [Idle EXCEPT !.op = "arm", !.pc = "armed", !.arm = u]
            OBVIOUS
        <3>1. Backed(r) /\ r.op = "arm"
            BY <3>r DEF Backed, Targeted, Idle
        <3> QED
            BY <2>7, <3>r, <3>1, ContentsOfARequest DEF ArmSave
    <2> QED
        BY <1>7, <2>1, <2>2, <2>3, <2>4, <2>5, <2>6, <2>7 DEF NewRequest
<1>8. ASSUME NEW c \in Clients,
             \/ LocateFails(c) \/ TarFails(c) \/ ManifestFails(c) \/ RenameWrites(c) \/ RenameFails(c)
             \/ DeleteManifest(c) \/ RemoveCommits(c) \/ Arms(c) \/ NothingCommitted(c)
      PROVE  Contents'
    BY <1>6, <1>8
       DEF LocateFails, TarFails, ManifestFails, RenameWrites, RenameFails, DeleteManifest,
           RemoveCommits, Arms, NothingCommitted, Done
<1>9. ASSUME NEW c \in Clients, Locate(c) PROVE Contents'
    <2>1. PICK d \in Located(req[c].uuid), i \in Ids :
              req' = [req EXCEPT ![c].pc = "tar", ![c].from = d, ![c].new = i]
        BY <1>9 DEF Locate
    <2>2. req[c].pc = "locate" /\ UNCHANGED <<disk, archive, running, written, discarded>>
        BY <1>9 DEF Locate
    <2>r. PICK r : r = [req[c] EXCEPT !.pc = "tar", !.from = d, !.new = i]
        OBVIOUS
    <2>3. /\ r.op = req[c].op /\ r.pc = "tar" /\ r.from = d /\ r.target = req[c].target
        BY <2>r, <1>types DEF Booked, Requests
    <2>4. d \in Dirs /\ disk[d] # None /\ Uuid(disk[d]) = req[c].uuid /\ req[c].uuid \in Saves
        BY <2>2, <1>types DEF Located, SavePoints, Booked, Wellformed
    <2>5. disk[d].save = req[c].uuid
        BY <2>4 DEF Uuid
    <2>6. ASSUME Targeted(r), NEW s \in Saves, Uncovered(s), disk[r.target] = Whole(s)
          PROVE  r.from = r.target
        <3>1. Targeted(req[c]) /\ req[c].target \in Dirs
            BY <2>2, <2>3, <2>6, <1>types DEF Targeted, Booked, Wellformed
        <3>2. req[c].uuid = s
            BY <2>2, <2>3, <2>6, <3>1, <1>backed DEF Backed, BackedUp
        <3>3. PICK e \in Dirs : LiesIn(s, e)
            BY <2>6, <1>lies
        <3>4. d = e /\ req[c].target = e
            BY <2>3, <2>4, <2>5, <2>6, <3>1, <3>2, <3>3, <1>whole DEF LiesIn
        <3> QED
            BY <2>3, <3>4
    <2>7. Backed(r)
        BY <2>3, <2>6 DEF Backed, BackedUp
    <2>8. req' = [req EXCEPT ![c] = r]
        BY <2>1, <2>r DEF Books
    <2> QED
        BY <2>2, <2>3, <2>7, <2>8, ContentsOfARequest
<1>10. ASSUME NEW c \in Clients, TarBegins(c) PROVE Contents'
    <2>r. PICK r : r = [req[c] EXCEPT !.pc = "tarring", !.seen = disk[req[c].from]]
        OBVIOUS
    <2>1. /\ req[c].pc = "tar" /\ disk[req[c].from] # None
          /\ UNCHANGED <<disk, archive, running, written, discarded>>
          /\ req' = [req EXCEPT ![c] = r]
        BY <2>r, <1>10 DEF TarBegins, Books
    <2>2. /\ r.op = req[c].op /\ r.pc = "tarring" /\ r.from = req[c].from
          /\ r.target = req[c].target /\ r.seen = disk[req[c].from]
        BY <2>r, <1>types DEF Booked, Requests
    <2>3. r.from \in Dirs /\ r.seen \in Content
        BY <2>1, <2>2, <1>types DEF Types, Booked, Wellformed, Making
    <2>4. r.seen.save \in written /\ r.seen.save \in Saves
        BY <2>1, <2>2, <2>3, <1>written DEF HeldIsWritten, Content
    <2>5. Uncovered(r.seen.save) => disk[r.from] = Whole(r.seen.save)
        BY <2>1, <2>2, <2>3, <2>4, <1>lies DEF LiesIn
    <2>6. ASSUME Targeted(r), NEW s \in Saves, Uncovered(s), disk[r.target] = Whole(s)
          PROVE  r.from = r.target /\ r.seen = Whole(s)
        BY <2>1, <2>2, <2>6, <1>backed DEF Targeted, Backed, BackedUp
    <2>7. Backed(r)
        BY <2>2, <2>4, <2>5, <2>6 DEF Backed, BackedUp
    <2> QED
        BY <2>1, <2>2, <2>7, ContentsOfARequest
<1>11. ASSUME NEW c \in Clients, TarEnds(c) PROVE Contents'
    <2>r. PICK r : r = [req[c] EXCEPT !.pc = "manifest", !.seen = None]
        OBVIOUS
    <2>1. /\ req[c].pc = "tarring" /\ req' = [req EXCEPT ![c] = r]
          /\ UNCHANGED <<disk, manifest, pinned, running, written, discarded>>
        BY <2>r, <1>11 DEF TarEnds, Books
    <2>2. /\ r.op = req[c].op /\ r.pc = "manifest" /\ r.target = req[c].target
        BY <2>r, <1>types DEF Booked, Requests
    <2>3. req[c].seen \in Content /\ req[c].from \in Dirs /\ req[c].seen.save \in Saves
        BY <2>1, <1>types DEF Booked, Wellformed, Making, Content
    <2>4. PICK st \in {"whole", "torn", "bare"} :
              /\ archive' = [archive EXCEPT ![req[c].new] =
                     [root |-> req[c].from, content |-> [save |-> req[c].seen.save, state |-> st]]]
              /\ disk[req[c].from] = req[c].seen => st = req[c].seen.state
        <3>1. req[c].seen.state \in {"whole", "torn", "bare"}
            BY <2>3 DEF Content
        <3> QED
            BY <3>1, <1>11 DEF TarEnds
    <2>a. PICK n, a : /\ n = req[c].new
                      /\ a = [root |-> req[c].from, content |-> [save |-> req[c].seen.save, state |-> st]]
        OBVIOUS
    <2>5. /\ a \in Archive /\ a.root = req[c].from /\ a.content.save = req[c].seen.save
          /\ a.content = [save |-> req[c].seen.save, state |-> st]
        BY <2>a, <2>3 DEF Archive, Content
    <2>6. archive' = [archive EXCEPT ![n] = a] /\ n \in Ids
        BY <2>a, <2>1, <2>4, <1>types DEF Booked, Wellformed, Making
    <2>7. archive'[n] = a /\ \A i \in Ids : i # n => archive'[i] = archive[i]
        BY <2>6, <1>types DEF Types
    <2>8. ASSUME NEW s \in Saves, Uncovered(s)' PROVE Uncovered(s) /\ a.content # Whole(s)
        <3>1. written' \subseteq written \cup {a.content.save} /\ s \in written
            BY <2>1, <2>8 DEF Uncovered
        <3>2. n \in Ids /\ archive[n] = None /\ a # None
            BY <2>1, <2>a, <2>5, <2>6, <1>types DEF Booked, Makes, Making
        <3>3. discarded' = discarded
            BY <2>1
        <3> QED
            BY <2>7, <2>8, <3>1, <3>2, <3>3, Covering
    <2>9. HeldIsWritten' /\ written \subseteq written'
        BY <2>1, <2>5, <2>7, <1>written, <1>backed DEF HeldIsWritten, Backed
    <2>10. (running => ~Changing)'
        BY <2>1, <2>2, <1>stopped DEF Changing, Books
    <2>11. ASSUME NEW s \in Saves, Uncovered(s)' PROVE Steady(s)
        <3>1. Uncovered(s)
            BY <2>8, <2>11
        <3>2. a.content.save = s => disk[a.root] = Whole(s) /\ a.root \in Dirs
            BY <3>1, <2>1, <2>3, <2>5, <1>backed DEF Backed
        <3> QED
            BY <2>1, <2>7, <3>1, <3>2 DEF Steady
    <2>12. ASSUME Targeted(r), NEW s \in Saves, Uncovered(s)', disk'[r.target] = Whole(s) PROVE FALSE
        <3>1. Targeted(req[c]) /\ Uncovered(s) /\ disk[req[c].target] = Whole(s)
            BY <2>1, <2>2, <2>8, <2>12 DEF Targeted
        <3>2. req[c].from = req[c].target /\ req[c].seen = Whole(s)
            BY <2>1, <3>1, <1>backed DEF Backed, BackedUp
        <3>3. st = "whole" /\ a.content = Whole(s)
            BY <2>4, <2>5, <3>1, <3>2 DEF Whole
        <3> QED
            BY <2>8, <2>12, <3>3
    <2>13. Backed(r)'
        BY <2>2, <2>12 DEF Backed, Targeted, Whole, Uncovered, WholeInArchive
    <2> QED
        BY <2>1, <2>9, <2>10, <2>11, <2>13, ContentsStay
<1>12. ASSUME NEW c \in Clients, WriteManifest(c) PROVE Contents'
    <2>1. req[c].pc = "manifest" /\ UNCHANGED <<disk, archive, running, written, discarded>>
          /\ req[c].op \in {"create", "restore", "upload"}
        BY <1>12, <1>types DEF WriteManifest, Booked, Wellformed
    <2>2. CASE req[c].id # None
        <3>p. PICK p : p = IF req[c].op = "restore" THEN "extract" ELSE "resolve"
            OBVIOUS
        <3>r. PICK r : r = [req[c] EXCEPT !.op = "restore", !.new = None, !.from = None, !.uuid = None,
                                          !.pc = p]
            OBVIOUS
        <3>1. req' = [req EXCEPT ![c] = r]
            BY <3>p, <3>r, <2>2, <1>12 DEF WriteManifest, Books
        <3>2. r.op = "restore" /\ r.pc = p /\ r.target = req[c].target
            BY <3>r, <1>types DEF Booked, Requests
        <3>3. req[c].op = "restore" => Targeted(req[c])
            BY <2>1 DEF Targeted
        <3>4. Backed(r)
            BY <2>1, <3>p, <3>2, <3>3, <1>backed DEF Backed, BackedUp, Targeted
        <3>5. req[c].op \in {"restore", "upload"}
            BY <2>1, <2>2, <1>types DEF Booked, Wellformed
        <3> QED
            BY <2>1, <3>1, <3>4, <3>5, ContentsOfARequest
    <2>3. CASE req[c].id = None
        BY <2>1, <2>3, <1>6, <1>12 DEF WriteManifest, Done
    <2> QED
        BY <2>2, <2>3
<1>14. ASSUME NEW c \in Clients, RemoveTarget(c) PROVE Contents'
    <2>r. PICK r : r = [req[c] EXCEPT !.pc = "write"]
        OBVIOUS
    <2>1. /\ req[c].pc = "extract" /\ req' = [req EXCEPT ![c] = r]
          /\ disk' = [disk EXCEPT ![req[c].target] = None]
          /\ UNCHANGED <<archive, running, written, discarded>>
        BY <2>r, <1>14 DEF RemoveTarget, Goes, Books
    <2>2. req[c].op = "restore" /\ req[c].target \in Dirs /\ Targeted(req[c])
        BY <2>1, <1>types DEF Booked, Wellformed, Targeted
    <2>3. r.op = "restore" /\ r.pc = "write" /\ r.target = req[c].target
        BY <2>r, <2>2, <1>types DEF Booked, Requests
    <2>4. disk'[r.target] = None /\ \A e \in Dirs : e # r.target => disk'[e] = disk[e]
        BY <2>1, <2>2, <2>3, <1>types DEF Types
    <2>5. HeldIsWritten' /\ written \subseteq written'
        BY <2>1, <2>2, <2>3, <2>4, <1>written DEF HeldIsWritten
    <2>6. (running => ~Changing)'
        BY <2>1, <2>2, <1>stopped DEF Changing
    <2>7. ASSUME NEW s \in Saves, Uncovered(s)' PROVE Steady(s)
        <3>1. Uncovered(s)
            BY <2>1, <2>7 DEF Uncovered, WholeInArchive
        <3>2. disk[r.target] # Whole(s)
            BY <2>1, <2>2, <2>3, <3>1, <1>backed DEF Backed, BackedUp
        <3> QED
            BY <2>1, <2>4, <3>1, <3>2, <1>whole DEF Steady
    <2>8. Backed(r)'
        BY <2>3, <2>4, <1>whole DEF Backed, Whole
    <2> QED
        BY <2>1, <2>5, <2>6, <2>7, <2>8, ContentsStay
<1>15. ASSUME NEW c \in Clients, NEW x \in Content, req[c].pc = "write",
              NEW r, req' = [req EXCEPT ![c] = r], ~Targeted(r), r.pc # "tarring",
              archive[req[c].id] # None, x.save = archive[req[c].id].content.save,
              disk' = [disk EXCEPT ![archive[req[c].id].root] = x],
              UNCHANGED <<archive, running, written, discarded>>
       PROVE  Contents'
    <2>1. PICK d : d = req[c].target
        OBVIOUS
    <2>2. req[c].id \in Ids /\ d \in Dirs /\ Targeted(req[c])
        BY <2>1, <1>15, <1>types DEF Booked, Wellformed, Targeted
    <2>3. archive[req[c].id].root = d
        BY <2>1, <2>2, <1>15, <1>types DEF Booked, Rooted
    <2>4. disk'[d] = x /\ \A e \in Dirs : e # d => disk'[e] = disk[e]
        BY <2>2, <2>3, <1>15, <1>types DEF Types
    <2>5. HeldIsWritten' /\ written \subseteq written'
        BY <2>2, <2>4, <1>15, <1>written DEF HeldIsWritten
    <2>6. (running => ~Changing)'
        BY <1>15, <2>2, <1>stopped DEF Targeted
    <2>7. ASSUME NEW s \in Saves, Uncovered(s)' PROVE Steady(s)
        <3>1. Uncovered(s)
            BY <1>15, <2>7 DEF Uncovered, WholeInArchive
        <3>2. disk[d] # Whole(s)
            BY <2>1, <2>2, <1>15, <3>1, <1>backed DEF Backed, BackedUp
        <3>3. PICK e \in Dirs : LiesIn(s, e)
            BY <3>1, <1>lies
        <3>4. x.save # s
            BY <2>2, <2>3, <3>2, <3>3, <1>15 DEF LiesIn
        <3> QED
            BY <2>4, <1>15, <3>1, <3>2, <3>4, <1>whole DEF Steady
    <2>8. Backed(r)'
        BY <1>15 DEF Backed, Targeted
    <2> QED
        BY <1>15, <2>5, <2>6, <2>7, <2>8, ContentsStay
<1>16. ASSUME NEW c \in Clients, Extract(c) PROVE Contents'
    <2>1. /\ req[c].pc = "write" /\ archive[req[c].id] # None
          /\ UNCHANGED <<archive, running, written, discarded>>
        BY <1>16 DEF Extract
    <2>2. archive[req[c].id] \in Archive
        BY <2>1, <1>types DEF Types, Booked, Wellformed
    <2>3. PICK a : a = archive[req[c].id]
        OBVIOUS
    <2>4. a \in Archive /\ a.root \in Dirs /\ a.content \in Content
        BY <2>2, <2>3 DEF Archive
    <2>5. PICK x \in Content : x.save = a.content.save /\ disk' = [disk EXCEPT ![a.root] = x]
        <3>1. [a.content EXCEPT !.state = "torn"] \in Content
              /\ [a.content EXCEPT !.state = "torn"].save = a.content.save
            BY <2>4 DEF Content
        <3>2. disk' = [disk EXCEPT ![a.root] =
                          IF disk[a.root] = None THEN a.content ELSE [a.content EXCEPT !.state = "torn"]]
            BY <2>3, <2>4, <1>16, <1>types DEF Extract, Types
        <3> QED
            BY <2>4, <3>1, <3>2
    <2>6. CASE req[c].arm = None
        BY <2>1, <2>3, <2>5, <2>6, <1>15, <1>16, IdleIsBooked DEF Extract, Done, Targeted
    <2>7. CASE req[c].arm # None
        <3>r. PICK r : r = [req[c] EXCEPT !.pc = "armed"]
            OBVIOUS
        <3>1. req' = [req EXCEPT ![c] = r] /\ r.pc = "armed"
            BY <3>r, <2>7, <1>16, <1>types DEF Extract, Goes, Books, Booked, Requests
        <3> QED
            BY <2>1, <2>3, <2>5, <3>1, <1>15 DEF Targeted
    <2> QED
        BY <2>6, <2>7
<1>17. ASSUME NEW c \in Clients, CopyFails(c) PROVE Contents'
    <2>1. Done(c) /\ UNCHANGED <<archive, running, written, discarded>>
        BY <1>17 DEF CopyFails
    <2>2. CASE UNCHANGED disk
        BY <2>1, <2>2, <1>6 DEF Done
    <2>3. ASSUME req[c].pc = "extract", NEW left \in Remains(disk[req[c].target]),
                 disk' = [disk EXCEPT ![req[c].target] = left]
          PROVE  Contents'
        <3>1. req[c].target \in Dirs /\ Targeted(req[c]) /\ ~running
            BY <2>3, <1>types, <1>stopped DEF Booked, Wellformed, Targeted
        <3>2. \A d \in Dirs : disk'[d] \in {disk[d], None} \cup Remains(disk[d])
            BY <2>3, <1>types DEF Types
        <3>3. ASSUME NEW s \in Saves, NEW d \in Dirs, Uncovered(s)', disk[d] = Whole(s)
              PROVE  disk'[d] = disk[d]
            <4>1. Uncovered(s)
                BY <2>1, <3>3 DEF Uncovered, WholeInArchive
            <4>2. d # req[c].target
                BY <2>3, <3>1, <3>3, <4>1, <1>backed DEF Backed, BackedUp
            <4> QED
                BY <2>3, <3>3, <4>2, <1>types DEF Types
        <3> QED
            BY <2>1, <3>1, <3>2, <3>3, IdleIsBooked, ContentsOfARemoval DEF Done, Targeted
    <2>4. ASSUME req[c].pc = "write", archive[req[c].id] # None, NEW st \in {"torn", "bare"},
                 disk' = [disk EXCEPT ![archive[req[c].id].root] =
                             [save |-> archive[req[c].id].content.save, state |-> st]]
          PROVE  Contents'
        <3>a. PICK a : a = archive[req[c].id]
            OBVIOUS
        <3>1. a \in Archive
            BY <3>a, <2>4, <1>types DEF Types, Booked, Wellformed
        <3>2. [save |-> a.content.save, state |-> st] \in Content
            BY <3>1 DEF Archive, Content
        <3> QED
            BY <2>1, <2>4, <3>a, <3>2, <1>15, IdleIsBooked DEF Done, Targeted
    <2> QED
        BY <1>17, <2>2, <2>3, <2>4 DEF CopyFails
<1>18. ASSUME NEW c \in Clients, UploadStores(c) PROVE Contents'
    <2>r. PICK r : r = [req[c] EXCEPT !.pc = "manifest"]
        OBVIOUS
    <2>a. PICK n, a : n = req[c].new /\ a = [root |-> req[c].from, content |-> Whole(req[c].uuid)]
        OBVIOUS
    <2>1. /\ req[c].pc = "store" /\ req' = [req EXCEPT ![c] = r]
          /\ archive' = [archive EXCEPT ![n] = a] /\ written' = written \cup {req[c].uuid}
          /\ UNCHANGED <<disk, running, discarded>>
        BY <2>r, <2>a, <1>18 DEF UploadStores, Goes, Books, Whole
    <2>2. req[c].op = "upload" /\ req[c].uuid \in Saves /\ n \in Ids /\ req[c].from \in Dirs
        BY <2>1, <2>a, <1>types DEF Booked, Wellformed, Making
    <2>3. r.op = "upload" /\ r.pc = "manifest"
        BY <2>r, <2>2, <1>types DEF Booked, Requests
    <2>4. a \in Archive /\ a.content = Whole(req[c].uuid) /\ a.content.save = req[c].uuid
        BY <2>a, <2>2, <1>whole DEF Archive
    <2>5. archive'[n] = a /\ \A i \in Ids : i # n => archive'[i] = archive[i]
        BY <2>1, <2>2, <1>types DEF Types
    <2>6. ASSUME NEW s \in Saves, Uncovered(s)' PROVE Uncovered(s) /\ s # req[c].uuid
        <3>1. written' \subseteq written \cup {a.content.save} /\ discarded' = discarded
            BY <2>1, <2>4
        <3>2. archive[n] = None /\ a # None
            BY <2>1, <2>a, <2>4, <1>types DEF Booked, Makes, Making
        <3>3. a.content # Whole(s) /\ (s \in written => Uncovered(s))
            BY <2>2, <2>5, <2>6, <3>1, <3>2, Covering
        <3>4. s # req[c].uuid
            BY <2>4, <3>3
        <3>5. s \in written
            BY <2>1, <2>6, <3>4 DEF Uncovered
        <3> QED
            BY <3>3, <3>4, <3>5
    <2>7. HeldIsWritten' /\ written \subseteq written'
        BY <2>1, <2>4, <2>5, <1>written DEF HeldIsWritten
    <2>8. (running => ~Changing)'
        BY <2>1, <2>2, <1>stopped DEF Changing
    <2>9. ASSUME NEW s \in Saves, Uncovered(s)' PROVE Steady(s)
        <3>1. Uncovered(s) /\ a.content.save # s
            BY <2>4, <2>6, <2>9
        <3> QED
            BY <2>1, <2>5, <3>1 DEF Steady
    <2>10. Backed(r)'
        BY <2>3 DEF Backed, Targeted
    <2> QED
        BY <2>1, <2>7, <2>8, <2>9, <2>10, ContentsStay
<1>19. ASSUME NEW c \in Clients, RmTree(c) \/ RmTreeFails(c) PROVE Contents'
    <2>T. PICK T : T = req[c].target
        OBVIOUS
    <2>1. /\ req[c].pc = "rmtree" /\ discarded' = discarded \cup UNION {Held(disk[d]) : d \in T}
          /\ UNCHANGED <<archive, running, written>>
        BY <2>T, <1>19 DEF RmTree, RmTreeFails
    <2>2. T \in SUBSET Dirs /\ ~running
        BY <2>1, <2>T, <1>types, <1>stopped DEF Booked, Wellformed
    <2>3. \A d \in Dirs : /\ disk'[d] \in {disk[d], None} \cup Remains(disk[d])
                          /\ d \notin T => disk'[d] = disk[d]
        BY <2>T, <1>19 DEF RmTree, RmTreeFails
    <2>4. ASSUME NEW s \in Saves, NEW d \in Dirs, Uncovered(s)', disk[d] = Whole(s)
          PROVE  disk'[d] = disk[d]
        <3>1. s \notin discarded' /\ s \in Held(disk[d])
            BY <2>4, <1>whole DEF Uncovered, Held
        <3>2. d \notin T
            BY <2>1, <3>1
        <3> QED
            BY <2>3, <3>2
    <2>5. PICK r : req' = [req EXCEPT ![c] = r] /\ ~Targeted(r) /\ r.pc # "tarring"
        <3>1. CASE RmTree(c)
            <4>r. PICK r : r = [req[c] EXCEPT !.pc = "commit", !.target = {}]
                OBVIOUS
            <4>1. req' = [req EXCEPT ![c] = r]
                BY <4>r, <3>1 DEF RmTree, Books
            <4>2. r.pc = "commit" /\ r.op = "remove"
                BY <4>r, <2>1, <1>types DEF Booked, Requests, Wellformed
            <4> QED
                BY <4>1, <4>2 DEF Targeted
        <3>2. CASE RmTreeFails(c)
            BY <3>2, IdleIsBooked DEF RmTreeFails, Done, Targeted
        <3> QED
            BY <1>19, <3>1, <3>2
    <2> QED
        BY <2>1, <2>2, <2>3, <2>4, <2>5, ContentsOfARemoval
<1>22. ASSUME NEW c \in Clients, NEW D \in SUBSET Dirs, RemoveFinds(c, D) PROVE Contents'
    <2>1. PICK u, x : req' = [req EXCEPT ![c].pc = "rmtree", ![c].target = D, ![c].uuid = u, ![c].seen = x]
        BY <1>22 DEF RemoveFinds
    <2>r. PICK r : r = [req[c] EXCEPT !.pc = "rmtree", !.target = D, !.uuid = u, !.seen = x]
        OBVIOUS
    <2>2. req' = [req EXCEPT ![c] = r]
        BY <2>1, <2>r DEF Books
    <2>q. req[c] \in Requests /\ req[c].op = "remove"
        BY <1>22, <1>types DEF RemoveFinds, Booked, Wellformed
    <2>3. r.pc = "rmtree" /\ r.op = "remove" /\ req[c].op = "remove"
        BY <2>r, <2>q DEF Requests
    <2>4. Backed(r)
        BY <2>3 DEF Backed, Targeted
    <2> QED
        BY <1>22, <2>2, <2>3, <2>4, ContentsOfARequest DEF RemoveFinds
<1>20. ASSUME NEW c \in Clients, RequestStep(c) PROVE Contents'
    <2>1. CASE \E D \in SUBSET Dirs : RemoveFinds(c, D)
        BY <2>1, <1>22
    <2>2. CASE Resolve(c)
        BY <2>2, <1>13 DEF Restoring
    <2> QED
        BY <1>20, <2>1, <2>2, <1>8, <1>9, <1>10, <1>11, <1>12, <1>14, <1>16, <1>17, <1>18, <1>19
           DEF RequestStep
<1>21. CASE GameStep
    <2>1. CASE StartServer \/ ServerExits
        BY <2>1, <1>2
    <2>2. CASE \E s \in Saves : \E d \in Roots[s] : GameSaves(s, d)
        BY <2>2, <1>4
    <2> QED
        BY <1>21, <2>1, <2>2 DEF GameStep
<1> QED
    BY <1>0, <1>3, <1>5, <1>7, <1>20, <1>21 DEF Next

LEMMA ContentsAtFirst == Init => Contents
<1> SUFFICES ASSUME Init PROVE Contents
    OBVIOUS
<1>1. \A c \in Clients : req[c] = Idle
    BY DEF Init
<1> QED
    BY <1>1, IdleIsBacked DEF Init, Contents, HeldIsWritten, Uncovered, Changing, Idle

(* restore_snapshot, for any number of requests, saves and directories: a    *)
(* save nobody asked to remove keeps a whole copy, whatever fails and        *)
(* whenever the backend is killed, as long as no server starts between       *)
(* _refuse_while_running and the end of the request it let through.          *)
THEOREM NothingIsLost ==
    ASSUME "start" \notin Overlaps PROVE Spec => []NeverDiscarded
<1>1. Init => Books /\ Contents
    BY BooksAtFirst, ContentsAtFirst
<1>2. Books /\ Contents /\ [Next]_vars => Books' /\ Contents'
    BY BooksAreKept, ContentsAreKept
<1>3. Books /\ Contents => NeverDiscarded
    BY DEF Books, Types, Contents, Uncovered, LiesIn, NeverDiscarded, WholeOnDisk, Whole
<1> QED
    BY <1>1, <1>2, <1>3, PTL DEF Spec

-----------------------------------------------------------------------------
(* The listed: a manifest and its archive, two files                        *)

Unlinks(c, i) == req[c].pc = "unlink" /\ req[c].id = i

(* A rename that has read a manifest will find it when it writes.           *)
Renames ==
    \A c \in Clients : req[c].pc = "rewrite" =>
        /\ manifest[req[c].id] # None
        /\ \A k \in Clients : req[k].pc # "unlink"

Kept == ListedHasArchive /\ Renames

LEMMA KeptByARequest ==
    ASSUME Books, Kept, UNCHANGED <<archive, manifest>>,
           NEW c \in Clients, NEW r, req' = [req EXCEPT ![c] = r],
           r.pc \notin {"rewrite", "unlink"}, req[c].pc # "unlink"
    PROVE  Kept'
BY DEF Books, Kept, ListedHasArchive, Listed, Renames

LEMMA KeptIsKept ==
    ASSUME "rename" \notin Overlaps, "crash" \notin Overlaps, Books, Kept, [Next]_vars
    PROVE  Kept'
<1> USE NoneAssumption
<1>types. Types /\ \A c \in Clients : Booked(req[c])
    BY DEF Books
<1>listed. ListedHasArchive /\ Renames
    BY DEF Kept
<1>0. ASSUME UNCHANGED <<archive, manifest, req>> PROVE Kept'
    BY <1>0 DEF Kept, ListedHasArchive, Listed, Renames
<1>1. ASSUME UNCHANGED <<archive, manifest>>, NEW c \in Clients, Done(c), req[c].pc # "unlink"
      PROVE  Kept'
    BY <1>1, KeptByARequest DEF Done, Idle
<1>2. CASE GameStep \/ Unpin \/ UNCHANGED vars
    BY <1>0, <1>2 DEF GameStep, StartServer, ServerExits, GameSaves, Unpin, vars
<1>3. CASE Crash
    <2>1. /\ req' = [c \in Clients |-> Idle] /\ archive' = archive /\ manifest' = manifest
          /\ \A c \in Clients : req[c].pc # "unlink"
        BY <1>3 DEF Crash
    <2>2. \A c \in Clients : req'[c].pc = "idle"
        BY <2>1 DEF Idle
    <2> QED
        BY <2>1, <2>2, <1>listed DEF Kept, ListedHasArchive, Listed, Renames
<1>4. ASSUME NEW c \in Clients, NEW i \in Ids, RenameReads(c, i) PROVE Kept'
    <2>r. PICK r : r = [Idle EXCEPT !.op = "rename", !.pc = "rewrite", !.id = i, !.seen = manifest[i]]
        OBVIOUS
    <2>1. /\ req' = [req EXCEPT ![c] = r] /\ req[c] = Idle /\ manifest[i] # None
          /\ UNCHANGED <<archive, manifest>> /\ \A k \in Clients : req[k].op # "delete"
        BY <2>r, <1>4 DEF RenameReads, Apart
    <2>2. r.pc = "rewrite" /\ r.id = i /\ Idle.pc = "idle"
        BY <2>r DEF Idle
    <2>3. req'[c] = r /\ \A k \in Clients : k # c => req'[k] = req[k]
        BY <2>1 DEF Books
    <2>4. \A k \in Clients : req[k].pc # "unlink" /\ req'[k].pc # "unlink"
        BY <2>1, <2>2, <2>3, <1>types DEF Booked, Wellformed
    <2> QED
        BY <2>1, <2>2, <2>3, <2>4, <1>listed DEF Kept, ListedHasArchive, Listed, Renames
<1>5. ASSUME NEW c \in Clients, NEW i \in Ids, DeleteArchive(c, i) PROVE Kept'
    <2>r. PICK r : r = [Idle EXCEPT !.op = "delete", !.pc = "unlink", !.id = i]
        OBVIOUS
    <2>1. /\ req' = [req EXCEPT ![c] = r] /\ req[c] = Idle /\ manifest' = manifest
          /\ archive' = [archive EXCEPT ![i] = None] /\ \A k \in Clients : req[k].op # "rename"
        BY <2>r, <1>5 DEF DeleteArchive, Apart
    <2>2. r.pc = "unlink" /\ r.id = i /\ Idle.pc = "idle"
        BY <2>r DEF Idle
    <2>3. req'[c] = r /\ \A k \in Clients : k # c => req'[k] = req[k]
        BY <2>1 DEF Books
    <2>4. \A k \in Clients : req'[k].pc # "rewrite"
        BY <2>1, <2>2, <2>3, <1>types DEF Booked, Wellformed
    <2>5. \A j \in Ids : j # i => archive'[j] = archive[j]
        BY <2>1, <1>types DEF Types
    <2>6. \A k \in Clients, j \in Ids : Unlinks(k, j) => Unlinks(k, j)'
        BY <2>1, <2>2, <2>3 DEF Unlinks
    <2>7. ListedHasArchive'
        BY <2>1, <2>2, <2>3, <2>5, <2>6, <1>listed DEF ListedHasArchive, Listed, Unlinks
    <2> QED
        BY <2>4, <2>7 DEF Kept, Renames
<1>13. ASSUME NEW c \in Clients, Restoring(c) PROVE Kept'
    <2>1. PICK q : /\ req' = [req EXCEPT ![c] = q] /\ Onward(q)
                   /\ UNCHANGED <<archive, manifest>> /\ req[c].pc \in {"idle", "resolve"}
        BY <1>13, RestoreGoesOn
    <2>2. q.pc \notin {"rewrite", "unlink"} /\ req[c].pc # "unlink"
        BY <2>1 DEF Onward
    <2> QED
        BY <2>1, <2>2, KeptByARequest
<1>6. ASSUME NEW c \in Clients, NewRequest(c) PROVE Kept'
    <2>1. ASSUME NEW u \in Saves, CreateCall(c, u) PROVE Kept'
        <3> DEFINE r == [Idle EXCEPT !.op = "create", !.pc = "locate", !.uuid = u]
        <3>1. r.pc = "locate" /\ Idle.pc = "idle"
            BY DEF Idle
        <3> HIDE DEF r
        <3> QED
            BY <2>1, <3>1, KeptByARequest DEF CreateCall, r
    <2>2. ASSUME NEW i \in Ids, NEW arm \in BOOLEAN, RestoreCall(c, i, arm) PROVE Kept'
        BY <2>2, <1>13 DEF Restoring
    <2>3. ASSUME NEW s \in Saves, NEW restore \in BOOLEAN, NEW arm \in BOOLEAN, NEW d \in Roots[s],
                 UploadCall(c, s, d, restore, arm)
          PROVE  Kept'
        <3>1. PICK i \in Ids : req' = [req EXCEPT ![c] = [Idle EXCEPT
                    !.op = "upload", !.pc = "store", !.new = i, !.from = d, !.uuid = s,
                    !.id = IF restore THEN i ELSE None,
                    !.arm = IF restore /\ arm THEN s ELSE None]]
            BY <2>3 DEF UploadCall
        <3>r. PICK r : r = [Idle EXCEPT
                    !.op = "upload", !.pc = "store", !.new = i, !.from = d, !.uuid = s,
                    !.id = IF restore THEN i ELSE None,
                    !.arm = IF restore /\ arm THEN s ELSE None]
            OBVIOUS
        <3>2. r.pc = "store" /\ Idle.pc = "idle"
            BY <3>r DEF Idle
        <3> QED
            BY <2>3, <3>r, <3>1, <3>2, KeptByARequest DEF UploadCall
    <2>4. ASSUME RemoveCall(c) PROVE Kept'
        <3>r. PICK r : r = [Idle EXCEPT !.op = "remove", !.pc = "find", !.uuid = {}, !.seen = pinned]
            OBVIOUS
        <3>1. r.pc = "find" /\ Idle.pc = "idle"
            BY <3>r DEF Idle
        <3> QED
            BY <2>4, <3>r, <3>1, KeptByARequest DEF RemoveCall
    <2>5. ASSUME NEW u \in Saves, ArmSave(c, u) PROVE Kept'
        <3>r. PICK r : r = [Idle EXCEPT !.op = "arm", !.pc = "armed", !.arm = u]
            OBVIOUS
        <3>1. r.pc = "armed" /\ Idle.pc = "idle"
            BY <3>r DEF Idle
        <3> QED
            BY <2>5, <3>r, <3>1, KeptByARequest DEF ArmSave
    <2> QED
        BY <1>4, <1>5, <1>6, <2>1, <2>2, <2>3, <2>4, <2>5 DEF NewRequest
<1>7. ASSUME NEW c \in Clients,
             \/ LocateFails(c) \/ TarFails(c) \/ ManifestFails(c) \/ RenameFails(c) \/ CopyFails(c)
             \/ RmTreeFails(c) \/ RemoveCommits(c) \/ Arms(c) \/ NothingCommitted(c)
      PROVE  Kept'
    <2>1. Done(c) /\ req[c].pc # "unlink" /\ UNCHANGED <<archive, manifest>>
        BY <1>7 DEF LocateFails, TarFails, ManifestFails, RenameFails, CopyFails, RmTreeFails,
                    RemoveCommits, Arms, NothingCommitted
    <2> QED
        BY <2>1, <1>1
<1>15. ASSUME NEW c \in Clients, Extract(c) \/ RmTree(c) PROVE Kept'
    <2>1. req[c].pc # "unlink" /\ UNCHANGED <<archive, manifest>>
        BY <1>15 DEF Extract, RmTree
    <2>2. CASE Done(c)
        BY <2>1, <2>2, <1>1
    <2>3. CASE Goes(c, "armed")
        <3>r. PICK r : r = [req[c] EXCEPT !.pc = "armed"]
            OBVIOUS
        <3>1. req' = [req EXCEPT ![c] = r] /\ r.pc = "armed"
            BY <3>r, <2>3, <1>types DEF Goes, Books, Booked, Requests
        <3> QED
            BY <2>1, <3>1, KeptByARequest
    <2>4. CASE RmTree(c)
        <3>r. PICK r : r = [req[c] EXCEPT !.pc = "commit", !.target = {}]
            OBVIOUS
        <3>1. req' = [req EXCEPT ![c] = r] /\ r.pc = "commit"
            BY <3>r, <2>4, <1>types DEF RmTree, Books, Booked, Requests
        <3> QED
            BY <2>1, <3>1, KeptByARequest
    <2> QED
        BY <1>15, <2>2, <2>3, <2>4 DEF Extract
<1>16. ASSUME NEW c \in Clients, NEW D \in SUBSET Dirs, RemoveFinds(c, D) PROVE Kept'
    <2>1. PICK u, x : req' = [req EXCEPT ![c].pc = "rmtree", ![c].target = D, ![c].uuid = u, ![c].seen = x]
        BY <1>16 DEF RemoveFinds
    <2>r. PICK r : r = [req[c] EXCEPT !.pc = "rmtree", !.target = D, !.uuid = u, !.seen = x]
        OBVIOUS
    <2>2. req' = [req EXCEPT ![c] = r]
        BY <2>1, <2>r DEF Books
    <2>q. req[c] \in Requests
        BY <1>types DEF Booked
    <2>3. r.pc = "rmtree"
        BY <2>r, <2>q DEF Requests
    <2> QED
        BY <1>16, <2>2, <2>3, KeptByARequest DEF RemoveFinds
<1>8. ASSUME NEW c \in Clients, Locate(c) \/ TarBegins(c) \/ RemoveTarget(c) PROVE Kept'
    <2>1. CASE Locate(c)
        <3>1. PICK d \in Located(req[c].uuid), i \in Ids :
                  req' = [req EXCEPT ![c].pc = "tar", ![c].from = d, ![c].new = i]
            BY <2>1 DEF Locate
        <3>r. PICK r : r = [req[c] EXCEPT !.pc = "tar", !.from = d, !.new = i]
            OBVIOUS
        <3>2. req' = [req EXCEPT ![c] = r] /\ r.pc = "tar"
            BY <3>1, <3>r, <1>types DEF Books, Booked, Requests
        <3> QED
            BY <2>1, <3>2, KeptByARequest DEF Locate
    <2>2. CASE TarBegins(c)
        <3>r. PICK r : r = [req[c] EXCEPT !.pc = "tarring", !.seen = disk[req[c].from]]
            OBVIOUS
        <3>1. req' = [req EXCEPT ![c] = r] /\ r.pc = "tarring"
            BY <2>2, <3>r, <1>types DEF TarBegins, Books, Booked, Requests
        <3> QED
            BY <2>2, <3>1, KeptByARequest DEF TarBegins
    <2>3. CASE RemoveTarget(c)
        <3>r. PICK r : r = [req[c] EXCEPT !.pc = "write"]
            OBVIOUS
        <3>1. req' = [req EXCEPT ![c] = r] /\ r.pc = "write"
            BY <2>3, <3>r, <1>types DEF RemoveTarget, Goes, Books, Booked, Requests
        <3> QED
            BY <2>3, <3>1, KeptByARequest DEF RemoveTarget
    <2> QED
        BY <1>8, <2>1, <2>2, <2>3
<1>9. ASSUME NEW c \in Clients, TarEnds(c) \/ UploadStores(c) PROVE Kept'
    <2>1. \A i \in Ids : archive[i] # None => archive'[i] # None
        <3>1. req[c].new \in Ids /\ archive[req[c].new] = None
            BY <1>9, <1>types DEF TarEnds, UploadStores, Booked, Wellformed, Makes, Making
        <3>2. PICK x : archive' = [archive EXCEPT ![req[c].new] = x]
            BY <1>9 DEF TarEnds, UploadStores
        <3> QED
            BY <3>1, <3>2, <1>types DEF Types
    <2>2. manifest' = manifest /\ req[c].pc \in {"tarring", "store"}
        BY <1>9 DEF TarEnds, UploadStores
    <2>3. /\ \A k \in Clients : k # c => req'[k] = req[k]
          /\ req'[c].pc = "manifest"
        BY <1>9, <1>types DEF TarEnds, UploadStores, Goes, Books, Booked, Requests
    <2>4. \A k \in Clients, j \in Ids : Unlinks(k, j) => Unlinks(k, j)'
        BY <2>2, <2>3 DEF Unlinks
    <2>5. ListedHasArchive'
        BY <2>1, <2>2, <2>4, <1>listed DEF ListedHasArchive, Listed, Unlinks
    <2>6. Renames'
        BY <2>2, <2>3, <1>listed DEF Renames
    <2> QED
        BY <2>5, <2>6 DEF Kept
<1>10. ASSUME NEW c \in Clients, WriteManifest(c) PROVE Kept'
    <2>1. req[c].pc = "manifest" /\ archive' = archive
          /\ manifest' = [manifest EXCEPT ![req[c].new] = NewManifest(req[c])]
        BY <1>10 DEF WriteManifest
    <2>2. req[c].new \in Ids /\ archive[req[c].new] # None /\ NewManifest(req[c]) # None
        <3>1. req[c].new \in Ids /\ archive[req[c].new] # None
            BY <2>1, <1>types DEF Booked, Wellformed, Makes, Making
        <3>2. NewManifest(req[c]) \in Manifest
            BY <2>1, <1>types DEF NewManifest, Manifest, Booked, Wellformed, Making
        <3> QED
            BY <3>1, <3>2
    <2>3. /\ \A k \in Clients : k # c => req'[k] = req[k]
          /\ req'[c].pc \in {"extract", "resolve", "idle"}
        <3>1. CASE req[c].id # None
            <4>p. PICK p \in {"extract", "resolve"} :
                      p = IF req[c].op = "restore" THEN "extract" ELSE "resolve"
                OBVIOUS
            <4>1. req' = [req EXCEPT ![c].op = "restore", ![c].new = None, ![c].from = None,
                                     ![c].uuid = None, ![c].pc = p]
                BY <4>p, <3>1, <1>10 DEF WriteManifest
            <4> QED
                BY <4>1, <1>types DEF Books, Booked, Requests
        <3>2. CASE req[c].id = None
            BY <3>2, <1>10 DEF WriteManifest, Done, Books, Idle
        <3> QED
            BY <3>1, <3>2
    <2>4. manifest'[req[c].new] # None /\ \A i \in Ids : i # req[c].new => manifest'[i] = manifest[i]
        BY <2>1, <2>2, <1>types DEF Types
    <2>5. \A k \in Clients, j \in Ids : Unlinks(k, j) => Unlinks(k, j)'
        BY <2>1, <2>3 DEF Unlinks
    <2>6. ListedHasArchive'
        BY <2>1, <2>2, <2>4, <2>5, <1>listed DEF ListedHasArchive, Listed, Unlinks
    <2>7. Renames'
        <3>1. \A k \in Clients : req'[k].pc = "rewrite" => req'[k] = req[k] /\ req[k].id \in Ids
            BY <2>3, <1>types DEF Booked, Wellformed
        <3>2. \A k \in Clients : req'[k].pc = "unlink" => req[k].pc = "unlink"
            BY <2>3
        <3> QED
            BY <2>4, <3>1, <3>2, <1>listed DEF Renames
    <2> QED
        BY <2>6, <2>7 DEF Kept
<1>11. ASSUME NEW c \in Clients, RenameWrites(c) PROVE Kept'
    <2>1. /\ req[c].pc = "rewrite" /\ archive' = archive /\ Done(c)
          /\ manifest' = [manifest EXCEPT ![req[c].id] = req[c].seen]
        BY <1>11 DEF RenameWrites
    <2>2. req[c].id \in Ids /\ req[c].seen # None /\ manifest[req[c].id] # None
        BY <2>1, <1>types, <1>listed DEF Booked, Wellformed, Renames
    <2>3. \A i \in Ids : manifest'[i] # None <=> manifest[i] # None
        BY <2>1, <2>2, <1>types DEF Types
    <2>4. /\ \A k \in Clients : k # c => req'[k] = req[k]
          /\ req'[c].pc = "idle"
        BY <2>1 DEF Done, Books, Idle
    <2>5. \A k \in Clients, j \in Ids : Unlinks(k, j) => Unlinks(k, j)'
        BY <2>1, <2>4 DEF Unlinks
    <2>6. ListedHasArchive'
        BY <2>1, <2>3, <2>5, <1>listed DEF ListedHasArchive, Listed, Unlinks
    <2>7. Renames'
        <3>1. \A k \in Clients : req'[k].pc = "rewrite" => req'[k] = req[k] /\ req[k].id \in Ids
            BY <2>4, <1>types DEF Booked, Wellformed
        <3>2. \A k \in Clients : req'[k].pc = "unlink" => req[k].pc = "unlink"
            BY <2>4
        <3> QED
            BY <2>3, <3>1, <3>2, <1>listed DEF Renames
    <2> QED
        BY <2>6, <2>7 DEF Kept
<1>12. ASSUME NEW c \in Clients, DeleteManifest(c) PROVE Kept'
    <2>1. /\ req[c].pc = "unlink" /\ archive' = archive /\ Done(c)
          /\ manifest' = [manifest EXCEPT ![req[c].id] = None]
        BY <1>12 DEF DeleteManifest
    <2>2. req[c].id \in Ids
        BY <2>1, <1>types DEF Booked, Wellformed
    <2>3. manifest'[req[c].id] = None /\ \A i \in Ids : i # req[c].id => manifest'[i] = manifest[i]
        BY <2>1, <2>2, <1>types DEF Types
    <2>4. /\ \A k \in Clients : k # c => req'[k] = req[k]
          /\ req'[c].pc = "idle"
        BY <2>1 DEF Done, Books, Idle
    <2>5. \A k \in Clients, j \in Ids : Unlinks(k, j) /\ j # req[c].id => Unlinks(k, j)'
        BY <2>4 DEF Unlinks
    <2>6. ListedHasArchive'
        BY <2>1, <2>3, <2>5, <1>listed DEF ListedHasArchive, Listed, Unlinks
    <2>7. Renames'
        BY <2>1, <2>4, <1>listed DEF Renames
    <2> QED
        BY <2>6, <2>7 DEF Kept
<1>14. ASSUME NEW c \in Clients, RequestStep(c) PROVE Kept'
    <2>1. CASE \E D \in SUBSET Dirs : RemoveFinds(c, D)
        BY <2>1, <1>16
    <2>2. CASE Resolve(c)
        BY <2>2, <1>13 DEF Restoring
    <2> QED
        BY <1>14, <2>1, <2>2, <1>7, <1>8, <1>9, <1>10, <1>11, <1>12, <1>15 DEF RequestStep
<1> QED
    BY <1>2, <1>3, <1>6, <1>14 DEF Next

(* list_snapshots, for any number of snapshots and requests: what it lists   *)
(* has its archive, if no rename overlaps a delete of the same snapshot and  *)
(* the backend is not killed between the two unlinks of delete_snapshot.     *)
THEOREM ListedCanBeRestored ==
    ASSUME "rename" \notin Overlaps, "crash" \notin Overlaps PROVE Spec => []ListedHasArchive
<1>1. Init => Books /\ Kept
    BY BooksAtFirst DEF Init, Kept, ListedHasArchive, Listed, Renames, Idle
<1>2. Books /\ Kept /\ [Next]_vars => Books' /\ Kept'
    BY BooksAreKept, KeptIsKept
<1>3. Kept => ListedHasArchive
    BY DEF Kept
<1> QED
    BY <1>1, <1>2, <1>3, PTL DEF Spec

-----------------------------------------------------------------------------
(* The selection: what is deleted is not left armed                         *)

(* Until a delete has found its directories the row is as it was loaded, or *)
(* cleared; after that it names none of them, or the one the delete knows   *)
(* it named.  Nobody is about to arm any of them.                           *)
Knows(r) ==
    /\ r.pc = "find" => pinned \in {None, r.seen}
    /\ r.pc # "find" /\ pinned \in r.uuid => r.seen = pinned

Spares(r, u) == r.pc # "find" /\ u \notin r.uuid

Deletes ==
    \A c \in Clients : req[c].op = "remove" =>
        /\ Knows(req[c])
        /\ \A k \in Clients : req[k].arm # None => Spares(req[c], req[k].arm)

LEMMA DeletesStay ==
    ASSUME "arm" \notin Overlaps, Books, Deletes, NEW c \in Clients,
           pinned' \in {pinned, None, req[c].arm},
           \A k \in Clients : k # c => req'[k] = req[k],
           req'[c].op # "remove",
           req'[c].arm # None => req'[c].arm = req[c].arm \/ MayArm(req'[c].arm)
    PROVE  Deletes'
<1> USE NoneAssumption
<1>1. ASSUME NEW k \in Clients, req'[k].op = "remove" PROVE Knows(req[k])'
    <2>1. k # c /\ req'[k] = req[k] /\ Knows(req[k])
        BY <1>1 DEF Deletes
    <2>2. req[k].uuid \in SUBSET Saves
        BY <1>1, <2>1 DEF Books, Booked, Wellformed
    <2>3. CASE pinned' \in {pinned, None}
        BY <2>1, <2>2, <2>3 DEF Knows
    <2>4. CASE pinned' = req[c].arm /\ req[c].arm # None
        BY <1>1, <2>1, <2>4 DEF Knows, Spares, Deletes
    <2> QED
        BY <2>3, <2>4
<1>2. ASSUME NEW k \in Clients, req'[k].op = "remove", NEW l \in Clients, req'[l].arm # None
      PROVE  Spares(req'[k], req'[l].arm)
    <2>1. k # c /\ req'[k] = req[k]
        BY <1>2
    <2>2. CASE req[l].arm = req'[l].arm
        BY <1>2, <2>1, <2>2 DEF Deletes
    <2>3. CASE req[l].arm # req'[l].arm
        <3>1. l = c /\ MayArm(req'[c].arm)
            BY <1>2, <2>3
        <3> QED
            BY <1>2, <2>1, <3>1 DEF MayArm, Spares
    <2> QED
        BY <2>2, <2>3
<1> QED
    BY <1>1, <1>2 DEF Deletes, Knows, Spares

(* A request that goes on, or ends.                                         *)
LEMMA DeletesGoOn ==
    ASSUME "arm" \notin Overlaps, Books, Deletes, NEW c \in Clients,
           pinned' \in {pinned, None, req[c].arm},
           NEW r, req' = [req EXCEPT ![c] = r], r.op # "remove",
           r.arm # None => r.arm = req[c].arm \/ MayArm(r.arm)
    PROVE  Deletes'
<1>1. req'[c] = r /\ \A k \in Clients : k # c => req'[k] = req[k]
    BY DEF Books
<1> QED
    BY <1>1, DeletesStay

LEMMA DeletesAreKept ==
    ASSUME "arm" \notin Overlaps, Books, Deletes, [Next]_vars
    PROVE  Deletes'
<1> USE NoneAssumption
<1>types. Types /\ \A c \in Clients : Booked(req[c])
    BY DEF Books
<1>requests. \A c \in Clients : req[c] \in Requests /\ Wellformed(req[c])
    BY <1>types DEF Booked
<1>idle. Idle.op = "none" /\ Idle.arm = None
    BY DEF Idle
<1>0. ASSUME req' = req, pinned' \in {pinned, None} PROVE Deletes'
    <2>1. ASSUME NEW c \in Clients, req[c].op = "remove", Knows(req[c]) PROVE Knows(req[c])'
        <3>1. req[c].uuid \in SUBSET Saves
            BY <2>1, <1>requests DEF Wellformed
        <3> QED
            BY <1>0, <2>1, <3>1 DEF Knows
    <2> QED
        BY <1>0, <2>1 DEF Deletes, Spares
<1>1. ASSUME NEW c \in Clients, Done(c), pinned' \in {pinned, None, req[c].arm} PROVE Deletes'
    BY <1>1, <1>idle, DeletesGoOn DEF Done
<1>2. CASE GameStep \/ Unpin \/ UNCHANGED vars
    BY <1>0, <1>2 DEF GameStep, StartServer, ServerExits, GameSaves, Unpin, vars
<1>3. CASE Crash
    <2>1. \A c \in Clients : req'[c] = Idle
        BY <1>3 DEF Crash
    <2> QED
        BY <2>1, <1>idle DEF Deletes
<1>4. ASSUME NEW c \in Clients, Restoring(c) PROVE Deletes'
    <2>1. PICK q : /\ req' = [req EXCEPT ![c] = q] /\ Onward(q) /\ pinned' = pinned
                   /\ q.arm # None => q.arm = req[c].arm \/ MayArm(q.arm)
        BY <1>4, RestoreGoesOn
    <2>2. q.op # "remove"
        BY <2>1 DEF Onward
    <2> QED
        BY <2>1, <2>2, DeletesGoOn
<1>5. ASSUME NEW c \in Clients, RemoveCall(c) PROVE Deletes'
    <2>r. PICK r : r = [Idle EXCEPT !.op = "remove", !.pc = "find", !.uuid = {}, !.seen = pinned]
        OBVIOUS
    <2>1. /\ req' = [req EXCEPT ![c] = r] /\ pinned' = pinned
          /\ \A k \in Clients : req[k].arm = None
        BY <1>5, <2>r DEF RemoveCall
    <2>2. r.pc = "find" /\ r.seen = pinned /\ r.arm = None
        BY <2>r DEF Idle
    <2>3. req'[c] = r /\ \A k \in Clients : k # c => req'[k] = req[k]
        BY <2>1 DEF Books
    <2>4. \A k \in Clients : req'[k].arm = None
        BY <2>1, <2>2, <2>3
    <2>5. ASSUME NEW k \in Clients, req'[k].op = "remove" PROVE Knows(req[k])'
        BY <2>1, <2>2, <2>3, <2>5 DEF Deletes, Knows
    <2> QED
        BY <2>4, <2>5 DEF Deletes
<1>6. ASSUME NEW c \in Clients, NEW D \in SUBSET Dirs, RemoveFinds(c, D) PROVE Deletes'
    <2>u. PICK u, x : /\ u = {Uuid(disk[d]) : d \in D} \ {None}
                      /\ x = IF req[c].seen \in u THEN req[c].seen ELSE None
        OBVIOUS
    <2>r. PICK r : r = [req[c] EXCEPT !.pc = "rmtree", !.target = D, !.uuid = u, !.seen = x]
        OBVIOUS
    <2>1. req' = [req EXCEPT ![c] = r] /\ pinned' = pinned /\ req[c].pc = "find" /\ req[c].op = "remove"
        BY <1>6, <2>u, <2>r, <1>requests DEF RemoveFinds, Books, Wellformed
    <2>q. req[c] \in Requests
        BY <1>requests
    <2>2. r.pc = "rmtree" /\ r.uuid = u /\ r.seen = x /\ r.arm = req[c].arm
        BY <2>r, <2>q DEF Requests
    <2>3. req'[c] = r /\ \A k \in Clients : k # c => req'[k] = req[k]
        BY <2>1 DEF Books
    <2>4. Knows(req[c]) /\ \A k \in Clients : req[k].arm = None
        BY <2>1 DEF Deletes, Spares
    <2>5. \A k \in Clients : req'[k].arm = None
        BY <2>2, <2>3, <2>4
    <2>6. Knows(req[c])'
        BY <2>u, <2>1, <2>2, <2>3, <2>4 DEF Knows
    <2>7. ASSUME NEW k \in Clients, req'[k].op = "remove" PROVE Knows(req[k])'
        BY <2>1, <2>3, <2>6, <2>7 DEF Deletes, Knows
    <2> QED
        BY <2>5, <2>7 DEF Deletes
<1>7. ASSUME NEW c \in Clients, RmTree(c) PROVE Deletes'
    <2>r. PICK r : r = [req[c] EXCEPT !.pc = "commit", !.target = {}]
        OBVIOUS
    <2>1. req' = [req EXCEPT ![c] = r] /\ pinned' = pinned /\ req[c].pc = "rmtree" /\ req[c].op = "remove"
        BY <1>7, <2>r, <1>requests DEF RmTree, Books, Wellformed
    <2>q. req[c] \in Requests
        BY <1>requests
    <2>2. /\ r.pc = "commit" /\ r.uuid = req[c].uuid /\ r.seen = req[c].seen /\ r.arm = req[c].arm
          /\ r.op = req[c].op
        BY <2>r, <2>q DEF Requests
    <2>3. req'[c] = r /\ \A k \in Clients : k # c => req'[k] = req[k]
        BY <2>1 DEF Books
    <2>4. \A k \in Clients : /\ req'[k].op = req[k].op /\ req'[k].arm = req[k].arm
                             /\ req'[k].uuid = req[k].uuid /\ req'[k].seen = req[k].seen
                             /\ req'[k].pc = "find" <=> req[k].pc = "find"
        BY <2>1, <2>2, <2>3
    <2> QED
        BY <2>1, <2>4 DEF Deletes, Knows, Spares
<1>8. ASSUME NEW c \in Clients, NewRequest(c) PROVE Deletes'
    <2>1. ASSUME NEW u \in Saves, CreateCall(c, u) PROVE Deletes'
        <3>r. PICK r : r = [Idle EXCEPT !.op = "create", !.pc = "locate", !.uuid = u]
            OBVIOUS
        <3>1. r.op = "create" /\ r.arm = None
            BY <3>r DEF Idle
        <3> QED
            BY <2>1, <3>r, <3>1, DeletesGoOn DEF CreateCall
    <2>2. ASSUME NEW i \in Ids, RenameReads(c, i) PROVE Deletes'
        <3>r. PICK r : r = [Idle EXCEPT !.op = "rename", !.pc = "rewrite", !.id = i, !.seen = manifest[i]]
            OBVIOUS
        <3>1. r.op = "rename" /\ r.arm = None
            BY <3>r DEF Idle
        <3> QED
            BY <2>2, <3>r, <3>1, DeletesGoOn DEF RenameReads
    <2>3. ASSUME NEW i \in Ids, DeleteArchive(c, i) PROVE Deletes'
        <3>r. PICK r : r = [Idle EXCEPT !.op = "delete", !.pc = "unlink", !.id = i]
            OBVIOUS
        <3>1. r.op = "delete" /\ r.arm = None
            BY <3>r DEF Idle
        <3> QED
            BY <2>3, <3>r, <3>1, DeletesGoOn DEF DeleteArchive
    <2>4. ASSUME NEW i \in Ids, NEW arm \in BOOLEAN, RestoreCall(c, i, arm) PROVE Deletes'
        BY <2>4, <1>4 DEF Restoring
    <2>5. ASSUME NEW s \in Saves, NEW restore \in BOOLEAN, NEW arm \in BOOLEAN, NEW d \in Roots[s],
                 UploadCall(c, s, d, restore, arm)
          PROVE  Deletes'
        <3>1. PICK i \in Ids : req' = [req EXCEPT ![c] = [Idle EXCEPT
                    !.op = "upload", !.pc = "store", !.new = i, !.from = d, !.uuid = s,
                    !.id = IF restore THEN i ELSE None,
                    !.arm = IF restore /\ arm THEN s ELSE None]]
            BY <2>5 DEF UploadCall
        <3>r. PICK r : r = [Idle EXCEPT
                    !.op = "upload", !.pc = "store", !.new = i, !.from = d, !.uuid = s,
                    !.id = IF restore THEN i ELSE None,
                    !.arm = IF restore /\ arm THEN s ELSE None]
            OBVIOUS
        <3>2. r.op = "upload" /\ r.arm = IF restore /\ arm THEN s ELSE None
            BY <3>r DEF Idle
        <3>3. r.arm # None => MayArm(r.arm)
            BY <2>5, <3>2 DEF UploadCall
        <3> QED
            BY <2>5, <3>r, <3>1, <3>2, <3>3, DeletesGoOn DEF UploadCall
    <2>6. ASSUME NEW u \in Saves, ArmSave(c, u) PROVE Deletes'
        <3>r. PICK r : r = [Idle EXCEPT !.op = "arm", !.pc = "armed", !.arm = u]
            OBVIOUS
        <3>1. r.op = "arm" /\ r.arm = u
            BY <3>r DEF Idle
        <3> QED
            BY <2>6, <3>r, <3>1, DeletesGoOn DEF ArmSave
    <2> QED
        BY <1>8, <1>5, <2>1, <2>2, <2>3, <2>4, <2>5, <2>6 DEF NewRequest
<1>9. ASSUME NEW c \in Clients,
             \/ LocateFails(c) \/ TarFails(c) \/ ManifestFails(c) \/ RenameWrites(c) \/ RenameFails(c)
             \/ DeleteManifest(c) \/ CopyFails(c) \/ RmTreeFails(c) \/ RemoveCommits(c) \/ Arms(c)
             \/ NothingCommitted(c)
      PROVE  Deletes'
    <2>1. Done(c) /\ pinned' \in {pinned, None, req[c].arm}
        BY <1>9 DEF LocateFails, TarFails, ManifestFails, RenameWrites, RenameFails, DeleteManifest,
                    CopyFails, RmTreeFails, RemoveCommits, Arms, NothingCommitted
    <2> QED
        BY <2>1, <1>1
<1>10. ASSUME NEW c \in Clients,
              \/ Locate(c) \/ TarBegins(c) \/ TarEnds(c) \/ WriteManifest(c) \/ RemoveTarget(c)
              \/ Extract(c) \/ UploadStores(c)
       PROVE  Deletes'
    <2>1. pinned' = pinned
        BY <1>10 DEF Locate, TarBegins, TarEnds, WriteManifest, RemoveTarget, Extract, UploadStores
    <2>2. \A k \in Clients : k # c => req'[k] = req[k]
        BY <1>10 DEF Locate, TarBegins, TarEnds, WriteManifest, RemoveTarget, Extract, UploadStores,
                     Goes, Done, Books
    <2>3. req[c].op # "remove" /\ req[c] \in Requests
        BY <1>10, <1>requests DEF Locate, TarBegins, TarEnds, WriteManifest, RemoveTarget, Extract,
                                  UploadStores, Wellformed
    <2>4. CASE Done(c)
        BY <2>1, <2>4, <1>1
    <2>5. ASSUME ~Done(c) PROVE req'[c].op # "remove" /\ req'[c].arm = req[c].arm
        <3>1. CASE Locate(c) \/ TarBegins(c) \/ TarEnds(c)
            <4>1. CASE Locate(c)
                <5>1. PICK d, i : req' = [req EXCEPT ![c].pc = "tar", ![c].from = d, ![c].new = i]
                    BY <4>1 DEF Locate
                <5> QED
                    BY <5>1, <2>3 DEF Books, Requests
            <4>2. CASE TarBegins(c)
                BY <4>2, <2>3 DEF TarBegins, Books, Requests
            <4>3. CASE TarEnds(c)
                BY <4>3, <2>3 DEF TarEnds, Books, Requests
            <4> QED
                BY <3>1, <4>1, <4>2, <4>3
        <3>2. CASE RemoveTarget(c) \/ Extract(c) \/ UploadStores(c)
            BY <3>2, <2>3, <2>5 DEF RemoveTarget, Extract, UploadStores, Goes, Books, Requests
        <3>3. CASE WriteManifest(c)
            <4>1. PICK p : req' = [req EXCEPT ![c].op = "restore", ![c].new = None, ![c].from = None,
                                              ![c].uuid = None, ![c].pc = p]
                BY <3>3, <2>5 DEF WriteManifest
            <4> QED
                BY <4>1, <2>3 DEF Books, Requests
        <3> QED
            BY <1>10, <3>1, <3>2, <3>3
    <2> QED
        BY <2>1, <2>2, <2>4, <2>5, DeletesStay
<1>11. ASSUME NEW c \in Clients, RequestStep(c) PROVE Deletes'
    <2>1. CASE \E D \in SUBSET Dirs : RemoveFinds(c, D)
        BY <2>1, <1>6
    <2>2. CASE Resolve(c)
        BY <2>2, <1>4 DEF Restoring
    <2> QED
        BY <1>11, <2>1, <2>2, <1>7, <1>9, <1>10 DEF RequestStep
<1> QED
    BY <1>2, <1>3, <1>8, <1>11 DEF Next

(* delete_save_point and delete_playthrough, for any number of requests, any *)
(* failure and a backend killed at any point: a delete that reaches its      *)
(* commit leaves none of the saves it found selected, although the row it    *)
(* looks at was loaded before the files were looked for, if no save is armed *)
(* beside a delete that takes it away.                                       *)
THEOREM DeletesClearTheSelection ==
    ASSUME "arm" \notin Overlaps PROVE Spec => DeletingUnpins
<1>1. Init => Books /\ Deletes
    BY BooksAtFirst DEF Init, Deletes, Idle
<1>2. Books /\ Deletes /\ [Next]_vars => Books' /\ Deletes'
    BY BooksAreKept, DeletesAreKept
<1>3. Books /\ Deletes /\ [Next]_vars =>
         [\A c \in Clients : RemoveCommits(c) => pinned' \notin req[c].uuid]_vars
    <2>1. ASSUME Books, Deletes, NEW c \in Clients, RemoveCommits(c) PROVE pinned' \notin req[c].uuid
        <3>1. req[c].op = "remove" /\ req[c].pc = "commit" /\ req[c].uuid \in SUBSET Saves
            BY <2>1 DEF RemoveCommits, Books, Booked, Wellformed
        <3>2. pinned \in req[c].uuid => req[c].seen = pinned
            BY <2>1, <3>1 DEF Deletes, Knows
        <3> QED
            BY <2>1, <3>1, <3>2, NoneAssumption DEF RemoveCommits
    <2> QED
        BY <2>1
<1> QED
    BY <1>1, <1>2, <1>3, PTL DEF Spec, DeletingUnpins
=============================================================================
