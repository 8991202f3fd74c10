------------------------------ MODULE Definitions ------------------------------
(***************************************************************************)
(* Server definitions and modpacks: the rows of servers, server_mods,       *)
(* modpacks and modpack_items, and the requests that change them            *)
(* (api/servers.py, api/modpacks.py, api/backup.py, mods/pinning.py).        *)
(*                                                                         *)
(* Every one loads rows, waits, and flushes.  The flush is the ORM's: it    *)
(* deletes the rows that left the loaded collection, inserts those that     *)
(* joined it, and of the others writes the columns that differ from what    *)
(* was loaded, whatever the row holds by then.  Requests whose effect does  *)
(* not depend on what they loaded are one step; PATCH, apply and import are *)
(* two.  Names identify definitions and packs: two definitions of one name, *)
(* and renames, are left out, and so are load orders and enabled flags,     *)
(* which ServerStart has, and every other column but game_admins.           *)
(***************************************************************************)
EXTENDS Naturals, FiniteSets, Functions

CONSTANTS
    Names,      \* of server definitions
    Packs,      \* names of modpacks
    Mods,
    Versions,   \* that a pin names
    Admins,     \* values of game_admins
    Backups,    \* documents of POST /backup/import: what was exported some day
    Clients,    \* concurrent requests with a wait in their middle
    NoPin, NoServer, NoPack,
    Overlaps    \* which overlaps the code leaves open are let happen:
                \*   "start"   a server starts while an apply, an import or a delete is under way
                \*   "edit"    two of PATCH, apply and import wait with the rows of one definition

VARIABLES
    srv,        \* servers with their server_mods
    pack,       \* modpacks with their modpack_items
    proc,       \* the server the supervisor starts or runs, and how far it is
    req         \* the request of each client

vars == <<srv, pack, proc, req>>

-----------------------------------------------------------------------------
(* A row of server_mods: the pinned version, and whether pinned_at is set.  *)
Rows == [pin : Versions \cup {NoPin}, at : BOOLEAN]
Unpinned == [pin |-> NoPin, at |-> FALSE]
IsPinned(row) == row.pin # NoPin

RowSets == UNION {[M -> Rows] : M \in SUBSET Mods}
Defs == [rows : RowSets, admins : Admins]

(* The mods of a payload, each with the version it asks to pin or none.     *)
Payloads == UNION {[M -> Versions \cup {NoPin}] : M \in SUBSET Mods}

Exists(s) == srv[s] # NoServer
Assigned(s) == IF Exists(s) THEN DOMAIN srv[s].rows ELSE {}
PinnedIn(s) == {m \in Assigned(s) : IsPinned(srv[s].rows[m])}

Down == [name |-> NoServer, phase |-> "down"]
Active(s) == proc.name = s /\ proc.phase \in {"spawned", "flagged"}
Flagged(s) == proc.name = s /\ proc.phase = "flagged"

ASSUME NoneAssumption ==
    /\ \A v \in Versions : v # NoPin
    /\ \A d \in Defs : d # NoServer
    /\ \A items \in SUBSET Mods : items # NoPack
    /\ {} \in Admins

(* What an export writes, of some of the definitions and some of the packs. *)
Documents == [servers : UNION {[S -> Defs] : S \in SUBSET Names},
              packs : UNION {[P -> SUBSET Mods] : P \in SUBSET Packs}]

ASSUME BackupsAssumption == Backups \subseteq Documents

Idle == [op |-> "none"]
Busy(c) == req[c].op # "none"
Touching == \E c \in Clients : req[c].op \in {"apply", "import"}
Starting == proc.phase \in {"loaded", "spawned"}
MayTouch == "start" \in Overlaps \/ ~Starting

Init ==
    /\ srv = [s \in Names |-> NoServer]
    /\ pack = [p \in Packs |-> NoPack]
    /\ proc = Down
    /\ req = [c \in Clients |-> Idle]

-----------------------------------------------------------------------------
(* _apply_mods and the flush *)

(* A payload that names a version repins; one that does not keeps the row.  *)
(* Mutant of Reconciled: every row is rebuilt from the payload.             *)
ReconciledAfresh(loaded, payload) ==
    [m \in DOMAIN payload |-> [pin |-> payload[m], at |-> FALSE]]

Reconciled(loaded, payload) ==
    [m \in DOMAIN payload |->
        IF payload[m] # NoPin THEN [pin |-> payload[m], at |-> FALSE]
        ELSE IF m \in DOMAIN loaded THEN loaded[m] ELSE Unpinned]

Written(old, new, now) ==
    [col \in DOMAIN old |-> IF new[col] = old[col] THEN now[col] ELSE new[col]]

(* A row inserted twice breaks uq_server_mod; an UPDATE of a row that has   *)
(* gone is refused by the ORM.                                              *)
Clashes(loaded, wanted, now) ==
    \/ (DOMAIN wanted \ DOMAIN loaded) \cap DOMAIN now # {}
    \/ \E m \in (DOMAIN wanted \cap DOMAIN loaded) \ DOMAIN now : wanted[m] # loaded[m]

(* Mutant of Flushed: rows that left the collection are not deleted.        *)
FlushedKeeping(loaded, wanted, now) ==
    [m \in DOMAIN now \cup (DOMAIN wanted \ DOMAIN loaded) |->
        IF m \notin DOMAIN loaded /\ m \in DOMAIN wanted THEN wanted[m]
        ELSE IF m \in DOMAIN wanted THEN Written(loaded[m], wanted[m], now[m])
        ELSE now[m]]

Flushed(loaded, wanted, now) ==
    LET added == DOMAIN wanted \ DOMAIN loaded
        left == DOMAIN now \ (DOMAIN loaded \ DOMAIN wanted)
    IN  [m \in left \cup added |->
            IF m \in added THEN wanted[m]
            ELSE IF m \in DOMAIN wanted THEN Written(loaded[m], wanted[m], now[m])
            ELSE now[m]]

-----------------------------------------------------------------------------
(* Requests of one step *)

CreateServer(s, payload, a) ==
    /\ ~Exists(s)
    /\ srv' = [srv EXCEPT ![s] = [rows |-> Reconciled(<<>>, payload), admins |-> a]]
    /\ UNCHANGED <<pack, proc, req>>

CloneServer(s, t) ==
    /\ Exists(s) /\ ~Exists(t)
    /\ srv' = [srv EXCEPT ![t] = srv[s]]
    /\ UNCHANGED <<pack, proc, req>>

(* The installed engine build, without which a pin is refused, is known.    *)
PinServerMod(s, m, v) ==
    /\ m \in Assigned(s)
    /\ srv' = [srv EXCEPT ![s].rows[m] = [pin |-> v, at |-> TRUE]]
    /\ UNCHANGED <<pack, proc, req>>

UnpinServerMod(s, m) ==
    /\ m \in Assigned(s)
    /\ srv' = [srv EXCEPT ![s].rows[m] = Unpinned]
    /\ UNCHANGED <<pack, proc, req>>

CreateModpack(p, items) ==
    /\ pack[p] = NoPack
    /\ pack' = [pack EXCEPT ![p] = items]
    /\ UNCHANGED <<srv, proc, req>>

ModpackFromServer(s, p) ==
    /\ Exists(s)
    /\ pack[p] = NoPack
    /\ pack' = [pack EXCEPT ![p] = Assigned(s)]
    /\ UNCHANGED <<srv, proc, req>>

UpdateModpack(p, items) ==
    /\ pack[p] # NoPack
    /\ pack' = [pack EXCEPT ![p] = items]
    /\ UNCHANGED <<srv, proc, req>>

DeleteModpack(p) ==
    /\ pack[p] # NoPack
    /\ pack' = [pack EXCEPT ![p] = NoPack]
    /\ UNCHANGED <<srv, proc, req>>

(* The name of an imported pack that is taken is replaced or gets a suffix  *)
(* no pack has; with on_conflict=error it is refused.                       *)
ImportModpack(p, items) ==
    /\ \E q \in Packs :
          /\ q = p \/ (pack[p] # NoPack /\ pack[q] = NoPack)
          /\ pack' = [pack EXCEPT ![q] = items]
    /\ UNCHANGED <<srv, proc, req>>

-----------------------------------------------------------------------------
(* What a request that waits edits: an import, what it replaces *)

(* Mutant of ServerAction: the running definition is not spared.            *)
ServerActionBlind(s, loaded, conflict, running) ==
    IF loaded[s] = NoServer THEN "create"
    ELSE IF conflict = "replace" THEN "replace" ELSE "skip"

ServerAction(s, loaded, conflict, running) ==
    IF loaded[s] = NoServer THEN "create"
    ELSE IF conflict # "replace" \/ s = running THEN "skip" ELSE "replace"

Entries(r, action) ==
    {s \in DOMAIN r.body.servers : ServerAction(s, r.loaded, r.conflict, r.running) = action}

Needs(r, s) ==
    \/ r.op \in {"patch", "apply"} /\ r.s = s
    \/ r.op = "import" /\ s \in Entries(r, "replace")

MayEdit(S) == "edit" \in Overlaps \/ \A c \in Clients, s \in S : ~Needs(req[c], s)

-----------------------------------------------------------------------------
(* PATCH /servers and POST /modpacks/apply *)

Ends(c) == req' = [req EXCEPT ![c] = Idle]

LoadsPatch(c, s, payload) ==
    /\ ~Busy(c)
    /\ Exists(s)
    /\ MayEdit({s})
    /\ req' = [req EXCEPT ![c] = [op |-> "patch", s |-> s, loaded |-> srv[s].rows,
                                  wanted |-> Reconciled(srv[s].rows, payload)]]
    /\ UNCHANGED <<srv, pack, proc>>

(* append adds what is not assigned; replace is a PATCH of the whole set.   *)
Extended(loaded, items) ==
    [m \in DOMAIN loaded \cup items |-> IF m \in DOMAIN loaded THEN loaded[m] ELSE Unpinned]

LoadsApply(c, p, s, mode) ==
    /\ ~Busy(c)
    /\ pack[p] # NoPack
    /\ Exists(s)
    /\ ~Flagged(s)
    /\ MayTouch
    /\ MayEdit({s})
    /\ LET loaded == srv[s].rows
       IN  req' = [req EXCEPT ![c] =
               [op |-> "apply", s |-> s, loaded |-> loaded,
                wanted |-> IF mode = "append" THEN Extended(loaded, pack[p])
                           ELSE Reconciled(loaded, [m \in pack[p] |-> NoPin])]]
    /\ UNCHANGED <<srv, pack, proc>>

(* Mutant of DroppedPins: the pins are looked up once the rows have gone.   *)
DroppedPinsLate(r) == {m \in DOMAIN r.wanted : IsPinned(r.wanted[m]) /\ m \notin DOMAIN r.wanted}

DroppedPins(r) == {m \in DOMAIN r.loaded : IsPinned(r.loaded[m]) /\ m \notin DOMAIN r.wanted}

FlushesMods(c) ==
    /\ req[c].op \in {"patch", "apply"}
    /\ LET r == req[c]
       IN  /\ ~Clashes(r.loaded, r.wanted, srv[r.s].rows)
           /\ srv' = [srv EXCEPT ![r.s].rows = Flushed(r.loaded, r.wanted, @)]
    /\ Ends(c)
    /\ UNCHANGED <<pack, proc>>

(* A flush that clashes, a definition that has gone, a database error: the  *)
(* transaction is rolled back.                                              *)
Fails(c) ==
    /\ Busy(c)
    /\ Ends(c)
    /\ UNCHANGED <<srv, pack, proc>>

-----------------------------------------------------------------------------
(* POST /backup/import.  A document holds, of each definition, what the     *)
(* schema names: its rows, not its game_admins.                             *)

Running == IF proc.phase \in {"spawned", "flagged"} THEN proc.name ELSE NoServer

(* GET /backup/export.                                                      *)
Exported ==
    [servers |-> [s \in {n \in Names : Exists(n)} |-> srv[s]],
     packs |-> [p \in {q \in Packs : pack[q] # NoPack} |-> pack[p]]]

LoadsImport(c, body, conflict) ==
    /\ ~Busy(c)
    /\ MayTouch
    /\ LET r == [op |-> "import", body |-> body, conflict |-> conflict, running |-> Running,
                 loaded |-> Restrict(srv, DOMAIN body.servers),
                 packs |-> Restrict(pack, DOMAIN body.packs)]
       IN  /\ MayEdit(Entries(r, "replace"))
           /\ req' = [req EXCEPT ![c] = r]
    /\ UNCHANGED <<srv, pack, proc>>

(* _mods_payload, _apply_mods, and pinned_at put back.                      *)
(* Mutant of Restored: pinned_at stays cleared, as after any repin.         *)
RestoredUndated(loaded, rows) == Reconciled(loaded, [m \in DOMAIN rows |-> rows[m].pin])

Restored(loaded, rows) ==
    LET applied == Reconciled(loaded, [m \in DOMAIN rows |-> rows[m].pin])
    IN  [m \in DOMAIN rows |-> [applied[m] EXCEPT !.at = @ \/ rows[m].at]]

ImportedServer(r, s) ==
    IF s \in Entries(r, "create")
    THEN [rows |-> Restored(<<>>, r.body.servers[s].rows), admins |-> {}]
    ELSE [srv[s] EXCEPT !.rows = Flushed(r.loaded[s].rows,
                                    Restored(r.loaded[s].rows, r.body.servers[s].rows), @)]

PackEntries(r) ==
    {p \in DOMAIN r.body.packs : r.packs[p] = NoPack \/ r.conflict = "replace"}

(* A pack that is replaced loses the items it was loaded with, one DELETE by  *)
(* identifier each, before the new ones are inserted; one edited since keeps  *)
(* of its new items those that did not take the identifier of an old one.    *)
Leftovers(r, p) == IF pack[p] \in {NoPack, r.packs[p]} THEN {{}} ELSE SUBSET pack[p]

(* Rows that came or changed since make an insert or an update clash, and so *)
(* does a name that was taken since, a pack that has gone, or an item it     *)
(* still holds.                                                             *)
ServersClash(r) ==
    \/ \E s \in Entries(r, "create") : Exists(s)
    \/ \E s \in Entries(r, "replace") :
          Clashes(r.loaded[s].rows, Restored(r.loaded[s].rows, r.body.servers[s].rows),
                  srv[s].rows)

PacksClash(r, left) ==
    \E p \in PackEntries(r) :
       \/ r.packs[p] = NoPack /\ pack[p] # NoPack
       \/ r.packs[p] # NoPack /\ pack[p] = NoPack
       \/ left[p] \cap r.body.packs[p] # {}

FlushesImport(c) ==
    /\ req[c].op = "import"
    /\ LET r == req[c]
       IN  /\ ~ServersClash(r)
           /\ srv' = [s \in Names |-> IF s \in Entries(r, "create") \cup Entries(r, "replace")
                                      THEN ImportedServer(r, s) ELSE srv[s]]
           /\ \E left \in [PackEntries(r) -> SUBSET Mods] :
                 /\ \A p \in PackEntries(r) : left[p] \in Leftovers(r, p)
                 /\ ~PacksClash(r, left)
                 /\ pack' = [p \in Packs |-> IF p \in PackEntries(r)
                                             THEN left[p] \cup r.body.packs[p] ELSE pack[p]]
    /\ Ends(c)
    /\ UNCHANGED proc

(* DELETE of a definition; a request that loaded it can only fail.          *)
DeleteServer(s) ==
    /\ Exists(s)
    /\ ~Active(s) /\ ~Flagged(s)
    /\ MayTouch
    /\ srv' = [srv EXCEPT ![s] = NoServer]
    /\ req' = [c \in Clients |-> IF Needs(req[c], s) THEN [op |-> "gone"] ELSE req[c]]
    /\ UNCHANGED <<pack, proc>>

-----------------------------------------------------------------------------
(* The supervisor: a start loads the definition, spawns the engine and sets *)
(* the flag, waiting in between; an exit clears both.                       *)

StartLoads(s) ==
    /\ proc = Down
    /\ Exists(s)
    /\ "start" \in Overlaps \/ ~Touching
    /\ proc' = [name |-> s, phase |-> "loaded"]
    /\ UNCHANGED <<srv, pack, req>>

StartSpawns ==
    /\ proc.phase = "loaded"
    /\ proc' = [proc EXCEPT !.phase = "spawned"]
    /\ UNCHANGED <<srv, pack, req>>

StartFlags ==
    /\ proc.phase = "spawned"
    /\ proc' = [proc EXCEPT !.phase = "flagged"]
    /\ UNCHANGED <<srv, pack, req>>

ServerExits ==
    /\ proc.phase = "flagged"
    /\ proc' = Down
    /\ UNCHANGED <<srv, pack, req>>

-----------------------------------------------------------------------------
Loads(c) ==
    \/ \E s \in Names, payload \in Payloads : LoadsPatch(c, s, payload)
    \/ \E p \in Packs, s \in Names, mode \in {"append", "replace"} : LoadsApply(c, p, s, mode)
    \/ \E body \in Backups \cup {Exported}, conflict \in {"skip", "replace"} : LoadsImport(c, body, conflict)

Next ==
    \/ \E c \in Clients : Loads(c) \/ FlushesMods(c) \/ FlushesImport(c) \/ Fails(c)
    \/ \E s \in Names :
          \/ DeleteServer(s) \/ StartLoads(s)
          \/ \E payload \in Payloads, a \in Admins : CreateServer(s, payload, a)
          \/ \E t \in Names : CloneServer(s, t)
          \/ \E m \in Mods : UnpinServerMod(s, m) \/ \E v \in Versions : PinServerMod(s, m, v)
          \/ \E p \in Packs : ModpackFromServer(s, p)
    \/ \E p \in Packs :
          \/ DeleteModpack(p)
          \/ \E items \in SUBSET Mods :
                CreateModpack(p, items) \/ UpdateModpack(p, items) \/ ImportModpack(p, items)
    \/ StartSpawns \/ StartFlags \/ ServerExits

Spec == Init /\ [][Next]_vars

-----------------------------------------------------------------------------
TypeOK ==
    /\ srv \in [Names -> Defs \cup {NoServer}]
    /\ pack \in [Packs -> (SUBSET Mods) \cup {NoPack}]
    /\ proc \in [name : Names \cup {NoServer}, phase : {"down", "loaded", "spawned", "flagged"}]

(* The ways in which the row of a pinned mod may change and still be there. *)
PinKept(s, m) ==
    LET was == srv[s].rows[m]
        is == srv'[s].rows[m]
    IN  \/ is.pin = was.pin
        \/ UnpinServerMod(s, m)
        \/ \E v \in Versions : PinServerMod(s, m, v)
        \/ \E c \in Clients : FlushesMods(c) /\ req[c].op = "patch" /\ IsPinned(is)
        \/ \E c \in Clients :
              FlushesImport(c) /\ IsPinned(is) /\ IsPinned(req[c].body.servers[s].rows[m])

PinsKept ==
    \A s \in Names : Exists(s) /\ srv'[s] # NoServer =>
        \A m \in PinnedIn(s) \cap DOMAIN srv'[s].rows : PinKept(s, m)

(* A pin goes with its row, or because somebody unpins it; no reordering,   *)
(* renaming, apply or import that keeps the row takes it ("fact #1"), and   *)
(* nothing but a repin, a backup's among them, changes its version, however *)
(* these overlap.                                                          *)
PinsSurvive == [][PinsKept]_vars

DropsTold ==
    \A c \in Clients : FlushesMods(c) /\ req[c].op = "apply" =>
        LET r == req[c]
            lost == PinnedIn(r.s) \ DOMAIN srv'[r.s].rows
        IN  /\ lost \ DroppedPins(r)
                  \subseteq {m \in Mods : m \in DOMAIN r.loaded => ~IsPinned(r.loaded[m])}
            /\ DroppedPins(r) \cap DOMAIN srv'[r.s].rows = {}

(* Every pin an apply takes is in its dropped_pins, except one set after    *)
(* the definition was loaded; and what it reports dropped is gone.          *)
DropsAreTold == [][DropsTold]_vars

(* The docstring of apply without the exception: "every such GUID is listed *)
(* in dropped_pins".  Not so of a pin set in between: README.               *)
EveryDropIsTold ==
    [][\A c \in Clients : FlushesMods(c) /\ req[c].op = "apply" =>
         PinnedIn(req[c].s) \ DOMAIN srv'[req[c].s].rows \subseteq DroppedPins(req[c])]_vars

WholeReplaced ==
    \A c \in Clients :
        /\ FlushesMods(c) /\ req[c].op = "patch" =>
              DOMAIN srv'[req[c].s].rows = DOMAIN req[c].wanted
        /\ FlushesImport(c) =>
              \A s \in Entries(req[c], "create") \cup Entries(req[c], "replace") :
                LET asked == req[c].body.servers[s].rows
                    got == srv'[s].rows
                IN  /\ DOMAIN got = DOMAIN asked
                    /\ srv[s] = req[c].loaded[s] =>
                         \A m \in DOMAIN asked : IsPinned(asked[m]) => got[m] = asked[m]

(* A PATCH or an import that commits leaves the mods it was asked for, and  *)
(* with the pins it asked for unless the rows moved under it.               *)
ReplaceIsWhole == [][WholeReplaced]_vars

RunningKept ==
    \A s \in Names : Active(s) /\ srv'[s] # srv[s] =>
        /\ srv'[s] # NoServer
        /\ \A c \in Clients : req[c].op \in {"apply", "import"} => req'[c] = req[c]

(* No delete, apply or import changes the definition of a server that runs. *)
RunningUntouched == [][RunningKept]_vars

(* "Every server definition" of a backup comes back as it was exported: not *)
(* its game_admins, which the schema leaves out: README.                    *)
RestoreIsFaithful ==
    [][\A c \in Clients : FlushesImport(c) =>
         \A s \in Entries(req[c], "create") : srv'[s] = req[c].body.servers[s]]_vars
================================================================================
