------------------------- MODULE DefinitionsProofs -------------------------
(***************************************************************************)
(* Theorems about Definitions, for any names, packs, mods, versions,        *)
(* backups and number of clients: what requests that overlap do to pins, to *)
(* the report of an apply and to the definition that runs.                  *)
(***************************************************************************)
EXTENDS Definitions, Integers, Sequences, TLAPS

-----------------------------------------------------------------------------
(* The operators: what _apply_mods, the flush and an import make of rows    *)

(* A set of rows is a function from some of the mods.                       *)
LEMMA RowSetsOf ==
    ASSUME NEW f
    PROVE  f \in RowSets <=> DOMAIN f \in SUBSET Mods /\ f \in [DOMAIN f -> Rows]
BY DEF RowSets

(* The rows of a definition that is being created.                          *)
LEMMA NoRows == <<>> \in RowSets
<1>1. <<>> \in Seq(Rows) /\ Len(<<>>) = 0
    OBVIOUS
<1>2. DOMAIN <<>> = {}
    OBVIOUS
<1>3. <<>> \in [1 .. 0 -> Rows]
    BY <1>1
<1> QED
    BY <1>2, <1>3, RowSetsOf

(* _apply_mods: the mods of the payload; a row is kept, or pinned anew.     *)
LEMMA ReconciledType ==
    ASSUME NEW loaded \in RowSets, NEW payload \in Payloads
    PROVE  /\ Reconciled(loaded, payload) \in RowSets
           /\ DOMAIN Reconciled(loaded, payload) = DOMAIN payload
           /\ \A m \in DOMAIN payload \cap DOMAIN loaded :
                 LET is == Reconciled(loaded, payload)[m]
                 IN  is = loaded[m] \/ (IsPinned(is) /\ payload[m] # NoPin)
<1>1. /\ DOMAIN payload \in SUBSET Mods /\ payload \in [DOMAIN payload -> Versions \cup {NoPin}]
      /\ loaded \in [DOMAIN loaded -> Rows]
    BY RowSetsOf DEF Payloads
<1>2. Unpinned \in Rows
    BY DEF Unpinned, Rows
<1>3. \A m \in DOMAIN payload : [pin |-> payload[m], at |-> FALSE] \in Rows
    BY <1>1 DEF Rows
<1>4. Reconciled(loaded, payload) \in [DOMAIN payload -> Rows]
    BY <1>1, <1>2, <1>3 DEF Reconciled
<1> QED
    BY <1>1, <1>4, RowSetsOf DEF Reconciled, IsPinned

(* An UPDATE of the changed columns leaves the pin of now, or writes one.   *)
LEMMA WrittenType ==
    ASSUME NEW old \in Rows, NEW new \in Rows, NEW now \in Rows
    PROVE  /\ Written(old, new, now) \in Rows
           /\ Written(old, new, now).pin = IF new.pin = old.pin THEN now.pin ELSE new.pin
<1>1. DOMAIN old = {"pin", "at"}
    BY DEF Rows
<1>2. Written(old, new, now) = [pin |-> IF new.pin = old.pin THEN now.pin ELSE new.pin,
                                at |-> IF new.at = old.at THEN now.at ELSE new.at]
    BY <1>1 DEF Written, Rows
<1> QED
    BY <1>2 DEF Rows

(* An UPDATE of a row that has not moved leaves what was asked.             *)
LEMMA WrittenWhole ==
    ASSUME NEW old \in Rows, NEW new \in Rows
    PROVE  Written(old, new, old) = new
BY DEF Written, Rows

(* The flush deletes the rows that left and inserts those that joined.      *)
LEMMA FlushedType ==
    ASSUME NEW loaded \in RowSets, NEW wanted \in RowSets, NEW now \in RowSets
    PROVE  /\ Flushed(loaded, wanted, now) \in RowSets
           /\ DOMAIN Flushed(loaded, wanted, now) =
                 (DOMAIN now \ (DOMAIN loaded \ DOMAIN wanted)) \cup (DOMAIN wanted \ DOMAIN loaded)
<1> DEFINE added == DOMAIN wanted \ DOMAIN loaded
           left == DOMAIN now \ (DOMAIN loaded \ DOMAIN wanted)
           value(m) == IF m \in added THEN wanted[m]
                       ELSE IF m \in DOMAIN wanted THEN Written(loaded[m], wanted[m], now[m])
                       ELSE now[m]
<1>1. Flushed(loaded, wanted, now) = [m \in left \cup added |-> value(m)]
    BY DEF Flushed
<1>2. /\ DOMAIN loaded \in SUBSET Mods /\ loaded \in [DOMAIN loaded -> Rows]
      /\ DOMAIN wanted \in SUBSET Mods /\ wanted \in [DOMAIN wanted -> Rows]
      /\ DOMAIN now \in SUBSET Mods /\ now \in [DOMAIN now -> Rows]
    BY RowSetsOf
<1>3. ASSUME NEW m \in left \cup added
      PROVE  value(m) \in Rows
    <2>1. CASE m \in added
        BY <1>2, <2>1
    <2>2. CASE m \notin added /\ m \in DOMAIN wanted
        <3>1. loaded[m] \in Rows /\ wanted[m] \in Rows /\ now[m] \in Rows
            BY <1>2, <2>2
        <3> QED
            BY <2>2, <3>1, WrittenType
    <2>3. CASE m \notin DOMAIN wanted
        BY <1>2, <2>3
    <2> QED
        BY <2>1, <2>2, <2>3
<1> HIDE DEF value
<1>4. [m \in left \cup added |-> value(m)] \in [left \cup added -> Rows]
    BY <1>3
<1>5. left \cup added \in SUBSET Mods
    BY <1>2
<1> QED
    BY <1>1, <1>4, <1>5, RowSetsOf

(* Of a row that was there and is not inserted anew.                        *)
LEMMA FlushedRow ==
    ASSUME NEW loaded \in RowSets, NEW wanted \in RowSets, NEW now \in RowSets,
           ~Clashes(loaded, wanted, now),
           NEW m \in DOMAIN now, m \in DOMAIN Flushed(loaded, wanted, now)
    PROVE  \/ Flushed(loaded, wanted, now)[m] = now[m]
           \/ /\ m \in DOMAIN loaded \cap DOMAIN wanted
              /\ Flushed(loaded, wanted, now)[m].pin =
                    IF wanted[m].pin = loaded[m].pin THEN now[m].pin ELSE wanted[m].pin
<1>1. m \notin DOMAIN wanted \ DOMAIN loaded
    BY DEF Clashes
<1>2. CASE m \in DOMAIN wanted
    <2>1. loaded[m] \in Rows /\ wanted[m] \in Rows /\ now[m] \in Rows
        BY <1>1, <1>2, RowSetsOf
    <2>2. Flushed(loaded, wanted, now)[m] = Written(loaded[m], wanted[m], now[m])
        BY <1>1, <1>2 DEF Flushed
    <2> QED
        BY <1>1, <1>2, <2>1, <2>2, WrittenType
<1>3. CASE m \notin DOMAIN wanted
    BY <1>3 DEF Flushed
<1> QED
    BY <1>2, <1>3

(* pinned_at has no bearing on the pin.                                     *)
LEMMA DatedType ==
    ASSUME NEW row \in Rows, NEW at \in BOOLEAN
    PROVE  [row EXCEPT !.at = at] \in Rows /\ [row EXCEPT !.at = at].pin = row.pin
BY DEF Rows

(* An import pins what its document pins, and keeps what it does not.       *)
LEMMA RestoredType ==
    ASSUME NEW loaded \in RowSets, NEW rows \in RowSets
    PROVE  /\ Restored(loaded, rows) \in RowSets
           /\ DOMAIN Restored(loaded, rows) = DOMAIN rows
           /\ \A m \in DOMAIN rows \cap DOMAIN loaded :
                 LET is == Restored(loaded, rows)[m]
                 IN  is.pin = loaded[m].pin \/ (IsPinned(is) /\ IsPinned(rows[m]))
<1> DEFINE payload == [m \in DOMAIN rows |-> rows[m].pin]
           applied == Reconciled(loaded, payload)
<1>1. DOMAIN rows \in SUBSET Mods /\ rows \in [DOMAIN rows -> Rows]
    BY RowSetsOf
<1>2. payload \in [DOMAIN rows -> Versions \cup {NoPin}]
    BY <1>1 DEF Rows
<1>3. payload \in Payloads
    BY <1>1, <1>2 DEF Payloads
<1>4. /\ applied \in RowSets /\ DOMAIN applied = DOMAIN rows
      /\ \A m \in DOMAIN rows \cap DOMAIN loaded :
            applied[m] = loaded[m] \/ (IsPinned(applied[m]) /\ payload[m] # NoPin)
    BY <1>3, ReconciledType
<1>5. applied \in [DOMAIN rows -> Rows]
    BY <1>4, RowSetsOf
<1> HIDE DEF applied
<1>6. Restored(loaded, rows) = [m \in DOMAIN rows |-> [applied[m] EXCEPT !.at = @ \/ rows[m].at]]
    BY DEF Restored, applied
<1>7. ASSUME NEW m \in DOMAIN rows
      PROVE  /\ [applied[m] EXCEPT !.at = @ \/ rows[m].at] \in Rows
             /\ [applied[m] EXCEPT !.at = @ \/ rows[m].at].pin = applied[m].pin
    <2>1. applied[m] \in Rows /\ rows[m] \in Rows
        BY <1>1, <1>5
    <2>2. (applied[m].at \/ rows[m].at) \in BOOLEAN
        OBVIOUS
    <2> QED
        BY <2>1, <2>2, DatedType
<1>8. Restored(loaded, rows) \in [DOMAIN rows -> Rows]
    BY <1>6, <1>7
<1>9. Restored(loaded, rows) \in RowSets /\ DOMAIN Restored(loaded, rows) = DOMAIN rows
    BY <1>1, <1>8, RowSetsOf
<1>10. ASSUME NEW m \in DOMAIN rows \cap DOMAIN loaded
       PROVE  LET is == Restored(loaded, rows)[m]
              IN  is.pin = loaded[m].pin \/ (IsPinned(is) /\ IsPinned(rows[m]))
    <2>1. Restored(loaded, rows)[m].pin = applied[m].pin
        BY <1>6, <1>7
    <2> QED
        BY <1>4, <2>1 DEF IsPinned
<1> QED
    BY <1>9, <1>10

-----------------------------------------------------------------------------
(* The invariant *)

(* A request that edits a definition keeps the pins it loaded, or asks for  *)
(* others; while it waits its definition is there.                          *)
Edits(r) ==
    r.op \in {"patch", "apply"} =>
        /\ r.s \in Names /\ Exists(r.s)
        /\ r.loaded \in RowSets /\ r.wanted \in RowSets
        /\ \A m \in DOMAIN r.loaded \cap DOMAIN r.wanted :
              \/ r.wanted[m].pin = r.loaded[m].pin
              \/ r.op = "patch" /\ IsPinned(r.wanted[m])

Imports(r) ==
    r.op = "import" =>
        /\ r.body \in Documents
        /\ r.loaded \in [DOMAIN r.body.servers -> Defs \cup {NoServer}]
        /\ \A s \in Entries(r, "replace") : Exists(s)

Requests ==
    /\ req = [c \in Clients |-> req[c]]
    /\ \A c \in Clients : Edits(req[c]) /\ Imports(req[c])

(* What an apply or an import loaded is not what runs, as long as nothing   *)
(* starts before it has committed.                                          *)
RunsApart(r) ==
    /\ r.op = "apply" => proc.phase \in {"down", "flagged"} /\ ~Flagged(r.s)
    /\ r.op = "import" =>
          /\ proc.phase \in {"down", "flagged"}
          /\ proc.phase = "flagged" => r.running = proc.name

StartsApart ==
    "start" \notin Overlaps =>
        /\ \A c \in Clients : RunsApart(req[c])
        /\ proc.phase # "down" => proc.name \in Names /\ Exists(proc.name)

(* Nobody changes which mods a definition has while a request waits with    *)
(* its rows, as long as no other edits it.                                  *)
LoadedOf(r, s) == IF r.op = "import" THEN r.loaded[s].rows ELSE r.loaded

Fresh(r) == \A s \in Names : Needs(r, s) => DOMAIN srv[s].rows = DOMAIN LoadedOf(r, s)

EditsApart ==
    "edit" \notin Overlaps =>
        /\ \A c \in Clients : Fresh(req[c])
        /\ \A c, d \in Clients, s \in Names : Needs(req[c], s) /\ Needs(req[d], s) => c = d

IInv == TypeOK /\ Requests /\ StartsApart /\ EditsApart

(* A step that leaves every definition in place. *)
Keeps ==
    /\ srv' \in [Names -> Defs \cup {NoServer}]
    /\ \A s \in Names : Exists(s) => Exists(s)'

(* A definition that exists has rows of the right kind.                     *)
LEMMA Stored ==
    ASSUME TypeOK, NEW s \in Names, Exists(s)
    PROVE  /\ srv[s] \in Defs /\ srv[s].rows \in RowSets
           /\ DOMAIN srv[s].rows \in SUBSET Mods /\ srv[s].rows \in [DOMAIN srv[s].rows -> Rows]
<1>1. srv[s] \in Defs /\ srv[s].rows \in RowSets
    BY DEF TypeOK, Exists, Defs
<1> QED
    BY <1>1, RowSetsOf

(* A flush of one definition leaves the others alone ...                    *)
LEMMA RowsReplaced ==
    ASSUME TypeOK, NEW s \in Names, Exists(s), NEW rows \in RowSets,
           srv' = [srv EXCEPT ![s].rows = rows]
    PROVE  Keeps /\ srv'[s].rows = rows /\ \A n \in Names \ {s} : srv'[n] = srv[n]
<1>1. [srv[s] EXCEPT !.rows = rows] \in Defs /\ [srv[s] EXCEPT !.rows = rows].rows = rows
    BY Stored DEF Defs
<1>2. srv' = [srv EXCEPT ![s] = [srv[s] EXCEPT !.rows = rows]]
    OBVIOUS
<1> QED
    BY <1>1, <1>2, NoneAssumption DEF TypeOK, Keeps, Exists

(* ... and a pin leaves the other rows alone.                               *)
LEMMA RowReplaced ==
    ASSUME TypeOK, NEW s \in Names, Exists(s), NEW m \in Assigned(s), NEW row \in Rows,
           srv' = [srv EXCEPT ![s].rows[m] = row]
    PROVE  /\ Keeps /\ \A n \in Names \ {s} : srv'[n] = srv[n]
           /\ \A n \in DOMAIN srv[s].rows \ {m} : srv'[s].rows[n] = srv[s].rows[n]
           /\ DOMAIN srv'[s].rows = DOMAIN srv[s].rows
<1>1. PICK rows : rows = [srv[s].rows EXCEPT ![m] = row]
    OBVIOUS
<1>2. DOMAIN rows = DOMAIN srv[s].rows /\ rows \in [DOMAIN rows -> Rows]
    BY <1>1, Stored DEF Assigned
<1>3. rows \in RowSets
    BY <1>2, Stored, RowSetsOf
<1>4. srv' = [srv EXCEPT ![s].rows = rows]
    BY <1>1
<1>5. Keeps /\ srv'[s].rows = rows /\ \A n \in Names \ {s} : srv'[n] = srv[n]
    BY <1>3, <1>4, RowsReplaced
<1> QED
    BY <1>1, <1>2, <1>5, Stored

(* A definition that is inserted.                                           *)
LEMMA Added ==
    ASSUME TypeOK, NEW s \in Names, NEW def \in Defs, srv' = [srv EXCEPT ![s] = def]
    PROVE  Keeps /\ \A n \in Names \ {s} : srv'[n] = srv[n]
BY NoneAssumption DEF TypeOK, Keeps, Exists

-----------------------------------------------------------------------------
(* The steps *)

(* An empty database.                                                       *)
LEMMA InitHolds == Init => IInv
BY DEF Init, IInv, TypeOK, Requests, Edits, Imports, StartsApart, RunsApart, Down, Idle,
       EditsApart, Fresh, Needs

(* pin_server_mod and unpin_server_mod change one row.                      *)
LEMMA PinsKeepRows ==
    ASSUME TypeOK, NEW s \in Names, NEW m \in Mods,
           UnpinServerMod(s, m) \/ \E v \in Versions : PinServerMod(s, m, v)
    PROVE  /\ Keeps /\ UNCHANGED <<pack, proc, req>>
           /\ \A n \in Names \ {s} : srv'[n] = srv[n]
           /\ \A n \in DOMAIN srv[s].rows \ {m} : srv'[s].rows[n] = srv[s].rows[n]
           /\ Exists(s) /\ DOMAIN srv'[s].rows = DOMAIN srv[s].rows
<1>1. m \in Assigned(s) /\ Exists(s) /\ UNCHANGED <<pack, proc, req>>
    BY DEF UnpinServerMod, PinServerMod, Assigned
<1>2. \E row \in Rows : srv' = [srv EXCEPT ![s].rows[m] = row]
    BY DEF UnpinServerMod, PinServerMod, Unpinned, Rows
<1> QED
    BY <1>1, <1>2, RowReplaced

(* The flush of a PATCH or an apply changes one definition.                 *)
LEMMA EditKeeps ==
    ASSUME TypeOK, Requests, NEW c \in Clients, FlushesMods(c)
    PROVE  LET r == req[c]
           IN  /\ Keeps /\ UNCHANGED <<pack, proc>> /\ r.s \in Names /\ Exists(r.s)
               /\ r.loaded \in RowSets /\ r.wanted \in RowSets /\ srv[r.s].rows \in RowSets
               /\ srv'[r.s].rows = Flushed(r.loaded, r.wanted, srv[r.s].rows)
               /\ \A n \in Names \ {r.s} : srv'[n] = srv[n]
               /\ ~Clashes(r.loaded, r.wanted, srv[r.s].rows)
<1> DEFINE r == req[c]
<1>1. r.op \in {"patch", "apply"} /\ UNCHANGED <<pack, proc>>
      /\ ~Clashes(r.loaded, r.wanted, srv[r.s].rows)
      /\ srv' = [srv EXCEPT ![r.s].rows = Flushed(r.loaded, r.wanted, srv[r.s].rows)]
    BY DEF FlushesMods
<1>2. r.s \in Names /\ Exists(r.s) /\ r.loaded \in RowSets /\ r.wanted \in RowSets
    BY <1>1 DEF Requests, Edits
<1>3. srv[r.s].rows \in RowSets
    BY <1>2, Stored
<1>4. Flushed(r.loaded, r.wanted, srv[r.s].rows) \in RowSets
    BY <1>2, <1>3, FlushedType
<1> QED
    BY <1>1, <1>2, <1>3, <1>4, RowsReplaced

(* What an import makes of one definition of its document.                  *)
LEMMA ImportedType ==
    ASSUME TypeOK, NEW r, r.op = "import", Imports(r), ~ServersClash(r),
           NEW s \in Entries(r, "create") \cup Entries(r, "replace")
    PROVE  /\ s \in Names /\ ImportedServer(r, s) \in Defs
           /\ Exists(s) <=> s \in Entries(r, "replace")
           /\ s \in Entries(r, "replace") =>
                 LET asked == r.body.servers[s].rows
                     old == r.loaded[s].rows
                 IN  /\ asked \in RowSets /\ old \in RowSets /\ srv[s].rows \in RowSets
                     /\ r.loaded[s] # NoServer
                     /\ ~Clashes(old, Restored(old, asked), srv[s].rows)
                     /\ ImportedServer(r, s).rows = Flushed(old, Restored(old, asked), srv[s].rows)
<1>1. /\ r.body \in Documents /\ r.loaded \in [DOMAIN r.body.servers -> Defs \cup {NoServer}]
      /\ \A n \in Entries(r, "replace") : Exists(n)
    BY DEF Imports
<1>2. s \in DOMAIN r.body.servers
    BY DEF Entries
<1>3. DOMAIN r.body.servers \in SUBSET Names /\ r.body.servers \in [DOMAIN r.body.servers -> Defs]
    BY <1>1 DEF Documents
<1>4. s \in Names /\ r.body.servers[s].rows \in RowSets
    BY <1>2, <1>3 DEF Defs
<1>5. s \in Entries(r, "create") => ~Exists(s) /\ s \notin Entries(r, "replace")
    BY DEF ServersClash, Entries
<1>6. ASSUME s \in Entries(r, "create") PROVE ImportedServer(r, s) \in Defs
    <2>1. <<>> \in RowSets
        BY NoRows
    <2>2. Restored(<<>>, r.body.servers[s].rows) \in RowSets
        BY <1>4, <2>1, RestoredType
    <2> QED
        BY <1>6, <2>2, NoneAssumption DEF ImportedServer, Defs
<1>7. ASSUME s \in Entries(r, "replace")
      PROVE  LET asked == r.body.servers[s].rows
                 old == r.loaded[s].rows
             IN  /\ old \in RowSets /\ srv[s].rows \in RowSets /\ r.loaded[s] # NoServer
                 /\ ~Clashes(old, Restored(old, asked), srv[s].rows)
                 /\ ImportedServer(r, s).rows = Flushed(old, Restored(old, asked), srv[s].rows)
                 /\ ImportedServer(r, s) \in Defs
    <2> DEFINE asked == r.body.servers[s].rows
               old == r.loaded[s].rows
               new == Flushed(old, Restored(old, asked), srv[s].rows)
    <2>1. r.loaded[s] # NoServer /\ r.loaded[s] \in Defs
        BY <1>1, <1>2, <1>7 DEF Entries, ServerAction
    <2>2. old \in RowSets
        BY <2>1 DEF Defs
    <2>3. srv[s] \in Defs /\ srv[s].rows \in RowSets
        BY <1>1, <1>4, <1>7, Stored
    <2>4. new \in RowSets
        BY <1>4, <2>2, <2>3, RestoredType, FlushedType
    <2>5. ImportedServer(r, s) = [srv[s] EXCEPT !.rows = new]
        BY <1>5, <1>7 DEF ImportedServer
    <2>6. [srv[s] EXCEPT !.rows = new] \in Defs /\ [srv[s] EXCEPT !.rows = new].rows = new
        BY <2>3, <2>4 DEF Defs
    <2>7. ~Clashes(old, Restored(old, asked), srv[s].rows)
        BY <1>7 DEF ServersClash
    <2> QED
        BY <2>1, <2>2, <2>3, <2>5, <2>6, <2>7
<1> QED
    BY <1>1, <1>4, <1>5, <1>6, <1>7

(* The flush of an import changes the definitions it creates or replaces.   *)
LEMMA ImportKeeps ==
    ASSUME TypeOK, Requests, NEW c \in Clients, FlushesImport(c)
    PROVE  /\ Keeps /\ UNCHANGED proc
           /\ pack' \in [Packs -> (SUBSET Mods) \cup {NoPack}]
           /\ ~ServersClash(req[c]) /\ req[c].op = "import" /\ Imports(req[c])
           /\ \A s \in Names : srv'[s] =
                 IF s \in Entries(req[c], "create") \cup Entries(req[c], "replace")
                 THEN ImportedServer(req[c], s) ELSE srv[s]
<1> DEFINE r == req[c]
<1>1. /\ r.op = "import" /\ Imports(r) /\ ~ServersClash(r) /\ UNCHANGED proc
      /\ srv' = [s \in Names |-> IF s \in Entries(r, "create") \cup Entries(r, "replace")
                                 THEN ImportedServer(r, s) ELSE srv[s]]
      /\ \E left \in [PackEntries(r) -> SUBSET Mods] :
            pack' = [p \in Packs |-> IF p \in PackEntries(r)
                                    THEN left[p] \cup r.body.packs[p] ELSE pack[p]]
    BY DEF FlushesImport, Requests
<1>2. \A s \in Entries(r, "create") \cup Entries(r, "replace") : ImportedServer(r, s) \in Defs
    BY <1>1, ImportedType
<1>3. Keeps
    BY <1>1, <1>2, NoneAssumption DEF Keeps, TypeOK, Exists
<1>4. \A p \in PackEntries(r) : r.body.packs[p] \in SUBSET Mods
    <2>1. /\ DOMAIN r.body.packs \in SUBSET Packs
          /\ r.body.packs \in [DOMAIN r.body.packs -> SUBSET Mods]
        BY <1>1 DEF Imports, Documents
    <2> QED
        BY <2>1 DEF PackEntries
<1>5. pack' \in [Packs -> (SUBSET Mods) \cup {NoPack}]
    <2>1. PICK left \in [PackEntries(r) -> SUBSET Mods] :
            pack' = [p \in Packs |-> IF p \in PackEntries(r)
                                    THEN left[p] \cup r.body.packs[p] ELSE pack[p]]
        BY <1>1
    <2>2. \A p \in PackEntries(r) : left[p] \cup r.body.packs[p] \in SUBSET Mods
        BY <1>4
    <2> QED
        BY <2>1, <2>2 DEF TypeOK
<1> QED
    BY <1>1, <1>3, <1>5

(* A definition that appears. *)
LEMMA NewcomerKeeps ==
    ASSUME TypeOK, NEW s \in Names,
           \/ \E payload \in Payloads, a \in Admins : CreateServer(s, payload, a)
           \/ \E t \in Names : CloneServer(s, t)
    PROVE  /\ Keeps /\ UNCHANGED <<pack, proc, req>>
           /\ \E n \in Names : ~Exists(n) /\ \A k \in Names \ {n} : srv'[k] = srv[k]
<1>1. ASSUME NEW payload \in Payloads, NEW a \in Admins, CreateServer(s, payload, a)
      PROVE  \E n \in Names, def \in Defs : ~Exists(n) /\ srv' = [srv EXCEPT ![n] = def]
    <2>1. [rows |-> Reconciled(<<>>, payload), admins |-> a] \in Defs
        BY NoRows, ReconciledType DEF Defs
    <2> QED
        BY <1>1, <2>1 DEF CreateServer
<1>2. ASSUME NEW t \in Names, CloneServer(s, t)
      PROVE  \E n \in Names, def \in Defs : ~Exists(n) /\ srv' = [srv EXCEPT ![n] = def]
    BY <1>2, Stored DEF CloneServer
<1>3. UNCHANGED <<pack, proc, req>>
    BY DEF CreateServer, CloneServer
<1> QED
    BY <1>1, <1>2, <1>3, Added

(* The steps that change packs or the supervisor only. *)
Elsewhere ==
    \/ \E s \in Names : StartLoads(s) \/ \E p \in Packs : ModpackFromServer(s, p)
    \/ \E p \in Packs :
          \/ DeleteModpack(p)
          \/ \E items \in SUBSET Mods :
                CreateModpack(p, items) \/ UpdateModpack(p, items) \/ ImportModpack(p, items)
    \/ StartSpawns \/ StartFlags \/ ServerExits

(* They leave the definitions alone.                                        *)
LEMMA ElsewhereKeeps ==
    ASSUME TypeOK, Elsewhere
    PROVE  UNCHANGED <<srv, req>> /\ TypeOK'
<1>1. CASE \E s \in Names : StartLoads(s)
    BY <1>1 DEF StartLoads, TypeOK
<1>2. CASE StartSpawns \/ StartFlags \/ ServerExits
    BY <1>2 DEF StartSpawns, StartFlags, ServerExits, TypeOK, Down
<1>3. CASE \E p \in Packs :
              \/ \E s \in Names : ModpackFromServer(s, p)
              \/ DeleteModpack(p)
              \/ \E items \in SUBSET Mods :
                    CreateModpack(p, items) \/ UpdateModpack(p, items) \/ ImportModpack(p, items)
    <2>1. UNCHANGED <<srv, proc, req>>
        BY <1>3 DEF ModpackFromServer, DeleteModpack, CreateModpack, UpdateModpack, ImportModpack
    <2>2. \A s \in Names : Exists(s) => Assigned(s) \in SUBSET Mods
        BY Stored DEF Assigned
    <2>3. \E q \in Packs, items \in (SUBSET Mods) \cup {NoPack} : pack' = [pack EXCEPT ![q] = items]
        BY <1>3, <2>2 DEF ModpackFromServer, DeleteModpack, CreateModpack, UpdateModpack, ImportModpack
    <2> QED
        BY <2>1, <2>3 DEF TypeOK
<1> QED
    BY <1>1, <1>2, <1>3 DEF Elsewhere

(* Every step keeps the types, and every one but a delete the definitions.  *)
LEMMA RowsStep ==
    ASSUME TypeOK, Requests, [Next]_vars
    PROVE  /\ TypeOK'
           /\ Keeps \/ \E s \in Names : DeleteServer(s)
<1>1. CASE \E c \in Clients : Loads(c) \/ Fails(c)
    BY <1>1 DEF Loads, LoadsPatch, LoadsApply, LoadsImport, Fails, TypeOK, Keeps, Exists
<1>2. CASE \E c \in Clients : FlushesMods(c)
    BY <1>2, EditKeeps DEF TypeOK, Keeps
<1>3. CASE \E c \in Clients : FlushesImport(c)
    BY <1>3, ImportKeeps DEF TypeOK, Keeps
<1>4. ASSUME NEW s \in Names, DeleteServer(s)
      PROVE  TypeOK'
    BY <1>4 DEF DeleteServer, TypeOK
<1>5. CASE \E s \in Names :
              \/ \E payload \in Payloads, a \in Admins : CreateServer(s, payload, a)
              \/ \E t \in Names : CloneServer(s, t)
    BY <1>5, NewcomerKeeps DEF TypeOK, Keeps
<1>6. CASE \E s \in Names, m \in Mods :
              UnpinServerMod(s, m) \/ \E v \in Versions : PinServerMod(s, m, v)
    BY <1>6, PinsKeepRows DEF TypeOK, Keeps
<1>7. CASE Elsewhere
    BY <1>7, ElsewhereKeeps DEF TypeOK, Keeps, Exists
<1>8. CASE UNCHANGED vars
    BY <1>8 DEF vars, TypeOK, Keeps, Exists
<1> QED
    BY <1>1, <1>2, <1>3, <1>4, <1>5, <1>6, <1>7, <1>8 DEF Next, Elsewhere

-----------------------------------------------------------------------------
(* The requests that wait *)

(* What PATCH, apply and import load and decide.                            *)
LEMMA LoadsMakeRequests ==
    ASSUME TypeOK, NEW c \in Clients, Loads(c)
    PROVE  /\ UNCHANGED <<srv, pack, proc>>
           /\ \E r : Edits(r) /\ Imports(r) /\ req' = [req EXCEPT ![c] = r]
<1>1. ASSUME NEW s \in Names, NEW payload \in Payloads, LoadsPatch(c, s, payload)
      PROVE  \E r : Edits(r) /\ Imports(r) /\ req' = [req EXCEPT ![c] = r]
    <2> DEFINE r == [op |-> "patch", s |-> s, loaded |-> srv[s].rows,
                     wanted |-> Reconciled(srv[s].rows, payload)]
    <2>1. Exists(s) /\ req' = [req EXCEPT ![c] = r]
        BY <1>1 DEF LoadsPatch
    <2>2. srv[s].rows \in RowSets
        BY <2>1, Stored
    <2>3. Edits(r)
        BY <2>1, <2>2, ReconciledType DEF Edits
    <2> QED
        BY <2>1, <2>3 DEF Imports
<1>2. ASSUME NEW p \in Packs, NEW s \in Names, NEW mode \in {"append", "replace"},
             LoadsApply(c, p, s, mode)
      PROVE  \E r : Edits(r) /\ Imports(r) /\ req' = [req EXCEPT ![c] = r]
    <2> DEFINE loaded == srv[s].rows
               whole == Reconciled(loaded, [m \in pack[p] |-> NoPin])
               wanted == IF mode = "append" THEN Extended(loaded, pack[p]) ELSE whole
               r == [op |-> "apply", s |-> s, loaded |-> loaded, wanted |-> wanted]
    <2>1. Exists(s) /\ pack[p] \in SUBSET Mods /\ req' = [req EXCEPT ![c] = r]
        BY <1>2 DEF LoadsApply, TypeOK
    <2>2. loaded \in RowSets /\ DOMAIN loaded \in SUBSET Mods /\ loaded \in [DOMAIN loaded -> Rows]
        BY <2>1, Stored
    <2>3. whole \in RowSets /\ \A m \in DOMAIN loaded \cap DOMAIN whole : whole[m] = loaded[m]
        <3>1. [m \in pack[p] |-> NoPin] \in Payloads
            BY <2>1 DEF Payloads
        <3> QED
            BY <2>2, <3>1, ReconciledType
    <2>4. /\ Extended(loaded, pack[p]) \in RowSets
          /\ \A m \in DOMAIN loaded : Extended(loaded, pack[p])[m] = loaded[m]
        <3>1. Extended(loaded, pack[p]) \in [DOMAIN loaded \cup pack[p] -> Rows]
            BY <2>1, <2>2 DEF Extended, Unpinned, Rows
        <3>2. DOMAIN loaded \cup pack[p] \in SUBSET Mods
            BY <2>1, <2>2
        <3> QED
            BY <3>1, <3>2, RowSetsOf DEF Extended
    <2>5. wanted \in RowSets /\ \A m \in DOMAIN loaded \cap DOMAIN wanted : wanted[m] = loaded[m]
        BY <2>3, <2>4
    <2> HIDE DEF wanted
    <2>6. Edits(r)
        BY <2>1, <2>2, <2>5 DEF Edits
    <2> QED
        BY <2>1, <2>6 DEF Imports
<1>3. ASSUME NEW body \in Backups \cup {Exported}, NEW conflict, LoadsImport(c, body, conflict)
      PROVE  \E r : Edits(r) /\ Imports(r) /\ req' = [req EXCEPT ![c] = r]
    <2> DEFINE r == [op |-> "import", body |-> body, conflict |-> conflict, running |-> Running,
                     loaded |-> Restrict(srv, DOMAIN body.servers),
                     packs |-> Restrict(pack, DOMAIN body.packs)]
    <2>1. req' = [req EXCEPT ![c] = r]
        BY <1>3 DEF LoadsImport
    <2>2. Exported \in Documents
        <3>1. [s \in {n \in Names : Exists(n)} |-> srv[s]] \in [{n \in Names : Exists(n)} -> Defs]
            BY Stored
        <3>2. [p \in {q \in Packs : pack[q] # NoPack} |-> pack[p]]
                 \in [{q \in Packs : pack[q] # NoPack} -> SUBSET Mods]
            BY DEF TypeOK
        <3> QED
            BY <3>1, <3>2 DEF Exported, Documents
    <2>3. body \in Documents
        BY <2>2, BackupsAssumption
    <2>4. DOMAIN body.servers \in SUBSET Names
        BY <2>3 DEF Documents
    <2>5. r.loaded \in [DOMAIN body.servers -> Defs \cup {NoServer}]
        BY <2>4 DEF TypeOK, Restrict
    <2>6. \A s \in Entries(r, "replace") : Exists(s)
        <3>1. \A s \in DOMAIN body.servers : r.loaded[s] = srv[s]
            BY DEF Restrict
        <3> QED
            BY <3>1 DEF Entries, ServerAction, Exists
    <2>7. Imports(r)
        BY <2>3, <2>5, <2>6 DEF Imports
    <2> QED
        BY <2>1, <2>7 DEF Edits
<1> QED
    BY <1>1, <1>2, <1>3 DEF Loads, LoadsPatch, LoadsApply, LoadsImport

(* What a request loaded stays true of it while definitions stay in place.  *)
LEMMA RequestStays ==
    ASSUME NEW r, Edits(r), Imports(r), Keeps, TypeOK
    PROVE  Edits(r)' /\ Imports(r)'
<1>1. Edits(r)'
    BY DEF Edits, Keeps
<1>2. \A s \in Entries(r, "replace") : r.op = "import" => s \in Names
    BY DEF Imports, Documents, Entries
<1>3. Imports(r)'
    BY <1>2 DEF Imports, Keeps
<1> QED
    BY <1>1, <1>3

(* Requests wait with what they loaded; a delete marks those that need it.  *)
LEMMA RequestsStep ==
    ASSUME TypeOK, Requests, [Next]_vars
    PROVE  Requests'
<1>1. ASSUME NEW c \in Clients, NEW r, Keeps, Edits(r), Imports(r), req' = [req EXCEPT ![c] = r]
      PROVE  Requests'
    <2>1. Edits(r)' /\ Imports(r)'
        BY <1>1, RequestStays
    <2>2. \A d \in Clients : (Edits(req[d])' /\ Imports(req[d])') \/ req[d]' # req[d]
        BY <1>1, RequestStays DEF Requests
    <2> QED
        BY <1>1, <2>1, <2>2 DEF Requests
<1>2. ASSUME NEW c \in Clients, Loads(c) PROVE Requests'
    <2>1. Keeps
        BY <1>2, LoadsMakeRequests DEF Keeps, TypeOK, Exists
    <2> QED
        BY <1>1, <1>2, <2>1, LoadsMakeRequests
<1>3. ASSUME NEW c \in Clients, FlushesMods(c) \/ FlushesImport(c) \/ Fails(c) PROVE Requests'
    <2>1. Keeps
        BY <1>3, EditKeeps, ImportKeeps DEF Keeps, TypeOK, Exists, Fails
    <2>2. req' = [req EXCEPT ![c] = Idle] /\ Edits(Idle) /\ Imports(Idle)
        BY <1>3 DEF FlushesMods, FlushesImport, Fails, Ends, Idle, Edits, Imports
    <2> QED
        BY <1>1, <2>1, <2>2
<1>4. ASSUME NEW s \in Names, DeleteServer(s) PROVE Requests'
    <2>1. req' = [c \in Clients |-> IF Needs(req[c], s) THEN [op |-> "gone"] ELSE req[c]]
          /\ \A n \in Names \ {s} : Exists(n) => Exists(n)'
        BY <1>4 DEF DeleteServer, TypeOK, Exists
    <2>2. ASSUME NEW c \in Clients, ~Needs(req[c], s) PROVE Edits(req[c])' /\ Imports(req[c])'
        <3>1. req'[c] = req[c]
            BY <2>1, <2>2
        <3>2. Edits(req[c]) /\ Imports(req[c])
            BY DEF Requests
        <3>3. req[c].op = "import" => \A n \in Entries(req[c], "replace") : n \in Names \ {s}
            BY <2>2, <3>2 DEF Imports, Documents, Entries, Needs
        <3> QED
            BY <2>1, <2>2, <3>1, <3>2, <3>3 DEF Edits, Imports, Needs
    <2>3. \A c \in Clients : Needs(req[c], s) => Edits(req[c])' /\ Imports(req[c])'
        BY <2>1 DEF Edits, Imports
    <2> QED
        BY <2>1, <2>2, <2>3 DEF Requests
<1>5. ASSUME UNCHANGED req, Keeps PROVE Requests'
    BY <1>5, RequestStays DEF Requests
<1>6. CASE \E s \in Names :
              \/ \E payload \in Payloads, a \in Admins : CreateServer(s, payload, a)
              \/ \E t \in Names : CloneServer(s, t)
    BY <1>5, <1>6, NewcomerKeeps
<1>7. CASE \E s \in Names, m \in Mods :
              UnpinServerMod(s, m) \/ \E v \in Versions : PinServerMod(s, m, v)
    BY <1>5, <1>7, PinsKeepRows
<1>8. CASE Elsewhere
    BY <1>5, <1>8, ElsewhereKeeps DEF TypeOK, Keeps, Exists
<1>9. CASE UNCHANGED vars
    BY <1>5, <1>9 DEF vars, TypeOK, Keeps, Exists
<1> QED
    BY <1>2, <1>3, <1>4, <1>6, <1>7, <1>8, <1>9 DEF Next, Elsewhere

-----------------------------------------------------------------------------
(* What is edited *)

(* What a request loads is fresh, and it is the only one to edit it.        *)
LEMMA LoadsFresh ==
    ASSUME TypeOK, NEW c \in Clients, Loads(c), "edit" \notin Overlaps
    PROVE  \E r : /\ req' = [req EXCEPT ![c] = r] /\ Fresh(r)
                 /\ \A s \in Names, d \in Clients : Needs(r, s) => ~Needs(req[d], s)
<1>1. ASSUME NEW s \in Names, NEW r, r.op \in {"patch", "apply"}, r.s = s, MayEdit({s}),
             r.loaded = srv[s].rows
      PROVE  Fresh(r) /\ \A n \in Names, d \in Clients : Needs(r, n) => ~Needs(req[d], n)
    <2>1. \A n \in Names : Needs(r, n) => n = s
        BY <1>1 DEF Needs
    <2>2. LoadedOf(r, s) = srv[s].rows
        BY <1>1 DEF LoadedOf
    <2> QED
        BY <1>1, <2>1, <2>2 DEF Fresh, MayEdit
<1>2. ASSUME NEW s \in Names, NEW payload \in Payloads, LoadsPatch(c, s, payload)
      PROVE  \E r : /\ req' = [req EXCEPT ![c] = r] /\ Fresh(r)
                   /\ \A n \in Names, d \in Clients : Needs(r, n) => ~Needs(req[d], n)
    <2> DEFINE r == [op |-> "patch", s |-> s, loaded |-> srv[s].rows,
                     wanted |-> Reconciled(srv[s].rows, payload)]
    <2>1. req' = [req EXCEPT ![c] = r] /\ MayEdit({s})
        BY <1>2 DEF LoadsPatch
    <2>2. r.op = "patch" /\ r.s = s /\ r.loaded = srv[s].rows
        OBVIOUS
    <2> HIDE DEF r
    <2>3. PICK q : q = r
        OBVIOUS
    <2>4. Fresh(q) /\ \A n \in Names, d \in Clients : Needs(q, n) => ~Needs(req[d], n)
        BY <1>1, <2>1, <2>2, <2>3
    <2> QED
        BY <2>1, <2>3, <2>4
<1>3. ASSUME NEW p \in Packs, NEW s \in Names, NEW mode \in {"append", "replace"},
             LoadsApply(c, p, s, mode)
      PROVE  \E r : /\ req' = [req EXCEPT ![c] = r] /\ Fresh(r)
                   /\ \A n \in Names, d \in Clients : Needs(r, n) => ~Needs(req[d], n)
    <2> DEFINE loaded == srv[s].rows
               wanted == IF mode = "append" THEN Extended(loaded, pack[p])
                         ELSE Reconciled(loaded, [m \in pack[p] |-> NoPin])
               r == [op |-> "apply", s |-> s, loaded |-> loaded, wanted |-> wanted]
    <2>1. req' = [req EXCEPT ![c] = r] /\ MayEdit({s})
        BY <1>3 DEF LoadsApply
    <2>2. r.op = "apply" /\ r.s = s /\ r.loaded = srv[s].rows
        OBVIOUS
    <2> HIDE DEF r
    <2>3. PICK q : q = r
        OBVIOUS
    <2>4. Fresh(q) /\ \A n \in Names, d \in Clients : Needs(q, n) => ~Needs(req[d], n)
        BY <1>1, <2>1, <2>2, <2>3
    <2> QED
        BY <2>1, <2>3, <2>4
<1>4. ASSUME NEW body, NEW conflict, LoadsImport(c, body, conflict)
      PROVE  \E r : /\ req' = [req EXCEPT ![c] = r] /\ Fresh(r)
                   /\ \A n \in Names, d \in Clients : Needs(r, n) => ~Needs(req[d], n)
    <2> DEFINE r == [op |-> "import", body |-> body, conflict |-> conflict, running |-> Running,
                     loaded |-> Restrict(srv, DOMAIN body.servers),
                     packs |-> Restrict(pack, DOMAIN body.packs)]
    <2>1. req' = [req EXCEPT ![c] = r] /\ MayEdit(Entries(r, "replace"))
        BY <1>4 DEF LoadsImport
    <2>2. r.op = "import" /\ \A s \in DOMAIN r.body.servers : r.loaded[s] = srv[s]
        BY DEF Restrict
    <2> HIDE DEF r
    <2>3. \A n \in Names : Needs(r, n) => n \in Entries(r, "replace") /\ n \in DOMAIN r.body.servers
        BY <2>2 DEF Needs, Entries
    <2>4. Fresh(r)
        BY <2>2, <2>3 DEF Fresh, LoadedOf
    <2> QED
        BY <2>1, <2>3, <2>4 DEF MayEdit
<1> QED
    BY <1>2, <1>3, <1>4 DEF Loads

(* What a request edits is there.                                           *)
LEMMA NeededExist ==
    ASSUME Requests, NEW c \in Clients, NEW s \in Names, Needs(req[c], s)
    PROVE  Exists(s)
BY DEF Requests, Edits, Imports, Needs

(* A flush leaves alone what other requests edit.                           *)
LEMMA FlushApart ==
    ASSUME IInv, "edit" \notin Overlaps, NEW c \in Clients, FlushesMods(c) \/ FlushesImport(c),
           NEW d \in Clients \ {c}, NEW s \in Names, Needs(req[d], s)
    PROVE  srv'[s] = srv[s]
<1> USE DEF IInv
<1>1. Exists(s) /\ ~Needs(req[c], s)
    BY NeededExist DEF EditsApart
<1>2. CASE FlushesMods(c)
    <2>1. req[c].s # s
        BY <1>1, <1>2 DEF FlushesMods, Needs
    <2> QED
        BY <1>2, <2>1, EditKeeps
<1>3. CASE FlushesImport(c)
    <2>1. req[c].op = "import" /\ ~ServersClash(req[c])
        BY <1>3 DEF FlushesImport
    <2>2. s \notin Entries(req[c], "create") \cup Entries(req[c], "replace")
        BY <1>1, <2>1 DEF Needs, ServersClash
    <2> QED
        BY <1>3, <2>2, ImportKeeps
<1> QED
    BY <1>2, <1>3

(* Pins change no set of mods, and the rest leaves what is edited alone.    *)
LEMMA FreshStep ==
    ASSUME IInv, [Next]_vars
    PROVE  EditsApart'
<1> SUFFICES ASSUME "edit" \notin Overlaps
             PROVE  /\ \A c \in Clients : Fresh(req[c])'
                    /\ \A c, d \in Clients, s \in Names :
                          (Needs(req[c], s) /\ Needs(req[d], s) => c = d)'
    BY DEF EditsApart
<1> USE DEF IInv
<1>1. /\ \A c \in Clients : Fresh(req[c])
      /\ \A c, d \in Clients, s \in Names : Needs(req[c], s) /\ Needs(req[d], s) => c = d
    BY DEF EditsApart
<1>2. ASSUME NEW r, Fresh(r),
             \A s \in Names : Needs(r, s) => DOMAIN srv'[s].rows = DOMAIN srv[s].rows
      PROVE  Fresh(r)'
    BY <1>2 DEF Fresh, LoadedOf, Needs, Entries, ServerAction
<1>3. ASSUME UNCHANGED req,
             \A c \in Clients, s \in Names :
                Needs(req[c], s) => DOMAIN srv'[s].rows = DOMAIN srv[s].rows
      PROVE  /\ \A c \in Clients : Fresh(req[c])'
             /\ \A c, d \in Clients, s \in Names :
                   (Needs(req[c], s) /\ Needs(req[d], s) => c = d)'
    <2>1. ASSUME NEW c \in Clients PROVE Fresh(req[c])'
        <3>1. PICK r : r = req[c]
            OBVIOUS
        <3>2. Fresh(r)'
            BY <1>1, <1>2, <1>3, <3>1
        <3> QED
            BY <1>3, <3>1, <3>2
    <2> QED
        BY <1>1, <1>3, <2>1 DEF Needs, Entries, ServerAction
<1>4. ASSUME NEW c \in Clients, NEW r, req' = [req EXCEPT ![c] = r], Fresh(r)',
             \A d \in Clients \ {c}, s \in Names : Needs(req[d], s) =>
                ~Needs(r, s) /\ DOMAIN srv'[s].rows = DOMAIN srv[s].rows
      PROVE  /\ \A d \in Clients : Fresh(req[d])'
             /\ \A d, e \in Clients, s \in Names :
                   (Needs(req[d], s) /\ Needs(req[e], s) => d = e)'
    <2>1. req'[c] = r /\ \A d \in Clients \ {c} : req'[d] = req[d]
        BY <1>4 DEF Requests
    <2>2. ASSUME NEW d \in Clients PROVE Fresh(req[d])'
        <3>1. PICK q : q = req'[d]
            OBVIOUS
        <3>2. Fresh(q)'
            BY <1>1, <1>2, <1>4, <2>1, <3>1
        <3> QED
            BY <3>1, <3>2
    <2>3. ASSUME NEW d \in Clients, NEW e \in Clients, NEW s \in Names,
                 Needs(req[d]', s), Needs(req[e]', s)
          PROVE  d = e
        BY <1>1, <1>4, <2>1, <2>3
    <2> QED
        BY <2>2, <2>3 DEF Needs, Entries, ServerAction
<1>5. ASSUME NEW c \in Clients, Loads(c)
      PROVE  /\ \A d \in Clients : Fresh(req[d])'
             /\ \A d, e \in Clients, s \in Names :
                   (Needs(req[d], s) /\ Needs(req[e], s) => d = e)'
    <2>1. UNCHANGED srv
        BY <1>5, LoadsMakeRequests
    <2>2. PICK r : /\ req' = [req EXCEPT ![c] = r] /\ Fresh(r)
                   /\ \A s \in Names, d \in Clients : Needs(r, s) => ~Needs(req[d], s)
        BY <1>5, LoadsFresh
    <2>3. Fresh(r)'
        BY <1>2, <2>1, <2>2
    <2> QED
        BY <1>4, <2>1, <2>2, <2>3
<1>6. ASSUME NEW c \in Clients, FlushesMods(c) \/ FlushesImport(c) \/ Fails(c)
      PROVE  /\ \A d \in Clients : Fresh(req[d])'
             /\ \A d, e \in Clients, s \in Names :
                   (Needs(req[d], s) /\ Needs(req[e], s) => d = e)'
    <2>1. req' = [req EXCEPT ![c] = Idle] /\ (Fails(c) => UNCHANGED srv)
        BY <1>6 DEF FlushesMods, FlushesImport, Fails, Ends
    <2>2. \A s : ~Needs(Idle, s)
        BY DEF Idle, Needs
    <2>3. Fresh(Idle)'
        BY <2>2 DEF Fresh, Needs, Idle
    <2>4. \A d \in Clients \ {c}, s \in Names :
             Needs(req[d], s) => ~Needs(Idle, s) /\ DOMAIN srv'[s].rows = DOMAIN srv[s].rows
        BY <1>6, <2>1, <2>2, FlushApart
    <2> QED
        BY <1>4, <2>1, <2>3, <2>4
<1>7. ASSUME NEW s \in Names, DeleteServer(s)
      PROVE  /\ \A c \in Clients : Fresh(req[c])'
             /\ \A c, d \in Clients, n \in Names :
                   (Needs(req[c], n) /\ Needs(req[d], n) => c = d)'
    <2>1. /\ req' = [c \in Clients |-> IF Needs(req[c], s) THEN [op |-> "gone"] ELSE req[c]]
          /\ \A n \in Names \ {s} : srv'[n] = srv[n]
        BY <1>7 DEF DeleteServer, TypeOK
    <2>2. \A n : ~Needs([op |-> "gone"], n)
        BY DEF Needs
    <2>3. ASSUME NEW c \in Clients PROVE Fresh(req[c])'
        <3>1. CASE Needs(req[c], s)
            <4>1. req'[c] = [op |-> "gone"]
                BY <2>1, <3>1
            <4> QED
                BY <4>1 DEF Fresh, Needs
        <3>2. CASE ~Needs(req[c], s)
            <4>1. PICK r : r = req[c]
                OBVIOUS
            <4>2. req'[c] = r /\ Fresh(r) /\ ~Needs(r, s)
                BY <1>1, <2>1, <3>2, <4>1
            <4>3. Fresh(r)'
                BY <1>2, <2>1, <4>2
            <4> QED
                BY <4>2, <4>3
        <3> QED
            BY <3>1, <3>2
    <2>4. ASSUME NEW c \in Clients, NEW d \in Clients, NEW n \in Names,
                 Needs(req[c]', n), Needs(req[d]', n)
          PROVE  c = d
        BY <1>1, <2>1, <2>2, <2>4
    <2> QED
        BY <2>3, <2>4 DEF Needs, Entries, ServerAction
<1>8. CASE \E s \in Names :
              \/ \E payload \in Payloads, a \in Admins : CreateServer(s, payload, a)
              \/ \E t \in Names : CloneServer(s, t)
    <2>1. PICK n \in Names : ~Exists(n) /\ \A k \in Names \ {n} : srv'[k] = srv[k]
        BY <1>8, NewcomerKeeps
    <2>2. \A c \in Clients, s \in Names : Needs(req[c], s) => s # n
        BY <2>1, NeededExist
    <2> QED
        BY <1>3, <1>8, <2>1, <2>2, NewcomerKeeps
<1>9. CASE \E s \in Names, m \in Mods :
              UnpinServerMod(s, m) \/ \E v \in Versions : PinServerMod(s, m, v)
    BY <1>3, <1>9, PinsKeepRows
<1>10. CASE Elsewhere
    BY <1>3, <1>10, ElsewhereKeeps
<1>11. CASE UNCHANGED vars
    BY <1>3, <1>11 DEF vars
<1> QED
    BY <1>5, <1>6, <1>7, <1>8, <1>9, <1>10, <1>11 DEF Next, Elsewhere

-----------------------------------------------------------------------------
(* What runs *)

(* Starts keep out of an apply and an import, and these of a start.         *)
LEMMA ApartStep ==
    ASSUME IInv, [Next]_vars
    PROVE  StartsApart'
<1> SUFFICES ASSUME "start" \notin Overlaps
             PROVE  /\ \A c \in Clients : RunsApart(req[c])'
                    /\ (proc.phase # "down" => proc.name \in Names /\ Exists(proc.name))'
    BY DEF StartsApart
<1> USE DEF IInv
<1>1. /\ \A c \in Clients : RunsApart(req[c])
      /\ proc.phase # "down" => proc.name \in Names /\ Exists(proc.name)
    BY DEF StartsApart
<1>2. ASSUME NEW c \in Clients, NEW r, req' = [req EXCEPT ![c] = r], RunsApart(r), UNCHANGED proc
      PROVE  \A d \in Clients : RunsApart(req[d])'
    BY <1>1, <1>2 DEF RunsApart, Requests, Flagged
<1>3. ASSUME UNCHANGED req, UNCHANGED proc
      PROVE  \A d \in Clients : RunsApart(req[d])'
    BY <1>1, <1>3 DEF RunsApart, Flagged
<1>4. ASSUME Keeps, UNCHANGED proc
      PROVE  (proc.phase # "down" => proc.name \in Names /\ Exists(proc.name))'
    BY <1>1, <1>4 DEF Keeps
<1>5. ASSUME NEW c \in Clients, Loads(c)
      PROVE  \A d \in Clients : RunsApart(req[d])'
    <2>1. ASSUME NEW s \in Names, NEW payload \in Payloads, LoadsPatch(c, s, payload)
          PROVE  UNCHANGED proc /\ \E r : req' = [req EXCEPT ![c] = r] /\ RunsApart(r)
        <3> DEFINE r == [op |-> "patch", s |-> s, loaded |-> srv[s].rows,
                         wanted |-> Reconciled(srv[s].rows, payload)]
        <3>1. req' = [req EXCEPT ![c] = r] /\ UNCHANGED proc
            BY <2>1 DEF LoadsPatch
        <3>2. r.op = "patch"
            OBVIOUS
        <3> HIDE DEF r
        <3>3. RunsApart(r)
            BY <3>2 DEF RunsApart
        <3> QED
            BY <3>1, <3>3
    <2>2. ASSUME NEW p \in Packs, NEW s \in Names, NEW mode \in {"append", "replace"},
                 LoadsApply(c, p, s, mode)
          PROVE  UNCHANGED proc /\ \E r : req' = [req EXCEPT ![c] = r] /\ RunsApart(r)
        <3> DEFINE loaded == srv[s].rows
                   wanted == IF mode = "append" THEN Extended(loaded, pack[p])
                             ELSE Reconciled(loaded, [m \in pack[p] |-> NoPin])
                   r == [op |-> "apply", s |-> s, loaded |-> loaded, wanted |-> wanted]
        <3>1. /\ req' = [req EXCEPT ![c] = r] /\ UNCHANGED proc
              /\ ~Flagged(s) /\ proc.phase \notin {"loaded", "spawned"}
            BY <2>2 DEF LoadsApply, MayTouch, Starting
        <3>2. r.op = "apply" /\ r.s = s
            OBVIOUS
        <3> HIDE DEF r
        <3>3. RunsApart(r)
            BY <3>1, <3>2 DEF RunsApart, TypeOK
        <3> QED
            BY <3>1, <3>3
    <2>3. ASSUME NEW body, NEW conflict, LoadsImport(c, body, conflict)
          PROVE  UNCHANGED proc /\ \E r : req' = [req EXCEPT ![c] = r] /\ RunsApart(r)
        <3> DEFINE r == [op |-> "import", body |-> body, conflict |-> conflict, running |-> Running,
                         loaded |-> Restrict(srv, DOMAIN body.servers),
                         packs |-> Restrict(pack, DOMAIN body.packs)]
        <3>1. /\ req' = [req EXCEPT ![c] = r] /\ UNCHANGED proc
              /\ proc.phase \notin {"loaded", "spawned"}
            BY <2>3 DEF LoadsImport, MayTouch, Starting
        <3>2. r.op = "import" /\ r.running = Running
            OBVIOUS
        <3> HIDE DEF r
        <3>3. RunsApart(r)
            BY <3>1, <3>2 DEF RunsApart, TypeOK, Running
        <3> QED
            BY <3>1, <3>3
    <2> QED
        BY <1>2, <1>5, <2>1, <2>2, <2>3 DEF Loads
<1>6. ASSUME NEW c \in Clients, FlushesMods(c) \/ FlushesImport(c) \/ Fails(c)
      PROVE  \A d \in Clients : RunsApart(req[d])'
    <2>1. UNCHANGED proc /\ req' = [req EXCEPT ![c] = Idle] /\ RunsApart(Idle)
        BY <1>6 DEF FlushesMods, FlushesImport, Fails, Ends, Idle, RunsApart
    <2> QED
        BY <1>2, <2>1
<1>7. ASSUME NEW s \in Names, DeleteServer(s)
      PROVE  /\ \A d \in Clients : RunsApart(req[d])'
             /\ (proc.phase # "down" => proc.name \in Names /\ Exists(proc.name))'
    <2>1. UNCHANGED proc /\ proc.phase \notin {"loaded", "spawned"} /\ ~Flagged(s)
          /\ \A n \in Names \ {s} : Exists(n) => Exists(n)'
        BY <1>7 DEF DeleteServer, MayTouch, Starting, TypeOK, Exists
    <2>2. (proc.phase # "down" => proc.name \in Names /\ Exists(proc.name))'
        BY <1>1, <2>1 DEF Flagged, TypeOK
    <2>3. \A d \in Clients : RunsApart(req[d])'
        BY <1>1, <1>7, <2>1 DEF DeleteServer, RunsApart, Flagged
    <2> QED
        BY <2>2, <2>3
<1>8. CASE Elsewhere
    <2>1. UNCHANGED <<srv, req>>
        BY <1>8, ElsewhereKeeps
    <2>2. CASE \E s \in Names : StartLoads(s)
        <3>1. \A c \in Clients : req[c].op \notin {"apply", "import"}
            BY <2>2 DEF StartLoads, Touching
        <3> QED
            BY <2>1, <2>2, <3>1 DEF StartLoads, RunsApart, Exists
    <2>3. CASE StartSpawns \/ StartFlags
        <3>1. \A c \in Clients : req[c].op \notin {"apply", "import"}
            BY <1>1, <2>3 DEF StartSpawns, StartFlags, RunsApart
        <3>2. proc'.name = proc.name /\ proc.phase # "down"
            BY <2>3 DEF StartSpawns, StartFlags, TypeOK
        <3> QED
            BY <1>1, <2>1, <3>1, <3>2 DEF RunsApart, Exists
    <2>4. CASE ServerExits
        BY <2>1, <2>4 DEF ServerExits, RunsApart, Down, Flagged
    <2>5. CASE UNCHANGED proc
        BY <1>1, <2>1, <2>5 DEF RunsApart, Flagged, Exists
    <2> QED
        BY <1>8, <2>2, <2>3, <2>4, <2>5
           DEF Elsewhere, ModpackFromServer, DeleteModpack, CreateModpack, UpdateModpack, ImportModpack
<1>9. CASE \E s \in Names :
              \/ \E payload \in Payloads, a \in Admins : CreateServer(s, payload, a)
              \/ \E t \in Names : CloneServer(s, t)
    BY <1>3, <1>4, <1>9, NewcomerKeeps
<1>10. CASE \E s \in Names, m \in Mods :
              UnpinServerMod(s, m) \/ \E v \in Versions : PinServerMod(s, m, v)
    BY <1>3, <1>4, <1>10, PinsKeepRows
<1>11. CASE UNCHANGED vars
    BY <1>3, <1>4, <1>11 DEF vars, TypeOK, Keeps, Exists
<1>12. ASSUME NEW c \in Clients, Loads(c) \/ FlushesMods(c) \/ FlushesImport(c) \/ Fails(c)
       PROVE  (proc.phase # "down" => proc.name \in Names /\ Exists(proc.name))'
    <2>1. Keeps /\ UNCHANGED proc
        BY <1>12, LoadsMakeRequests, EditKeeps, ImportKeeps DEF Keeps, TypeOK, Exists, Fails
    <2> QED
        BY <1>4, <2>1
<1> QED
    BY <1>5, <1>6, <1>7, <1>8, <1>9, <1>10, <1>11, <1>12 DEF Next, Elsewhere

-----------------------------------------------------------------------------
(* The theorems *)

(* Types, the requests that wait and what runs beside them, in every state. *)
THEOREM Inductive == Spec => []IInv
<1>1. IInv /\ [Next]_vars => IInv'
    BY RowsStep, RequestsStep, ApartStep, FreshStep DEF IInv
<1> QED
    BY <1>1, InitHolds, PTL DEF Spec

(* PATCH, apply, import, clone and the rest: a pin changes by name only.    *)
LEMMA PinsKeptStep == ASSUME IInv, [Next]_vars PROVE PinsKept
<1> USE DEF IInv
<1> SUFFICES ASSUME NEW s \in Names, Exists(s), srv'[s] # NoServer,
                    NEW m \in PinnedIn(s) \cap DOMAIN srv'[s].rows
             PROVE  PinKept(s, m)
    BY DEF PinsKept
<1>0. /\ m \in DOMAIN srv[s].rows /\ srv[s].rows \in RowSets /\ IsPinned(srv[s].rows[m])
      /\ m \in Mods
    BY Stored DEF PinnedIn, Assigned
<1>1. ASSUME srv'[s] = srv[s] PROVE PinKept(s, m)
    BY <1>1 DEF PinKept
<1>2. ASSUME NEW c \in Clients, FlushesMods(c) PROVE PinKept(s, m)
    <2> DEFINE r == req[c]
    <2>1. CASE r.s # s
        BY <1>1, <1>2, <2>1, EditKeeps
    <2>2. CASE r.s = s
        <3>1. /\ r.loaded \in RowSets /\ r.wanted \in RowSets
              /\ srv'[s].rows = Flushed(r.loaded, r.wanted, srv[s].rows)
              /\ ~Clashes(r.loaded, r.wanted, srv[s].rows)
            BY <1>2, <2>2, EditKeeps
        <3>2. PICK loaded \in RowSets, wanted \in RowSets, now \in RowSets :
                 loaded = r.loaded /\ wanted = r.wanted /\ now = srv[s].rows
            BY <1>0, <3>1
        <3>3. \/ srv'[s].rows[m] = srv[s].rows[m]
              \/ /\ m \in DOMAIN r.loaded \cap DOMAIN r.wanted
                 /\ srv'[s].rows[m].pin = IF r.wanted[m].pin = r.loaded[m].pin
                                          THEN srv[s].rows[m].pin ELSE r.wanted[m].pin
            BY <1>0, <3>1, <3>2, FlushedRow
        <3>4. /\ r.op \in {"patch", "apply"}
              /\ m \in DOMAIN r.loaded \cap DOMAIN r.wanted =>
                    \/ r.wanted[m].pin = r.loaded[m].pin
                    \/ r.op = "patch" /\ IsPinned(r.wanted[m])
            BY <1>2 DEF FlushesMods, Requests, Edits
        <3> QED
            BY <1>2, <3>3, <3>4 DEF PinKept, IsPinned
    <2> QED
        BY <2>1, <2>2
<1>3. ASSUME NEW c \in Clients, FlushesImport(c) PROVE PinKept(s, m)
    <2> DEFINE r == req[c]
               asked == r.body.servers[s].rows
               old == r.loaded[s].rows
               new == Restored(old, asked)
    <2>1. /\ ~ServersClash(r) /\ r.op = "import" /\ Imports(r)
          /\ srv'[s] = IF s \in Entries(r, "create") \cup Entries(r, "replace")
                       THEN ImportedServer(r, s) ELSE srv[s]
        BY <1>3, ImportKeeps
    <2>2. CASE s \notin Entries(r, "replace")
        <3>1. s \notin Entries(r, "create")
            BY <2>1, <2>2, ImportedType
        <3> QED
            BY <1>1, <2>1, <2>2, <3>1
    <2>3. CASE s \in Entries(r, "replace")
        <3>1. /\ asked \in RowSets /\ old \in RowSets /\ ~Clashes(old, new, srv[s].rows)
              /\ ImportedServer(r, s).rows = Flushed(old, new, srv[s].rows)
            BY <2>1, <2>3, ImportedType
        <3>2. srv'[s].rows = Flushed(old, new, srv[s].rows)
            BY <2>1, <2>3, <3>1
        <3>3. /\ new \in RowSets /\ DOMAIN new = DOMAIN asked
              /\ m \in DOMAIN asked \cap DOMAIN old =>
                    new[m].pin = old[m].pin \/ (IsPinned(new[m]) /\ IsPinned(asked[m]))
            BY <3>1, RestoredType
        <3> HIDE DEF new, old, asked
        <3>4. PICK now \in RowSets : now = srv[s].rows
            BY <1>0
        <3>5. \/ srv'[s].rows[m] = srv[s].rows[m]
              \/ /\ m \in DOMAIN old \cap DOMAIN new
                 /\ srv'[s].rows[m].pin = IF new[m].pin = old[m].pin
                                          THEN srv[s].rows[m].pin ELSE new[m].pin
            BY <1>0, <3>1, <3>2, <3>3, <3>4, FlushedRow
        <3>6. \/ srv'[s].rows[m].pin = srv[s].rows[m].pin
              \/ IsPinned(srv'[s].rows[m]) /\ IsPinned(asked[m])
            BY <3>3, <3>5 DEF IsPinned
        <3> QED
            BY <1>3, <3>6 DEF PinKept, asked
    <2> QED
        BY <2>2, <2>3
<1>4. ASSUME NEW t \in Names, NEW n \in Mods,
             UnpinServerMod(t, n) \/ \E v \in Versions : PinServerMod(t, n, v)
      PROVE  PinKept(s, m)
    <2>1. CASE t = s /\ n = m
        BY <1>4, <2>1 DEF PinKept
    <2>2. CASE t # s
        BY <1>1, <1>4, <2>2, PinsKeepRows
    <2>3. CASE t = s /\ n # m
        BY <1>0, <1>4, <2>3, PinsKeepRows DEF PinKept
    <2> QED
        BY <2>1, <2>2, <2>3
<1>5. ASSUME NEW t \in Names,
             \/ \E payload \in Payloads, a \in Admins : CreateServer(t, payload, a)
             \/ \E u \in Names : CloneServer(t, u)
      PROVE  PinKept(s, m)
    BY <1>1, <1>5, NewcomerKeeps
<1>6. ASSUME NEW t \in Names, DeleteServer(t) PROVE PinKept(s, m)
    BY <1>1, <1>6 DEF DeleteServer, TypeOK
<1>7. CASE Elsewhere
    BY <1>1, <1>7, ElsewhereKeeps
<1>8. CASE UNCHANGED vars \/ \E c \in Clients : Loads(c) \/ Fails(c)
    BY <1>1, <1>8, LoadsMakeRequests DEF vars, Fails
<1> QED
    BY <1>2, <1>3, <1>4, <1>5, <1>6, <1>7, <1>8 DEF Next, Elsewhere

(* dropped_pins is computed from what was loaded, and so is what is deleted. *)
LEMMA DropsToldStep == ASSUME IInv, [Next]_vars PROVE DropsTold
<1> USE DEF IInv
<1> SUFFICES ASSUME NEW c \in Clients, FlushesMods(c), req[c].op = "apply"
             PROVE  LET r == req[c]
                        lost == PinnedIn(r.s) \ DOMAIN srv'[r.s].rows
                    IN  /\ lost \ DroppedPins(r)
                             \subseteq {m \in Mods : m \in DOMAIN r.loaded => ~IsPinned(r.loaded[m])}
                        /\ DroppedPins(r) \cap DOMAIN srv'[r.s].rows = {}
    BY DEF DropsTold
<1> DEFINE r == req[c]
<1>1. /\ r.s \in Names /\ Exists(r.s)
      /\ DOMAIN srv'[r.s].rows =
            (DOMAIN srv[r.s].rows \ (DOMAIN r.loaded \ DOMAIN r.wanted)) \cup (DOMAIN r.wanted \ DOMAIN r.loaded)
    <2>1. /\ r.s \in Names /\ Exists(r.s)
          /\ r.loaded \in RowSets /\ r.wanted \in RowSets /\ srv[r.s].rows \in RowSets
          /\ srv'[r.s].rows = Flushed(r.loaded, r.wanted, srv[r.s].rows)
        BY EditKeeps
    <2>2. PICK loaded \in RowSets, wanted \in RowSets, now \in RowSets :
             loaded = r.loaded /\ wanted = r.wanted /\ now = srv[r.s].rows
        BY <2>1
    <2>3. DOMAIN Flushed(loaded, wanted, now) =
             (DOMAIN now \ (DOMAIN loaded \ DOMAIN wanted)) \cup (DOMAIN wanted \ DOMAIN loaded)
        BY FlushedType
    <2> QED
        BY <2>1, <2>2, <2>3
<1>2. PinnedIn(r.s) \subseteq DOMAIN srv[r.s].rows /\ DOMAIN srv[r.s].rows \subseteq Mods
    BY <1>1, Stored DEF PinnedIn, Assigned
<1> QED
    BY <1>1, <1>2 DEF DroppedPins

(* What an apply or an import changes is not what runs.                     *)
LEMMA RunningKeptStep ==
    ASSUME IInv, [Next]_vars, "start" \notin Overlaps
    PROVE  RunningKept
<1> USE DEF IInv
<1> SUFFICES ASSUME NEW s \in Names, Active(s), srv'[s] # srv[s]
             PROVE  /\ srv'[s] # NoServer
                    /\ \A c \in Clients : req[c].op \in {"apply", "import"} => req'[c] = req[c]
    BY DEF RunningKept
<1>1. Exists(s) /\ proc.name = s /\ proc.phase \in {"spawned", "flagged"}
      /\ \A c \in Clients : RunsApart(req[c])
    BY DEF StartsApart, Active
<1>2. ~ \E t \in Names : DeleteServer(t)
    BY <1>1 DEF DeleteServer, TypeOK
<1>3. srv'[s] # NoServer
    BY <1>1, <1>2, RowsStep DEF Keeps, Exists
<1>4. ASSUME NEW c \in Clients, FlushesMods(c)
      PROVE  \A d \in Clients : req[d].op \in {"apply", "import"} => req'[d] = req[d]
    <2>1. req[c].op # "apply"
        BY <1>1, <1>4, EditKeeps DEF RunsApart, Flagged
    <2>2. req[c].op = "patch" /\ req' = [req EXCEPT ![c] = Idle]
        BY <1>4, <2>1 DEF FlushesMods, Ends
    <2> QED
        BY <2>2 DEF Requests
<1>5. ASSUME NEW c \in Clients, FlushesImport(c)
      PROVE  FALSE
    <2> DEFINE r == req[c]
    <2>1. /\ ~ServersClash(r) /\ r.op = "import" /\ Imports(r)
          /\ srv'[s] = IF s \in Entries(r, "create") \cup Entries(r, "replace")
                       THEN ImportedServer(r, s) ELSE srv[s]
        BY <1>5, ImportKeeps
    <2>2. s \in Entries(r, "create") \cup Entries(r, "replace")
        BY <2>1
    <2>3. s \in Entries(r, "replace")
        BY <1>1, <2>1, <2>2, ImportedType
    <2>4. r.running = s
        BY <1>1, <2>1 DEF RunsApart
    <2> QED
        BY <2>3, <2>4 DEF Entries, ServerAction
<1>6. ASSUME NEW c \in Clients, Loads(c) \/ Fails(c) PROVE FALSE
    BY <1>6, LoadsMakeRequests DEF Fails
<1>7. ASSUME NEW t \in Names,
             \/ \E payload \in Payloads, a \in Admins : CreateServer(t, payload, a)
             \/ \E u \in Names : CloneServer(t, u)
      PROVE  UNCHANGED req
    BY <1>7, NewcomerKeeps
<1>8. ASSUME NEW t \in Names, NEW n \in Mods,
             UnpinServerMod(t, n) \/ \E v \in Versions : PinServerMod(t, n, v)
      PROVE  UNCHANGED req
    BY <1>8, PinsKeepRows
<1>9. CASE Elsewhere \/ UNCHANGED vars
    BY <1>9, ElsewhereKeeps DEF vars
<1> QED
    BY <1>2, <1>3, <1>4, <1>5, <1>6, <1>7, <1>8, <1>9 DEF Next, Elsewhere

(* What a PATCH or an import writes over the rows it loaded is what it asks. *)
LEMMA FlushedWhole ==
    ASSUME NEW loaded \in RowSets, NEW wanted \in RowSets, NEW now \in RowSets,
           DOMAIN now = DOMAIN loaded
    PROVE  /\ DOMAIN Flushed(loaded, wanted, now) = DOMAIN wanted
           /\ now = loaded => Flushed(loaded, wanted, now) = wanted
<1>1. DOMAIN Flushed(loaded, wanted, now) = DOMAIN wanted
    <2>1. DOMAIN Flushed(loaded, wanted, now) =
             (DOMAIN now \ (DOMAIN loaded \ DOMAIN wanted)) \cup (DOMAIN wanted \ DOMAIN loaded)
        BY FlushedType
    <2>2. PICK here, there : here = DOMAIN loaded /\ there = DOMAIN wanted
        OBVIOUS
    <2>3. (here \ (here \ there)) \cup (there \ here) = there
        OBVIOUS
    <2> QED
        BY <2>1, <2>2, <2>3
<1>2. ASSUME now = loaded PROVE Flushed(loaded, wanted, now) = wanted
    <2>1. /\ loaded \in [DOMAIN loaded -> Rows] /\ wanted \in [DOMAIN wanted -> Rows]
          /\ Flushed(loaded, wanted, now) \in [DOMAIN wanted -> Rows]
        BY <1>1, FlushedType, RowSetsOf
    <2>2. ASSUME NEW m \in DOMAIN wanted PROVE Flushed(loaded, wanted, now)[m] = wanted[m]
        <3>1. CASE m \notin DOMAIN loaded
            BY <3>1 DEF Flushed
        <3>2. CASE m \in DOMAIN loaded
            <4>1. Flushed(loaded, wanted, now)[m] = Written(loaded[m], wanted[m], loaded[m])
                BY <1>2, <3>2 DEF Flushed
            <4>2. loaded[m] \in Rows /\ wanted[m] \in Rows
                BY <2>1, <3>2
            <4> QED
                BY <4>1, <4>2, WrittenWhole
        <3> QED
            BY <3>1, <3>2
    <2> QED
        BY <2>1, <2>2
<1> QED
    BY <1>1, <1>2

(* An import puts the pins of its document back, with their times.          *)
LEMMA RestoredPins ==
    ASSUME NEW loaded \in RowSets, NEW rows \in RowSets, NEW m \in DOMAIN rows, IsPinned(rows[m])
    PROVE  Restored(loaded, rows)[m] = rows[m]
<1>1. rows[m] \in Rows
    BY RowSetsOf
<1>2. Reconciled(loaded, [n \in DOMAIN rows |-> rows[n].pin])[m] = [pin |-> rows[m].pin, at |-> FALSE]
    BY DEF Reconciled, IsPinned
<1>3. Restored(loaded, rows)[m] =
         [[pin |-> rows[m].pin, at |-> FALSE] EXCEPT !.at = @ \/ rows[m].at]
    BY <1>2 DEF Restored
<1> HIDE DEF Rows
<1>4. PICK row \in Rows : row = rows[m]
    BY <1>1
<1>5. (FALSE \/ row.at) = row.at
    BY DEF Rows
<1>6. [[pin |-> row.pin, at |-> FALSE] EXCEPT !.at = @ \/ row.at] = [pin |-> row.pin, at |-> FALSE \/ row.at]
    OBVIOUS
<1> QED
    BY <1>3, <1>4, <1>5, <1>6 DEF Rows

(* What a PATCH or an import that commits makes of the rows.                *)
LEMMA WholeStep ==
    ASSUME IInv, [Next]_vars, "edit" \notin Overlaps
    PROVE  WholeReplaced
<1> USE DEF IInv
<1>1. ASSUME NEW c \in Clients, FlushesMods(c), req[c].op = "patch"
      PROVE  DOMAIN srv'[req[c].s].rows = DOMAIN req[c].wanted
    <2> DEFINE r == req[c]
    <2>1. /\ r.s \in Names /\ r.loaded \in RowSets /\ r.wanted \in RowSets
          /\ srv[r.s].rows \in RowSets
          /\ srv'[r.s].rows = Flushed(r.loaded, r.wanted, srv[r.s].rows)
        BY <1>1, EditKeeps
    <2>2. Needs(r, r.s) /\ LoadedOf(r, r.s) = r.loaded
        BY <1>1 DEF Needs, LoadedOf
    <2>3. DOMAIN srv[r.s].rows = DOMAIN r.loaded
        BY <2>1, <2>2 DEF EditsApart, Fresh
    <2>4. PICK loaded \in RowSets, wanted \in RowSets, now \in RowSets :
             loaded = r.loaded /\ wanted = r.wanted /\ now = srv[r.s].rows
        BY <2>1
    <2> QED
        BY <2>1, <2>3, <2>4, FlushedWhole
<1>2. ASSUME NEW c \in Clients, FlushesImport(c),
             NEW s \in Entries(req[c], "create") \cup Entries(req[c], "replace")
      PROVE  /\ DOMAIN srv'[s].rows = DOMAIN req[c].body.servers[s].rows
             /\ srv[s] = req[c].loaded[s] =>
                  \A m \in DOMAIN req[c].body.servers[s].rows :
                     IsPinned(req[c].body.servers[s].rows[m]) =>
                        srv'[s].rows[m] = req[c].body.servers[s].rows[m]
    <2> DEFINE r == req[c]
    <2>1. /\ r.op = "import" /\ Imports(r) /\ ~ServersClash(r)
          /\ s \in Names /\ srv'[s] = ImportedServer(r, s)
        BY <1>2, ImportKeeps, ImportedType
    <2>2. PICK asked : asked = r.body.servers[s].rows
        OBVIOUS
    <2>3. asked \in RowSets
        <3>1. s \in DOMAIN r.body.servers /\ r.body \in Documents
            BY <2>1 DEF Entries, Imports
        <3> QED
            BY <2>2, <3>1 DEF Documents, Defs
    <2>4. CASE s \in Entries(r, "create")
        <3>1. srv'[s].rows = Restored(<<>>, asked)
            BY <2>1, <2>2, <2>4 DEF ImportedServer
        <3>2. PICK none \in RowSets : none = <<>>
            BY NoRows
        <3>3. DOMAIN Restored(none, asked) = DOMAIN asked
            BY <2>3, RestoredType
        <3>4. \A m \in DOMAIN asked : IsPinned(asked[m]) => Restored(none, asked)[m] = asked[m]
            BY <2>3, RestoredPins
        <3> QED
            BY <2>2, <3>1, <3>2, <3>3, <3>4
    <2>5. CASE s \in Entries(r, "replace")
        <3>1. PICK old, now : old = r.loaded[s].rows /\ now = srv[s].rows
            OBVIOUS
        <3>2. /\ old \in RowSets /\ now \in RowSets
              /\ srv'[s].rows = Flushed(old, Restored(old, asked), now)
            BY <2>1, <2>2, <2>5, <3>1, ImportedType
        <3>3. DOMAIN now = DOMAIN old
            <4>1. Needs(r, s) /\ LoadedOf(r, s) = old
                BY <2>1, <2>5, <3>1 DEF Needs, LoadedOf
            <4> QED
                BY <2>1, <3>1, <4>1 DEF EditsApart, Fresh
        <3>4. Restored(old, asked) \in RowSets /\ DOMAIN Restored(old, asked) = DOMAIN asked
            BY <2>3, <3>2, RestoredType
        <3>5. /\ DOMAIN srv'[s].rows = DOMAIN asked
              /\ now = old => srv'[s].rows = Restored(old, asked)
            BY <3>2, <3>3, <3>4, FlushedWhole
        <3> QED
            BY <2>2, <2>3, <3>1, <3>2, <3>5, RestoredPins
    <2> QED
        BY <2>4, <2>5
<1> QED
    BY <1>1, <1>2 DEF WholeReplaced

(* No PATCH, apply, import or clone takes or changes a pin that was not      *)
(* named in it, however the requests overlap.                               *)
THEOREM PinsLast == Spec => PinsSurvive
<1>1. IInv /\ [Next]_vars => [PinsKept]_vars
    BY PinsKeptStep
<1> QED
    BY <1>1, Inductive, PTL DEF Spec, PinsSurvive

(* The answer of an apply names every pin it took that it could know of.    *)
THEOREM DropsAreReported == Spec => DropsAreTold
<1>1. IInv /\ [Next]_vars => [DropsTold]_vars
    BY DropsToldStep
<1> QED
    BY <1>1, Inductive, PTL DEF Spec, DropsAreTold

(* As long as no server starts inside an apply, an import or a delete, none *)
(* of them changes the definition of a running one.                         *)
THEOREM RunningIsLeftAlone == ASSUME "start" \notin Overlaps PROVE Spec => RunningUntouched
<1>1. IInv /\ [Next]_vars => [RunningKept]_vars
    BY RunningKeptStep
<1> QED
    BY <1>1, Inductive, PTL DEF Spec, RunningUntouched

(* As long as no two edits of one definition wait at once, a PATCH or an    *)
(* import that commits leaves the mods and the pins it was asked for,       *)
(* whatever is pinned, cloned, created, deleted or started meanwhile.       *)
THEOREM EditsAreWhole == ASSUME "edit" \notin Overlaps PROVE Spec => ReplaceIsWhole
<1>1. IInv /\ [Next]_vars => [WholeReplaced]_vars
    BY WholeStep
<1> QED
    BY <1>1, Inductive, PTL DEF Spec, ReplaceIsWhole
=============================================================================
