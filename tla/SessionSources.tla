--------------------------- MODULE SessionSources ---------------------------
(***************************************************************************)
(* The data sources of one session.  A source is listed in the manifest and *)
(* has a cell in the notebook; an uploaded file has besides a blob in       *)
(* PostgreSQL, a Parquet file and a table of the session's DuckDB database. *)
(* The last two are temporary: the runtime directory expires, the disk may  *)
(* be replaced, and a query rebuilds what is missing.  The routes run on    *)
(* threads: a query may be anywhere while a source is added or removed.     *)
(***************************************************************************)
EXTENDS Naturals, FiniteSets

CONSTANTS
    Uploads,     \* uploads of one file each
    Links,       \* database connections that are bound as sources
    NameOf,      \* NameOf[u] is the file name of an upload
    None,
    MaxAtOnce,   \* bound on the changes that are in progress at a time
    MaxEvents    \* bound on the additions, the removals, the calls that raise
                 \* and the crashes, together

ASSUME SourcesAssumption ==
    /\ IsFiniteSet(Uploads) /\ Uploads \intersect Links = {}
    /\ None \notin Uploads \union Links
    /\ MaxAtOnce \in Nat /\ MaxEvents \in Nat

VARIABLES
    manifest,    \* the listed sources
    cells,       \* the sources with a source_binding cell
    blobs,       \* the uploads kept in PostgreSQL
    tableOf,     \* the table name given to an upload
    parquet,     \* whose rows a Parquet file holds, by table name
    dir,         \* the runtime directory: its age, database, tables, meta names
    sess,        \* what the session state says of its data
    pc,          \* where the addition or removal of a source is
    copy,        \* what it has read: manifest, notebook, table names, session type
    past,        \* history: see Crossed, Left and Dropped
    query,       \* the request that uses the runtime: where it is, what it read
    events       \* how many changes were begun, calls raised and processes died

stores == <<manifest, cells, blobs, tableOf, parquet>>
calls  == <<pc, copy, past>>
vars   == <<stores, dir, sess, calls, query, events>>

Sources == Uploads \union Links
Namesakes(u) == { x \in Uploads : NameOf[x] = NameOf[u] }
Tables  == UNION { {NameOf[u]} \X (1..Cardinality(Namesakes(u))) : u \in Uploads }
NoRows  == [t \in Tables |-> None]

-----------------------------------------------------------------------------
(* The runtime directory                                                    *)

\* "undated": a meta file written by unregister_tables alone never expires.
Ages  == {"absent", "undated", "fresh", "old"}
NoDir == [age |-> "absent", db |-> FALSE, rows |-> NoRows, names |-> {}]

\* cleanup_expired_sessions, which every other call runs first.
Cleaned(d) == IF d.age = "old" THEN NoDir ELSE d

\* _touch_session.
Touched(d) == [d EXCEPT !.age = "fresh"]

\* CREATE OR REPLACE TABLE for each t of ts, then the meta file.
Registered(d, ts, rows) ==
    [Touched(Cleaned(d)) EXCEPT
        !.db    = TRUE,
        !.rows  = [t \in Tables |-> IF t \in ts THEN rows[t] ELSE @[t]],
        !.names = @ \union ts]

Unregistered(d, ts) ==
    [d EXCEPT
        !.age   = IF @ = "absent" /\ ts # {} THEN "undated" ELSE @,
        !.rows  = [t \in Tables |-> IF t \in ts THEN None ELSE @[t]],
        !.names = @ \ ts]

\* unique_table_name: the first number that is free in the meta file.
UniqueTable(u, taken) ==
    CHOOSE t \in Tables :
        /\ t[1] = NameOf[u] /\ t \notin taken
        /\ \A n \in 1..(t[2] - 1) : <<t[1], n>> \in taken

-----------------------------------------------------------------------------
(* The session state                                                        *)

NoData(type) == [type |-> type, df |-> None, loaded |-> FALSE, lapsed |-> FALSE, names |-> {}]

\* set_csv_runtime_state with a new expiry.
Load(names) == sess' = [sess EXCEPT !.loaded = TRUE, !.lapsed = FALSE, !.names = names]

\* _is_runtime_valid.
RuntimeValidForEver == sess.loaded /\ dir.db
RuntimeValid == sess.loaded /\ dir.db /\ ~sess.lapsed

-----------------------------------------------------------------------------
(* Adding and removing sources                                              *)

Resting == {"new", "listed", "gone", "failed", "stuck", "dead"}

Quiet == \A s \in Sources : pc[s] \in Resting
Event       == events < MaxEvents /\ events' = events + 1
BeginChange == Event /\ Cardinality({ s \in Sources : pc[s] \notin Resting }) < MaxAtOnce
Fault       == Event

Goto(s, where) == pc' = [pc EXCEPT ![s] = where]

NothingRead == [sources |-> {}, cells |-> {}, names |-> {}, type |-> "none"]
Forget(s)   == copy' = [copy EXCEPT ![s] = NothingRead]
Idle        == [at |-> "idle", rows |-> NoRows, names |-> {}]

\* From reading the manifest to writing it and the notebook back, a change goes by
\* what it read.  The routes run on threads and the stores lock single loads and
\* saves: nothing keeps two changes of one session apart, and of two that cross
\* one overwrites the other.
Holding    == {"read", "saved", "noted", "refused", "removing", "unlisted", "erasing"}
Holders(s) == { q \in Sources \ {s} : pc[q] \in Holding }

\* What happened to a source: its change crossed another; its roll-back left the
\* entry or the blob behind; its table or its blob was deleted, and no rebuild
\* has found it listed, with its blob, since.
Crossed(s)    == s \in past.crossed
Left(u, what) == <<u, what>> \in past.left
Dropped(u)    == u \in past.dropped

Cross(s)     == [past EXCEPT !.crossed = IF Holders(s) = {} THEN @ ELSE @ \union Holders(s) \union {s}]
Leave(u, w)  == [past EXCEPT !.left = @ \union {<<u, w>>}]
Drop(us)     == [past EXCEPT !.dropped = @ \union us]

Init ==
    /\ manifest = {} /\ cells = {} /\ blobs = {}
    /\ tableOf = [u \in Uploads |-> None]
    /\ parquet = NoRows
    /\ dir = NoDir
    /\ sess = NoData("none")
    /\ pc = [s \in Sources |-> "new"]
    /\ copy = [s \in Sources |-> NothingRead]
    /\ past = [crossed |-> {}, left |-> {}, dropped |-> {}]
    /\ query = Idle
    /\ events = 0

\* _parse_files names the table after the names in the meta file; put_many.
ParseUpload(u) ==
    /\ pc[u] = "new" /\ BeginChange
    /\ LET d == Touched(Cleaned(dir)) IN
         /\ dir' = d
         /\ tableOf' = [tableOf EXCEPT ![u] = UniqueTable(u, d.names)]
    /\ blobs' = blobs \union {u}
    /\ Goto(u, "parsed")
    /\ UNCHANGED <<manifest, cells, parquet, sess, copy, past, query>>

\* register_dataframes; if it raises, only the blob is deleted.
RegisterUpload(u) ==
    /\ pc[u] = "parsed"
    /\ \/ LET d == Registered(dir, {tableOf[u]}, [t \in Tables |-> u]) IN
            /\ dir' = d
            /\ copy' = [copy EXCEPT ![u].names = d.names]
            /\ Goto(u, "registered")
            /\ UNCHANGED events
       \/ Fault /\ Goto(u, "dropping") /\ UNCHANGED <<dir, copy>>
    /\ UNCHANGED <<stores, sess, past, query>>

\* bind_session_db_connection_source, or OpenProject after its sync: the
\* session state first.
Connect(l) ==
    /\ pc[l] = "new" /\ BeginChange
    /\ sess' = [sess EXCEPT !.type = l]
    /\ Goto(l, "registered")
    /\ UNCHANGED <<stores, dir, copy, past, query>>

\* The manifest is read; _persist_sources also writes the Parquet file.  What
\* raises here is not rolled back but for the table and the blob of an upload.
ReadManifest(s) ==
    LET written == [parquet EXCEPT ![tableOf[s]] = s] IN
    /\ pc[s] = "registered"
    /\ \/ /\ copy' = [copy EXCEPT ![s].sources = manifest]
          /\ parquet' = IF s \in Uploads THEN written ELSE parquet
          /\ Goto(s, "read")
          /\ past' = Cross(s)
          /\ UNCHANGED events
       \/ /\ Fault
          /\ parquet' \in IF s \in Uploads THEN {parquet, written} ELSE {parquet}
          /\ Goto(s, IF s \in Uploads THEN "withdrawn" ELSE "failed") /\ Forget(s)
          /\ UNCHANGED past
    /\ UNCHANGED <<manifest, cells, blobs, tableOf, dir, sess, query>>

\* The whole manifest is written back, or the save raises.
SaveManifest(s) ==
    /\ pc[s] = "read"
    /\ \/ /\ manifest' = copy[s].sources \union {s}
          /\ Goto(s, "saved")
          /\ UNCHANGED events
       \/ /\ Fault
          /\ Goto(s, IF s \in Uploads THEN "refused" ELSE "failed")
          /\ UNCHANGED manifest
    /\ UNCHANGED <<cells, blobs, tableOf, parquet, dir, sess, copy, past, query>>

\* The notebook is read, and written back with or without the cell.
ReadNotebook(s) ==
    /\ pc[s] \in {"saved", "unlisted"}
    /\ copy' = [copy EXCEPT ![s].cells = cells]
    /\ Goto(s, IF pc[s] = "saved" THEN "noted" ELSE "erasing")
    /\ UNCHANGED <<stores, dir, sess, past, query, events>>

InsertCell(s) ==
    /\ pc[s] = "noted"
    /\ cells' = copy[s].cells \union {s}
    /\ copy' = [copy EXCEPT ![s] = [NothingRead EXCEPT !.names = copy[s].names]]
    /\ Goto(s, IF s \in Uploads THEN "bound" ELSE "listed")
    /\ UNCHANGED <<manifest, blobs, tableOf, parquet, dir, sess, past, query, events>>

\* The notebook refuses the cell or raises: an upload is rolled back, a link
\* stays listed.
RefuseCell(s) ==
    /\ pc[s] = "noted"
    /\ Fault
    /\ Goto(s, IF s \in Uploads THEN "refused" ELSE "listed")
    /\ UNCHANGED <<stores, dir, sess, copy, past, query>>

\* The except clause of _persist_sources: the manifest is put back, and whatever
\* goes wrong with that is suppressed; the Parquet file is unlinked.
RestoreShared(u) == manifest' = copy[u].sources \union {u} /\ UNCHANGED <<past, events>>
Restore(u) ==
    \/ manifest' = copy[u].sources /\ UNCHANGED <<past, events>>
    \/ Fault /\ past' = Leave(u, "entry") /\ UNCHANGED manifest

RollBack(u) ==
    /\ pc[u] = "refused"
    /\ Restore(u)
    /\ parquet' = [parquet EXCEPT ![tableOf[u]] = None]
    /\ Goto(u, "withdrawn") /\ Forget(u)
    /\ UNCHANGED <<cells, blobs, tableOf, dir, sess, query>>

\* The except clause of ingest_files: the table is dropped, whatever goes wrong
\* with that is suppressed; the deletion of the blob may raise.
Withdraw(u) ==
    /\ pc[u] = "withdrawn"
    /\ \/ /\ dir' = Unregistered(dir, {tableOf[u]})
          /\ past' = Drop({u})
          /\ UNCHANGED events
       \/ Fault /\ UNCHANGED <<dir, past>>
    /\ Goto(u, "dropping")
    /\ UNCHANGED <<stores, sess, copy, query>>

DropUpload(u) ==
    /\ pc[u] = "dropping"
    /\ \/ blobs' = blobs \ {u} /\ past' = Drop({u}) /\ UNCHANGED events
       \/ Fault /\ past' = Leave(u, "blob") /\ UNCHANGED blobs
    /\ Goto(u, "failed")
    /\ UNCHANGED <<manifest, cells, tableOf, parquet, dir, sess, copy, query>>

\* save_dataframe and bind_csv_source, then set_csv_runtime_state: the first that
\* raises leaves the source listed and ends the request.
FinishUpload(u) ==
    LET framed == [sess EXCEPT !.df = u] IN
    /\ \/ /\ pc[u] = "bound"
          /\ sess' = [framed EXCEPT !.type = "csv"]
          /\ Goto(u, "typed") /\ UNCHANGED <<copy, events>>
       \/ /\ pc[u] = "bound" /\ Fault
          /\ sess' \in {sess, framed}
          /\ Goto(u, "listed") /\ Forget(u)
       \/ /\ pc[u] = "typed"
          /\ Load(copy[u].names)
          /\ Goto(u, "listed") /\ Forget(u) /\ UNCHANGED events
       \/ /\ pc[u] = "typed" /\ Fault
          /\ Goto(u, "listed") /\ Forget(u) /\ UNCHANGED sess
    /\ UNCHANGED <<stores, dir, past, query>>

\* remove_source reads the manifest, drops the table and unlinks the file.
BeginRemoval(s) ==
    /\ pc[s] \in Resting /\ s \in manifest /\ BeginChange
    /\ copy' = [copy EXCEPT ![s].sources = manifest]
    /\ IF s \in Uploads
         THEN /\ dir' = Unregistered(dir, {tableOf[s]})
              /\ parquet' = [parquet EXCEPT ![tableOf[s]] = None]
              /\ past' = [Cross(s) EXCEPT !.dropped = @ \union {s}]
         ELSE past' = Cross(s) /\ UNCHANGED <<dir, parquet>>
    /\ Goto(s, "removing")
    /\ UNCHANGED <<manifest, cells, blobs, tableOf, sess, query>>

Unlist(s) ==
    /\ pc[s] = "removing"
    /\ manifest' = copy[s].sources \ {s}
    /\ Goto(s, "unlisted") /\ Forget(s)
    /\ UNCHANGED <<cells, blobs, tableOf, parquet, dir, sess, past, query, events>>

\* _remove_notebook_binding.
RemoveCell(s) ==
    /\ pc[s] = "erasing"
    /\ cells' = copy[s].cells \ {s}
    /\ Goto(s, "unbound") /\ Forget(s)
    /\ UNCHANGED <<manifest, blobs, tableOf, parquet, dir, sess, past, query, events>>

\* Whichever call of it raises, a removal ends there.
GiveUp(s) ==
    /\ pc[s] \in {"removing", "unlisted", "erasing", "unbound", "syncing", "synced"}
    /\ Fault
    /\ Goto(s, "stuck") /\ Forget(s)
    /\ UNCHANGED <<stores, dir, sess, past, query>>

\* _sync_session_state_after_removal reads the state and the manifest, then
\* writes by what it read: without an upload in the manifest it drops every table
\* it knew of, that of an upload which is not listed yet among them.
ReadState(s) ==
    /\ pc[s] = "unbound"
    /\ copy' = [copy EXCEPT ![s] = [sources |-> manifest, cells |-> {}, names |-> sess.names,
                                    type |-> sess.type]]
    /\ Goto(s, "syncing")
    /\ UNCHANGED <<stores, dir, sess, past, query, events>>

SyncState(s) ==
    LET rest == copy[s].sources \intersect Uploads IN
    /\ pc[s] = "syncing"
    /\ \/ /\ s \in Links
          /\ sess' = IF copy[s].type = s THEN [sess EXCEPT !.type = "none"] ELSE sess
          /\ UNCHANGED <<dir, past>>
       \/ /\ s \in Uploads /\ rest # {}
          /\ dir' = Touched(Cleaned(dir))
          /\ \E df \in { r \in rest : parquet[tableOf[r]] # None } \union {sess.df} :
               sess' = [type |-> IF copy[s].type = "csv" THEN "csv" ELSE sess.type, df |-> df,
                        loaded |-> TRUE, lapsed |-> FALSE, names |-> { tableOf[r] : r \in rest }]
          /\ UNCHANGED past
       \/ /\ s \in Uploads /\ rest = {}
          /\ dir' = Unregistered(dir, copy[s].names)
          /\ sess' = NoData(IF copy[s].type = "csv" THEN "none" ELSE sess.type)
          /\ past' = Drop({ u \in Uploads : tableOf[u] \in copy[s].names })
    /\ Goto(s, "synced") /\ Forget(s)
    /\ UNCHANGED <<stores, query, events>>

\* _remove_persistent_blobs.
DropBlob(s) ==
    /\ pc[s] = "synced"
    /\ blobs' = blobs \ {s}
    /\ past' = Drop({s} \intersect Uploads)
    /\ Goto(s, "gone")
    /\ UNCHANGED <<manifest, cells, tableOf, parquet, dir, sess, copy, query, events>>

\* clear_session_source leaves the manifest and the runtime alone.
ClearSource ==
    /\ sess.type # "none"
    /\ sess' = [sess EXCEPT !.type = "none"]
    /\ UNCHANGED <<stores, dir, calls, query, events>>

-----------------------------------------------------------------------------
(* Queries                                                                  *)

\* A request over CSV sources, or bind_session_csv_source, which makes the
\* session one again if a dataset is attached.
Ask ==
    /\ query.at = "idle"
    /\ \/ sess.type = "csv" /\ UNCHANGED sess
       \/ sess.df # None /\ sess' = [sess EXCEPT !.type = "csv"]
    /\ query' = [query EXCEPT !.at = "ensuring"]
    /\ UNCHANGED <<stores, dir, calls, events>>

\* _load_manifest_tables: the Parquet file of a listed upload, else its blob,
\* whose rows are written to the file again.
LoadableFiles == { u \in manifest \intersect Uploads : parquet[tableOf[u]] # None }
Loadable == { u \in manifest \intersect Uploads : parquet[tableOf[u]] # None \/ u \in blobs }
RowsOf(u) == IF parquet[tableOf[u]] # None THEN parquet[tableOf[u]] ELSE u

Ensured ==
    /\ query.at = "ensuring" /\ RuntimeValid
    /\ query' = [query EXCEPT !.at = "running"]
    /\ UNCHANGED <<stores, dir, sess, calls, events>>

\* (Two uploads that share a table are loaded side by side, under another number;
\* here one of the two is.)
LoadTables ==
    /\ query.at = "ensuring" /\ ~RuntimeValid /\ Loadable # {}
    /\ \E rows \in [Tables -> Uploads \union {None}] :
         /\ \A t \in Tables :
              LET found == { RowsOf(u) : u \in { x \in Loadable : tableOf[x] = t } }
              IN  rows[t] \in IF found = {} THEN {None} ELSE found
         /\ parquet' = [t \in Tables |-> IF rows[t] # None THEN rows[t] ELSE parquet[t]]
         /\ query' = [query EXCEPT !.at = "loaded", !.rows = rows]
    /\ past' = [past EXCEPT !.dropped = @ \ (manifest \intersect blobs)]
    /\ UNCHANGED <<manifest, cells, blobs, tableOf, dir, sess, pc, copy, events>>

\* _load_legacy_table, or the request is refused.
LoadLegacy ==
    /\ query.at = "ensuring" /\ ~RuntimeValid /\ Loadable = {}
    /\ query' = IF sess.df # None
                  THEN [query EXCEPT !.at = "loaded",
                                     !.rows = [NoRows EXCEPT ![<<NameOf[sess.df], 1>>] = sess.df]]
                  ELSE [query EXCEPT !.at = "idle"]
    /\ UNCHANGED <<stores, dir, sess, calls, events>>

Rebuild ==
    /\ query.at = "loaded"
    /\ dir' = Registered(dir, { t \in Tables : query.rows[t] # None }, query.rows)
    /\ query' = [Idle EXCEPT !.at = "rebuilt", !.names = dir'.names]
    /\ UNCHANGED <<stores, sess, calls, events>>

Adopt ==
    /\ query.at = "rebuilt"
    /\ Load(query.names)
    /\ query' = [Idle EXCEPT !.at = "running"]
    /\ UNCHANGED <<stores, dir, calls, events>>

\* query_dataframe cleans up and touches the session without the lock: the
\* meta file is read, then written.
TouchReads ==
    /\ query.at = "running"
    /\ dir' = Cleaned(dir)
    /\ query' = [query EXCEPT !.at = "touching", !.names = dir'.names]
    /\ UNCHANGED <<stores, sess, calls, events>>

TouchWrites ==
    /\ query.at = "touching"
    /\ dir' = [Touched(dir) EXCEPT !.names = query.names]
    /\ query' = [Idle EXCEPT !.at = "running"]
    /\ UNCHANGED <<stores, sess, calls, events>>

EndQuery ==
    /\ query.at = "running"
    /\ query' = Idle
    /\ UNCHANGED <<stores, dir, sess, calls, events>>

-----------------------------------------------------------------------------
(* Time and failures.  A TTL is hours, a change of the sources or a call of *)
(* the runtime seconds: none of them is in progress while one runs out.     *)

Unhurried == Quiet /\ query.at \in {"idle", "running"}

\* csv_expires_at is less than a minute away.
Lapse ==
    /\ Unhurried /\ sess.loaded /\ ~sess.lapsed
    /\ sess' = [sess EXCEPT !.lapsed = TRUE]
    /\ UNCHANGED <<stores, dir, calls, query, events>>

\* Queries touch the directory but not the state: it expires after the state.
Age ==
    /\ Unhurried /\ dir.age = "fresh" /\ (sess.loaded => sess.lapsed)
    /\ dir' = [dir EXCEPT !.age = "old"]
    /\ UNCHANGED <<stores, sess, calls, query, events>>

\* A call for any other session cleans up.
Sweep ==
    /\ dir.age = "old"
    /\ dir' = NoDir
    /\ UNCHANGED <<stores, sess, calls, query, events>>

\* The process dies, perhaps with its disk.
Crash ==
    /\ Fault
    /\ pc' = [s \in Sources |-> IF pc[s] \in Resting THEN pc[s] ELSE "dead"]
    /\ copy' = [s \in Sources |-> NothingRead]
    /\ query' = Idle
    /\ \/ UNCHANGED <<dir, parquet, sess>>
       \/ dir' = NoDir /\ parquet' = NoRows /\ sess' = [sess EXCEPT !.df = None]
    /\ UNCHANGED <<manifest, cells, blobs, tableOf, past>>

-----------------------------------------------------------------------------

Add(s) ==
    \/ s \in Uploads /\ (ParseUpload(s) \/ RegisterUpload(s) \/ FinishUpload(s))
    \/ s \in Uploads /\ (RollBack(s) \/ Withdraw(s) \/ DropUpload(s))
    \/ s \in Links /\ Connect(s)
    \/ ReadManifest(s) \/ SaveManifest(s) \/ InsertCell(s) \/ RefuseCell(s)

Remove(s) ==
    \/ BeginRemoval(s) \/ Unlist(s) \/ RemoveCell(s) \/ ReadState(s) \/ SyncState(s)
    \/ DropBlob(s) \/ GiveUp(s)

Change(s) == Add(s) \/ Remove(s) \/ ReadNotebook(s)

Ensure == Ensured \/ LoadTables \/ LoadLegacy \/ Rebuild \/ Adopt

Next ==
    \/ \E s \in Sources : Change(s)
    \/ ClearSource \/ Ask \/ Ensure \/ TouchReads \/ TouchWrites \/ EndQuery
    \/ Lapse \/ Age \/ Sweep \/ Crash

\* A change that was begun goes on, a request is worked on, time passes.
\* Nothing is assumed of users: they may stop asking and changing.
Fairness ==
    /\ \A s \in Sources : WF_vars(Change(s) /\ pc[s] \notin Resting)
    /\ WF_vars(Ensure \/ TouchWrites \/ EndQuery)
    /\ SF_vars(Lapse)

Spec     == Init /\ [][Next]_vars
FairSpec == Spec /\ Fairness

-----------------------------------------------------------------------------
(* Properties                                                               *)

TypeOK ==
    /\ manifest \subseteq Sources /\ cells \subseteq Sources /\ blobs \subseteq Uploads
    /\ tableOf \in [Uploads -> Tables \union {None}]
    /\ parquet \in [Tables -> Uploads \union {None}]
    /\ dir \in [age: Ages, db: BOOLEAN, rows: [Tables -> Uploads \union {None}],
                names: SUBSET Tables]
    /\ sess \in [type: {"none", "csv"} \union Links, df: Uploads \union {None},
                 loaded: BOOLEAN, lapsed: BOOLEAN, names: SUBSET Tables]
    /\ pc \in [Sources -> Resting \union
                         {"parsed", "registered", "read", "saved", "noted", "bound", "typed",
                          "refused", "withdrawn", "dropping",
                          "removing", "unlisted", "erasing", "unbound", "syncing", "synced"}]
    /\ copy \in [Sources -> [sources: SUBSET Sources, cells: SUBSET Sources,
                          names: SUBSET Tables, type: {"none", "csv"} \union Links]]
    /\ past \in [crossed: SUBSET Sources, left: SUBSET (Uploads \X {"entry", "blob"}),
                 dropped: SUBSET Uploads]
    /\ query \in [at: {"idle", "ensuring", "loaded", "rebuilt", "running", "touching"},
                  rows: [Tables -> Uploads \union {None}], names: SUBSET Tables]
    /\ events \in 0..MaxEvents

\* TECHNICAL.md:145: the temporary DuckDB tables and Parquet files can be
\* restored from PostgreSQL.  A listed upload keeps its blob through failing
\* changes, crashes and lost disks: it is written first and deleted last.  Only an
\* upload that failed and whose entry could not be taken back is listed without,
\* and one whose own change crossed another, which may bring its entry back.
ListedIsDurable ==
    \A u \in manifest \intersect Uploads : u \in blobs \/ Left(u, "entry") \/ Crossed(u)

\* An upload that fails, and a source whose removal is confirmed, leave nothing
\* that lasts: no entry, no cell, no blob, although the entry and the cell had
\* been written and have to be taken back one after the other.  A failed upload
\* keeps no more than the very thing its roll-back failed to take back.  The
\* changes of other sources may cross one another and fail as they please.
ChangesSettle ==
    \A s \in Sources : (pc[s] = "gone" \/ (s \in Uploads /\ pc[s] = "failed")) /\ ~Crossed(s) =>
        /\ s \notin cells
        /\ s \in manifest => pc[s] = "failed" /\ Left(s, "entry")
        /\ s \in blobs => pc[s] = "failed" /\ Left(s, "blob")

\* Both: a source is there with all it needs or not at all.
ListingsHold == ListedIsDurable /\ ChangesSettle

\* A runtime that was rebuilt answers for every listed upload, whatever was added,
\* removed or rolled back between reading the manifest and creating the tables:
\* all but an upload whose table or blob was deleted since a rebuild last found
\* it, and one whose change crossed another.  (A query that writes the meta file back may
\* drop a name from it, and a later upload of the same file name is then given
\* the same table: nothing is promised to the two of them.)
Alone(u) == \A v \in Uploads \ {u} : pc[v] # "new" => tableOf[v] # tableOf[u]
RebuildIsComplete ==
    [][Rebuild => \A u \in manifest \intersect Uploads :
                    Alone(u) /\ ~Dropped(u) /\ ~Crossed(u) => dir'.rows[tableOf[u]] # None]_vars

\* While somebody keeps asking, a listed upload whose table went with an
\* expired directory or a lost disk can be queried again in the end.
ListedComesBack ==
    []<><<Ask>>_vars =>
        []<>(\A u \in manifest \intersect Uploads :
                Left(u, "entry") \/ Crossed(u) \/ dir.rows[tableOf[u]] # None)

=============================================================================
