------------------------ MODULE SessionSourcesProofs -------------------------
(***************************************************************************)
(* Theorems about SessionSources, for any sources, failing calls and        *)
(* crashes; and about PlanfactTables, for any files.                        *)
(***************************************************************************)
EXTENDS SessionSources, PlanfactTables, FiniteSetTheorems, WellFoundedInduction, TLAPS

Working == {"parsed", "registered", "read", "saved", "noted", "bound", "typed",
            "refused", "withdrawn", "dropping",
            "removing", "unlisted", "erasing", "unbound", "syncing", "synced"}

-----------------------------------------------------------------------------
(* Types and table numbers, whatever the changes do                         *)

Rows == [Tables -> Uploads \union {None}]
Dirs == [age: Ages, db: BOOLEAN, rows: Rows, names: SUBSET Tables]
Copies == [sources: SUBSET Sources, cells: SUBSET Sources, names: SUBSET Tables,
           type: {"none", "csv"} \union Links]
Pasts == [crossed: SUBSET Sources, left: SUBSET (Uploads \X {"entry", "blob"}),
          dropped: SUBSET Uploads]

\* The uploads of a file name that have been given a table.  The numbers in use
\* do not exceed theirs, so that one is free for the next upload.
Given(where, f)      == { x \in Uploads : NameOf[x] = f /\ where[x] # "new" }
Numbers(where, used) == \A t \in used : t[2] <= Cardinality(Given(where, t[1]))

Numbered ==
    /\ Numbers(pc, dir.names) /\ Numbers(pc, query.names)
    /\ Numbers(pc, { t \in Tables : query.rows[t] # None })
    /\ \A u \in Uploads : pc[u] # "new" => tableOf[u] \in Tables /\ Numbers(pc, {tableOf[u]})
    /\ sess.df # None => pc[sess.df] # "new"

\* Nobody has heard of an upload that was not begun.
Unheard(u) == u \notin manifest /\ \A s \in Sources : u \notin copy[s].sources
Heard      == \A u \in Uploads : pc[u] = "new" => Unheard(u)

TypesInv == TypeOK /\ Numbered /\ Heard

\* The operators of the runtime directory.
LEMMA CleanedDir ==
    ASSUME NEW d \in Dirs
    PROVE  /\ NoDir \in Dirs /\ Cleaned(d) \in Dirs /\ Cleaned(d).names \subseteq d.names
           /\ Cleaned(d).age # "old" /\ (d.age # "old" => Cleaned(d) = d)
           /\ NoRows \in Rows
  BY DEF Dirs, Rows, Cleaned, NoDir, NoRows, Ages

LEMMA TouchedDir ==
    ASSUME NEW d \in Dirs
    PROVE  Touched(d) = [age |-> "fresh", db |-> d.db, rows |-> d.rows, names |-> d.names]
  BY DEF Dirs, Touched

LEMMA RegisteredDir ==
    ASSUME NEW d \in Dirs, NEW ts \in SUBSET Tables, NEW rows \in Rows
    PROVE  /\ Registered(d, ts, rows) \in Dirs
           /\ Registered(d, ts, rows).age = "fresh"
           /\ Registered(d, ts, rows).names \subseteq d.names \union ts
           /\ \A t \in ts : Registered(d, ts, rows).rows[t] = rows[t]
           /\ \A t \in Tables \ ts : Registered(d, ts, rows).rows[t] = Cleaned(d).rows[t]
  <1> DEFINE c == Cleaned(d)
             new == [t \in Tables |-> IF t \in ts THEN rows[t] ELSE c.rows[t]]
  <1>1. c \in Dirs /\ c.names \subseteq d.names
    BY CleanedDir
  <1>2. Touched(c) = [age |-> "fresh", db |-> c.db, rows |-> c.rows, names |-> c.names]
    BY <1>1, TouchedDir
  <1>3. Registered(d, ts, rows) =
            [age |-> "fresh", db |-> TRUE, rows |-> new, names |-> c.names \union ts]
    <2> DEFINE e == Touched(c)
               rs == [t \in Tables |-> IF t \in ts THEN rows[t] ELSE e.rows[t]]
               ns == e.names \union ts
    <2>1. Registered(d, ts, rows) = [e EXCEPT !.db = TRUE, !.rows = rs, !.names = ns]
      BY DEF Registered
    <2>2. rs = new /\ ns = c.names \union ts
      BY <1>2
    <2>3. e \in Dirs /\ e.age = "fresh"
      BY <1>1, <1>2 DEF Dirs, Ages
    <2> HIDE DEF c, e, rs, ns, new
    <2> QED
      BY <2>1, <2>2, <2>3 DEF Dirs
  <1>4. new \in Rows /\ \A t \in Tables : new[t] = IF t \in ts THEN rows[t] ELSE c.rows[t]
    <2> HIDE DEF c
    <2> QED
      BY <1>1 DEF Rows, Dirs
  <1>5. "fresh" \in Ages
    BY DEF Ages
  <1> HIDE DEF c, new
  <1> QED
    BY <1>1, <1>3, <1>4, <1>5 DEF Dirs, c

LEMMA UnregisteredDir ==
    ASSUME NEW d \in Dirs, NEW ts
    PROVE  /\ Unregistered(d, ts) \in Dirs
           /\ Unregistered(d, ts).age = "old" => d.age = "old"
           /\ Unregistered(d, ts).names \subseteq d.names
           /\ \A t \in Tables : Unregistered(d, ts).rows[t] = IF t \in ts THEN None ELSE d.rows[t]
  <1> DEFINE age == IF d.age = "absent" /\ ts # {} THEN "undated" ELSE d.age
             new == [t \in Tables |-> IF t \in ts THEN None ELSE d.rows[t]]
  <1>1. Unregistered(d, ts) = [age |-> age, db |-> d.db, rows |-> new, names |-> d.names \ ts]
    <2>1. Unregistered(d, ts) = [d EXCEPT !.age = age, !.rows = new, !.names = d.names \ ts]
      BY DEF Unregistered
    <2> HIDE DEF age, new
    <2> QED
      BY <2>1 DEF Dirs
  <1>2. age \in Ages /\ (age = "old" => d.age = "old")
    BY DEF Dirs, Ages
  <1>3. new \in Rows /\ \A t \in Tables : new[t] = IF t \in ts THEN None ELSE d.rows[t]
    BY DEF Rows, Dirs
  <1> HIDE DEF age, new
  <1> QED
    BY <1>1, <1>2, <1>3 DEF Dirs

\* The tables an upload may be given.
LEMMA TablesOf ==
    /\ \A t \in Tables : t[2] \in Nat
    /\ \A u \in Uploads : \A n \in 1..Cardinality(Namesakes(u)) : <<NameOf[u], n>> \in Tables
  <1>1. ASSUME NEW t \in Tables PROVE t[2] \in Nat
    <2>1. PICK u \in Uploads : t \in {NameOf[u]} \X (1..Cardinality(Namesakes(u)))
      BY DEF Tables
    <2>2. t[2] \in 1..Cardinality(Namesakes(u))
      BY <2>1
    <2>3. \A n \in 1..Cardinality(Namesakes(u)) : n \in Nat
      OBVIOUS
    <2> QED
      BY <2>2, <2>3
  <1>2. ASSUME NEW u \in Uploads, NEW n \in 1..Cardinality(Namesakes(u))
        PROVE  <<NameOf[u], n>> \in Tables
    <2>1. <<NameOf[u], n>> \in {NameOf[u]} \X (1..Cardinality(Namesakes(u)))
      OBVIOUS
    <2> QED
      BY <2>1 DEF Tables
  <1> QED
    BY <1>1, <1>2

LEMMA GivenGrows ==
    ASSUME NEW where, NEW later, \A x \in Uploads : where[x] # "new" => later[x] # "new"
    PROVE  /\ \A f : /\ Cardinality(Given(where, f)) \in Nat
                     /\ Cardinality(Given(later, f)) \in Nat
                     /\ Cardinality(Given(where, f)) <= Cardinality(Given(later, f))
           /\ \A used \in SUBSET Tables : Numbers(where, used) => Numbers(later, used)
  <1>1. ASSUME NEW f
        PROVE  /\ Cardinality(Given(where, f)) \in Nat /\ Cardinality(Given(later, f)) \in Nat
               /\ Cardinality(Given(where, f)) <= Cardinality(Given(later, f))
    <2>1. /\ Given(where, f) \subseteq Given(later, f) /\ Given(later, f) \subseteq Uploads
          /\ IsFiniteSet(Uploads)
      BY SourcesAssumption DEF Given
    <2>2. IsFiniteSet(Given(later, f)) /\ IsFiniteSet(Given(where, f))
      BY <2>1, FS_Subset
    <2> QED
      BY <2>1, <2>2, FS_Subset, FS_CardinalityType
  <1>2. ASSUME NEW used \in SUBSET Tables, Numbers(where, used), NEW t \in used
        PROVE  t[2] <= Cardinality(Given(later, t[1]))
    <2>1. t[2] \in Nat /\ t[2] <= Cardinality(Given(where, t[1]))
      BY <1>2, TablesOf DEF Numbers
    <2> QED
      BY <2>1, <1>1
  <1> QED
    BY <1>1, <1>2 DEF Numbers

\* Among the numbers up to k, if k is free, there is a first one that is.
LEMMA FirstFree ==
    ASSUME NEW k \in Nat, NEW S \in SUBSET (1..k), S # {}
    PROVE  \E m \in S : \A n \in S : ~(n < m)
  <1>1. S \subseteq Nat
    OBVIOUS
  <1>2. \E m \in S : \A n \in S : ~(<<n, m>> \in OpToRel(<, Nat))
    BY <1>1, NatLessThanWellFounded, WFMin
  <1> QED
    BY <1>1, <1>2 DEF OpToRel

\* unique_table_name finds a table, whose number is one of the uploads'.
LEMMA NumberIsFree ==
    ASSUME NEW where, NEW u \in Uploads, where[u] = "new",
           NEW used \in SUBSET Tables, Numbers(where, used)
    PROVE  /\ UniqueTable(u, used) \in Tables
           /\ UniqueTable(u, used)[1] = NameOf[u]
           /\ UniqueTable(u, used)[2] <= Cardinality(Given(where, NameOf[u])) + 1
  <1> DEFINE f == NameOf[u]
             G == Given(where, f)
             k == Cardinality(G) + 1
             Free(t) == /\ t[1] = f /\ t \notin used
                        /\ \A n \in 1..(t[2] - 1) : <<t[1], n>> \in used
  <1>1. /\ Cardinality(G) \in Nat /\ k \in Nat /\ k \in 1..Cardinality(Namesakes(u))
        /\ Cardinality(Namesakes(u)) \in Nat
    <2>1. IsFiniteSet(G) /\ IsFiniteSet(Namesakes(u))
      <3>1. G \subseteq Uploads /\ Namesakes(u) \subseteq Uploads
        BY DEF Given, Namesakes
      <3> QED
        BY <3>1, SourcesAssumption, FS_Subset
    <2>2. u \notin G /\ G \union {u} \subseteq Namesakes(u)
      BY DEF Given, Namesakes
    <2>3. IsFiniteSet(G \union {u}) /\ Cardinality(G \union {u}) = k
      BY <2>1, <2>2, FS_AddElement
    <2>4. /\ Cardinality(G) \in Nat /\ Cardinality(Namesakes(u)) \in Nat
          /\ k <= Cardinality(Namesakes(u))
      <3> HIDE DEF G
      <3> QED
        BY <2>1, <2>2, <2>3, FS_Subset, FS_CardinalityType
    <2> QED
      BY <2>4
  <1>2. <<f, k>> \notin used
    BY <1>1 DEF Numbers
  <1>3. \E t \in Tables : Free(t)
    <2> DEFINE S == { n \in 1..k : <<f, n>> \notin used }
    <2>1. PICK m \in S : \A n \in S : ~(n < m)
      <3>1. S \in SUBSET (1..k) /\ k \in S
        BY <1>1, <1>2
      <3> HIDE DEF S, k
      <3> QED
        BY <1>1, <3>1, FirstFree
    <2>2. m \in 1..k /\ <<f, m>> \notin used /\ \A n \in 1..(m - 1) : <<f, n>> \in used
      <3> HIDE DEF k
      <3>1. m \in 1..k /\ <<f, m>> \notin used
        OBVIOUS
      <3>2. \A n \in 1..(m - 1) : n \in 1..k /\ n < m
        BY <3>1, <1>1
      <3> QED
        BY <2>1, <3>1, <3>2
    <2>3. m \in 1..Cardinality(Namesakes(u))
      <3> HIDE DEF k
      <3> QED
        BY <1>1, <2>2
    <2>4. <<f, m>> \in Tables
      BY <2>3, TablesOf
    <2>5. Free(<<f, m>>)
      BY <2>2
    <2> QED
      BY <2>4, <2>5
  <1>4. UniqueTable(u, used) \in Tables /\ Free(UniqueTable(u, used))
    <2>1. UniqueTable(u, used) = CHOOSE t \in Tables : Free(t)
      BY DEF UniqueTable
    <2> HIDE DEF Free
    <2> QED
      BY <1>3, <2>1
  <1>5. UniqueTable(u, used)[2] <= k
    <2> DEFINE t == UniqueTable(u, used)
    <2>1. t[2] \in Nat
      BY <1>4, TablesOf
    <2>2. ASSUME ~(t[2] <= k) PROVE FALSE
      <3>1. k \in 1..(t[2] - 1)
        <4> HIDE DEF k, t
        <4> QED
          BY <2>1, <2>2, <1>1
      <3> QED
        BY <3>1, <1>2, <1>4
    <2> QED
      BY <2>2
  <1> QED
    BY <1>4, <1>5

\* A table that was given counts as one more from then on.
LEMMA OneMoreGiven ==
    ASSUME NEW where, NEW later, NEW u \in Uploads, where[u] = "new", later[u] # "new",
           \A x \in Uploads : where[x] # "new" => later[x] # "new"
    PROVE  Cardinality(Given(where, NameOf[u])) + 1 <= Cardinality(Given(later, NameOf[u]))
  <1> DEFINE G == Given(where, NameOf[u])
             H == Given(later, NameOf[u])
  <1>1. IsFiniteSet(G) /\ IsFiniteSet(H)
    <2>1. G \subseteq Uploads /\ H \subseteq Uploads
      BY DEF Given
    <2> QED
      BY <2>1, SourcesAssumption, FS_Subset
  <1>2. u \notin G /\ G \union {u} \subseteq H
    BY DEF Given
  <1> HIDE DEF G, H
  <1>3. Cardinality(G \union {u}) = Cardinality(G) + 1
    BY <1>1, <1>2, FS_AddElement
  <1> QED
    BY <1>1, <1>2, <1>3, FS_Subset DEF G, H


LEMMA CopyRead ==
    ASSUME copy \in [Sources -> Copies], NEW s \in Sources, NEW read \in SUBSET Sources,
           copy' = [copy EXCEPT ![s].sources = read]
    PROVE  /\ copy' \in [Sources -> Copies]
           /\ copy'[s].sources = read /\ copy'[s].cells = copy[s].cells
           /\ copy'[s].names = copy[s].names
           /\ \A q \in Sources \ {s} : copy'[q] = copy[q]
  <1>1. copy'[s] = [copy[s] EXCEPT !.sources = read] /\ copy[s] \in Copies
    OBVIOUS
  <1>2. /\ copy'[s] \in Copies /\ copy'[s].sources = read /\ copy'[s].cells = copy[s].cells
        /\ copy'[s].names = copy[s].names
    BY <1>1 DEF Copies
  <1> QED
    BY <1>2

LEMMA CopyNoted ==
    ASSUME copy \in [Sources -> Copies], NEW s \in Sources, NEW read \in SUBSET Sources,
           copy' = [copy EXCEPT ![s].cells = read]
    PROVE  /\ copy' \in [Sources -> Copies]
           /\ copy'[s].cells = read /\ copy'[s].sources = copy[s].sources
           /\ \A q \in Sources \ {s} : copy'[q] = copy[q]
  <1>1. copy'[s] = [copy[s] EXCEPT !.cells = read] /\ copy[s] \in Copies
    OBVIOUS
  <1>2. copy'[s] \in Copies /\ copy'[s].cells = read /\ copy'[s].sources = copy[s].sources
    BY <1>1 DEF Copies
  <1> QED
    BY <1>2

LEMMA CopySet ==
    ASSUME copy \in [Sources -> Copies], NEW s \in Sources, NEW read \in Copies,
           copy' = [copy EXCEPT ![s] = read]
    PROVE  /\ copy' \in [Sources -> Copies] /\ copy'[s] = read
           /\ \A q \in Sources \ {s} : copy'[q] = copy[q]
  OBVIOUS

LEMMA CopyNamed ==
    ASSUME copy \in [Sources -> Copies], NEW s \in Sources, NEW names \in SUBSET Tables,
           copy' = [copy EXCEPT ![s].names = names]
    PROVE  /\ copy' \in [Sources -> Copies] /\ copy'[s].sources = copy[s].sources
           /\ \A q \in Sources \ {s} : copy'[q] = copy[q]
  <1>1. copy'[s] = [copy[s] EXCEPT !.names = names] /\ copy[s] \in Copies
    OBVIOUS
  <1>2. copy'[s] \in Copies /\ copy'[s].sources = copy[s].sources
    BY <1>1 DEF Copies
  <1> QED
    BY <1>2

\* What is written down of the past.
LEMMA CrossTold ==
    ASSUME past \in Pasts, NEW s \in Sources
    PROVE  /\ Cross(s) \in Pasts
           /\ Cross(s).left = past.left /\ Cross(s).dropped = past.dropped
           /\ past.crossed \subseteq Cross(s).crossed
           /\ Cross(s).crossed \subseteq past.crossed \union Holders(s) \union {s}
           /\ Holders(s) # {} => s \in Cross(s).crossed
           /\ Holders(s) \subseteq Cross(s).crossed
  <1> DEFINE c == IF Holders(s) = {} THEN past.crossed ELSE past.crossed \union Holders(s) \union {s}
  <1>1. past = [crossed |-> past.crossed, left |-> past.left, dropped |-> past.dropped]
    BY DEF Pasts
  <1>2. Cross(s) = [past EXCEPT !.crossed = c]
    BY DEF Cross
  <1>3. c \subseteq Sources /\ past.crossed \subseteq c
    BY DEF Holders, Pasts
  <1>4. /\ c \subseteq past.crossed \union Holders(s) \union {s}
        /\ Holders(s) # {} => s \in c
        /\ Holders(s) \subseteq c
    OBVIOUS
  <1> HIDE DEF c
  <1>5. Cross(s) = [crossed |-> c, left |-> past.left, dropped |-> past.dropped]
    BY <1>1, <1>2
  <1> QED
    BY <1>3, <1>4, <1>5 DEF Pasts

LEMMA LeaveTold ==
    ASSUME past \in Pasts, NEW u \in Uploads, NEW what \in {"entry", "blob"}
    PROVE  /\ Leave(u, what) \in Pasts
           /\ Leave(u, what).left = past.left \union {<<u, what>>}
           /\ Leave(u, what).crossed = past.crossed /\ Leave(u, what).dropped = past.dropped
  BY DEF Leave, Pasts

LEMMA DropTold ==
    ASSUME past \in Pasts, NEW us \in SUBSET Uploads
    PROVE  /\ Drop(us) \in Pasts /\ Drop(us).dropped = past.dropped \union us
           /\ Drop(us).crossed = past.crossed /\ Drop(us).left = past.left
  BY DEF Drop, Pasts

LEMMA TypesInitially == Init => TypesInv
  <1> SUFFICES ASSUME Init PROVE TypesInv
    OBVIOUS
  <1>1. NoRows \in Rows /\ NoDir \in Dirs
    BY DEF NoRows, Rows, NoDir, Dirs, Ages
  <1>2. query \in [at: {"idle", "ensuring", "loaded", "rebuilt", "running", "touching"},
                   rows: Rows, names: SUBSET Tables]
    BY <1>1 DEF Init, Idle
  <1>3. sess \in [type: {"none", "csv"} \union Links, df: Uploads \union {None},
                 loaded: BOOLEAN, lapsed: BOOLEAN, names: SUBSET Tables]
    BY DEF Init, NoData
  <1>4. /\ pc \in [Sources -> Resting \union Working]
        /\ copy \in [Sources -> Copies]
        /\ tableOf \in [Uploads -> Tables \union {None}]
    BY DEF Init, Resting, NothingRead, Copies
  <1>9. past \in Pasts
    BY DEF Init, Pasts
  <1>5. TypeOK
    BY <1>1, <1>2, <1>3, <1>4, <1>9, SourcesAssumption
       DEF Init, TypeOK, Rows, Dirs, Working, Copies, Pasts
  <1>6. /\ dir.names = {} /\ query.names = {} /\ sess.df = None /\ manifest = {}
        /\ { t \in Tables : query.rows[t] # None } = {}
        /\ \A u \in Uploads : pc[u] = "new"
        /\ \A s \in Sources : copy[s].sources = {}
    BY DEF Init, NoDir, Idle, NoData, NoRows, Sources, NothingRead
  <1>7. Numbered
    BY <1>6 DEF Numbered, Numbers
  <1>8. Heard
    BY <1>6 DEF Heard, Unheard
  <1> QED
    BY <1>5, <1>7, <1>8 DEF TypesInv

LEMMA TypesStep == TypesInv /\ [Next]_vars => TypeOK'
  <1> SUFFICES ASSUME TypesInv, [Next]_vars PROVE TypeOK'
    OBVIOUS
  <1> DEFINE Where  == Resting \union Working
             States == [type: {"none", "csv"} \union Links, df: Uploads \union {None},
                        loaded: BOOLEAN, lapsed: BOOLEAN, names: SUBSET Tables]
             Stages == {"idle", "ensuring", "loaded", "rebuilt", "running", "touching"}
             Queries == [at: Stages, rows: Rows, names: SUBSET Tables]
  <1>t. /\ manifest \subseteq Sources /\ cells \subseteq Sources /\ blobs \subseteq Uploads
        /\ tableOf \in [Uploads -> Tables \union {None}] /\ parquet \in Rows /\ dir \in Dirs
        /\ sess \in States /\ pc \in [Sources -> Where] /\ copy \in [Sources -> Copies]
        /\ past \in Pasts /\ query \in Queries /\ events \in 0..MaxEvents
    BY DEF TypesInv, TypeOK, Rows, Dirs, Working, Copies, Pasts
  <1>p. /\ \A u \in Uploads : pc[u] # "new" => tableOf[u] \in Tables
        /\ \A u \in Uploads : u \in manifest => pc[u] # "new"
        /\ \A u \in Uploads, s \in Sources : u \in copy[s].sources => pc[u] # "new"
    BY DEF TypesInv, Numbered, Heard, Unheard
  <1>q. /\ Uploads \subseteq Sources /\ Links \subseteq Sources
        /\ Idle \in Queries /\ NoRows \in Rows /\ NoDir \in Dirs /\ NothingRead \in Copies
        /\ \A type \in {"none", "csv"} \union Links : NoData(type) \in States
    BY DEF Sources, Idle, NoRows, Rows, NoDir, Dirs, Ages, NothingRead, NoData, Copies
  <1>d. /\ \A ts : Unregistered(dir, ts) \in Dirs
        /\ \A ts \in SUBSET Tables, rows \in Rows : Registered(dir, ts, rows) \in Dirs
    <2>1. dir \in Dirs
      BY <1>t
    <2> QED
      BY <2>1, UnregisteredDir, RegisteredDir
  <1>c. Cleaned(dir) \in Dirs /\ Touched(Cleaned(dir)) \in Dirs /\ Touched(dir) \in Dirs
    BY <1>t, CleanedDir, TouchedDir DEF Dirs, Ages
  <1>s. \A s \in Sources : /\ copy[s].sources \subseteq Sources /\ copy[s].cells \subseteq Sources
                           /\ copy[s].names \subseteq Tables
                           /\ copy[s].type \in {"none", "csv"} \union Links
    BY <1>t DEF Copies
  \* All that the new state must be.
  <1>z. ASSUME manifest' \subseteq Sources, cells' \subseteq Sources, blobs' \subseteq Uploads,
               tableOf' \in [Uploads -> Tables \union {None}], parquet' \in Rows, dir' \in Dirs,
               sess' \in States, pc' \in [Sources -> Where], copy' \in [Sources -> Copies],
               past' \in Pasts, query' \in Queries, events' \in 0..MaxEvents
        PROVE  TypeOK'
    BY <1>z DEF TypeOK, Rows, Dirs, Working, Copies, Pasts
  <1>g. ASSUME NEW s \in Sources, NEW where \in Where, Goto(s, where)
        PROVE  pc' \in [Sources -> Where]
    BY <1>g, <1>t DEF Goto
  <1>e. ASSUME Event \/ UNCHANGED events PROVE events' \in 0..MaxEvents
    BY <1>e, <1>t, SourcesAssumption DEF Event
  <1>f. ASSUME NEW s \in Sources, Forget(s) \/ UNCHANGED copy
        PROVE  copy' \in [Sources -> Copies]
    BY <1>f, <1>t, <1>q, CopySet DEF Forget
  <1>r. ASSUME NEW s \in Sources, NEW r \in SUBSET Sources, copy' = [copy EXCEPT ![s].sources = r]
        PROVE  copy' \in [Sources -> Copies]
    BY <1>r, <1>t, CopyRead
  <1>n. ASSUME NEW t \in Tables, NEW x \in Uploads \union {None}, parquet' = [parquet EXCEPT ![t] = x]
        PROVE  parquet' \in Rows
    BY <1>n, <1>t DEF Rows
  <1>w. ASSUME NEW s \in Sources,
               \/ past' \in {past, Cross(s)}
               \/ s \in Uploads /\ past' \in {Leave(s, "entry"), Leave(s, "blob"), Drop({s})}
        PROVE  past' \in Pasts
    <2>1. past \in Pasts
      BY <1>t
    <2> QED
      BY <1>w, <2>1, CrossTold, LeaveTold, DropTold
  <1> USE DEF BeginChange, Fault
  <1>1. ASSUME NEW s \in Uploads, ParseUpload(s) PROVE TypeOK'
    <2> DEFINE d == Touched(Cleaned(dir))
    <2>1. UniqueTable(s, d.names) \in Tables
      <3>1. d.names \in SUBSET Tables /\ Numbers(pc, d.names) /\ pc[s] = "new"
        <4>1. d.names = Cleaned(dir).names /\ Cleaned(dir).names \subseteq dir.names
          BY <1>t, <1>c, CleanedDir, TouchedDir
        <4> QED
          BY <1>1, <1>t, <4>1 DEF TypesInv, Numbered, Numbers, Dirs, ParseUpload
      <3> QED
        BY <3>1, NumberIsFree
    <2>2. /\ dir' = d /\ tableOf' = [tableOf EXCEPT ![s] = UniqueTable(s, d.names)]
          /\ blobs' = blobs \union {s} /\ Goto(s, "parsed") /\ Event
          /\ UNCHANGED <<manifest, cells, parquet, sess, copy, past, query>>
      BY <1>1 DEF ParseUpload
    <2>3. tableOf' \in [Uploads -> Tables \union {None}]
      BY <2>1, <2>2, <1>t
    <2>4. pc' \in [Sources -> Where]
      BY <2>2, <1>g, <1>q DEF Working
    <2> QED
      BY <2>2, <2>3, <2>4, <1>t, <1>q, <1>c, <1>e, <1>z
  <1>2. ASSUME NEW s \in Uploads, RegisterUpload(s) PROVE TypeOK'
    <2> DEFINE d == Registered(dir, {tableOf[s]}, [t \in Tables |-> s])
    <2>1. pc[s] = "parsed" /\ s \in Sources /\ UNCHANGED <<stores, sess, past, query>>
      BY <1>2, <1>q DEF RegisterUpload
    <2>2. d \in Dirs /\ d.names \in SUBSET Tables
      <3>1. {tableOf[s]} \in SUBSET Tables /\ [t \in Tables |-> s] \in Rows
        BY <2>1, <1>p DEF Rows
      <3> QED
        BY <3>1, <1>d DEF Dirs
    <2>3. /\ dir' \in Dirs /\ copy' \in [Sources -> Copies] /\ events' \in 0..MaxEvents
          /\ \E where \in Where : Goto(s, where)
      <3>1. CASE /\ dir' = d /\ copy' = [copy EXCEPT ![s].names = d.names]
                 /\ Goto(s, "registered") /\ UNCHANGED events
        <4> HIDE DEF d
        <4>1. copy' \in [Sources -> Copies]
          BY <3>1, <2>1, <2>2, <1>t, CopyNamed
        <4>2. "registered" \in Where
          BY DEF Working
        <4> QED
          BY <3>1, <4>1, <4>2, <2>2, <1>t
      <3>2. CASE Fault /\ Goto(s, "dropping") /\ UNCHANGED <<dir, copy>>
        BY <3>2, <1>t, <1>e DEF Working
      <3> QED
        BY <1>2, <3>1, <3>2 DEF RegisterUpload
    <2>4. pc' \in [Sources -> Where]
      BY <2>1, <2>3, <1>g
    <2> QED
      BY <2>1, <2>3, <2>4, <1>t, <1>z DEF stores
  <1>3. ASSUME NEW s \in Uploads, FinishUpload(s) PROVE TypeOK'
    <2>1. /\ pc' \in [Sources -> Where] /\ copy' \in [Sources -> Copies]
          /\ events' \in 0..MaxEvents
      BY <1>3, <1>e, <1>f, <1>g, <1>q DEF FinishUpload, Resting, Working
    <2>2. sess' \in States
      <3>1. s \in Sources /\ copy[s].names \in SUBSET Tables
        BY <1>s, <1>q
      <3> QED
        BY <1>3, <3>1, <1>t DEF FinishUpload, Load
    <2> QED
      BY <1>3, <2>1, <2>2, <1>t, <1>z DEF FinishUpload, stores
  <1>4. ASSUME NEW s \in Links, Connect(s) PROVE TypeOK'
    <2>1. pc' \in [Sources -> Where] /\ events' \in 0..MaxEvents
      BY <1>4, <1>g, <1>e, <1>q DEF Connect, Working
    <2>2. sess' \in States
      BY <1>4, <1>t DEF Connect
    <2> QED
      BY <1>4, <2>1, <2>2, <1>t, <1>z DEF Connect, stores
  <1>5. ASSUME NEW s \in Sources, ReadManifest(s) PROVE TypeOK'
    <2>1. pc' \in [Sources -> Where] /\ events' \in 0..MaxEvents /\ past' \in Pasts
      BY <1>5, <1>e, <1>g, <1>t, <1>w DEF ReadManifest, Working, Resting
    <2>3. copy' \in [Sources -> Copies]
      BY <1>5, <1>r, <1>f, <1>t DEF ReadManifest
    <2>2. parquet' \in Rows
      <3>1. parquet' = parquet \/ (s \in Uploads /\ parquet' = [parquet EXCEPT ![tableOf[s]] = s])
        BY <1>5 DEF ReadManifest
      <3>2. s \in Uploads => tableOf[s] \in Tables
        BY <1>5, <1>p DEF ReadManifest
      <3> QED
        BY <3>1, <3>2, <1>t, <1>n
    <2> QED
      BY <1>5, <2>1, <2>2, <2>3, <1>t, <1>z DEF ReadManifest
  <1>6. ASSUME NEW s \in Sources, SaveManifest(s) \/ Unlist(s) \/ RefuseCell(s) \/ GiveUp(s)
        PROVE  TypeOK'
    <2>1. /\ pc' \in [Sources -> Where] /\ copy' \in [Sources -> Copies]
          /\ events' \in 0..MaxEvents
      BY <1>6, <1>e, <1>f, <1>g, <1>t
         DEF SaveManifest, Unlist, RefuseCell, GiveUp, Working, Resting
    <2>2. manifest' \subseteq Sources
      BY <1>6, <1>t, <1>s DEF SaveManifest, Unlist, RefuseCell, GiveUp, stores
    <2> QED
      BY <1>6, <2>1, <2>2, <1>t, <1>z DEF SaveManifest, Unlist, RefuseCell, GiveUp, stores
  <1>7. ASSUME NEW s \in Sources, InsertCell(s) PROVE TypeOK'
    <2>1. pc' \in [Sources -> Where]
      BY <1>7, <1>g DEF InsertCell, Working, Resting
    <2>3. copy' \in [Sources -> Copies]
      <3> DEFINE read == [NothingRead EXCEPT !.names = copy[s].names]
      <3>1. read \in Copies
        BY <1>s DEF NothingRead, Copies
      <3>2. copy' = [copy EXCEPT ![s] = read]
        BY <1>7 DEF InsertCell
      <3> HIDE DEF read
      <3> QED
        BY <3>1, <3>2, <1>t, CopySet
    <2>4. cells' \subseteq Sources
      BY <1>7, <1>s DEF InsertCell
    <2> QED
      BY <1>7, <2>1, <2>3, <2>4, <1>t, <1>z DEF InsertCell
  <1>24. ASSUME NEW s \in Sources, ReadNotebook(s) PROVE TypeOK'
    <2>1. pc' \in [Sources -> Where]
      BY <1>24, <1>g DEF ReadNotebook, Working
    <2>2. copy' \in [Sources -> Copies]
      BY <1>24, <1>t, CopyNoted DEF ReadNotebook
    <2> QED
      BY <1>24, <2>1, <2>2, <1>t, <1>z DEF ReadNotebook, stores
  <1>8. ASSUME NEW s \in Uploads, RollBack(s) PROVE TypeOK'
    <2>1. /\ pc[s] = "refused" /\ Goto(s, "withdrawn") /\ Restore(s)
          /\ parquet' = [parquet EXCEPT ![tableOf[s]] = None]
          /\ Forget(s) /\ UNCHANGED <<cells, blobs, tableOf, dir, sess, query>>
      BY <1>8 DEF RollBack
    <2>2. parquet' \in Rows /\ pc' \in [Sources -> Where] /\ copy' \in [Sources -> Copies]
      BY <2>1, <1>n, <1>p, <1>g, <1>q, <1>f DEF Working
    <2>3. manifest' \subseteq Sources /\ past' \in Pasts /\ events' \in 0..MaxEvents
      BY <2>1, <1>t, <1>s, <1>q, <1>e, <1>w DEF Restore
    <2> QED
      BY <2>1, <2>2, <2>3, <1>t, <1>z
  <1>10. ASSUME NEW s \in Uploads, Withdraw(s) PROVE TypeOK'
    <2>1. /\ dir' \in Dirs /\ pc' \in [Sources -> Where] /\ events' \in 0..MaxEvents
          /\ past' \in Pasts
      BY <1>10, <1>d, <1>t, <1>g, <1>e, <1>q, <1>w DEF Withdraw, Working
    <2> QED
      BY <1>10, <2>1, <1>t, <1>z DEF Withdraw, stores
  <1>22. ASSUME NEW s \in Uploads, DropUpload(s) PROVE TypeOK'
    <2>1. pc' \in [Sources -> Where] /\ events' \in 0..MaxEvents
      BY <1>22, <1>e, <1>g, <1>q DEF DropUpload, Resting
    <2>2. blobs' \subseteq Uploads /\ past' \in Pasts
      BY <1>22, <1>t, <1>q, <1>w DEF DropUpload
    <2> QED
      BY <1>22, <2>1, <2>2, <1>t, <1>z DEF DropUpload
  <1>9. ASSUME NEW s \in Sources, BeginRemoval(s) PROVE TypeOK'
    <2>1. /\ s \in manifest /\ UNCHANGED <<manifest, cells, blobs, tableOf, sess, query>>
          /\ events' \in 0..MaxEvents
      BY <1>9, <1>e DEF BeginRemoval
    <2>2. pc' \in [Sources -> Where] /\ copy' \in [Sources -> Copies]
      BY <1>9, <1>g, <1>r, <1>t DEF BeginRemoval, Working
    <2>3. parquet' \in Rows /\ dir' \in Dirs
      <3>1. CASE s \in Uploads
        <4>1. tableOf[s] \in Tables
          BY <2>1, <3>1, <1>p
        <4>2. dir' = Unregistered(dir, {tableOf[s]}) /\ parquet' = [parquet EXCEPT ![tableOf[s]] = None]
          BY <1>9, <3>1 DEF BeginRemoval
        <4> QED
          BY <4>1, <4>2, <1>n, <1>d
      <3>2. CASE s \notin Uploads
        BY <1>9, <3>2, <1>t DEF BeginRemoval
      <3> QED
        BY <3>1, <3>2
    <2>4. past' \in Pasts
      <3>1. CASE s \in Uploads
        <4>1. past' = [Cross(s) EXCEPT !.dropped = @ \union {s}]
          BY <1>9, <3>1 DEF BeginRemoval
        <4>2. Cross(s) \in Pasts
          <5>1. past \in Pasts
            BY <1>t
          <5> QED
            BY <5>1, CrossTold
        <4> QED
          BY <4>1, <4>2, <3>1 DEF Pasts
      <3>2. CASE s \notin Uploads
        BY <1>9, <3>2, <1>w DEF BeginRemoval
      <3> QED
        BY <3>1, <3>2
    <2> QED
      BY <2>1, <2>2, <2>3, <2>4, <1>t, <1>z
  <1>11. ASSUME NEW s \in Sources, RemoveCell(s) \/ DropBlob(s) PROVE TypeOK'
    <2>1. pc' \in [Sources -> Where] /\ copy' \in [Sources -> Copies]
      BY <1>11, <1>g, <1>f DEF RemoveCell, DropBlob, Working, Resting
    <2>2. past' \in Pasts
      <3>1. {s} \intersect Uploads \in SUBSET Uploads
        OBVIOUS
      <3> QED
        BY <1>11, <3>1, <1>t, DropTold DEF RemoveCell, DropBlob
    <2>3. cells' \subseteq Sources
      BY <1>11, <1>t, <1>s DEF RemoveCell, DropBlob
    <2> QED
      BY <1>11, <2>1, <2>2, <2>3, <1>t, <1>z DEF RemoveCell, DropBlob
  <1>23. ASSUME NEW s \in Sources, ReadState(s) PROVE TypeOK'
    <2> DEFINE read == [sources |-> manifest, cells |-> {}, names |-> sess.names, type |-> sess.type]
    <2>1. pc' \in [Sources -> Where]
      BY <1>23, <1>g DEF ReadState, Working
    <2>2. copy' = [copy EXCEPT ![s] = read]
      BY <1>23 DEF ReadState
    <2>3. read \in Copies
      BY <1>t DEF Copies
    <2> HIDE DEF read
    <2>4. copy' \in [Sources -> Copies]
      BY <2>2, <2>3, <1>t, CopySet
    <2> QED
      BY <1>23, <2>1, <2>4, <1>t, <1>z DEF ReadState, stores
  <1>12. ASSUME NEW s \in Sources, SyncState(s) PROVE TypeOK'
    <2>1. /\ pc' \in [Sources -> Where] /\ copy' \in [Sources -> Copies]
          /\ UNCHANGED <<stores, query, events>>
      BY <1>12, <1>f, <1>g DEF SyncState, Working
    <2>3. past' \in Pasts
      <3>1. { u \in Uploads : tableOf[u] \in copy[s].names } \in SUBSET Uploads
        OBVIOUS
      <3> QED
        BY <1>12, <3>1, <1>t, DropTold DEF SyncState
    <2>2. sess' \in States /\ dir' \in Dirs
      <3> DEFINE rest == copy[s].sources \intersect Uploads
                 type == IF copy[s].type = "csv" THEN "csv" ELSE sess.type
      <3>1. CASE /\ sess' = IF copy[s].type = s THEN [sess EXCEPT !.type = "none"] ELSE sess
                 /\ UNCHANGED dir
        BY <3>1, <1>t
      <3>2. ASSUME NEW df \in { r \in rest : parquet[tableOf[r]] # None } \union {sess.df},
                   sess' = [type |-> type, df |-> df, loaded |-> TRUE, lapsed |-> FALSE,
                            names |-> { tableOf[r] : r \in rest }],
                   dir' = Touched(Cleaned(dir))
            PROVE  sess' \in States /\ dir' \in Dirs
        <4>1. df \in Uploads \union {None} /\ { tableOf[r] : r \in rest } \in SUBSET Tables
          BY <1>t, <1>p
        <4>2. type \in {"none", "csv"} \union Links
          BY <1>t
        <4> HIDE DEF rest, type
        <4> QED
          BY <3>2, <4>1, <4>2, <1>c
      <3>3. CASE /\ dir' = Unregistered(dir, copy[s].names)
                 /\ sess' = NoData(IF copy[s].type = "csv" THEN "none" ELSE sess.type)
        <4>1. (IF copy[s].type = "csv" THEN "none" ELSE sess.type) \in {"none", "csv"} \union Links
          BY <1>t
        <4>2. sess' \in States
          BY <3>3, <4>1, <1>q
        <4> QED
          BY <3>3, <4>2, <1>d
      <3> QED
        BY <1>12, <3>1, <3>2, <3>3 DEF SyncState
    <2> QED
      BY <2>1, <2>2, <2>3, <1>t, <1>z DEF stores
  <1>14. ASSUME Crash PROVE TypeOK'
    <2>1. pc' \in [Sources -> Where] /\ copy' \in [Sources -> Copies]
      BY <1>14, <1>t, <1>q DEF Crash, Resting, Working
    <2>2. query' \in Queries /\ events' \in 0..MaxEvents
      BY <1>14, <1>t, <1>q, <1>e DEF Crash
    <2>3. dir' \in Dirs /\ parquet' \in Rows /\ sess' \in States
      BY <1>14, <1>t, <1>q DEF Crash, NoRows, Rows
    <2> QED
      BY <1>14, <2>1, <2>2, <2>3, <1>t, <1>z DEF Crash
  <1>15. ASSUME ClearSource \/ Lapse \/ Adopt \/ Ask PROVE TypeOK'
    <2>1. sess' \in States
      BY <1>15, <1>t DEF ClearSource, Lapse, Adopt, Load, Ask
    <2>2. query' \in Queries
      BY <1>15, <1>t, <1>q DEF ClearSource, Lapse, Adopt, Ask, Idle
    <2> QED
      BY <1>15, <2>1, <2>2, <1>t, <1>z DEF ClearSource, Lapse, Adopt, Ask, stores, calls
  <1>16. ASSUME Age \/ Sweep \/ TouchReads \/ TouchWrites PROVE TypeOK'
    <2>1. dir' \in Dirs
      <3>1. CASE Age
        BY <3>1, <1>t DEF Age, Dirs, Ages
      <3>2. CASE TouchWrites
        <4>1. query.names \in SUBSET Tables
          BY <1>t
        <4> QED
          BY <3>2, <4>1, <1>c DEF TouchWrites, Dirs
      <3> QED
        BY <1>16, <3>1, <3>2, <1>q, <1>c DEF Sweep, TouchReads
    <2>2. query' \in Queries
      <3>1. CASE TouchReads
        <4>1. dir'.names \in SUBSET Tables
          BY <2>1 DEF Dirs
        <4> QED
          BY <3>1, <4>1, <1>t DEF TouchReads
      <3> QED
        BY <1>16, <3>1, <1>t, <1>q DEF Age, Sweep, TouchWrites, Idle
    <2> QED
      BY <1>16, <2>1, <2>2, <1>t, <1>z DEF Age, Sweep, TouchReads, TouchWrites, stores, calls
  <1>17. ASSUME Ensured \/ EndQuery PROVE TypeOK'
    <2>1. query' \in Queries
      BY <1>17, <1>t, <1>q DEF Ensured, EndQuery
    <2> QED
      BY <1>17, <2>1, <1>t, <1>z DEF Ensured, EndQuery, stores, calls
  <1>18. ASSUME LoadTables PROVE TypeOK'
    <2>1. PICK rows \in Rows :
            /\ parquet' = [t \in Tables |-> IF rows[t] # None THEN rows[t] ELSE parquet[t]]
            /\ query' = [query EXCEPT !.at = "loaded", !.rows = rows]
      BY <1>18 DEF LoadTables, Rows
    <2>2. parquet' \in Rows /\ query' \in Queries
      BY <2>1, <1>t DEF Rows
    <2>3. past' \in Pasts
      BY <1>18, <1>t DEF LoadTables, Pasts
    <2> QED
      BY <1>18, <2>2, <2>3, <1>t, <1>z DEF LoadTables
  <1>19. ASSUME LoadLegacy PROVE TypeOK'
    <2>1. query' \in Queries
      <3>1. CASE sess.df # None
        <4>1. [NoRows EXCEPT ![<<NameOf[sess.df], 1>>] = sess.df] \in Rows
          BY <3>1, <1>t, <1>q DEF NoRows, Rows
        <4> QED
          BY <1>19, <3>1, <4>1, <1>t DEF LoadLegacy
      <3> QED
        BY <1>19, <3>1, <1>t DEF LoadLegacy
    <2> QED
      BY <1>19, <2>1, <1>t, <1>z DEF LoadLegacy, stores, calls
  <1>20. ASSUME Rebuild PROVE TypeOK'
    <2> DEFINE d == Registered(dir, { t \in Tables : query.rows[t] # None }, query.rows)
    <2>1. d \in Dirs
      <3>1. { t \in Tables : query.rows[t] # None } \in SUBSET Tables /\ query.rows \in Rows
        BY <1>t
      <3> QED
        BY <3>1, <1>d
    <2>2. dir' = d /\ query' = [Idle EXCEPT !.at = "rebuilt", !.names = d.names]
      BY <1>20 DEF Rebuild
    <2>3. d.names \in SUBSET Tables
      BY <2>1 DEF Dirs
    <2> HIDE DEF d
    <2>4. query' \in Queries
      BY <2>2, <2>3, <1>q
    <2> QED
      BY <1>20, <2>1, <2>2, <2>4, <1>t, <1>z DEF Rebuild, stores, calls
  <1>21. CASE UNCHANGED vars
    BY <1>21, <1>t, <1>z DEF vars, stores, calls
  <1> QED
    BY <1>1, <1>2, <1>3, <1>4, <1>5, <1>6, <1>7, <1>8, <1>9, <1>10, <1>11, <1>12, <1>14, <1>15,
       <1>16, <1>17, <1>18, <1>19, <1>20, <1>21, <1>22, <1>23, <1>24 DEF Next, Change, Add, Remove, Ensure

\* Only an upload whose addition begins is new no more.
LEMMA NewIsParsed ==
    ASSUME TypesInv, [Next]_vars, NEW u \in Uploads, pc[u] = "new", pc'[u] # "new"
    PROVE  ParseUpload(u)
  <1>t. u \in Sources /\ u \notin Links /\ pc \in [Sources -> Resting \union Working]
    BY SourcesAssumption DEF TypesInv, TypeOK, Working, Sources
  <1>h. \A s \in manifest \intersect Uploads : pc[s] # "new"
    BY DEF TypesInv, Heard, Unheard
  <1>1. ASSUME NEW s \in Sources, pc[s] # "new" \/ s \in Links, NEW where, pc' = [pc EXCEPT ![s] = where]
        PROVE  FALSE
    BY <1>1, <1>t
  <1>2. ASSUME NEW s \in Sources, Remove(s) PROVE FALSE
    <2>1. CASE BeginRemoval(s)
      BY <2>1, <1>1, <1>h DEF BeginRemoval, Goto, Sources
    <2>2. CASE Unlist(s) \/ RemoveCell(s) \/ ReadState(s) \/ SyncState(s) \/ DropBlob(s) \/ GiveUp(s)
      BY <2>2, <1>1 DEF Unlist, RemoveCell, ReadState, SyncState, DropBlob, GiveUp, Goto
    <2> QED
      BY <1>2, <2>1, <2>2 DEF Remove
  <1>6. ASSUME NEW s \in Sources, ReadNotebook(s) PROVE FALSE
    BY <1>6, <1>1 DEF ReadNotebook, Goto
  <1>3. ASSUME NEW s \in Sources, Add(s), ~(s \in Uploads /\ ParseUpload(s)) PROVE FALSE
    <2>1. CASE (s \in Uploads /\ (RegisterUpload(s) \/ FinishUpload(s))) \/ (s \in Links /\ Connect(s))
      BY <2>1, <1>1 DEF RegisterUpload, FinishUpload, Connect, Goto
    <2>2. CASE ReadManifest(s) \/ SaveManifest(s) \/ InsertCell(s) \/ RefuseCell(s)
      BY <2>2, <1>1 DEF ReadManifest, SaveManifest, InsertCell, RefuseCell, Goto
    <2>3. CASE s \in Uploads /\ (RollBack(s) \/ Withdraw(s) \/ DropUpload(s))
      BY <2>3, <1>1 DEF RollBack, Withdraw, DropUpload, Goto
    <2> QED
      BY <1>3, <2>1, <2>2, <2>3 DEF Add
  <1>4. ASSUME NEW s \in Uploads, ParseUpload(s) PROVE s = u
    <2>1. s \in Sources
      BY DEF Sources
    <2> QED
      BY <1>4, <2>1, <1>t DEF ParseUpload, Goto
  <1>5. ASSUME \/ ClearSource \/ Ask \/ Ensure \/ TouchReads \/ TouchWrites \/ EndQuery
               \/ Lapse \/ Age \/ Sweep \/ Crash \/ UNCHANGED vars
        PROVE  FALSE
    BY <1>5, <1>t
       DEF ClearSource, Ask, Ensure, Ensured, LoadTables, LoadLegacy, Rebuild, Adopt, TouchReads,
           TouchWrites, EndQuery, Lapse, Age, Sweep, Crash, vars, calls, Resting
  <1> QED
    BY <1>2, <1>3, <1>4, <1>5, <1>6 DEF Next, Change

\* An upload that was given a table keeps it.
LEMMA GivenStays ==
    ASSUME TypesInv, [Next]_vars, NEW u \in Uploads, pc[u] # "new"
    PROVE  pc'[u] # "new" /\ tableOf'[u] = tableOf[u]
  <1>t. u \in Sources /\ pc \in [Sources -> Resting \union Working]
    BY DEF TypesInv, TypeOK, Working, Sources
  <1>1. ASSUME NEW s \in Sources, NEW where, where # "new", pc' = [pc EXCEPT ![s] = where]
        PROVE  pc'[u] # "new"
    BY <1>1, <1>t
  <1>2. ASSUME NEW s \in Uploads, ParseUpload(s) PROVE pc'[u] # "new" /\ tableOf'[u] = tableOf[u]
    <2>1. tableOf \in [Uploads -> Tables \union {None}] /\ s # u /\ s \in Sources
      BY <1>2 DEF TypesInv, TypeOK, ParseUpload, Sources
    <2> QED
      BY <1>2, <2>1, <1>1 DEF ParseUpload, Goto
  <1>3. ASSUME NEW s \in Sources, Add(s) \/ Remove(s), ~(s \in Uploads /\ ParseUpload(s))
        PROVE  pc'[u] # "new" /\ tableOf' = tableOf
    <2>1. CASE Remove(s)
      BY <2>1, <1>1 DEF Remove, BeginRemoval, Unlist, RemoveCell, ReadState, SyncState, DropBlob,
                        GiveUp, Goto, stores
    <2>2. CASE (s \in Uploads /\ (RegisterUpload(s) \/ FinishUpload(s))) \/ (s \in Links /\ Connect(s))
      BY <2>2, <1>1 DEF RegisterUpload, FinishUpload, Connect, Goto, stores
    <2>3. CASE ReadManifest(s) \/ SaveManifest(s) \/ InsertCell(s) \/ RefuseCell(s)
      BY <2>3, <1>1 DEF ReadManifest, SaveManifest, InsertCell, RefuseCell, Goto, stores
    <2>4. CASE s \in Uploads /\ (RollBack(s) \/ Withdraw(s) \/ DropUpload(s))
      BY <2>4, <1>1 DEF RollBack, Withdraw, DropUpload, Goto, stores
    <2> QED
      BY <1>3, <2>1, <2>2, <2>3, <2>4 DEF Add
  <1>6. ASSUME NEW s \in Sources, ReadNotebook(s) PROVE pc'[u] # "new" /\ tableOf' = tableOf
    BY <1>6, <1>1 DEF ReadNotebook, Goto, stores
  <1>4. CASE Crash
    BY <1>4, <1>t DEF Crash
  <1>5. CASE \/ ClearSource \/ Ask \/ Ensure \/ TouchReads \/ TouchWrites \/ EndQuery
             \/ Lapse \/ Age \/ Sweep \/ UNCHANGED vars
    BY <1>5 DEF ClearSource, Ask, Ensure, Ensured, LoadTables, LoadLegacy, Rebuild, Adopt, TouchReads,
                TouchWrites, EndQuery, Lapse, Age, Sweep, vars, stores, calls
  <1> QED
    BY <1>2, <1>3, <1>4, <1>5, <1>6 DEF Next, Change

\* What a source reads of the manifest and writes to it was in it before, but for
\* the source itself once it is begun.
LEMMA HeardStep == TypesInv /\ [Next]_vars => Heard'
  <1> SUFFICES ASSUME TypesInv, [Next]_vars, NEW u \in Uploads, pc'[u] = "new"
               PROVE  Unheard(u)'
    BY DEF Heard
  <1>t. /\ copy \in [Sources -> Copies] /\ u \in Sources
        /\ \A s \in Sources : copy[s].sources \subseteq Sources
    BY DEF TypesInv, TypeOK, Copies, Sources
  <1>1. pc[u] = "new"
    BY GivenStays
  <1>2. u \notin manifest /\ \A s \in Sources : u \notin copy[s].sources
    BY <1>1 DEF TypesInv, Heard, Unheard
  <1>3. u \notin manifest'
    <2>1. ASSUME NEW s \in Sources, SaveManifest(s) PROVE u \notin manifest'
      <3>1. s # u
        BY <2>1, <1>1 DEF SaveManifest
      <3> QED
        BY <2>1, <3>1, <1>2 DEF SaveManifest
    <2>2. ASSUME NEW s \in Sources, Unlist(s) \/ RollBack(s) PROVE u \notin manifest'
      BY <2>2, <1>2 DEF Unlist, RollBack, Restore
    <2>3. ASSUME NEW s \in Sources, Add(s), ~SaveManifest(s), ~RollBack(s) PROVE manifest' = manifest
      BY <2>3 DEF Add, ParseUpload, RegisterUpload, FinishUpload, Withdraw, DropUpload, Connect,
                  ReadManifest, InsertCell, RefuseCell, stores
    <2>4. ASSUME NEW s \in Sources, Remove(s), ~Unlist(s) PROVE manifest' = manifest
      BY <2>4 DEF Remove, BeginRemoval, RemoveCell, ReadState, SyncState, DropBlob, GiveUp, stores
    <2>6. ASSUME NEW s \in Sources, ReadNotebook(s) PROVE manifest' = manifest
      BY <2>6 DEF ReadNotebook, stores
    <2>5. CASE \/ ClearSource \/ Ask \/ Ensure \/ TouchReads \/ TouchWrites \/ EndQuery
               \/ Lapse \/ Age \/ Sweep \/ Crash \/ UNCHANGED vars
      BY <2>5, <1>2
         DEF ClearSource, Ask, Ensure, Ensured, LoadTables, LoadLegacy, Rebuild, Adopt, TouchReads,
             TouchWrites, EndQuery, Lapse, Age, Sweep, Crash, vars, stores
    <2> QED
      BY <2>1, <2>2, <2>3, <2>4, <2>5, <2>6, <1>2 DEF Next, Change
  <1>4. ASSUME NEW q \in Sources PROVE u \notin copy'[q].sources
    <2>1. ASSUME NEW s \in Sources, NEW r \in SUBSET Sources, u \notin r,
                 copy' = [copy EXCEPT ![s].sources = r]
          PROVE  u \notin copy'[q].sources
      BY <2>1, <1>2, <1>t, CopyRead
    <2>2. ASSUME NEW s \in Sources, Forget(s) PROVE u \notin copy'[q].sources
      BY <2>2, <1>2, <1>t DEF Forget, NothingRead
    <2>3. CASE UNCHANGED copy
      BY <2>3, <1>2
    <2>m. manifest \in SUBSET Sources
      BY DEF TypesInv, TypeOK
    <2>4. ASSUME NEW s \in Sources, RegisterUpload(s), s \in Uploads PROVE u \notin copy'[q].sources
      <3> DEFINE d == Registered(dir, {tableOf[s]}, [t \in Tables |-> s])
      <3>1. CASE copy' = [copy EXCEPT ![s].names = d.names]
        <4>1. copy'[q].sources = copy[q].sources
          <5> HIDE DEF d
          <5> QED
            BY <3>1, <1>t DEF Copies
        <4> QED
          BY <4>1, <1>2
      <3> QED
        BY <2>3, <2>4, <3>1 DEF RegisterUpload
    <2>5. ASSUME NEW s \in Sources, Add(s), ~(s \in Uploads /\ RegisterUpload(s))
          PROVE  u \notin copy'[q].sources
      <3>1. CASE ReadManifest(s)
        BY <3>1, <2>1, <2>2, <2>m, <1>2 DEF ReadManifest
      <3>2. CASE InsertCell(s)
        <4> DEFINE read == [NothingRead EXCEPT !.names = copy[s].names]
        <4>1. read.sources = {}
          BY DEF NothingRead
        <4>2. copy' = [copy EXCEPT ![s] = read]
          BY <3>2 DEF InsertCell
        <4> HIDE DEF read
        <4> QED
          BY <4>1, <4>2, <1>2, <1>t
      <3>3. CASE s \in Uploads /\ (FinishUpload(s) \/ RollBack(s))
        BY <3>3, <2>2, <2>3 DEF FinishUpload, RollBack
      <3>4. CASE \/ (s \in Uploads /\ (ParseUpload(s) \/ DropUpload(s) \/ Withdraw(s)))
                 \/ (s \in Links /\ Connect(s)) \/ SaveManifest(s) \/ RefuseCell(s)
        BY <3>4, <2>3 DEF ParseUpload, DropUpload, Withdraw, Connect, SaveManifest, RefuseCell
      <3> QED
        BY <2>5, <3>1, <3>2, <3>3, <3>4 DEF Add
    <2>6. ASSUME NEW s \in Sources, Remove(s) PROVE u \notin copy'[q].sources
      <3>1. CASE BeginRemoval(s)
        BY <3>1, <2>1, <2>m, <1>2 DEF BeginRemoval
      <3>2. CASE Unlist(s) \/ RemoveCell(s) \/ SyncState(s) \/ GiveUp(s)
        BY <3>2, <2>2 DEF Unlist, RemoveCell, SyncState, GiveUp
      <3>3. CASE DropBlob(s)
        BY <3>3, <2>3 DEF DropBlob
      <3>4. CASE ReadState(s)
        <4>1. copy'[q].sources \in {copy[q].sources, manifest}
          BY <3>4, <1>t DEF ReadState
        <4> QED
          BY <4>1, <1>2
      <3> QED
        BY <2>6, <3>1, <3>2, <3>3, <3>4 DEF Remove
    <2>9. ASSUME NEW s \in Sources, ReadNotebook(s) PROVE u \notin copy'[q].sources
      <3>1. cells \in SUBSET Sources
        BY DEF TypesInv, TypeOK
      <3>2. copy'[q].sources = copy[q].sources
        BY <2>9, <3>1, <1>t, CopyNoted DEF ReadNotebook
      <3> QED
        BY <3>2, <1>2
    <2>7. CASE Crash
      BY <2>7 DEF Crash, NothingRead
    <2>8. CASE \/ ClearSource \/ Ask \/ Ensure \/ TouchReads \/ TouchWrites \/ EndQuery
               \/ Lapse \/ Age \/ Sweep \/ UNCHANGED vars
      BY <2>8, <2>3
         DEF ClearSource, Ask, Ensure, Ensured, LoadTables, LoadLegacy, Rebuild, Adopt, TouchReads,
             TouchWrites, EndQuery, Lapse, Age, Sweep, vars, calls
    <2> QED
      BY <2>4, <2>5, <2>6, <2>7, <2>8, <2>9 DEF Next, Change
  <1> QED
    BY <1>3, <1>4 DEF Unheard

LEMMA NumbersStep == TypesInv /\ [Next]_vars => Numbered'
  <1> SUFFICES ASSUME TypesInv, [Next]_vars PROVE Numbered'
    OBVIOUS
  <1> DEFINE Held  == { t \in Tables : query.rows[t] # None }
             Owned == { tableOf[u] : u \in { x \in Uploads : pc[x] # "new" } }
             Known == dir.names \union query.names \union Held \union Owned
  <1>t. /\ dir \in Dirs /\ query.names \in SUBSET Tables /\ query.rows \in Rows
        /\ sess.df \in Uploads \union {None} /\ Uploads \subseteq Sources
        /\ DOMAIN sess = {"type", "df", "loaded", "lapsed", "names"}
        /\ DOMAIN query = {"at", "rows", "names"}
    BY DEF TypesInv, TypeOK, Dirs, Rows, Sources
  <1>n. /\ Numbered
        /\ \A u \in Uploads : u \in manifest => pc[u] # "new"
        /\ \A u \in Uploads, s \in Sources : u \in copy[s].sources => pc[u] # "new"
    BY DEF TypesInv, Heard, Unheard
  <1>k. Known \in SUBSET Tables /\ Numbers(pc, Known)
    BY <1>t, <1>n DEF Numbered, Numbers, Dirs
  <1>h. /\ dir.names \subseteq Known /\ query.names \subseteq Known
        /\ Held \subseteq Known /\ Owned \subseteq Known
    OBVIOUS
  <1>o. \A u \in Uploads : pc[u] # "new" => tableOf[u] \in Owned
    OBVIOUS
  <1>d. /\ \A ts : Unregistered(dir, ts).names \subseteq dir.names
        /\ \A ts \in SUBSET Tables, rows \in Rows :
               Registered(dir, ts, rows).names \subseteq dir.names \union ts
        /\ Cleaned(dir).names \subseteq dir.names /\ Touched(Cleaned(dir)).names \subseteq dir.names
        /\ Touched(dir).names = dir.names /\ DOMAIN Touched(dir) = {"age", "db", "rows", "names"}
    <2>1. dir \in Dirs /\ Cleaned(dir) \in Dirs
      BY <1>t, CleanedDir
    <2>2. \A ts : Unregistered(dir, ts).names \subseteq dir.names
      BY <2>1, UnregisteredDir
    <2>3. \A ts \in SUBSET Tables, rows \in Rows :
               Registered(dir, ts, rows).names \subseteq dir.names \union ts
      BY <2>1, RegisteredDir
    <2>4. Cleaned(dir).names \subseteq dir.names
      BY <2>1, CleanedDir
    <2>5. /\ Touched(Cleaned(dir)).names = Cleaned(dir).names /\ Touched(dir).names = dir.names
          /\ DOMAIN Touched(dir) = {"age", "db", "rows", "names"}
      <3>1. /\ Touched(dir) = [age |-> "fresh", db |-> dir.db, rows |-> dir.rows, names |-> dir.names]
            /\ Touched(Cleaned(dir)).names = Cleaned(dir).names
        BY <2>1, TouchedDir
      <3> QED
        BY <3>1
    <2> QED
      BY <2>2, <2>3, <2>4, <2>5
  <1>g. \A u \in Uploads : pc[u] # "new" => pc'[u] # "new" /\ tableOf'[u] = tableOf[u]
    BY GivenStays
  <1>m. \A used \in SUBSET Tables : Numbers(pc, used) => Numbers(pc', used)
    BY <1>g, GivenGrows
  \* The uploads that have no table get a free one.
  <1>1. ASSUME NEW u \in Uploads, pc'[u] # "new"
        PROVE  tableOf'[u] \in Tables /\ Numbers(pc', {tableOf'[u]})
    <2>1. CASE pc[u] # "new"
      <3>1. tableOf[u] \in Tables /\ Numbers(pc, {tableOf[u]})
        BY <2>1, <1>n DEF Numbered
      <3> QED
        BY <3>1, <2>1, <1>g, <1>m
    <2>2. CASE pc[u] = "new"
      <3> DEFINE names == Touched(Cleaned(dir)).names
                 t == UniqueTable(u, names)
      <3>1. ParseUpload(u)
        BY <2>2, <1>1, NewIsParsed
      <3>2. names \subseteq dir.names
        BY <1>t, CleanedDir, TouchedDir
      <3>3. names \in SUBSET Tables /\ Numbers(pc, names)
        BY <3>2, <1>t, <1>n DEF Numbered, Numbers, Dirs
      <3>4. t \in Tables /\ t[1] = NameOf[u] /\ t[2] <= Cardinality(Given(pc, NameOf[u])) + 1
        <4> HIDE DEF names
        <4> QED
          BY <3>3, <2>2, NumberIsFree
      <3>5. Cardinality(Given(pc, NameOf[u])) + 1 <= Cardinality(Given(pc', NameOf[u]))
        BY <1>1, <2>2, <1>g, OneMoreGiven
      <3>6. /\ t[2] \in Nat /\ Cardinality(Given(pc, NameOf[u])) \in Nat
            /\ Cardinality(Given(pc', NameOf[u])) \in Nat
        BY <3>4, TablesOf, GivenGrows, <1>g
      <3>7. tableOf'[u] = t
        BY <3>1 DEF ParseUpload, TypesInv, TypeOK
      <3> HIDE DEF t
      <3> QED
        BY <3>4, <3>5, <3>6, <3>7 DEF Numbers
    <2> QED
      BY <2>1, <2>2
  \* Names in the runtime are those of given tables; _load_legacy_table takes
  \* the first number.
  <1> HIDE DEF Known, Owned
  <1>2. dir'.names \subseteq Known /\ query'.names \subseteq Known
    <2>1. CASE UNCHANGED <<dir, query>>
      BY <2>1, <1>h
    <2>2. ASSUME NEW s \in Sources, pc[s] # "new", UNCHANGED query,
                 dir' = Unregistered(dir, {tableOf[s]}) \/ dir' = Unregistered(dir, copy[s].names)
          PROVE  dir'.names \subseteq Known /\ query'.names \subseteq Known
      BY <2>2, <1>h, <1>d
    <2>3. ASSUME dir' \in {Touched(Cleaned(dir)), Cleaned(dir)},
                 query'.names \in {query.names, dir'.names, {}}
          PROVE  dir'.names \subseteq Known /\ query'.names \subseteq Known
      BY <2>3, <1>h, <1>d
    <2>4. ASSUME NEW s \in Uploads, RegisterUpload(s)
          PROVE  dir'.names \subseteq Known /\ query'.names \subseteq Known
      <3>1. CASE dir' = Registered(dir, {tableOf[s]}, [t \in Tables |-> s])
        <4>1. pc[s] # "new" /\ query' = query
          BY <2>4 DEF RegisterUpload
        <4>2. {tableOf[s]} \in SUBSET Tables /\ tableOf[s] \in Owned
          BY <4>1, <1>n, <1>o DEF Numbered
        <4>3. [t \in Tables |-> s] \in Rows
          BY DEF Rows
        <4>4. dir'.names \subseteq dir.names \union {tableOf[s]}
          BY <3>1, <4>2, <4>3, <1>d
        <4> QED
          BY <4>1, <4>2, <4>4, <1>h
      <3> QED
        BY <2>1, <2>4, <3>1 DEF RegisterUpload
    <2>5. CASE Rebuild
      <3>1. dir' = Registered(dir, Held, query.rows) /\ query'.names = dir'.names
        BY <2>5 DEF Rebuild, Idle
      <3>2. dir'.names \subseteq dir.names \union Held
        <4>1. Held \in SUBSET Tables /\ query.rows \in Rows
          BY <1>t
        <4> HIDE DEF Held
        <4> QED
          BY <3>1, <4>1, <1>d
      <3> QED
        BY <3>1, <3>2, <1>h
    <2>6. CASE Crash
      BY <2>6, <1>h DEF Crash, Idle, NoDir
    <2>7. ASSUME NEW s \in Sources, Add(s)
          PROVE  dir'.names \subseteq Known /\ query'.names \subseteq Known
      <3>1. CASE s \in Uploads /\ ParseUpload(s)
        BY <3>1, <2>3 DEF ParseUpload
      <3>2. CASE s \in Uploads /\ Withdraw(s)
        BY <3>2, <2>1, <2>2 DEF Withdraw
      <3>3. CASE \/ (s \in Uploads /\ (FinishUpload(s) \/ RollBack(s) \/ DropUpload(s)))
                 \/ (s \in Links /\ Connect(s))
                 \/ ReadManifest(s) \/ SaveManifest(s) \/ InsertCell(s) \/ RefuseCell(s)
        BY <3>3, <2>1 DEF FinishUpload, RollBack, DropUpload, Connect, ReadManifest, SaveManifest,
                          InsertCell, RefuseCell
      <3> QED
        BY <2>4, <2>7, <3>1, <3>2, <3>3 DEF Add
    <2>8. ASSUME NEW s \in Sources, Remove(s)
          PROVE  dir'.names \subseteq Known /\ query'.names \subseteq Known
      <3>1. CASE BeginRemoval(s)
        <4>1. s \in Uploads => pc[s] # "new"
          BY <3>1, <1>n DEF BeginRemoval
        <4> QED
          BY <3>1, <4>1, <2>1, <2>2 DEF BeginRemoval
      <3>2. CASE SyncState(s)
        BY <3>2, <2>1, <2>2, <2>3 DEF SyncState
      <3>3. CASE Unlist(s) \/ RemoveCell(s) \/ DropBlob(s) \/ GiveUp(s) \/ ReadState(s)
        BY <3>3, <2>1 DEF Unlist, RemoveCell, DropBlob, GiveUp, ReadState
      <3> QED
        BY <2>8, <3>1, <3>2, <3>3 DEF Remove
    <2>13. ASSUME NEW s \in Sources, ReadNotebook(s) PROVE UNCHANGED <<dir, query>>
      BY <2>13 DEF ReadNotebook
    <2>9. CASE Age \/ Sweep
      <3>1. dir'.names \in {dir.names, {}} /\ query' = query
        BY <2>9, <1>t DEF Age, Sweep, Dirs, NoDir
      <3> QED
        BY <3>1, <1>h
    <2>10. CASE TouchWrites
      <3>1. dir'.names = query.names /\ query'.names = {}
        BY <2>10, <1>d DEF TouchWrites, Idle
      <3> QED
        BY <3>1, <1>h
    <2>12. CASE \/ ClearSource \/ Ask \/ Ensured \/ LoadTables \/ LoadLegacy \/ Adopt
                \/ EndQuery \/ Lapse \/ UNCHANGED vars
      <3>1. dir' = dir
        BY <2>12 DEF ClearSource, Ask, Ensured, LoadTables, LoadLegacy, Adopt, EndQuery, Lapse, vars
      <3>2. CASE Ask \/ Ensured \/ Adopt \/ EndQuery
        <4>1. query'.names \in {query.names, {}}
          BY <3>2, <1>t DEF Ask, Ensured, Adopt, EndQuery, Idle
        <4> QED
          BY <3>1, <4>1, <1>h
      <3>3. CASE LoadTables \/ LoadLegacy
        <4>1. query'.names = query.names
          BY <3>3, <1>t DEF LoadTables, LoadLegacy
        <4> QED
          BY <3>1, <4>1, <1>h
      <3>4. CASE ClearSource \/ Lapse \/ UNCHANGED vars
        BY <3>1, <3>4, <1>h DEF ClearSource, Lapse, vars
      <3> QED
        BY <2>12, <3>2, <3>3, <3>4
    <2>11. CASE TouchReads
      <3>1. query'.names = dir'.names /\ dir' = Cleaned(dir)
        BY <2>11, <1>t DEF TouchReads
      <3> QED
        BY <2>3, <3>1
    <2> QED
      BY <2>1, <2>5, <2>6, <2>7, <2>8, <2>9, <2>10, <2>11, <2>12, <2>13 DEF Next, Change, Ensure
  <1>3. Numbers(pc', { t \in Tables : query'.rows[t] # None })
    <2>1. CASE query'.rows \in {query.rows, NoRows}
      <3>1. { t \in Tables : query'.rows[t] # None } \subseteq Held
        BY <2>1 DEF NoRows
      <3>2. { t \in Tables : query'.rows[t] # None } \subseteq Known
        BY <3>1, <1>h
      <3> QED
        BY <3>2, <1>k, <1>m DEF Numbers
    <2>2. CASE LoadTables
      <3>1. ASSUME NEW t \in Tables, query'.rows[t] # None PROVE t \in Owned
        <4>1. PICK rows \in [Tables -> Uploads \union {None}] :
                /\ LET found == { RowsOf(x) : x \in { y \in Loadable : tableOf[y] = t } }
                   IN  rows[t] \in IF found = {} THEN {None} ELSE found
                /\ query' = [query EXCEPT !.at = "loaded", !.rows = rows]
          BY <2>2 DEF LoadTables
        <4>2. rows[t] # None
          BY <4>1, <3>1, <1>t
        <4>3. PICK x \in Loadable : tableOf[x] = t
          BY <4>1, <4>2
        <4>4. x \in Uploads /\ x \in manifest /\ pc[x] # "new"
          BY <1>n DEF Loadable
        <4> QED
          BY <4>3, <4>4, <1>o
      <3>2. { t \in Tables : query'.rows[t] # None } \subseteq Known
        BY <3>1, <1>h
      <3> QED
        BY <3>2, <1>k, <1>m DEF Numbers
    <2>3. CASE LoadLegacy /\ sess.df # None
      <3> DEFINE t == <<NameOf[sess.df], 1>>
                 rows == [NoRows EXCEPT ![t] = sess.df]
      <3>1. query'.rows = rows
        BY <2>3, <1>t DEF LoadLegacy
      <3>2. \A x \in Tables : rows[x] # None => x = t
        BY DEF NoRows
      <3>3. 1 <= Cardinality(Given(pc, NameOf[sess.df]))
        <4>1. sess.df \in Given(pc, NameOf[sess.df])
          BY <2>3, <1>t, <1>n DEF Given, Numbered
        <4>2. Given(pc, NameOf[sess.df]) \subseteq Uploads
          BY DEF Given
        <4>3. IsFiniteSet(Given(pc, NameOf[sess.df]))
          BY <4>2, SourcesAssumption, FS_Subset
        <4> QED
          BY <4>1, <4>3, FS_EmptySet, FS_CardinalityType
      <3>4. Numbers(pc, { x \in Tables : query'.rows[x] # None })
        <4> HIDE DEF rows
        <4> QED
          BY <3>1, <3>2, <3>3 DEF Numbers
      <3> QED
        BY <3>4, <1>m
    <2>4. CASE ~LoadTables /\ ~(LoadLegacy /\ sess.df # None)
      <3>1. ASSUME NEW s \in Sources, Add(s) PROVE query' = query
        BY <3>1 DEF Add, ParseUpload, RegisterUpload, FinishUpload, Connect, ReadManifest,
                    SaveManifest, InsertCell, RefuseCell, RollBack, Withdraw, DropUpload
      <3>2. ASSUME NEW s \in Sources, Remove(s) PROVE query' = query
        BY <3>2 DEF Remove, BeginRemoval, Unlist, RemoveCell, ReadState, SyncState, DropBlob, GiveUp
      <3>8. ASSUME NEW s \in Sources, ReadNotebook(s) PROVE query' = query
        BY <3>8 DEF ReadNotebook
      <3>3. ASSUME Ask \/ Ensured \/ TouchReads PROVE query'.rows = query.rows
        BY <3>3, <1>t DEF Ask, Ensured, TouchReads
      <3>5. ASSUME Rebuild \/ Adopt \/ TouchWrites \/ EndQuery \/ Crash PROVE query'.rows = NoRows
        <4>1. \/ \E names : query' = [Idle EXCEPT !.at = "rebuilt", !.names = names]
              \/ query' \in {[Idle EXCEPT !.at = "running"], Idle}
          BY <3>5 DEF Rebuild, Adopt, TouchWrites, EndQuery, Crash
        <4>2. /\ \A names : [Idle EXCEPT !.at = "rebuilt", !.names = names].rows = NoRows
              /\ [Idle EXCEPT !.at = "running"].rows = NoRows /\ Idle.rows = NoRows
          BY DEF Idle
        <4> QED
          BY <4>1, <4>2
      <3>6. ASSUME LoadLegacy PROVE query'.rows = query.rows
        BY <3>6, <2>4, <1>t DEF LoadLegacy
      <3>7. ASSUME ClearSource \/ Lapse \/ Age \/ Sweep \/ UNCHANGED vars PROVE query' = query
        BY <3>7 DEF ClearSource, Lapse, Age, Sweep, vars
      <3>4. query'.rows \in {query.rows, NoRows}
        BY <2>4, <3>1, <3>2, <3>3, <3>5, <3>6, <3>7, <3>8 DEF Next, Change, Ensure
      <3> QED
        BY <2>1, <3>4
    <2> QED
      BY <2>2, <2>3, <2>4
  <1>4. sess'.df # None => pc'[sess'.df] # "new"
    <2>1. sess'.df # None => sess'.df \in Uploads /\ pc[sess'.df] # "new"
      <3>1. CASE sess'.df \in {sess.df, None}
        BY <3>1, <1>t, <1>n DEF Numbered
      <3>2. ASSUME NEW s \in Uploads, FinishUpload(s)
            PROVE  sess'.df = sess.df \/ (sess'.df = s /\ pc[s] # "new")
        BY <3>2, <1>t DEF FinishUpload, Load
      <3>3. ASSUME NEW s \in Sources, SyncState(s)
            PROVE  sess'.df # None => sess'.df \in Uploads /\ pc[sess'.df] # "new"
        <4> DEFINE rest == copy[s].sources \intersect Uploads
        <4>1. sess'.df \in {sess.df, None} \union rest
          <5>1. CASE sess' = IF copy[s].type = s THEN [sess EXCEPT !.type = "none"] ELSE sess
            BY <5>1, <1>t
          <5>2. ASSUME NEW df \in { r \in rest : parquet[tableOf[r]] # None } \union {sess.df},
                       sess'.df = df
                PROVE  sess'.df \in {sess.df, None} \union rest
            BY <5>2
          <5>3. CASE sess' = NoData(IF copy[s].type = "csv" THEN "none" ELSE sess.type)
            BY <5>3 DEF NoData
          <5> QED
            BY <3>3, <5>1, <5>2, <5>3 DEF SyncState
        <4> QED
          BY <4>1, <3>1, <1>n
      <3>4. ASSUME NEW s \in Sources, Add(s), ~(s \in Uploads /\ FinishUpload(s))
            PROVE  sess'.df = sess.df
        BY <3>4, <1>t DEF Add, ParseUpload, RegisterUpload, Connect, ReadManifest, SaveManifest,
                          InsertCell, RefuseCell, RollBack, Withdraw, DropUpload
      <3>5. ASSUME NEW s \in Sources, Remove(s), ~SyncState(s) PROVE sess' = sess
        BY <3>5 DEF Remove, BeginRemoval, Unlist, RemoveCell, ReadState, DropBlob, GiveUp
      <3>7. ASSUME NEW s \in Sources, ReadNotebook(s) PROVE sess' = sess
        BY <3>7 DEF ReadNotebook
      <3>6. CASE \/ ClearSource \/ Ask \/ Ensure \/ TouchReads \/ TouchWrites \/ EndQuery
                 \/ Lapse \/ Age \/ Sweep \/ Crash \/ UNCHANGED vars
        <4>1. sess'.df \in {sess.df, None}
          BY <3>6, <1>t
             DEF ClearSource, Ask, Ensure, Ensured, LoadTables, LoadLegacy, Rebuild, Adopt, Load,
                 TouchReads, TouchWrites, EndQuery, Lapse, Age, Sweep, Crash, vars
        <4> QED
          BY <4>1, <3>1
      <3> QED
        BY <3>1, <3>2, <3>3, <3>4, <3>5, <3>6, <3>7 DEF Next, Change
    <2> QED
      BY <2>1, <1>g
  <1>5. Numbers(pc', dir'.names) /\ Numbers(pc', query'.names)
    <2>1. Numbers(pc', Known)
      BY <1>k, <1>m
    <2> HIDE DEF Known
    <2> QED
      BY <2>1, <1>2 DEF Numbers
  <1> QED
    BY <1>1, <1>3, <1>4, <1>5 DEF Numbered

LEMMA TypesInvStep == TypesInv /\ [Next]_vars => TypesInv'
  BY TypesStep, NumbersStep, HeardStep DEF TypesInv

\* Every component has the type its operations expect, and no upload is left
\* without a table name: the numbers of the tables suffice for any uploads.
THEOREM SourcesTypes == Spec => []TypeOK
  <1>1. TypesInv => TypeOK
    BY DEF TypesInv
  <1> QED
    BY <1>1, TypesInitially, TypesInvStep, PTL DEF Spec


-----------------------------------------------------------------------------
(* Listings, blobs and settled changes                                      *)

Reading == {"read", "saved", "noted", "refused", "removing"}

\* Of changes that did not cross, one at a time goes by what it read.
Apart == \A r \in Sources : ~Crossed(r) /\ pc[r] \in Holding => Holders(r) = {}

\* What the others read is still so, as far as a source that crossed nobody is
\* concerned: only its own change adds it or takes it away.
Copied(s, r) ==
    /\ pc[s] \in Reading => (r \in copy[s].sources <=> r \in manifest)
    /\ pc[s] \in {"noted", "erasing"} => (r \in copy[s].cells <=> r \in cells)

Faithful == \A s, r \in Sources : s # r /\ ~Crossed(r) => Copied(s, r)

\* Where a change is tells what there is of its source.
Entered(s) ==
    s \in manifest =>
        \/ pc[s] \in {"saved", "noted", "refused", "bound", "typed", "listed", "removing",
                      "stuck", "dead"}
        \/ pc[s] \in {"withdrawn", "dropping", "failed"} /\ Left(s, "entry")
Celled(s) ==
    s \in cells => pc[s] \in {"bound", "typed", "listed", "removing", "unlisted", "erasing",
                              "stuck", "dead"}
Blobbed(s) ==
    /\ s \in blobs => pc[s] \notin {"new", "gone"} /\ (pc[s] = "failed" => Left(s, "blob"))
    /\ s \in Uploads /\ pc[s] \notin {"new", "gone", "failed"} /\ ~Left(s, "entry") => s \in blobs
Unread(s) == pc[s] \in {"read", "saved", "noted", "refused"} => s \notin copy[s].sources

Placed(s)  == Entered(s) /\ Celled(s) /\ Blobbed(s) /\ Unread(s)
SourcesInv == TypesInv /\ Apart /\ Faithful /\ \A s \in Sources : ~Crossed(s) => Placed(s)

\* What a step of the change of s may touch.
Touches(s) ==
    /\ \E where : pc' = [pc EXCEPT ![s] = where]
    /\ \A q \in Sources \ {s} : copy'[q] = copy[q]
    /\ past.crossed \subseteq past'.crossed /\ past.left \subseteq past'.left
    /\ \A q \in Sources \ {s} : \A what : <<q, what>> \in past'.left => <<q, what>> \in past.left
    /\ \A q \in Sources \ {s} : q \in blobs' <=> q \in blobs
    /\ \/ manifest' = manifest
       \/ /\ pc[s] \in Reading
          /\ \A q \in Sources \ {s} : q \in manifest' <=> q \in copy[s].sources
    /\ \/ cells' = cells
       \/ /\ pc[s] \in {"noted", "erasing"}
          /\ \A q \in Sources \ {s} : q \in cells' <=> q \in copy[s].cells

LEMMA ChangeTouches ==
    ASSUME TypesInv, NEW s \in Sources, Change(s)
    PROVE  Touches(s)
  <1>t. past \in Pasts /\ copy \in [Sources -> Copies] /\ Uploads \subseteq Sources
    BY DEF TypesInv, TypeOK, Pasts, Copies, Sources
  <1>p. ASSUME \/ past' \in {past, Cross(s)}
               \/ s \in Uploads /\ past' \in {Leave(s, "entry"), Leave(s, "blob"), Drop({s})}
               \/ \E us \in SUBSET Uploads : past' = Drop(us)
        PROVE  /\ past.crossed \subseteq past'.crossed /\ past.left \subseteq past'.left
               /\ \A q \in Sources \ {s} : \A what :
                      <<q, what>> \in past'.left => <<q, what>> \in past.left
    <2>1. CASE past' \in {past, Cross(s)}
      BY <2>1, <1>t, CrossTold
    <2>2. ASSUME s \in Uploads, NEW w \in {"entry", "blob"}, past' = Leave(s, w)
          PROVE  /\ past.crossed \subseteq past'.crossed /\ past.left \subseteq past'.left
                 /\ \A q \in Sources \ {s} : \A what :
                      <<q, what>> \in past'.left => <<q, what>> \in past.left
      <3>1. past'.left = past.left \union {<<s, w>>} /\ past'.crossed = past.crossed
        BY <2>2, <1>t, LeaveTold
      <3> QED
        BY <3>1
    <2>3. ASSUME NEW us \in SUBSET Uploads, past' = Drop(us)
          PROVE  past'.left = past.left /\ past'.crossed = past.crossed
      BY <2>3, <1>t, DropTold
    <2>4. {s} \in SUBSET Uploads \/ s \notin Uploads
      OBVIOUS
    <2> QED
      BY <1>p, <2>1, <2>2, <2>3, <2>4
  <1>c. ASSUME Forget(s) \/ UNCHANGED copy
               \/ (\E r : copy' = [copy EXCEPT ![s].sources = r])
               \/ (\E r : copy' = [copy EXCEPT ![s].cells = r])
               \/ (\E r : copy' = [copy EXCEPT ![s].names = r])
               \/ (\E r : copy' = [copy EXCEPT ![s] = r])
        PROVE  \A q \in Sources \ {s} : copy'[q] = copy[q]
    BY <1>c, <1>t DEF Forget
  <1> USE DEF Touches, Goto
  <1>1. ASSUME s \in Uploads, ParseUpload(s) PROVE Touches(s)
    BY <1>1, <1>c, <1>p DEF ParseUpload
  <1>2. ASSUME s \in Uploads, RegisterUpload(s) PROVE Touches(s)
    BY <1>2, <1>c, <1>p DEF RegisterUpload, stores
  <1>3. ASSUME s \in Uploads, FinishUpload(s) PROVE Touches(s)
    BY <1>3, <1>c, <1>p DEF FinishUpload, stores
  <1>4. ASSUME s \in Uploads, RollBack(s) PROVE Touches(s)
    BY <1>4, <1>c, <1>p DEF RollBack, Restore, Reading
  <1>5. ASSUME s \in Uploads, Withdraw(s) \/ DropUpload(s) PROVE Touches(s)
    BY <1>5, <1>c, <1>p DEF Withdraw, DropUpload, stores
  <1>6. ASSUME s \in Links, Connect(s) PROVE Touches(s)
    BY <1>6, <1>c, <1>p DEF Connect, stores
  <1>7. ASSUME ReadManifest(s) PROVE Touches(s)
    BY <1>7, <1>c, <1>p DEF ReadManifest
  <1>8. ASSUME SaveManifest(s) PROVE Touches(s)
    BY <1>8, <1>c, <1>p DEF SaveManifest, Reading
  <1>9. ASSUME InsertCell(s) \/ RefuseCell(s) PROVE Touches(s)
    BY <1>9, <1>c, <1>p DEF InsertCell, RefuseCell, stores
  <1>10. ASSUME BeginRemoval(s) PROVE Touches(s)
    <2>1. /\ past.crossed \subseteq past'.crossed /\ past.left = past'.left
      <3>1. /\ Cross(s) \in Pasts /\ Cross(s).left = past.left
            /\ past.crossed \subseteq Cross(s).crossed
        BY <1>t, CrossTold
      <3>2. past' = Cross(s) \/ past' = [Cross(s) EXCEPT !.dropped = @ \union {s}]
        BY <1>10 DEF BeginRemoval
      <3> QED
        BY <3>1, <3>2 DEF Pasts
    <2> QED
      BY <1>10, <2>1, <1>c DEF BeginRemoval
  <1>11. ASSUME Unlist(s) PROVE Touches(s)
    BY <1>11, <1>c, <1>p DEF Unlist, Reading
  <1>12. ASSUME RemoveCell(s) PROVE Touches(s)
    BY <1>12, <1>c, <1>p DEF RemoveCell
  <1>13. ASSUME DropBlob(s) PROVE Touches(s)
    <2>1. {s} \intersect Uploads \in SUBSET Uploads
      OBVIOUS
    <2> QED
      BY <1>13, <2>1, <1>c, <1>p DEF DropBlob
  <1>14. ASSUME ReadState(s) \/ GiveUp(s) PROVE Touches(s)
    BY <1>14, <1>c, <1>p DEF ReadState, GiveUp, stores
  <1>15. ASSUME SyncState(s) PROVE Touches(s)
    <2>1. { u \in Uploads : tableOf[u] \in copy[s].names } \in SUBSET Uploads
      OBVIOUS
    <2>2. past' = past \/ \E us \in SUBSET Uploads : past' = Drop(us)
      BY <1>15, <2>1 DEF SyncState
    <2>3. /\ pc' = [pc EXCEPT ![s] = "synced"] /\ Forget(s) /\ UNCHANGED stores
      BY <1>15 DEF SyncState
    <2> QED
      BY <2>2, <2>3, <1>c, <1>p DEF stores
  <1>16. ASSUME ReadNotebook(s) PROVE Touches(s)
    BY <1>16, <1>c, <1>p DEF ReadNotebook, stores
  <1> QED
    BY <1>1, <1>2, <1>3, <1>4, <1>5, <1>6, <1>7, <1>8, <1>9, <1>10, <1>11, <1>12, <1>13, <1>14,
       <1>15, <1>16 DEF Change, Add, Remove

\* All other steps leave listings, cells, blobs and the history of them alone.
LEMMA OthersTouch ==
    ASSUME TypesInv, [Next]_vars, \A s \in Sources : ~Change(s)
    PROVE  /\ UNCHANGED <<manifest, cells, blobs>>
           /\ past'.crossed = past.crossed /\ past'.left = past.left
           /\ UNCHANGED <<pc, copy>> \/ Crash
  <1>t. past \in Pasts
    BY DEF TypesInv, TypeOK, Pasts
  <1>1. CASE LoadTables
    BY <1>1, <1>t DEF LoadTables, Pasts
  <1>2. CASE \/ ClearSource \/ Ask \/ Ensured \/ LoadLegacy \/ Rebuild \/ Adopt \/ TouchReads
             \/ TouchWrites \/ EndQuery \/ Lapse \/ Age \/ Sweep \/ UNCHANGED vars
    BY <1>2 DEF ClearSource, Ask, Ensured, LoadLegacy, Rebuild, Adopt, TouchReads, TouchWrites,
                EndQuery, Lapse, Age, Sweep, vars, stores, calls
  <1>3. CASE Crash
    BY <1>3 DEF Crash
  <1> QED
    BY <1>1, <1>2, <1>3 DEF Next, Ensure

\* A change that enters where others are marks itself and them as crossed.
LEMMA Entering ==
    ASSUME TypesInv, NEW s \in Sources, Change(s), pc[s] \notin Holding, pc'[s] \in Holding
    PROVE  /\ Holders(s) \subseteq past'.crossed
           /\ Holders(s) # {} => s \in past'.crossed
  <1>t. past \in Pasts /\ pc \in [Sources -> Resting \union Working]
    BY DEF TypesInv, TypeOK, Pasts, Working
  <1>c. /\ Cross(s) \in Pasts /\ Holders(s) \subseteq Cross(s).crossed
        /\ Holders(s) # {} => s \in Cross(s).crossed
    BY <1>t, CrossTold
  <1>1. past'.crossed = Cross(s).crossed
    <2> USE DEF Goto, Holding
    <2>1. CASE BeginRemoval(s)
      BY <2>1, <1>c DEF BeginRemoval, Pasts
    <2>2. CASE ReadManifest(s)
      BY <2>2, <1>c, <1>t DEF ReadManifest
    <2>3. ASSUME s \in Uploads, ParseUpload(s) \/ RegisterUpload(s) \/ FinishUpload(s) PROVE FALSE
      BY <2>3, <1>t DEF ParseUpload, RegisterUpload, FinishUpload
    <2>4. ASSUME s \in Uploads, RollBack(s) \/ Withdraw(s) \/ DropUpload(s) PROVE FALSE
      BY <2>4, <1>t DEF RollBack, Withdraw, DropUpload
    <2>5. ASSUME \/ (s \in Links /\ Connect(s)) \/ SaveManifest(s) \/ InsertCell(s) \/ RefuseCell(s)
                 \/ ReadNotebook(s)
          PROVE  FALSE
      BY <2>5, <1>t DEF Connect, SaveManifest, InsertCell, RefuseCell, ReadNotebook
    <2>6. ASSUME Unlist(s) \/ RemoveCell(s) \/ ReadState(s) \/ SyncState(s) \/ DropBlob(s) \/ GiveUp(s)
          PROVE  FALSE
      BY <2>6, <1>t DEF Unlist, RemoveCell, ReadState, SyncState, DropBlob, GiveUp
    <2> QED
      BY <2>1, <2>2, <2>3, <2>4, <2>5, <2>6 DEF Change, Add, Remove
  <1> QED
    BY <1>1, <1>c

LEMMA ApartStep == SourcesInv /\ [Next]_vars => Apart'
  <1> SUFFICES ASSUME SourcesInv, [Next]_vars, NEW r \in Sources, r \notin past'.crossed,
                      pc'[r] \in Holding, NEW q \in Sources \ {r}, pc'[q] \in Holding
               PROVE  FALSE
    BY DEF Apart, Holders, Crossed
  <1>t. /\ pc \in [Sources -> Resting \union Working] /\ TypesInv
        /\ \A x \in Sources : ~Crossed(x) /\ pc[x] \in Holding => Holders(x) = {}
    BY DEF SourcesInv, TypesInv, TypeOK, Working, Apart
  <1>1. ASSUME NEW s \in Sources, Change(s) PROVE FALSE
    <2>1. Touches(s)
      BY <1>1, <1>t, ChangeTouches
    <2>2. r \notin past.crossed /\ \A x \in Sources \ {s} : pc'[x] = pc[x]
      BY <2>1, <1>t DEF Touches
    <2>3. pc[r] \in Holding => pc[q] \notin Holding
      BY <2>2, <1>t DEF Holders, Crossed
    <2>4. s \in {r, q} /\ pc[s] \notin Holding /\ pc'[s] \in Holding
      BY <2>2, <2>3
    <2>5. Holders(s) \subseteq past'.crossed /\ (Holders(s) # {} => s \in past'.crossed)
      BY <2>4, <1>1, <1>t, Entering
    <2>6. r \in Holders(s) \/ (s = r /\ q \in Holders(s))
      BY <2>2, <2>4 DEF Holders
    <2> QED
      BY <2>5, <2>6
  <1>2. CASE \A s \in Sources : ~Change(s)
    <2>1. past'.crossed = past.crossed /\ (UNCHANGED <<pc, copy>> \/ Crash)
      BY <1>2, <1>t, OthersTouch
    <2>2. Crash => pc'[r] \notin Holding
      BY <1>t DEF Crash, Holding, Resting
    <2> QED
      BY <2>1, <2>2, <1>t DEF Holders, Crossed
  <1> QED
    BY <1>1, <1>2

\* A source that crossed nobody is changed by its own change alone.
LEMMA OwnOnly ==
    ASSUME SourcesInv, NEW s \in Sources, Change(s), NEW r \in Sources, s # r, r \notin past'.crossed
    PROVE  /\ r \in manifest' <=> r \in manifest
           /\ r \in cells' <=> r \in cells
           /\ r \in blobs' <=> r \in blobs
           /\ \A what : <<r, what>> \in past'.left <=> <<r, what>> \in past.left
           /\ pc'[r] = pc[r] /\ copy'[r] = copy[r]
           /\ r \notin past.crossed
  <1>t. TypesInv /\ pc \in [Sources -> Resting \union Working]
    BY DEF SourcesInv, TypesInv, TypeOK, Working
  <1>1. Touches(s)
    BY <1>t, ChangeTouches
  <1>2. r \notin past.crossed /\ Copied(s, r)
    BY <1>1 DEF Touches, SourcesInv, Faithful, Crossed
  <1> QED
    BY <1>1, <1>2, <1>t DEF Touches, Copied

\* What one step of a change does to what it has read.
LEMMA Rereads ==
    ASSUME TypesInv, NEW s \in Sources, Change(s)
    PROVE  /\ pc'[s] \in Reading =>
                \/ copy'[s].sources = manifest /\ manifest' = manifest
                \/ pc[s] \in Reading /\ copy'[s].sources = copy[s].sources
           /\ pc'[s] \in {"noted", "erasing"} => copy'[s].cells = cells /\ cells' = cells
  <1>t. /\ copy \in [Sources -> Copies] /\ manifest \in SUBSET Sources /\ cells \in SUBSET Sources
        /\ pc \in [Sources -> Resting \union Working]
    BY DEF TypesInv, TypeOK, Copies, Working
  <1> USE DEF Goto, Reading
  <1> DEFINE Goal == /\ pc'[s] \in Reading =>
                          \/ copy'[s].sources = manifest /\ manifest' = manifest
                          \/ pc[s] \in Reading /\ copy'[s].sources = copy[s].sources
                     /\ pc'[s] \in {"noted", "erasing"} => copy'[s].cells = cells /\ cells' = cells
  <1>1. CASE BeginRemoval(s)
    BY <1>1, <1>t, CopyRead DEF BeginRemoval
  <1>2. CASE ReadManifest(s)
    BY <1>2, <1>t, CopyRead DEF ReadManifest
  <1>3. CASE ReadNotebook(s)
    <2>1. copy'[s].cells = cells /\ copy'[s].sources = copy[s].sources /\ cells' = cells
      BY <1>3, <1>t, CopyNoted DEF ReadNotebook, stores
    <2> QED
      BY <2>1, <1>3, <1>t DEF ReadNotebook
  <1>4. CASE SaveManifest(s) \/ RefuseCell(s)
    BY <1>4, <1>t DEF SaveManifest, RefuseCell
  <1>5. ASSUME s \in Uploads, ParseUpload(s) \/ RegisterUpload(s) \/ FinishUpload(s) PROVE Goal
    BY <1>5, <1>t DEF ParseUpload, RegisterUpload, FinishUpload
  <1>6. ASSUME s \in Uploads, RollBack(s) \/ Withdraw(s) \/ DropUpload(s) PROVE Goal
    BY <1>6, <1>t DEF RollBack, Withdraw, DropUpload
  <1>7. ASSUME (s \in Links /\ Connect(s)) \/ InsertCell(s) PROVE Goal
    BY <1>7, <1>t DEF Connect, InsertCell
  <1>8. ASSUME Unlist(s) \/ RemoveCell(s) \/ ReadState(s) \/ SyncState(s) \/ DropBlob(s) \/ GiveUp(s)
        PROVE  Goal
    BY <1>8, <1>t DEF Unlist, RemoveCell, ReadState, SyncState, DropBlob, GiveUp
  <1> QED
    BY <1>1, <1>2, <1>3, <1>4, <1>5, <1>6, <1>7, <1>8 DEF Change, Add, Remove

LEMMA FaithfulStep == SourcesInv /\ [Next]_vars => Faithful'
  <1> SUFFICES ASSUME SourcesInv, [Next]_vars, NEW q \in Sources, NEW r \in Sources, q # r,
                      r \notin past'.crossed
               PROVE  Copied(q, r)'
    BY DEF Faithful, Crossed
  <1>t. TypesInv /\ pc \in [Sources -> Resting \union Working]
    BY DEF SourcesInv, TypesInv, TypeOK, Working
  <1>1. ASSUME NEW s \in Sources, Change(s) PROVE Copied(q, r)'
    <2>1. Touches(s)
      BY <1>1, <1>t, ChangeTouches
    <2>2. r \notin past.crossed /\ Copied(q, r)
      BY <2>1 DEF Touches, SourcesInv, Faithful, Crossed
    <2>3. CASE s = r
      <3>1. pc'[q] = pc[q] /\ copy'[q] = copy[q]
        BY <2>1, <2>3, <1>t DEF Touches
      <3>2. pc[q] \in Holding => manifest' = manifest /\ cells' = cells
        <4>1. pc[q] \in Holding => pc[r] \notin Holding
          BY <2>2 DEF SourcesInv, Apart, Holders, Crossed
        <4> QED
          BY <4>1, <2>1, <2>3 DEF Touches, Reading, Holding
      <3> QED
        BY <3>1, <3>2, <2>2 DEF Copied, Reading, Holding
    <2>4. CASE s # r
      <3>1. (r \in manifest' <=> r \in manifest) /\ (r \in cells' <=> r \in cells)
        BY <1>1, <2>4, OwnOnly
      <3>2. CASE q = s
        BY <3>1, <3>2, <1>1, <1>t, <2>2, Rereads DEF Copied
      <3>3. CASE q # s
        <4>1. pc'[q] = pc[q] /\ copy'[q] = copy[q]
          BY <2>1, <3>3, <1>t DEF Touches
        <4> QED
          BY <3>1, <4>1, <2>2 DEF Copied
      <3> QED
        BY <3>2, <3>3
    <2> QED
      BY <2>3, <2>4
  <1>2. CASE \A s \in Sources : ~Change(s)
    <2>1. /\ UNCHANGED <<manifest, cells>> /\ past'.crossed = past.crossed
          /\ UNCHANGED <<pc, copy>> \/ Crash
      BY <1>2, <1>t, OthersTouch
    <2>2. Crash => pc'[q] \notin Reading \union {"noted", "erasing"}
      BY <1>t DEF Crash, Reading, Resting
    <2> QED
      BY <2>1, <2>2 DEF Copied, SourcesInv, Faithful, Crossed
  <1> QED
    BY <1>1, <1>2

LEMMA PlacedStep == SourcesInv /\ [Next]_vars => \A s \in Sources : ~Crossed(s)' => Placed(s)'
  <1> SUFFICES ASSUME SourcesInv, [Next]_vars, NEW r \in Sources, r \notin past'.crossed
               PROVE  Placed(r)'
    BY DEF Crossed
  <1>t. /\ TypesInv /\ pc \in [Sources -> Resting \union Working] /\ past \in Pasts
        /\ copy \in [Sources -> Copies]
        /\ Uploads \subseteq Sources /\ Uploads \intersect Links = {}
        /\ blobs \subseteq Uploads /\ manifest \in SUBSET Sources
    BY SourcesAssumption DEF SourcesInv, TypesInv, TypeOK, Working, Sources, Pasts, Copies
  <1>1. ASSUME NEW s \in Sources, Change(s), s # r PROVE Placed(r)'
    <2>1. /\ r \in manifest' <=> r \in manifest
          /\ r \in cells' <=> r \in cells
          /\ r \in blobs' <=> r \in blobs
          /\ \A what : <<r, what>> \in past'.left <=> <<r, what>> \in past.left
          /\ pc'[r] = pc[r] /\ copy'[r] = copy[r] /\ r \notin past.crossed
      BY <1>1, OwnOnly
    <2>2. Placed(r)
      BY <2>1 DEF SourcesInv, Crossed
    <2> QED
      BY <2>1, <2>2 DEF Placed, Entered, Celled, Blobbed, Unread, Left
  <1>2. ASSUME Change(r) PROVE Placed(r)'
    <2>1. Touches(r) /\ r \notin past.crossed
      BY <1>2, <1>t, ChangeTouches DEF Touches
    <2>2. Placed(r)
      BY <2>1 DEF SourcesInv, Crossed
    <2>3. \A what : <<r, what>> \in past.left => <<r, what>> \in past'.left
      BY <2>1 DEF Touches
    <2>n. pc[r] = "new" /\ r \in Uploads => r \notin manifest
      BY <1>t DEF TypesInv, Heard, Unheard
    <2> USE DEF Placed, Entered, Celled, Blobbed, Unread, Left, Goto, stores
    <2>4. ASSUME r \in Uploads, ParseUpload(r) PROVE Placed(r)'
      BY <2>4, <2>2, <2>3, <1>t DEF ParseUpload
    <2>5. ASSUME r \in Uploads, RegisterUpload(r) PROVE Placed(r)'
      BY <2>5, <2>2, <2>3, <1>t DEF RegisterUpload
    <2>6. ASSUME r \in Uploads, FinishUpload(r) PROVE Placed(r)'
      BY <2>6, <2>2, <2>3, <1>t DEF FinishUpload
    <2>7. ASSUME r \in Uploads, RollBack(r) PROVE Placed(r)'
      <3>1. /\ pc[r] = "refused" /\ pc'[r] = "withdrawn" /\ UNCHANGED <<cells, blobs>>
            /\ manifest' = copy[r].sources \/ past' = Leave(r, "entry")
        BY <2>7, <1>t DEF RollBack, Restore
      <3>2. past' = Leave(r, "entry") => <<r, "entry">> \in past'.left
        BY <2>7, <1>t, LeaveTold
      <3> QED
        BY <3>1, <3>2, <2>2, <2>3
    <2>8. ASSUME r \in Uploads, Withdraw(r) PROVE Placed(r)'
      BY <2>8, <2>2, <2>3, <1>t DEF Withdraw
    <2>9. ASSUME r \in Uploads, DropUpload(r) PROVE Placed(r)'
      <3>1. /\ pc[r] = "dropping" /\ pc'[r] = "failed" /\ UNCHANGED <<cells, manifest>>
            /\ r \notin blobs' \/ past' = Leave(r, "blob")
        BY <2>9, <1>t DEF DropUpload
      <3>2. past' = Leave(r, "blob") => <<r, "blob">> \in past'.left
        BY <2>9, <1>t, LeaveTold
      <3> QED
        BY <3>1, <3>2, <2>2, <2>3
    <2>10. ASSUME r \in Links, Connect(r) PROVE Placed(r)'
      BY <2>10, <2>2, <2>3, <1>t DEF Connect
    <2>11. ASSUME ReadManifest(r) PROVE Placed(r)'
      <3>1. CASE pc'[r] = "read"
        <4>1. /\ copy' = [copy EXCEPT ![r].sources = manifest] /\ pc[r] = "registered"
              /\ UNCHANGED <<manifest, cells, blobs>>
          BY <2>11, <3>1, <1>t DEF ReadManifest
        <4>2. copy'[r].sources = manifest
          BY <4>1, <1>t, CopyRead
        <4> QED
          BY <3>1, <4>1, <4>2, <2>2, <2>3
      <3>2. CASE pc'[r] # "read"
        BY <2>11, <3>2, <2>2, <2>3, <1>t DEF ReadManifest
      <3> QED
        BY <3>1, <3>2
    <2>12. ASSUME SaveManifest(r) PROVE Placed(r)'
      BY <2>12, <2>2, <2>3, <1>t DEF SaveManifest
    <2>13. ASSUME ReadNotebook(r) PROVE Placed(r)'
      <3>1. /\ copy'[r].sources = copy[r].sources /\ UNCHANGED <<manifest, cells, blobs>>
            /\ \/ pc[r] = "saved" /\ pc'[r] = "noted"
               \/ pc[r] = "unlisted" /\ pc'[r] = "erasing"
        BY <2>13, <1>t, CopyNoted DEF ReadNotebook
      <3> QED
        BY <3>1, <2>2, <2>3
    <2>14. ASSUME InsertCell(r) \/ RefuseCell(r) PROVE Placed(r)'
      BY <2>14, <2>2, <2>3, <1>t DEF InsertCell, RefuseCell
    <2>15. ASSUME BeginRemoval(r) PROVE Placed(r)'
      <3>1. /\ pc[r] \in Resting /\ r \in manifest /\ pc'[r] = "removing"
            /\ UNCHANGED <<manifest, cells, blobs>>
        BY <2>15, <1>t DEF BeginRemoval
      <3>2. pc[r] # "gone" /\ pc[r] # "new" /\ (pc[r] = "failed" => <<r, "entry">> \in past'.left)
        BY <3>1, <2>2, <2>3
      <3>3. /\ r \in blobs => pc[r] \notin {"new", "gone"}
            /\ r \in Uploads /\ pc[r] \notin {"new", "gone", "failed"} /\ <<r, "entry">> \notin past.left
                 => r \in blobs
        BY <2>2
      <3> QED
        BY <3>1, <3>2, <3>3, <2>3
    <2>16. ASSUME Unlist(r) PROVE Placed(r)'
      BY <2>16, <2>2, <2>3, <1>t DEF Unlist
    <2>17. ASSUME RemoveCell(r) PROVE Placed(r)'
      BY <2>17, <2>2, <2>3, <1>t DEF RemoveCell
    <2>18. ASSUME ReadState(r) \/ GiveUp(r) PROVE Placed(r)'
      BY <2>18, <2>2, <2>3, <1>t DEF ReadState, GiveUp
    <2>19. ASSUME SyncState(r) PROVE Placed(r)'
      <3>1. /\ pc[r] = "syncing" /\ pc'[r] = "synced" /\ UNCHANGED <<manifest, cells, blobs>>
        BY <2>19, <1>t DEF SyncState
      <3> QED
        BY <3>1, <2>2, <2>3
    <2>20. ASSUME DropBlob(r) PROVE Placed(r)'
      BY <2>20, <2>2, <2>3, <1>t DEF DropBlob
    <2> QED
      BY <1>2, <2>4, <2>5, <2>6, <2>7, <2>8, <2>9, <2>10, <2>11, <2>12, <2>13, <2>14, <2>15, <2>16,
         <2>17, <2>18, <2>19, <2>20 DEF Change, Add, Remove
  <1>3. CASE \A s \in Sources : ~Change(s)
    <2>1. /\ UNCHANGED <<manifest, cells, blobs>>
          /\ past'.crossed = past.crossed /\ past'.left = past.left
          /\ UNCHANGED <<pc, copy>> \/ Crash
      BY <1>3, <1>t, OthersTouch
    <2>2. Placed(r)
      BY <2>1 DEF SourcesInv, Crossed
    <2>3. Crash => pc'[r] = IF pc[r] \in Resting THEN pc[r] ELSE "dead"
      BY DEF Crash
    <2>4. pc[r] \in {"withdrawn", "dropping"} => pc[r] \notin Resting
      BY DEF Resting
    <2> QED
      BY <2>1, <2>2, <2>3, <2>4 DEF Placed, Entered, Celled, Blobbed, Unread, Left, Resting
  <1> QED
    BY <1>1, <1>2, <1>3

LEMMA SourcesStep == SourcesInv /\ [Next]_vars => SourcesInv'
  BY TypesInvStep, ApartStep, FaithfulStep, PlacedStep DEF SourcesInv

LEMMA SourcesInitially == Init => SourcesInv
  <1> SUFFICES ASSUME Init PROVE SourcesInv
    OBVIOUS
  <1>1. manifest = {} /\ cells = {} /\ blobs = {} /\ \A s \in Sources : pc[s] = "new"
    BY DEF Init
  <1>2. Apart /\ Faithful
    BY <1>1 DEF Apart, Faithful, Copied, Holding, Reading
  <1>3. \A s \in Sources : Placed(s)
    BY <1>1 DEF Placed, Entered, Celled, Blobbed, Unread
  <1> QED
    BY <1>2, <1>3, TypesInitially DEF SourcesInv

LEMMA SourcesImply == SourcesInv => ListingsHold
  <1> SUFFICES ASSUME SourcesInv PROVE ListingsHold
    OBVIOUS
  <1>1. Uploads \subseteq Sources /\ \A s \in Sources : ~Crossed(s) => Placed(s)
    BY DEF SourcesInv, Sources
  <1>2. ASSUME NEW u \in manifest \intersect Uploads, ~Crossed(u), ~Left(u, "entry") PROVE u \in blobs
    BY <1>1, <1>2 DEF Placed, Entered, Blobbed
  <1>3. ASSUME NEW s \in Sources, pc[s] = "gone" \/ (s \in Uploads /\ pc[s] = "failed"), ~Crossed(s)
        PROVE  /\ s \notin cells
               /\ s \in manifest => pc[s] = "failed" /\ Left(s, "entry")
               /\ s \in blobs => pc[s] = "failed" /\ Left(s, "blob")
    BY <1>1, <1>3 DEF Placed, Entered, Celled, Blobbed
  <1> QED
    BY <1>2, <1>3 DEF ListingsHold, ListedIsDurable, ChangesSettle

\* A listed upload has its blob, and a failed upload or a confirmed removal leaves
\* nothing behind, through failing calls and crashes and whatever changes of other
\* sources do meanwhile, crossing one another or not.  What is excepted is
\* excepted source by source: the thing a roll-back failed to take back, and a
\* source whose own change crossed another (TabularUploadService.ingest_files,
\* DataSourceService.remove_source).
THEOREM SourcesHold == Spec => []ListingsHold
  <1> QED
    BY SourcesInitially, SourcesStep, SourcesImply, PTL DEF Spec

-----------------------------------------------------------------------------
(* The tables of the runtime                                                *)

Standing(u) == dir.age # "old" /\ dir.rows[tableOf[u]] # None

\* An upload that was neither removed nor withdrawn has its blob; its table
\* stands until it is listed, and from then on a rebuild has read it or finds it
\* standing.
Stays(u)   == pc[u] # "new" /\ ~Dropped(u) => u \in blobs
Stands(u)  == pc[u] \in {"registered", "read"} /\ ~Dropped(u) => Standing(u)
Covered(u) == u \in manifest /\ query.at = "loaded" /\ ~Dropped(u) =>
                  query.rows[tableOf[u]] # None \/ Standing(u)

Kept       == \A u \in Uploads : Stays(u) /\ (Alone(u) /\ ~Crossed(u) => Stands(u) /\ Covered(u))
RuntimeInv == SourcesInv /\ Kept

LEMMA RowStays ==
    ASSUME NEW d \in Dirs, NEW ts \in SUBSET Tables, NEW rows \in Rows, NEW t \in Tables,
           d.age # "old", d.rows[t] # None, t \notin ts \/ rows[t] # None
    PROVE  Registered(d, ts, rows).age # "old" /\ Registered(d, ts, rows).rows[t] # None
  <1>1. Registered(d, ts, rows).age = "fresh"
    BY RegisteredDir
  <1>2. CASE t \in ts
    <2>1. Registered(d, ts, rows).rows[t] = rows[t]
      BY <1>2, RegisteredDir
    <2> QED
      BY <1>1, <1>2, <2>1
  <1>3. CASE t \notin ts
    <2>1. Registered(d, ts, rows).rows[t] = Cleaned(d).rows[t]
      BY <1>3, RegisteredDir
    <2>2. Cleaned(d) = d
      BY CleanedDir
    <2> QED
      BY <1>1, <2>1, <2>2
  <1> QED
    BY <1>2, <1>3

\* What a step does to a table that stands: only time, a crash and a step that is
\* recorded as dropping it take it away.
LEMMA StandingStays ==
    ASSUME TypesInv, [Next]_vars, NEW u \in Uploads, pc[u] # "new", Alone(u), Standing(u),
           ~Age, ~Crash, u \notin past'.dropped
    PROVE  Standing(u)'
  <1> DEFINE T == tableOf[u]
             Still == dir'.age # "old" /\ dir'.rows[T] # None
  <1>t. dir \in Dirs /\ query.rows \in Rows /\ T \in Tables /\ u \in Sources /\ None \notin Uploads
    BY SourcesAssumption DEF TypesInv, TypeOK, Numbered, Dirs, Rows, Sources
  <1>s. dir.age # "old" /\ dir.rows[T] # None /\ tableOf'[u] = T
    BY GivenStays DEF Standing
  <1>b. past \in Pasts /\ copy \in [Sources -> Copies]
    BY DEF TypesInv, TypeOK, Pasts, Copies
  <1>a. \A s \in Uploads : pc[s] # "new" => tableOf[s] \in Tables /\ (s # u => tableOf[s] # T)
    BY DEF Alone, TypesInv, Numbered
  <1>d. /\ \A ts \in SUBSET Tables : T \notin ts =>
               Unregistered(dir, ts).age # "old" /\ Unregistered(dir, ts).rows[T] # None
        /\ \A ts \in SUBSET Tables, rows \in Rows : T \in ts /\ rows[T] # None =>
               Registered(dir, ts, rows).age # "old" /\ Registered(dir, ts, rows).rows[T] # None
        /\ \A ts \in SUBSET Tables, rows \in Rows : T \notin ts =>
               Registered(dir, ts, rows).age # "old" /\ Registered(dir, ts, rows).rows[T] # None
        /\ Cleaned(dir) = dir
        /\ Touched(dir).age # "old" /\ Touched(dir).rows = dir.rows
        /\ \A names : [Touched(dir) EXCEPT !.names = names].age # "old"
        /\ \A names : [Touched(dir) EXCEPT !.names = names].rows = dir.rows
    <2>1. Cleaned(dir) = dir
      BY <1>t, <1>s, CleanedDir
    <2>2. Touched(dir) = [age |-> "fresh", db |-> dir.db, rows |-> dir.rows, names |-> dir.names]
      BY <1>t, TouchedDir
    <2>3. ASSUME NEW ts \in SUBSET Tables, T \notin ts
          PROVE  Unregistered(dir, ts).age # "old" /\ Unregistered(dir, ts).rows[T] # None
      <3> HIDE DEF T
      <3> QED
        BY <2>3, <1>t, <1>s, UnregisteredDir
    <2>4. ASSUME NEW ts \in SUBSET Tables, NEW rows \in Rows, T \notin ts \/ rows[T] # None
          PROVE  Registered(dir, ts, rows).age # "old" /\ Registered(dir, ts, rows).rows[T] # None
      <3> HIDE DEF T
      <3> QED
        BY <2>4, <1>t, <1>s, RowStays
    <2>5. /\ Touched(dir).age # "old" /\ Touched(dir).rows = dir.rows
          /\ \A names : [Touched(dir) EXCEPT !.names = names].age # "old"
          /\ \A names : [Touched(dir) EXCEPT !.names = names].rows = dir.rows
      BY <2>2
    <2> HIDE DEF T
    <2> QED
      BY <2>1, <2>3, <2>4, <2>5
  <1>x. ASSUME Still PROVE Standing(u)'
    BY <1>x, <1>s DEF Standing
  <1> HIDE DEF T
  <1>1. ASSUME dir' = dir PROVE Still
    BY <1>1, <1>s
  <1>2. ASSUME dir' = Touched(Cleaned(dir)) PROVE Still
    BY <1>2, <1>d, <1>s
  <1>3. ASSUME NEW s \in Uploads, s # u, pc[s] # "new", dir' = Unregistered(dir, {tableOf[s]})
        PROVE  Still
    <2>1. {tableOf[s]} \in SUBSET Tables /\ T \notin {tableOf[s]}
      BY <1>3, <1>a
    <2> QED
      BY <1>3, <2>1, <1>d
  <1>4. ASSUME NEW s \in Uploads, RegisterUpload(s) PROVE Still
    <2> DEFINE rows == [t \in Tables |-> s]
    <2>1. {tableOf[s]} \in SUBSET Tables
      BY <1>4, <1>a DEF RegisterUpload
    <2>2. rows \in Rows /\ rows[T] # None
      BY <1>t DEF Rows
    <2>3. dir' = Registered(dir, {tableOf[s]}, rows) \/ dir' = dir
      BY <1>4 DEF RegisterUpload
    <2> HIDE DEF rows
    <2>4. /\ Registered(dir, {tableOf[s]}, rows).age # "old"
          /\ Registered(dir, {tableOf[s]}, rows).rows[T] # None
      BY <2>1, <2>2, <1>d
    <2> QED
      BY <2>3, <2>4, <1>1
  <1>5. ASSUME Rebuild PROVE Still
    <2> DEFINE ts == { t \in Tables : query.rows[t] # None }
    <2>1. ts \in SUBSET Tables /\ (T \notin ts \/ query.rows[T] # None)
      BY <1>t
    <2>2. dir' = Registered(dir, ts, query.rows)
      BY <1>5 DEF Rebuild
    <2> HIDE DEF ts
    <2> QED
      BY <2>1, <2>2, <1>t, <1>d
  <1>6. ASSUME NEW s \in Sources, Add(s) PROVE Still
    <2>1. CASE s \in Uploads /\ ParseUpload(s)
      BY <2>1, <1>2 DEF ParseUpload
    <2>2. CASE s \in Uploads /\ Withdraw(s)
      <3>1. pc[s] = "withdrawn" /\ (dir' = dir \/ (dir' = Unregistered(dir, {tableOf[s]})
                                                /\ past' = Drop({s})))
        BY <2>2 DEF Withdraw
      <3>2. s \in Uploads /\ (past' = Drop({s}) => s # u)
        <4>1. past' = Drop({s}) => past'.dropped = past.dropped \union {s}
          BY <2>2, <1>b, DropTold
        <4> QED
          BY <4>1, <2>2
      <3> QED
        BY <3>1, <3>2, <1>1, <1>3
    <2>3. CASE \/ (s \in Uploads /\ (FinishUpload(s) \/ RollBack(s) \/ DropUpload(s)))
               \/ (s \in Links /\ Connect(s))
               \/ ReadManifest(s) \/ SaveManifest(s) \/ InsertCell(s) \/ RefuseCell(s)
      BY <2>3, <1>1 DEF FinishUpload, RollBack, DropUpload, Connect, ReadManifest, SaveManifest,
                        InsertCell, RefuseCell
    <2> QED
      BY <1>6, <1>4, <2>1, <2>2, <2>3 DEF Add
  <1>7. ASSUME NEW s \in Sources, Remove(s) PROVE Still
    <2>1. CASE BeginRemoval(s)
      <3>1. s \in Uploads => s # u /\ pc[s] # "new"
        <4>1. ASSUME s \in Uploads PROVE s \in past'.dropped
          <5>1. past' = [Cross(s) EXCEPT !.dropped = @ \union {s}] /\ Cross(s) \in Pasts
            BY <2>1, <4>1, <1>b, CrossTold DEF BeginRemoval
          <5> QED
            BY <5>1 DEF Pasts
        <4>2. s \in Uploads => pc[s] # "new"
          BY <2>1 DEF BeginRemoval, TypesInv, Heard, Unheard
        <4> QED
          BY <4>1, <4>2
      <3>2. (s \in Uploads /\ dir' = Unregistered(dir, {tableOf[s]})) \/ dir' = dir
        BY <2>1 DEF BeginRemoval
      <3> QED
        BY <3>1, <3>2, <1>1, <1>3
    <2>2. CASE SyncState(s)
      <3> DEFINE us == { x \in Uploads : tableOf[x] \in copy[s].names }
      <3>1. \/ dir' = dir \/ dir' = Touched(Cleaned(dir))
            \/ dir' = Unregistered(dir, copy[s].names) /\ past' = Drop(us)
        BY <2>2 DEF SyncState
      <3>2. ASSUME dir' = Unregistered(dir, copy[s].names), past' = Drop(us) PROVE Still
        <4>1. us \in SUBSET Uploads /\ (T \in copy[s].names => u \in us)
          BY DEF T
        <4> HIDE DEF us
        <4>2. past'.dropped = past.dropped \union us
          BY <3>2, <4>1, <1>b, DropTold
        <4>3. copy[s].names \in SUBSET Tables /\ T \notin copy[s].names
          BY <4>1, <4>2, <1>b DEF Copies
        <4> QED
          BY <3>2, <4>3, <1>d
      <3> QED
        BY <3>1, <3>2, <1>1, <1>2
    <2>3. CASE Unlist(s) \/ RemoveCell(s) \/ DropBlob(s) \/ ReadState(s) \/ GiveUp(s)
      BY <2>3, <1>1 DEF Unlist, RemoveCell, DropBlob, ReadState, GiveUp
    <2> QED
      BY <1>7, <2>1, <2>2, <2>3 DEF Remove
  <1>11. ASSUME NEW s \in Sources, ReadNotebook(s) PROVE Still
    BY <1>11, <1>1 DEF ReadNotebook
  <1>8. ASSUME \/ ClearSource \/ Ask \/ Ensured \/ LoadTables \/ LoadLegacy \/ Adopt
               \/ EndQuery \/ Lapse \/ UNCHANGED vars
        PROVE  Still
    BY <1>8, <1>1
       DEF ClearSource, Ask, Ensured, LoadTables, LoadLegacy, Adopt, EndQuery, Lapse, vars
  <1>9. ASSUME TouchReads \/ TouchWrites PROVE Still
    <2>1. CASE TouchReads
      BY <2>1, <1>d, <1>1 DEF TouchReads
    <2>2. CASE TouchWrites
      <3>1. dir' = [Touched(dir) EXCEPT !.names = query.names]
        BY <2>2 DEF TouchWrites
      <3> QED
        BY <3>1, <1>d, <1>s
    <2> QED
      BY <1>9, <2>1, <2>2
  <1>10. ~Sweep
    BY <1>s DEF Sweep
  <1> QED
    BY <1>x, <1>5, <1>6, <1>7, <1>8, <1>9, <1>10, <1>11 DEF Next, Change, Ensure

\* What a step of a change may drop.
LEMMA DroppedGrows ==
    ASSUME TypesInv, NEW s \in Sources, Change(s)
    PROVE  past.dropped \subseteq past'.dropped
  <1>t. past \in Pasts
    BY DEF TypesInv, TypeOK, Pasts
  <1>c. Cross(s) \in Pasts /\ Cross(s).dropped = past.dropped
    BY <1>t, CrossTold
  <1>d. ASSUME NEW us \in SUBSET Uploads, past' = Drop(us) PROVE past.dropped \subseteq past'.dropped
    <2>1. past'.dropped = past.dropped \union us
      BY <1>d, <1>t, DropTold
    <2> QED
      BY <2>1
  <1>l. ASSUME s \in Uploads, past' \in {Leave(s, "entry"), Leave(s, "blob")}
        PROVE  past'.dropped = past.dropped
    BY <1>l, <1>t, LeaveTold
  <1>1. CASE BeginRemoval(s)
    BY <1>1, <1>c DEF BeginRemoval, Pasts
  <1>2. CASE ReadManifest(s)
    BY <1>2, <1>c DEF ReadManifest
  <1>3. ASSUME s \in Uploads, RollBack(s) \/ Withdraw(s) \/ DropUpload(s)
        PROVE  past.dropped \subseteq past'.dropped
    <2>1. {s} \in SUBSET Uploads
      BY <1>3
    <2> QED
      BY <1>3, <2>1, <1>d, <1>l DEF RollBack, Restore, Withdraw, DropUpload
  <1>4. CASE SyncState(s)
    <2>1. { u \in Uploads : tableOf[u] \in copy[s].names } \in SUBSET Uploads
      OBVIOUS
    <2>2. past' = past \/ \E us \in SUBSET Uploads : past' = Drop(us)
      BY <1>4, <2>1 DEF SyncState
    <2> QED
      BY <2>2, <1>d
  <1>5. CASE DropBlob(s)
    <2>1. {s} \intersect Uploads \in SUBSET Uploads
      OBVIOUS
    <2> QED
      BY <1>5, <2>1, <1>d DEF DropBlob
  <1>6. CASE \/ (s \in Uploads /\ (ParseUpload(s) \/ RegisterUpload(s) \/ FinishUpload(s)))
             \/ (s \in Links /\ Connect(s)) \/ SaveManifest(s) \/ InsertCell(s) \/ RefuseCell(s)
             \/ ReadNotebook(s) \/ Unlist(s) \/ RemoveCell(s) \/ ReadState(s) \/ GiveUp(s)
    BY <1>6 DEF ParseUpload, RegisterUpload, FinishUpload, Connect, SaveManifest, InsertCell,
                RefuseCell, ReadNotebook, Unlist, RemoveCell, ReadState, GiveUp
  <1> QED
    BY <1>1, <1>2, <1>3, <1>4, <1>5, <1>6 DEF Change, Add, Remove

\* Only a rebuild forgets that something was dropped: that of an upload it finds.
LEMMA DroppedBefore ==
    ASSUME TypesInv, [Next]_vars, NEW u \in Uploads, u \notin past'.dropped
    PROVE  \/ u \notin past.dropped
           \/ LoadTables /\ u \in manifest /\ u \in blobs
  <1>t. past \in Pasts
    BY DEF TypesInv, TypeOK, Pasts
  <1>1. ASSUME NEW s \in Sources, Change(s) PROVE u \notin past.dropped
    BY <1>1, DroppedGrows
  <1>2. ASSUME LoadTables PROVE u \notin past.dropped \/ (u \in manifest /\ u \in blobs)
    BY <1>2, <1>t DEF LoadTables, Pasts
  <1>3. ASSUME \/ ClearSource \/ Ask \/ Ensured \/ LoadLegacy \/ Rebuild \/ Adopt \/ TouchReads
               \/ TouchWrites \/ EndQuery \/ Lapse \/ Age \/ Sweep \/ Crash \/ UNCHANGED vars
        PROVE  past' = past
    BY <1>3 DEF ClearSource, Ask, Ensured, LoadLegacy, Rebuild, Adopt, TouchReads, TouchWrites,
                EndQuery, Lapse, Age, Sweep, Crash, vars, calls
  <1> QED
    BY <1>1, <1>2, <1>3 DEF Next, Ensure

LEMMA StaysStep ==
    ASSUME RuntimeInv, [Next]_vars, NEW u \in Uploads
    PROVE  Stays(u)'
  <1> SUFFICES ASSUME pc'[u] # "new", u \notin past'.dropped PROVE u \in blobs'
    BY DEF Stays, Dropped
  <1>t. /\ TypesInv /\ u \in Sources /\ past \in Pasts /\ pc \in [Sources -> Resting \union Working]
    BY DEF RuntimeInv, SourcesInv, TypesInv, TypeOK, Pasts, Sources, Working
  <1>1. CASE pc[u] = "new"
    BY <1>1, <1>t, NewIsParsed DEF ParseUpload
  <1>2. CASE pc[u] # "new"
    <2>1. u \in blobs
      BY <1>2, <1>t, DroppedBefore DEF RuntimeInv, Kept, Stays, Dropped
    <2>2. ASSUME NEW s \in Sources, Change(s), s # u PROVE u \in blobs'
      BY <2>1, <2>2, <1>t, ChangeTouches DEF Touches
    <2>3. ASSUME Change(u) PROVE u \in blobs'
      <3>1. CASE DropUpload(u) \/ DropBlob(u)
        <4>1. {u} \in SUBSET Uploads /\ {u} \intersect Uploads = {u}
          OBVIOUS
        <4>2. past' = Drop({u}) => u \in past'.dropped
          BY <4>1, <1>t, DropTold
        <4> QED
          BY <3>1, <4>1, <4>2, <2>1 DEF DropUpload, DropBlob
      <3>2. CASE ~DropUpload(u) /\ ~DropBlob(u)
        BY <2>1, <2>3, <3>2
           DEF Change, Add, Remove, ParseUpload, RegisterUpload, FinishUpload, RollBack, Withdraw,
               Connect, ReadManifest, SaveManifest, InsertCell, RefuseCell, ReadNotebook,
               BeginRemoval, Unlist, RemoveCell, ReadState, SyncState, GiveUp, stores
      <3> QED
        BY <3>1, <3>2
    <2>4. CASE \A s \in Sources : ~Change(s)
      BY <2>1, <2>4, <1>t, OthersTouch
    <2> QED
      BY <2>2, <2>3, <2>4
  <1> QED
    BY <1>1, <1>2

\* How an upload that crossed nobody came to be listed.
LEMMA ListedSteps ==
    ASSUME SourcesInv, [Next]_vars, NEW u \in Uploads, u \in manifest', u \notin past'.crossed
    PROVE  u \in manifest \/ SaveManifest(u)
  <1>t. /\ TypesInv /\ u \in Sources /\ u \notin Links
    BY SourcesAssumption DEF SourcesInv, Sources
  <1>1. ASSUME NEW s \in Sources, Change(s), s # u PROVE u \in manifest
    BY <1>1, <1>t, OwnOnly
  <1>2. ASSUME Change(u) PROVE u \in manifest \/ SaveManifest(u)
    <2>1. Placed(u)
      BY <1>2, <1>t, ChangeTouches DEF SourcesInv, Touches, Crossed
    <2>2. CASE RollBack(u)
      BY <2>1, <2>2 DEF RollBack, Restore, Placed, Unread
    <2>3. CASE Unlist(u)
      BY <2>3 DEF Unlist
    <2>4. CASE ~RollBack(u) /\ ~Unlist(u)
      BY <1>2, <1>t, <2>4
         DEF Change, Add, Remove, ParseUpload, RegisterUpload, FinishUpload, Withdraw, DropUpload,
             ReadManifest, InsertCell, RefuseCell, ReadNotebook,
             BeginRemoval, RemoveCell, ReadState, SyncState, DropBlob, GiveUp, stores
    <2> QED
      BY <2>2, <2>3, <2>4
  <1>3. CASE \A s \in Sources : ~Change(s)
    BY <1>3, <1>t, OthersTouch
  <1> QED
    BY <1>1, <1>2, <1>3

\* Time runs out for a directory only while nothing is going on.
LEMMA AgeIsQuiet ==
    ASSUME Age, NEW s \in Sources
    PROVE  pc[s] \in Resting /\ query.at # "loaded"
  BY DEF Age, Unhurried, Quiet

\* The table of an upload that registers it stands.
LEMMA RegisteredStands ==
    ASSUME TypesInv, NEW u \in Uploads, RegisterUpload(u), pc'[u] = "registered"
    PROVE  Standing(u)'
  <1> DEFINE rows == [t \in Tables |-> u]
             ts == {tableOf[u]}
  <1>t. /\ dir \in Dirs /\ None \notin Uploads /\ pc \in [Sources -> Resting \union Working]
        /\ u \in Sources
    BY SourcesAssumption DEF TypesInv, TypeOK, Dirs, Rows, Sources, Working
  <1>1. pc[u] = "parsed" /\ dir' = Registered(dir, ts, rows) /\ tableOf' = tableOf
    <2>1. pc' = [pc EXCEPT ![u] = "dropping"] => pc'[u] = "dropping"
      BY <1>t
    <2> QED
      BY <2>1 DEF RegisterUpload, Goto, stores
  <1>2. ts \in SUBSET Tables /\ rows \in Rows /\ rows[tableOf[u]] = u /\ tableOf[u] \in ts
    BY <1>1 DEF Rows, TypesInv, Numbered
  <1> HIDE DEF rows, ts
  <1>3. Registered(dir, ts, rows).age = "fresh"
    BY <1>2, <1>t, RegisteredDir
  <1>4. Registered(dir, ts, rows).rows[tableOf[u]] = rows[tableOf[u]]
    BY <1>2, <1>t, RegisteredDir
  <1> QED
    BY <1>1, <1>2, <1>3, <1>4, <1>t DEF Standing

\* How a change comes to where its upload's table stands.
LEMMA StandsFrom ==
    ASSUME TypesInv, [Next]_vars, NEW u \in Uploads, pc'[u] \in {"registered", "read"}
    PROVE  /\ (RegisterUpload(u) /\ pc'[u] = "registered") \/ pc[u] \in {"registered", "read"}
           /\ ~Crash
  <1>t. u \in Sources /\ u \notin Links /\ pc \in [Sources -> Resting \union Working]
    BY SourcesAssumption DEF TypesInv, TypeOK, Sources, Working
  <1>1. ~Crash
    BY <1>t DEF Crash, Resting
  <1>2. ASSUME NEW s \in Sources, Change(s), s # u PROVE pc[u] \in {"registered", "read"}
    BY <1>2, <1>t, ChangeTouches DEF Touches
  <1>3. ASSUME Change(u)
        PROVE  (RegisterUpload(u) /\ pc'[u] = "registered") \/ pc[u] \in {"registered", "read"}
    <2> USE DEF Goto
    <2>1. CASE RegisterUpload(u)
      BY <2>1, <1>t DEF RegisterUpload
    <2>2. CASE ReadManifest(u) \/ SaveManifest(u)
      BY <2>2 DEF ReadManifest, SaveManifest
    <2>3. ASSUME ParseUpload(u) \/ FinishUpload(u) \/ RollBack(u) \/ Withdraw(u) \/ DropUpload(u)
          PROVE  FALSE
      BY <2>3, <1>t DEF ParseUpload, FinishUpload, RollBack, Withdraw, DropUpload
    <2>4. ASSUME InsertCell(u) \/ RefuseCell(u) \/ ReadNotebook(u) PROVE FALSE
      BY <2>4, <1>t DEF InsertCell, RefuseCell, ReadNotebook
    <2>5. ASSUME Remove(u) PROVE FALSE
      BY <2>5, <1>t DEF Remove, BeginRemoval, Unlist, RemoveCell, ReadState, SyncState, DropBlob, GiveUp
    <2> QED
      BY <1>3, <1>t, <2>1, <2>2, <2>3, <2>4, <2>5 DEF Change, Add
  <1>4. CASE \A s \in Sources : ~Change(s)
    BY <1>1, <1>4, OthersTouch
  <1> QED
    BY <1>1, <1>2, <1>3, <1>4

LEMMA KeptStep == RuntimeInv /\ [Next]_vars => Kept'
  <1> SUFFICES ASSUME RuntimeInv, [Next]_vars, NEW u \in Uploads, Alone(u)', u \notin past'.crossed,
                      u \notin past'.dropped
               PROVE  Stands(u)' /\ Covered(u)'
    BY StaysStep DEF Kept, Crossed, Dropped, Stands, Covered
  <1>t. /\ u \in Sources /\ dir \in Dirs /\ query.rows \in Rows /\ None \notin Uploads
        /\ DOMAIN query = {"at", "rows", "names"} /\ parquet \in Rows /\ TypesInv /\ SourcesInv
        /\ (pc[u] = "new" => u \notin manifest)
        /\ \A s \in Sources : pc[s] \in Resting \union Working
    BY SourcesAssumption
       DEF RuntimeInv, SourcesInv, TypesInv, TypeOK, Rows, Dirs, Sources, Heard, Unheard, Working
  <1>b. u \notin past.crossed
    <2>1. ASSUME NEW s \in Sources, Change(s) PROVE past.crossed \subseteq past'.crossed
      BY <2>1, <1>t, ChangeTouches DEF Touches
    <2>2. CASE \A s \in Sources : ~Change(s)
      BY <2>2, <1>t, OthersTouch
    <2> QED
      BY <2>1, <2>2
  <1>a. pc[u] # "new" => /\ Alone(u) /\ Stands(u) /\ Covered(u) /\ Stays(u)
                         /\ tableOf'[u] = tableOf[u] /\ tableOf[u] \in Tables
    <2>1. pc[u] # "new" => Alone(u) /\ tableOf'[u] = tableOf[u] /\ tableOf[u] \in Tables
      BY <1>t, GivenStays DEF Alone, TypesInv, Numbered
    <2> QED
      BY <2>1, <1>b DEF RuntimeInv, Kept, Crossed
  <1>d. u \notin past.dropped \/ (LoadTables /\ u \in manifest /\ u \in blobs)
    BY <1>t, DroppedBefore
  <1>1. ASSUME pc'[u] \in {"registered", "read"} PROVE Standing(u)'
    <2>1. CASE RegisterUpload(u) /\ pc'[u] = "registered"
      BY <2>1, <1>t, RegisteredStands
    <2>2. CASE pc[u] \in {"registered", "read"}
      <3>1. u \notin manifest
        BY <2>2, <1>t, <1>b DEF SourcesInv, Placed, Entered, Crossed
      <3>2. Alone(u) /\ Standing(u) /\ pc[u] # "new"
        BY <2>2, <3>1, <1>a, <1>d DEF Stands, Dropped
      <3>3. ~Crash
        BY <1>1, <1>t, StandsFrom
      <3>4. ~Age
        BY <2>2, <1>t, AgeIsQuiet DEF Resting
      <3> QED
        BY <3>2, <3>3, <3>4, <1>t, StandingStays
    <2> QED
      BY <1>1, <1>t, <2>1, <2>2, StandsFrom
  <1>2. ASSUME u \in manifest', query'.at = "loaded"
        PROVE  query'.rows[tableOf'[u]] # None \/ Standing(u)'
    <2>s. u \in manifest \/ SaveManifest(u)
      BY <1>2, <1>t, ListedSteps
    <2>n. pc[u] # "new"
      BY <2>s, <1>t DEF SaveManifest
    <2>c. ~Crash /\ ~Rebuild
      <3>1. /\ Idle.at = "idle"
            /\ \A names : [Idle EXCEPT !.at = "rebuilt", !.names = names].at = "rebuilt"
        BY DEF Idle
      <3>2. /\ Crash => query' = Idle
            /\ Rebuild => \E names : query' = [Idle EXCEPT !.at = "rebuilt", !.names = names]
        BY DEF Crash, Rebuild
      <3> QED
        BY <1>2, <3>1, <3>2
    <2>1. CASE LoadTables
      <3>1. manifest' = manifest /\ tableOf' = tableOf
        BY <2>1 DEF LoadTables
      <3>2. u \in blobs
        BY <2>n, <1>a, <1>d DEF Stays, Dropped
      <3>3. u \in Loadable
        BY <3>1, <3>2, <1>2 DEF Loadable
      <3>4. PICK rows \in [Tables -> Uploads \union {None}] :
              /\ LET found == { RowsOf(x) : x \in { y \in Loadable : tableOf[y] = tableOf[u] } }
                 IN  rows[tableOf[u]] \in IF found = {} THEN {None} ELSE found
              /\ query' = [query EXCEPT !.at = "loaded", !.rows = rows]
        BY <2>1, <2>n, <1>a DEF LoadTables
      <3>5. rows[tableOf[u]] \in { RowsOf(x) : x \in { y \in Loadable : tableOf[y] = tableOf[u] } }
        BY <3>3, <3>4
      <3>6. \A x \in Loadable : RowsOf(x) # None
        BY <1>t DEF RowsOf, Loadable
      <3>7. rows[tableOf[u]] # None
        BY <3>5, <3>6
      <3>8. query'.rows = rows
        BY <3>4, <1>t
      <3> QED
        BY <3>1, <3>7, <3>8
    <2>2. CASE ~LoadTables
      <3>d. u \notin past.dropped
        BY <2>2, <1>d
      <3>l. ~LoadLegacy
        <4>1. ASSUME LoadLegacy PROVE FALSE
          <5>1. u \in manifest /\ u \in blobs
            BY <4>1, <1>2, <2>n, <1>a, <3>d DEF LoadLegacy, stores, Stays, Dropped
          <5> QED
            BY <4>1, <5>1 DEF LoadLegacy, Loadable
        <4> QED
          BY <4>1
      <3>1. query' = query
        <4>1. ASSUME NEW s \in Sources, Change(s) PROVE query' = query
          BY <4>1 DEF Change, Add, ParseUpload, RegisterUpload, FinishUpload, RollBack, Withdraw,
                      DropUpload, Connect, ReadManifest, SaveManifest, InsertCell, RefuseCell,
                      ReadNotebook, Remove, BeginRemoval, Unlist, RemoveCell, ReadState, SyncState,
                      DropBlob, GiveUp
        <4>2. ASSUME Ask \/ Ensured \/ TouchReads PROVE FALSE
          <5>1. query'.at \in {"ensuring", "running", "touching"}
            BY <4>2, <1>t DEF Ask, Ensured, TouchReads
          <5> QED
            BY <5>1, <1>2
        <4>3. ASSUME Adopt \/ TouchWrites \/ EndQuery PROVE FALSE
          BY <4>3, <1>2 DEF Adopt, TouchWrites, EndQuery, Idle
        <4>4. ASSUME ClearSource \/ Lapse \/ Age \/ Sweep \/ UNCHANGED vars PROVE query' = query
          BY <4>4 DEF ClearSource, Lapse, Age, Sweep, vars
        <4> QED
          BY <2>2, <3>l, <2>c, <4>1, <4>2, <4>3, <4>4 DEF Next, Ensure
      <3>2. ~Age
        BY <3>1, <1>2, <1>t, AgeIsQuiet
      <3>5. ASSUME Standing(u) PROVE Standing(u)'
        BY <3>5, <2>n, <2>c, <1>a, <1>t, <3>2, StandingStays
      <3>6. CASE u \in manifest
        <4>1. query.rows[tableOf[u]] # None \/ Standing(u)
          BY <3>6, <3>1, <3>d, <1>2, <2>n, <1>a DEF Covered, Dropped
        <4> QED
          BY <4>1, <3>1, <3>5, <2>n, <1>a
      <3>8. CASE SaveManifest(u)
        <4>1. Standing(u)
          BY <3>8, <3>d, <2>n, <1>a DEF SaveManifest, Stands, Dropped
        <4> QED
          BY <4>1, <3>5
      <3> QED
        BY <2>s, <3>6, <3>8
    <2> QED
      BY <2>1, <2>2
  <1> QED
    BY <1>1, <1>2 DEF Stands, Covered

LEMMA RuntimeInitially == Init => RuntimeInv
  <1> SUFFICES ASSUME Init PROVE RuntimeInv
    OBVIOUS
  <1>1. \A u \in Uploads : pc[u] = "new" /\ manifest = {}
    BY DEF Init, Sources
  <1> QED
    BY <1>1, SourcesInitially DEF RuntimeInv, Kept, Stays, Stands, Covered

LEMMA RuntimeStep == RuntimeInv /\ [Next]_vars => RuntimeInv'
  BY SourcesStep, KeptStep DEF RuntimeInv

LEMMA RebuildCovers ==
    ASSUME RuntimeInv, Rebuild, NEW u \in manifest \intersect Uploads, Alone(u), ~Dropped(u), ~Crossed(u)
    PROVE  dir'.rows[tableOf[u]] # None
  <1> DEFINE ts == { t \in Tables : query.rows[t] # None }
  <1>1. /\ dir' = Registered(dir, ts, query.rows) /\ dir \in Dirs /\ query.rows \in Rows
        /\ ts \in SUBSET Tables
    BY DEF Rebuild, RuntimeInv, SourcesInv, TypesInv, TypeOK, Dirs, Rows
  <1>2. tableOf[u] \in Tables
    <2>1. pc[u] # "new"
      BY DEF RuntimeInv, SourcesInv, TypesInv, Heard, Unheard
    <2> QED
      BY <2>1 DEF RuntimeInv, SourcesInv, TypesInv, Numbered
  <1>3. tableOf[u] \in ts \/ Standing(u)
    BY <1>2 DEF RuntimeInv, Kept, Covered, Rebuild
  <1>4. tableOf[u] \in ts => query.rows[tableOf[u]] # None
    OBVIOUS
  <1> HIDE DEF ts
  <1>5. CASE tableOf[u] \in ts
    <2>1. Registered(dir, ts, query.rows).rows[tableOf[u]] = query.rows[tableOf[u]]
      BY <1>1, <1>5, RegisteredDir
    <2> QED
      BY <1>1, <1>4, <1>5, <2>1
  <1>6. CASE tableOf[u] \notin ts
    BY <1>1, <1>2, <1>3, <1>6, RowStays DEF Standing
  <1> QED
    BY <1>5, <1>6

\* A runtime that was rebuilt answers for every listed upload with a table of its
\* own, whatever was added, removed or rolled back between reading the manifest
\* and creating the tables, and however the changes crossed.  Excepted, upload by
\* upload, are those whose own table or blob was deleted meanwhile and those whose
\* own change crossed another (CsvRuntimeStateService.ensure).
THEOREM RebuildsCoverListings == Spec => RebuildIsComplete
  <1>1. RuntimeInv /\ [Next]_vars =>
            [Rebuild => \A u \in manifest \intersect Uploads :
                          Alone(u) /\ ~Dropped(u) /\ ~Crossed(u) => dir'.rows[tableOf[u]] # None]_vars
    BY RebuildCovers
  <1> QED
    BY <1>1, RuntimeInitially, RuntimeStep, PTL DEF Spec, RebuildIsComplete

-----------------------------------------------------------------------------
(* Sums over finite sets.                                                   *)

\* Mathematical induction, for a set.
LEMMA NatSteps ==
    ASSUME NEW T, 0 \in T, \A n \in Nat : n \in T => n + 1 \in T
    PROVE  \A n \in Nat : n \in T
  <1> DEFINE Bad == Nat \ T
  <1>1. SUFFICES ASSUME Bad # {} PROVE FALSE
    OBVIOUS
  <1>2. \E x \in Bad : \A y \in Bad : ~(<<y, x>> \in OpToRel(<, Nat))
    BY <1>1, NatLessThanWellFounded, WFMin
  <1>3. PICK x \in Bad : \A y \in Bad : ~(y < x)
    BY <1>2 DEF OpToRel
  <1>4. x \in Nat /\ x # 0
    OBVIOUS
  <1>5. x - 1 \in Nat /\ x - 1 < x /\ (x - 1) + 1 = x
    BY <1>4
  <1>6. x - 1 \in T
    BY <1>3, <1>5
  <1> QED
    BY <1>5, <1>6, <1>3

Pick(s) == CHOOSE x \in s : TRUE

\* What a fold defines, on the subsets of S.
Adds(f, S, h) ==
    h = [s \in SUBSET S |-> IF s = {} THEN 0 ELSE f[Pick(s)] + h[s \ {Pick(s)}]]

LEMMA SumIsAnyFold ==
    ASSUME NEW f, NEW S, \E h : Adds(f, S, h)
    PROVE  \E h : Adds(f, S, h) /\ SumFunctionOnSet(f, S) = h[S]
  <1> DEFINE g == CHOOSE h : Adds(f, S, h)
  <1>1. Adds(f, S, g)
    OBVIOUS
  <1>2. SumFunctionOnSet(f, S) = g[S]
    BY DEF SumFunctionOnSet, FoldFunctionOnSet, MapThenFoldSet, Adds, Pick
  <1> QED
    BY <1>1, <1>2

LEMMA PickIsIn == ASSUME NEW s, s # {} PROVE Pick(s) \in s
  BY DEF Pick

LEMMA Smaller ==
    ASSUME NEW S, IsFiniteSet(S), NEW x \in S
    PROVE  /\ IsFiniteSet(S \ {x}) /\ Cardinality(S) \in Nat
           /\ Cardinality(S \ {x}) = Cardinality(S) - 1
           /\ \A n \in Nat : Cardinality(S) = n + 1 <=> Cardinality(S \ {x}) = n
  <1>1. IsFiniteSet(S \ {x}) /\ Cardinality(S \ {x}) = Cardinality(S) - 1
    BY FS_RemoveElement
  <1>2. Cardinality(S) \in Nat
    BY FS_CardinalityType
  <1> QED
    BY <1>1, <1>2

LEMMA FoldExists == ASSUME NEW f, NEW S, IsFiniteSet(S) PROVE \E h : Adds(f, S, h)
  <1> DEFINE Sub(n)     == { s \in SUBSET S : Cardinality(s) <= n }
             Value(s,h) == IF s = {} THEN 0 ELSE f[Pick(s)] + h[s \ {Pick(s)}]
             Good(n)    == \E h : h = [s \in Sub(n) |-> Value(s, h)]
             T          == { n \in Nat : Good(n) }
  <1>f. \A s \in SUBSET S : IsFiniteSet(s) /\ Cardinality(s) \in Nat
    BY FS_Subset, FS_CardinalityType
  <1>1. 0 \in T
    <2> DEFINE h == [s \in Sub(0) |-> 0]
    <2>1. \A s \in Sub(0) : s = {}
      BY <1>f, FS_EmptySet
    <2>2. h = [s \in Sub(0) |-> Value(s, h)]
      BY <2>1
    <2> QED
      BY <2>2
  <1>2. ASSUME NEW n \in Nat, n \in T PROVE n + 1 \in T
    <2>1. PICK g : g = [s \in Sub(n) |-> Value(s, g)]
      BY <1>2
    <2> DEFINE h == [s \in Sub(n + 1) |-> Value(s, g)]
    <2>2. \A s \in Sub(n + 1) : s # {} => s \ {Pick(s)} \in Sub(n)
      BY <1>f, PickIsIn, Smaller
    <2>s. \A s \in Sub(n) : s \in Sub(n + 1)
      BY <1>f
    <2>3. \A s \in Sub(n) : g[s] = Value(s, g)
      <3> HIDE DEF Value, Sub
      <3> QED
        BY <2>1
    <2>4. \A s \in Sub(n) : h[s] = g[s]
      <3> HIDE DEF Value, Sub
      <3> QED
        BY <2>3, <2>s
    <2>5. \A s \in Sub(n + 1) : Value(s, g) = Value(s, h)
      BY <2>2, <2>4
    <2>6. h = [s \in Sub(n + 1) |-> Value(s, h)]
      <3> HIDE DEF Value, Sub
      <3> QED
        BY <2>5
    <2>7. Good(n + 1)
      BY <2>6
    <2>8. n + 1 \in Nat
      OBVIOUS
    <2> HIDE DEF Good
    <2> QED
      BY <2>7, <2>8
  <1>3. Cardinality(S) \in T
    <2> HIDE DEF T
    <2> QED
      BY <1>1, <1>2, <1>f, NatSteps
  <1>4. Sub(Cardinality(S)) = SUBSET S
    BY <1>f, FS_Subset
  <1> QED
    BY <1>3, <1>4 DEF Adds

LEMMA SumIsFold ==
    ASSUME NEW f, NEW S, IsFiniteSet(S)
    PROVE  \E h : Adds(f, S, h) /\ SumFunctionOnSet(f, S) = h[S]
  BY FoldExists, SumIsAnyFold

LEMMA FoldsAgree ==
    ASSUME NEW f, NEW S, NEW T \in SUBSET S, IsFiniteSet(S), NEW h, NEW g,
           Adds(f, S, h), Adds(f, T, g)
    PROVE  h[T] = g[T]
  <1> DEFINE N == { n \in Nat : \A s \in SUBSET T : Cardinality(s) = n => h[s] = g[s] }
  <1>f. \A s \in SUBSET T : IsFiniteSet(s) /\ Cardinality(s) \in Nat /\ s \in SUBSET S
    BY FS_Subset, FS_CardinalityType
  <1>v. \A s \in SUBSET T : /\ h[s] = IF s = {} THEN 0 ELSE f[Pick(s)] + h[s \ {Pick(s)}]
                            /\ g[s] = IF s = {} THEN 0 ELSE f[Pick(s)] + g[s \ {Pick(s)}]
    <2>1. \A s \in SUBSET S : h[s] = IF s = {} THEN 0 ELSE f[Pick(s)] + h[s \ {Pick(s)}]
      BY DEF Adds
    <2>2. \A s \in SUBSET T : g[s] = IF s = {} THEN 0 ELSE f[Pick(s)] + g[s \ {Pick(s)}]
      BY DEF Adds
    <2> QED
      BY <2>1, <2>2, <1>f
  <1>1. 0 \in N
    BY <1>f, <1>v, FS_EmptySet
  <1>2. ASSUME NEW n \in Nat, n \in N PROVE n + 1 \in N
    <2> SUFFICES ASSUME NEW s \in SUBSET T, Cardinality(s) = n + 1 PROVE h[s] = g[s]
      OBVIOUS
    <2>1. s # {}
      BY FS_EmptySet
    <2>2. s \ {Pick(s)} \in SUBSET T /\ Cardinality(s \ {Pick(s)}) = n
      BY <1>f, <2>1, PickIsIn, Smaller
    <2> QED
      BY <1>2, <2>1, <2>2, <1>v
  <1>3. Cardinality(T) \in N
    <2> HIDE DEF N
    <2> QED
      BY <1>1, <1>2, <1>f, NatSteps
  <1> QED
    BY <1>3

LEMMA SumUnfolds ==
    ASSUME NEW f, NEW S, IsFiniteSet(S)
    PROVE  SumFunctionOnSet(f, S) =
             IF S = {} THEN 0 ELSE f[Pick(S)] + SumFunctionOnSet(f, S \ {Pick(S)})
  <1>1. PICK h : Adds(f, S, h) /\ SumFunctionOnSet(f, S) = h[S]
    BY SumIsFold
  <1>2. h[S] = IF S = {} THEN 0 ELSE f[Pick(S)] + h[S \ {Pick(S)}]
    BY <1>1 DEF Adds
  <1>3. IsFiniteSet(S \ {Pick(S)}) /\ S \ {Pick(S)} \in SUBSET S
    BY FS_Subset
  <1>4. PICK g : Adds(f, S \ {Pick(S)}, g)
                 /\ SumFunctionOnSet(f, S \ {Pick(S)}) = g[S \ {Pick(S)}]
    BY <1>3, SumIsFold
  <1>5. h[S \ {Pick(S)}] = g[S \ {Pick(S)}]
    BY <1>1, <1>3, <1>4, FoldsAgree
  <1> QED
    BY <1>1, <1>2, <1>4, <1>5


\* Induction on the finite subsets of a set.
LEMMA FiniteSteps ==
    ASSUME NEW S, IsFiniteSet(S), NEW G, {} \in G,
           \A s \in SUBSET S : \A x \in S \ s : s \in G => s \union {x} \in G
    PROVE  S \in G
  <1> DEFINE N == { n \in Nat : \A s \in SUBSET S : Cardinality(s) = n => s \in G }
  <1>f. \A s \in SUBSET S : IsFiniteSet(s) /\ Cardinality(s) \in Nat
    BY FS_Subset, FS_CardinalityType
  <1>1. 0 \in N
    BY <1>f, FS_EmptySet
  <1>2. ASSUME NEW n \in Nat, n \in N PROVE n + 1 \in N
    <2> SUFFICES ASSUME NEW s \in SUBSET S, Cardinality(s) = n + 1 PROVE s \in G
      OBVIOUS
    <2>n. s # {}
      BY FS_EmptySet
    <2>1. PICK x \in s : TRUE
      BY <2>n
    <2>2. s \ {x} \in SUBSET S /\ Cardinality(s \ {x}) = n /\ x \in S \ (s \ {x})
      BY <1>f, Smaller
    <2>3. s \ {x} \in G /\ s = (s \ {x}) \union {x}
      BY <1>2, <2>2
    <2> QED
      BY <2>2, <2>3
  <1>3. Cardinality(S) \in N
    <2> HIDE DEF N
    <2> QED
      BY <1>1, <1>2, <1>f, NatSteps
  <1> QED
    BY <1>3

Sum(f, S) == SumFunctionOnSet(f, S)

LEMMA SumOfNone == ASSUME NEW f PROVE Sum(f, {}) = 0
  BY SumUnfolds, FS_EmptySet DEF Sum

LEMMA SumIsInt ==
    ASSUME NEW f, NEW S, IsFiniteSet(S), \A x \in S : f[x] \in Int
    PROVE  \A s \in SUBSET S : Sum(f, s) \in Int
  <1> DEFINE N == { n \in Nat : \A s \in SUBSET S : Cardinality(s) = n => Sum(f, s) \in Int }
  <1>f. \A s \in SUBSET S : IsFiniteSet(s) /\ Cardinality(s) \in Nat
    BY FS_Subset, FS_CardinalityType
  <1>u. \A s \in SUBSET S : s # {} => Sum(f, s) = f[Pick(s)] + Sum(f, s \ {Pick(s)})
    BY <1>f, SumUnfolds DEF Sum
  <1>1. 0 \in N
    BY <1>f, FS_EmptySet, SumOfNone
  <1>2. ASSUME NEW n \in Nat, n \in N PROVE n + 1 \in N
    <2> SUFFICES ASSUME NEW s \in SUBSET S, Cardinality(s) = n + 1 PROVE Sum(f, s) \in Int
      OBVIOUS
    <2>1. s # {}
      BY FS_EmptySet
    <2>2. s \ {Pick(s)} \in SUBSET S /\ Cardinality(s \ {Pick(s)}) = n /\ Pick(s) \in S
      BY <1>f, <2>1, PickIsIn, Smaller
    <2> QED
      BY <1>2, <1>u, <2>1, <2>2
  <1>3. \A n \in Nat : n \in N
    <2> HIDE DEF N
    <2> QED
      BY <1>1, <1>2, NatSteps
  <1> QED
    BY <1>3, <1>f

\* The element that the fold takes first makes no difference.
LEMMA SumSteps ==
    ASSUME NEW f, NEW S, IsFiniteSet(S), \A x \in S : f[x] \in Int
    PROVE  \A x \in S : Sum(f, S) = f[x] + Sum(f, S \ {x})
  <1> DEFINE Even(s) == \A x \in s : Sum(f, s) = f[x] + Sum(f, s \ {x})
             N       == { n \in Nat : \A s \in SUBSET S : Cardinality(s) = n => Even(s) }
  <1>f. \A s \in SUBSET S : IsFiniteSet(s) /\ Cardinality(s) \in Nat /\ Sum(f, s) \in Int
    BY FS_Subset, FS_CardinalityType, SumIsInt
  <1>u. \A s \in SUBSET S : s # {} => Sum(f, s) = f[Pick(s)] + Sum(f, s \ {Pick(s)})
    BY <1>f, SumUnfolds DEF Sum
  <1>1. 0 \in N
    BY <1>f, FS_EmptySet
  <1>2. ASSUME NEW n \in Nat, n \in N PROVE n + 1 \in N
    <2> SUFFICES ASSUME NEW s \in SUBSET S, Cardinality(s) = n + 1 PROVE Even(s)
      OBVIOUS
    <2> DEFINE p == Pick(s)
    <2>1. p \in s
      BY FS_EmptySet, PickIsIn
    <2>4. Sum(f, s) = f[p] + Sum(f, s \ {p})
      BY <1>u, <2>1
    <2> HIDE DEF p
    <2>2. \A x \in s : s \ {x} \in SUBSET S /\ Cardinality(s \ {x}) = n
      BY <1>f, Smaller
    <2>3. \A x \in s : \A y \in s \ {x} : Sum(f, s \ {x}) = f[y] + Sum(f, (s \ {x}) \ {y})
      BY <1>2, <2>2
    <2>5. ASSUME NEW x \in s, x # p PROVE Sum(f, s) = f[x] + Sum(f, s \ {x})
      <3>1. Sum(f, s \ {p}) = f[x] + Sum(f, (s \ {p}) \ {x})
        BY <2>1, <2>3, <2>5
      <3>2. Sum(f, s \ {x}) = f[p] + Sum(f, (s \ {x}) \ {p})
        BY <2>1, <2>3, <2>5
      <3>3. (s \ {p}) \ {x} = (s \ {x}) \ {p} /\ (s \ {p}) \ {x} \in SUBSET S
        OBVIOUS
      <3>4. Sum(f, (s \ {p}) \ {x}) \in Int /\ f[x] \in Int /\ f[p] \in Int
        BY <1>f, <2>1, <3>3
      <3>5. Sum(f, (s \ {x}) \ {p}) = Sum(f, (s \ {p}) \ {x})
        BY <3>3, Zenon
      <3> DEFINE a == Sum(f, (s \ {p}) \ {x})
                 b == Sum(f, s \ {p})
                 c == Sum(f, s \ {x})
      <3>6. b = f[x] + a /\ c = f[p] + a /\ Sum(f, s) = f[p] + b /\ a \in Int
        BY <2>4, <3>1, <3>2, <3>4, <3>5
      <3> HIDE DEF a, b, c
      <3>7. Sum(f, s) = f[x] + c
        BY <3>4, <3>6
      <3> QED
        BY <3>7 DEF c
    <2> QED
      BY <2>4, <2>5
  <1>3. Cardinality(S) \in N
    <2> HIDE DEF N
    <2> QED
      BY <1>1, <1>2, <1>f, NatSteps
  <1> QED
    BY <1>3

\* Adding one element to a part of a finite set.
LEMMA SumGrows ==
    ASSUME NEW f, NEW S, IsFiniteSet(S), \A x \in S : f[x] \in Int
    PROVE  \A s \in SUBSET S : \A x \in S \ s :
             /\ Sum(f, s) \in Int /\ Sum(f, s \union {x}) = Sum(f, s) + f[x]
  <1> SUFFICES ASSUME NEW s \in SUBSET S, NEW x \in S \ s
               PROVE  Sum(f, s) \in Int /\ Sum(f, s \union {x}) = Sum(f, s) + f[x]
    OBVIOUS
  <1>1. IsFiniteSet(s \union {x}) /\ s \union {x} \in SUBSET S /\ (s \union {x}) \ {x} = s
    BY FS_Subset
  <1>2. \A y \in s \union {x} : f[y] \in Int
    OBVIOUS
  <1>3. Sum(f, s \union {x}) = f[x] + Sum(f, (s \union {x}) \ {x})
    BY <1>1, <1>2, SumSteps
  <1>4. Sum(f, (s \union {x}) \ {x}) = Sum(f, s)
    BY <1>1, Zenon
  <1> QED
    BY <1>3, <1>4, SumIsInt

LEMMA SumOfOne == ASSUME NEW f, NEW x, f[x] \in Int PROVE Sum(f, {x}) = f[x]
  <1>1. IsFiniteSet({x})
    BY FS_Singleton
  <1>2. Sum(f, {} \union {x}) = Sum(f, {}) + f[x]
    BY <1>1, SumGrows
  <1> QED
    BY <1>2, SumOfNone

\* Functions that agree on a set have one sum there.
LEMMA SumAgrees ==
    ASSUME NEW f, NEW g, NEW S, IsFiniteSet(S), \A x \in S : f[x] \in Int /\ f[x] = g[x]
    PROVE  Sum(f, S) = Sum(g, S)
  <1> DEFINE G == { s \in SUBSET S : Sum(f, s) = Sum(g, s) }
  <1>1. {} \in G
    BY SumOfNone
  <1>2. ASSUME NEW s \in SUBSET S, NEW x \in S \ s, s \in G PROVE s \union {x} \in G
    BY <1>2, SumGrows
  <1> HIDE DEF G
  <1>3. S \in G
    BY <1>1, <1>2, FiniteSteps
  <1> QED
    BY <1>3 DEF G

LEMMA SumOfTwo ==
    ASSUME NEW f, NEW S, NEW T, IsFiniteSet(S), IsFiniteSet(T), S \intersect T = {},
           \A x \in S \union T : f[x] \in Int
    PROVE  Sum(f, S \union T) = Sum(f, S) + Sum(f, T)
  <1> DEFINE G == { s \in SUBSET T : Sum(f, S \union s) = Sum(f, S) + Sum(f, s) }
  <1>f. IsFiniteSet(S \union T)
    BY FS_Union
  <1>1. {} \in G
    BY SumOfNone, SumIsInt, <1>f
  <1>2. ASSUME NEW s \in SUBSET T, NEW x \in T \ s, s \in G PROVE s \union {x} \in G
    <2>1. Sum(f, s \union {x}) = Sum(f, s) + f[x] /\ Sum(f, s) \in Int
      BY <1>f, SumGrows
    <2>2. Sum(f, (S \union s) \union {x}) = Sum(f, S \union s) + f[x]
      BY <1>f, SumGrows
    <2>3. (S \union s) \union {x} = S \union (s \union {x})
      OBVIOUS
    <2>4. Sum(f, (S \union s) \union {x}) = Sum(f, S \union (s \union {x}))
      BY <2>3, Zenon
    <2>5. Sum(f, S) \in Int /\ f[x] \in Int
      BY <1>f, SumIsInt
    <2>6. Sum(f, S \union s) = Sum(f, S) + Sum(f, s)
      BY <1>2
    <2>7. Sum(f, S \union (s \union {x})) = Sum(f, S) + Sum(f, s \union {x})
      BY <2>1, <2>2, <2>4, <2>5, <2>6
    <2> QED
      BY <2>7
  <1> HIDE DEF G
  <1>3. T \in G
    BY <1>1, <1>2, FiniteSteps
  <1> QED
    BY <1>3 DEF G

\* Each element of R stands for a part of all, whose sum is its weight.
Splits(w, R, f, parts, all) ==
    /\ IsFiniteSet(R)
    /\ \A r \in R : IsFiniteSet(parts[r]) /\ w[r] = Sum(f, parts[r])
    /\ \A r, q \in R : r # q => parts[r] \intersect parts[q] = {}
    /\ \A r \in R : \A x \in parts[r] : f[x] \in Int
    /\ \A x : x \in all <=> \E r \in R : x \in parts[r]

\* A sum of sums over sets apart from each other is the sum over all of them.
LEMMA SumOfSums ==
    ASSUME NEW w, NEW R, NEW f, NEW parts, NEW all, Splits(w, R, f, parts, all)
    PROVE  IsFiniteSet(all) /\ Sum(w, R) = Sum(f, all)
  <1>s. /\ IsFiniteSet(R)
        /\ \A r \in R : IsFiniteSet(parts[r]) /\ w[r] = Sum(f, parts[r])
        /\ \A r, q \in R : r # q => parts[r] \intersect parts[q] = {}
        /\ \A r \in R : \A x \in parts[r] : f[x] \in Int
        /\ \A x : x \in all <=> \E r \in R : x \in parts[r]
    BY DEF Splits
  <1> DEFINE All(s) == UNION { parts[r] : r \in s }
             G == { s \in SUBSET R : IsFiniteSet(All(s)) /\ Sum(w, s) = Sum(f, All(s)) }
  <1>1. {} \in G
    <2>1. All({}) = {}
      OBVIOUS
    <2> QED
      BY <2>1, SumOfNone, FS_EmptySet
  <1>2. ASSUME NEW s \in SUBSET R, NEW x \in R \ s, s \in G PROVE s \union {x} \in G
    <2>1. All(s \union {x}) = All(s) \union parts[x] /\ All(s) \intersect parts[x] = {}
      BY <1>s
    <2>2. IsFiniteSet(All(s)) /\ IsFiniteSet(parts[x]) /\ \A y \in All(s) \union parts[x] : f[y] \in Int
      BY <1>2, <1>s
    <2> HIDE DEF All
    <2>a. Sum(f, All(s) \union parts[x]) = Sum(f, All(s)) + Sum(f, parts[x])
      BY <2>1, <2>2, SumOfTwo
    <2>3. Sum(f, All(s \union {x})) = Sum(f, All(s)) + Sum(f, parts[x])
      BY <2>1, <2>a, Zenon
    <2>4. \A r \in R : w[r] \in Int
      BY <1>s, SumIsInt
    <2>5. Sum(w, s \union {x}) = Sum(w, s) + w[x]
      BY <1>s, <2>4, SumGrows
    <2>b. IsFiniteSet(All(s) \union parts[x])
      BY <2>2, FS_Union
    <2>6. IsFiniteSet(All(s \union {x}))
      BY <2>1, <2>b, Zenon
    <2>7. Sum(w, s) = Sum(f, All(s)) /\ w[x] = Sum(f, parts[x])
      BY <1>2, <1>s
    <2>8. Sum(w, s \union {x}) = Sum(f, All(s \union {x}))
      BY <2>3, <2>5, <2>7
    <2> QED
      BY <2>6, <2>8
  <1> HIDE DEF G
  <1>3. R \in G
    BY <1>s, <1>1, <1>2, FiniteSteps
  <1>4. IsFiniteSet(All(R)) /\ Sum(w, R) = Sum(f, All(R))
    BY <1>3 DEF G
  <1>5. All(R) = all
    BY <1>s
  <1> HIDE DEF All
  <1> QED
    BY <1>4, <1>5, Zenon

-----------------------------------------------------------------------------
(* The tables of a plan and a fact file                                     *)

\* A row of a table stands for some rows of a file.
IsRow(r) ==
    /\ r = [x \in DOMAIN r |-> r[x]] /\ {"cfo", "article", "period", "amount", "ids"} \subseteq DOMAIN r
    /\ r.ids # {} /\ r.ids \subseteq Nat

\* The row that groupby takes the other columns from, and what it makes of it.
Alike(rows, columns, r)    == { s \in rows : Key(s, columns) = Key(r, columns) }
FirstOf(rows, columns, r)  ==
    CHOOSE s \in Alike(rows, columns, r) : \A t \in Alike(rows, columns, r) : Min(s.ids) <= Min(t.ids)
GroupOf(rows, columns, r)  ==
    [FirstOf(rows, columns, r) EXCEPT !.amount = Total(Alike(rows, columns, r)),
                                      !.ids    = Ids(Alike(rows, columns, r))]

LEMMA LeastNumber == ASSUME NEW S \in SUBSET Nat, S # {} PROVE Min(S) \in S
  <1>1. \E x \in S : \A y \in S : ~(<<y, x>> \in OpToRel(<, Nat))
    BY NatLessThanWellFounded, WFMin
  <1>2. \E x \in S : \A y \in S : x <= y
    <2>1. PICK x \in S : \A y \in S : ~(y < x)
      BY <1>1 DEF OpToRel
    <2>2. \A y \in S : y \in Nat
      OBVIOUS
    <2> QED
      BY <2>1, <2>2
  <1> QED
    BY <1>2 DEF Min

LEMMA FirstIsThere ==
    ASSUME NEW rows, \A r \in rows : IsRow(r), NEW columns, NEW r \in rows
    PROVE  FirstOf(rows, columns, r) \in Alike(rows, columns, r)
  <1> DEFINE same == Alike(rows, columns, r)
             T    == { Min(s.ids) : s \in same }
  <1>1. r \in same /\ same \subseteq rows
    BY DEF Alike
  <1> HIDE DEF same
  <1>2. \A s \in same : Min(s.ids) \in Nat
    BY <1>1, LeastNumber DEF IsRow
  <1>3. T \in SUBSET Nat /\ T # {}
    BY <1>1, <1>2
  <1>4. PICK x \in T : \A y \in T : ~(<<y, x>> \in OpToRel(<, Nat))
    <2> HIDE DEF T
    <2> QED
      BY <1>3, NatLessThanWellFounded, WFMin
  <1>5. PICK s \in same : x = Min(s.ids)
    OBVIOUS
  <1>6. \A t \in same : Min(s.ids) <= Min(t.ids)
    <2> TAKE t \in same
    <2>1. Min(t.ids) \in T /\ Min(t.ids) \in Nat /\ Min(s.ids) \in Nat
      BY <1>2
    <2> HIDE DEF T
    <2>2. ~(Min(t.ids) < Min(s.ids))
      BY <1>4, <1>5, <2>1 DEF OpToRel
    <2> QED
      BY <2>1, <2>2
  <1> QED
    BY <1>6 DEF FirstOf, same

LEMMA GroupOfRow ==
    ASSUME NEW rows, \A s \in rows : IsRow(s), NEW columns, NEW r \in rows
    PROVE  /\ IsRow(GroupOf(rows, columns, r))
           /\ FirstOf(rows, columns, r) \in rows
           /\ Key(FirstOf(rows, columns, r), columns) = Key(r, columns)
           /\ DOMAIN GroupOf(rows, columns, r) = DOMAIN FirstOf(rows, columns, r)
           /\ \A x \in DOMAIN FirstOf(rows, columns, r) \ {"amount", "ids"} :
                GroupOf(rows, columns, r)[x] = FirstOf(rows, columns, r)[x]
  <1> DEFINE f == FirstOf(rows, columns, r)
             a == Total(Alike(rows, columns, r))
             i == Ids(Alike(rows, columns, r))
  <1>1. f \in rows /\ Key(f, columns) = Key(r, columns) /\ IsRow(f)
    BY FirstIsThere DEF Alike
  <1>2. GroupOf(rows, columns, r) = [f EXCEPT !.amount = a, !.ids = i]
    BY DEF GroupOf
  <1>3. i # {} /\ i \subseteq Nat
    <2>1. r \in Alike(rows, columns, r) /\ Alike(rows, columns, r) \subseteq rows
      BY DEF Alike
    <2> QED
      BY <2>1 DEF Ids, IsRow
  <1> HIDE DEF f, a, i
  <1>4. /\ [f EXCEPT !.amount = a, !.ids = i].ids = i
        /\ DOMAIN [f EXCEPT !.amount = a, !.ids = i] = DOMAIN f
        /\ \A x \in DOMAIN f \ {"amount", "ids"} : [f EXCEPT !.amount = a, !.ids = i][x] = f[x]
    BY <1>1 DEF IsRow
  <1>5. IsRow([f EXCEPT !.amount = a, !.ids = i])
    BY <1>1, <1>3, <1>4 DEF IsRow
  <1> QED
    BY <1>1, <1>2, <1>4, <1>5 DEF f

\* Grouping takes each row over from one of the rows, and leaves none out.
LEMMA GroupsOfRows ==
    ASSUME NEW rows, \A s \in rows : IsRow(s), NEW columns,
           columns \subseteq {"cfo", "article", "period"}
    PROVE  /\ \A g \in Group(rows, columns) :
                /\ IsRow(g)
                /\ \E f \in rows : /\ DOMAIN g = DOMAIN f
                                   /\ \A x \in DOMAIN f \ {"amount", "ids"} : g[x] = f[x]
           /\ \A r \in rows : \E g \in Group(rows, columns) : \A c \in columns : g[c] = r[c]
  <1>1. Group(rows, columns) = { GroupOf(rows, columns, r) : r \in rows }
    BY DEF Group, GroupOf, FirstOf, Alike
  <1>2. ASSUME NEW r \in rows, NEW c \in columns PROVE GroupOf(rows, columns, r)[c] = r[c]
    <2> DEFINE f == FirstOf(rows, columns, r)
    <2>1. f \in rows /\ Key(f, columns) = Key(r, columns)
      BY GroupOfRow
    <2>2. Key(f, columns)[c] = f[c] /\ Key(r, columns)[c] = r[c]
      BY DEF Key
    <2>3. c \in DOMAIN f \ {"amount", "ids"}
      BY <2>1 DEF IsRow
    <2>4. GroupOf(rows, columns, r)[c] = f[c]
      BY <2>3, GroupOfRow
    <2> HIDE DEF f
    <2> QED
      BY <2>1, <2>2, <2>4
  <1>3. ASSUME NEW r \in rows
        PROVE  /\ IsRow(GroupOf(rows, columns, r))
               /\ \E f \in rows :
                    /\ DOMAIN GroupOf(rows, columns, r) = DOMAIN f
                    /\ \A x \in DOMAIN f \ {"amount", "ids"} : GroupOf(rows, columns, r)[x] = f[x]
    <2>1. IsRow(GroupOf(rows, columns, r)) /\ FirstOf(rows, columns, r) \in rows
      BY GroupOfRow
    <2>2. /\ DOMAIN GroupOf(rows, columns, r) = DOMAIN FirstOf(rows, columns, r)
          /\ \A x \in DOMAIN FirstOf(rows, columns, r) \ {"amount", "ids"} :
               GroupOf(rows, columns, r)[x] = FirstOf(rows, columns, r)[x]
      BY GroupOfRow
    <2> QED
      BY <2>1, <2>2
  <1> QED
    BY <1>1, <1>2, <1>3


-----------------------------------------------------------------------------
(* Matching and joining                                                     *)

\* A row of facts whose article no matching has touched.
IsFact(r) ==
    /\ IsRow(r) /\ {"label", "match"} \subseteq DOMAIN r
    /\ r.label \in Labels /\ r.article \in Labels /\ r.match = "unmatched"

\* What a fact row says of its article holds in the plan of its CFO.
IsTold(r) == r.article # NoKey /\ (r.match \in Applied \/ Stable(r.article)) =>
                 (r.match \in Matched <=> r.article \in Candidates(r.cfo))

\* The plan has every month for each article of a CFO; a fact row has a month
\* with facts; it is as it was read, or tells how it was matched.
TablesInv ==
    /\ plan \in Plans /\ fact \in Facts
    /\ stage \in {"read", "built", "mapped", "matched", "joined"}
    /\ stage # "read" => planLong = PlanLong
    /\ stage # "read" =>
         /\ \A m \in monthly : IsRow(m)
         /\ \A r \in byLabel : IsRow(r) /\ "match" \in DOMAIN r /\ r.period \in FactPeriods
    /\ stage \in {"built", "mapped"} => \A r \in byLabel : IsFact(r)
    /\ stage \in {"matched", "joined"} => \A r \in byLabel : IsTold(r)
    /\ MatchesAreJoined

LEMMA ArticleKeys ==
    ASSUME NEW label \in Labels
    PROVE  ArticleKey(label) \in Labels
  BY TablesAssumption DEF ArticleKey

\* A plan file has a row for each of its numbers, with an amount for each month.
LEMMA PlanIsRead ==
    ASSUME plan \in Plans
    PROVE  /\ DOMAIN plan \subseteq Nat /\ IsFiniteSet(DOMAIN plan)
           /\ \A i \in DOMAIN plan : plan[i].cfo \in Cfos /\ plan[i].article \in Labels
           /\ \A i \in DOMAIN plan : \A p \in PlanMonths : plan[i].amount[p] \in Int
           /\ IsFiniteSet(PlanMonths) /\ PlanMonths \subseteq Periods
  <1>1. PICK months \in SUBSET Periods :
          IsFiniteSet(months) /\ plan \in Seq([cfo: Cfos, article: Labels, amount: [months -> Int]])
    BY TablesAssumption
  <1> DEFINE Line == [cfo: Cfos, article: Labels, amount: [months -> Int]]
  <1>2. \A l \in Line : l.cfo \in Cfos /\ l.article \in Labels /\ l.amount \in [months -> Int]
    OBVIOUS
  <1>3. DOMAIN plan = 1..Len(plan) /\ Len(plan) \in Nat /\ \A i \in DOMAIN plan : plan[i] \in Line
    <2>1. plan \in Seq(Line)
      BY <1>1
    <2> HIDE DEF Line
    <2> QED
      BY <2>1
  <1> HIDE DEF Line
  <1>4. \A i \in DOMAIN plan : plan[i].cfo \in Cfos /\ plan[i].article \in Labels /\ plan[i].amount \in [months -> Int]
    BY <1>2, <1>3
  <1>5. PlanMonths \in SUBSET months
    BY <1>4 DEF PlanMonths
  <1>6. IsFiniteSet(DOMAIN plan) /\ DOMAIN plan \subseteq Nat
    BY <1>3, FS_Interval
  <1>7. IsFiniteSet(PlanMonths)
    BY <1>1, <1>5, FS_Subset
  <1> QED
    BY <1>4, <1>5, <1>6, <1>7

\* Every article of a CFO has a row for each month of the plan.
LEMMA PlanIsFull ==
    ASSUME plan \in Plans
    PROVE  /\ \A r \in PlanLong : IsRow(r) /\ r.article \in Labels /\ r.period \in PlanMonths
           /\ \A r \in PlanLong : \A p \in PlanMonths :
                \E q \in PlanLong : q.cfo = r.cfo /\ q.article = r.article /\ q.period = p
  <1>1. /\ DOMAIN plan \subseteq Nat
        /\ \A i \in DOMAIN plan : plan[i].article \in Labels
    BY PlanIsRead
  <1> DEFINE Row(i, p) == [cfo |-> plan[i].cfo, article |-> ArticleKey(plan[i].article), period |-> p,
                           amount |-> plan[i].amount[p], ids |-> {i}]
  <1>2. PlanLong = { Row(i, p) : i \in DOMAIN plan, p \in PlanMonths }
    BY DEF PlanLong
  <1>3. ASSUME NEW i \in DOMAIN plan, NEW p \in PlanMonths
        PROVE  IsRow(Row(i, p)) /\ Row(i, p).article \in Labels /\ Row(i, p).period \in PlanMonths
    BY <1>1, ArticleKeys DEF IsRow
  <1>4. ASSUME NEW i \in DOMAIN plan, NEW p, NEW q
        PROVE  /\ Row(i, p).cfo = Row(i, q).cfo /\ Row(i, p).article = Row(i, q).article
               /\ Row(i, p).period = p
    OBVIOUS
  <1> HIDE DEF Row
  <1> QED
    BY <1>2, <1>3, <1>4

LEMMA FactsAreRead ==
    ASSUME fact \in Facts
    PROVE  \A r \in FactRows : IsFact(r)
  <1>1. /\ DOMAIN fact \subseteq Nat
        /\ \A i \in DOMAIN fact : fact[i].article \in Labels
    <2> DEFINE Line == [cfo: Cfos, article: Labels, period: Periods \union {NoDate}, amount: Int]
    <2>1. fact \in Seq(Line)
      BY TablesAssumption
    <2>2. DOMAIN fact = 1..Len(fact) /\ Len(fact) \in Nat /\ \A i \in DOMAIN fact : fact[i] \in Line
      <3> HIDE DEF Line
      <3> QED
        BY <2>1
    <2>3. \A i \in 1..Len(fact) : i \in Nat
      OBVIOUS
    <2>4. \A l \in Line : l.article \in Labels
      OBVIOUS
    <2> HIDE DEF Line
    <2> QED
      BY <2>2, <2>3, <2>4
  <1>2. ASSUME NEW i \in Dated
        PROVE  IsFact([cfo |-> fact[i].cfo, article |-> ArticleKey(fact[i].article),
                       label |-> fact[i].article, period |-> fact[i].period,
                       amount |-> fact[i].amount, ids |-> {i}, match |-> "unmatched"])
    <2>1. i \in DOMAIN fact /\ i \in Nat /\ fact[i].article \in Labels
      BY <1>1 DEF Dated
    <2>2. ArticleKey(fact[i].article) \in Labels
      BY <2>1, ArticleKeys
    <2> QED
      BY <2>1, <2>2 DEF IsFact, IsRow
  <1> QED
    BY <1>2 DEF FactRows

\* The best of some candidates is one of them.
LEMMA BestIsThere ==
    ASSUME NEW key \in Labels, NEW candidates \in SUBSET Labels, candidates # {}
    PROVE  \E k \in candidates : \A j \in candidates : Score[key, j] <= Score[key, k]
  <1> DEFINE Likeness(k) == Score[key, k]
             T == { 100 - Likeness(k) : k \in candidates }
  <1>1. \A k \in candidates : Likeness(k) \in 0..100
    <2>1. Score \in [Labels \X Labels -> 0..100]
      BY TablesAssumption
    <2>2. \A k \in candidates : <<key, k>> \in Labels \X Labels
      OBVIOUS
    <2> QED
      BY <2>1, <2>2
  <1> HIDE DEF Likeness
  <1>2. T \in SUBSET Nat /\ T # {}
    <2>1. \A k \in candidates : 100 - Likeness(k) \in Nat
      BY <1>1
    <2> QED
      BY <2>1
  <1>3. PICK x \in T : \A y \in T : ~(<<y, x>> \in OpToRel(<, Nat))
    <2> HIDE DEF T
    <2> QED
      BY <1>2, NatLessThanWellFounded, WFMin
  <1>4. PICK k \in candidates : x = 100 - Likeness(k)
    OBVIOUS
  <1>5. \A j \in candidates : Likeness(j) <= Likeness(k)
    <2> TAKE j \in candidates
    <2>1. 100 - Likeness(j) \in T /\ Likeness(j) \in 0..100 /\ Likeness(k) \in 0..100
      BY <1>1
    <2> HIDE DEF T
    <2>2. 100 - Likeness(j) \in Nat /\ 100 - Likeness(k) \in Nat
      BY <2>1
    <2>3. ~(100 - Likeness(j) < 100 - Likeness(k))
      BY <1>3, <1>4, <2>1, <2>2 DEF OpToRel
    <2> QED
      BY <2>1, <2>3
  <1> QED
    BY <1>5 DEF Likeness

\* _match_fact_article: an article that is applied is one of the plan's, and an
\* article left as it is, is one of them exactly if it is said to be.
LEMMA ArticleIsMatched ==
    ASSUME NEW r, IsFact(r), Candidates(r.cfo) \subseteq Labels \ {NoKey}
    PROVE  LET m == MatchFactArticle(r) IN
           /\ Applies(m) => m.article \in Candidates(r.cfo)
           /\ ~Applies(m) /\ r.article # NoKey /\ Stable(r.article) =>
                (m.type \in Matched <=> r.article \in Candidates(r.cfo))
  <1> DEFINE m    == MatchFactArticle(r)
             key  == Normal[IF r.article # NoKey THEN r.article ELSE r.label]
             cand == Candidates(r.cfo)
             byHand == key \in DOMAIN articleMap
             meant  == IF byHand THEN articleMap[key]
                       ELSE IF key \in DOMAIN Dictionary THEN Dictionary[key] ELSE NoKey
             Lasting == r.article # NoKey /\ Stable(r.article)
             Goal == /\ Applies(m) => m.article \in cand
                     /\ ~Applies(m) /\ Lasting => (m.type \in Matched <=> r.article \in cand)
  <1> SUFFICES Goal
    OBVIOUS
  <1>1. key \in Labels /\ (Lasting => key = r.article)
    BY TablesAssumption DEF IsFact, Stable
  <1>2. m = IF key = NoKey THEN Match("unmatched", NoKey)
            ELSE IF key \in cand THEN Match("exact", key)
            ELSE IF Normal[meant] \in cand
                 THEN Match(IF byHand THEN "manual" ELSE "dictionary", Normal[meant])
            ELSE IF mode = "pl_code" THEN Match("unmatched", NoKey)
            ELSE Fuzzy(key, cand)
    BY DEF MatchFactArticle
  <1> HIDE DEF m, key, cand, meant, byHand
  <1>3. CASE m = Match("unmatched", NoKey) /\ (Lasting => r.article \notin cand)
    BY <1>3 DEF Match, Applies, Applied, Matched
  <1>4. CASE m = Match("exact", key) /\ key \in cand
    BY <1>1, <1>4 DEF Match, Applies, Applied, Matched
  <1>5. CASE \E type \in {"manual", "dictionary"} : m = Match(type, Normal[meant]) /\ Normal[meant] \in cand
    BY <1>5 DEF Match, Applies, Applied, Matched
  <1>6. CASE m = Fuzzy(key, cand) /\ key \notin cand
    <2> DEFINE best == CHOOSE k \in cand : \A j \in cand : Score[key, j] <= Score[key, k]
    <2>1. cand # {} => best \in cand
      BY <1>1, BestIsThere DEF cand
    <2>2. m = IF cand = {} \/ Score[key, best] < 75 THEN Match("unmatched", NoKey)
              ELSE Match(IF Score[key, best] >= 90 THEN "fuzzy_auto" ELSE "fuzzy_suggested", best)
      BY <1>6 DEF Fuzzy
    <2> HIDE DEF best
    <2>3. \/ m = Match("unmatched", NoKey)
          \/ m = Match("fuzzy_auto", best) /\ best \in cand
          \/ m = Match("fuzzy_suggested", best)
      BY <2>1, <2>2
    <2>4. Lasting => r.article \notin cand
      BY <1>1, <1>6
    <2> QED
      BY <2>3, <2>4 DEF Match, Applies, Applied, Matched
  <1>7. key = NoKey => ~Lasting
    BY <1>1
  <1>8. key \notin cand => (Lasting => r.article \notin cand)
    BY <1>1
  <1> QED
    BY <1>2, <1>3, <1>4, <1>5, <1>6, <1>7, <1>8


\* _apply_article_matching tells of every row what it did.
LEMMA RowIsMatched ==
    ASSUME NEW r, IsFact(r), Candidates(r.cfo) \subseteq Labels \ {NoKey}
    PROVE  /\ IsRow(MatchRow(r)) /\ "match" \in DOMAIN MatchRow(r) /\ MatchRow(r).period = r.period
           /\ IsTold(MatchRow(r))
  <1> DEFINE m == MatchFactArticle(r)
             article == IF Applies(m) THEN m.article ELSE r.article
  <1>1. /\ Applies(m) => m.article \in Candidates(r.cfo)
        /\ ~Applies(m) /\ r.article # NoKey /\ Stable(r.article) =>
             (m.type \in Matched <=> r.article \in Candidates(r.cfo))
    BY ArticleIsMatched
  <1>2. MatchRow(r) = [r EXCEPT !.match = m.type, !.article = article]
    BY DEF MatchRow
  <1>3. /\ Applies(m) => m.type \in Matched
        /\ m.type \in Applied <=> Applies(m)
    BY DEF Applies, Matched
  <1>4. article # NoKey /\ (m.type \in Applied \/ Stable(article)) =>
            (m.type \in Matched <=> article \in Candidates(r.cfo))
    <2> HIDE DEF m
    <2> QED
      BY <1>1, <1>3
  <1> HIDE DEF m, article
  <1>5. /\ MatchRow(r).cfo = r.cfo /\ MatchRow(r).period = r.period /\ MatchRow(r).article = article
        /\ MatchRow(r).match = m.type /\ MatchRow(r).ids = r.ids /\ DOMAIN MatchRow(r) = DOMAIN r
        /\ MatchRow(r) = [x \in DOMAIN r |-> MatchRow(r)[x]]
    BY <1>2 DEF IsFact, IsRow
  <1> QED
    BY <1>4, <1>5 DEF IsFact, IsRow, IsTold

\* _apply_cfo_mapping changes the CFO and nothing else.
LEMMA CfoIsMapped ==
    ASSUME NEW r, IsRow(r)
    PROVE  /\ IsRow(Mapped(r)) /\ Mapped(r).period = r.period
           /\ IsFact(r) => IsFact(Mapped(r))
  <1> DEFINE cfo == SpellingOf(cfoMap[CfoKey[r.cfo]])
  <1>1. CASE CfoKey[r.cfo] \in DOMAIN cfoMap
    <2>1. Mapped(r) = [r EXCEPT !.cfo = cfo]
      BY <1>1 DEF Mapped
    <2> HIDE DEF cfo
    <2>2. /\ DOMAIN Mapped(r) = DOMAIN r /\ Mapped(r) = [x \in DOMAIN r |-> Mapped(r)[x]]
          /\ \A x \in DOMAIN r \ {"cfo"} : Mapped(r)[x] = r[x]
      BY <2>1 DEF IsRow
    <2>3. Mapped(r).period = r.period /\ Mapped(r).ids = r.ids /\ Mapped(r).article = r.article
      BY <2>2 DEF IsRow
    <2>4. IsRow(Mapped(r))
      BY <2>2, <2>3 DEF IsRow
    <2>5. ASSUME IsFact(r) PROVE IsFact(Mapped(r))
      <3>1. Mapped(r).label = r.label /\ Mapped(r).match = r.match
        BY <2>2, <2>5 DEF IsFact
      <3> QED
        BY <2>2, <2>3, <2>4, <2>5, <3>1 DEF IsFact
    <2> QED
      BY <2>3, <2>4, <2>5
  <1>2. CASE CfoKey[r.cfo] \notin DOMAIN cfoMap
    BY <1>2 DEF Mapped
  <1> QED
    BY <1>1, <1>2

\* Groups of rows that no matching has touched are such rows.
LEMMA FactsAreGrouped ==
    ASSUME NEW rows, \A r \in rows : IsFact(r), NEW columns,
           columns \subseteq {"cfo", "article", "period"}
    PROVE  /\ \A g \in Group(rows, columns) : IsFact(g) /\ \E f \in rows : g.period = f.period
           /\ "period" \in columns => \A r \in rows : \E g \in Group(rows, columns) : g.period = r.period
  <1>1. \A r \in rows : IsRow(r)
    BY DEF IsFact
  <1>g. \A g \in Group(rows, columns) :
           /\ IsRow(g)
           /\ \E f \in rows : /\ DOMAIN g = DOMAIN f
                              /\ \A x \in DOMAIN f \ {"amount", "ids"} : g[x] = f[x]
    BY <1>1, GroupsOfRows
  <1>2. ASSUME NEW g \in Group(rows, columns) PROVE IsFact(g) /\ \E f \in rows : g.period = f.period
    <2>1. PICK f \in rows : DOMAIN g = DOMAIN f /\ \A x \in DOMAIN f \ {"amount", "ids"} : g[x] = f[x]
      BY <1>g
    <2>2. IsRow(g)
      BY <1>g
    <2>3. /\ g.period = f.period /\ g.article = f.article /\ g.label = f.label /\ g.match = f.match
          /\ {"label", "match"} \subseteq DOMAIN g
      BY <2>1 DEF IsFact, IsRow
    <2> QED
      BY <2>2, <2>3 DEF IsFact
  <1>3. ASSUME "period" \in columns, NEW r \in rows
        PROVE  \E g \in Group(rows, columns) : g.period = r.period
    BY <1>1, <1>3, GroupsOfRows
  <1> QED
    BY <1>2, <1>3

\* The joined rows: a row of facts has plan rows if the plan has the key.
LEMMA RowsMeet ==
    ASSUME NEW ps, NEW fs, NEW columns, NEW r \in Merge(ps, fs, columns), r.factIds # {}
    PROVE  \E f \in fs :
             /\ r.key = Key(f, columns) /\ r.match = f.match /\ r.factIds = f.ids
             /\ \/ \E p \in ps : Key(p, columns) = Key(f, columns) /\ r.planIds = p.ids
                \/ r.planIds = {} /\ \A p \in ps : Key(p, columns) # Key(f, columns)
  <1>1. CASE r \in InnerMerge(ps, fs, columns)
    <2>1. PICK x \in ps \X fs : Key(x[1], columns) = Key(x[2], columns)
                                /\ r = Joined(Key(x[1], columns), x[1], x[2])
      BY <1>1 DEF InnerMerge
    <2>2. x[1] \in ps /\ x[2] \in fs
      OBVIOUS
    <2> QED
      BY <2>1, <2>2 DEF Joined
  <1>2. CASE r \in { Joined(Key(p, columns), p, Empty) :
                       p \in { q \in ps : Key(q, columns) \notin Keys(fs, columns) } }
    BY <1>2 DEF Joined, Empty
  <1>3. CASE r \in { Joined(Key(f, columns), Empty, f) :
                       f \in { g \in fs : Key(g, columns) \notin Keys(ps, columns) } }
    <2>1. PICK f \in fs : Key(f, columns) \notin Keys(ps, columns) /\ r = Joined(Key(f, columns), Empty, f)
      BY <1>3
    <2> QED
      BY <2>1 DEF Joined, Empty, Keys
  <1> QED
    BY <1>1, <1>2, <1>3 DEF Merge

LEMMA TablesInitially == TablesInit => TablesInv
  BY DEF TablesInit, TablesInv, MatchesAreJoined


LEMMA TablesStep == TablesInv /\ [TablesNext]_tableVars => TablesInv'
  <1> SUFFICES ASSUME TablesInv, [TablesNext]_tableVars PROVE TablesInv'
    OBVIOUS
  <1> DEFINE cols == CfoArticlePeriod
  <1>t. plan \in Plans /\ fact \in Facts
    BY DEF TablesInv
  <1>c. /\ CfoPeriod \subseteq {"cfo", "article", "period"} /\ "period" \in CfoPeriod
        /\ cols = {"cfo", "article", "period"}
    BY DEF CfoPeriod, CfoArticlePeriod
  <1>1. CASE Build
    <2>1. /\ stage' = "built" /\ planLong' = PlanLong /\ UNCHANGED files
          /\ monthly' = Group(FactRows, CfoPeriod) /\ byLabel' = Group(FactRows, cols)
      BY <1>1 DEF Build
    <2>2. /\ plan' = plan /\ fact' = fact /\ PlanLong' = PlanLong
      BY <2>1 DEF files, PlanLong, PlanMonths, ArticleKey
    <2>3. \A r \in FactRows : IsFact(r)
      BY <1>t, FactsAreRead
    <2>4. /\ \A m \in monthly' : IsFact(m)
          /\ \A r \in FactRows : \E m \in monthly' : m.period = r.period
      <3>1. \A g \in Group(FactRows, CfoPeriod) : IsFact(g)
        BY <2>3, <1>c, FactsAreGrouped
      <3>2. \A r \in FactRows : \E g \in Group(FactRows, CfoPeriod) : g.period = r.period
        BY <2>3, <1>c, FactsAreGrouped
      <3> QED
        BY <2>1, <3>1, <3>2
    <2>5. \A r \in byLabel' : IsFact(r) /\ \E f \in FactRows : r.period = f.period
      BY <2>1, <2>3, <1>c, FactsAreGrouped
    <2>6. \A r \in byLabel' : r.period \in FactPeriods'
      BY <2>4, <2>5 DEF FactPeriods
    <2> HIDE DEF cols
    <2> QED
      BY <2>1, <2>2, <2>4, <2>5, <2>6, <1>t DEF TablesInv, MatchesAreJoined, IsFact
  <1>2. CASE ApplyCfoMapping
    <2>1. /\ stage = "built" /\ stage' = "mapped" /\ UNCHANGED files /\ planLong' = planLong
          /\ monthly' = monthly \/ monthly' = Group({ Mapped(m) : m \in monthly }, CfoPeriod)
          /\ byLabel' = byLabel \/ byLabel' = Group({ Mapped(r) : r \in byLabel }, cols)
      BY <1>2 DEF ApplyCfoMapping, MappedMonthly, MappedByLabel, Regrouped
    <2>2. /\ plan' = plan /\ fact' = fact /\ PlanLong' = PlanLong /\ planLong = PlanLong
      BY <2>1 DEF files, PlanLong, PlanMonths, ArticleKey, TablesInv
    <2>3. \A m \in monthly : IsRow(m)
      BY <2>1 DEF TablesInv
    <2>4. \A r \in byLabel : IsFact(r) /\ r.period \in FactPeriods
      BY <2>1 DEF TablesInv
    <2>5. /\ \A m \in monthly' : IsRow(m)
          /\ \A m \in monthly : \E n \in monthly' : n.period = m.period
      <3> DEFINE rows == { Mapped(m) : m \in monthly }
      <3>1. /\ \A s \in rows : IsRow(s)
            /\ \A m \in monthly : \E s \in rows : s.period = m.period
        BY <2>3, CfoIsMapped
      <3>2. CASE monthly' = Group(rows, CfoPeriod)
        <4> HIDE DEF rows
        <4>1. /\ \A g \in Group(rows, CfoPeriod) : IsRow(g)
              /\ \A s \in rows : \E g \in Group(rows, CfoPeriod) : \A c \in CfoPeriod : g[c] = s[c]
          BY <3>1, <1>c, GroupsOfRows
        <4> QED
          BY <3>1, <3>2, <4>1, <1>c
      <3>3. CASE monthly' = monthly
        BY <3>3, <2>3
      <3> QED
        BY <2>1, <3>2, <3>3
    <2>6. \A r \in byLabel' : IsFact(r) /\ \E f \in byLabel : r.period = f.period
      <3> DEFINE rows == { Mapped(r) : r \in byLabel }
      <3>1. \A s \in rows : IsFact(s) /\ \E f \in byLabel : s.period = f.period
        BY <2>4, CfoIsMapped DEF IsFact
      <3>2. CASE byLabel' = Group(rows, cols)
        <4> HIDE DEF rows
        <4>1. \A g \in Group(rows, cols) : IsFact(g) /\ \E s \in rows : g.period = s.period
          BY <3>1, <1>c, FactsAreGrouped
        <4> QED
          BY <3>1, <3>2, <4>1
      <3>3. CASE byLabel' = byLabel
        BY <3>3, <2>4
      <3> QED
        BY <2>1, <3>2, <3>3
    <2>7. \A r \in byLabel' : r.period \in FactPeriods'
      <3>1. ASSUME NEW r \in byLabel' PROVE \E n \in monthly' : n.period = r.period
        <4>1. PICK f \in byLabel : r.period = f.period
          BY <2>6
        <4>2. PICK m \in monthly : f.period = m.period
          BY <2>4 DEF FactPeriods
        <4> QED
          BY <4>1, <4>2, <2>5
      <3> QED
        BY <3>1 DEF FactPeriods
    <2> HIDE DEF cols
    <2> QED
      BY <2>1, <2>2, <2>5, <2>6, <2>7, <1>t DEF TablesInv, MatchesAreJoined, IsFact
  <1>3. CASE ApplyArticleMatching
    <2>1. /\ stage = "mapped" /\ stage' = "matched" /\ UNCHANGED files
          /\ planLong' = planLong /\ monthly' = monthly
          /\ byLabel' = IF planLong = {} THEN byLabel ELSE { MatchRow(r) : r \in byLabel }
      BY <1>3 DEF ApplyArticleMatching
    <2>2. /\ plan' = plan /\ fact' = fact /\ PlanLong' = PlanLong /\ planLong = PlanLong
          /\ \A cfo : Candidates(cfo)' = Candidates(cfo)
      BY <2>1 DEF files, PlanLong, PlanMonths, ArticleKey, TablesInv, Candidates
    <2>3. \A r \in byLabel : IsFact(r) /\ r.period \in FactPeriods
      BY <2>1 DEF TablesInv
    <2>4. \A cfo : Candidates(cfo) \subseteq Labels \ {NoKey}
      BY <2>2, <1>t, PlanIsFull DEF Candidates
    <2>5. \A r \in byLabel' : IsRow(r) /\ "match" \in DOMAIN r /\ r.period \in FactPeriods /\ IsTold(r)
      <3>1. CASE planLong = {}
        <4>1. \A cfo : Candidates(cfo) = {}
          BY <3>1 DEF Candidates
        <4> QED
          BY <2>1, <2>3, <3>1, <4>1 DEF IsFact, IsTold, Matched, Applied
      <3>2. CASE planLong # {}
        <4>1. \A r \in byLabel :
                /\ IsRow(MatchRow(r)) /\ "match" \in DOMAIN MatchRow(r) /\ IsTold(MatchRow(r))
                /\ MatchRow(r).period \in FactPeriods
          BY <2>3, <2>4, RowIsMatched
        <4> QED
          BY <2>1, <3>2, <4>1
      <3> QED
        BY <3>1, <3>2
    <2>6. \A r \in byLabel' : IsTold(r)'
      BY <2>2, <2>5 DEF IsTold
    <2>7. FactPeriods' = FactPeriods /\ \A m \in monthly : IsRow(m)
      BY <2>1 DEF FactPeriods, TablesInv
    <2> QED
      BY <2>1, <2>2, <2>5, <2>6, <2>7, <1>t DEF TablesInv, MatchesAreJoined
  <1>4. CASE Join
    <2>1. /\ stage = "matched" /\ stage' = "joined"
          /\ byArticle' = Merge(Group(JoinedPlan, cols), byLabel, cols)
          /\ UNCHANGED <<files, planLong, monthly, byLabel>>
      BY <1>4 DEF Join
    <2>2. /\ plan' = plan /\ fact' = fact /\ PlanLong' = PlanLong /\ planLong = PlanLong
          /\ PlanMonths' = PlanMonths /\ FactPeriods' = FactPeriods
          /\ \A cfo : Candidates(cfo)' = Candidates(cfo)
      BY <2>1 DEF files, PlanLong, PlanMonths, ArticleKey, TablesInv, Candidates, FactPeriods
    <2>3. \A r \in byLabel : IsRow(r) /\ r.period \in FactPeriods /\ IsTold(r)
      BY <2>1 DEF TablesInv
    <2> DEFINE ps == Group(JoinedPlan, cols)
    <2>4. /\ \A p \in ps : /\ p.ids # {}
                           /\ \E q \in JoinedPlan : \A x \in {"cfo", "article", "period"} : p[x] = q[x]
          /\ \A q \in JoinedPlan : \E p \in ps : \A x \in {"cfo", "article", "period"} : p[x] = q[x]
      <3>1. JoinedPlan \subseteq PlanLong /\ \A q \in JoinedPlan : IsRow(q)
        BY <2>2, <1>t, PlanIsFull DEF JoinedPlan
      <3>2. /\ \A p \in ps : /\ IsRow(p)
                             /\ \E q \in JoinedPlan : /\ DOMAIN p = DOMAIN q
                                                      /\ \A x \in DOMAIN q \ {"amount", "ids"} : p[x] = q[x]
            /\ \A q \in JoinedPlan : \E p \in ps : \A x \in cols : p[x] = q[x]
        <4>1. cols \subseteq {"cfo", "article", "period"}
          BY <1>c
        <4> HIDE DEF cols
        <4> QED
          BY <3>1, <4>1, GroupsOfRows
      <3> HIDE DEF ps
      <3>3. \A p \in ps : p.ids # {} /\ \E q \in JoinedPlan : \A x \in {"cfo", "article", "period"} : p[x] = q[x]
        BY <3>1, <3>2 DEF IsRow
      <3> QED
        BY <3>2, <3>3, <1>c
    <2> HIDE DEF ps
    <2>5. ASSUME NEW r \in byArticle', r.factIds # {}, r.key.article # NoKey,
                 r.match \in Applied \/ Stable(r.key.article)
          PROVE  r.planIds # {} <=> r.match \in Matched /\ r.key.period \in PlanMonths
      <3>1. r \in Merge(ps, byLabel, cols)
        BY <2>1, <2>5 DEF ps
      <3>2. PICK f \in byLabel :
              /\ r.key = Key(f, cols) /\ r.match = f.match
              /\ \/ \E p \in ps : Key(p, cols) = Key(f, cols) /\ r.planIds = p.ids
                 \/ r.planIds = {} /\ \A p \in ps : Key(p, cols) # Key(f, cols)
        BY <3>1, <2>5, RowsMeet
      <3>3. /\ r.key.article = f.article /\ r.key.period = f.period
            /\ \A p : Key(p, cols) = Key(f, cols) <=>
                        \A x \in {"cfo", "article", "period"} : p[x] = f[x]
        BY <3>2, <1>c DEF Key
      <3>4. f.match \in Matched <=> f.article \in Candidates(f.cfo)
        BY <2>3, <2>5, <3>2, <3>3 DEF IsTold
      <3>5. CASE \E p \in ps : Key(p, cols) = Key(f, cols) /\ r.planIds = p.ids
        <4>1. PICK p \in ps : Key(p, cols) = Key(f, cols) /\ r.planIds = p.ids
          BY <3>5
        <4>2. PICK q \in JoinedPlan : \A x \in {"cfo", "article", "period"} : p[x] = q[x]
          BY <2>4
        <4>3. q.cfo = f.cfo /\ q.article = f.article /\ q.period = f.period
          BY <4>1, <4>2, <3>3
        <4>4. q \in planLong /\ q.period \in PlanMonths
          BY <2>2, <1>t, PlanIsFull DEF JoinedPlan
        <4>5. f.article \in Candidates(f.cfo)
          BY <4>3, <4>4, <2>5, <3>3 DEF Candidates
        <4> QED
          BY <4>1, <4>3, <4>4, <4>5, <3>2, <3>3, <3>4, <2>4
      <3>6. CASE r.planIds = {} /\ \A p \in ps : Key(p, cols) # Key(f, cols)
        <4>1. ASSUME f.match \in Matched, f.period \in PlanMonths PROVE FALSE
          <5>1. PICK q \in PlanLong : q.cfo = f.cfo /\ q.article = f.article
            BY <4>1, <3>4, <2>2 DEF Candidates
          <5>2. PICK s \in PlanLong : s.cfo = f.cfo /\ s.article = f.article /\ s.period = f.period
            BY <5>1, <4>1, <1>t, PlanIsFull
          <5>3. s \in JoinedPlan
            BY <5>2, <2>2, <2>3 DEF JoinedPlan
          <5>4. PICK p \in ps : \A x \in {"cfo", "article", "period"} : p[x] = s[x]
            BY <5>3, <2>4
          <5>5. \A x \in {"cfo", "article", "period"} : p[x] = f[x]
            BY <5>2, <5>4
          <5> QED
            BY <5>5, <3>3, <3>6
        <4> QED
          BY <4>1, <3>2, <3>3, <3>6
      <3> QED
        BY <3>2, <3>5, <3>6
    <2>6. MatchesAreJoined'
      BY <2>2, <2>5 DEF MatchesAreJoined
    <2>7. /\ \A m \in monthly' : IsRow(m)
          /\ \A r \in byLabel' : IsRow(r) /\ "match" \in DOMAIN r /\ r.period \in FactPeriods'
          /\ \A r \in byLabel' : IsTold(r)'
      BY <2>1, <2>2, <2>3 DEF TablesInv, IsTold
    <2> QED
      BY <2>1, <2>2, <2>6, <2>7, <1>t DEF TablesInv
  <1>5. CASE UNCHANGED tableVars
    BY <1>5 DEF tableVars, files, tables, TablesInv, MatchesAreJoined, PlanLong, PlanMonths, ArticleKey,
                FactPeriods, IsTold, Candidates
  <1> QED
    BY <1>1, <1>2, <1>3, <1>4, <1>5 DEF TablesNext

\* What is reported as matched is joined with the plan of its month, and what
\* is reported as unmatched or merely suggested is not, for any files, mappings
\* and likenesses, and for any normal forms: but for rows that keep a key of their
\* own though they were matched by another (_match_fact_article,
\* _apply_article_matching, the join).
THEOREM MatchesMeetThePlan == TablesSpec => []MatchesAreJoined
  <1>1. TablesInv => MatchesAreJoined
    BY DEF TablesInv
  <1> QED
    BY TablesInitially, TablesStep, <1>1, PTL DEF TablesSpec


-----------------------------------------------------------------------------
(* Sums and row numbers of tables                                           *)

\* The rows stand for different numbers of f, and their amounts are the sums.
Accounts(rows, f) ==
    /\ IsFiniteSet(rows)
    /\ \A r \in rows : /\ r.ids # {} /\ r.ids \subseteq DOMAIN f /\ IsFiniteSet(r.ids)
                       /\ r.amount = Sum(f, r.ids)
    /\ \A r, s \in rows : r.ids \intersect s.ids # {} => r = s

LEMMA ImageIsFinite ==
    ASSUME NEW S, IsFiniteSet(S), NEW f
    PROVE  IsFiniteSet({ f[x] : x \in S })
  <1> DEFINE T == { f[x] : x \in S }
             g == [x \in S |-> f[x]]
  <1>1. g \in Surjection(S, T)
    BY DEF Surjection
  <1> QED
    BY <1>1, FS_Surjection

LEMMA TotalIsSum ==
    ASSUME NEW rows
    PROVE  Total(rows) = Sum([r \in rows |-> r.amount], rows)
  BY DEF Total, SumFunction, Sum

LEMMA SumIsOnDomain == ASSUME NEW f, NEW S, DOMAIN f = S PROVE SumFunction(f) = Sum(f, S)
  BY DEF SumFunction, Sum

LEMMA AccountsTotal ==
    ASSUME NEW rows, NEW f, Accounts(rows, f), \A x \in DOMAIN f : f[x] \in Int
    PROVE  /\ Total(rows) = Sum(f, Ids(rows)) /\ Total(rows) \in Int
           /\ IsFiniteSet(Ids(rows)) /\ \A r \in rows : r.amount \in Int
  <1> DEFINE w     == [r \in rows |-> r.amount]
             parts == [r \in rows |-> r.ids]
  <1>1. IsFiniteSet(rows)
    BY DEF Accounts
  <1>2. \A r \in rows : IsFiniteSet(parts[r]) /\ w[r] = Sum(f, parts[r])
    BY DEF Accounts
  <1>3. \A r, q \in rows : r # q => parts[r] \intersect parts[q] = {}
    BY DEF Accounts
  <1>4. \A r \in rows : \A x \in parts[r] : f[x] \in Int
    BY DEF Accounts
  <1>5. \A x : x \in Ids(rows) <=> \E r \in rows : x \in parts[r]
    BY DEF Ids
  <1>6. \A r \in rows : r.amount \in Int
    BY <1>2, <1>4, SumIsInt DEF Accounts
  <1>w. \A r \in rows : w[r] \in Int
    BY <1>6
  <1> HIDE DEF w, parts
  <1>7. Splits(w, rows, f, parts, Ids(rows))
    BY <1>1, <1>2, <1>3, <1>4, <1>5 DEF Splits
  <1>8. IsFiniteSet(Ids(rows)) /\ Sum(w, rows) = Sum(f, Ids(rows))
    BY <1>7, SumOfSums
  <1>9. Sum(w, rows) \in Int
    BY <1>1, <1>w, SumIsInt
  <1> QED
    BY <1>6, <1>8, <1>9, TotalIsSum DEF w

LEMMA AccountsPart ==
    ASSUME NEW rows, NEW f, Accounts(rows, f), NEW part \in SUBSET rows
    PROVE  Accounts(part, f)
  BY FS_Subset DEF Accounts

\* A change of the other columns leaves the accounts as they are.
LEMMA AccountsImage ==
    ASSUME NEW rows, NEW f, Accounts(rows, f), NEW m,
           \A r \in rows : m[r].ids = r.ids /\ m[r].amount = r.amount,
           NEW out, \A x : x \in out <=> \E r \in rows : x = m[r]
    PROVE  Accounts(out, f) /\ Ids(out) = Ids(rows)
  <1>1. out = { m[r] : r \in rows } /\ IsFiniteSet({ m[r] : r \in rows })
    BY ImageIsFinite DEF Accounts
  <1>2. IsFiniteSet(out)
    BY <1>1, Zenon
  <1>3. Ids(out) = Ids(rows)
    BY DEF Ids
  <1> QED
    BY <1>2, <1>3 DEF Accounts

LEMMA GroupIsImage == ASSUME NEW rows, NEW columns
    PROVE  Group(rows, columns) = { GroupOf(rows, columns, r) : r \in rows }
  BY DEF Group, GroupOf, FirstOf, Alike

\* The group of a row: its sum, its numbers, its key.
LEMMA GroupTells ==
    ASSUME NEW rows, \A s \in rows : IsRow(s), NEW columns,
           columns \subseteq {"cfo", "article", "period"}, NEW r \in rows
    PROVE  /\ GroupOf(rows, columns, r).amount = Total(Alike(rows, columns, r))
           /\ GroupOf(rows, columns, r).ids = Ids(Alike(rows, columns, r))
           /\ Key(GroupOf(rows, columns, r), columns) = Key(r, columns)
           /\ GroupOf(rows, columns, r) \in Group(rows, columns)
  <1> DEFINE f == FirstOf(rows, columns, r)
             a == Total(Alike(rows, columns, r))
             i == Ids(Alike(rows, columns, r))
  <1>1. f \in rows /\ Key(f, columns) = Key(r, columns) /\ IsRow(f)
    BY GroupOfRow
  <1>2. GroupOf(rows, columns, r) = [f EXCEPT !.amount = a, !.ids = i]
    BY DEF GroupOf
  <1>3. \A x \in DOMAIN f \ {"amount", "ids"} : GroupOf(rows, columns, r)[x] = f[x]
    BY GroupOfRow
  <1>4. GroupOf(rows, columns, r) \in Group(rows, columns)
    BY GroupIsImage
  <1> HIDE DEF f, a, i
  <1>5. GroupOf(rows, columns, r).amount = a /\ GroupOf(rows, columns, r).ids = i
    BY <1>1, <1>2 DEF IsRow
  <1>6. Key(GroupOf(rows, columns, r), columns) = Key(f, columns)
    BY <1>1, <1>3 DEF IsRow, Key
  <1> QED
    BY <1>1, <1>4, <1>5, <1>6 DEF a, i

LEMMA GroupsAreApart ==
    ASSUME NEW rows, \A s \in rows : IsRow(s), NEW columns,
           columns \subseteq {"cfo", "article", "period"}
    PROVE  /\ Grouped(Group(rows, columns), columns)
           /\ \A g \in Group(rows, columns) :
                \E r \in rows : g = GroupOf(rows, columns, r) /\ Key(r, columns) = Key(g, columns)
           /\ IsFiniteSet(rows) => IsFiniteSet(Group(rows, columns))
  <1>1. ASSUME NEW r \in rows, NEW s \in rows, Key(r, columns) = Key(s, columns)
        PROVE  GroupOf(rows, columns, r) = GroupOf(rows, columns, s)
    <2>1. Alike(rows, columns, r) = Alike(rows, columns, s)
      BY <1>1 DEF Alike
    <2> QED
      BY <2>1, Zenon DEF GroupOf, FirstOf
  <1>2. \A r \in rows : Key(GroupOf(rows, columns, r), columns) = Key(r, columns)
    BY GroupTells
  <1>3. \A g \in Group(rows, columns) :
          \E r \in rows : g = GroupOf(rows, columns, r) /\ Key(r, columns) = Key(g, columns)
    BY <1>2, GroupIsImage
  <1>4. Grouped(Group(rows, columns), columns)
    BY <1>1, <1>3 DEF Grouped
  <1>5. ASSUME IsFiniteSet(rows) PROVE IsFiniteSet(Group(rows, columns))
    <2> DEFINE m == [r \in rows |-> GroupOf(rows, columns, r)]
    <2>1. Group(rows, columns) = { m[r] : r \in rows }
      BY GroupIsImage
    <2> HIDE DEF m
    <2> QED
      BY <1>5, <2>1, ImageIsFinite
  <1> QED
    BY <1>3, <1>4, <1>5

\* Groups account for what their rows account for.
LEMMA AccountsGroup ==
    ASSUME NEW rows, \A s \in rows : IsRow(s), NEW columns,
           columns \subseteq {"cfo", "article", "period"},
           NEW f, Accounts(rows, f), \A x \in DOMAIN f : f[x] \in Int
    PROVE  Accounts(Group(rows, columns), f) /\ Ids(Group(rows, columns)) = Ids(rows)
  <1>1. ASSUME NEW r \in rows
        PROVE  LET g == GroupOf(rows, columns, r) IN
               /\ g.ids # {} /\ g.ids \subseteq DOMAIN f /\ IsFiniteSet(g.ids)
               /\ g.amount = Sum(f, g.ids) /\ g.ids = Ids(Alike(rows, columns, r))
    <2>1. Alike(rows, columns, r) \in SUBSET rows /\ r \in Alike(rows, columns, r)
      BY DEF Alike
    <2>2. Accounts(Alike(rows, columns, r), f)
      BY <2>1, AccountsPart
    <2>3. /\ Total(Alike(rows, columns, r)) = Sum(f, Ids(Alike(rows, columns, r)))
          /\ IsFiniteSet(Ids(Alike(rows, columns, r)))
      BY <2>2, AccountsTotal
    <2>4. Ids(Alike(rows, columns, r)) # {} /\ Ids(Alike(rows, columns, r)) \subseteq DOMAIN f
      BY <2>1 DEF Accounts, Ids
    <2> QED
      BY <2>3, <2>4, GroupTells, Zenon
  <1>2. ASSUME NEW g \in Group(rows, columns), NEW h \in Group(rows, columns),
               g.ids \intersect h.ids # {}
        PROVE  g = h
    <2>1. PICK r \in rows : g = GroupOf(rows, columns, r) /\ Key(r, columns) = Key(g, columns)
      BY GroupsAreApart
    <2>2. PICK s \in rows : h = GroupOf(rows, columns, s) /\ Key(s, columns) = Key(h, columns)
      BY GroupsAreApart
    <2>3. PICK x \in g.ids : x \in h.ids
      BY <1>2
    <2>4. x \in Ids(Alike(rows, columns, r)) /\ x \in Ids(Alike(rows, columns, s))
      BY <2>1, <2>2, <2>3, <1>1
    <2>5. PICK q \in rows : x \in q.ids /\ Key(q, columns) = Key(r, columns)
      BY <2>4 DEF Ids, Alike
    <2>6. PICK t \in rows : x \in t.ids /\ Key(t, columns) = Key(s, columns)
      BY <2>4 DEF Ids, Alike
    <2>7. q = t
      BY <2>5, <2>6 DEF Accounts
    <2>8. Key(g, columns) = Key(h, columns)
      BY <2>1, <2>2, <2>5, <2>6, <2>7
    <2>9. Grouped(Group(rows, columns), columns)
      BY GroupsAreApart
    <2> QED
      BY <2>8, <2>9 DEF Grouped
  <1>3. Ids(Group(rows, columns)) = Ids(rows)
    <2>1. \A r \in rows : r \in Alike(rows, columns, r) /\ Alike(rows, columns, r) \subseteq rows
      BY DEF Alike
    <2>2. \A r \in rows : r.ids \subseteq GroupOf(rows, columns, r).ids
                          /\ GroupOf(rows, columns, r).ids \subseteq Ids(rows)
      <3> TAKE r \in rows
      <3>1. GroupOf(rows, columns, r).ids = Ids(Alike(rows, columns, r))
        BY <1>1
      <3> QED
        BY <3>1, <2>1 DEF Ids
    <2>3. Group(rows, columns) = { GroupOf(rows, columns, r) : r \in rows }
      BY GroupIsImage
    <2> QED
      BY <2>2, <2>3 DEF Ids
  <1>4. IsFiniteSet(Group(rows, columns))
    BY GroupsAreApart DEF Accounts
  <1>5. \A g \in Group(rows, columns) : \E r \in rows : g = GroupOf(rows, columns, r)
    BY GroupIsImage
  <1> QED
    BY <1>1, <1>2, <1>3, <1>4, <1>5 DEF Accounts


FactAmounts    == [i \in Dated |-> fact[i].amount]
PlanAmounts(p) == [i \in DOMAIN plan |-> plan[i].amount[p]]

LEMMA FactRowsAccount ==
    ASSUME fact \in Facts
    PROVE  /\ Accounts(FactRows, FactAmounts) /\ Ids(FactRows) = Dated
           /\ \A i \in DOMAIN FactAmounts : FactAmounts[i] \in Int
           /\ DOMAIN FactAmounts = Dated /\ Dated \subseteq Nat
  <1> DEFINE Line   == [cfo: Cfos, article: Labels, period: Periods \union {NoDate}, amount: Int]
             Row(i) == [cfo |-> fact[i].cfo, article |-> ArticleKey(fact[i].article), label |-> fact[i].article,
                        period |-> fact[i].period, amount |-> fact[i].amount, ids |-> {i},
                        match |-> "unmatched"]
             m      == [i \in Dated |-> Row(i)]
  <1>1. fact \in Seq(Line)
    BY TablesAssumption
  <1>2. DOMAIN fact = 1..Len(fact) /\ Len(fact) \in Nat /\ \A i \in DOMAIN fact : fact[i] \in Line
    <2> HIDE DEF Line
    <2> QED
      BY <1>1
  <1>3. \A l \in Line : l.amount \in Int
    OBVIOUS
  <1> HIDE DEF Line
  <1>4. IsFiniteSet(Dated) /\ Dated \subseteq Nat /\ \A i \in Dated : fact[i].amount \in Int
    <2>1. IsFiniteSet(DOMAIN fact) /\ DOMAIN fact \subseteq Nat
      BY <1>2, FS_Interval
    <2>2. Dated \in SUBSET DOMAIN fact
      BY DEF Dated
    <2> QED
      BY <1>2, <1>3, <2>1, <2>2, FS_Subset
  <1>5. FactRows = { m[i] : i \in Dated }
    BY DEF FactRows
  <1>6. \A i \in Dated : m[i].ids = {i} /\ m[i].amount = FactAmounts[i]
    BY DEF FactAmounts
  <1>7. DOMAIN FactAmounts = Dated /\ \A i \in Dated : FactAmounts[i] \in Int
    BY <1>4 DEF FactAmounts
  <1> HIDE DEF m
  <1>8. IsFiniteSet(FactRows) /\ Ids(FactRows) = Dated
    <2>1. IsFiniteSet(FactRows)
      BY <1>4, <1>5, ImageIsFinite
    <2>2. Ids(FactRows) = Dated
      BY <1>5, <1>6 DEF Ids
    <2> QED
      BY <2>1, <2>2
  <1>9. \A i \in Dated : IsFiniteSet({i}) /\ FactAmounts[i] = Sum(FactAmounts, {i})
    BY <1>7, SumOfOne, FS_Singleton
  <1>10. Accounts(FactRows, FactAmounts)
    BY <1>5, <1>6, <1>7, <1>8, <1>9 DEF Accounts
  <1> QED
    BY <1>4, <1>7, <1>8, <1>10

\* The plan rows of a month account for its column.
LEMMA PlanRowsAccount ==
    ASSUME plan \in Plans
    PROVE  /\ IsFiniteSet(PlanLong) /\ \A q \in PlanLong : q.amount \in Int
           /\ \A p \in PlanMonths :
                /\ Accounts({ q \in PlanLong : q.period = p }, PlanAmounts(p))
                /\ \A i \in DOMAIN PlanAmounts(p) : PlanAmounts(p)[i] \in Int
  <1> DEFINE Row(i, p) == [cfo |-> plan[i].cfo, article |-> ArticleKey(plan[i].article), period |-> p,
                           amount |-> plan[i].amount[p], ids |-> {i}]
  <1>1. PlanLong = { Row(i, p) : i \in DOMAIN plan, p \in PlanMonths }
    BY DEF PlanLong
  <1>r. \A i \in DOMAIN plan : \A p \in PlanMonths :
          /\ Row(i, p).period = p /\ Row(i, p).ids = {i} /\ Row(i, p).amount = plan[i].amount[p]
    OBVIOUS
  <1> HIDE DEF Row
  <1> DEFINE D == DOMAIN plan
             M == PlanMonths
             m == [x \in D \X M |-> Row(x[1], x[2])]
  <1>2. PlanLong = { m[x] : x \in D \X M }
    <2> HIDE DEF D, M
    <2>1. \A i \in D : \A p \in M : <<i, p>> \in D \X M /\ m[<<i, p>>] = Row(i, p)
      OBVIOUS
    <2>2. \A x \in D \X M : m[x] = Row(x[1], x[2]) /\ x[1] \in D /\ x[2] \in M
      OBVIOUS
    <2> HIDE DEF m
    <2>3. PlanLong = { Row(i, p) : i \in D, p \in M }
      BY <1>1 DEF D, M
    <2>4. ASSUME NEW q \in PlanLong PROVE q \in { m[x] : x \in D \X M }
      <3>1. PICK i \in D, p \in M : q = Row(i, p)
        BY <2>3
      <3>2. <<i, p>> \in D \X M /\ q = m[<<i, p>>]
        BY <2>1, <3>1
      <3> QED
        BY <3>2, Zenon
    <2>5. ASSUME NEW x \in D \X M PROVE m[x] \in PlanLong
      BY <2>2, <2>3
    <2> QED
      BY <2>4, <2>5
  <1>3. IsFiniteSet(D \X M)
    <2>1. IsFiniteSet(D) /\ IsFiniteSet(M)
      BY PlanIsRead
    <2> HIDE DEF D, M
    <2> QED
      BY <2>1, FS_Product, Zenon
  <1>4. IsFiniteSet(PlanLong)
    <2> HIDE DEF m, D, M
    <2> QED
      BY <1>2, <1>3, ImageIsFinite
  <1>5. \A i \in DOMAIN plan : \A p \in PlanMonths :
          /\ Row(i, p).period = p /\ Row(i, p).ids = {i} /\ Row(i, p).amount = plan[i].amount[p]
          /\ plan[i].amount[p] \in Int
    BY <1>r, PlanIsRead
  <1>6. ASSUME NEW p \in PlanMonths
        PROVE  /\ Accounts({ q \in PlanLong : q.period = p }, PlanAmounts(p))
               /\ \A i \in DOMAIN PlanAmounts(p) : PlanAmounts(p)[i] \in Int
    <2> DEFINE rows == { q \in PlanLong : q.period = p }
    <2>1. /\ DOMAIN PlanAmounts(p) = DOMAIN plan
          /\ \A i \in DOMAIN plan : PlanAmounts(p)[i] = plan[i].amount[p] /\ PlanAmounts(p)[i] \in Int
      BY <1>5 DEF PlanAmounts
    <2>2. \A i \in DOMAIN plan : IsFiniteSet({i}) /\ PlanAmounts(p)[i] = Sum(PlanAmounts(p), {i})
      BY <2>1, SumOfOne, FS_Singleton
    <2>3. IsFiniteSet(rows)
      BY <1>4, FS_Subset
    <2>4. \A q \in rows : \E i \in DOMAIN plan : q = Row(i, p)
      BY <1>1, <1>5
    <2> HIDE DEF rows
    <2>5. Accounts(rows, PlanAmounts(p))
      BY <2>1, <2>2, <2>3, <2>4, <1>5 DEF Accounts
    <2> QED
      BY <2>1, <2>5 DEF rows
  <1>7. \A q \in PlanLong : q.amount \in Int
    BY <1>1, <1>5
  <1> QED
    BY <1>4, <1>6, <1>7

LEMMA TotalOfPart ==
    ASSUME NEW rows, IsFiniteSet(rows), \A r \in rows : r.amount \in Int, NEW part \in SUBSET rows
    PROVE  /\ Total(part) = Sum([r \in rows |-> r.amount], part)
           /\ Total(part) \in Int /\ IsFiniteSet(part)
  <1> DEFINE f == [r \in rows |-> r.amount]
             g == [r \in part |-> r.amount]
  <1>1. IsFiniteSet(part)
    BY FS_Subset
  <1>2. \A r \in part : f[r] \in Int /\ f[r] = g[r]
    OBVIOUS
  <1>3. Total(part) = Sum(g, part)
    BY TotalIsSum
  <1> HIDE DEF f, g
  <1>4. Sum(f, part) = Sum(g, part) /\ Sum(f, part) \in Int
    BY <1>1, <1>2, SumAgrees, SumIsInt
  <1> QED
    BY <1>1, <1>3, <1>4 DEF f

AreColumns(columns) == columns \subseteq {"cfo", "article", "period"}
Counted(rows) == IsFiniteSet(rows) /\ \A s \in rows : IsRow(s) /\ s.amount \in Int
Keyed(part, rows, columns, K) == \A q : q \in part <=> q \in rows /\ Key(q, columns) \in K

\* The groups with some keys have the total of the rows with these keys.
LEMMA GroupTotals ==
    ASSUME NEW rows, Counted(rows), NEW columns, AreColumns(columns), NEW K, NEW H,
           Keyed(H, Group(rows, columns), columns, K),
           NEW all, Keyed(all, rows, columns, K)
    PROVE  Total(H) = Total(all) /\ IsFiniteSet(H) /\ \A h \in H : h.amount \in Int
  <1> DEFINE f     == [r \in rows |-> r.amount]
             w     == [h \in H |-> h.amount]
             parts == [h \in H |-> Alike(rows, columns, h)]
  <1>c. IsFiniteSet(rows) /\ \A s \in rows : IsRow(s) /\ s.amount \in Int
    BY DEF Counted
  <1>a. columns \subseteq {"cfo", "article", "period"}
    BY DEF AreColumns
  <1>k. /\ \A h : h \in H <=> h \in Group(rows, columns) /\ Key(h, columns) \in K
        /\ \A q : q \in all <=> q \in rows /\ Key(q, columns) \in K
    BY DEF Keyed
  <1>1. IsFiniteSet(H)
    <2>1. IsFiniteSet(Group(rows, columns)) /\ H \in SUBSET Group(rows, columns)
      BY <1>c, <1>a, <1>k, GroupsAreApart
    <2> QED
      BY <2>1, FS_Subset
  <1>2. ASSUME NEW h \in H
        PROVE  IsFiniteSet(parts[h]) /\ w[h] = Sum(f, parts[h]) /\ w[h] \in Int
    <2>0. h \in Group(rows, columns)
      BY <1>k
    <2>1. PICK r \in rows : h = GroupOf(rows, columns, r) /\ Key(r, columns) = Key(h, columns)
      BY <1>c, <1>a, <2>0, GroupsAreApart
    <2>2. Alike(rows, columns, h) = Alike(rows, columns, r) /\ Alike(rows, columns, r) \in SUBSET rows
      BY <2>1 DEF Alike
    <2>3. h.amount = Total(Alike(rows, columns, r))
      BY <1>c, <1>a, <2>1, GroupTells
    <2>4. /\ Total(Alike(rows, columns, r)) = Sum(f, Alike(rows, columns, r))
          /\ Total(Alike(rows, columns, r)) \in Int /\ IsFiniteSet(Alike(rows, columns, r))
      BY <1>c, <2>2, TotalOfPart
    <2> HIDE DEF f
    <2>5. parts[h] = Alike(rows, columns, r) /\ w[h] = h.amount
      BY <2>2, Zenon
    <2> HIDE DEF parts, w
    <2> QED
      BY <2>3, <2>4, <2>5
  <1>3. \A g, h \in H : g # h => parts[g] \intersect parts[h] = {}
    <2>1. \A g, h \in H : Key(g, columns) = Key(h, columns) => g = h
      BY <1>c, <1>a, <1>k, GroupsAreApart DEF Grouped
    <2> QED
      BY <2>1 DEF Alike
  <1>4. \A h \in H : parts[h] \subseteq rows
    BY DEF Alike
  <1>5. ASSUME NEW q PROVE q \in all <=> \E h \in H : q \in parts[h]
    <2>1. ASSUME q \in all PROVE \E h \in H : q \in parts[h]
      <3>1. q \in rows /\ Key(q, columns) \in K
        BY <1>k, <2>1
      <3>2. /\ GroupOf(rows, columns, q) \in Group(rows, columns)
            /\ Key(GroupOf(rows, columns, q), columns) = Key(q, columns)
        BY <1>c, <1>a, <3>1, GroupTells
      <3>3. GroupOf(rows, columns, q) \in H
        BY <1>k, <3>1, <3>2
      <3> QED
        BY <3>1, <3>2, <3>3 DEF Alike
    <2>2. ASSUME NEW h \in H, q \in parts[h] PROVE q \in all
      BY <1>k, <2>2 DEF Alike
    <2> QED
      BY <2>1, <2>2
  <1>6. \A h \in H : \A x \in parts[h] : f[x] \in Int
    BY <1>c, <1>4
  <1>7. Total(all) = Sum(f, all)
    <2>1. all \in SUBSET rows
      BY <1>k
    <2> QED
      BY <1>c, <2>1, TotalOfPart
  <1>8. Total(H) = Sum(w, H)
    BY TotalIsSum
  <1>9. \A h \in H : h.amount = w[h]
    OBVIOUS
  <1> HIDE DEF f, w, parts
  <1>10. Splits(w, H, f, parts, all)
    BY <1>1, <1>2, <1>3, <1>5, <1>6 DEF Splits
  <1>11. Sum(w, H) = Sum(f, all)
    BY <1>10, SumOfSums
  <1>12. \A h \in H : h.amount \in Int
    BY <1>2, <1>9
  <1> QED
    BY <1>1, <1>7, <1>8, <1>11, <1>12


-----------------------------------------------------------------------------
(* What merge(..., how="outer") adds up                                     *)

\* The rows of one side with a key, or the absent row.
Side(rows, columns, k) ==
    IF k \in Keys(rows, columns) THEN { r \in rows : Key(r, columns) = k } ELSE {Empty}

LEMMA MergeIsJoin ==
    ASSUME NEW ps, NEW fs, NEW columns
    PROVE  \A t : t \in Merge(ps, fs, columns) <=>
                    \E k \in Keys(ps, columns) \union Keys(fs, columns) :
                      \E p \in Side(ps, columns, k) : \E f \in Side(fs, columns, k) : t = Joined(k, p, f)
  <1>1. ASSUME NEW t \in Merge(ps, fs, columns)
        PROVE  \E k \in Keys(ps, columns) \union Keys(fs, columns) :
                 \E p \in Side(ps, columns, k) : \E f \in Side(fs, columns, k) : t = Joined(k, p, f)
    <2>1. CASE t \in InnerMerge(ps, fs, columns)
      <3>1. PICK x \in ps \X fs : Key(x[1], columns) = Key(x[2], columns)
                                  /\ t = Joined(Key(x[1], columns), x[1], x[2])
        BY <2>1 DEF InnerMerge
      <3>2. x[1] \in ps /\ x[2] \in fs
        OBVIOUS
      <3> QED
        BY <3>1, <3>2 DEF Side, Keys
    <2>2. CASE t \in { Joined(Key(p, columns), p, Empty) :
                         p \in { q \in ps : Key(q, columns) \notin Keys(fs, columns) } }
      <3>1. PICK p \in ps : Key(p, columns) \notin Keys(fs, columns) /\ t = Joined(Key(p, columns), p, Empty)
        BY <2>2
      <3>2. /\ Key(p, columns) \in Keys(ps, columns) /\ p \in Side(ps, columns, Key(p, columns))
            /\ Empty \in Side(fs, columns, Key(p, columns))
        BY <3>1 DEF Side, Keys
      <3> QED
        BY <3>1, <3>2
    <2>3. CASE t \in { Joined(Key(f, columns), Empty, f) :
                         f \in { g \in fs : Key(g, columns) \notin Keys(ps, columns) } }
      <3>1. PICK f \in fs : Key(f, columns) \notin Keys(ps, columns) /\ t = Joined(Key(f, columns), Empty, f)
        BY <2>3
      <3>2. /\ Key(f, columns) \in Keys(fs, columns) /\ f \in Side(fs, columns, Key(f, columns))
            /\ Empty \in Side(ps, columns, Key(f, columns))
        BY <3>1 DEF Side, Keys
      <3> QED
        BY <3>1, <3>2
    <2> QED
      BY <2>1, <2>2, <2>3 DEF Merge
  <1>2. ASSUME NEW k \in Keys(ps, columns) \union Keys(fs, columns),
               NEW p \in Side(ps, columns, k), NEW f \in Side(fs, columns, k)
        PROVE  Joined(k, p, f) \in Merge(ps, fs, columns)
    <2>1. CASE k \in Keys(ps, columns) /\ k \in Keys(fs, columns)
      <3>1. p \in ps /\ f \in fs /\ Key(p, columns) = k /\ Key(f, columns) = k
        BY <2>1 DEF Side
      <3> DEFINE x == <<p, f>>
      <3>2. x \in ps \X fs /\ x[1] = p /\ x[2] = f
        BY <3>1
      <3> HIDE DEF x
      <3>3. x \in { y \in ps \X fs : Key(y[1], columns) = Key(y[2], columns) }
        BY <3>1, <3>2
      <3>4. Joined(k, p, f) = Joined(Key(x[1], columns), x[1], x[2])
        BY <3>1, <3>2
      <3> QED
        BY <3>3, <3>4 DEF Merge, InnerMerge
    <2>2. CASE k \in Keys(ps, columns) /\ k \notin Keys(fs, columns)
      <3>1. p \in ps /\ f = Empty /\ Key(p, columns) = k
        BY <2>2 DEF Side
      <3> QED
        BY <2>2, <3>1 DEF Merge
    <2>3. CASE k \notin Keys(ps, columns) /\ k \in Keys(fs, columns)
      <3>1. f \in fs /\ p = Empty /\ Key(f, columns) = k
        BY <2>3 DEF Side
      <3> QED
        BY <2>3, <3>1 DEF Merge
    <2> QED
      BY <2>1, <2>2, <2>3
  <1> QED
    BY <1>1, <1>2

LEMMA MergeIsFinite ==
    ASSUME NEW ps, IsFiniteSet(ps), NEW fs, IsFiniteSet(fs), NEW columns
    PROVE  IsFiniteSet(Merge(ps, fs, columns))
  <1> DEFINE X  == { y \in ps \X fs : Key(y[1], columns) = Key(y[2], columns) }
             P  == { q \in ps : Key(q, columns) \notin Keys(fs, columns) }
             F  == { g \in fs : Key(g, columns) \notin Keys(ps, columns) }
             mx == [x \in X |-> Joined(Key(x[1], columns), x[1], x[2])]
             mp == [p \in P |-> Joined(Key(p, columns), p, Empty)]
             mf == [f \in F |-> Joined(Key(f, columns), Empty, f)]
             A == { mx[x] : x \in X }
             B == { mp[p] : p \in P }
             C == { mf[f] : f \in F }
  <1>1. IsFiniteSet(ps \X fs)
    BY FS_Product, Zenon
  <1>2. X \in SUBSET (ps \X fs) /\ P \in SUBSET ps /\ F \in SUBSET fs
    OBVIOUS
  <1>3. Merge(ps, fs, columns) = (A \union B) \union C
    BY DEF Merge, InnerMerge
  <1> HIDE DEF X, P, F, mx, mp, mf
  <1>4. IsFiniteSet(X) /\ IsFiniteSet(P) /\ IsFiniteSet(F)
    BY <1>1, <1>2, FS_Subset
  <1>5. IsFiniteSet(A) /\ IsFiniteSet(B) /\ IsFiniteSet(C)
    BY <1>4, ImageIsFinite
  <1> HIDE DEF A, B, C
  <1>6. IsFiniteSet((A \union B) \union C)
    BY <1>5, FS_Union
  <1> QED
    BY <1>3, <1>6, Zenon

\* On a side whose keys are different there is one row for a key at most.
LEMMA SideIsOne ==
    ASSUME NEW rows, NEW columns, Grouped(rows, columns), NEW k
    PROVE  \A p, q \in Side(rows, columns, k) : p = q
  BY DEF Side, Grouped

\* The facts are all there, once, whatever the plan.
LEMMA MergedFacts ==
    ASSUME NEW ps, IsFiniteSet(ps), NEW fs, NEW columns, Grouped(ps, columns),
           NEW f, Accounts(fs, f), \A x \in DOMAIN f : f[x] \in Int
    PROVE  LET T == Merge(ps, fs, columns) IN
           /\ IsFiniteSet(T) /\ FactSum(T) = Total(fs)
           /\ \A t \in T : t.fact = Sum(f, t.factIds) /\ t.factIds \subseteq DOMAIN f
           /\ UNION { t.factIds : t \in T } = Ids(fs)
           /\ \A t, u \in T : t # u => t.factIds \intersect u.factIds = {}
           /\ \A t \in T : t.factIds # {} => \E g \in fs : t.factIds = g.ids /\ t.key = Key(g, columns)
           /\ \A g \in fs : \E t \in T : t.factIds = g.ids /\ t.key = Key(g, columns)
  <1> DEFINE T == Merge(ps, fs, columns)
  <1>f. IsFiniteSet(T)
    BY MergeIsFinite DEF Accounts
  <1>1. \A k, p, g : /\ Joined(k, p, g).key = k /\ Joined(k, p, g).factIds = g.ids
                     /\ Joined(k, p, g).fact = g.amount
    BY DEF Joined
  <1>2. ASSUME NEW t \in T, t.factIds # {}
        PROVE  \E g \in fs : t.factIds = g.ids /\ t.fact = g.amount /\ t.key = Key(g, columns)
                             /\ \E p \in Side(ps, columns, t.key) : t = Joined(t.key, p, g)
    <2>k. PICK k : \E p \in Side(ps, columns, k) : \E g \in Side(fs, columns, k) : t = Joined(k, p, g)
      BY MergeIsJoin
    <2>p. PICK p \in Side(ps, columns, k) : \E g \in Side(fs, columns, k) : t = Joined(k, p, g)
      BY <2>k
    <2>1. PICK g \in Side(fs, columns, k) : t = Joined(k, p, g)
      BY <2>p
    <2>2. g # Empty
      BY <1>2, <2>1, <1>1 DEF Empty
    <2>3. g \in fs /\ Key(g, columns) = k
      BY <2>2 DEF Side
    <2> QED
      BY <2>1, <2>3, <1>1
  <1>3. ASSUME NEW t \in T, t.factIds = {} PROVE t.fact = 0
    <2>k. PICK k : \E p \in Side(ps, columns, k) : \E g \in Side(fs, columns, k) : t = Joined(k, p, g)
      BY MergeIsJoin
    <2>p. PICK p \in Side(ps, columns, k) : \E g \in Side(fs, columns, k) : t = Joined(k, p, g)
      BY <2>k
    <2>1. PICK g \in Side(fs, columns, k) : t = Joined(k, p, g)
      BY <2>p
    <2>2. g \notin fs
      BY <1>3, <2>1, <1>1 DEF Accounts
    <2>3. g = Empty
      BY <2>2 DEF Side
    <2> QED
      BY <2>1, <2>3, <1>1 DEF Empty
  <1>4. ASSUME NEW g \in fs PROVE \E t \in T : t.factIds = g.ids /\ t.key = Key(g, columns)
    <2> DEFINE k == Key(g, columns)
    <2>1. k \in Keys(fs, columns) /\ g \in Side(fs, columns, k)
      BY DEF Side, Keys
    <2>2. \E p : p \in Side(ps, columns, k)
      BY DEF Side, Keys
    <2> HIDE DEF k
    <2>3. PICK p \in Side(ps, columns, k) : Joined(k, p, g) \in T
      BY <2>1, <2>2, MergeIsJoin
    <2> QED
      BY <2>3, <1>1 DEF k
  <1> HIDE DEF T
  <1>5. \A t \in T : /\ IsFiniteSet(t.factIds) /\ t.factIds \subseteq DOMAIN f
                     /\ t.fact = Sum(f, t.factIds)
    <2> TAKE t \in T
    <2>1. CASE t.factIds = {}
      BY <2>1, <1>3, SumOfNone, FS_EmptySet
    <2>2. CASE t.factIds # {}
      BY <2>2, <1>2 DEF Accounts
    <2> QED
      BY <2>1, <2>2
  <1>6. ASSUME NEW t \in T, NEW u \in T, t.factIds \intersect u.factIds # {} PROVE t = u
    <2>1. t.factIds # {} /\ u.factIds # {}
      BY <1>6
    <2>2. PICK g \in fs : t.factIds = g.ids /\ t.key = Key(g, columns)
                          /\ \E p \in Side(ps, columns, t.key) : t = Joined(t.key, p, g)
      BY <2>1, <1>2
    <2>3. PICK h \in fs : u.factIds = h.ids /\ u.key = Key(h, columns)
                          /\ \E p \in Side(ps, columns, u.key) : u = Joined(u.key, p, h)
      BY <2>1, <1>2
    <2>4. g = h
      BY <1>6, <2>2, <2>3 DEF Accounts
    <2>5. t.key = u.key
      BY <2>2, <2>3, <2>4
    <2> QED
      BY <2>2, <2>3, <2>4, <2>5, SideIsOne
  <1>7. UNION { t.factIds : t \in T } = Ids(fs)
    BY <1>2, <1>4 DEF Ids
  <1>8. FactSum(T) = Total(fs)
    <2> DEFINE w == [t \in T |-> t.fact]
               parts == [t \in T |-> t.factIds]
    <2>1. FactSum(T) = Sum(w, T)
      BY SumIsOnDomain DEF FactSum
    <2>2. \A t \in T : /\ IsFiniteSet(parts[t]) /\ w[t] = Sum(f, parts[t])
      BY <1>5
    <2>3. \A t, u \in T : t # u => parts[t] \intersect parts[u] = {}
      BY <1>6
    <2>4. \A t \in T : \A x \in parts[t] : f[x] \in Int
      BY <1>5
    <2>5. \A x : x \in Ids(fs) <=> \E t \in T : x \in parts[t]
      BY <1>7
    <2> HIDE DEF w, parts
    <2>s. Splits(w, T, f, parts, Ids(fs))
      BY <1>f, <2>2, <2>3, <2>4, <2>5 DEF Splits
    <2>6. Sum(w, T) = Sum(f, Ids(fs))
      BY <2>s, SumOfSums
    <2> QED
      BY <2>1, <2>6, AccountsTotal
  <1> QED
    BY <1>f, <1>2, <1>4, <1>5, <1>6, <1>7, <1>8 DEF T

\* The plan is all there, once, if the facts have one row for a key at most.
LEMMA MergedPlan ==
    ASSUME NEW ps, IsFiniteSet(ps), \A p \in ps : p.amount \in Int,
           NEW fs, IsFiniteSet(fs), NEW columns, Grouped(ps, columns), Grouped(fs, columns), NEW K,
           NEW R, R = { t \in Merge(ps, fs, columns) : t.key \in K },
           NEW all, Keyed(all, ps, columns, K)
    PROVE  PlanSum(R) = Total(all)
  <1> DEFINE T     == Merge(ps, fs, columns)
             f     == [p \in ps |-> p.amount]
             w     == [t \in R |-> t.plan]
             parts == [t \in R |-> { p \in ps : Key(p, columns) = t.key }]
  <1>k. \A p : p \in all <=> p \in ps /\ Key(p, columns) \in K
    BY DEF Keyed
  <1>f. IsFiniteSet(R)
    <2>1. IsFiniteSet(T) /\ R \in SUBSET T
      BY MergeIsFinite
    <2> QED
      BY <2>1, FS_Subset
  <1>0. \A k, p, g : Joined(k, p, g).key = k /\ Joined(k, p, g).plan = p.amount
    BY DEF Joined
  <1>1. ASSUME NEW t \in R
        PROVE  \E p \in Side(ps, columns, t.key) : \E g \in Side(fs, columns, t.key) :
                 t = Joined(t.key, p, g) /\ t.plan = p.amount
    BY MergeIsJoin, <1>0
  <1>2. ASSUME NEW p \in all PROVE \E t \in R : t.key = Key(p, columns)
    <2> DEFINE k == Key(p, columns)
    <2>1. k \in Keys(ps, columns) /\ p \in Side(ps, columns, k) /\ k \in K
      BY <1>k DEF Side, Keys
    <2>2. \E g : g \in Side(fs, columns, k)
      BY DEF Side, Keys
    <2>0. p \in ps
      BY <1>k
    <2> HIDE DEF k
    <2>3. PICK g \in Side(fs, columns, k) : Joined(k, p, g) \in T
      BY <2>1, <2>2, MergeIsJoin
    <2>4. Joined(k, p, g) \in R /\ Joined(k, p, g).key = k
      BY <2>1, <2>3, <1>0
    <2> QED
      BY <2>4 DEF k
  <1>3. ASSUME NEW t \in R PROVE IsFiniteSet(parts[t]) /\ w[t] = Sum(f, parts[t])
    <2>1. PICK p \in Side(ps, columns, t.key) : t.plan = p.amount
      BY <1>1
    <2>2. CASE t.key \in Keys(ps, columns)
      <3>1. p \in ps /\ Key(p, columns) = t.key
        BY <2>2 DEF Side
      <3>2. parts[t] = {p} /\ w[t] = f[p] /\ f[p] \in Int
        BY <2>1, <3>1 DEF Grouped
      <3> HIDE DEF f, w, parts
      <3>3. Sum(f, {p}) = f[p] /\ IsFiniteSet({p})
        BY <3>2, SumOfOne, FS_Singleton
      <3>4. Sum(f, parts[t]) = Sum(f, {p}) /\ IsFiniteSet(parts[t])
        BY <3>2, <3>3, Zenon
      <3> QED
        BY <3>2, <3>3, <3>4
    <2>3. CASE t.key \notin Keys(ps, columns)
      <3>1. parts[t] = {} /\ w[t] = 0
        BY <2>1, <2>3 DEF Side, Keys, Empty
      <3> HIDE DEF f, w, parts
      <3> QED
        BY <3>1, SumOfNone, FS_EmptySet
    <2> QED
      BY <2>2, <2>3
  <1>4. \A t, u \in R : t # u => parts[t] \intersect parts[u] = {}
    <2>1. \A t, u \in R : t.key = u.key => t = u
      BY <1>1, SideIsOne
    <2> QED
      BY <2>1
  <1>5. ASSUME NEW x PROVE x \in all <=> \E t \in R : x \in parts[t]
    <2>1. ASSUME x \in all PROVE \E t \in R : x \in parts[t]
      <3>1. PICK t \in R : t.key = Key(x, columns)
        BY <1>2, <2>1
      <3>2. x \in ps
        BY <1>k, <2>1
      <3> QED
        BY <3>1, <3>2
    <2>2. ASSUME NEW t \in R, x \in parts[t] PROVE x \in all
      BY <1>k, <2>2
    <2> QED
      BY <2>1, <2>2
  <1>6. \A t \in R : \A x \in parts[t] : f[x] \in Int
    OBVIOUS
  <1>7. Total(all) = Sum(f, all)
    <2>1. all \in SUBSET ps
      BY <1>k
    <2> QED
      BY <2>1, TotalOfPart
  <1>8. PlanSum(R) = Sum(w, R)
    BY SumIsOnDomain DEF PlanSum
  <1> HIDE DEF T, f, w, parts
  <1>s. Splits(w, R, f, parts, all)
    BY <1>f, <1>3, <1>4, <1>5, <1>6 DEF Splits
  <1>9. Sum(w, R) = Sum(f, all)
    BY <1>s, SumOfSums
  <1> QED
    BY <1>7, <1>8, <1>9


-----------------------------------------------------------------------------
(* The books: what every table accounts for                                 *)

\* The CFO a fact is booked on.
Booked(i) ==
    IF stage # "built" /\ CfoKey[fact[i].cfo] \in DOMAIN cfoMap
    THEN SpellingOf(cfoMap[CfoKey[fact[i].cfo]]) ELSE fact[i].cfo

\* Both tables of facts account for all facts with a date; a row by CFO is of
\* the CFO and the month of each of its facts; the rest is made of them.
BooksInv ==
    /\ stage # "read" =>
         /\ Accounts(monthly, FactAmounts) /\ Ids(monthly) = Dated /\ Grouped(monthly, CfoPeriod)
         /\ Accounts(byLabel, FactAmounts) /\ Ids(byLabel) = Dated
         /\ \A m \in monthly : \A i \in m.ids : m.period = fact[i].period /\ m.cfo = Booked(i)
    /\ stage \in {"mapped", "matched", "joined"} => report = Report(monthly)
    /\ stage = "joined" =>
         /\ byCfo = Merge(Group(JoinedPlan, CfoPeriod), monthly, CfoPeriod)
         /\ byArticle = Merge(Group(JoinedPlan, CfoArticlePeriod), byLabel, CfoArticlePeriod)

LEMMA Columns ==
    /\ CfoPeriod \subseteq {"cfo", "article", "period"} /\ "cfo" \in CfoPeriod /\ "period" \in CfoPeriod
    /\ CfoArticlePeriod \subseteq {"cfo", "article", "period"} /\ "period" \in CfoArticlePeriod
    /\ \A r, s : Key(r, CfoPeriod) = Key(s, CfoPeriod) <=> r.cfo = s.cfo /\ r.period = s.period
    /\ \A r : Key(r, CfoPeriod).cfo = r.cfo /\ Key(r, CfoPeriod).period = r.period
    /\ \A r : Key(r, CfoArticlePeriod).period = r.period
  BY DEF CfoPeriod, CfoArticlePeriod, Key

\* A number of a group comes from a row with the key of the group.
LEMMA GroupKeeps ==
    ASSUME NEW rows, \A s \in rows : IsRow(s), NEW columns,
           columns \subseteq {"cfo", "article", "period"}
    PROVE  \A g \in Group(rows, columns) : \A i \in g.ids :
             \E q \in rows : i \in q.ids /\ Key(q, columns) = Key(g, columns)
  <1> SUFFICES ASSUME NEW g \in Group(rows, columns), NEW i \in g.ids
               PROVE  \E q \in rows : i \in q.ids /\ Key(q, columns) = Key(g, columns)
    OBVIOUS
  <1>1. PICK r \in rows : g = GroupOf(rows, columns, r) /\ Key(r, columns) = Key(g, columns)
    BY GroupsAreApart
  <1>2. g.ids = Ids(Alike(rows, columns, r))
    BY <1>1, GroupTells
  <1> QED
    BY <1>1, <1>2 DEF Ids, Alike

LEMMA BooksInitially == TablesInit => BooksInv
  BY DEF TablesInit, BooksInv

LEMMA BooksBuilt == TablesInv /\ BooksInv /\ Build => BooksInv'
  <1> SUFFICES ASSUME TablesInv, BooksInv, Build PROVE BooksInv'
    OBVIOUS
  <1>1. /\ stage' = "built" /\ UNCHANGED files
        /\ monthly' = Group(FactRows, CfoPeriod) /\ byLabel' = Group(FactRows, CfoArticlePeriod)
    BY DEF Build
  <1>2. FactAmounts' = FactAmounts /\ Dated' = Dated /\ fact' = fact /\ fact \in Facts
    BY <1>1 DEF files, FactAmounts, Dated, TablesInv
  <1>3. \A r \in FactRows : IsRow(r)
    BY <1>2, FactsAreRead DEF IsFact
  <1>4. /\ Accounts(FactRows, FactAmounts) /\ Ids(FactRows) = Dated
        /\ \A i \in DOMAIN FactAmounts : FactAmounts[i] \in Int
    BY <1>2, FactRowsAccount
  <1>5. /\ Accounts(monthly', FactAmounts) /\ Ids(monthly') = Dated
        /\ Accounts(byLabel', FactAmounts) /\ Ids(byLabel') = Dated
    BY <1>1, <1>3, <1>4, AccountsGroup, Columns
  <1>6. Grouped(monthly', CfoPeriod)
    BY <1>1, <1>3, GroupsAreApart, Columns
  <1>7. ASSUME NEW m \in monthly', NEW i \in m.ids
        PROVE  m.period = fact[i].period /\ m.cfo = fact[i].cfo
    <2>c. CfoPeriod \subseteq {"cfo", "article", "period"}
      BY Columns
    <2>g. \A g \in Group(FactRows, CfoPeriod) : \A x \in g.ids :
            \E q \in FactRows : x \in q.ids /\ Key(q, CfoPeriod) = Key(g, CfoPeriod)
      BY <1>3, <2>c, GroupKeeps
    <2>1. PICK q \in FactRows : i \in q.ids /\ Key(q, CfoPeriod) = Key(m, CfoPeriod)
      BY <1>1, <2>g
    <2>2. q.period = fact[i].period /\ q.cfo = fact[i].cfo
      BY <2>1 DEF FactRows
    <2> QED
      BY <2>1, <2>2, Columns
  <1>8. \A i : Booked(i)' = fact[i].cfo
    BY <1>1, <1>2 DEF Booked
  <1> QED
    BY <1>1, <1>2, <1>5, <1>6, <1>7, <1>8 DEF BooksInv

LEMMA BooksMapped == TablesInv /\ BooksInv /\ ApplyCfoMapping => BooksInv'
  <1> SUFFICES ASSUME TablesInv, BooksInv, ApplyCfoMapping PROVE BooksInv'
    OBVIOUS
  <1>1. /\ stage = "built" /\ stage' = "mapped" /\ UNCHANGED <<files, planLong>>
        /\ monthly' = IF DOMAIN cfoMap = {} THEN monthly ELSE MappedMonthly
        /\ byLabel' = IF DOMAIN cfoMap = {} THEN byLabel ELSE MappedByLabel
        /\ report' = Report(monthly')
    BY DEF ApplyCfoMapping
  <1>2. /\ FactAmounts' = FactAmounts /\ Dated' = Dated /\ fact' = fact /\ fact \in Facts
        /\ cfoMap' = cfoMap /\ plan' = plan
    BY <1>1 DEF files, FactAmounts, Dated, TablesInv
  <1>3. (\A m \in monthly : IsRow(m)) /\ \A r \in byLabel : IsRow(r)
    BY <1>1 DEF TablesInv
  <1>4. /\ Accounts(monthly, FactAmounts) /\ Ids(monthly) = Dated /\ Grouped(monthly, CfoPeriod)
        /\ Accounts(byLabel, FactAmounts) /\ Ids(byLabel) = Dated
        /\ \A m \in monthly : \A i \in m.ids : m.period = fact[i].period /\ m.cfo = fact[i].cfo
    BY <1>1 DEF BooksInv, Booked
  <1>5. \A i \in DOMAIN FactAmounts : FactAmounts[i] \in Int
    BY <1>2, FactRowsAccount
  <1>6. \A i : Booked(i)' = IF CfoKey[fact[i].cfo] \in DOMAIN cfoMap
                            THEN SpellingOf(cfoMap[CfoKey[fact[i].cfo]]) ELSE fact[i].cfo
    BY <1>1, <1>2 DEF Booked, SpellingOf
  <1>7. report' = Report(monthly)'
    BY <1>1 DEF Report
  <1>8. CASE DOMAIN cfoMap = {}
    <2>1. monthly' = monthly /\ byLabel' = byLabel
      BY <1>1, <1>8
    <2>2. \A i : Booked(i)' = fact[i].cfo
      BY <1>6, <1>8
    <2> QED
      BY <1>1, <1>2, <1>4, <1>7, <2>1, <2>2 DEF BooksInv
  <1>9. CASE DOMAIN cfoMap # {}
    <2> DEFINE ms == { Mapped(m) : m \in monthly }
               bs == { Mapped(r) : r \in byLabel }
               f  == [m \in monthly |-> Mapped(m)]
               g  == [r \in byLabel |-> Mapped(r)]
    <2>1. monthly' = Group(ms, CfoPeriod) /\ byLabel' = Group(bs, CfoArticlePeriod)
      BY <1>1, <1>9 DEF MappedMonthly, MappedByLabel, Regrouped
    <2>2. ASSUME NEW r, IsRow(r)
          PROVE  /\ IsRow(Mapped(r)) /\ Mapped(r).ids = r.ids /\ Mapped(r).amount = r.amount
                 /\ Mapped(r).period = r.period
                 /\ Mapped(r).cfo = IF CfoKey[r.cfo] \in DOMAIN cfoMap
                                    THEN SpellingOf(cfoMap[CfoKey[r.cfo]]) ELSE r.cfo
      <3> DEFINE cfo == SpellingOf(cfoMap[CfoKey[r.cfo]])
      <3>1. Mapped(r) = IF CfoKey[r.cfo] \in DOMAIN cfoMap THEN [r EXCEPT !.cfo = cfo] ELSE r
        BY DEF Mapped
      <3>2. IsRow(Mapped(r)) /\ Mapped(r).period = r.period
        BY <2>2, CfoIsMapped
      <3> HIDE DEF cfo
      <3>3. /\ Mapped(r).ids = r.ids /\ Mapped(r).amount = r.amount
            /\ Mapped(r).cfo = IF CfoKey[r.cfo] \in DOMAIN cfoMap THEN cfo ELSE r.cfo
        BY <2>2, <3>1 DEF IsRow
      <3> QED
        BY <3>2, <3>3 DEF cfo
    <2>3. (\A m \in ms : IsRow(m)) /\ \A r \in bs : IsRow(r)
      BY <1>3, <2>2
    <2>4. /\ \A x : x \in ms <=> \E m \in monthly : x = f[m]
          /\ \A x : x \in bs <=> \E r \in byLabel : x = g[r]
          /\ \A m \in monthly : f[m].ids = m.ids /\ f[m].amount = m.amount
          /\ \A r \in byLabel : g[r].ids = r.ids /\ g[r].amount = r.amount
      BY <1>3, <2>2
    <2>5. ASSUME NEW m \in ms, NEW i \in m.ids PROVE m.period = fact[i].period /\ m.cfo = Booked(i)'
      <3>1. PICK q \in monthly : m = Mapped(q)
        OBVIOUS
      <3>2. i \in q.ids /\ m.period = q.period
            /\ m.cfo = IF CfoKey[q.cfo] \in DOMAIN cfoMap THEN SpellingOf(cfoMap[CfoKey[q.cfo]]) ELSE q.cfo
        BY <3>1, <1>3, <2>2
      <3>3. q.period = fact[i].period /\ q.cfo = fact[i].cfo
        BY <3>2, <1>4
      <3> QED
        BY <3>2, <3>3, <1>6
    <2> HIDE DEF f, g, ms, bs
    <2>6. /\ Accounts(ms, FactAmounts) /\ Ids(ms) = Dated
          /\ Accounts(bs, FactAmounts) /\ Ids(bs) = Dated
      BY <1>4, <2>4, AccountsImage
    <2>7. /\ Accounts(monthly', FactAmounts) /\ Ids(monthly') = Dated /\ Grouped(monthly', CfoPeriod)
          /\ Accounts(byLabel', FactAmounts) /\ Ids(byLabel') = Dated
      BY <1>5, <2>1, <2>3, <2>6, AccountsGroup, GroupsAreApart, Columns
    <2>8. ASSUME NEW m \in monthly', NEW i \in m.ids
          PROVE  m.period = fact[i].period /\ m.cfo = Booked(i)'
      <3>c. CfoPeriod \subseteq {"cfo", "article", "period"}
        BY Columns
      <3>g. \A h \in Group(ms, CfoPeriod) : \A x \in h.ids :
              \E q \in ms : x \in q.ids /\ Key(q, CfoPeriod) = Key(h, CfoPeriod)
        BY <2>3, <3>c, GroupKeeps
      <3>1. PICK q \in ms : i \in q.ids /\ Key(q, CfoPeriod) = Key(m, CfoPeriod)
        BY <2>1, <3>g
      <3> QED
        BY <3>1, <2>5, Columns
    <2> QED
      BY <1>1, <1>2, <1>7, <2>7, <2>8 DEF BooksInv
  <1> QED
    BY <1>8, <1>9

LEMMA BooksMatched == TablesInv /\ BooksInv /\ ApplyArticleMatching => BooksInv'
  <1> SUFFICES ASSUME TablesInv, BooksInv, ApplyArticleMatching PROVE BooksInv'
    OBVIOUS
  <1>1. /\ stage = "mapped" /\ stage' = "matched" /\ UNCHANGED <<files, planLong, monthly, report>>
        /\ byLabel' = IF planLong = {} THEN byLabel ELSE { MatchRow(r) : r \in byLabel }
    BY DEF ApplyArticleMatching
  <1>2. /\ FactAmounts' = FactAmounts /\ Dated' = Dated /\ fact' = fact /\ plan' = plan
        /\ Report(monthly)' = Report(monthly) /\ \A i : Booked(i)' = Booked(i)
    BY <1>1 DEF files, FactAmounts, Dated, Report, Booked, SpellingOf
  <1>3. Accounts(byLabel', FactAmounts) /\ Ids(byLabel') = Dated
    <2> DEFINE f == [r \in byLabel |-> MatchRow(r)]
    <2>1. ASSUME NEW r \in byLabel PROVE MatchRow(r).ids = r.ids /\ MatchRow(r).amount = r.amount
      <3> DEFINE m == MatchFactArticle(r)
                 a == IF Applies(m) THEN m.article ELSE r.article
      <3>1. MatchRow(r) = [r EXCEPT !.match = m.type, !.article = a]
        BY DEF MatchRow
      <3>2. IsRow(r)
        BY <1>1 DEF TablesInv
      <3> HIDE DEF m, a
      <3> QED
        BY <3>1, <3>2 DEF IsRow
    <2> DEFINE out == { MatchRow(r) : r \in byLabel }
    <2>2. /\ \A x : x \in out <=> \E r \in byLabel : x = f[r]
          /\ \A r \in byLabel : f[r].ids = r.ids /\ f[r].amount = r.amount
      BY <2>1
    <2>3. Accounts(byLabel, FactAmounts) /\ Ids(byLabel) = Dated
      BY <1>1 DEF BooksInv
    <2> HIDE DEF f, out
    <2>4. Accounts(out, FactAmounts) /\ Ids(out) = Dated
      BY <2>2, <2>3, AccountsImage
    <2> QED
      BY <1>1, <2>3, <2>4 DEF out
  <1> QED
    BY <1>1, <1>2, <1>3 DEF BooksInv

LEMMA BooksStep == TablesInv /\ BooksInv /\ [TablesNext]_tableVars => BooksInv'
  <1> SUFFICES ASSUME TablesInv, BooksInv, [TablesNext]_tableVars PROVE BooksInv'
    OBVIOUS
  <1>1. CASE Join
    <2>1. /\ stage = "matched" /\ stage' = "joined"
          /\ UNCHANGED <<files, planLong, monthly, byLabel, report>>
          /\ byCfo' = Merge(Group(JoinedPlan, CfoPeriod), monthly, CfoPeriod)
          /\ byArticle' = Merge(Group(JoinedPlan, CfoArticlePeriod), byLabel, CfoArticlePeriod)
      BY <1>1 DEF Join
    <2>2. /\ FactAmounts' = FactAmounts /\ Dated' = Dated /\ fact' = fact /\ JoinedPlan' = JoinedPlan
          /\ Report(monthly)' = Report(monthly) /\ \A i : Booked(i)' = Booked(i)
      BY <2>1 DEF files, FactAmounts, Dated, Report, Booked, SpellingOf, JoinedPlan, FactPeriods
    <2> QED
      BY <2>1, <2>2 DEF BooksInv
  <1>2. CASE UNCHANGED tableVars
    <2>1. UNCHANGED <<files, stage, planLong, monthly, byLabel, report, byCfo, byArticle>>
      BY <1>2 DEF tableVars, tables
    <2>2. /\ FactAmounts' = FactAmounts /\ Dated' = Dated /\ fact' = fact /\ JoinedPlan' = JoinedPlan
          /\ Report(monthly)' = Report(monthly) /\ \A i : Booked(i)' = Booked(i)
      BY <2>1 DEF files, FactAmounts, Dated, Report, Booked, SpellingOf, JoinedPlan, FactPeriods
    <2> QED
      BY <2>1, <2>2 DEF BooksInv
  <1> QED
    BY <1>1, <1>2, BooksBuilt, BooksMapped, BooksMatched DEF TablesNext


\* What the plan side of a join is made of.
LEMMA PlanSide ==
    ASSUME TablesInv, BooksInv, stage # "read", NEW columns,
           columns \subseteq {"cfo", "article", "period"}, "period" \in columns
    PROVE  LET ps == Group(JoinedPlan, columns) IN
           /\ IsFiniteSet(ps) /\ Grouped(ps, columns) /\ \A p \in ps : p.amount \in Int
           /\ Total(ps) = Total(JoinedPlan)
           /\ \A p \in ps : p.amount = SumFunction([i \in p.ids |-> plan[i].amount[p.period]])
  <1> DEFINE ps == Group(JoinedPlan, columns)
  <1>1. /\ planLong = PlanLong /\ plan \in Plans /\ IsFiniteSet(PlanLong)
        /\ \A q \in PlanLong : q.amount \in Int /\ IsRow(q) /\ q.period \in PlanMonths
    BY PlanRowsAccount, PlanIsFull DEF TablesInv
  <1>2. JoinedPlan \in SUBSET PlanLong
    BY <1>1 DEF JoinedPlan
  <1>3. IsFiniteSet(JoinedPlan) /\ \A q \in JoinedPlan : IsRow(q) /\ q.amount \in Int
    BY <1>1, <1>2, FS_Subset
  <1>4. IsFiniteSet(ps) /\ Grouped(ps, columns)
    BY <1>3, GroupsAreApart
  <1>5. Total(ps) = Total(JoinedPlan) /\ \A p \in ps : p.amount \in Int
    <2>1. \A q \in JoinedPlan : GroupOf(JoinedPlan, columns, q) \in ps
                                /\ Key(GroupOf(JoinedPlan, columns, q), columns) = Key(q, columns)
      BY <1>3, GroupTells
    <2> DEFINE K == Keys(ps, columns)
    <2>2. Keyed(ps, Group(JoinedPlan, columns), columns, K)
      BY DEF Keyed, Keys
    <2> HIDE DEF ps
    <2>3. Keyed(JoinedPlan, JoinedPlan, columns, K)
      BY <2>1 DEF Keyed, Keys
    <2> HIDE DEF K
    <2>4. Counted(JoinedPlan)
      BY <1>3 DEF Counted
    <2>5. AreColumns(columns)
      BY DEF AreColumns
    <2> QED
      BY <2>2, <2>3, <2>4, <2>5, GroupTotals
  <1>8. ASSUME NEW p \in ps
        PROVE  p.amount = SumFunction([i \in p.ids |-> plan[i].amount[p.period]])
    <2>1. PICK r \in JoinedPlan : p = GroupOf(JoinedPlan, columns, r) /\ Key(r, columns) = Key(p, columns)
      BY <1>3, GroupsAreApart
    <2> DEFINE same  == Alike(JoinedPlan, columns, r)
               month == { q \in PlanLong : q.period = p.period }
               f     == PlanAmounts(p.period)
               g     == [i \in p.ids |-> plan[i].amount[p.period]]
    <2>2. \A s \in JoinedPlan : Key(s, columns) = Key(r, columns) => s.period = r.period
      BY DEF Key
    <2>3. r.period = p.period
      BY <2>1 DEF Key
    <2>4. p.period \in PlanMonths
      BY <1>1, <1>2, <2>3
    <2>5. same \in SUBSET month
      BY <1>2, <2>2, <2>3 DEF Alike
    <2>6. Accounts(month, f) /\ \A i \in DOMAIN f : f[i] \in Int
      BY <1>1, <2>4, PlanRowsAccount
    <2>7. p.amount = Total(same) /\ p.ids = Ids(same)
      BY <1>3, <2>1, GroupTells
    <2> HIDE DEF same, month, f
    <2>8. Accounts(same, f)
      BY <2>5, <2>6, AccountsPart
    <2>9. p.amount = Sum(f, Ids(same)) /\ IsFiniteSet(Ids(same))
      BY <2>6, <2>7, <2>8, AccountsTotal
    <2>10. Ids(same) \subseteq DOMAIN f
      BY <2>8 DEF Accounts, Ids
    <2>11. p.amount = Sum(f, p.ids) /\ IsFiniteSet(p.ids) /\ p.ids \subseteq DOMAIN f
      BY <2>7, <2>9, <2>10, Zenon
    <2>12. \A i \in p.ids : f[i] \in Int /\ f[i] = g[i]
      BY <2>6, <2>11 DEF f, PlanAmounts
    <2>13. SumFunction(g) = Sum(g, p.ids)
      BY SumIsOnDomain
    <2> HIDE DEF g
    <2>14. Sum(f, p.ids) = Sum(g, p.ids)
      BY <2>11, <2>12, SumAgrees
    <2> QED
      BY <2>11, <2>13, <2>14 DEF g
  <1> QED
    BY <1>4, <1>5, <1>8

\* The months of the facts, read from the file or from the table.
LEMMA MonthsOfFacts ==
    ASSUME TablesInv, BooksInv, stage # "read"
    PROVE  /\ FactPeriods = { fact[i].period : i \in Dated }
           /\ JoinedPlan = { r \in planLong : r.period \in { fact[i].period : i \in DOMAIN fact } }
  <1>1. /\ Ids(monthly) = Dated /\ \A m \in monthly : m.ids # {}
        /\ \A m \in monthly : \A i \in m.ids : m.period = fact[i].period
    BY DEF BooksInv, Accounts
  <1>2. FactPeriods = { fact[i].period : i \in Dated }
    <2>1. ASSUME NEW m \in monthly PROVE \E i \in Dated : m.period = fact[i].period
      BY <1>1 DEF Ids
    <2>2. ASSUME NEW i \in Dated PROVE \E m \in monthly : m.period = fact[i].period
      BY <1>1 DEF Ids
    <2> QED
      BY <2>1, <2>2 DEF FactPeriods
  <1>3. \A q \in planLong : q.period \in Periods
    BY PlanIsFull, PlanIsRead DEF TablesInv
  <1>4. \A q \in planLong : q.period # NoDate
    BY <1>3, TablesAssumption
  <1> QED
    BY <1>2, <1>4 DEF JoinedPlan, Dated

LEMMA BooksConserveSums == TablesInv /\ BooksInv => SumsConserved
  <1> SUFFICES ASSUME TablesInv, BooksInv PROVE SumsConserved
    OBVIOUS
  <1> DEFINE all == SumFunction([i \in Dated |-> fact[i].amount])
             cp  == Group(JoinedPlan, CfoPeriod)
             ap  == Group(JoinedPlan, CfoArticlePeriod)
  <1>a. all = Sum(FactAmounts, Dated)
    BY SumIsOnDomain DEF FactAmounts
  <1>i. \A i \in DOMAIN FactAmounts : FactAmounts[i] \in Int
    BY FactRowsAccount DEF TablesInv
  <1> HIDE DEF all
  <1>1. ASSUME stage # "read" PROVE Total(monthly) = all /\ Total(byLabel) = all
    <2>1. /\ Accounts(monthly, FactAmounts) /\ Ids(monthly) = Dated
          /\ Accounts(byLabel, FactAmounts) /\ Ids(byLabel) = Dated
      BY <1>1 DEF BooksInv
    <2>2. /\ Total(monthly) = Sum(FactAmounts, Ids(monthly))
          /\ Total(byLabel) = Sum(FactAmounts, Ids(byLabel))
      BY <1>i, <2>1, AccountsTotal
    <2> QED
      BY <1>a, <2>1, <2>2
  <1>2. ASSUME stage = "joined"
        PROVE  /\ FactSum(byCfo) = all /\ FactSum(byArticle) = all
               /\ PlanSum(byCfo) = Total(JoinedPlan)
               /\ Grouped(byLabel, CfoArticlePeriod) => PlanSum(byArticle) = Total(JoinedPlan)
    <2>1. /\ byCfo = Merge(cp, monthly, CfoPeriod) /\ byArticle = Merge(ap, byLabel, CfoArticlePeriod)
          /\ Accounts(monthly, FactAmounts) /\ Accounts(byLabel, FactAmounts)
          /\ Grouped(monthly, CfoPeriod)
      BY <1>2 DEF BooksInv
    <2>2. /\ IsFiniteSet(cp) /\ Grouped(cp, CfoPeriod) /\ (\A p \in cp : p.amount \in Int)
          /\ Total(cp) = Total(JoinedPlan)
      BY <1>2, PlanSide, Columns
    <2>3. /\ IsFiniteSet(ap) /\ Grouped(ap, CfoArticlePeriod) /\ (\A p \in ap : p.amount \in Int)
          /\ Total(ap) = Total(JoinedPlan)
      BY <1>2, PlanSide, Columns
    <2> HIDE DEF cp, ap
    <2>4. FactSum(byCfo) = Total(monthly) /\ FactSum(byArticle) = Total(byLabel)
      BY <1>i, <2>1, <2>2, <2>3, MergedFacts
    <2>f. IsFiniteSet(monthly) /\ IsFiniteSet(byLabel)
      BY <2>1 DEF Accounts
    <2>5. ASSUME NEW ps, IsFiniteSet(ps), \A p \in ps : p.amount \in Int, NEW fs, IsFiniteSet(fs),
                 NEW columns, Grouped(ps, columns), Grouped(fs, columns)
          PROVE  PlanSum(Merge(ps, fs, columns)) = Total(ps)
      <3> DEFINE T == Merge(ps, fs, columns)
                 K == { t.key : t \in T } \union Keys(ps, columns)
      <3>1. T = { t \in Merge(ps, fs, columns) : t.key \in K }
        OBVIOUS
      <3>2. Keyed(ps, ps, columns, K)
        BY DEF Keyed, Keys
      <3> HIDE DEF T, K
      <3>3. PlanSum(T) = Total(ps)
        BY <2>5, <3>1, <3>2, MergedPlan
      <3> QED
        BY <3>3 DEF T
    <2>6. PlanSum(byCfo) = Total(cp)
      BY <2>1, <2>2, <2>f, <2>5
    <2>7. Grouped(byLabel, CfoArticlePeriod) => PlanSum(byArticle) = Total(ap)
      BY <2>1, <2>3, <2>f, <2>5
    <2> QED
      BY <1>1, <1>2, <2>2, <2>3, <2>4, <2>6, <2>7
  <1>3. FactsConserved
    BY <1>1, <1>2 DEF FactsConserved, all
  <1>4. PlanConserved
    <2>1. stage = "joined" =>
            JoinedPlan = { r \in planLong : r.period \in { fact[i].period : i \in DOMAIN fact } }
      BY MonthsOfFacts
    <2> DEFINE due == { r \in planLong : r.period \in { fact[i].period : i \in DOMAIN fact } }
    <2>2. stage = "joined" => Total(JoinedPlan) = Total(due)
      BY <2>1, Zenon
    <2> HIDE DEF due
    <2>3. stage = "joined" => PlanSum(byCfo) = Total(due)
            /\ (Grouped(byLabel, CfoArticlePeriod) => PlanSum(byArticle) = Total(due))
      BY <1>2, <2>2
    <2> QED
      BY <2>3 DEF PlanConserved, due
  <1> QED
    BY <1>3, <1>4 DEF SumsConserved


\* A merged row tells the sums of the file rows whose numbers it carries.
LEMMA MergedLineage ==
    ASSUME TablesInv, BooksInv, stage # "read", NEW columns,
           columns \subseteq {"cfo", "article", "period"}, "period" \in columns,
           NEW fs, Accounts(fs, FactAmounts), Ids(fs) = Dated
    PROVE  LET table == Merge(Group(JoinedPlan, columns), fs, columns) IN
           /\ \A r \in table :
                /\ r.fact = SumFunction([i \in r.factIds |-> fact[i].amount])
                /\ r.plan = SumFunction([i \in r.planIds |-> plan[i].amount[r.key.period]])
           /\ UNION { r.factIds : r \in table } = Dated
           /\ \A r, s \in table : r # s => r.factIds \intersect s.factIds = {}
  <1> DEFINE ps    == Group(JoinedPlan, columns)
             table == Merge(ps, fs, columns)
  <1>i. (\A i \in DOMAIN FactAmounts : FactAmounts[i] \in Int) /\ DOMAIN FactAmounts = Dated
    BY FactRowsAccount DEF TablesInv
  <1>p. /\ IsFiniteSet(ps) /\ Grouped(ps, columns)
        /\ \A p \in ps : p.amount = SumFunction([i \in p.ids |-> plan[i].amount[p.period]])
    BY PlanSide
  <1> HIDE DEF ps
  <1>1. /\ \A t \in table : t.fact = Sum(FactAmounts, t.factIds) /\ t.factIds \subseteq Dated
        /\ UNION { t.factIds : t \in table } = Ids(fs)
        /\ \A t, u \in table : t # u => t.factIds \intersect u.factIds = {}
    BY <1>i, <1>p, MergedFacts
  <1>2. IsFiniteSet(Dated)
    BY <1>i, AccountsTotal
  <1>3. ASSUME NEW r \in table PROVE r.fact = SumFunction([i \in r.factIds |-> fact[i].amount])
    <2> DEFINE g == [i \in r.factIds |-> fact[i].amount]
    <2>1. IsFiniteSet(r.factIds) /\ r.factIds \subseteq Dated
      BY <1>1, <1>2, FS_Subset
    <2>2. \A i \in r.factIds : FactAmounts[i] \in Int /\ FactAmounts[i] = g[i]
      BY <1>i, <2>1 DEF FactAmounts
    <2>3. SumFunction(g) = Sum(g, r.factIds)
      BY SumIsOnDomain
    <2> HIDE DEF g
    <2>4. Sum(FactAmounts, r.factIds) = Sum(g, r.factIds)
      BY <2>1, <2>2, SumAgrees
    <2> QED
      BY <1>1, <2>3, <2>4 DEF g
  <1>4. ASSUME NEW r \in table
        PROVE  r.plan = SumFunction([i \in r.planIds |-> plan[i].amount[r.key.period]])
    <2>k. PICK k : \E p \in Side(ps, columns, k) : \E g \in Side(fs, columns, k) : r = Joined(k, p, g)
      BY MergeIsJoin
    <2>p. PICK p \in Side(ps, columns, k) : \E g \in Side(fs, columns, k) : r = Joined(k, p, g)
      BY <2>k
    <2>1. r.key = k /\ r.plan = p.amount /\ r.planIds = p.ids
      BY <2>p DEF Joined
    <2>2. CASE p \in ps /\ Key(p, columns) = k
      <3>1. k.period = p.period
        BY <2>2 DEF Key
      <3>2. p.amount = SumFunction([i \in p.ids |-> plan[i].amount[p.period]])
        BY <1>p, <2>2
      <3>3. [i \in p.ids |-> plan[i].amount[p.period]]
              = [i \in r.planIds |-> plan[i].amount[r.key.period]]
        BY <2>1, <3>1
      <3> QED
        BY <2>1, <3>2, <3>3
    <2>3. CASE p = Empty
      <3> DEFINE g == [i \in r.planIds |-> plan[i].amount[r.key.period]]
      <3>1. r.plan = 0 /\ r.planIds = {} /\ DOMAIN g = {}
        BY <2>1, <2>3 DEF Empty
      <3> HIDE DEF g
      <3>2. SumFunction(g) = 0
        BY <3>1, SumIsOnDomain, SumOfNone
      <3> QED
        BY <3>1, <3>2 DEF g
    <2> QED
      BY <2>2, <2>3 DEF Side
  <1> QED
    BY <1>1, <1>3, <1>4 DEF ps

LEMMA BooksKeepLineage == TablesInv /\ BooksInv => LineageExact
  <1> SUFFICES ASSUME TablesInv, BooksInv, stage = "joined", NEW table \in {byCfo, byArticle}
               PROVE  /\ \A r \in table :
                           /\ r.fact = SumFunction([i \in r.factIds |-> fact[i].amount])
                           /\ r.plan = SumFunction([i \in r.planIds |-> plan[i].amount[r.key.period]])
                      /\ UNION { r.factIds : r \in table } = Dated
                      /\ \A r, s \in table : r # s => r.factIds \intersect s.factIds = {}
    BY DEF LineageExact
  <1>1. PICK columns \in {CfoPeriod, CfoArticlePeriod}, fs \in {monthly, byLabel} :
          table = Merge(Group(JoinedPlan, columns), fs, columns)
    BY DEF BooksInv
  <1>2. Accounts(fs, FactAmounts) /\ Ids(fs) = Dated
    BY DEF BooksInv
  <1>3. columns \subseteq {"cfo", "article", "period"} /\ "period" \in columns
    BY Columns
  <1> QED
    BY <1>1, <1>2, <1>3, MergedLineage

\* A spelling of the plan is found when there is one.
LEMMA SpellingIsThere ==
    ASSUME plan \in Plans, NEW cfo, NEW j \in DOMAIN plan, CfoKey[plan[j].cfo] = CfoKey[cfo]
    PROVE  \E i \in DOMAIN plan : plan[i].cfo = SpellingOf(cfo)
  <1> DEFINE first(c)  == Min({ i \in DOMAIN plan : plan[i].cfo = c })
             spellings == { c \in { plan[i].cfo : i \in DOMAIN plan } : CfoKey[c] = CfoKey[cfo] }
             n         == Len(plan)
             T         == { n - first(c) : c \in spellings }
  <1>1. n \in Nat /\ DOMAIN plan = 1..n
    <2>1. PICK months : plan \in Seq([cfo: Cfos, article: Labels, amount: [months -> Int]])
      BY TablesAssumption
    <2> DEFINE Line == [cfo: Cfos, article: Labels, amount: [months -> Int]]
    <2>2. plan \in Seq(Line)
      BY <2>1
    <2> HIDE DEF Line
    <2> QED
      BY <2>2
  <1>2. \A c \in spellings : first(c) \in 1..n
    <2> TAKE c \in spellings
    <2> DEFINE s == { i \in DOMAIN plan : plan[i].cfo = c }
    <2>1. s \in SUBSET Nat /\ s # {} /\ s \subseteq 1..n
      BY <1>1
    <2> HIDE DEF s
    <2>2. Min(s) \in s
      BY <2>1, LeastNumber
    <2> QED
      BY <2>1, <2>2 DEF s
  <1>3. spellings # {} /\ \A c \in spellings : \E i \in DOMAIN plan : plan[i].cfo = c
    OBVIOUS
  <1>4. SpellingOf(cfo) = CHOOSE c \in spellings : \A d \in spellings : first(d) <= first(c)
    BY <1>3 DEF SpellingOf
  <1> HIDE DEF first, spellings, n
  <1>5. T \in SUBSET Nat /\ T # {}
    <2>1. \A c \in spellings : n - first(c) \in Nat
      BY <1>1, <1>2
    <2> QED
      BY <1>3, <2>1
  <1>6. PICK x \in T : \A y \in T : ~(<<y, x>> \in OpToRel(<, Nat))
    <2> HIDE DEF T
    <2> QED
      BY <1>5, NatLessThanWellFounded, WFMin
  <1>7. PICK c \in spellings : x = n - first(c)
    OBVIOUS
  <1>8. \A d \in spellings : first(d) <= first(c)
    <2> TAKE d \in spellings
    <2>1. n - first(d) \in T /\ first(d) \in 1..n /\ first(c) \in 1..n
      BY <1>2
    <2> HIDE DEF T
    <2>2. n - first(d) \in Nat /\ n - first(c) \in Nat
      BY <1>1, <2>1
    <2>3. ~(n - first(d) < n - first(c))
      BY <1>6, <1>7, <2>1, <2>2 DEF OpToRel
    <2> QED
      BY <1>1, <2>1, <2>3
  <1>9. SpellingOf(cfo) \in spellings
    BY <1>4, <1>7, <1>8
  <1> QED
    BY <1>3, <1>9


LEMMA BooksMeetMapping == TablesInv /\ BooksInv => MappedCfosJoin
  <1> SUFFICES ASSUME TablesInv, BooksInv, stage = "joined", NEW r \in byCfo, NEW i \in r.factIds,
                      CfoKey[fact[i].cfo] \in DOMAIN cfoMap,
                      NEW q \in planLong, CfoKey[q.cfo] = CfoKey[cfoMap[CfoKey[fact[i].cfo]]],
                      q.period = r.key.period
               PROVE  r.planIds # {}
    BY DEF MappedCfosJoin
  <1> DEFINE ps  == Group(JoinedPlan, CfoPeriod)
             cfo == cfoMap[CfoKey[fact[i].cfo]]
  <1>1. /\ byCfo = Merge(ps, monthly, CfoPeriod) /\ plan \in Plans /\ planLong = PlanLong
        /\ \A m \in monthly : \A x \in m.ids : m.cfo = Booked(x)
    BY DEF BooksInv, TablesInv
  <1>2. \A p \in JoinedPlan : IsRow(p)
    BY <1>1, PlanIsFull DEF JoinedPlan
  <1>3. \A p \in ps : p.ids # {}
    <2>c. CfoPeriod \subseteq {"cfo", "article", "period"}
      BY Columns
    <2>1. \A p \in ps : IsRow(p)
      BY <1>2, <2>c, GroupsOfRows
    <2> HIDE DEF ps
    <2> QED
      BY <2>1 DEF IsRow
  <1>4. \A p \in JoinedPlan : \E g \in ps : Key(g, CfoPeriod) = Key(p, CfoPeriod)
    <2>c. CfoPeriod \subseteq {"cfo", "article", "period"}
      BY Columns
    <2> QED
      BY <1>2, <2>c, GroupTells
  <1> HIDE DEF ps
  <1>5. PICK m \in monthly :
          /\ r.key = Key(m, CfoPeriod) /\ r.factIds = m.ids
          /\ \/ \E p \in ps : Key(p, CfoPeriod) = Key(m, CfoPeriod) /\ r.planIds = p.ids
             \/ r.planIds = {} /\ \A p \in ps : Key(p, CfoPeriod) # Key(m, CfoPeriod)
    BY <1>1, RowsMeet
  <1>6. m.cfo = SpellingOf(cfo) /\ m.period = q.period
    <2>1. m.cfo = Booked(i)
      BY <1>1, <1>5
    <2>2. m.period = r.key.period
      BY <1>5, Columns
    <2> QED
      BY <2>1, <2>2 DEF Booked
  <1>7. PICK j \in DOMAIN plan : plan[j].cfo = q.cfo /\ q.period \in PlanMonths
    BY <1>1 DEF PlanLong
  <1>8. PICK l \in DOMAIN plan : plan[l].cfo = m.cfo
    <2>1. CfoKey[plan[j].cfo] = CfoKey[cfo]
      BY <1>7
    <2> HIDE DEF cfo
    <2> QED
      BY <1>1, <1>6, <1>7, <2>1, SpellingIsThere
  <1>9. \E p \in PlanLong : p.cfo = m.cfo /\ p.period = m.period
    <2> DEFINE Row(x, p) == [cfo |-> plan[x].cfo, article |-> ArticleKey(plan[x].article), period |-> p,
                             amount |-> plan[x].amount[p], ids |-> {x}]
    <2>1. PlanLong = { Row(x, p) : x \in DOMAIN plan, p \in PlanMonths }
      BY DEF PlanLong
    <2>2. Row(l, q.period).cfo = m.cfo /\ Row(l, q.period).period = m.period
      BY <1>6, <1>8
    <2> HIDE DEF Row
    <2>3. Row(l, q.period) \in PlanLong
      BY <1>7, <2>1
    <2> QED
      BY <2>2, <2>3
  <1>10. \E p \in JoinedPlan : Key(p, CfoPeriod) = Key(m, CfoPeriod)
    BY <1>1, <1>9, Columns DEF JoinedPlan, FactPeriods
  <1>11. \E p \in ps : Key(p, CfoPeriod) = Key(m, CfoPeriod)
    BY <1>4, <1>10
  <1> QED
    BY <1>3, <1>5, <1>11

-----------------------------------------------------------------------------
(* Types                                                                    *)

IsTyped(r) == r.cfo \in Cfos /\ r.period \in Periods
IsMarked(r) == "match" \in DOMAIN r /\ r.match \in Matched \union {"unmatched", "fuzzy_suggested"}

\* What BooksInv does not say of types.
ColumnsInv ==
    /\ cfoMap \in CfoMaps
    /\ \A r \in planLong \union monthly \union byLabel : IsTyped(r)
    /\ \A r \in byLabel : IsMarked(r)
    /\ stage = "read" => planLong = {} /\ monthly = {} /\ byLabel = {}
    /\ stage \in {"read", "built"} => DOMAIN report = {}
    /\ stage \in {"built", "mapped"} => Grouped(byLabel, CfoArticlePeriod)

LEMMA FilesAreTyped ==
    ASSUME plan \in Plans, fact \in Facts
    PROVE  /\ \A q \in PlanLong : IsTyped(q)
           /\ \A r \in FactRows : IsTyped(r) /\ IsMarked(r)
  <1>1. \A q \in PlanLong : IsTyped(q)
    BY PlanIsRead DEF PlanLong, IsTyped
  <1> DEFINE Line == [cfo: Cfos, article: Labels, period: Periods \union {NoDate}, amount: Int]
  <1>2. fact \in Seq(Line)
    BY TablesAssumption
  <1>3. \A i \in DOMAIN fact : fact[i] \in Line
    <2> HIDE DEF Line
    <2> QED
      BY <1>2
  <1>4. \A i \in Dated : fact[i].cfo \in Cfos /\ fact[i].period \in Periods
    BY <1>3 DEF Dated
  <1>5. \A r \in FactRows : IsTyped(r) /\ IsMarked(r)
    BY <1>4 DEF FactRows, IsTyped, IsMarked
  <1> QED
    BY <1>1, <1>5

LEMMA GroupsAreTyped ==
    ASSUME NEW rows, \A r \in rows : IsRow(r) /\ IsTyped(r), NEW columns,
           columns \subseteq {"cfo", "article", "period"}
    PROVE  /\ \A g \in Group(rows, columns) : IsTyped(g)
           /\ (\A r \in rows : IsMarked(r)) => \A g \in Group(rows, columns) : IsMarked(g)
  <1> SUFFICES ASSUME NEW g \in Group(rows, columns)
               PROVE  IsTyped(g) /\ ((\A r \in rows : IsMarked(r)) => IsMarked(g))
    OBVIOUS
  <1>r. \A r \in rows : IsRow(r)
    OBVIOUS
  <1>c. columns \subseteq {"cfo", "article", "period"}
    OBVIOUS
  <1>g. \A h \in Group(rows, columns) :
          /\ IsRow(h)
          /\ \E f \in rows : /\ DOMAIN h = DOMAIN f
                             /\ \A x \in DOMAIN f \ {"amount", "ids"} : h[x] = f[x]
    BY <1>r, <1>c, GroupsOfRows, Zenon
  <1>1. PICK f \in rows : DOMAIN g = DOMAIN f /\ \A x \in DOMAIN f \ {"amount", "ids"} : g[x] = f[x]
    BY <1>g
  <1>2. IsTyped(g)
    BY <1>1 DEF IsRow, IsTyped
  <1>3. ASSUME \A r \in rows : IsMarked(r) PROVE IsMarked(g)
    BY <1>1, <1>3 DEF IsMarked
  <1> QED
    BY <1>2, <1>3

LEMMA MappedIsTyped ==
    ASSUME plan \in Plans, cfoMap \in CfoMaps, NEW r, IsRow(r), IsTyped(r)
    PROVE  IsTyped(Mapped(r)) /\ (IsMarked(r) => IsMarked(Mapped(r)))
  <1> DEFINE c   == cfoMap[CfoKey[r.cfo]]
             cfo == SpellingOf(c)
  <1>1. CASE CfoKey[r.cfo] \in DOMAIN cfoMap
    <2>1. c \in Cfos
      BY <1>1, TablesAssumption
    <2> HIDE DEF c
    <2>2. cfo \in Cfos
      <3>1. CASE \E j \in DOMAIN plan : CfoKey[plan[j].cfo] = CfoKey[c]
        BY <3>1, SpellingIsThere, PlanIsRead
      <3>2. CASE ~ \E j \in DOMAIN plan : CfoKey[plan[j].cfo] = CfoKey[c]
        <4>1. { d \in { plan[i].cfo : i \in DOMAIN plan } : CfoKey[d] = CfoKey[c] } = {}
          BY <3>2
        <4> QED
          BY <2>1, <4>1 DEF SpellingOf
      <3> QED
        BY <3>1, <3>2
    <2>3. Mapped(r) = [r EXCEPT !.cfo = cfo]
      BY <1>1 DEF Mapped, c
    <2> HIDE DEF cfo
    <2> QED
      BY <2>2, <2>3 DEF IsRow, IsTyped, IsMarked
  <1>2. CASE CfoKey[r.cfo] \notin DOMAIN cfoMap
    BY <1>2 DEF Mapped
  <1> QED
    BY <1>1, <1>2

LEMMA MatchedIsTyped ==
    ASSUME NEW r, IsRow(r), IsTyped(r), IsMarked(r)
    PROVE  IsTyped(MatchRow(r)) /\ IsMarked(MatchRow(r))
  <1> DEFINE m == MatchFactArticle(r)
             article == IF Applies(m) THEN m.article ELSE r.article
  <1>1. m.type \in Matched \union {"unmatched", "fuzzy_suggested"}
    BY DEF MatchFactArticle, Fuzzy, Match, Matched, Applied
  <1>2. MatchRow(r) = [r EXCEPT !.match = m.type, !.article = article]
    BY DEF MatchRow
  <1> HIDE DEF m, article
  <1> QED
    BY <1>1, <1>2 DEF IsRow, IsTyped, IsMarked

LEMMA ColumnsInitially == TablesInit => ColumnsInv
  BY DEF TablesInit, ColumnsInv

LEMMA ColumnsStep == TablesInv /\ ColumnsInv /\ [TablesNext]_tableVars => ColumnsInv'
  <1> SUFFICES ASSUME TablesInv, ColumnsInv, [TablesNext]_tableVars PROVE ColumnsInv'
    OBVIOUS
  <1>c. CfoPeriod \subseteq {"cfo", "article", "period"} /\ CfoArticlePeriod \subseteq {"cfo", "article", "period"}
    BY Columns
  <1>f. plan \in Plans /\ fact \in Facts /\ cfoMap \in CfoMaps
    BY DEF TablesInv, ColumnsInv
  <1>1. CASE Build
    <2>1. /\ stage' = "built" /\ UNCHANGED <<files, report>> /\ stage = "read" /\ planLong' = PlanLong
          /\ monthly' = Group(FactRows, CfoPeriod) /\ byLabel' = Group(FactRows, CfoArticlePeriod)
      BY <1>1 DEF Build
    <2>2. /\ \A q \in PlanLong : IsTyped(q)
          /\ \A r \in FactRows : IsRow(r) /\ IsTyped(r) /\ IsMarked(r)
      BY <1>f, FilesAreTyped, FactsAreRead DEF IsFact
    <2>3. /\ \A r \in monthly' \union byLabel' : IsTyped(r)
          /\ \A r \in byLabel' : IsMarked(r)
      BY <1>c, <2>1, <2>2, GroupsAreTyped
    <2>4. Grouped(byLabel', CfoArticlePeriod)
      BY <1>c, <2>1, <2>2, GroupsAreApart
    <2> QED
      BY <1>f, <2>1, <2>2, <2>3, <2>4 DEF ColumnsInv, files
  <1>2. CASE ApplyCfoMapping
    <2>1. /\ stage = "built" /\ stage' = "mapped" /\ UNCHANGED <<files, planLong>>
          /\ monthly' = IF DOMAIN cfoMap = {} THEN monthly ELSE MappedMonthly
          /\ byLabel' = IF DOMAIN cfoMap = {} THEN byLabel ELSE MappedByLabel
      BY <1>2 DEF ApplyCfoMapping
    <2>2. /\ \A m \in monthly : IsRow(m) /\ IsTyped(m)
          /\ \A r \in byLabel : IsRow(r) /\ IsTyped(r) /\ IsMarked(r)
      BY <2>1 DEF TablesInv, ColumnsInv
    <2>3. CASE DOMAIN cfoMap = {}
      BY <1>f, <2>1, <2>3 DEF ColumnsInv, files
    <2>4. CASE DOMAIN cfoMap # {}
      <3> DEFINE ms == { Mapped(m) : m \in monthly }
                 bs == { Mapped(r) : r \in byLabel }
      <3>1. monthly' = Group(ms, CfoPeriod) /\ byLabel' = Group(bs, CfoArticlePeriod)
        BY <2>1, <2>4 DEF MappedMonthly, MappedByLabel, Regrouped
      <3>2. /\ \A m \in ms : IsRow(m) /\ IsTyped(m)
            /\ \A r \in bs : IsRow(r) /\ IsTyped(r) /\ IsMarked(r)
        BY <1>f, <2>2, MappedIsTyped, CfoIsMapped
      <3> HIDE DEF ms, bs
      <3>3. /\ \A r \in monthly' \union byLabel' : IsTyped(r)
            /\ \A r \in byLabel' : IsMarked(r)
        BY <1>c, <3>1, <3>2, GroupsAreTyped
      <3>4. Grouped(byLabel', CfoArticlePeriod)
        BY <1>c, <3>1, <3>2, GroupsAreApart
      <3> QED
        BY <1>f, <2>1, <3>3, <3>4 DEF ColumnsInv, files
    <2> QED
      BY <2>3, <2>4
  <1>3. CASE ApplyArticleMatching
    <2>1. /\ stage = "mapped" /\ stage' = "matched" /\ UNCHANGED <<files, planLong, monthly>>
          /\ byLabel' = IF planLong = {} THEN byLabel ELSE { MatchRow(r) : r \in byLabel }
      BY <1>3 DEF ApplyArticleMatching
    <2>2. \A r \in byLabel : IsRow(r) /\ IsTyped(r) /\ IsMarked(r)
      BY <2>1 DEF TablesInv, ColumnsInv
    <2>3. \A r \in byLabel' : IsTyped(r) /\ IsMarked(r)
      BY <2>1, <2>2, MatchedIsTyped
    <2> QED
      BY <1>f, <2>1, <2>3 DEF ColumnsInv, files
  <1>4. CASE Join
    BY <1>4 DEF Join, ColumnsInv, files
  <1>5. CASE UNCHANGED tableVars
    BY <1>5 DEF tableVars, tables, files, ColumnsInv
  <1> QED
    BY <1>1, <1>2, <1>3, <1>4, <1>5 DEF TablesNext

LEMMA BooksAreTyped == TablesInv /\ BooksInv /\ ColumnsInv => TablesTypeOK
  <1> SUFFICES ASSUME TablesInv, BooksInv, ColumnsInv PROVE TablesTypeOK
    OBVIOUS
  <1>1. stage \in {"read", "built", "mapped", "matched", "joined"}
    BY DEF TablesInv
  <1>2. \A r \in planLong \union monthly \union byLabel : r.amount \in Int
    <2>1. CASE stage = "read"
      BY <2>1 DEF ColumnsInv
    <2>2. CASE stage # "read"
      <3>1. \A r \in planLong : r.amount \in Int
        BY <2>2, PlanRowsAccount DEF TablesInv
      <3>2. \A i \in DOMAIN FactAmounts : FactAmounts[i] \in Int
        BY FactRowsAccount DEF TablesInv
      <3>3. Accounts(monthly, FactAmounts) /\ Accounts(byLabel, FactAmounts)
        BY <2>2 DEF BooksInv
      <3>4. \A r \in monthly \union byLabel : r.amount \in Int
        BY <3>2, <3>3, AccountsTotal
      <3> QED
        BY <3>1, <3>4
    <2> QED
      BY <2>1, <2>2
  <1>3. \A k \in DOMAIN report : report[k] \in {"matched", "fact_only", "plan_only"}
    <2>1. CASE stage \in {"read", "built"}
      BY <2>1 DEF ColumnsInv
    <2>2. CASE stage \in {"mapped", "matched", "joined"}
      BY <2>2 DEF BooksInv, Report
    <2> QED
      BY <1>1, <2>1, <2>2
  <1>4. Grouped(monthly, CfoPeriod)
    BY DEF ColumnsInv, BooksInv, Grouped
  <1> QED
    BY <1>1, <1>2, <1>3, <1>4 DEF ColumnsInv, TablesTypeOK, IsTyped, IsMarked


-----------------------------------------------------------------------------
(* What the tables keep, for all files, mappings and modes                  *)

LEMMA BooksAreKept == TablesSpec => [](TablesInv /\ BooksInv /\ ColumnsInv)
  <1>1. TablesInit => TablesInv /\ BooksInv /\ ColumnsInv
    BY TablesInitially, BooksInitially, ColumnsInitially
  <1>2. TablesInv /\ BooksInv /\ ColumnsInv /\ [TablesNext]_tableVars => (TablesInv /\ BooksInv /\ ColumnsInv)'
    BY TablesStep, BooksStep, ColumnsStep
  <1> QED
    BY <1>1, <1>2, PTL DEF TablesSpec

\* The tables have the columns and the values that confirm gives them, and a
\* table it has grouped has one row for each key.
THEOREM TablesTypes == TablesSpec => []TablesTypeOK
  <1>1. TablesInv /\ BooksInv /\ ColumnsInv => TablesTypeOK
    BY BooksAreTyped
  <1> QED
    BY <1>1, BooksAreKept, PTL

\* Whatever is mapped by hand or matched by likeness: every table of facts has
\* the sum of the file's facts with a date, and the joined tables have it and
\* the plan of the months with facts, none of it lost or counted twice unless
\* matching has put two rows of facts on one key (_apply_cfo_mapping,
\* _apply_article_matching, _build_by_cfo_period, _build_by_cfo_article_period).
THEOREM SumsAreConserved == TablesSpec => []SumsConserved
  <1>1. TablesInv /\ BooksInv => SumsConserved
    BY BooksConserveSums
  <1> QED
    BY <1>1, BooksAreKept, PTL

\* The row numbers of a joined row are those of the file rows its amounts are
\* the sums of, and each fact with a date is in one row of each table.
THEOREM LineageIsExact == TablesSpec => []LineageExact
  <1>1. TablesInv /\ BooksInv => LineageExact
    BY BooksKeepLineage
  <1> QED
    BY <1>1, BooksAreKept, PTL

\* A CFO mapped by hand meets the plan of its month, in whatever spelling the plan
\* and the mapping have it (_cfo_mapping, _apply_cfo_mapping, the join).
THEOREM MappedCfosMeetThePlan == TablesSpec => []MappedCfosJoin
  <1>1. TablesInv /\ BooksInv => MappedCfosJoin
    BY BooksMeetMapping
  <1> QED
    BY <1>1, BooksAreKept, PTL
=============================================================================
