--------------------------- MODULE SqliteProvider ---------------------------
(***************************************************************************)
(* The example provider for SQLite (examples/providers/sqlite_provider.py) *)
(* and the script that sets its database up (init_demo_db.py).             *)
(*                                                                         *)
(* A database is None while there is no file or an empty one, else a       *)
(* function from the names of its tables to their rows, in the order of    *)
(* their ids.  The ids are not kept: what names one may mean any row, or   *)
(* none.  The args of a call are a dict, a function from its keys, or None *)
(* for what is no dict.  A call either changes the database and succeeds   *)
(* or fails and leaves it as it was: what it has not committed is lost     *)
(* when it closes.                                                         *)
(***************************************************************************)
EXTENDS Ir, SequencesExt

Columns == {"customer", "amount", "status"}

Row(customer, amount, status) ==
    [customer |-> customer, amount |-> amount, status |-> status]

Seeds == <<Row("Alice", 50, "pending"), Row("Bob", 150, "pending"), Row("Carol", 75, "shipped")>>

\* CREATE TABLE IF NOT EXISTS; connecting has created the file.
WithTable(db) ==
    IF db = None THEN [orders |-> <<>>]
    ELSE [t \in DOMAIN db \cup {"orders"} |-> IF t \in DOMAIN db THEN db[t] ELSE <<>>]

\* Slip: every start adds the seeds.
WithMoreSeeds(db) == [db EXCEPT !.orders = @ \o Seeds]

WithSeeds(db) == [db EXCEPT !.orders = IF @ = <<>> THEN Seeds ELSE @]

-----------------------------------------------------------------------------
OnOrders(action) ==
    [wellformed |-> TRUE, namespace |-> "db", action |-> action,
     parts |-> <<[form |-> "bare", key |-> "orders", value |-> Str("")]>>]

\* declared_capabilities().
DeclaredCapabilities == <<OnOrders("read"), OnOrders("write")>>

AllowedTables ==
    {DeclaredCapabilities[i].parts[1].key : i \in DOMAIN DeclaredCapabilities}

\* A token has its parameters in the order they were written in, which is not kept
\* here: any bare one may be the first.
Resources(cap) == {k \in DOMAIN cap.params : cap.params[k] = Bare}

Failure(db) == [success |-> FALSE, db |-> db]
Success(db) == [success |-> TRUE, db |-> db]

Arg(args, key, default) == IF key \in DOMAIN args THEN args[key] ELSE default

\* What an operation may make of the database, or of the rows of its table, if SQLite
\* plays along: a set, empty if it fails.
DoRead(db, args) ==
    LET columns == Arg(args, "columns", <<>>)
    IN  {d \in {db} : \A k \in DOMAIN columns : columns[k] \in Columns \cup {"id"}}

\* No column but status and id has a default; all are NOT NULL but the id, which is
\* given to a row that has none: the highest.
Insert(rows, args) ==
    LET row == Arg(args, "row", <<>>)
        full == [c \in Columns |-> IF c \in DOMAIN row THEN row[c] ELSE "pending"]
    IN  IF /\ row # <<>>
           /\ {"customer", "amount"} \subseteq DOMAIN row
           /\ DOMAIN row \subseteq Columns \cup {"id"}
           /\ \A c \in DOMAIN row \ {"id"} : row[c] # None
        THEN IF "id" \in DOMAIN row
             THEN {InsertAt(rows, k, full) : k \in 1..(Len(rows) + 1)}
             ELSE {Append(rows, full)}
        ELSE {}

\* A NULL matches no row, and may be stored in none.  No two rows have one id.
Update(rows, args) ==
    LET where == Arg(args, "where", <<>>)
        set == Arg(args, "set", <<>>)
        alike == {k \in DOMAIN rows : \A c \in DOMAIN where \ {"id"} : rows[k][c] = where[c]}
        found == IF "id" \in DOMAIN where THEN {{}} \cup {{k} : k \in alike} ELSE {alike}
        Changed(k) == [c \in Columns |-> IF c \in DOMAIN set THEN set[c] ELSE rows[k][c]]
        After(ks) ==
            IF ks = {} THEN {rows}
            ELSE IF \E c \in DOMAIN set : set[c] = None THEN {}
            ELSE IF "id" \notin DOMAIN set
            THEN {[k \in DOMAIN rows |-> IF k \in ks THEN Changed(k) ELSE rows[k]]}
            ELSE {InsertAt(RemoveAt(rows, k), j, Changed(k)) :
                     k \in {l \in ks : ks = {l}}, j \in DOMAIN rows}
    IN  IF /\ set # <<>> /\ where # <<>>
           /\ DOMAIN set \cup DOMAIN where \subseteq Columns \cup {"id"}
        THEN UNION {After(ks) : ks \in found} ELSE {}

DoWrite(db, table, args) ==
    LET action == Arg(args, "action", "insert")
        after == IF action = "insert" THEN Insert(db[table], args)
                 ELSE IF action = "update" THEN Update(db[table], args)
                 ELSE {}
    IN  {[db EXCEPT ![table] = rows] : rows \in after}

\* Slip: what to do is taken from the arguments.
PerformAsArgued(db, cap, table, args) ==
    IF db = None \/ args = None \/ table \notin AllowedTables \/ table \notin DOMAIN db
    THEN {}
    ELSE IF "row" \in DOMAIN args \/ "set" \in DOMAIN args THEN DoWrite(db, table, args)
    ELSE DoRead(db, args)

\* The call on one table.
Perform(db, cap, table, args) ==
    IF db = None \/ args = None \/ table \notin AllowedTables \/ table \notin DOMAIN db
    THEN {}
    ELSE IF cap.action = "read" THEN DoRead(db, args)
    ELSE IF cap.action = "write" THEN DoWrite(db, table, args)
    ELSE {}

\* invoke: a database that is locked, or a disk that is full, may fail any call.
Invoke(db, cap, args) ==
    {Failure(db)}
    \cup {Success(d) : d \in UNION {Perform(db, cap, table, args) : table \in Resources(cap)}}
=============================================================================
