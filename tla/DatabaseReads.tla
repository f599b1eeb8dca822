--------------------------- MODULE DatabaseReads ---------------------------
(***************************************************************************)
(* The read-only Postgres handle of providers/database/database.go: what   *)
(* Open makes of a DSN, and the queries of several callers over the one    *)
(* connection of its pool.  Every query begins a read-only transaction and *)
(* ends with a rollback; the connection, with the settings of its session, *)
(* then serves the next caller.  Connections drop and are replaced,        *)
(* contexts end, and the server stops statements that run too long.        *)
(*                                                                         *)
(* A DSN is the sequence of its parameters.  A query is a text that Query  *)
(* hands on as it is: statements before the one whose rows it reads, which *)
(* a driver of the simple protocol (lib/pq, without arguments) sends in    *)
(* one message and one of the extended protocol cannot send at all.  The   *)
(* database role may write, so that nothing here rests on its grants.      *)
(* database/sql, the driver and Postgres are modelled from how the code    *)
(* and its tests use them.                                                 *)
(***************************************************************************)
EXTENDS Integers, Sequences, FiniteSets, Functions

CONSTANTS
    Callers,       \* who shares the handle
    Setups,        \* records of a DSN and the options of Open
    Texts,         \* records: the statements before the last, whether the
                   \* last comes to an end, and the number of rows it yields
    MaxQueries,    \* bound: the queries of one caller
    MaxDrops       \* bound: the connections that drop

\* A timeout in a DSN is in milliseconds, that of the options in microseconds.
ASSUME SetupsAssumption == \A s \in Setups :
    /\ s.timeout \in Nat /\ s.rowCap \in Int
    /\ \A i \in DOMAIN s.params : s.params[i].key = "statement_timeout" => s.params[i].value \in Nat
ASSUME DsnsAssumption == \A s \in Setups : s.params \in Seq({s.params[i] : i \in DOMAIN s.params})
ASSUME TextsAssumption ==
    Texts \subseteq [does : Seq({"insert", "set", "readwrite", "commit", "begin"}),
                     endless : BOOLEAN, rows : Nat]

VARIABLES
    setup,     \* the DSN and the options
    handle,    \* "none", "refused", "open" or "closed"
    session,   \* the settings of the pool's connection, or Gone
    tx,        \* the transaction on it: its caller, whether a BEGIN opened it,
               \* its mode, the settings it found
    table,     \* the rows that writes have left in the database
    written,   \* the rows that the open transaction has written
    calls,     \* caller -> its query
    drops      \* how many connections have dropped

vars == <<setup, handle, session, tx, table, written, calls, drops>>

-----------------------------------------------------------------------------
(* The DSN.                                                                *)

\* In a URL the first value of a key counts, in the other form the last.
Get(dsn, key, absent) ==
    LET at == {i \in DOMAIN dsn.params : dsn.params[i].key = key}
        chosen == CHOOSE i \in at :
                      \A j \in at : IF dsn.form = "url" THEN i <= j ELSE j <= i
    IN IF at = {} THEN absent ELSE dsn.params[chosen].value

\* time.Duration.Milliseconds, of a timeout in microseconds: it truncates.
Milliseconds(timeout) == timeout \div 1000

Param(key, value) == [key |-> key, value |-> value]

\* Mutant: the parameters are put in front of those of the DSN.
ParamsInFront(dsn) ==
    [dsn EXCEPT !.params =
        <<Param("default_transaction_read_only", "on"),
          Param("statement_timeout", Milliseconds(dsn.timeout))>> \o @]
\* withReadOnlyParams: what the connections are opened with.
WithReadOnlyParams(dsn) ==
    [dsn EXCEPT !.params =
        @ \o <<Param("default_transaction_read_only", "on"),
               Param("statement_timeout", Milliseconds(dsn.timeout))>>]

\* The settings of a new connection, by the driver's reading of the DSN.
StartUp ==
    LET dsn == WithReadOnlyParams(setup)
    IN [readOnly |-> Get(dsn, "default_transaction_read_only", "off") = "on",
        timeout |-> Get(dsn, "statement_timeout", 0)]

Gone == [readOnly |-> FALSE, timeout |-> -1]
Nobody == "nobody"
ASSUME CallersAssumption == Nobody \notin Callers
NoTx == [by |-> Nobody, block |-> FALSE, readOnly |-> FALSE, found |-> Gone]
NoText == [does |-> << >>, endless |-> FALSE, rows |-> 0]
Idle == [stage |-> "idle", text |-> NoText, done |-> 0, got |-> 0, asked |-> 0]

\* Parse and the check of sslmode.
Refused ==
    setup.flawed \/ (Get(setup, "sslmode", "") = "disable" /\ ~setup.insecure)

\* Open: sql.Open connects to nothing, PingContext opens the connection.
Open ==
    /\ handle = "none"
    /\ \/ Refused /\ handle' = "refused" /\ session' = session
       \/ ~Refused /\ handle' = "open" /\ session' = StartUp
       \/ ~Refused /\ handle' = "refused" /\ session' = session
    /\ UNCHANGED <<setup, tx, table, written, calls, drops>>

-----------------------------------------------------------------------------
(* A query: it waits for the connection, begins a transaction, sends its   *)
(* text and reads rows until there are no more or it has enough.           *)

Query(c) ==
    /\ calls[c].stage \notin {"waiting", "begun", "reading"}
    /\ handle \in {"open", "closed"} /\ calls[c].asked < MaxQueries
    /\ \E t \in Texts :
           calls' = [calls EXCEPT ![c] =
               [stage |-> IF handle = "open" THEN "waiting" ELSE "failed",
                text |-> IF handle = "open" THEN t ELSE NoText,
                done |-> 0, got |-> 0, asked |-> @.asked + 1]]
    /\ UNCHANGED <<setup, handle, session, tx, table, written, drops>>

\* Mutant: BeginTx without TxOptions.
PlainTx == FALSE
\* sql.TxOptions{ReadOnly: true}: the mode of the transaction, given the
\* driver and the session.
ReadOnlyTx == TRUE

\* BeginTx, on the pool's connection or one that replaces it.
BeginTx(c) ==
    LET opened == IF session = Gone THEN StartUp ELSE session
    IN /\ calls[c].stage = "waiting" /\ handle = "open" /\ tx.by = Nobody
       /\ session' = opened
       /\ tx' = [by |-> c, block |-> TRUE, readOnly |-> ReadOnlyTx, found |-> opened]
       /\ calls' = [calls EXCEPT ![c].stage = "begun"]
       /\ UNCHANGED <<setup, handle, table, written, drops>>

\* Mutant: the transaction is committed at the end of the query.
Commit == [session |-> session, table |-> table + written]
\* tx.Rollback: settings and data are as the transaction found them.
Rollback == [session |-> tx.found, table |-> table]

\* A call that is over: one that failed returns nothing.
Over(call, stage) ==
    IF stage = "failed" THEN [Idle EXCEPT !.stage = stage, !.asked = call.asked]
    ELSE [call EXCEPT !.stage = stage]

\* What the server is left with.  A transaction that no BEGIN opened is the
\* message's own: the server commits it with the message, whose end a client
\* that is gone does not see, and undoes it when a statement fails.
Left(c, stage, broken) ==
    LET whole == [session |-> session, table |-> table + written]
    IN IF tx.block THEN {Rollback}
       ELSE IF stage = "answered" THEN {whole}
       ELSE IF broken /\ calls[c].stage = "reading" THEN {whole, Rollback}
       ELSE {Rollback}

\* The deferred rows.Close and tx.Rollback.  The connection goes back to the
\* pool unless it is broken or the pool is closed; a driver that finds no
\* transaction to roll back may give it up.
End(c, stage, broken) ==
    /\ \E left \in Left(c, stage, broken) :
           /\ table' = left.table
           /\ \/ session' = Gone /\ (broken \/ handle = "closed" \/ ~tx.block)
              \/ session' = left.session /\ ~broken /\ handle # "closed"
    /\ written' = 0 /\ tx' = NoTx
    /\ calls' = [calls EXCEPT ![c] = Over(@, stage)]
    /\ UNCHANGED <<setup, handle>>

\* The extended protocol takes a text of one statement only.
OneStatement(text) ==
    text.does = << >> \/ (Len(text.does) = 1 /\ ~text.endless /\ text.rows = 0)

\* The next statement but the last.  A write fails in a read-only transaction,
\* a setting is the session's and counts from the next transaction on, SET
\* TRANSACTION READ WRITE changes the mode of this one, and what follows a
\* COMMIT has a transaction of its own in the session's mode.
Perform(c, statement) ==
    /\ written' = CASE statement = "insert" -> written + 1
                    [] statement = "commit" -> 0
                    [] OTHER                -> written
    /\ table' = IF statement = "commit" THEN table + written ELSE table
    /\ session' = IF statement = "set" THEN [readOnly |-> FALSE, timeout |-> 0] ELSE session
    /\ tx' = CASE statement = "readwrite" -> [tx EXCEPT !.readOnly = FALSE]
               [] statement = "begin" -> [tx EXCEPT !.block = TRUE]
               [] statement = "commit" ->
                      [by |-> c, block |-> FALSE, readOnly |-> session.readOnly, found |-> session]
               [] OTHER -> tx
    /\ calls' = [calls EXCEPT ![c].done = @ + 1]
    /\ UNCHANGED <<setup, handle>>

\* tx.QueryContext, which knows nothing of what the text says.
Execute(c) ==
    LET text == calls[c].text
        statement == text.does[calls[c].done + 1]
    IN /\ calls[c].stage = "begun"
       /\ IF ~setup.simple /\ ~OneStatement(text) THEN End(c, "failed", FALSE)
          ELSE IF calls[c].done = Len(text.does)
          THEN /\ calls' = [calls EXCEPT ![c].stage = "reading"]
               /\ UNCHANGED <<setup, handle, session, tx, table, written>>
          ELSE IF statement = "insert" /\ tx.readOnly THEN End(c, "failed", FALSE)
          ELSE Perform(c, statement)
       /\ UNCHANGED drops

\* rows.Next, and the cap, which stops the loop before it keeps the row.
NextRow(c) ==
    LET call == calls[c]
    IN /\ call.stage = "reading" /\ ~call.text.endless
       /\ IF call.got < call.text.rows /\ call.got < setup.rowCap
          THEN /\ calls' = [calls EXCEPT ![c].got = @ + 1]
               /\ UNCHANGED <<setup, handle, session, tx, table, written>>
          ELSE End(c, "answered", FALSE)
       /\ UNCHANGED drops

\* Mutant: rows.Err is not looked at, and what was read by then is returned.
PartOfTheRows == "answered"
\* rows.Err: no rows without the rest of them.
RowsErr == "failed"

\* The server stops a statement that has run for its timeout.
TimeOut(c) ==
    /\ calls[c].stage = "reading" /\ session.timeout > 0
    /\ End(c, RowsErr, FALSE)
    /\ UNCHANGED drops

\* The context ends, before there is a transaction or in it (the driver may
\* then give the connection up), or a new connection cannot be made.
Cancelled(c) ==
    /\ \/ /\ calls[c].stage = "waiting"
          /\ calls' = [calls EXCEPT ![c] = Over(@, "failed")]
          /\ UNCHANGED <<setup, handle, session, tx, table, written>>
       \/ calls[c].stage = "begun" /\ \E broken \in BOOLEAN : End(c, "failed", broken)
       \/ calls[c].stage = "reading" /\ \E broken \in BOOLEAN : End(c, RowsErr, broken)
    /\ UNCHANGED drops

\* The connection drops, in a query or between two.
Drop ==
    /\ session # Gone /\ drops < MaxDrops /\ drops' = drops + 1
    /\ IF tx.by = Nobody
       THEN session' = Gone /\ UNCHANGED <<setup, handle, tx, table, written, calls>>
       ELSE End(tx.by, IF calls[tx.by].stage = "begun" THEN "failed" ELSE RowsErr, TRUE)

\* DB.Close: those who wait are sent away, the query that runs goes on.
Close ==
    /\ handle = "open" /\ handle' = "closed"
    /\ session' = IF tx.by = Nobody THEN Gone ELSE session
    /\ calls' = [c \in Callers |-> IF calls[c].stage = "waiting"
                                   THEN Over(calls[c], "failed") ELSE calls[c]]
    /\ UNCHANGED <<setup, tx, table, written, drops>>

Init ==
    /\ setup \in Setups /\ handle = "none" /\ session = Gone /\ tx = NoTx
    /\ table = 0 /\ written = 0 /\ drops = 0
    /\ calls = [c \in Callers |-> Idle]

Runs(c) == Execute(c) \/ NextRow(c) \/ TimeOut(c)
Next ==
    \/ Open \/ Drop \/ Close
    \/ \E c \in Callers : Query(c) \/ BeginTx(c) \/ Runs(c) \/ Cancelled(c)

\* database/sql gives the connection to one of those who wait, chosen at
\* random; the server runs statements and stops those that run too long.
\* Nothing says that a context ends.
Fairness ==
    \A c \in Callers : SF_vars(BeginTx(c)) /\ WF_vars(Runs(c))

Spec == Init /\ [][Next]_vars
FairSpec == Spec /\ Fairness

-----------------------------------------------------------------------------
(* Properties.                                                             *)

Min(a, b) == IF a < b THEN a ELSE b
Max(a, b) == IF a < b THEN b ELSE a

\* The statements by which a text may leave the mode of its transaction.
Lifts(text) == Range(text.does) \cap {"readwrite", "commit"} # {}

\* A query is answered with all rows of its last statement or with as many as
\* the cap allows, never with those that came before an error; and a write in a
\* text that does not itself leave the read-only mode is refused, not done and
\* undone, also on a connection whose session a DSN of its own or another
\* caller has made read-write (database.go 209-214 and 256-260).
AnswersAreWhole ==
    \A c \in Callers : calls[c].stage = "answered" =>
        /\ "insert" \in Range(calls[c].text.does) => Lifts(calls[c].text)
        /\ calls[c].got = Min(calls[c].text.rows, Max(0, setup.rowCap))

\* A URL with a value of its own for a parameter that Open adds.
KeepsItsOwn(key) ==
    setup.form = "url" /\ \E i \in DOMAIN setup.params : setup.params[i].key = key

\* Between two queries, whatever they have set, every connection is read-only
\* and has the timeout of the options (database.go 209-212), unless the DSN is
\* a URL that says otherwise, which the comment there forgets; a key-value DSN
\* cannot.
ConnectionsAsOpened ==
    session # Gone /\ tx.by = Nobody =>
        /\ KeepsItsOwn("default_transaction_read_only") \/ session.readOnly
        /\ KeepsItsOwn("statement_timeout") \/ session.timeout = Milliseconds(setup.timeout)

\* Over a driver that takes one statement at a time, queries leave nothing
\* behind: no row in the database, and no setting on the connection that the
\* next caller is given, which is as a new one, and that as Open meant it.
NothingLeaks ==
    ~setup.simple =>
        /\ table = 0
        /\ tx.by = Nobody => written = 0 /\ session \in {Gone, StartUp}
        /\ ConnectionsAsOpened

\* Over any driver, a text that does not end its transaction itself writes no
\* row that stays, and leaves the connection's settings as it found them or the
\* connection closed, though it may have lifted the mode, and however it ends.
TextsWithinTheirTx ==
    [][\A c \in Callers :
          tx.by = c /\ "commit" \notin Range(calls[c].text.does)
              => /\ table' = table
                 /\ tx'.by # c => session' \in {Gone, tx.found}]_vars

\* "Each query runs in its own read-only transaction that is always rolled
\* back, so the caller's SQL cannot lift the read-only mode (e.g. SET ... READ
\* WRITE) for the duration of the query" (database.go 257-259).
AlwaysRolledBack == table = 0

\* How many steps a query still takes at most.
StepsLeft(call) ==
    LET whole == Min(call.text.rows, Max(0, setup.rowCap))
        more == Len(call.text.does) - call.done
    IN CASE call.stage = "waiting" -> more + whole + 3
         [] call.stage = "begun"   -> more + whole + 2
         [] call.stage = "reading" -> (whole - call.got) + 1
         [] OTHER                  -> 0

\* What happens to a query, its own steps, a connection that drops under it or
\* the handle's end, takes it on: none is run once more, and none reads past
\* the cap (database.go 258-298).
QueriesAdvance ==
    [][\A c \in Callers :
          calls[c].stage \in {"waiting", "begun", "reading"} /\ calls'[c] # calls[c]
              => StepsLeft(calls'[c]) \in 0..(StepsLeft(calls[c]) - 1)]_vars

\* With a statement timeout on its connections, and a driver that takes one
\* statement at a time, every query ends, though a statement that does not end
\* by itself holds the only connection, another has switched the timeout off
\* before it, and connections drop.
QueriesEnd ==
    \A c \in Callers :
        /\ calls[c].stage \in {"waiting", "begun", "reading"}
        /\ StartUp.timeout > 0 /\ ~setup.simple
        ~> calls[c].stage \notin {"waiting", "begun", "reading"}
=============================================================================
