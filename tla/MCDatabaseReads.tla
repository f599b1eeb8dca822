-------------------------- MODULE MCDatabaseReads --------------------------
(* Instance of DatabaseReads for TLC: two callers with two queries each,    *)
(* and DSNs of both forms with parameters of their own.                     *)
EXTENDS DatabaseReads

Dsn(form, params) ==
    [form |-> form, params |-> params, flawed |-> FALSE, insecure |-> FALSE,
     timeout |-> 2000, rowCap |-> 1, simple |-> FALSE]

MCOwn == <<Param("default_transaction_read_only", "off")>>
MCUntimed == <<Param("statement_timeout", 0)>>
MCTwice == <<Param("sslmode", "disable"), Param("sslmode", "require")>>

MCSetups ==
    {Dsn("url", p) : p \in {<< >>, MCOwn, MCUntimed, MCTwice}}
    \cup {Dsn("keyvalue", MCOwn),
          [Dsn("url", MCTwice) EXCEPT !.insecure = TRUE],
          [Dsn("keyvalue", << >>) EXCEPT !.flawed = TRUE],
          [Dsn("keyvalue", MCUntimed) EXCEPT !.timeout = 999],
          [Dsn("keyvalue", MCTwice) EXCEPT !.rowCap = -1],
          [Dsn("keyvalue", MCUntimed) EXCEPT !.rowCap = 3],
          [Dsn("keyvalue", << >>) EXCEPT !.simple = TRUE]}

Text(does, rows) == [does |-> does, endless |-> FALSE, rows |-> rows]

\* Among them the text of providers/database/integration/integration_test.go
\* 182, which is refused, and two that end their transaction and go on.
MCTexts ==
    {Text(<< >>, 2), Text(<<"insert">>, 0), Text(<<"set">>, 0), Text(<<"commit">>, 0),
     [NoText EXCEPT !.endless = TRUE], Text(<<"readwrite", "insert">>, 0),
     Text(<<"commit", "set", "insert">>, 0),
     Text(<<"set", "commit", "insert">>, 0),
     Text(<<"set", "commit", "begin", "insert">>, 1)}
=============================================================================
