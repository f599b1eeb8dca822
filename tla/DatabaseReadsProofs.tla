------------------------ MODULE DatabaseReadsProofs ------------------------
(* Theorems about DatabaseReads, for every set of callers, DSNs, options,   *)
(* texts and bounds: what is answered is whole, a text that does not end    *)
(* its transaction has no effect that outlives it, and over a driver that   *)
(* takes one statement at a time no query has any.                          *)
EXTENDS DatabaseReads, TLAPS

Stages == {"idle", "waiting", "begun", "reading", "answered", "failed"}
Call == [stage : Stages, text : Texts \cup {NoText}, done : Nat, got : Nat, asked : Nat]

\* The rows a text is answered with.
Whole(text) == Min(text.rows, Max(0, setup.rowCap))

Types ==
    /\ setup \in Setups
    /\ calls \in [Callers -> Call]
    /\ drops \in Nat

\* One query runs at a time, the one that has the transaction.  It is
\* read-only unless the text has changed that, and it is the one that BeginTx
\* opened unless the text has ended it.
OneRuns ==
    /\ tx.by # Nobody =>
           /\ tx.by \in Callers /\ calls[tx.by].stage \in {"begun", "reading"}
           /\ tx.readOnly \/ Lifts(calls[tx.by].text)
           /\ tx.block \/ "commit" \in Range(calls[tx.by].text.does)
    /\ \A c \in Callers : calls[c].stage \in {"begun", "reading"} => tx.by = c

\* With one statement at a time nothing is written, the transaction has found
\* a new connection's session, and will leave that.
Alone ==
    ~setup.simple =>
        /\ table = 0 /\ written = 0
        /\ tx.by = Nobody => session \in {Gone, StartUp}
        /\ tx.by # Nobody => /\ tx.found = StartUp
                             /\ tx.block \/ session = StartUp
                             /\ calls[tx.by].done = 0 =>
                                    session = StartUp /\ tx.readOnly /\ tx.block

\* What a call has done and got, by its stage.
Gets(call) ==
    /\ call.stage \in {"waiting", "begun"} => call.got = 0
    /\ call.stage = "waiting" => call.done = 0
    /\ call.stage = "begun" =>
           /\ call.done <= Len(call.text.does)
           /\ (\E i \in 1..call.done : call.text.does[i] = "insert") => Lifts(call.text)
    /\ call.stage \in {"reading", "answered"} =>
           ("insert" \in Range(call.text.does) => Lifts(call.text))
    /\ call.stage = "reading" => call.got <= Whole(call.text)
    /\ call.stage = "answered" => call.got = Whole(call.text)

Inv == Types /\ OneRuns /\ Alone /\ \A c \in Callers : Gets(calls[c])

LEMMA RowsAreNumbers ==
    ASSUME Types
    PROVE  /\ setup.rowCap \in Int
           /\ \A c \in Callers : calls[c] \in Call /\ calls[c].text.rows \in Nat
                                  /\ Len(calls[c].text.does) \in Nat
                                  /\ DOMAIN calls[c].text.does = 1..Len(calls[c].text.does)
<1>1. \A t \in Texts \cup {NoText} :
          t.rows \in Nat /\ t.does \in Seq({"insert", "set", "readwrite", "commit", "begin"})
  <2>1. ASSUME NEW t \in Texts
        PROVE  t.rows \in Nat
               /\ t.does \in Seq({"insert", "set", "readwrite", "commit", "begin"})
    <3>1. t \in [does : Seq({"insert", "set", "readwrite", "commit", "begin"}),
                endless : BOOLEAN, rows : Nat]
      BY TextsAssumption
    <3>. QED
      BY <3>1
  <2>2. NoText.rows \in Nat
        /\ NoText.does \in Seq({"insert", "set", "readwrite", "commit", "begin"})
    BY DEF NoText
  <2>. QED
    BY <2>1, <2>2
<1>2. \A c \in Callers : calls[c] \in Call /\ calls[c].text \in Texts \cup {NoText}
  BY DEF Types, Call
<1>3. setup.rowCap \in Int
  BY SetupsAssumption DEF Types
<1>. QED
  BY <1>1, <1>2, <1>3

\* Min and Max are what their names say.
LEMMA WholeBounds ==
    ASSUME NEW rows \in Nat, NEW cap \in Int
    PROVE  /\ Min(rows, Max(0, cap)) \in Nat
           /\ \A got \in Nat : got <= Min(rows, Max(0, cap)) =>
                  /\ got < rows /\ got < cap => got + 1 <= Min(rows, Max(0, cap))
                  /\ ~(got < rows /\ got < cap) => got = Min(rows, Max(0, cap))
BY DEF Min, Max

LEMMA InitInv == Init => Inv
<1>. SUFFICES ASSUME Init PROVE Inv
  OBVIOUS
<1>1. Types
  BY DEF Init, Types, Call, Idle, Stages
<1>2. OneRuns /\ Alone
  BY DEF Init, OneRuns, Alone, NoTx, Idle
<1>3. \A c \in Callers : Gets(calls[c])
  BY DEF Init, Gets, Idle
<1>. QED
  BY <1>1, <1>2, <1>3 DEF Inv

\* What the end of a query leaves, if its text has not ended the transaction.
LEMMA EndLeaves ==
    ASSUME NEW c, NEW stage, NEW broken \in BOOLEAN, End(c, stage, broken)
    PROVE  /\ tx.block => table' = table /\ session' \in {Gone, tx.found}
           /\ table' \in {table, table + written}
           /\ session' \in {Gone, session, tx.found}
           /\ written' = 0 /\ tx' = NoTx /\ setup' = setup
<1>1. PICK left \in Left(c, stage, broken) :
          table' = left.table /\ session' \in {Gone, left.session}
  BY DEF End
<1>. DEFINE whole == [session |-> session, table |-> table + written]
<1>2. left = Rollback \/ (~tx.block /\ left = whole)
  BY <1>1 DEF Left
<1>3. /\ Rollback.session = tx.found /\ Rollback.table = table
      /\ whole.session = session /\ whole.table = table + written
  BY DEF Rollback
<1>. HIDE DEF whole
<1>. QED
  BY <1>1, <1>2, <1>3 DEF End

\* The end of the query that has the transaction, however it ends.
LEMMA EndKeepsInv ==
    ASSUME Inv, NEW c \in Callers, calls[c].stage \in {"begun", "reading"},
           NEW stage \in {"failed", "answered"}, NEW broken \in BOOLEAN,
           End(c, stage, broken), drops' \in Nat,
           stage = "answered" =>
               calls[c].stage = "reading" /\ calls[c].got = Whole(calls[c].text)
    PROVE  Inv'
<1>1. setup' = setup /\ StartUp' = StartUp
  BY DEF End, StartUp
<1>2. tx.by = c /\ tx.by # Nobody
  BY CallersAssumption DEF Inv, OneRuns
<1>. DEFINE call == Over(calls[c], stage)
<1>3. /\ calls' = [calls EXCEPT ![c] = call]
      /\ calls[c] \in Call
  BY DEF End, Inv, Types
<1>4. call \in Call /\ call.stage = stage /\ Gets(call)
  <2>1. CASE stage = "failed"
    BY <2>1, <1>3 DEF Over, Idle, Call, Stages, Gets
  <2>2. CASE stage = "answered"
    BY <2>2, <1>3 DEF Over, Call, Stages, Inv, Gets, Whole
  <2>. QED
    BY <2>1, <2>2
<1>. HIDE DEF call
<1>5. calls' \in [Callers -> Call] /\ calls'[c] = call
      /\ \A d \in Callers \ {c} : calls'[d] = calls[d]
  BY <1>3, <1>4 DEF Inv, Types
<1>6. Types'
  BY <1>1, <1>5 DEF Inv, Types
<1>7. /\ tx.block => table' = table /\ session' \in {Gone, tx.found}
      /\ table' \in {table, table + written}
      /\ session' \in {Gone, session, tx.found}
      /\ written' = 0 /\ tx' = NoTx
  BY EndLeaves
<1>8. \A d \in Callers : calls'[d].stage \notin {"begun", "reading"}
  BY <1>2, <1>4, <1>5 DEF Inv, OneRuns
<1>9. OneRuns'
  BY <1>7, <1>8 DEF OneRuns, NoTx
<1>10. Alone'
  BY <1>1, <1>2, <1>7 DEF Inv, Alone, NoTx
<1>11. \A d \in Callers : Gets(calls[d])'
  BY <1>1, <1>4, <1>5 DEF Inv, Gets, Whole
<1>. QED
  BY <1>6, <1>9, <1>10, <1>11 DEF Inv

\* A step that changes one call, and not the settings of the handle.
LEMMA CallKeepsInv ==
    ASSUME Inv, NEW c \in Callers, NEW call \in Call,
           calls' = [calls EXCEPT ![c] = call], Gets(call),
           \A d \in Callers \ {c} : calls[d].stage \in {"begun", "reading"} => tx'.by = d,
           call.stage \in {"begun", "reading"} => tx'.by = c,
           tx'.by # Nobody =>
               /\ tx'.by \in Callers /\ calls'[tx'.by].stage \in {"begun", "reading"}
               /\ tx'.readOnly \/ Lifts(calls'[tx'.by].text)
               /\ tx'.block \/ "commit" \in Range(calls'[tx'.by].text.does),
           Alone', UNCHANGED <<setup, drops>>
    PROVE  Inv'
<1>2. calls' \in [Callers -> Call] /\ calls'[c] = call
      /\ \A d \in Callers \ {c} : calls'[d] = calls[d]
  BY DEF Inv, Types
<1>3. Types'
  BY <1>2 DEF Inv, Types
<1>4. OneRuns'
  BY <1>2 DEF Inv, OneRuns
<1>5. \A d \in Callers : Gets(calls[d])'
  BY <1>2 DEF Inv, Gets, Whole
<1>. QED
  BY <1>3, <1>4, <1>5 DEF Inv

\* One that leaves the transaction and the connection alone, of a call that
\* does not run.
LEMMA OtherKeepsInv ==
    ASSUME Inv, NEW c \in Callers, NEW call \in Call,
           calls' = [calls EXCEPT ![c] = call], Gets(call),
           calls[c].stage \notin {"begun", "reading"}, call.stage \notin {"begun", "reading"},
           UNCHANGED <<setup, drops, tx, session, table, written>>
    PROVE  Inv'
<1>1. StartUp' = StartUp
  BY DEF StartUp
<1>2. \A d \in Callers \ {c} : calls'[d] = calls[d]
  BY DEF Inv, Types
<1>3. tx.by # c
  BY CallersAssumption DEF Inv, OneRuns
<1>4. Alone'
  BY <1>1, <1>2, <1>3 DEF Inv, Alone, OneRuns
<1>. QED
  BY <1>2, <1>3, <1>4, CallKeepsInv DEF Inv, OneRuns

LEMMA QueryKeepsInv ==
    ASSUME Inv, NEW c \in Callers, Query(c)
    PROVE  Inv'
<1>1. PICK t \in Texts :
          calls' = [calls EXCEPT ![c] =
               [stage |-> IF handle = "open" THEN "waiting" ELSE "failed",
                text |-> IF handle = "open" THEN t ELSE NoText,
                done |-> 0, got |-> 0, asked |-> @.asked + 1]]
  BY DEF Query
<1>. DEFINE call == [stage |-> IF handle = "open" THEN "waiting" ELSE "failed",
                     text |-> IF handle = "open" THEN t ELSE NoText,
                     done |-> 0, got |-> 0, asked |-> calls[c].asked + 1]
<1>2. calls' = [calls EXCEPT ![c] = call]
  BY <1>1
<1>3. call \in Call /\ Gets(call) /\ call.stage \notin {"begun", "reading"}
  BY DEF Inv, Types, Call, Stages, Gets
<1>4. UNCHANGED <<setup, tx, session, table, written, drops>>
      /\ calls[c].stage \notin {"begun", "reading"}
  BY DEF Query
<1>. HIDE DEF call
<1>. QED
  BY <1>2, <1>3, <1>4, OtherKeepsInv

LEMMA BeginTxKeepsInv ==
    ASSUME Inv, NEW c \in Callers, BeginTx(c)
    PROVE  Inv'
<1>. DEFINE call == [calls[c] EXCEPT !.stage = "begun"]
<1>1. calls' = [calls EXCEPT ![c] = call]
  BY DEF BeginTx
<1>2. call \in Call /\ Gets(call) /\ call.stage = "begun" /\ call.done = 0
  <2>1. calls[c] \in Call /\ calls[c].stage = "waiting" /\ Len(calls[c].text.does) \in Nat
    BY RowsAreNumbers DEF BeginTx, Inv
  <2>. QED
    BY <2>1 DEF Inv, Call, Stages, Gets
<1>. HIDE DEF call
<1>3. /\ UNCHANGED <<setup, table, written, drops>> /\ tx.by = Nobody /\ tx'.by = c
      /\ tx'.readOnly /\ tx'.block /\ tx'.found = session'
      /\ session' = IF session = Gone THEN StartUp ELSE session
  BY DEF BeginTx, ReadOnlyTx
<1>4. calls'[c] = call
  BY <1>1 DEF Inv, Types
<1>5. Alone'
  BY <1>3, CallersAssumption DEF Inv, Alone, StartUp
<1>6. \A d \in Callers \ {c} : calls[d].stage \notin {"begun", "reading"}
  BY <1>3, CallersAssumption DEF Inv, OneRuns
<1>. QED
  BY <1>1, <1>2, <1>3, <1>4, <1>5, <1>6, CallKeepsInv

\* One statement of the text, other than a write that is refused.
LEMMA PerformKeepsInv ==
    ASSUME Inv, NEW c \in Callers, calls[c].stage = "begun",
           setup.simple \/ OneStatement(calls[c].text), calls[c].done # Len(calls[c].text.does),
           NEW statement, statement = calls[c].text.does[calls[c].done + 1],
           ~(statement = "insert" /\ tx.readOnly), Perform(c, statement), drops' = drops
    PROVE  Inv'
<1>. DEFINE call == [calls[c] EXCEPT !.done = @ + 1]
            text == calls[c].text
            n == calls[c].done
<1>1. /\ calls[c] \in Call /\ Len(text.does) \in Nat /\ DOMAIN text.does = 1..Len(text.does)
      /\ n \in Nat /\ n < Len(text.does) /\ calls[c].got = 0
  <2>1. n \in Nat /\ Len(text.does) \in Nat /\ n <= Len(text.does)
    BY RowsAreNumbers DEF Inv, Gets, Call
  <2>. QED
    BY <2>1, RowsAreNumbers DEF Inv, Gets
<1>2. tx.by = c /\ tx.by # Nobody
  BY CallersAssumption DEF Inv, OneRuns
<1>3. statement \in Range(text.does)
  BY <1>1 DEF Range
<1>4. /\ call \in Call /\ call.stage = "begun" /\ call.text = text /\ call.done = n + 1
      /\ call.got = 0
  BY <1>1 DEF Call
<1>5. calls' = [calls EXCEPT ![c] = call] /\ UNCHANGED <<setup, drops>>
  BY DEF Perform
<1>6. statement = "insert" => Lifts(text)
  BY <1>2 DEF Inv, OneRuns
<1>7. /\ tx'.by = c
      /\ tx'.readOnly \/ Lifts(text)
      /\ tx'.block \/ "commit" \in Range(text.does)
  BY <1>2, <1>3 DEF Perform, Inv, OneRuns, Lifts
<1>8. Gets(call)
  <2>1. \A i \in 1..(n + 1) : i \in 1..n \/ i = n + 1
    BY <1>1
  <2>2. (\E i \in 1..n : text.does[i] = "insert") => Lifts(text)
    BY DEF Inv, Gets
  <2>3. (\E i \in 1..(n + 1) : text.does[i] = "insert") => Lifts(text)
    BY <1>6, <2>1, <2>2
  <2>. QED
    BY <1>1, <1>4, <2>3 DEF Gets
<1>. HIDE DEF call
<1>9. calls'[c] = call
  BY <1>5 DEF Inv, Types
<1>10. Alone'
  <2>. SUFFICES ASSUME ~setup.simple PROVE Alone'
    BY <1>5 DEF Alone
  <2>1. n = 0 /\ StartUp' = StartUp
    BY <1>1, <1>5 DEF OneStatement, StartUp
  <2>2. /\ table = 0 /\ written = 0 /\ tx.found = StartUp /\ session = StartUp
        /\ tx.readOnly /\ tx.block
    BY <1>2, <2>1 DEF Inv, Alone
  <2>3. table' = 0 /\ written' = 0 /\ tx'.found = StartUp /\ (tx'.block \/ session' = StartUp)
    <3>1. CASE statement = "commit"
      BY <2>2, <3>1 DEF Perform
    <3>2. CASE statement # "commit"
      BY <2>2, <3>2 DEF Perform
    <3>. QED
      BY <3>1, <3>2
  <2>. QED
    BY <1>1, <1>4, <1>7, <1>9, <2>1, <2>3, <1>2 DEF Alone
<1>11. \A d \in Callers \ {c} : calls[d].stage \notin {"begun", "reading"}
  BY <1>2 DEF Inv, OneRuns
<1>. QED
  BY <1>2, <1>4, <1>5, <1>7, <1>8, <1>9, <1>10, <1>11, CallKeepsInv

LEMMA ExecuteKeepsInv ==
    ASSUME Inv, NEW c \in Callers, Execute(c)
    PROVE  Inv'
<1>. DEFINE text == calls[c].text
            statement == text.does[calls[c].done + 1]
<1>1. tx.by = c /\ tx.by # Nobody /\ calls[c].stage = "begun" /\ drops' = drops /\ drops' \in Nat
  BY CallersAssumption DEF Execute, Inv, OneRuns, Types
<1>2. CASE End(c, "failed", FALSE)
  BY <1>1, <1>2, EndKeepsInv
<1>3. CASE /\ setup.simple \/ OneStatement(text)
           /\ calls[c].done # Len(text.does)
           /\ ~(statement = "insert" /\ tx.readOnly)
           /\ Perform(c, statement)
  BY <1>1, <1>3, PerformKeepsInv
<1>4. CASE /\ calls[c].done = Len(text.does)
           /\ calls' = [calls EXCEPT ![c].stage = "reading"]
           /\ UNCHANGED <<setup, session, tx, table, written>>
  <2>. DEFINE call == [calls[c] EXCEPT !.stage = "reading"]
  <2>1. calls' = [calls EXCEPT ![c] = call]
    BY <1>4
  <2>2. /\ calls[c] \in Call /\ calls[c].got = 0
        /\ DOMAIN text.does = 1..calls[c].done
        /\ (\E i \in 1..calls[c].done : text.does[i] = "insert") => Lifts(text)
    BY <1>1, <1>4, RowsAreNumbers DEF Inv, Gets
  <2>3. call \in Call /\ call.stage = "reading" /\ call.text = text /\ call.got = 0
        /\ call.done = calls[c].done
    BY <2>2 DEF Call, Stages
  <2>4. Whole(text) \in Nat
    BY RowsAreNumbers, WholeBounds DEF Whole, Inv
  <2>. HIDE DEF call
  <2>5. Gets(call)
    <3>1. ASSUME "insert" \in Range(text.does) PROVE Lifts(text)
      BY <2>2, <3>1 DEF Range
    <3>2. 0 <= Whole(text)
      BY <2>4
    <3>. HIDE DEF text
    <3>. QED
      BY <2>3, <3>1, <3>2 DEF Gets
  <2>6. calls'[c] = call
    BY <2>1 DEF Inv, Types
  <2>7. Alone'
    BY <1>1, <1>4, <2>3, <2>6 DEF Inv, Alone, StartUp
  <2>8. /\ tx'.readOnly \/ Lifts(call.text)
        /\ tx'.block \/ "commit" \in Range(call.text.does)
    BY <1>1, <1>4, <2>3 DEF Inv, OneRuns
  <2>9. \A d \in Callers \ {c} : calls[d].stage \notin {"begun", "reading"}
    BY <1>1 DEF Inv, OneRuns
  <2>. QED
    BY <1>1, <1>4, <2>1, <2>3, <2>5, <2>6, <2>7, <2>8, <2>9, CallKeepsInv
<1>. QED
  BY <1>2, <1>3, <1>4 DEF Execute

LEMMA NextRowKeepsInv ==
    ASSUME Inv, NEW c \in Callers, NextRow(c)
    PROVE  Inv'
<1>1. tx.by = c /\ tx.by # Nobody /\ calls[c].stage = "reading" /\ drops' = drops
  BY CallersAssumption DEF NextRow, Inv, OneRuns
<1>2. /\ calls[c] \in Call /\ calls[c].got \in Nat /\ calls[c].text.rows \in Nat
      /\ setup.rowCap \in Int /\ calls[c].got <= Whole(calls[c].text)
      /\ "insert" \in Range(calls[c].text.does) => Lifts(calls[c].text)
  BY <1>1, RowsAreNumbers DEF Inv, Gets, Call
<1>3. CASE calls[c].got < calls[c].text.rows /\ calls[c].got < setup.rowCap
  <2>. DEFINE call == [calls[c] EXCEPT !.got = @ + 1]
  <2>1. /\ calls' = [calls EXCEPT ![c] = call]
        /\ UNCHANGED <<setup, tx, session, table, written, drops>>
    BY <1>1, <1>3 DEF NextRow
  <2>2. call \in Call /\ call.stage = "reading" /\ call.done = calls[c].done
        /\ call.text = calls[c].text /\ call.got = calls[c].got + 1
    BY <1>1, <1>2 DEF Call
  <2>. HIDE DEF call
  <2>3. Gets(call)
    BY <1>2, <1>3, <2>2, WholeBounds DEF Gets, Whole
  <2>4. calls'[c] = call
    BY <2>1 DEF Inv, Types
  <2>5. Alone'
    BY <1>1, <2>1, <2>2, <2>4 DEF Inv, Alone, StartUp
  <2>6. /\ tx'.readOnly \/ Lifts(call.text)
        /\ tx'.block \/ "commit" \in Range(call.text.does)
    BY <1>1, <2>1, <2>2 DEF Inv, OneRuns
  <2>7. \A d \in Callers \ {c} : calls[d].stage \notin {"begun", "reading"}
    BY <1>1 DEF Inv, OneRuns
  <2>. QED
    BY <1>1, <2>1, <2>2, <2>3, <2>4, <2>5, <2>6, <2>7, CallKeepsInv
<1>4. CASE ~(calls[c].got < calls[c].text.rows /\ calls[c].got < setup.rowCap)
  <2>1. End(c, "answered", FALSE) /\ drops' \in Nat
    BY <1>1, <1>4 DEF NextRow, Inv, Types
  <2>2. calls[c].got = Whole(calls[c].text)
    BY <1>2, <1>4, WholeBounds DEF Whole
  <2>. QED
    BY <1>1, <2>1, <2>2, EndKeepsInv
<1>. QED
  BY <1>3, <1>4

LEMMA OverFails ==
    ASSUME NEW call \in Call
    PROVE  /\ Over(call, "failed") \in Call /\ Gets(Over(call, "failed"))
           /\ Over(call, "failed").stage = "failed"
BY DEF Over, Idle, Call, Stages, Gets

LEMMA CancelledKeepsInv ==
    ASSUME Inv, NEW c \in Callers, Cancelled(c)
    PROVE  Inv'
<1>1. CASE calls[c].stage = "waiting"
  <2>. DEFINE call == Over(calls[c], "failed")
  <2>1. /\ calls' = [calls EXCEPT ![c] = call]
        /\ UNCHANGED <<setup, tx, session, table, written, drops>>
    BY <1>1 DEF Cancelled
  <2>2. call \in Call /\ Gets(call) /\ call.stage = "failed"
    BY OverFails DEF Inv, Types
  <2>. HIDE DEF call
  <2>. QED
    BY <1>1, <2>1, <2>2, OtherKeepsInv
<1>2. CASE calls[c].stage \in {"begun", "reading"}
  <2>1. PICK broken \in BOOLEAN : End(c, "failed", broken)
    BY <1>2 DEF Cancelled, RowsErr
  <2>2. drops' \in Nat
    BY DEF Cancelled, Inv, Types
  <2>. QED
    BY <1>2, <2>1, <2>2, EndKeepsInv
<1>. QED
  BY <1>1, <1>2 DEF Cancelled

LEMMA DropKeepsInv == ASSUME Inv, Drop PROVE Inv'
<1>1. drops' \in Nat
  BY DEF Drop, Inv, Types
<1>2. CASE tx.by = Nobody
  <2>1. UNCHANGED <<setup, tx, table, written, calls>> /\ session' = Gone
    BY <1>2 DEF Drop
  <2>. QED
    BY <1>1, <1>2, <2>1 DEF Inv, Types, OneRuns, Alone, Gets, Whole, StartUp
<1>3. CASE tx.by # Nobody
  <2>1. tx.by \in Callers /\ calls[tx.by].stage \in {"begun", "reading"}
    BY <1>3 DEF Inv, OneRuns
  <2>2. End(tx.by, "failed", TRUE)
    BY <1>3, <2>1 DEF Drop, RowsErr
  <2>. QED
    BY <1>1, <2>1, <2>2, EndKeepsInv
<1>. QED
  BY <1>2, <1>3

LEMMA CloseKeepsInv == ASSUME Inv, Close PROVE Inv'
<1>1. UNCHANGED <<setup, tx, table, written, drops>> /\ StartUp' = StartUp
  BY DEF Close, StartUp
<1>2. session' = IF tx.by = Nobody THEN Gone ELSE session
  BY DEF Close
<1>3. /\ calls' \in [Callers -> Call]
      /\ \A c \in Callers : calls'[c] = IF calls[c].stage = "waiting"
                                         THEN Over(calls[c], "failed") ELSE calls[c]
  BY OverFails DEF Close, Inv, Types
<1>4. \A c \in Callers : calls[c].stage = "waiting" =>
          Gets(calls'[c]) /\ calls'[c].stage = "failed"
  BY <1>3, OverFails DEF Inv, Types
<1>5. Types'
  BY <1>1, <1>3 DEF Inv, Types
<1>6. OneRuns' /\ Alone'
  BY <1>1, <1>2, <1>3, <1>4 DEF Inv, OneRuns, Alone
<1>7. \A c \in Callers : Gets(calls[c])'
  BY <1>1, <1>3, <1>4 DEF Inv, Gets, Whole
<1>. QED
  BY <1>5, <1>6, <1>7 DEF Inv

LEMMA OpenKeepsInv == ASSUME Inv, Open PROVE Inv'
<1>1. UNCHANGED <<setup, tx, table, written, calls, drops>> /\ StartUp' = StartUp
  BY DEF Open, StartUp
<1>2. session' = session \/ session' = StartUp
  BY DEF Open
<1>3. Types' /\ OneRuns' /\ \A c \in Callers : Gets(calls[c])'
  BY <1>1 DEF Inv, Types, OneRuns, Gets, Whole
<1>4. Alone'
  BY <1>1, <1>2 DEF Inv, Alone
<1>. QED
  BY <1>3, <1>4 DEF Inv

LEMMA InvInductive == Inv /\ [Next]_vars => Inv'
<1>. SUFFICES ASSUME Inv, [Next]_vars PROVE Inv'
  OBVIOUS
<1>1. ASSUME NEW c \in Callers, TimeOut(c) PROVE Inv'
  <2>1. End(c, "failed", FALSE) /\ drops' \in Nat /\ calls[c].stage = "reading"
    BY <1>1 DEF TimeOut, RowsErr, Inv, Types
  <2>. QED
    BY <2>1, EndKeepsInv
<1>2. CASE UNCHANGED vars
  BY <1>2 DEF vars, Inv, Types, OneRuns, Alone, Gets, Whole, StartUp
<1>. QED
  BY <1>1, <1>2, QueryKeepsInv, BeginTxKeepsInv, ExecuteKeepsInv, NextRowKeepsInv,
     CancelledKeepsInv, DropKeepsInv, CloseKeepsInv, OpenKeepsInv
  DEF Next, Runs

LEMMA Invariant == Spec => []Inv
BY InitInv, InvInductive, PTL DEF Spec

-----------------------------------------------------------------------------
\* Every answer is the whole of what was asked, up to the cap, and a text that
\* writes is answered only if it has left the read-only mode itself, for every
\* DSN, also one that makes its sessions read-write, and however the queries
\* follow upon each other.
THEOREM OnlyWholeAnswers == Spec => []AnswersAreWhole
<1>1. Inv => AnswersAreWhole
  BY DEF Inv, Gets, Whole, AnswersAreWhole
<1>. QED
  BY <1>1, Invariant, PTL

\* A text without a COMMIT has no effect that outlives its transaction, over any
\* driver, for every text, and whatever happens to the query.
THEOREM TextsStayWithin == Spec => TextsWithinTheirTx
<1>. DEFINE Within(c) ==
         tx.by = c /\ "commit" \notin Range(calls[c].text.does)
             => /\ table' = table
                /\ tx'.by # c => session' \in {Gone, tx.found}
<1>1. Inv /\ [Next]_vars => [\A c \in Callers : Within(c)]_vars
  <2>. SUFFICES ASSUME Inv, Next, NEW c \in Callers,
                       tx.by = c, "commit" \notin Range(calls[c].text.does)
                PROVE  table' = table /\ (tx'.by # c => session' \in {Gone, tx.found})
    OBVIOUS
  <2>1. tx.block /\ tx.by # Nobody
        /\ \A d \in Callers : calls[d].stage \in {"begun", "reading"} => d = c
    BY CallersAssumption DEF Inv, OneRuns
  <2>2. ASSUME NEW d, NEW stage, NEW broken \in BOOLEAN, End(d, stage, broken)
        PROVE  table' = table /\ session' \in {Gone, tx.found}
    BY <2>1, <2>2, EndLeaves
  <2>3. ASSUME NEW d \in Callers, Execute(d)
        PROVE  table' = table /\ (tx'.by # c => session' \in {Gone, tx.found})
    <3>. DEFINE text == calls[d].text
                statement == text.does[calls[d].done + 1]
    <3>1. d = c /\ calls[c].stage = "begun"
      BY <2>1, <2>3 DEF Execute
    <3>2. CASE End(d, "failed", FALSE)
      BY <2>2, <3>2
    <3>3. CASE UNCHANGED <<session, tx, table, written>>
      BY <3>3
    <3>4. CASE calls[d].done # Len(text.does) /\ Perform(d, statement)
      <4>1. /\ calls[d].done \in Nat /\ calls[d].done <= Len(text.does)
            /\ Len(text.does) \in Nat /\ DOMAIN text.does = 1..Len(text.does)
        BY <3>1, RowsAreNumbers DEF Inv, Gets, Call
      <4>2. statement \in Range(text.does)
        <5>1. calls[d].done + 1 \in DOMAIN text.does
          BY <4>1, <3>4
        <5>. QED
          BY <5>1 DEF Range
      <4>3. statement # "commit"
        BY <4>2, <3>1
      <4>. QED
        BY <3>4, <4>3 DEF Perform
    <3>. QED
      BY <2>3, <3>2, <3>3, <3>4 DEF Execute
  <2>4. ASSUME NEW d \in Callers, NextRow(d) \/ TimeOut(d) \/ Cancelled(d)
        PROVE  table' = table /\ (tx'.by # c => session' \in {Gone, tx.found})
    <3>1. \/ UNCHANGED <<session, tx, table>>
          \/ \E stage \in {"answered", "failed"}, broken \in BOOLEAN : End(d, stage, broken)
      BY <2>4 DEF NextRow, TimeOut, Cancelled, RowsErr
    <3>. QED
      BY <3>1, <2>2
  <2>5. ASSUME NEW d \in Callers, Query(d)
        PROVE  UNCHANGED <<session, tx, table>>
    BY <2>5 DEF Query
  <2>6. ~\E d \in Callers : BeginTx(d)
    BY <2>1 DEF BeginTx
  <2>7. ASSUME Drop PROVE table' = table /\ session' \in {Gone, tx.found}
    <3>1. End(tx.by, "failed", TRUE)
      BY <2>1, <2>7 DEF Drop, RowsErr
    <3>. QED
      BY <3>1, <2>2
  <2>8. ASSUME Close \/ Open PROVE UNCHANGED <<tx, table>>
    BY <2>8 DEF Close, Open
  <2>. QED
    BY <2>3, <2>4, <2>5, <2>6, <2>7, <2>8 DEF Next, Runs
<1>. QED
  BY <1>1, Invariant, PTL DEF Spec, TextsWithinTheirTx

-----------------------------------------------------------------------------
(* What the connections are opened with.                                   *)

\* The value of a key is that of its first place in a URL, and that of its
\* last in the other form: the place is the only such one.
LEMMA PlaceThatCounts ==
    ASSUME NEW dsn, NEW key, NEW absent, DOMAIN dsn.params \subseteq Int,
           NEW at \in DOMAIN dsn.params, dsn.params[at].key = key,
           \A i \in DOMAIN dsn.params :
               dsn.params[i].key = key => IF dsn.form = "url" THEN at <= i ELSE i <= at
    PROVE  Get(dsn, key, absent) = dsn.params[at].value
<1>. DEFINE places == {i \in DOMAIN dsn.params : dsn.params[i].key = key}
            Counts(i) == \A j \in places : IF dsn.form = "url" THEN i <= j ELSE j <= i
            chosen == CHOOSE i \in places : Counts(i)
<1>1. at \in places /\ Counts(at) /\ places \subseteq Int
  OBVIOUS
<1>2. \A i \in places : Counts(i) => i = at
  BY <1>1
<1>3. chosen \in places /\ Counts(chosen)
  <2>. HIDE DEF places, Counts
  <2>. QED
    BY <1>1
<1>4. chosen = at
  BY <1>2, <1>3
<1>5. Get(dsn, key, absent) = IF places = {} THEN absent ELSE dsn.params[chosen].value
  BY DEF Get
<1>. QED
  BY <1>1, <1>4, <1>5

\* The parameters that Open adds come last, each at its place.
LEMMA AddedLast ==
    ASSUME setup \in Setups
    PROVE  LET dsn == WithReadOnlyParams(setup)
               n == Len(setup.params)
           IN /\ n \in Nat /\ DOMAIN setup.params = 1..n
              /\ dsn.form = setup.form /\ DOMAIN dsn.params = 1..(n + 2)
              /\ \A i \in 1..n : dsn.params[i] = setup.params[i]
              /\ dsn.params[n + 1] = Param("default_transaction_read_only", "on")
              /\ dsn.params[n + 2] = Param("statement_timeout", Milliseconds(setup.timeout))
<1>. DEFINE old == setup.params
            new == <<Param("default_transaction_read_only", "on"),
                     Param("statement_timeout", Milliseconds(setup.timeout))>>
            dsn == WithReadOnlyParams(setup)
<1>1. old \in Seq({old[i] : i \in DOMAIN old})
  BY DsnsAssumption
<1>2. dsn = [setup EXCEPT !.params = old \o new]
  BY DEF WithReadOnlyParams
<1>3. dsn.params = old \o new /\ dsn.form = setup.form
  BY <1>2
<1>. QED
  BY <1>1, <1>3

\* A new connection has the settings that Open adds, but for what a URL keeps.
LEMMA StartUpAsOpened ==
    ASSUME setup \in Setups
    PROVE  /\ KeepsItsOwn("default_transaction_read_only") \/ StartUp.readOnly
           /\ KeepsItsOwn("statement_timeout") \/ StartUp.timeout = Milliseconds(setup.timeout)
<1>. DEFINE dsn == WithReadOnlyParams(setup)
            n == Len(setup.params)
<1>1. /\ n \in Nat /\ DOMAIN setup.params = 1..n
      /\ dsn.form = setup.form /\ DOMAIN dsn.params = 1..(n + 2)
      /\ \A i \in 1..n : dsn.params[i] = setup.params[i]
      /\ dsn.params[n + 1] = Param("default_transaction_read_only", "on")
      /\ dsn.params[n + 2] = Param("statement_timeout", Milliseconds(setup.timeout))
  BY AddedLast
<1>2. StartUp = [readOnly |-> Get(dsn, "default_transaction_read_only", "off") = "on",
                 timeout |-> Get(dsn, "statement_timeout", 0)]
  BY DEF StartUp
<1>. HIDE DEF dsn, n
<1>3. ASSUME NEW key, NEW at \in {n + 1, n + 2}, ~KeepsItsOwn(key), dsn.params[at].key = key,
             NEW absent, \A i \in {n + 1, n + 2} : dsn.params[i].key = key => i = at
      PROVE  Get(dsn, key, absent) = dsn.params[at].value
  <2>1. at \in DOMAIN dsn.params /\ DOMAIN dsn.params \subseteq Int
    BY <1>1
  <2>2. ASSUME NEW i \in DOMAIN dsn.params, dsn.params[i].key = key
        PROVE  IF dsn.form = "url" THEN at <= i ELSE i <= at
    <3>1. CASE i \in 1..n
      BY <1>1, <1>3, <2>2, <3>1 DEF KeepsItsOwn
    <3>2. CASE i \in {n + 1, n + 2}
      BY <1>1, <1>3, <2>2, <3>2
    <3>. QED
      BY <1>1, <3>1, <3>2
  <2>. QED
    BY <1>3, <2>1, <2>2, PlaceThatCounts
<1>4. KeepsItsOwn("default_transaction_read_only")
          \/ Get(dsn, "default_transaction_read_only", "off") = "on"
  BY <1>1, <1>3 DEF Param
<1>5. KeepsItsOwn("statement_timeout")
          \/ Get(dsn, "statement_timeout", 0) = Milliseconds(setup.timeout)
  BY <1>1, <1>3 DEF Param
<1>. QED
  BY <1>2, <1>4, <1>5

\* Over a driver that takes one statement at a time no query leaves a row, or a
\* setting for the next one, whose connection is read-only and has the timeout
\* of the options, for every DSN that is no URL with settings of its own.
THEOREM NothingStays == Spec => []NothingLeaks
<1>1. Inv => NothingLeaks
  BY StartUpAsOpened DEF Inv, Types, Alone, ConnectionsAsOpened, NothingLeaks
<1>. QED
  BY <1>1, Invariant, PTL

-----------------------------------------------------------------------------
(* How far a query is from its end.                                        *)

\* What it has still to do, stage by stage.
LEMMA StepsLeftType ==
    ASSUME Inv, NEW c \in Callers
    PROVE  /\ Whole(calls[c].text) \in Nat /\ Len(calls[c].text.does) \in Nat
           /\ calls[c].stage = "waiting" =>
                  StepsLeft(calls[c]) = Len(calls[c].text.does) + Whole(calls[c].text) + 3
           /\ calls[c].stage = "begun" =>
                  /\ calls[c].done \in Nat /\ calls[c].done <= Len(calls[c].text.does)
                  /\ StepsLeft(calls[c]) =
                         Len(calls[c].text.does) - calls[c].done + Whole(calls[c].text) + 2
           /\ calls[c].stage = "reading" =>
                  /\ calls[c].got \in Nat /\ calls[c].got <= Whole(calls[c].text)
                  /\ StepsLeft(calls[c]) = (Whole(calls[c].text) - calls[c].got) + 1
<1>1. Whole(calls[c].text) \in Nat /\ Len(calls[c].text.does) \in Nat
  BY RowsAreNumbers, WholeBounds DEF Whole, Inv
<1>2. calls[c].got \in Nat /\ calls[c].done \in Nat
  BY RowsAreNumbers DEF Inv, Call
<1>. QED
  BY <1>1, <1>2 DEF Inv, Gets, StepsLeft, Whole

\* The steps of a query that runs, one by one: it ends, or it goes on by a
\* statement, by a row or to its next stage.
LEMMA StepOn ==
    ASSUME Inv, Next, NEW c \in Callers,
           calls[c].stage \in {"waiting", "begun", "reading"}, calls'[c] # calls[c]
    PROVE  \/ calls'[c].stage \in {"answered", "failed"}
           \/ /\ calls[c].stage = "waiting" /\ calls[c].done = 0
              /\ calls'[c] = [calls[c] EXCEPT !.stage = "begun"]
           \/ /\ calls[c].stage = "begun" /\ calls[c].done # Len(calls[c].text.does)
              /\ calls'[c] = [calls[c] EXCEPT !.done = @ + 1]
           \/ /\ calls[c].stage = "begun" /\ calls[c].done = Len(calls[c].text.does)
              /\ calls'[c] = [calls[c] EXCEPT !.stage = "reading"]
           \/ /\ calls[c].stage = "reading" /\ calls'[c] = [calls[c] EXCEPT !.got = @ + 1]
              /\ calls[c].got < calls[c].text.rows /\ calls[c].got < setup.rowCap
<1>1. calls \in [Callers -> Call] /\ calls[c] \in Call
  BY DEF Inv, Types
<1>2. ASSUME NEW d \in Callers, NEW stage \in {"answered", "failed"}, NEW broken,
             End(d, stage, broken)
      PROVE  calls'[c].stage \in {"answered", "failed"}
  BY <1>1, <1>2 DEF End, Over, Idle, Call
<1>3. ASSUME NEW d \in Callers, Query(d) PROVE FALSE
  BY <1>1, <1>3 DEF Query
<1>4. ASSUME NEW d \in Callers, BeginTx(d)
      PROVE  /\ calls[c].stage = "waiting" /\ calls[c].done = 0
             /\ calls'[c] = [calls[c] EXCEPT !.stage = "begun"]
  BY <1>1, <1>4 DEF BeginTx, Inv, Gets
<1>5. ASSUME NEW d \in Callers, Execute(d)
      PROVE  \/ calls'[c].stage \in {"answered", "failed"}
             \/ /\ calls[c].stage = "begun" /\ calls[c].done # Len(calls[c].text.does)
                /\ calls'[c] = [calls[c] EXCEPT !.done = @ + 1]
             \/ /\ calls[c].stage = "begun" /\ calls[c].done = Len(calls[c].text.does)
                /\ calls'[c] = [calls[c] EXCEPT !.stage = "reading"]
  <2>1. calls[d].stage = "begun"
        /\ \/ End(d, "failed", FALSE)
           \/ /\ calls[d].done = Len(calls[d].text.does)
              /\ calls' = [calls EXCEPT ![d].stage = "reading"]
           \/ /\ calls[d].done # Len(calls[d].text.does)
              /\ calls' = [calls EXCEPT ![d].done = @ + 1]
    BY <1>5 DEF Execute, Perform
  <2>. QED
    BY <1>1, <1>2, <2>1
<1>6. ASSUME NEW d \in Callers, NextRow(d)
      PROVE  \/ calls'[c].stage \in {"answered", "failed"}
             \/ /\ calls[c].stage = "reading" /\ calls'[c] = [calls[c] EXCEPT !.got = @ + 1]
                /\ calls[c].got < calls[c].text.rows /\ calls[c].got < setup.rowCap
  <2>1. /\ calls[d].stage = "reading"
        /\ \/ End(d, "answered", FALSE)
           \/ /\ calls' = [calls EXCEPT ![d].got = @ + 1]
              /\ calls[d].got < calls[d].text.rows /\ calls[d].got < setup.rowCap
    BY <1>6 DEF NextRow
  <2>. QED
    BY <1>1, <1>2, <2>1
<1>7. ASSUME NEW d \in Callers, TimeOut(d) PROVE calls'[c].stage \in {"answered", "failed"}
  BY <1>2, <1>7 DEF TimeOut, RowsErr
<1>8. ASSUME NEW d \in Callers, Cancelled(d) PROVE calls'[c].stage \in {"answered", "failed"}
  <2>1. \/ calls' = [calls EXCEPT ![d] = Over(calls[d], "failed")]
        \/ \E broken \in BOOLEAN : End(d, "failed", broken)
    BY <1>8 DEF Cancelled, RowsErr
  <2>. QED
    BY <1>1, <1>2, <2>1, OverFails
<1>9. ASSUME Drop PROVE calls'[c].stage \in {"answered", "failed"}
  <2>1. tx.by # Nobody /\ End(tx.by, "failed", TRUE)
    BY <1>9 DEF Drop, RowsErr
  <2>2. tx.by \in Callers
    BY <2>1 DEF Inv, OneRuns
  <2>. QED
    BY <1>2, <2>1, <2>2
<1>10. ASSUME Close PROVE calls'[c].stage \in {"answered", "failed"}
  BY <1>1, <1>10, OverFails DEF Close
<1>11. ~Open
  BY DEF Open
<1>. QED
  BY <1>3, <1>4, <1>5, <1>6, <1>7, <1>8, <1>9, <1>10, <1>11 DEF Next, Runs

\* Whatever happens to a query brings it nearer to its end, for any text, DSN
\* and cap: it takes three steps more than the statements before its last and
\* the rows it may keep, at most.
THEOREM QueriesGoOn == Spec => QueriesAdvance
<1>. DEFINE On(c) ==
         calls[c].stage \in {"waiting", "begun", "reading"} /\ calls'[c] # calls[c]
             => StepsLeft(calls'[c]) \in 0..(StepsLeft(calls[c]) - 1)
<1>1. Inv /\ [Next]_vars => [\A c \in Callers : On(c)]_vars
  <2>. SUFFICES ASSUME Inv, Next, NEW c \in Callers,
                       calls[c].stage \in {"waiting", "begun", "reading"}, calls'[c] # calls[c]
                PROVE  StepsLeft(calls'[c]) \in 0..(StepsLeft(calls[c]) - 1)
    OBVIOUS
  <2>. DEFINE whole == Whole(calls[c].text)
              all == Len(calls[c].text.does)
  <2>1. /\ whole \in Nat /\ all \in Nat
        /\ calls[c].stage = "waiting" => StepsLeft(calls[c]) = all + whole + 3
        /\ calls[c].stage = "begun" =>
               /\ calls[c].done \in Nat /\ calls[c].done <= all
               /\ StepsLeft(calls[c]) = all - calls[c].done + whole + 2
        /\ calls[c].stage = "reading" =>
               /\ calls[c].got \in Nat /\ calls[c].got <= whole
               /\ StepsLeft(calls[c]) = (whole - calls[c].got) + 1
    BY StepsLeftType
  <2>2. calls[c] \in Call
    BY DEF Inv, Types
  <2>3. CASE calls'[c].stage \in {"answered", "failed"}
    <3>1. StepsLeft(calls'[c]) = 0
      BY <2>3 DEF StepsLeft
    <3>. HIDE DEF whole, all
    <3>. QED
      BY <2>1, <3>1
  <2>4. CASE /\ calls[c].stage = "waiting" /\ calls[c].done = 0
             /\ calls'[c] = [calls[c] EXCEPT !.stage = "begun"]
    <3>1. StepsLeft(calls'[c]) = all - 0 + whole + 2
      BY <2>2, <2>4 DEF StepsLeft, Whole, Call
    <3>. HIDE DEF whole, all
    <3>. QED
      BY <2>1, <2>4, <3>1
  <2>5. CASE /\ calls[c].stage = "begun" /\ calls[c].done # all
             /\ calls'[c] = [calls[c] EXCEPT !.done = @ + 1]
    <3>1. StepsLeft(calls'[c]) = all - (calls[c].done + 1) + whole + 2
      BY <2>2, <2>5 DEF StepsLeft, Whole, Call
    <3>. HIDE DEF whole, all
    <3>. QED
      BY <2>1, <2>5, <3>1
  <2>6. CASE /\ calls[c].stage = "begun" /\ calls[c].done = all
             /\ calls'[c] = [calls[c] EXCEPT !.stage = "reading"]
    <3>1. StepsLeft(calls'[c]) = (whole - 0) + 1
      BY <2>2, <2>6 DEF StepsLeft, Whole, Call, Inv, Gets
    <3>. HIDE DEF whole, all
    <3>. QED
      BY <2>1, <2>6, <3>1
  <2>7. CASE /\ calls[c].stage = "reading" /\ calls'[c] = [calls[c] EXCEPT !.got = @ + 1]
             /\ calls[c].got < calls[c].text.rows /\ calls[c].got < setup.rowCap
    <3>1. StepsLeft(calls'[c]) = (whole - (calls[c].got + 1)) + 1
      BY <2>2, <2>7 DEF StepsLeft, Whole, Call
    <3>2. calls[c].got + 1 <= whole
      BY <2>1, <2>7, RowsAreNumbers, WholeBounds DEF Whole, Inv
    <3>. HIDE DEF whole, all
    <3>. QED
      BY <2>1, <2>7, <3>1, <3>2
  <2>. QED
    BY <2>3, <2>4, <2>5, <2>6, <2>7, StepOn
<1>. QED
  BY <1>1, Invariant, PTL DEF Spec, QueriesAdvance
=============================================================================
