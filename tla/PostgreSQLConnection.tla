------------------------ MODULE PostgreSQLConnection ------------------------
(* Fmi::Database::PostgreSQLConnection (PostgreSQLConnectionImpl.cpp, .h): one thread's
   connection, which is lost at any time and comes back with the statements and the
   encoding that were set before; operations are tried again on the new connection.
   Another thread may cancel.

   The server, and libpqxx, are what the code relies on: a session with its prepared
   statements and its encoding, which ends with its connection, and a transaction
   object that must not outlive the connection it was made for.  An encoding that was
   set in a transaction is undone by a rollback, a statement prepared in one is not;
   the server may fail anything, as it does all but the end of a transaction once a
   query of it has failed.                                                         *)
EXTENDS Naturals

CONSTANTS
  Statements,       \* names of statements to prepare
  ClientEncodings,  \* what setClientEncoding() may be given
  Refused,          \* those of them that the server does not know
  DefaultEncoding,
  QueryRetryLimit,  \* queryRetryLimit
  ReconnectLimits,  \* reconnection attempts of open(), after a failure and else
  ReconnectDisabled \* reconnectDisabled

ASSUME ConnectionAssumption ==
  /\ Refused \subseteq ClientEncodings
  /\ DefaultEncoding \notin ClientEncodings
  /\ QueryRetryLimit \in Nat
  /\ ReconnectLimits \in [{"afterFailure", "otherwise"} -> Nat]
  /\ ReconnectDisabled \in BOOLEAN

VARIABLES
  itsConnection,   \* "null", "open", or "lost" and not yet found to be
  itsTransaction,  \* "none", of the present connection, or of one that was destroyed
  prepared_sqls, itsEncoding, last_failed, itsCanceled,
  session,         \* the server's side of an open connection; and, as its history, the
                   \* statements that could not be unprepared, and whether the last
                   \* encoding that was recorded was not set or was rolled back
  connPc,          \* where the thread is
  op,              \* the operation it is in: what, and on what
  tries,           \* attempts left
  ranBeside        \* history: a query ran outside of the transaction that was active

settings == <<prepared_sqls, itsEncoding>>
connectionVars == <<itsConnection, itsTransaction, settings, last_failed, itsCanceled,
                    session, connPc, op, tries, ranBeside>>

NoOp == [what |-> "none", arg |-> "none"]
NewSession(statements, encoding) ==
  [prepared |-> statements, encoding |-> encoding, beforeTransaction |-> encoding,
   leftover |-> {}, astray |-> FALSE]
NoSession == NewSession({}, DefaultEncoding)

Ops ==
  {[what |-> w, arg |-> "none"] : w \in {"query", "nontransaction", "start", "quote"}}
  \cup {[what |-> "register", arg |-> n] : n \in Statements}
  \cup {[what |-> "setEncoding", arg |-> e] : e \in ClientEncodings}

\* "undefined": a transaction of a destroyed connection was used.
ConnPcs == {"idle", "attempting", "waiting", "executing", "opening", "pausing", "undefined"}

ConnectionInit ==
  /\ itsConnection = "null" /\ itsTransaction = "none"
  /\ prepared_sqls = {} /\ itsEncoding = DefaultEncoding
  /\ last_failed = FALSE /\ itsCanceled = FALSE
  /\ session = NoSession
  /\ connPc = "idle" /\ op = NoOp /\ tries = 0
  /\ ranBeside = FALSE

Limit(n) == IF ReconnectDisabled THEN 0 ELSE n

\* The operation returns, or throws.
Done ==
  /\ connPc' = "idle" /\ op' = NoOp /\ tries' = 0

\* The connection is destroyed, and a transaction of it is left as it is.
ConnectionReset ==
  /\ itsConnection' = "null"
  /\ session' = NoSession
  /\ itsTransaction' = IF itsTransaction = "current" THEN "dangling" ELSE itsTransaction

-----------------------------------------------------------------------------
(* open_internal() and finalize_connection() *)

\* mutant: the statements are not prepared again
NothingPrepared == {}

PreparedAgain == prepared_sqls

Connected ==
  /\ itsEncoding \notin Refused
  /\ itsConnection' = "open"
  /\ session' = NewSession(PreparedAgain, itsEncoding)

\* open(), reopen(): the old connection is closed before the first attempt.
OpenCalled ==
  /\ connPc = "idle"
  /\ itsTransaction = "dangling" => itsConnection = "null"
  /\ connPc' = "opening"
  /\ op' = [what |-> "open", arg |-> "none"]
  /\ tries' = Limit(ReconnectLimits[IF last_failed THEN "afterFailure" ELSE "otherwise"])
  /\ itsCanceled' = FALSE
  /\ last_failed' = FALSE
  /\ itsConnection' = "null"
  /\ session' = NoSession
  /\ itsTransaction' = IF itsConnection = "null" THEN itsTransaction ELSE "none"
  /\ UNCHANGED <<settings, ranBeside>>

Opens ==
  /\ connPc = "opening"
  /\ Connected
  /\ last_failed' = FALSE
  /\ Done
  /\ UNCHANGED <<itsTransaction, settings, itsCanceled, ranBeside>>

\* The encoding is refused, or a statement, or the query that is sent first, while the
\* connection is not broken: it is given up, and there is no further attempt.
OpenRefused ==
  /\ connPc = "opening"
  /\ Done
  /\ UNCHANGED <<itsConnection, itsTransaction, settings, last_failed, itsCanceled, session,
                 ranBeside>>

OpenFails ==
  /\ connPc = "opening"
  /\ last_failed' = TRUE
  /\ IF tries > 0 THEN connPc' = "pausing" /\ UNCHANGED <<op, tries>> ELSE Done
  /\ UNCHANGED <<itsConnection, itsTransaction, settings, itsCanceled, session, ranBeside>>

OpensAgain ==
  /\ connPc = "pausing"
  /\ connPc' = "opening"
  /\ tries' = tries - 1
  /\ UNCHANGED <<itsConnection, itsTransaction, settings, last_failed, itsCanceled, session,
                 op, ranBeside>>

Close ==
  /\ connPc = "idle"
  /\ itsTransaction # "dangling"
  /\ itsConnection' = "null" /\ itsTransaction' = "none" /\ session' = NoSession
  /\ UNCHANGED <<settings, last_failed, itsCanceled, connPc, op, tries, ranBeside>>
-----------------------------------------------------------------------------
(* retry_on_failure() *)

\* Inside a transaction, exec_prepared() and exec_params() are tried less often than execute().
RetryLimits(o) ==
  CASE o.what = "query" -> IF itsTransaction = "none" THEN {1} ELSE {1, QueryRetryLimit}
    [] OTHER -> {QueryRetryLimit}

\* Transaction's constructor tests that there is none.
OpCalled(o) ==
  /\ connPc = "idle"
  /\ o.what = "start" => itsTransaction = "none"
  /\ connPc' = "attempting"
  /\ op' = o
  /\ \E limit \in RetryLimits(o) : tries' = Limit(limit)
  /\ last_failed' = FALSE
  /\ UNCHANGED <<itsConnection, itsTransaction, settings, itsCanceled, session, ranBeside>>

HasConnection ==
  /\ connPc = "attempting"
  /\ itsConnection # "null"
  /\ connPc' = "executing"
  /\ UNCHANGED <<itsConnection, itsTransaction, settings, last_failed, itsCanceled, session,
                 op, tries, ranBeside>>

Reconnects ==
  /\ connPc = "attempting"
  /\ itsConnection = "null"
  /\ Connected
  /\ itsCanceled' = FALSE
  /\ last_failed' = FALSE
  /\ connPc' = "executing"
  /\ UNCHANGED <<itsTransaction, settings, op, tries, ranBeside>>

\* What setClientEncoding() records, whether it succeeds or not.
EncodingRecorded ==
  itsEncoding' = IF op.what = "setEncoding" THEN op.arg ELSE itsEncoding

ReconnectRefused ==
  /\ connPc = "attempting"
  /\ itsConnection = "null"
  /\ itsCanceled' = FALSE
  /\ last_failed' = FALSE
  /\ Done
  /\ EncodingRecorded
  /\ UNCHANGED <<itsConnection, itsTransaction, prepared_sqls, session, ranBeside>>

\* mutant: the attempts are not counted
Uncounted == tries

OneTryLess == tries - 1

\* mutant: one attempt too many
NotExceeded == tries >= 0

MayTryAgain == tries > 0

\* libpqxx refuses a second transaction on a connection that has one.
RefusedByLibrary == op.what = "nontransaction" /\ itsTransaction = "current"

\* broken_connection: try again after a while, or give up.
Broken ==
  /\ \/ connPc = "attempting" /\ itsConnection = "null"
     \/ connPc = "executing" /\ itsConnection = "lost" /\ ~RefusedByLibrary
  /\ last_failed' = TRUE
  /\ IF MayTryAgain
     THEN /\ ConnectionReset
          /\ connPc' = "waiting"
          /\ tries' = OneTryLess
          /\ UNCHANGED <<op, itsEncoding>>
     ELSE /\ Done
          /\ EncodingRecorded
          /\ UNCHANGED <<itsConnection, itsTransaction, session>>
  /\ itsCanceled' = IF connPc = "attempting" THEN FALSE ELSE itsCanceled
  /\ UNCHANGED <<prepared_sqls, ranBeside>>

\* Nobody notifies cond: cancel() does so only while there is a connection.
WaitIsOver ==
  /\ connPc = "waiting"
  /\ connPc' = "attempting"
  /\ UNCHANGED <<itsConnection, itsTransaction, settings, last_failed, itsCanceled, session,
                 op, tries, ranBeside>>
-----------------------------------------------------------------------------
(* The operations on an open connection *)

Executing(what) == connPc = "executing" /\ op.what = what

OnConnection == itsConnection = "open"

\* In the transaction, or in one of its own; quote() needs no more than the connection.
Queries ==
  /\ Executing("query") \/ Executing("quote")
  /\ OnConnection
  /\ op.what = "query" => itsTransaction # "dangling"
  /\ Done
  /\ UNCHANGED <<itsConnection, itsTransaction, settings, last_failed, itsCanceled, session,
                 ranBeside>>

QueriesBeside ==
  /\ Executing("nontransaction")
  /\ OnConnection
  /\ ~RefusedByLibrary
  /\ ranBeside' = (ranBeside \/ itsTransaction # "none")
  /\ Done
  /\ UNCHANGED <<itsConnection, itsTransaction, settings, last_failed, itsCanceled, session>>

Begins ==
  /\ Executing("start")
  /\ OnConnection
  /\ itsTransaction' = "current"
  /\ Done
  /\ UNCHANGED <<itsConnection, settings, last_failed, itsCanceled, session, ranBeside>>

Prepares ==
  /\ Executing("register")
  /\ OnConnection
  /\ op.arg \notin session.prepared
  /\ session' = [session EXCEPT !.prepared = @ \cup {op.arg}]
  /\ prepared_sqls' = prepared_sqls \cup {op.arg}
  /\ Done
  /\ UNCHANGED <<itsConnection, itsTransaction, itsEncoding, last_failed, itsCanceled, ranBeside>>

Encodes ==
  /\ Executing("setEncoding")
  /\ OnConnection
  /\ op.arg \notin Refused
  /\ session' = [session EXCEPT
                   !.encoding = op.arg,
                   !.beforeTransaction = IF itsTransaction = "current" THEN @ ELSE op.arg,
                   !.astray = FALSE]
  /\ EncodingRecorded
  /\ Done
  /\ UNCHANGED <<itsConnection, itsTransaction, prepared_sqls, last_failed, itsCanceled, ranBeside>>

\* Any other failure than a lost connection: the SQL is wrong, or cancelled, or refused,
\* or comes after another failure in the transaction.  An encoding is recorded although
\* the session keeps the one it had.
OpFails ==
  /\ connPc = "executing"
  /\ OnConnection \/ RefusedByLibrary
  /\ op.what = "query" => itsTransaction # "dangling"
  /\ session' = [session EXCEPT !.astray = @ \/ op.what = "setEncoding"]
  /\ EncodingRecorded
  /\ Done
  /\ UNCHANGED <<itsConnection, itsTransaction, prepared_sqls, last_failed, itsCanceled, ranBeside>>

\* The thread is interrupted, inside open_internal() if it has no connection.
Interrupted ==
  /\ connPc \in {"attempting", "waiting", "opening", "pausing"}
  /\ Done
  /\ \/ UNCHANGED <<last_failed, itsCanceled>>
     \/ /\ connPc = "attempting" /\ itsConnection = "null"
        /\ last_failed' = FALSE /\ itsCanceled' = FALSE
  /\ UNCHANGED <<itsConnection, itsTransaction, settings, session, ranBeside>>

\* unregister_prepared_statement(): out of the map first, and no second attempt when the
\* session does not let go of the statement.
Unregister(n) ==
  /\ connPc = "idle"
  /\ prepared_sqls' = prepared_sqls \ {n}
  /\ \/ session' = [session EXCEPT !.prepared = @ \ {n}, !.leftover = @ \ {n}]
     \/ session' = [session EXCEPT !.leftover = @ \cup ({n} \cap session.prepared)]
  /\ UNCHANGED <<itsConnection, itsTransaction, itsEncoding, last_failed, itsCanceled, connPc,
                 op, tries, ranBeside>>

\* commit(), rollback(), ~Transaction(): whatever happens, the transaction is over; it was
\* committed, or rolled back, and then the encoding is again what it was before.
EndsTransaction ==
  /\ connPc = "idle"
  /\ itsTransaction = "current"
  /\ itsTransaction' = "none"
  /\ \E e \in {session.encoding, session.beforeTransaction} :
       session' = [session EXCEPT !.encoding = e, !.beforeTransaction = e,
                                  !.astray = @ \/ e # session.encoding]
  /\ UNCHANGED <<itsConnection, settings, last_failed, itsCanceled, connPc, op, tries, ranBeside>>

\* The transaction of a destroyed connection is queried, committed or destroyed.
UsesDangling ==
  /\ itsTransaction = "dangling"
  /\ connPc = "idle" \/ Executing("query")
  /\ connPc' = "undefined"
  /\ op' = NoOp /\ tries' = 0
  /\ UNCHANGED <<itsConnection, itsTransaction, settings, last_failed, itsCanceled, session,
                 ranBeside>>
-----------------------------------------------------------------------------
ConnectionIsLost ==
  /\ itsConnection = "open"
  /\ itsConnection' = "lost"
  /\ session' = NoSession
  /\ UNCHANGED <<itsTransaction, settings, last_failed, itsCanceled, connPc, op, tries, ranBeside>>

\* By another thread; what becomes of the query is OpFails.
Cancel ==
  /\ itsConnection # "null"
  /\ itsCanceled' = TRUE
  /\ UNCHANGED <<itsConnection, itsTransaction, settings, last_failed, session, connPc, op,
                 tries, ranBeside>>

ConnectionStep ==
  \/ Opens \/ OpenRefused \/ OpenFails \/ OpensAgain
  \/ HasConnection \/ Reconnects \/ ReconnectRefused \/ Broken \/ WaitIsOver
  \/ Queries \/ QueriesBeside \/ Begins \/ Prepares \/ Encodes \/ OpFails \/ UsesDangling

ConnectionNext ==
  \/ OpenCalled
  \/ Close
  \/ \E o \in Ops : OpCalled(o)
  \/ ConnectionStep
  \/ Interrupted
  \/ \E n \in Statements : Unregister(n)
  \/ EndsTransaction
  \/ ConnectionIsLost
  \/ Cancel

\* The thread runs on, and its waits are over some day.
ConnectionFairness == WF_connectionVars(connPc # "idle" /\ ConnectionStep)

ConnectionSpec == ConnectionInit /\ [][ConnectionNext]_connectionVars /\ ConnectionFairness
-----------------------------------------------------------------------------
ConnectionTypeOK ==
  /\ itsConnection \in {"null", "open", "lost"}
  /\ itsTransaction \in {"none", "current", "dangling"}
  /\ prepared_sqls \subseteq Statements
  /\ itsEncoding \in ClientEncodings \cup {DefaultEncoding}
  /\ last_failed \in BOOLEAN /\ itsCanceled \in BOOLEAN
  /\ session \in [prepared : SUBSET Statements,
                  encoding : ClientEncodings \cup {DefaultEncoding},
                  beforeTransaction : ClientEncodings \cup {DefaultEncoding},
                  leftover : SUBSET Statements,
                  astray : BOOLEAN]
  /\ connPc \in ConnPcs
  /\ op \in Ops \cup {NoOp, [what |-> "open", arg |-> "none"]}
  /\ tries \in Nat
  /\ ranBeside \in BOOLEAN

(* Whatever connections were lost, and at which of the steps, the session behind an
   open connection has the statements that are registered, and the encoding that is
   recorded: a new session exactly these.  Later it may have a statement more, which
   it did not let go of when it was unregistered, and another encoding, if it did not
   take one or a rollback undid it: nothing that failed in an earlier session, and no
   other step, makes the two differ (PostgreSQLConnectionImpl.cpp:289, 344-364, 217-255). *)
SessionRestored ==
  itsConnection = "open" =>
    /\ prepared_sqls \subseteq session.prepared
    /\ session.prepared \ prepared_sqls \subseteq session.leftover
    /\ session.encoding = itsEncoding \/ session.astray

(* An operation ends, though the server may be gone for good, or lose every connection
   it makes (PostgreSQLConnectionImpl.h:163-206, .cpp:280-312).                    *)
OperationsEnd == connPc # "idle" ~> connPc \in {"idle", "undefined"}

(* test/PostgreSQLConnectionTest.cpp:268 of executeNonTransaction(): "Transaction is
   active: should fail".                                                           *)
NonTransactionFailsInTransaction == ~ranBeside
=============================================================================
