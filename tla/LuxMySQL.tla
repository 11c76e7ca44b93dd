------------------------------- MODULE LuxMySQL -------------------------------
(***************************************************************************)
(* The MySQL wrapper of src/LuxMySQL: class connection (a MYSQL* handle,  *)
(* its state_ and its last result cda_) and class sqlstatement (a         *)
(* MYSQL_STMT* bound to a connection).  One thread drives one connection   *)
(* and a few statements through any sequence of the API calls; the       *)
(* temporary statement that connection::execute builds, runs and destroys *)
(* is one more statement, Tmp, stepped through its stages while nothing    *)
(* else runs.                                                              *)
(*                                                                         *)
(* libmysql is the environment: each of its calls that talks to the       *)
(* server may fail, at most Faults times in a behaviour.  mysql_close      *)
(* detaches the statements of the handle it closes (their later calls     *)
(* fail with CR_SERVER_LOST); mysql_close(NULL), mysql_errno(NULL) and     *)
(* mysql_error(NULL) are harmless, mysql_commit, mysql_rollback and        *)
(* mysql_stmt_init dereference the handle they are given.                 *)
(*                                                                         *)
(* Data is abstracted away: the SQL text, the bound values, the row        *)
(* counts (cda_.rpc) and the messages.  A result code in cda_.rc is 0,   *)
(* -1 or Errno (any code libmysql reported).                             *)
(***************************************************************************)
EXTENDS Integers

CONSTANTS
    Stmts,      \* the application's sqlstatement objects
    Tmp,        \* the sqlstatement local to connection::execute
    MaxParams,  \* MAXPARAMS: the size of params_in_ and params_out_
    Faults      \* bound: libmysql calls that fail in a behaviour

ASSUME Tmp \notin Stmts /\ MaxParams \in Nat \ {0} /\ Faults \in Nat

AllStmts  == Stmts \cup {Tmp}
Positions == 0..MaxParams + 1     \* positions a caller may pass to bindin/bindout
Errno     == 1                  \* stands for any error code libmysql reports

\* struct CDA_DEF, reduced to its result code rc.
Rc ==
    {0, -1, Errno}

VARIABLES
    c,           \* the connection: [state |-> state_, conn |-> conn_ # nullptr, rc |-> cda_.rc]
    st,          \* per statement: state_, handle_, sqlType_, the prepared statement's
                 \* param_count and field_count, maxBindIn_, bind_param_done,
                 \* bind_result_done and cda_.rc
    exec,        \* the stage connection::execute has reached, "idle" outside it
    faults,      \* failures libmysql may still return
    crashed,     \* libmysql was handed a null MYSQL*
    outOfBounds  \* an access to params_in_/params_out_ outside [0, MAXPARAMS)

vars == <<c, st, exec, faults, crashed, outOfBounds>>

\* class connection: state_, whether conn_ is non-null, cda_.
ConnectionState ==
    [state : {0, 1}, conn : BOOLEAN, rc : Rc]

\* class sqlstatement: state_, handle_ (null, or a MYSQL_STMT whose MYSQL is
\* open or was closed), sqlType_, the param_count and field_count of the
\* prepared statement, maxBindIn_, bind_param_done, bind_result_done, cda_.
StatementState ==
    [state : {0, 1}, handle : {"null", "open", "detached"}, sqlType : {0, 1},
     params : 0..1, fields : 0..1, maxBindIn : 0..MaxParams + 1,
     bindIn : BOOLEAN, bindOut : BOOLEAN, rc : Rc]

(***************************************************************************)
(* The environment.                                                       *)
(***************************************************************************)
\* The libmysql calls of one API call that may fail: one of them, or none.
FailAt(points) == {"none"} \cup (IF faults > 0 THEN points ELSE {})
Spend(f) == faults' = IF f = "none" THEN faults ELSE faults - 1

\* mysql_close(conn_): the statements prepared on the handle are detached.
Detach(sts) ==
    [s \in AllStmts |-> IF sts[s].handle = "open" THEN [sts[s] EXCEPT !.handle = "detached"]
                        ELSE sts[s]]

\* Only the statement's owner thread runs: an application call when
\* connection::execute is not running, Tmp's next stage when it is.
Ready(s, stage) == IF s = Tmp THEN exec = stage ELSE exec = "idle"
Advance(s, next) == exec' = IF s = Tmp THEN next ELSE exec
Idle == exec = "idle" /\ ~crashed

(***************************************************************************)
(* connection.                                                            *)
(***************************************************************************)
\* connection::connection()
ConnInitial ==
    [state |-> 0, conn |-> FALSE, rc |-> -1]

\* connection::connectToDb (with setDbOpt and character): nothing when
\* state_ is 1; otherwise mysql_init, mysql_real_connect and
\* mysql_autocommit, closing the handle and clearing conn_ on a failure.
ConnectToDb ==
    /\ Idle /\ c.state = 0
    /\ \E f \in FailAt({"mysql_init", "mysql_real_connect", "mysql_autocommit"}) :
         /\ c' = IF f = "none" THEN [state |-> 1, conn |-> TRUE, rc |-> 0]
                 ELSE [c EXCEPT !.conn = FALSE, !.rc = IF f = "mysql_init" THEN -1 ELSE Errno]
         /\ Spend(f)
    /\ UNCHANGED <<st, exec, crashed, outOfBounds>>

\* connection::rollback: -1 when not open; on a failed mysql_rollback the
\* handle is closed and conn_ cleared, and state_ stays 1.
Rollback ==
    /\ Idle
    /\ \/ c.state = 0 /\ c' = [c EXCEPT !.rc = -1] /\ UNCHANGED <<st, faults, crashed>>
       \/ c.state = 1 /\ ~c.conn /\ crashed' = TRUE /\ UNCHANGED <<c, st, faults>>
       \/ /\ c.state = 1 /\ c.conn
          /\ \E f \in FailAt({"mysql_rollback"}) :
               /\ c' = IF f = "none" THEN [c EXCEPT !.rc = 0]
                       ELSE [c EXCEPT !.conn = FALSE, !.rc = Errno]
               /\ st' = IF f = "none" THEN st ELSE Detach(st)
               /\ Spend(f)
          /\ UNCHANGED crashed
    /\ UNCHANGED <<exec, outOfBounds>>

\* connection::commit: the same shape around mysql_commit.
Commit ==
    /\ Idle
    /\ \/ c.state = 0 /\ c' = [c EXCEPT !.rc = -1] /\ UNCHANGED <<st, faults, crashed>>
       \/ c.state = 1 /\ ~c.conn /\ crashed' = TRUE /\ UNCHANGED <<c, st, faults>>
       \/ /\ c.state = 1 /\ c.conn
          /\ \E f \in FailAt({"mysql_commit"}) :
               /\ c' = IF f = "none" THEN [c EXCEPT !.rc = 0]
                       ELSE [c EXCEPT !.conn = FALSE, !.rc = Errno]
               /\ st' = IF f = "none" THEN st ELSE Detach(st)
               /\ Spend(f)
          /\ UNCHANGED crashed
    /\ UNCHANGED <<exec, outOfBounds>>

\* connection::disconnect (also ~connection): -1 when not open; otherwise
\* rollback(), mysql_close(conn_), conn_ = nullptr, state_ = 0.
Disconnect ==
    /\ Idle
    /\ \/ c.state = 0 /\ c' = [c EXCEPT !.rc = -1] /\ UNCHANGED <<st, faults, crashed>>
       \/ c.state = 1 /\ ~c.conn /\ crashed' = TRUE /\ UNCHANGED <<c, st, faults>>
       \/ /\ c.state = 1 /\ c.conn
          /\ \E f \in FailAt({"mysql_rollback"}) :
               /\ c' = [state |-> 0, conn |-> FALSE, rc |-> IF f = "none" THEN 0 ELSE Errno]
               /\ Spend(f)
          /\ st' = Detach(st)
          /\ UNCHANGED crashed
    /\ UNCHANGED <<exec, outOfBounds>>

\* connection::err_report: -1 when not open, else mysql_errno(conn_).
ConnErrReport(cn) ==
    IF cn.state = 0 THEN [cn EXCEPT !.rc = -1] ELSE [cn EXCEPT !.rc = Errno]

(***************************************************************************)
(* sqlstatement.                                                          *)
(***************************************************************************)
\* sqlstatement::initial (and the constructors before connect): state_ 0,
\* handle_ nullptr, cda_.rc -1.  sqlType_ and maxBindIn_ are not
\* initialised: they hold whatever the storage held, here either kind of
\* statement and a maxBindIn_ of 0 or one past the end of params_in_.
StmtInitial ==
    [state : {0}, handle : {"null"}, sqlType : {0, 1}, params : {0}, fields : {0},
     maxBindIn : {0, MaxParams + 1}, bindIn : {FALSE}, bindOut : {FALSE}, rc : {-1}]

\* sqlstatement::err_report on the statement record r: -1 when not
\* connected; otherwise clear conn_->cda_, take mysql_stmt_errno, and let
\* conn_->err_report() fill the connection's cda_.
StmtErrReport(s, r) ==
    IF r.state = 0 THEN st' = [st EXCEPT ![s] = [r EXCEPT !.rc = -1]] /\ UNCHANGED c
    ELSE /\ st' = [st EXCEPT ![s] = [r EXCEPT !.rc = Errno]]
         /\ c' = ConnErrReport(c)

\* sqlstatement::connect(conn): nothing when already connected; -1 when the
\* connection is not open; otherwise mysql_stmt_init(conn_->conn_).
StmtConnect(s) ==
    /\ Ready(s, "connect") /\ ~crashed
    /\ st[s].state = 0
    /\ \/ /\ c.state = 0
          /\ st' = [st EXCEPT ![s].rc = -1] /\ Advance(s, "prepare")
          /\ UNCHANGED <<c, faults, crashed>>
       \/ c.state = 1 /\ ~c.conn /\ crashed' = TRUE /\ UNCHANGED <<c, st, faults, exec>>
       \/ /\ c.state = 1 /\ c.conn
          /\ \E f \in FailAt({"mysql_stmt_init"}) :
               /\ Spend(f)
               /\ IF f = "none"
                  THEN st' = [st EXCEPT ![s] = [@ EXCEPT !.state = 1, !.handle = "open", !.rc = 0]]
                       /\ UNCHANGED c
                  ELSE StmtErrReport(s, [st[s] EXCEPT !.rc = 0])
          /\ Advance(s, "prepare")
          /\ UNCHANGED crashed
    /\ UNCHANGED outOfBounds

\* sqlstatement::disconnect (also ~sqlstatement): nothing when not
\* connected; otherwise mysql_stmt_close(handle_), state_ 0, handle_
\* nullptr, cda_.rc -1.  For Tmp this ends connection::execute.
StmtDisconnect(s) ==
    /\ Ready(s, "destroy") /\ ~crashed
    /\ \/ st[s].state = 0 /\ s = Tmp /\ UNCHANGED st
       \/ /\ st[s].state = 1
          /\ st' = [st EXCEPT ![s] = [@ EXCEPT !.state = 0, !.handle = "null", !.rc = -1]]
    /\ Advance(s, "idle")
    /\ UNCHANGED <<c, faults, crashed, outOfBounds>>

\* sqlstatement::execute(fmt): prepare, and execute() only if it succeeded.
ExecuteFmtNext(ok) ==
    IF ok THEN "execute" ELSE "destroy"

\* sqlstatement::prepare(fmt) of a statement of the given kind with np
\* placeholders: -1 when not connected; mysql_stmt_prepare; then sqlType_
\* from the leading SELECT, params_in_/params_out_ cleared, maxBindIn_ 0.
\* (The rewriting of the SQL text for Oracle compatibility is data.)
Prepare(s, kind, np) ==
    /\ Ready(s, "prepare") /\ ~crashed
    /\ LET r == [st[s] EXCEPT !.rc = 0] IN
       \/ /\ r.state = 0
          /\ st' = [st EXCEPT ![s] = [r EXCEPT !.rc = -1]]
          /\ Advance(s, ExecuteFmtNext(FALSE))
          /\ UNCHANGED <<c, faults>>
       \/ /\ r.state = 1
          /\ \E f \in FailAt({"mysql_stmt_prepare"}) :
               /\ Spend(f)
               /\ IF f = "none" /\ r.handle = "open"
                  THEN /\ st' = [st EXCEPT ![s] =
                                   [r EXCEPT !.sqlType = IF kind = "select" THEN 0 ELSE 1,
                                             !.params = np,
                                             !.fields = IF kind = "select" THEN 1 ELSE 0,
                                             !.maxBindIn = 0, !.bindIn = FALSE, !.bindOut = FALSE]]
                       /\ Advance(s, ExecuteFmtNext(TRUE))
                       /\ UNCHANGED c
                  ELSE StmtErrReport(s, r) /\ Advance(s, ExecuteFmtNext(FALSE))
    /\ UNCHANGED <<crashed, outOfBounds>>

\* sqlstatement::bindin(position, value[, len]), every overload: the bound
\* check sets cda_.rc to -1 but does not return, so params_in_[position-1]
\* is written whatever the position; maxBindIn_ grows to position.
BindIn(s, pos) ==
    /\ Idle /\ st[s].state = 1
    /\ st' = [st EXCEPT ![s] =
                [@ EXCEPT !.rc = IF pos < 1 \/ pos >= MaxParams \/ pos > st[s].params THEN -1 ELSE @,
                          !.maxBindIn = IF pos > @ THEN pos ELSE @]]
    /\ outOfBounds' = (outOfBounds \/ pos < 1 \/ pos > MaxParams)
    /\ UNCHANGED <<c, exec, faults, crashed>>

\* sqlstatement::bindout(position, value[, len]), every overload: the same
\* unreturned bound check against field_count, then params_out_[position-1].
BindOut(s, pos) ==
    /\ Idle /\ st[s].state = 1
    /\ st' = [st EXCEPT ![s].rc = IF pos < 1 \/ pos >= MaxParams \/ pos > st[s].fields
                                  THEN -1 ELSE @]
    /\ outOfBounds' = (outOfBounds \/ pos < 1 \/ pos > MaxParams)
    /\ UNCHANGED <<c, exec, faults, crashed>>

\* The libmysql calls of sqlstatement::execute() that may fail.
ExecFails(r) ==
    FailAt({"mysql_stmt_execute"}
           \cup (IF r.params > 0 /\ ~r.bindIn THEN {"mysql_stmt_bind_param"} ELSE {})
           \cup (IF r.fields > 0 /\ ~r.bindOut THEN {"mysql_stmt_bind_result"} ELSE {}))

\* sqlstatement::execute(): -1 when not connected; mysql_stmt_bind_param
\* and mysql_stmt_bind_result once per prepare; the loop over the first
\* maxBindIn_ entries of params_in_ that marks empty strings NULL; then
\* mysql_stmt_execute, which fails on a detached statement.  Each failure
\* goes through err_report().  (The affected-row count is data.)
Execute(s) ==
    /\ Ready(s, "execute") /\ ~crashed
    /\ Advance(s, "destroy")
    /\ LET r == [st[s] EXCEPT !.rc = 0] IN
       \/ /\ r.state = 0
          /\ st' = [st EXCEPT ![s] = [r EXCEPT !.rc = -1]]
          /\ UNCHANGED <<c, faults, outOfBounds>>
       \/ /\ r.state = 1
          /\ \E f \in ExecFails(r) :
               LET r1  == [r EXCEPT !.bindIn = @ \/ r.params > 0]
                   r2  == [r1 EXCEPT !.bindOut = @ \/ r.fields > 0]
                   ran == f \notin {"mysql_stmt_bind_param", "mysql_stmt_bind_result"}
               IN  /\ Spend(f)
                   /\ outOfBounds' = (outOfBounds \/ (ran /\ r.maxBindIn > MaxParams))
                   /\ CASE f = "mysql_stmt_bind_param"  -> StmtErrReport(s, r)
                        [] f = "mysql_stmt_bind_result" -> StmtErrReport(s, r1)
                        [] f = "mysql_stmt_execute" \/ r.handle = "detached" ->
                                StmtErrReport(s, r2)
                        [] OTHER -> st' = [st EXCEPT ![s] = r2] /\ UNCHANGED c
    /\ UNCHANGED crashed

\* sqlstatement::next(): -1 when not connected; the last result when it
\* failed; -1 for a statement that is not a query; then mysql_stmt_fetch,
\* whose error goes through err_report().  A row, a truncated row and
\* MYSQL_NO_DATA change only data (cda_.rpc), so those steps are not shown.
StmtNext(s) ==
    /\ Idle
    /\ \/ st[s].state = 0 /\ st' = [st EXCEPT ![s].rc = -1] /\ UNCHANGED <<c, faults>>
       \/ /\ st[s].state = 1 /\ st[s].rc = 0 /\ st[s].sqlType # 0
          /\ st' = [st EXCEPT ![s].rc = -1] /\ UNCHANGED <<c, faults>>
       \/ /\ st[s].state = 1 /\ st[s].rc = 0 /\ st[s].sqlType = 0
          /\ \E f \in FailAt({"mysql_stmt_fetch"}) :
               /\ f # "none" \/ st[s].handle = "detached"
               /\ Spend(f)
               /\ StmtErrReport(s, st[s])
    /\ UNCHANGED <<exec, crashed, outOfBounds>>

\* connection::execute(fmt): sqlstatement stmt(this) (initial, then
\* connect), stmt.execute(sql_), and the statement's destructor; the
\* stages run as StmtConnect, Prepare, Execute and StmtDisconnect of Tmp.
ConnExecute ==
    /\ Idle
    /\ \E r \in StmtInitial : st' = [st EXCEPT ![Tmp] = r]
    /\ exec' = "connect"
    /\ UNCHANGED <<c, faults, crashed, outOfBounds>>

Init ==
    /\ c = ConnInitial
    /\ st \in [AllStmts -> StmtInitial]
    /\ exec = "idle"
    /\ faults = Faults
    /\ crashed = FALSE
    /\ outOfBounds = FALSE

Next ==
    \/ ConnectToDb \/ Commit \/ Rollback \/ Disconnect \/ ConnExecute
    \/ \E s \in AllStmts :
         \/ StmtConnect(s) \/ Execute(s) \/ StmtDisconnect(s)
         \/ \E kind \in {"select", "dml"}, np \in 0..1 : Prepare(s, kind, np)
    \/ \E s \in Stmts :
         \/ StmtNext(s)
         \/ \E pos \in Positions : BindIn(s, pos) \/ BindOut(s, pos)

Spec == Init /\ [][Next]_vars

(***************************************************************************)
(* Properties.                                                            *)
(***************************************************************************)
TypeOK ==
    /\ c \in ConnectionState
    /\ st \in [AllStmts -> StatementState]
    /\ exec \in {"idle", "connect", "prepare", "execute", "destroy"}
    /\ faults \in 0..Faults
    /\ crashed \in BOOLEAN /\ outOfBounds \in BOOLEAN

(* connection::commit and connection::rollback close the handle and set   *)
(* conn_ to nullptr when libmysql fails, but leave state_ at 1.  Every    *)
(* later call that trusts state_ (commit, rollback, disconnect and so the *)
(* destructor, sqlstatement::connect) must then never hand libmysql that  *)
(* null handle.                                                           *)
NoNullHandle == ~crashed

====
