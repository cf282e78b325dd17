-------------------------------- MODULE Raw --------------------------------
(***************************************************************************)
(* raw (happ_raw.cpp): the connector to a single Redis server, with its    *)
(* one connection, its retry queue and its connect timeout, on top of      *)
(* connection, cmd_exec and hiredis.  The application calls exec(),        *)
(* reset(), release_connection() and proc(), the first three also from     *)
(* inside its callbacks; the event loop delivers what the network does.    *)
(*                                                                         *)
(* Time is counted in seconds: the retry interval is a whole number of     *)
(* seconds (set_timer_interval(Interval, 0)), so usec is always 0.  The    *)
(* clock handed to proc() never goes back.                                 *)
(***************************************************************************)
EXTENDS Connection, FiniteSets

CONSTANTS
  Interval,           \* conf_.timer_interval_sec; 0: no timer
  ConnTimeout,        \* conf_.timer_timeout_sec; 0: no connect timeout
  Auth,               \* a password or an auth_fn is set
  MaxTime,            \* bound: the last second proc() is called with
  QuietAfter,         \* bound: after that second no exec() and no broken connection
  Env                 \* what the environment may do, see EnvChoices

\* What an application and a network may do besides sending commands,
\* getting replies and losing established connections.
EnvChoices ==
  { "connect_failed",   \* an asynchronous connect fails
    "connect_refused",  \* redisAsyncConnect itself fails
    "bad_format",       \* formatting a command fails
    "connect",          \* the application calls make_connection() itself
    "reset_idle",       \* reset() while connected and nothing is outstanding
    "reset_busy",       \* reset() at any time, also in a callback
    "release_idle",     \* release_connection(true) while nothing is outstanding
    "release_busy" }    \* release_connection(true) at any time

ASSUME RawAssumption ==
  /\ Interval \in Nat /\ ConnTimeout \in Nat
  /\ Auth \in BOOLEAN
  /\ MaxTime \in Nat /\ QuietAfter \in Nat
  /\ Env \subseteq EnvChoices

VARIABLES
  conn_,              \* the connection object conn_ points to, 0 if none
  last_update,        \* timer_actions_.last_update_sec; 0: proc() not called
  timer_pending,      \* timer_actions_.timer_pending
  timer_conn,         \* timer_actions_.timer_conn
  now,                \* the application's clock
  ncmd, nconn,        \* how many commands and connections have been made
  notified            \* ghost: the events reported about each connection

rawVars == <<conn_, last_update, timer_pending, timer_conn, now, ncmd, nconn, notified>>
vars == <<stackVars, cmdVars, hiredisVars, connVars, rawVars>>

Events == {"on_connect", "connected", "failed", "disconnected"}
Delay  == [at : Nat, cmd : CmdIds]

TypeOK ==
  /\ RuntimeTypeOK /\ CmdTypeOK /\ HiredisTypeOK /\ ConnTypeOK
  /\ conn_ \in ConnIds \cup {0}
  /\ last_update \in Nat
  /\ timer_pending \in Seq(Delay)
  /\ timer_conn \in [sequence : Nat, timeout : Nat]
  /\ now \in Nat
  /\ ncmd \in 0 .. MaxCmds /\ nconn \in 0 .. MaxConns
  /\ notified \in [ConnIds -> SUBSET Events]

NoTimer == [sequence |-> 0, timeout |-> 0]

Init ==
  /\ RuntimeInit /\ CmdInit /\ HiredisInit /\ ConnInit
  /\ conn_ = 0
  /\ last_update = 0
  /\ timer_pending = <<>>
  /\ timer_conn = NoTimer
  /\ now = 0
  /\ ncmd = 0 /\ nconn = 0
  /\ notified = [k \in ConnIds |-> {}]

is_timer_available == Interval > 0
is_timer_active    == last_update # 0 /\ is_timer_available

Notify(k, e) == notified' = [notified EXCEPT ![k] = @ \cup {e}]

-----------------------------------------------------------------------------
(* exec, retry and their helpers                                           *)

\* call_cmd followed by destroy_cmd: how every failure in raw ends.
Fail(c, code) == CallBack(c, code, "null", <<F("destroy_cmd", c, 0, "none")>>)

\* raw::destroy_cmd: a command that was never called back is called back with
\* UNKNOWD before it is destroyed.
destroy_cmd ==
  /\ At("destroy_cmd")
  /\ CallBack(Top.c, "UNKNOWD", "null", <<F("destroy", Top.c, 0, "none")>>)
  /\ UNCHANGED <<hiredisVars, connVars, rawVars>>

\* exec(callback, ...): the application creates a command and sends it.
UserExec ==
  /\ InUser
  /\ ncmd < MaxCmds
  /\ now <= QuietAfter
  /\ ncmd' = ncmd + 1
  /\ create(ncmd + 1)
  /\ \/ Call(<<F("exec", ncmd + 1, 0, "none")>>)
     \/ /\ "bad_format" \in Env
        /\ Call(<<F("destroy_cmd", ncmd + 1, 0, "none")>>)
  /\ UNCHANGED <<hiredisVars, connVars, conn_, last_update, timer_pending,
                 timer_conn, now, nconn, notified>>

\* raw::exec(cmd) when the TTL is used up, or on the existing connection.
exec ==
  LET c == Top.c IN
  /\ At("exec")
  /\ IF ttl_[c] = 0 THEN Fail(c, "TTL")
     ELSE /\ conn_ # 0
          /\ Continue(<<F("exec_conn", c, conn_, "none")>>)
          /\ UNCHANGED cmdVars
  /\ UNCHANGED <<hiredisVars, connVars, rawVars>>

\* raw::make_connection where there is no connection and redisAsyncConnect
\* succeeds.  The AUTH command, if one is needed, is the first one sent.
make_connection(k) ==
  /\ redisAsyncConnect(k)
  /\ set_connecting(k)
  /\ conn_' = k
  /\ nconn' = k
  /\ timer_conn' = IF ConnTimeout > 0 /\ is_timer_active
                   THEN [sequence |-> seq_alloc + 2, timeout |-> last_update + ConnTimeout]
                   ELSE timer_conn
  /\ IF Auth THEN create(AuthCmd(k)) ELSE UNCHANGED cmdVars

\* Mutant: AUTH is sent after on_connect.
ConnectFramesAuthLate(k) ==
  <<F("user", 0, k, "on_connect")>>
  \o (IF Auth THEN <<F("exec_conn", AuthCmd(k), k, "none")>> ELSE <<>>)

\* What follows in make_connection: AUTH is sent and on_connect reported.
ConnectFrames(k) ==
  (IF Auth THEN <<F("exec_conn", AuthCmd(k), k, "none")>> ELSE <<>>)
  \o <<F("user", 0, k, "on_connect")>>

\* make_connection() called by the application.  If the AUTH command cannot be
\* formatted it returns nullptr, and the connection stays without on_connect.
UserConnect ==
  LET k == nconn + 1 IN
  /\ InUser
  /\ "connect" \in Env
  /\ conn_ = 0 /\ nconn < MaxConns
  /\ make_connection(k)
  /\ \/ Call(ConnectFrames(k)) /\ Notify(k, "on_connect")
     \/ /\ Auth /\ "bad_format" \in Env
        /\ Call(<<F("destroy_cmd", AuthCmd(k), 0, "none")>>)
        /\ UNCHANGED notified
  /\ UNCHANGED <<last_update, timer_pending, now, ncmd>>

\* raw::exec(cmd) without a connection: connect, then send.
exec_connect ==
  LET c == Top.c
      k == nconn + 1
  IN
  /\ At("exec")
  /\ ttl_[c] # 0 /\ conn_ = 0 /\ nconn < MaxConns
  /\ make_connection(k)
  /\ Continue(ConnectFrames(k) \o <<F("exec_conn", c, k, "none")>>)
  /\ Notify(k, "on_connect")
  /\ UNCHANGED <<last_update, timer_pending, now, ncmd>>

\* The AUTH command cannot be formatted: the command fails, too.
exec_auth_format_failed ==
  LET c == Top.c
      k == nconn + 1
  IN
  /\ At("exec")
  /\ ttl_[c] # 0 /\ conn_ = 0 /\ nconn < MaxConns
  /\ Auth /\ "bad_format" \in Env
  /\ make_connection(k)
  /\ Continue(<<F("destroy_cmd", AuthCmd(k), 0, "none"), F("exec_failed", c, 0, "none")>>)
  /\ UNCHANGED <<last_update, timer_pending, now, ncmd, notified>>

\* redisAsyncConnect fails (it also "fails" when the bound on connections is
\* reached): the command fails.
exec_connect_failed ==
  /\ \/ /\ At("exec")
        /\ ttl_[Top.c] # 0 /\ conn_ = 0
        /\ "connect_refused" \in Env \/ nconn = MaxConns
     \/ At("exec_failed")
  /\ Fail(Top.c, "CONNECTION")
  /\ UNCHANGED <<hiredisVars, connVars, rawVars>>

\* Mutants: a try costs two, or nothing.
SpendTtlTwice(c) == ttl_[c] > 0 /\ ttl_' = [ttl_ EXCEPT ![c] = @ - 2] /\ UNCHANGED cmd_st
SpendNoTtl(c)    == ttl_[c] > 0 /\ UNCHANGED <<ttl_, cmd_st>>

\* raw::exec(conn, cmd) costs one TTL.  The connection takes the command,
SpendTtl(c) == ttl_[c] > 0 /\ ttl_' = [ttl_ EXCEPT ![c] = @ - 1] /\ UNCHANGED cmd_st

exec_conn ==
  /\ At("exec_conn")
  /\ redis_cmd_result(Top.k) = "OK"
  /\ SpendTtl(Top.c)
  /\ redis_cmd(Top.k, Top.c)
  /\ Return
  /\ UNCHANGED <<callback_, error_code_, calls, got, rawVars>>

\* Mutant: the connection is released even inside one of hiredis's callbacks.
exec_conn_closing_in_callback ==
  LET k == Top.k IN
  /\ At("exec_conn")
  /\ redis_cmd_result(k) # "OK" /\ context_[k] /\ disconnecting[k]
  /\ SpendTtl(Top.c)
  /\ Continue((IF conn_ = k THEN <<F("release_connection", 0, k, "keep")>> ELSE <<>>)
              \o <<F("retry", Top.c, 0, "none")>>)
  /\ UNCHANGED <<callback_, error_code_, calls, got, hiredisVars, connVars, rawVars>>

\* or it does not because its context is going away: outside of hiredis's
\* callbacks the connection is released, and the command is retried,
exec_conn_closing ==
  LET k == Top.k IN
  /\ At("exec_conn")
  /\ redis_cmd_result(k) # "OK" /\ context_[k] /\ disconnecting[k]
  /\ SpendTtl(Top.c)
  /\ Continue((IF conn_ = k /\ ~in_callback[k]
               THEN <<F("release_connection", 0, k, "keep")>> ELSE <<>>)
              \o <<F("retry", Top.c, 0, "none")>>)
  /\ UNCHANGED <<callback_, error_code_, calls, got, hiredisVars, connVars, rawVars>>

\* or it fails: for another reason, or because no TTL is left.
exec_conn_failed ==
  LET c == Top.c
      k == Top.k
      code == IF ttl_[c] = 0 THEN "TTL" ELSE IF context_[k] THEN "HIREDIS" ELSE "CONNECTION"
  IN
  /\ At("exec_conn")
  /\ \/ ttl_[c] = 0
     \/ redis_cmd_result(k) # "OK" /\ ~(context_[k] /\ disconnecting[k])
  /\ ttl_' = [ttl_ EXCEPT ![c] = IF @ = 0 THEN 0 ELSE @ - 1]
  /\ cmd_call_reply(c, code, "null")
  /\ Continue(CallbackFrames(c, "null") \o <<F("destroy_cmd", c, 0, "none")>>)
  /\ UNCHANGED <<cmd_st, hiredisVars, connVars, rawVars>>

\* raw::retry(cmd, nullptr).  An active timer is an available one, so
\* TIMER_NOT_AVAILABLE is never the answer here.
retry ==
  LET c == Top.c IN
  /\ At("retry")
  /\ IF ~is_timer_active \/ ttl_[c] > TTL \div 2
     THEN Continue(<<F("exec", c, 0, "none")>>) /\ UNCHANGED timer_pending
     ELSE /\ timer_pending' = Append(timer_pending, [at |-> last_update + Interval, cmd |-> c])
          /\ Return
  /\ UNCHANGED <<cmdVars, hiredisVars, connVars, conn_, last_update, timer_conn, now,
                 ncmd, nconn, notified>>

-----------------------------------------------------------------------------
(* Releasing the connection                                                *)

\* release_connection(true, ...) called by the application.
Outstanding == conn_ # 0 /\ replies[conn_] # <<>>
UserRelease ==
  /\ InUser
  /\ conn_ # 0
  /\ \/ "release_busy" \in Env
     \/ "release_idle" \in Env /\ InLoop /\ ~Outstanding
  /\ Call(<<F("release_connection", 0, conn_, "close")>>)
  /\ UNCHANGED <<cmdVars, hiredisVars, connVars, rawVars>>

\* raw::release_connection: nothing to do without a connection, or in the
\* recursion.
release_connection ==
  LET k == Top.k IN
  /\ At("release_connection")
  /\ IF k = 0 THEN Return /\ UNCHANGED connVars
     ELSE IF conn_status_[k] = "DISCONNECTED" THEN Return /\ UNCHANGED connVars
     ELSE /\ set_disconnected(k)
          /\ Continue(ReleaseFrames(k, Top.a)
                      \o <<F("release_event", 0, k, conn_status_[k])>>)
  /\ UNCHANGED <<cmdVars, hiredisVars, rawVars>>

\* Mutant: the end of a connection that was connecting is not reported.
release_event_silent ==
  LET k == Top.k IN
  /\ At("release_event")
  /\ IF Top.a = "CONNECTING"
     THEN Continue(<<F("release_end", 0, k, "none")>>) /\ UNCHANGED notified
     ELSE /\ Notify(k, "disconnected")
          /\ Continue(<<F("user", 0, k, "on_disconnected"), F("release_end", 0, k, "none")>>)
  /\ UNCHANGED <<cmdVars, hiredisVars, connVars, conn_, last_update, timer_pending,
                 timer_conn, now, ncmd, nconn>>

\* After set_disconnected: report the end of the connection ...
release_event ==
  LET k == Top.k
      connecting == Top.a = "CONNECTING"
  IN
  /\ At("release_event")
  /\ Notify(k, IF connecting THEN "failed" ELSE "disconnected")
  /\ Continue(<<F("user", 0, k, IF connecting THEN "on_connected" ELSE "on_disconnected"),
                F("release_end", 0, k, "none")>>)
  /\ UNCHANGED <<cmdVars, hiredisVars, connVars, conn_, last_update, timer_pending,
                 timer_conn, now, ncmd, nconn>>

\* ... and destroy it (conn_.reset()).
release_end ==
  /\ At("release_end")
  /\ conn_st' = [k \in ConnIds |-> IF k = conn_ THEN "freed" ELSE conn_st[k]]
  /\ conn_' = 0
  /\ timer_conn' = NoTimer
  /\ Return
  /\ UNCHANGED <<cmdVars, hiredisVars, context_, conn_status_, reply_list_, sequence_,
                 seq_alloc, last_update, timer_pending, now, ncmd, nconn, notified>>

-----------------------------------------------------------------------------
(* reset and proc                                                          *)

\* raw::reset called by the application.
UserReset ==
  /\ InUser
  /\ \/ "reset_busy" \in Env
     \/ "reset_idle" \in Env /\ InLoop /\ ~Outstanding
        /\ (conn_ # 0 => ctx_st[conn_] = "connected")
  /\ Call((IF conn_ # 0 /\ context_[conn_]
           THEN <<F("redisAsyncDisconnect", 0, conn_, "none")>> ELSE <<>>)
          \o <<F("reset", 0, 0, "none")>>)
  /\ UNCHANGED <<cmdVars, hiredisVars, connVars, rawVars>>

\* Its loop over timer_pending, and what it resets after that.
reset ==
  /\ At("reset")
  /\ IF timer_pending # <<>>
     THEN LET c == Head(timer_pending).cmd IN
          /\ timer_pending' = Tail(timer_pending)
          /\ CallBack(c, "TIMEOUT", "null",
                      <<F("destroy_cmd", c, 0, "none"), Top>>)
          /\ UNCHANGED <<last_update, timer_conn>>
     ELSE /\ last_update' = 0
          /\ timer_conn' = NoTimer
          /\ Return
          /\ UNCHANGED <<timer_pending, cmdVars>>
  /\ UNCHANGED <<hiredisVars, connVars, conn_, now, ncmd, nconn, notified>>

\* raw::proc(t): called by the event loop's timer, never in a callback.
UserProc(t) ==
  /\ InLoop
  /\ t >= now /\ t > 0 /\ t <= MaxTime
  /\ now' = t
  /\ last_update' = t
  /\ Call(<<F("proc", 0, 0, "none")>>)
  /\ UNCHANGED <<cmdVars, hiredisVars, connVars, conn_, timer_pending, timer_conn, ncmd,
                 nconn, notified>>

\* Mutant: a retry that is due stays in the queue.
proc_keeps_entry ==
  /\ At("proc")
  /\ Continue(IF timer_pending # <<>> /\ Head(timer_pending).at <= now
              THEN <<F("exec", Head(timer_pending).cmd, 0, "none"), Top>>
              ELSE <<F("proc_conn", 0, 0, "none")>>)
  /\ UNCHANGED <<cmdVars, hiredisVars, connVars, rawVars>>

\* The retries that are due.
proc ==
  /\ At("proc")
  /\ IF timer_pending # <<>> /\ Head(timer_pending).at <= now
     THEN /\ timer_pending' = Tail(timer_pending)
          /\ Continue(<<F("exec", Head(timer_pending).cmd, 0, "none"), Top>>)
     ELSE /\ Continue(<<F("proc_conn", 0, 0, "none")>>)
          /\ UNCHANGED timer_pending
  /\ UNCHANGED <<cmdVars, hiredisVars, connVars, conn_, last_update, timer_conn, now,
                 ncmd, nconn, notified>>

\* The connect timeout.
proc_conn ==
  LET due == timer_conn.timeout # 0 /\ now >= timer_conn.timeout
      expired == conn_ # 0 /\ sequence_[conn_] = timer_conn.sequence
  IN
  /\ At("proc_conn")
  /\ Continue(IF ~due THEN <<>>
              ELSE (IF expired THEN <<F("release_connection", 0, conn_, "close")>> ELSE <<>>)
                   \o <<F("proc_clear", 0, 0, "none")>>)
  /\ UNCHANGED <<cmdVars, hiredisVars, connVars, rawVars>>

proc_clear ==
  /\ At("proc_clear")
  /\ timer_conn' = NoTimer
  /\ Return
  /\ UNCHANGED <<cmdVars, hiredisVars, connVars, conn_, last_update, timer_pending, now,
                 ncmd, nconn, notified>>

-----------------------------------------------------------------------------
(* The callbacks raw registers with hiredis                                *)

\* Mutant: a command is retried without being taken from reply_list_.
on_reply_wrapper_no_pop ==
  LET answer == F("call_reply", Top.c, Top.k, Top.a) IN
  /\ At("on_reply")
  /\ error_code_' = IF disconnecting[Top.k] THEN [error_code_ EXCEPT ![Top.c] = "CONNECTION"]
                                            ELSE error_code_
  /\ Continue(IF ~disconnecting[Top.k] /\ ctx_err[Top.k] = "IO"
              THEN <<F("retry", Top.c, 0, "none")>> ELSE <<answer>>)
  /\ UNCHANGED <<cmd_st, callback_, ttl_, calls, got, hiredisVars, connVars, rawVars>>

\* raw::on_reply_wrapper
on_reply_wrapper ==
  LET k == Top.k
      c == Top.c
      answer == F("call_reply", c, k, Top.a)
  IN
  /\ At("on_reply")
  /\ IF disconnecting[k]
     THEN /\ error_code_' = [error_code_ EXCEPT ![c] = "CONNECTION"]
          /\ Continue(<<answer>>)
     ELSE /\ UNCHANGED error_code_
          /\ IF ctx_err[k] = "IO"
             THEN Continue(IF c \in Elems(reply_list_[k])
                           THEN <<F("pop_reply", c, k, "retry")>>
                           ELSE <<F("retry", c, 0, "none")>>)
             ELSE Continue(<<answer>>)
  /\ UNCHANGED <<cmd_st, callback_, ttl_, calls, got, hiredisVars, connVars, rawVars>>

\* raw::on_connected_wrapper: the event, then the end of the connection or
\* set_connected.
on_connected_wrapper ==
  LET k == Top.k
      status == IF Top.a = "OK" /\ conn_status_[k] = "DISCONNECTED" THEN "OTHER" ELSE Top.a
  IN
  /\ At("on_connected")
  /\ Notify(k, IF status = "OK" THEN "connected" ELSE "failed")
  /\ Continue(<<F("user", 0, k, "on_connected"), F("on_connected_end", 0, k, status)>>)
  /\ UNCHANGED <<cmdVars, hiredisVars, connVars, conn_, last_update, timer_pending,
                 timer_conn, now, ncmd, nconn>>

on_connected_end ==
  LET k == Top.k IN
  /\ At("on_connected_end")
  /\ IF Top.a = "OK"
     THEN set_connected(k) /\ Return
     ELSE /\ Continue(<<F("release_connection", 0, conn_, "keep")>>)
          /\ UNCHANGED connVars
  /\ UNCHANGED <<cmdVars, hiredisVars, rawVars>>

\* Mutant: the disconnect callback does not release the connection.
on_disconnected_wrapper_ignored ==
  /\ At("on_disconnected")
  /\ Return
  /\ UNCHANGED <<cmdVars, hiredisVars, connVars, rawVars>>

\* raw::on_disconnected_wrapper
on_disconnected_wrapper ==
  /\ At("on_disconnected")
  /\ Continue(<<F("release_connection", 0, conn_, "keep")>>)
  /\ UNCHANGED <<cmdVars, hiredisVars, connVars, rawVars>>

\* A callback of the application returns.
UserReturn ==
  /\ At("user")
  /\ Return
  /\ UNCHANGED <<cmdVars, hiredisVars, connVars, rawVars>>

-----------------------------------------------------------------------------
Destroy    == destroy /\ UNCHANGED <<hiredisVars, connVars, rawVars>>
CallReply  == call_reply /\ UNCHANGED <<hiredisVars, rawVars>>
PopReply   == pop_reply /\ UNCHANGED <<hiredisVars, rawVars>>
ConnectionRelease == connection_release /\ UNCHANGED <<hiredisVars, rawVars>>

\* hiredis touches neither commands nor connection objects itself.
ByHiredis(A) == A /\ UNCHANGED <<cmdVars, connVars, rawVars>>

\* What the running call does next.
LibraryStep ==
  \/ exec \/ exec_connect \/ exec_auth_format_failed \/ exec_connect_failed
  \/ exec_conn \/ exec_conn_closing \/ exec_conn_failed
  \/ retry \/ destroy_cmd \/ Destroy
  \/ release_connection \/ release_event \/ release_end \/ ConnectionRelease
  \/ reset \/ proc \/ proc_conn \/ proc_clear
  \/ on_reply_wrapper \/ on_connected_wrapper \/ on_connected_end
  \/ on_disconnected_wrapper \/ CallReply \/ PopReply
  \/ ByHiredis(redisAsyncDisconnect)
  \/ ByHiredis(ConnectEnd) \/ ByHiredis(ConnectFailedEnd) \/ ByHiredis(ReplyEnd)
  \/ ByHiredis(FreeContext) \/ ByHiredis(FreeContextEnd)

NetworkStep ==
  \E k \in ConnIds :
    \/ ByHiredis(ConnectDone(k))
    \/ "connect_failed" \in Env /\ ByHiredis(ConnectFailed(k))
    \/ \E r \in {"ok", "error"} : ByHiredis(ReplyArrives(k, r))
    \/ now <= QuietAfter /\ \E e \in {"IO", "OTHER"} : ByHiredis(ConnectionLost(k, e))

Proc == \E t \in {now, now + 1} : UserProc(t)

Crash == UseAfterFree /\ UNCHANGED <<callback_, ttl_, error_code_, calls, got,
           disconnecting, in_callback, ctx_err, replies, conn_status_, reply_list_,
           sequence_, seq_alloc, rawVars>>

\* The event loop waits; nothing is left to do when the bounds are reached.
Idle == (ub \/ stack = <<>>) /\ UNCHANGED vars

Next ==
  \/ LibraryStep \/ UserReturn \/ NetworkStep \/ Proc
  \/ UserExec \/ UserConnect \/ UserRelease \/ UserReset
  \/ Crash \/ Idle

Spec == Init /\ [][Next]_vars

\* The event loop is fair: a call that has begun goes on, callbacks of the
\* application return, and every source of events that keeps being ready is
\* served in the end: the server connects and replies, and the application's
\* timer calls proc() with a clock that advances.
Fairness ==
  /\ WF_vars(LibraryStep)
  /\ WF_vars(UserReturn)
  /\ SF_vars(\E k \in ConnIds : ByHiredis(ConnectDone(k)))
  /\ SF_vars(\E k \in ConnIds : \E r \in {"ok", "error"} : ByHiredis(ReplyArrives(k, r)))
  /\ SF_vars(UserProc(now + 1))

FairSpec == Spec /\ Fairness

-----------------------------------------------------------------------------
(* Safety                                                                  *)

\* The places that hold a command and will see to its end.
Owns(f, c) == f.c = c /\ f.op \in {"exec", "exec_failed", "exec_conn", "retry",
                                   "destroy_cmd", "destroy"}
InTimer(c)     == {i \in DOMAIN timer_pending : timer_pending[i].cmd = c}
InStack(c)     == {i \in DOMAIN stack : Owns(stack[i], c)}
Holders(c)     == Cardinality(InReplyList(c)) + Cardinality(InTimer(c))
                  + Cardinality(InStack(c))

\* Every live command is held in exactly one place: the reply list of one
\* connection, the retry queue, or one call that is under way.  So none is
\* lost without an answer, and none is destroyed twice, through all the
\* retries, releases and nested calls of exec, release_connection and reset.
EachCommandHeldOnce ==
  \A c \in CmdIds : Holders(c) = IF cmd_st[c] = "live" THEN 1 ELSE 0

\* While a connection is in use, its reply list is the queue hiredis keeps,
\* preceded by the command whose reply is being delivered.  So the reply that
\* arrives is always that of the first command in the list, and pop_reply
\* never gives up an earlier command as timed out.
ReplyListMatchesHiredis ==
  \A k \in ConnIds : conn_st[k] = "live" /\ conn_status_[k] # "DISCONNECTED" =>
    ListMatches(k, CmdsOf(replies[k]))

\* With a password set, no command overtakes the AUTH command of its
\* connection: whatever the on_connect callback sends, AUTH is in front of it
\* or has been answered (or could not be formatted, and was never sent).
NothingOvertakesAuth ==
  \A k \in ConnIds : Auth /\ replies[k] # <<>> =>
    Head(replies[k]).c = AuthCmd(k) \/ AuthCmd(k) \in Delivering(k) \/ calls[AuthCmd(k)] = 1

\* The connect timeout never hits an established connection: each change of
\* status draws a new sequence number, so the number noted for the timeout
\* belongs to a connection that is still connecting (or being released).
TimeoutSparesEstablished ==
  conn_ # 0 /\ timer_conn.timeout # 0 /\ sequence_[conn_] = timer_conn.sequence
    => conn_status_[conn_] # "CONNECTED"

\* The assertion in raw::proc (happ_raw.cpp:484), and what it takes for
\* granted: a connection that has timed out still has its context, hiredis is
\* not in one of its callbacks, and it has not been connected.
ProcAssertion ==
  At("proc_conn") /\ timer_conn.timeout # 0 /\ now >= timer_conn.timeout
    /\ conn_ # 0 /\ sequence_[conn_] = timer_conn.sequence
    => context_[conn_] /\ ~in_callback[conn_] /\ conn_status_[conn_] = "CONNECTING"

\* A connection that was reported by on_connect does not disappear silently:
\* its end is reported by on_connected (with an error) or on_disconnected.
EndIsReported ==
  \A k \in ConnIds :
    conn_st[k] = "freed" => notified[k] \cap {"failed", "disconnected"} # {}

\* "If not in a callback_, this connection is already freed at the begining"
\* (happ_raw.cpp:109): when a reset() has freed the context at once, conn_ no
\* longer refers to it.
NoDeadContext ==
  stack = <<>> /\ conn_ # 0 /\ context_[conn_] => ctx_st[conn_] # "freed"

-----------------------------------------------------------------------------
(* What raw promises about commands                                        *)

L == INSTANCE Lifecycle WITH Cmds <- CmdIds, life <- lifeOf

\* Raw implements the life of a command that Lifecycle describes: whatever
\* exec, retry, the releases and the nested callbacks do, a step of raw is one
\* step in the life of one command, or none.
ImplementsLifecycle == L!Spec

-----------------------------------------------------------------------------
(* Liveness                                                                *)

\* Every command the application sends is called back and destroyed in the
\* end, with a reply or an error, however often connections are lost and
\* commands are retried: nothing stays in a queue for ever, and the recursion
\* between exec and retry ends because each round uses up some TTL.
EveryCommandEnds ==
  \A c \in CmdIds : cmd_st[c] = "live" ~> cmd_st[c] = "freed"

=============================================================================
