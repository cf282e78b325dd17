------------------------------ MODULE Cluster ------------------------------
(***************************************************************************)
(* cluster (happ_cluster.cpp): the connector to a Redis cluster, with one  *)
(* connection per server, the slot table and its reload by CLUSTER SLOTS,  *)
(* the commands that wait for the table, the redirections MOVED and ASK,   *)
(* the retry queue and the connect timeouts, on top of connection,         *)
(* cmd_exec and hiredis.  Time is counted as in Raw.                       *)
(*                                                                         *)
(* A server is the key of a connection (its address and port).  What a     *)
(* CLUSTER SLOTS reply makes of the table is chosen from Tables; the loop  *)
(* that computes it is the subject of SlotMap.                             *)
(***************************************************************************)
EXTENDS Connection, SlotTable, FiniteSets

CONSTANTS
  Servers,
  Tables,             \* the tables a CLUSTER SLOTS reply may describe
  Interval,           \* conf_.timer_interval_sec; 0: no timer
  ConnTimeout,        \* conf_.timer_timeout_sec; 0: no connect timeout
  Auth,               \* a password or an auth_fn is set
  MaxTime,            \* bound: the last second proc() is called with
  QuietAfter,         \* bound: after that second no exec(), loss or redirection
  Env                 \* what the environment may do, see EnvChoices

\* What an application, the network and the servers may do besides sending
\* commands, answering them and losing connections that carry no CLUSTER SLOTS.
Redirections == {"MOVED", "ASK", "TRYAGAIN", "CLUSTERDOWN"}
EnvChoices ==
  Redirections \cup
  { "connect_failed",   \* an asynchronous connect fails
    "connect_refused",  \* redisAsyncConnect itself fails
    "bad_format",       \* formatting a command fails
    "bad_addr",         \* a redirection does not name a slot or a server
    "load_failed",      \* CLUSTER SLOTS fails while commands wait for it
    "start",            \* the application calls start() or reload_slots()
    "connect",          \* the application calls make_connection() itself
    "reset_idle",       \* reset() while connected and nothing is outstanding
    "reset_busy",       \* reset() at any time, also in a callback
    "release_idle",     \* release_connection(key, true) of an idle connection
    "release_busy" }    \* release_connection(key, true) at any time

ASSUME ClusterAssumption ==
  /\ Seed \in Servers
  /\ Tables \subseteq [Slots -> Seq(Servers)]
  /\ Interval \in Nat /\ ConnTimeout \in Nat /\ Auth \in BOOLEAN
  /\ MaxTime \in Nat /\ QuietAfter \in Nat
  /\ TTL > 1
  /\ Env \subseteq EnvChoices

VARIABLES
  slot_flag_, slots_, slot_pending_,
  slot,               \* engine_.slot of each command; -1: any
  connections_,       \* the connection to each server, 0 if none
  server_of,          \* the key of each connection
  last_update,        \* timer_actions_.last_update_sec; 0: proc() not called
  timer_pending,      \* timer_actions_.timer_pending
  timer_conns,        \* timer_actions_.timer_conns
  now,                \* the application's clock
  ncmd, nconn,        \* how many commands and connections have been made
  notified            \* ghost: the events reported about each connection

tableVars   == <<slot_flag_, slots_, slot_pending_, slot>>
mapVars     == <<connections_, server_of, nconn, notified>>
timerVars   == <<last_update, timer_pending, timer_conns, now>>
clusterVars == <<tableVars, mapVars, timerVars, ncmd>>
vars == <<stackVars, cmdVars, hiredisVars, connVars, clusterVars>>

Events == {"on_connect", "connected", "failed", "disconnected"}
Delay  == [at : Nat, cmd : CmdIds]
Expiry == [server : Servers, sequence : Nat, timeout : Nat]

TypeOK ==
  /\ RuntimeTypeOK /\ CmdTypeOK /\ HiredisTypeOK /\ ConnTypeOK
  /\ slot_flag_ \in {"INVALID", "UPDATING", "OK"}
  /\ slots_ \in [Slots -> Seq(Servers)]
  /\ slot_pending_ \in Seq(CmdIds)
  /\ slot \in [CmdIds -> Slots \cup {-1}]
  /\ connections_ \in [Servers -> ConnIds \cup {0}]
  /\ server_of \in [ConnIds -> Servers]
  /\ last_update \in Nat /\ now \in Nat
  /\ timer_pending \in Seq(Delay)
  /\ timer_conns \in Seq(Expiry)
  /\ ncmd \in 0 .. MaxCmds /\ nconn \in 0 .. MaxConns
  /\ notified \in [ConnIds -> SUBSET Events]

Init ==
  /\ RuntimeInit /\ CmdInit /\ HiredisInit /\ ConnInit
  /\ slot_flag_ = "INVALID" /\ slots_ = Cleared /\ slot_pending_ = <<>>
  /\ slot = [c \in CmdIds |-> -1]
  /\ connections_ = [s \in Servers |-> 0]
  /\ server_of = [k \in ConnIds |-> Seed]
  /\ last_update = 0 /\ now = 0
  /\ timer_pending = <<>> /\ timer_conns = <<>>
  /\ ncmd = 0 /\ nconn = 0
  /\ notified = [k \in ConnIds |-> {}]

is_timer_available == Interval > 0
is_timer_active    == last_update # 0 /\ is_timer_available

Notify(k, e) == notified' = [notified EXCEPT ![k] = @ \cup {e}]

Delayed(c) == Append(timer_pending, [at |-> last_update + Interval, cmd |-> c])

-----------------------------------------------------------------------------
(* Commands and connections                                                *)

\* call_cmd followed by destroy_cmd.
Fail(c, code, r) == CallBack(c, code, r, <<F("destroy_cmd", c, 0, "none")>>)

\* cluster::destroy_cmd: a command that was never called back is called back
\* with UNKNOWD before it is destroyed.
destroy_cmd ==
  /\ At("destroy_cmd")
  /\ CallBack(Top.c, "UNKNOWD", "null", <<F("destroy", Top.c, 0, "none")>>)
  /\ UNCHANGED <<hiredisVars, connVars, clusterVars>>

\* cluster::make_connection of connection k to server s, which has none, where
\* redisAsyncConnect succeeds.
make_connection(k, s) ==
  /\ redisAsyncConnect(k)
  /\ set_connecting(k)
  /\ connections_' = [connections_ EXCEPT ![s] = k]
  /\ server_of' = [server_of EXCEPT ![k] = s]
  /\ nconn' = k
  /\ timer_conns' =
       IF ConnTimeout > 0 /\ is_timer_active
       THEN Append(timer_conns, [server |-> s, sequence |-> seq_alloc + 2,
                                 timeout |-> last_update + ConnTimeout])
       ELSE timer_conns
  /\ IF Auth THEN create(AuthCmd(k)) ELSE UNCHANGED cmdVars
  /\ UNCHANGED <<tableVars, last_update, timer_pending, now, ncmd>>

\* Mutant: on_connect is reported before AUTH is sent.
ConnectFramesAuthLate(k) ==
  <<F("user", 0, k, "on_connect")>>
  \o (IF Auth THEN <<F("exec_conn", AuthCmd(k), k, "none")>> ELSE <<>>)

\* What follows in make_connection: AUTH is sent and on_connect reported.
ConnectFrames(k) ==
  (IF Auth THEN <<F("exec_conn", AuthCmd(k), k, "none")>> ELSE <<>>)
  \o <<F("user", 0, k, "on_connect")>>

\* The frames, those without a connection going to connection k.
On(k, frames) ==
  [i \in DOMAIN frames |-> IF frames[i].k = 0 THEN [frames[i] EXCEPT !.k = k] ELSE frames[i]]

\* get_connection(s), and make_connection(s) if there is none; then `found' on
\* the connection, or `failed' if redisAsyncConnect fails (it also "fails" at
\* the bound on connections) or AUTH cannot be formatted, which leaves the
\* connection in the map.
WithConnection(s, found, failed) ==
  LET k == nconn + 1 IN
  \/ /\ connections_[s] # 0
     /\ Continue(On(connections_[s], found))
     /\ UNCHANGED <<cmdVars, hiredisVars, connVars, clusterVars>>
  \/ /\ connections_[s] = 0 /\ nconn < MaxConns
     /\ make_connection(k, s)
     /\ \/ Continue(ConnectFrames(k) \o On(k, found)) /\ Notify(k, "on_connect")
        \/ /\ Auth /\ "bad_format" \in Env
           /\ Continue(<<F("destroy_cmd", AuthCmd(k), 0, "none")>> \o failed)
           /\ UNCHANGED notified
  \/ /\ connections_[s] = 0
     /\ "connect_refused" \in Env \/ nconn = MaxConns
     /\ Continue(failed)
     /\ UNCHANGED <<cmdVars, hiredisVars, connVars, clusterVars>>

\* make_connection(key) called by the application.
UserConnect(s) ==
  LET k == nconn + 1 IN
  /\ InUser
  /\ "connect" \in Env
  /\ connections_[s] = 0 /\ nconn < MaxConns
  /\ make_connection(k, s)
  /\ \/ Call(ConnectFrames(k)) /\ Notify(k, "on_connect")
     \/ /\ Auth /\ "bad_format" \in Env
        /\ Call(<<F("destroy_cmd", AuthCmd(k), 0, "none")>>)
        /\ UNCHANGED notified

-----------------------------------------------------------------------------
(* exec and retry                                                          *)

\* exec(key, ks, callback, ...): the application creates a command, with the
\* slot i of its key or without a key, and sends it.  If it does so in a callback
\* of a connection that is ending, a CLUSTER SLOTS command may go there and fail.
Ending == \E i \in DOMAIN stack : stack[i].op \in {"h_free", "h_free_end", "release_end"}

UserExec(i) ==
  LET c == ncmd + 1 IN
  /\ InUser
  /\ ncmd < MaxCmds /\ now <= QuietAfter
  /\ Ending => "load_failed" \in Env
  /\ ncmd' = c
  /\ create(c)
  /\ \/ /\ Call(<<F("exec", c, 0, "none")>>)
        /\ slot' = [slot EXCEPT ![c] = i]
     \/ /\ "bad_format" \in Env
        /\ Call(<<F("destroy_cmd", c, 0, "none")>>)
        /\ UNCHANGED slot
  /\ UNCHANGED <<hiredisVars, connVars, slot_flag_, slots_, slot_pending_, mapVars, timerVars>>

\* cluster::exec(key, ks, cmd): the TTL is used up;
exec_ttl ==
  /\ At("exec") /\ ttl_[Top.c] = 0
  /\ Fail(Top.c, "TTL", "null")
  /\ UNCHANGED <<hiredisVars, connVars, clusterVars>>

\* or the table has to be loaded first;
exec_pending ==
  /\ At("exec") /\ ttl_[Top.c] > 0
  /\ slot_flag_ # "OK"
  /\ slot_pending_' = Append(slot_pending_, Top.c)
  /\ Continue(<<F("reload_slots", 0, 0, "none")>>)
  /\ UNCHANGED <<cmdVars, hiredisVars, connVars, slot_flag_, slots_, slot, mapVars,
                 timerVars, ncmd>>

\* or it goes to the master of its slot.
exec ==
  LET c == Top.c IN
  /\ At("exec") /\ ttl_[c] > 0
  /\ slot_flag_ = "OK"
  /\ \E r \in Slots : WithConnection(get_slot_master(slots_, slot[c], r),
       <<F("exec_conn", c, 0, "none")>>, <<F("exec_failed", c, 0, "none")>>)

exec_failed ==
  /\ At("exec_failed")
  /\ Fail(Top.c, "CONNECTION", "null")
  /\ UNCHANGED <<hiredisVars, connVars, clusterVars>>

\* Mutant: only exec(key, ks, cmd) looks at the TTL.
SpendTtlUnchecked(c) == ttl_' = [ttl_ EXCEPT ![c] = @ - 1] /\ UNCHANGED cmd_st

\* cluster::exec(conn, cmd) costs one TTL.  The connection takes the command,
SpendTtl(c) == ttl_[c] > 0 /\ ttl_' = [ttl_ EXCEPT ![c] = @ - 1] /\ UNCHANGED cmd_st

exec_conn ==
  /\ At("exec_conn")
  /\ redis_cmd_result(Top.k) = "OK"
  /\ SpendTtl(Top.c)
  /\ redis_cmd(Top.k, Top.c)
  /\ Return
  /\ UNCHANGED <<callback_, error_code_, calls, got, clusterVars>>

\* or its context is going away: its server leaves the table, outside of
\* hiredis's callbacks the connection is released, and the command is retried
\* anywhere,
Closing(k) == redis_cmd_result(k) # "OK" /\ context_[k] /\ disconnecting[k]

exec_conn_closing ==
  LET k == Top.k IN
  /\ At("exec_conn")
  /\ Closing(k)
  /\ SpendTtl(Top.c)
  /\ slot_flag_' = "INVALID"
  /\ slots_' = remove_connection_key(slots_, server_of[k])
  /\ slot' = [slot EXCEPT ![Top.c] = -1]
  /\ Continue((IF ~in_callback[k] THEN <<F("release_connection", 0, k, "keep")>> ELSE <<>>)
              \o <<F("retry", Top.c, 0, "none")>>)
  /\ UNCHANGED <<callback_, error_code_, calls, got, hiredisVars, connVars, slot_pending_,
                 mapVars, timerVars, ncmd>>

\* or it fails: for another reason, or because no TTL is left.
exec_conn_failed ==
  LET c == Top.c
      k == Top.k
      code == IF ttl_[c] = 0 THEN "TTL" ELSE IF context_[k] THEN "HIREDIS" ELSE "CONNECTION"
  IN
  /\ At("exec_conn")
  /\ ttl_[c] = 0 \/ (redis_cmd_result(k) # "OK" /\ ~Closing(k))
  /\ ttl_' = [ttl_ EXCEPT ![c] = IF @ = 0 THEN 0 ELSE @ - 1]
  /\ cmd_call_reply(c, code, "null")
  /\ Continue(CallbackFrames(c, "null") \o <<F("destroy_cmd", c, 0, "none")>>)
  /\ UNCHANGED <<cmd_st, hiredisVars, connVars, clusterVars>>

\* cluster::retry(cmd, conn), with conn k or none (0).  An active timer is an
\* available one, so TIMER_NOT_AVAILABLE is never the answer here.
retry ==
  LET c == Top.c
      k == Top.k
  IN
  /\ At("retry")
  /\ IF ~is_timer_active \/ ttl_[c] > TTL \div 2
     THEN /\ Continue(IF k = 0 THEN <<F("exec", c, 0, "none")>>
                               ELSE <<F("exec_conn", c, k, Top.a)>>)
          /\ UNCHANGED timer_pending
     ELSE timer_pending' = Delayed(c) /\ Return
  /\ UNCHANGED <<cmdVars, hiredisVars, connVars, tableVars, mapVars, last_update, timer_conns,
                 now, ncmd>>

-----------------------------------------------------------------------------
(* Loading the slot table                                                  *)

\* start() or reload_slots() called by the application.
UserStart ==
  /\ InUser
  /\ "start" \in Env
  /\ Call(<<F("reload_slots", 0, 0, "none")>>)
  /\ UNCHANGED <<cmdVars, hiredisVars, connVars, clusterVars>>

\* cluster::reload_slots: not twice at a time; CLUSTER SLOTS goes to the master
\* of a random slot.
reload_slots ==
  /\ At("reload_slots")
  /\ IF slot_flag_ = "UPDATING"
     THEN Return /\ UNCHANGED <<cmdVars, hiredisVars, connVars, clusterVars>>
     ELSE \E r \in Slots : WithConnection(get_slot_master(slots_, -1, r),
            <<F("reload_exec", 0, 0, "none")>>, <<>>)

\* The identities of CLUSTER SLOTS commands are used again, but only when
\* nothing refers to the old command any more.
Refers(c) ==
  \/ \E i \in DOMAIN stack : stack[i].c = c
  \/ \E k \in ConnIds : c \in Elems(reply_list_[k]) \/ c \in {e.c : e \in Elems(replies[k])}
  \/ c \in Elems(slot_pending_)
  \/ c \in {d.cmd : d \in Elems(timer_pending)}
FreeLoads == {c \in CmdIds : LoadCmd(c) /\ cmd_st[c] # "live" /\ ~Refers(c)}

\* The command is created (which "fails" at the bound on such commands) and
\* sent.  exec() returns it if the connection takes it, or if it is retried.
reload_exec ==
  LET k == Top.k
      c == Min(FreeLoads)
      sent == redis_cmd_result(k) = "OK" \/ Closing(k)
  IN
  /\ At("reload_exec")
  /\ IF FreeLoads = {} THEN Return /\ UNCHANGED <<cmdVars, slot>>
     ELSE /\ create(c)
          /\ slot' = [slot EXCEPT ![c] = -1]
          /\ \/ Continue(<<F("exec_conn", c, k, "none")>>
                         \o (IF sent THEN <<F("reload_end", 0, k, "none")>> ELSE <<>>))
             \/ /\ {"bad_format", "load_failed"} \subseteq Env
                /\ Continue(<<F("destroy_cmd", c, 0, "none")>>)
  /\ UNCHANGED <<hiredisVars, connVars, slot_flag_, slots_, slot_pending_, mapVars,
                 timerVars, ncmd>>

reload_end ==
  /\ At("reload_end")
  /\ slot_flag_' = "UPDATING"
  /\ Return
  /\ UNCHANGED <<cmdVars, hiredisVars, connVars, slots_, slot_pending_, slot, mapVars,
                 timerVars, ncmd>>

\* Mutant: the status is set after the commands have been sent.
on_reply_update_slot_flag_late ==
  /\ At("on_reply_update_slot") /\ Top.a = "ok"
  /\ slots_' \in Tables
  /\ slot_flag_' = IF slot_pending_ = <<>> THEN "OK" ELSE slot_flag_
  /\ Continue(<<F("run_pending", 0, 0, "none")>>)
  /\ UNCHANGED <<cmdVars, hiredisVars, connVars, slot_pending_, slot, mapVars, timerVars, ncmd>>

\* Mutant: the commands that waited are not sent.
on_reply_update_slot_no_run ==
  /\ At("on_reply_update_slot") /\ Top.a = "ok"
  /\ slots_' \in Tables
  /\ slot_flag_' = "OK"
  /\ Return
  /\ UNCHANGED <<cmdVars, hiredisVars, connVars, slot_pending_, slot, mapVars, timerVars, ncmd>>

\* cluster::on_reply_update_slot, the callback of CLUSTER SLOTS: the table is
\* replaced, and the commands that waited for it are sent.
on_reply_update_slot ==
  /\ At("on_reply_update_slot") /\ Top.a = "ok"
  /\ slots_' \in Tables
  /\ slot_flag_' = "OK"
  /\ Continue(<<F("run_pending", 0, 0, "none")>>)
  /\ UNCHANGED <<cmdVars, hiredisVars, connVars, slot_pending_, slot, mapVars, timerVars, ncmd>>

\* Mutant: the front of the list is not removed.
run_pending_keeps ==
  /\ At("run_pending")
  /\ Continue(IF slot_pending_ = <<>> THEN <<>>
              ELSE <<F("retry", Head(slot_pending_), 0, "none"), Top>>)
  /\ UNCHANGED <<cmdVars, hiredisVars, connVars, clusterVars>>

\* Mutant: only the first command that waits is sent.
run_pending_once ==
  /\ At("run_pending")
  /\ IF slot_pending_ = <<>> THEN Return /\ UNCHANGED slot_pending_
     ELSE /\ slot_pending_' = Tail(slot_pending_)
          /\ Continue(<<F("retry", Head(slot_pending_), 0, "none")>>)
  /\ UNCHANGED <<cmdVars, hiredisVars, connVars, slot_flag_, slots_, slot, mapVars,
                 timerVars, ncmd>>

run_pending ==
  /\ At("run_pending")
  /\ IF slot_pending_ = <<>> THEN Return /\ UNCHANGED slot_pending_
     ELSE /\ slot_pending_' = Tail(slot_pending_)
          /\ Continue(<<F("retry", Head(slot_pending_), 0, "none"), Top>>)
  /\ UNCHANGED <<cmdVars, hiredisVars, connVars, slot_flag_, slots_, slot, mapVars,
                 timerVars, ncmd>>

\* Anything else is a failure.  If commands are waiting, this command is put
\* into the retry queue (add_timer_cmd) or destroyed, although the caller of the
\* callback is about to destroy it.
on_reply_update_slot_failed ==
  LET c == Top.c IN
  /\ At("on_reply_update_slot") /\ Top.a # "ok"
  /\ slot_flag_' = "INVALID"
  /\ slot' = IF slot_pending_ = <<>> THEN slot ELSE [slot EXCEPT ![c] = -1]
  /\ IF slot_pending_ = <<>> THEN Return /\ UNCHANGED timer_pending
     ELSE IF ~is_timer_available
     THEN Continue(<<F("destroy_cmd", c, 0, "none")>>) /\ UNCHANGED timer_pending
     ELSE IF is_timer_active
     THEN Return /\ timer_pending' = Delayed(c)
     ELSE Continue(<<F("exec", c, 0, "none")>>) /\ UNCHANGED timer_pending
  /\ UNCHANGED <<cmdVars, hiredisVars, connVars, slots_, slot_pending_, mapVars, last_update,
                 timer_conns, now, ncmd>>

-----------------------------------------------------------------------------
(* Releasing connections                                                   *)

\* How many connections the bound allows beyond one for each server: in a run
\* without "connect_refused", none is given up that could not be made again.
Busy(k) == replies[k] # <<>>
Spare == (MaxConns - nconn) - Cardinality({s \in Servers : connections_[s] = 0})

\* release_connection(key, true, ...) called by the application.
UserRelease(s) ==
  /\ InUser
  /\ connections_[s] # 0
  /\ \/ "release_busy" \in Env
     \/ "release_idle" \in Env /\ InLoop /\ ~Busy(connections_[s]) /\ Spare > 0
  /\ Call(<<F("release_connection", 0, connections_[s], "close")>>)
  /\ UNCHANGED <<cmdVars, hiredisVars, connVars, clusterVars>>

\* cluster::release_connection: nothing to do in the recursion.
release_connection ==
  LET k == Top.k IN
  /\ At("release_connection")
  /\ IF conn_status_[k] = "DISCONNECTED" THEN Return /\ UNCHANGED connVars
     ELSE /\ set_disconnected(k)
          /\ Continue(ReleaseFrames(k, Top.a)
                      \o <<F("release_event", 0, k, conn_status_[k])>>)
  /\ UNCHANGED <<cmdVars, hiredisVars, clusterVars>>

\* Mutant: the end of an established connection is not reported.
release_event_silent ==
  LET k == Top.k
      connecting == Top.a = "CONNECTING"
  IN
  /\ At("release_event")
  /\ IF connecting THEN Notify(k, "failed") ELSE UNCHANGED notified
  /\ Continue((IF connecting THEN <<F("user", 0, k, "on_connected")>> ELSE <<>>)
              \o <<F("release_end", 0, k, "none")>>)
  /\ UNCHANGED <<cmdVars, hiredisVars, connVars, tableVars, connections_, server_of, nconn,
                 timerVars, ncmd>>

\* After set_disconnected: report the end of the connection ...
release_event ==
  LET k == Top.k
      connecting == Top.a = "CONNECTING"
  IN
  /\ At("release_event")
  /\ Notify(k, IF connecting THEN "failed" ELSE "disconnected")
  /\ Continue(<<F("user", 0, k, IF connecting THEN "on_connected" ELSE "on_disconnected"),
                F("release_end", 0, k, "none")>>)
  /\ UNCHANGED <<cmdVars, hiredisVars, connVars, tableVars, connections_, server_of, nconn,
                 timerVars, ncmd>>

\* Mutant: the entry is erased, the connection leaked.
release_end_leak ==
  /\ At("release_end")
  /\ connections_' = [connections_ EXCEPT ![server_of[Top.k]] = 0]
  /\ Return
  /\ UNCHANGED <<cmdVars, hiredisVars, connVars, tableVars, server_of, nconn, notified,
                 timerVars, ncmd>>

\* ... and destroy it (connections_.erase).
release_end ==
  LET k == Top.k IN
  /\ At("release_end")
  /\ conn_st' = [conn_st EXCEPT ![k] = "freed"]
  /\ connections_' = [connections_ EXCEPT ![server_of[k]] = 0]
  /\ Return
  /\ UNCHANGED <<cmdVars, hiredisVars, context_, conn_status_, reply_list_, sequence_,
                 seq_alloc, tableVars, server_of, nconn, notified, timerVars, ncmd>>

-----------------------------------------------------------------------------
(* reset and proc                                                          *)

\* reset() called by the application.
UserReset ==
  /\ InUser
  /\ \/ "reset_busy" \in Env
     \/ /\ "reset_idle" \in Env /\ InLoop /\ MaxConns - nconn >= Cardinality(Servers)
        /\ \A s \in Servers : LET k == connections_[s] IN
             k # 0 => ctx_st[k] = "connected" /\ ~Busy(k)
  /\ Call(<<F("reset_begin", 0, 0, "none")>>)
  /\ UNCHANGED <<cmdVars, hiredisVars, connVars, clusterVars>>

\* cluster::reset: every context that a connection holds is disconnected, in
\* the order of the hash map;
reset_begin ==
  LET open == {connections_[s] : s \in Servers} \ {0} IN
  /\ At("reset_begin")
  /\ slot_flag_' = "UPDATING"
  /\ \E q \in SetToSeqs({k \in open : context_[k]}) :
       Continue([i \in DOMAIN q |-> F("redisAsyncDisconnect", 0, q[i], "none")]
                \o <<F("reset_slots", 0, 0, "none")>>)
  /\ UNCHANGED <<cmdVars, hiredisVars, connVars, slots_, slot_pending_, slot, mapVars,
                 timerVars, ncmd>>

\* the commands that wait for the table fail, and the table is cleared;
reset_slots ==
  /\ At("reset_slots")
  /\ IF slot_pending_ # <<>>
     THEN LET c == Head(slot_pending_) IN
          /\ slot_pending_' = Tail(slot_pending_)
          /\ CallBack(c, "SLOT_UNAVAILABLE", "null", <<F("destroy_cmd", c, 0, "none"), Top>>)
          /\ UNCHANGED slots_
     ELSE /\ slots_' = Cleared
          /\ Continue(<<F("reset", 0, 0, "none")>>)
          /\ UNCHANGED <<slot_pending_, cmdVars>>
  /\ UNCHANGED <<hiredisVars, connVars, slot_flag_, slot, mapVars, timerVars, ncmd>>

\* Mutant: the table stays "being updated" in the end.
reset_keeps_flag ==
  /\ At("reset")
  /\ IF timer_pending # <<>>
     THEN LET c == Head(timer_pending).cmd IN
          /\ timer_pending' = Tail(timer_pending)
          /\ CallBack(c, "TIMEOUT", "null", <<F("destroy_cmd", c, 0, "none"), Top>>)
          /\ UNCHANGED <<last_update, timer_conns>>
     ELSE /\ last_update' = 0
          /\ timer_conns' = <<>>
          /\ Return
          /\ UNCHANGED <<timer_pending, cmdVars>>
  /\ UNCHANGED <<hiredisVars, connVars, tableVars, mapVars, now, ncmd>>

\* then those of the retry queue, and the timers are reset.
reset ==
  /\ At("reset")
  /\ IF timer_pending # <<>>
     THEN LET c == Head(timer_pending).cmd IN
          /\ timer_pending' = Tail(timer_pending)
          /\ CallBack(c, "TIMEOUT", "null", <<F("destroy_cmd", c, 0, "none"), Top>>)
          /\ UNCHANGED <<last_update, timer_conns, slot_flag_>>
     ELSE /\ last_update' = 0
          /\ timer_conns' = <<>>
          /\ slot_flag_' = "INVALID"
          /\ Return
          /\ UNCHANGED <<timer_pending, cmdVars>>
  /\ UNCHANGED <<hiredisVars, connVars, slots_, slot_pending_, slot, mapVars, now, ncmd>>

\* cluster::proc(t): called by the event loop's timer, never in a callback.
\* After QuietAfter a call that would find nothing to do is left out.
UserProc(t) ==
  /\ InLoop
  /\ t >= now /\ t > 0 /\ t <= MaxTime
  /\ t <= QuietAfter \/ timer_pending # <<>> \/ timer_conns # <<>>
  /\ now' = t
  /\ last_update' = t
  /\ Call(<<F("proc", 0, 0, "none")>>)
  /\ UNCHANGED <<cmdVars, hiredisVars, connVars, tableVars, mapVars, timer_pending,
                 timer_conns, ncmd>>

\* Mutant: a retry that is due is removed, but not sent.
proc_drops ==
  /\ At("proc")
  /\ IF timer_pending # <<>> /\ Head(timer_pending).at <= now
     THEN timer_pending' = Tail(timer_pending) /\ UNCHANGED <<stack, ub>>
     ELSE Continue(<<F("proc_conn", 0, 0, "none")>>) /\ UNCHANGED timer_pending
  /\ UNCHANGED <<cmdVars, hiredisVars, connVars, tableVars, mapVars, last_update, timer_conns,
                 now, ncmd>>

\* The retries that are due.
proc ==
  /\ At("proc")
  /\ IF timer_pending # <<>> /\ Head(timer_pending).at <= now
     THEN /\ timer_pending' = Tail(timer_pending)
          /\ Continue(<<F("exec", Head(timer_pending).cmd, 0, "none"), Top>>)
     ELSE /\ Continue(<<F("proc_conn", 0, 0, "none")>>)
          /\ UNCHANGED timer_pending
  /\ UNCHANGED <<cmdVars, hiredisVars, connVars, tableVars, mapVars, last_update, timer_conns,
                 now, ncmd>>

\* The connect timeouts: a connection whose sequence number is still the one
\* noted is released ...
Due == timer_conns # <<>> /\ now >= Head(timer_conns).timeout
Expired(k) == k # 0 /\ sequence_[k] = Head(timer_conns).sequence
proc_conn ==
  LET k == connections_[Head(timer_conns).server] IN
  /\ At("proc_conn")
  /\ Continue(IF ~Due THEN <<>>
              ELSE (IF Expired(k) THEN <<F("release_connection", 0, k, "close")>> ELSE <<>>)
                   \o <<F("proc_clear", 0, 0, "none")>>)
  /\ UNCHANGED <<cmdVars, hiredisVars, connVars, clusterVars>>

\* ... and the entry removed.  If a callback has reset() the list meanwhile,
\* pop_front() is undefined.
proc_clear ==
  /\ At("proc_clear")
  /\ IF timer_conns = <<>>
     THEN ub' = TRUE /\ UNCHANGED <<stack, timer_conns>>
     ELSE timer_conns' = Tail(timer_conns) /\ Continue(<<F("proc_conn", 0, 0, "none")>>)
  /\ UNCHANGED <<cmdVars, hiredisVars, connVars, tableVars, mapVars, last_update,
                 timer_pending, now, ncmd>>

-----------------------------------------------------------------------------
(* The callbacks cluster registers with hiredis                            *)

\* Mutant: the command stays in the reply list.
PopAndRetryNoPop(c, k) == <<F("retry", c, 0, "none")>>

\* conn->pop_reply(cmd), then retry(cmd).
PopAndRetry(c, k) ==
  IF c \in Elems(reply_list_[k]) THEN <<F("pop_reply", c, k, "retry")>>
                                 ELSE <<F("retry", c, 0, "none")>>

\* cluster::on_reply_wrapper: a reply while disconnecting, or one that goes to
\* the caller (also other errors, a bad slot in MOVED, a bad address in ASK);
Redirects(k, r) == ~disconnecting[k] /\ ctx_err[k] = "OK" /\ r \in Redirections

on_reply_wrapper ==
  LET k == Top.k
      c == Top.c
  IN
  /\ At("on_reply")
  /\ \/ ~Redirects(k, Top.a)
     \/ "bad_addr" \in Env /\ Top.a \in {"ASK", "MOVED"}
  /\ disconnecting[k] \/ ctx_err[k] # "IO"
  /\ error_code_' = IF disconnecting[k] THEN [error_code_ EXCEPT ![c] = "CONNECTION"]
                                        ELSE error_code_
  /\ Continue(<<F("call_reply", c, k, Top.a)>>)
  /\ UNCHANGED <<cmd_st, callback_, ttl_, calls, got, hiredisVars, connVars, clusterVars>>

\* a network error, or TRYAGAIN: the command is retried;
on_reply_retry ==
  LET k == Top.k IN
  /\ At("on_reply")
  /\ ~disconnecting[k]
  /\ ctx_err[k] = "IO" \/ (Redirects(k, Top.a) /\ Top.a = "TRYAGAIN")
  /\ Continue(PopAndRetry(Top.c, k))
  /\ UNCHANGED <<cmdVars, hiredisVars, connVars, clusterVars>>

\* ASK with the name of server s: ASKING is sent there, and meanwhile the
\* command is on no connection;
on_reply_ask(s) ==
  LET c == Top.c
      k == Top.k
      pop == F("ask_pop", c, k, "none")
  IN
  /\ At("on_reply")
  /\ Redirects(k, Top.a) /\ Top.a = "ASK"
  /\ WithConnection(s, <<pop, F("asking", c, 0, "none")>>, <<pop, F("retry", c, 0, "none")>>)

ask_pop ==
  /\ At("ask_pop")
  /\ Continue(IF Top.c \in Elems(reply_list_[Top.k])
              THEN <<F("pop_reply", Top.c, Top.k, "ask")>> ELSE <<>>)
  /\ UNCHANGED <<cmdVars, hiredisVars, connVars, clusterVars>>

asking ==
  /\ At("asking")
  /\ IF Accepts(Top.k)
     THEN redisAsyncFormattedCommand(Top.k, "on_reply_asking", Top.c) /\ Return
     ELSE Continue(<<F("retry", Top.c, 0, "none")>>) /\ UNCHANGED hiredisVars
  /\ UNCHANGED <<cmdVars, connVars, clusterVars>>

\* MOVED with slot i and server s: the table is corrected, the command retried
\* and the table reloaded; without a server the table is not valid any more;
on_reply_moved(i, s) ==
  LET c == Top.c
      k == Top.k
  IN
  /\ At("on_reply")
  /\ Redirects(k, Top.a) /\ Top.a = "MOVED"
  /\ slot' = IF slot[c] >= 0 THEN [slot EXCEPT ![c] = i] ELSE slot
  /\ \/ /\ slots_' = [slots_ EXCEPT ![i] = <<s>>]
        /\ Continue(PopAndRetry(c, k) \o <<F("reload_slots", 0, 0, "none")>>)
        /\ UNCHANGED slot_flag_
     \/ /\ "bad_addr" \in Env
        /\ slot_flag_' = "INVALID"
        /\ Continue(<<F("call_reply", c, k, Top.a)>>)
        /\ UNCHANGED slots_
  /\ UNCHANGED <<cmdVars, hiredisVars, connVars, slot_pending_, mapVars, timerVars, ncmd>>

\* CLUSTERDOWN: the caller gets it, and everything is reset.
on_reply_clusterdown ==
  /\ At("on_reply")
  /\ Redirects(Top.k, Top.a) /\ Top.a = "CLUSTERDOWN"
  /\ Continue(<<F("call_reply", Top.c, Top.k, Top.a), F("reset_begin", 0, 0, "none")>>)
  /\ UNCHANGED <<cmdVars, hiredisVars, connVars, clusterVars>>

\* cluster::on_reply_asking: the command follows ASKING, or is retried, or fails.
on_reply_asking ==
  LET c == Top.c
      k == Top.k
  IN
  /\ At("on_reply_asking")
  /\ IF ctx_err[k] = "IO"
     THEN Continue(<<F("retry", c, 0, "none")>>) /\ UNCHANGED cmdVars
     ELSE IF ctx_err[k] = "OK" /\ Top.a = "ok"
     THEN Continue(<<F("retry", c, k, "ask")>>) /\ UNCHANGED cmdVars
     ELSE Fail(c, "CONNECTION", Top.a)
  /\ UNCHANGED <<hiredisVars, connVars, clusterVars>>

\* cluster::on_connected_wrapper: the event, then the end of the connection or
\* set_connected; in the end the table is loaded if it has to be.
on_connected_wrapper ==
  LET k == Top.k
      status == IF Top.a = "OK" /\ conn_status_[k] = "DISCONNECTED" THEN "OTHER" ELSE Top.a
  IN
  /\ At("on_connected")
  /\ Notify(k, IF status = "OK" THEN "connected" ELSE "failed")
  /\ Continue(<<F("user", 0, k, "on_connected"), F("on_connected_end", 0, k, status)>>)
  /\ UNCHANGED <<cmdVars, hiredisVars, connVars, tableVars, connections_, server_of, nconn,
                 timerVars, ncmd>>

on_connected_end ==
  LET k == Top.k
      reload == <<F("reload_slots", 0, 0, "none")>>
  IN
  /\ At("on_connected_end")
  /\ IF Top.a = "OK"
     THEN set_connected(k) /\ Continue(IF slot_flag_ = "INVALID" THEN reload ELSE <<>>)
     ELSE /\ Continue(<<F("release_connection", 0, k, "keep")>> \o reload)
          /\ UNCHANGED connVars
  /\ UNCHANGED <<cmdVars, hiredisVars, clusterVars>>

\* cluster::on_disconnected_wrapper
on_disconnected_wrapper ==
  LET k == Top.k IN
  /\ At("on_disconnected")
  /\ IF Top.a # "OK"
     THEN slot_flag_' = "INVALID" /\ slots_' = remove_connection_key(slots_, server_of[k])
     ELSE UNCHANGED <<slot_flag_, slots_>>
  /\ Continue(<<F("release_connection", 0, k, "keep")>>)
  /\ UNCHANGED <<cmdVars, hiredisVars, connVars, slot_pending_, slot, mapVars, timerVars, ncmd>>

\* A callback of the application returns.
UserReturn ==
  /\ At("user")
  /\ Return
  /\ UNCHANGED <<cmdVars, hiredisVars, connVars, clusterVars>>

-----------------------------------------------------------------------------
Destroy    == destroy /\ UNCHANGED <<hiredisVars, connVars, clusterVars>>
CallReply  == call_reply /\ UNCHANGED <<hiredisVars, clusterVars>>
PopReply   == pop_reply /\ UNCHANGED <<hiredisVars, clusterVars>>
ConnectionRelease == connection_release /\ UNCHANGED <<hiredisVars, clusterVars>>

\* hiredis touches neither commands nor connection objects itself.
ByHiredis(A) == A /\ UNCHANGED <<cmdVars, connVars, clusterVars>>

\* What the running call does next.
LibraryStep ==
  \/ exec_ttl \/ exec_pending \/ exec \/ exec_failed
  \/ exec_conn \/ exec_conn_closing \/ exec_conn_failed
  \/ retry \/ destroy_cmd \/ Destroy
  \/ reload_slots \/ reload_exec \/ reload_end
  \/ on_reply_update_slot \/ run_pending \/ on_reply_update_slot_failed
  \/ release_connection \/ release_event \/ release_end \/ ConnectionRelease
  \/ reset_begin \/ reset_slots \/ reset \/ proc \/ proc_conn \/ proc_clear
  \/ on_reply_wrapper \/ on_reply_retry \/ on_reply_clusterdown
  \/ \E s \in Servers : on_reply_ask(s) \/ \E i \in Slots : on_reply_moved(i, s)
  \/ ask_pop \/ asking \/ on_reply_asking
  \/ on_connected_wrapper \/ on_connected_end \/ on_disconnected_wrapper
  \/ CallReply \/ PopReply
  \/ ByHiredis(redisAsyncDisconnect)
  \/ ByHiredis(ConnectEnd) \/ ByHiredis(ConnectFailedEnd) \/ ByHiredis(ReplyEnd)
  \/ ByHiredis(FreeContext) \/ ByHiredis(FreeContextEnd)

\* The replies a server may give: it redirects only the application's
\* commands, and fails CLUSTER SLOTS only if it may.
MayFail(c) == LoadCmd(c) => "load_failed" \in Env \/ slot_pending_ = <<>>
Answers(e) ==
  {"ok"} \cup (IF MayFail(e.c) THEN {"error"} ELSE {})
  \cup (IF e.fn = "on_reply" /\ UserCmd(e.c) /\ now <= QuietAfter
        THEN Redirections \cap Env ELSE {})

Reply(k) == Busy(k) /\ \E r \in Answers(Head(replies[k])) : ByHiredis(ReplyArrives(k, r))

\* A connection may be lost if it carries no CLUSTER SLOTS and there is a spare.
MayLose(k) ==
  \/ "load_failed" \in Env
  \/ Spare > 0 /\ \A e \in Elems(replies[k]) : ~LoadCmd(e.c)

NetworkStep ==
  \E k \in ConnIds :
    \/ ByHiredis(ConnectDone(k))
    \/ "connect_failed" \in Env /\ ByHiredis(ConnectFailed(k))
    \/ Reply(k)
    \/ /\ now <= QuietAfter /\ MayLose(k)
       /\ \E e \in {"IO", "OTHER"} : ByHiredis(ConnectionLost(k, e))

Proc == \E t \in {now, now + 1} : UserProc(t)

UserStep ==
  \/ \E i \in Slots \cup {-1} : UserExec(i)
  \/ \E s \in Servers : UserConnect(s) \/ UserRelease(s)
  \/ UserStart \/ UserReset

Crash == UseAfterFree /\ UNCHANGED <<callback_, ttl_, error_code_, calls, got,
           disconnecting, in_callback, ctx_err, replies, conn_status_, reply_list_,
           sequence_, seq_alloc, clusterVars>>

\* The event loop waits; nothing is left to do when the bounds are reached.
Idle == (ub \/ stack = <<>>) /\ UNCHANGED vars

Next == LibraryStep \/ UserReturn \/ NetworkStep \/ Proc \/ UserStep \/ Crash \/ Idle

Spec == Init /\ [][Next]_vars

\* As in Raw: calls go on, callbacks return, and every source of events that
\* keeps being ready is served in the end.
Fairness ==
  /\ WF_vars(LibraryStep \/ Crash)
  /\ SF_vars(UserReturn)
  /\ SF_vars(\E k \in ConnIds : ByHiredis(ConnectDone(k)))
  /\ SF_vars(\E k \in ConnIds : Reply(k))
  /\ SF_vars(UserProc(now + 1))

FairSpec == Spec /\ Fairness

-----------------------------------------------------------------------------
(* Safety                                                                  *)

\* The places that hold a command and will see to its end.  A command that is
\* about to be asked for elsewhere still is in the reply list it comes from.
Leaves(f)  == f.op = "ask_pop" \/ (f.op = "pop_reply" /\ f.a = "ask")
Leaving(c) == \E i \in DOMAIN stack : Leaves(stack[i]) /\ stack[i].c = c
Owns(f, c) ==
  /\ f.c = c
  /\ \/ f.op \in {"exec", "exec_failed", "exec_conn", "destroy_cmd", "destroy",
                   "on_reply_asking"}
     \/ f.op \in {"retry", "asking"} /\ ~Leaving(c)
InTimer(c)   == {i \in DOMAIN timer_pending : timer_pending[i].cmd = c}
InPending(c) == {i \in DOMAIN slot_pending_ : slot_pending_[i] = c}
InStack(c)   == {i \in DOMAIN stack : Owns(stack[i], c)}
InAsking(c)  == {k \in ConnIds : [fn |-> "on_reply_asking", c |-> c] \in Elems(replies[k])}
Holders(c)   == Cardinality(InReplyList(c)) + Cardinality(InTimer(c)) + Cardinality(InPending(c))
                + Cardinality(InStack(c)) + Cardinality(InAsking(c))

\* Every live command of the application, and every AUTH, is held in exactly
\* one place: a reply list, the retry queue, the list that waits for the slot
\* table, an outstanding ASKING, or one call that is under way.  So none is
\* lost without an answer through all redirections, reloads and nested calls.
EachCommandHeldOnce ==
  \A c \in CmdIds : cmd_st[c] = "live" /\ ~LoadCmd(c) => Holders(c) = 1

\* `list' has the commands of the on_reply callbacks in hiredis's queue q, in the
\* same order.  ASKING is left out: it stands for a command that is on no
\* connection.
InOrder(list, q) ==
  LET sent == {i \in DOMAIN q : q[i].fn = "on_reply"} IN
  \E at \in [DOMAIN list -> sent] :
    /\ \A i \in DOMAIN list : q[at[i]].c = list[i]
    /\ \A i, j \in DOMAIN list : i < j => at[i] < at[j]
    /\ sent = {at[i] : i \in DOMAIN list}

\* While a connection is in use, its reply list is the queue hiredis keeps,
\* preceded by the command whose reply is being delivered, whatever ASKING
\* replies come in between: pop_reply never gives up an earlier command.
ReplyListMatchesHiredis ==
  \A k \in ConnIds : conn_st[k] = "live" /\ conn_status_[k] # "DISCONNECTED" =>
    LET list == reply_list_[k] IN
    \/ Delivering(k) = {} /\ InOrder(list, replies[k])
    \/ /\ list # <<>> /\ Delivering(k) = {Head(list)}
       /\ InOrder(Tail(list), replies[k])

\* The connection map and the connection objects agree: a connection is alive
\* exactly as long as the map leads to it from its own server, so none is
\* leaked, and none is replaced while another one is being released.
MapMatchesConnections ==
  \A k \in ConnIds : conn_st[k] = "live" <=> connections_[server_of[k]] = k

\* The assertion in cluster::proc (happ_cluster.cpp:743), and what it takes for
\* granted: a connection that has timed out still has its context, hiredis is
\* not in one of its callbacks, and it has never been connected.
TimeoutHitsConnecting ==
  At("proc_conn") /\ Due =>
    LET k == connections_[Head(timer_conns).server] IN
    Expired(k) => context_[k] /\ ~in_callback[k] /\ conn_status_[k] = "CONNECTING"

\* A connection does not disappear silently: its end is reported by
\* on_connected (with an error) or on_disconnected.
EndIsReported ==
  \A k \in ConnIds :
    conn_st[k] = "freed" => notified[k] \cap {"failed", "disconnected"} # {}

\* With a password set, no command overtakes the AUTH command of its
\* connection, although the on_connect callback may send some, and a callback
\* of reload_slots, ASK or exec finds the connection in the map at once.
NothingOvertakesAuth ==
  \A k \in ConnIds : Auth /\ replies[k] # <<>> =>
    Head(replies[k]).c = AuthCmd(k) \/ AuthCmd(k) \in Delivering(k) \/ calls[AuthCmd(k)] = 1

\* Whenever the event loop waits, no command waits for a table that is there.
NobodyWaitsForTable ==
  stack = <<>> /\ slot_pending_ # <<>> => slot_flag_ # "OK"

\* Whenever the event loop waits for a reload of the table, a CLUSTER SLOTS
\* command is on its way; else all commands would wait for ever.
UpdatingHasLoad ==
  stack = <<>> /\ slot_flag_ = "UPDATING" =>
    \E k \in ConnIds : \E e \in Elems(replies[k]) : LoadCmd(e.c)

\* The commands of the application lead the life that Lifecycle describes.
L == INSTANCE Lifecycle WITH Cmds <- 1 .. MaxCmds, life <- [c \in 1 .. MaxCmds |-> lifeOf[c]]
ImplementsLifecycle == L!Spec

\* "ASK only holds for the next command" (doc/code-review-2026-05-26.md:10):
\* nothing is sent on the connection between ASKING and the command it is for.
AskingComesFirst == At("exec_conn") /\ Top.a = "ask" => replies[Top.k] = <<>>

\* "retry if disconnecting will lead to a infinite loop" (happ_cluster.cpp:802),
\* and must not happen: a CLUSTER SLOTS command that is refused by a connection
\* never leads, inside of the same call, to another one for that connection.
NoReloadLoop ==
  \A i, j \in DOMAIN stack :
    i < j /\ stack[i].op = "reload_end" /\ stack[j].op = "reload_end" => stack[i].k # stack[j].k

-----------------------------------------------------------------------------
(* Liveness                                                                *)

\* Every command the application sends is called back and destroyed in the end,
\* through MOVED, ASK, TRYAGAIN, the wait for the slot table, lost connections
\* and reset(): every way round uses up TTL or is taken finitely often.
EveryCommandEnds ==
  \A c \in 1 .. MaxCmds : cmd_st[c] = "live" ~> cmd_st[c] = "freed"

\* Every call of the library returns to the event loop: sending the commands
\* that waited for the table ("or there will be a infinite loop",
\* happ_cluster.cpp:1034), the mutual recursion of exec, retry and reload_slots,
\* and the loops of reset and proc all end.
EveryCallReturns == []<>(stack = <<>> \/ ub)

=============================================================================
