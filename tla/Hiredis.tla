------------------------------ MODULE Hiredis ------------------------------
(***************************************************************************)
(* The asynchronous API of hiredis, as far as hiredis-happ depends on it   *)
(* (external: hiredis is not part of the repository).  A context keeps a   *)
(* FIFO of callbacks, one per command sent: a function and its privdata,   *)
(* the cmd_exec.  What is assumed of it is what the repository relies on:  *)
(*                                                                         *)
(*   - replies arrive in the order the commands were sent;                 *)
(*   - redisAsyncDisconnect() frees the context at once only if no reply   *)
(*     is outstanding and no callback is running, else after the           *)
(*     outstanding replies (doc/code-review-2026-05-26.md, P0;             *)
(*     happ_raw.cpp:107-110);                                              *)
(*   - a context that is disconnecting refuses commands;                   *)
(*   - when the connection breaks every outstanding callback is called     *)
(*     with reply == nullptr, and then the disconnect callback, but only   *)
(*     of a context that had been connected (design document, "network     *)
(*     failure"; happ_raw.cpp:225).                                        *)
(*                                                                         *)
(* Newer versions mark a broken context as disconnecting before they call  *)
(* its outstanding callbacks, older ones do not: ErrSetsDisconnecting.     *)
(***************************************************************************)
EXTENDS CmdExec

CONSTANT ErrSetsDisconnecting
ASSUME VersionAssumption == ErrSetsDisconnecting \in BOOLEAN

VARIABLES
  disconnecting,      \* REDIS_DISCONNECTING
  in_callback,        \* REDIS_IN_CALLBACK
  ctx_err,            \* c->err
  replies             \* the callback FIFO

hiredisVars == <<ctx_st, disconnecting, in_callback, ctx_err, replies>>

\* An entry of the FIFO: the callback function and its privdata.
CallbackEntry == [fn : {"on_reply", "on_reply_asking"}, c : CmdIds]

HiredisTypeOK ==
  /\ disconnecting \in [ConnIds -> BOOLEAN]
  /\ in_callback \in [ConnIds -> BOOLEAN]
  /\ ctx_err \in [ConnIds -> {"OK", "IO", "OTHER"}]
  /\ replies \in [ConnIds -> Seq(CallbackEntry)]

HiredisInit ==
  /\ disconnecting = [k \in ConnIds |-> FALSE]
  /\ in_callback = [k \in ConnIds |-> FALSE]
  /\ ctx_err = [k \in ConnIds |-> "OK"]
  /\ replies = [k \in ConnIds |-> <<>>]

\* redisAsyncConnect: a new context, not yet connected.
redisAsyncConnect(k) ==
  /\ ctx_st' = [ctx_st EXCEPT ![k] = "connecting"]
  /\ UNCHANGED <<disconnecting, in_callback, ctx_err, replies>>

\* redisAsyncFormattedCommand: accepted unless the context is going away.
Accepts(k) == ~disconnecting[k]
redisAsyncFormattedCommand(k, fn, c) ==
  /\ replies' = [replies EXCEPT ![k] = Append(@, [fn |-> fn, c |-> c])]
  /\ UNCHANGED <<ctx_st, disconnecting, in_callback, ctx_err>>

\* redisAsyncDisconnect
redisAsyncDisconnect ==
  LET k == Top.k IN
  /\ At("redisAsyncDisconnect")
  /\ disconnecting' = [disconnecting EXCEPT ![k] = TRUE]
  /\ Continue(IF ~in_callback[k] /\ replies[k] = <<>>
              THEN <<F("h_free", 0, k, "none")>> ELSE <<>>)
  /\ UNCHANGED <<ctx_st, in_callback, ctx_err, replies>>

-----------------------------------------------------------------------------
\* Events of the network, delivered by the event loop.

\* The connection is established: the connect callback is called with OK.
ConnectDone(k) ==
  /\ InLoop
  /\ ctx_st[k] = "connecting"
  /\ ctx_st' = [ctx_st EXCEPT ![k] = "connected"]
  /\ in_callback' = [in_callback EXCEPT ![k] = TRUE]
  /\ Call(<<F("on_connected", 0, k, "OK"), F("h_connect_end", 0, k, "none")>>)
  /\ UNCHANGED <<disconnecting, ctx_err, replies>>

\* After the connect callback: a disconnect asked for meanwhile is done now.
ConnectEnd ==
  LET k == Top.k IN
  /\ At("h_connect_end")
  /\ in_callback' = [in_callback EXCEPT ![k] = FALSE]
  /\ Continue(IF disconnecting[k] /\ replies[k] = <<>>
              THEN <<F("h_free", 0, k, "none")>> ELSE <<>>)
  /\ UNCHANGED <<ctx_st, disconnecting, ctx_err, replies>>

\* The connection attempt fails: the connect callback is called with an
\* error, then the context is freed.
ConnectFailed(k) ==
  /\ InLoop
  /\ ctx_st[k] = "connecting"
  /\ ctx_err' = [ctx_err EXCEPT ![k] = "IO"]
  /\ in_callback' = [in_callback EXCEPT ![k] = TRUE]
  /\ Call(<<F("on_connected", 0, k, "IO"), F("h_connect_failed", 0, k, "none")>>)
  /\ UNCHANGED <<ctx_st, disconnecting, replies>>

ConnectFailedEnd ==
  LET k == Top.k IN
  /\ At("h_connect_failed")
  /\ in_callback' = [in_callback EXCEPT ![k] = FALSE]
  /\ disconnecting' = [disconnecting EXCEPT ![k] = @ \/ ErrSetsDisconnecting]
  /\ Continue(<<F("h_free", 0, k, "none")>>)
  /\ UNCHANGED <<ctx_st, ctx_err, replies>>

\* The call of the oldest callback with reply r.
ReplyFrame(k, r) == F(Head(replies[k]).fn, Head(replies[k]).c, k, r)

\* A reply arrives for the oldest outstanding command.
ReplyArrives(k, r) ==
  /\ InLoop
  /\ ctx_st[k] = "connected"
  /\ replies[k] # <<>>
  /\ replies' = [replies EXCEPT ![k] = Tail(@)]
  /\ in_callback' = [in_callback EXCEPT ![k] = TRUE]
  /\ Call(<<ReplyFrame(k, r), F("h_reply_end", 0, k, "none")>>)
  /\ UNCHANGED <<ctx_st, disconnecting, ctx_err>>

\* After the last outstanding callback a disconnecting context is freed.
ReplyEnd ==
  LET k == Top.k IN
  /\ At("h_reply_end")
  /\ in_callback' = [in_callback EXCEPT ![k] = FALSE]
  /\ Continue(IF disconnecting[k] /\ replies[k] = <<>>
              THEN <<F("h_free", 0, k, "none")>> ELSE <<>>)
  /\ UNCHANGED <<ctx_st, disconnecting, ctx_err, replies>>

\* The connection breaks (IO stands for REDIS_ERR_IO and REDIS_ERR_EOF) or
\* its input is not understood (OTHER).
ConnectionLost(k, e) ==
  /\ InLoop
  /\ ctx_st[k] = "connected"
  /\ ctx_err' = [ctx_err EXCEPT ![k] = e]
  /\ disconnecting' = [disconnecting EXCEPT ![k] = @ \/ ErrSetsDisconnecting]
  /\ Call(<<F("h_free", 0, k, "none")>>)
  /\ UNCHANGED <<ctx_st, in_callback, replies>>

\* Free a context: its outstanding callbacks are called with nullptr ...
FreeContext ==
  LET k == Top.k IN
  /\ At("h_free")
  /\ in_callback' = [in_callback EXCEPT ![k] = TRUE]
  /\ IF replies[k] # <<>>
     THEN /\ replies' = [replies EXCEPT ![k] = Tail(@)]
          /\ Continue(<<ReplyFrame(k, "null"), Top>>)
     ELSE /\ UNCHANGED replies
          /\ Continue((IF ctx_st[k] = "connected"
                       THEN <<F("on_disconnected", 0, k, ctx_err[k])>> ELSE <<>>)
                      \o <<F("h_free_end", 0, k, "none")>>)
  /\ UNCHANGED <<ctx_st, disconnecting, ctx_err>>

\* ... and after the disconnect callback its memory is returned.
FreeContextEnd ==
  LET k == Top.k IN
  /\ At("h_free_end")
  /\ ctx_st' = [ctx_st EXCEPT ![k] = "freed"]
  /\ in_callback' = [in_callback EXCEPT ![k] = FALSE]
  /\ Return
  /\ UNCHANGED <<disconnecting, ctx_err, replies>>

=============================================================================
