------------------------------ MODULE Runtime ------------------------------
(***************************************************************************)
(* hiredis-happ runs on one event-loop thread, and everything that makes   *)
(* it hard happens inside one call: a handler calls the application back,  *)
(* and the callback calls the library again before the handler goes on.    *)
(* This module is what the C++ run time contributes: the call stack and    *)
(* the lifetime of the objects on the heap.                                *)
(*                                                                         *)
(* A frame names the code that runs next when the frame is on top; a       *)
(* function that makes a call replaces its frame by the callee's frame     *)
(* followed by one for what it does after the call.  Only the top frame    *)
(* takes a step, so the interleavings are exactly those of nested          *)
(* callbacks, and an empty stack means that the event loop is waiting.     *)
(*                                                                         *)
(* `ub' becomes TRUE when the top frame uses an object that has been freed *)
(* (or a context_ that is null).  Nothing is specified after that: the     *)
(* other properties speak about executions up to that point.               *)
(***************************************************************************)
EXTENDS Naturals, Sequences

CONSTANTS MaxCmds,    \* bound: commands the application creates
          MaxConns,   \* bound: connection objects, each with its context
          MaxLoads    \* bound: CLUSTER SLOTS commands that exist at a time

ASSUME BoundsAssumption == MaxCmds \in Nat /\ MaxConns \in Nat /\ MaxLoads \in Nat

\* One AUTH command per connection comes on top of the application's own,
\* and the cluster client's CLUSTER SLOTS commands.
\* A connection object and the hiredis context it is created for share an
\* identity: make_connection() makes them together, and c->data of context k
\* points to connection k for good.
ConnIds == 1 .. MaxConns
CmdIds  == 1 .. (MaxCmds + MaxConns + MaxLoads)
UserCmd(c) == c <= MaxCmds
AuthCmd(k) == MaxCmds + k
LoadCmd(c) == c > MaxCmds + MaxConns

VARIABLES
  stack,              \* the call stack, innermost frame first
  ub,                 \* a freed object has been used
  cmd_st,             \* each cmd_exec: not created, live or freed
  conn_st,            \* each connection object, likewise
  ctx_st,             \* each redisAsyncContext; REDIS_CONNECTED is a state of it
  context_            \* connection::context_ is not null

stackVars == <<stack, ub>>

ObjectStates  == {"none", "live", "freed"}
ContextStates == {"none", "connecting", "connected", "freed"}

Ops ==
  { "user",                                          \* application code
    "exec", "exec_failed", "exec_conn", "retry", "destroy_cmd",   \* raw, cluster
    "release_connection", "release_event", "release_end",
    "reset", "proc", "proc_conn", "proc_clear",
    "reload_slots", "reload_exec", "reload_end",     \* cluster
    "on_reply_update_slot", "run_pending",
    "on_reply_asking", "ask_pop", "asking", "reset_begin", "reset_slots",
    "on_reply", "on_connected", "on_connected_end", "on_disconnected",
    "call_reply", "pop_reply", "destroy",            \* connection, cmd_exec
    "connection_release",
    "redisAsyncDisconnect", "h_free", "h_free_end",  \* hiredis
    "h_reply_end", "h_connect_end", "h_connect_failed" }

\* The extra argument of a frame.
Args == { "none", "close", "keep",                   \* close_fd
          "OK", "IO", "OTHER",                       \* hiredis error codes
          "ok", "error", "null",                     \* the reply, or nullptr
          "MOVED", "ASK", "TRYAGAIN", "CLUSTERDOWN",
          "retry", "ask",                            \* what pop_reply is called for
          "CONNECTING", "CONNECTED",                 \* from_status
          "on_connect", "on_connected", "on_disconnected" }

Frame == [op : Ops, c : CmdIds \cup {0}, k : ConnIds \cup {0}, a : Args]

F(op, c, k, a) == [op |-> op, c |-> c, k |-> k, a |-> a]

RuntimeTypeOK ==
  /\ stack \in Seq(Frame)
  /\ ub \in BOOLEAN
  /\ cmd_st \in [CmdIds -> ObjectStates]
  /\ conn_st \in [ConnIds -> ObjectStates]
  /\ ctx_st \in [ConnIds -> ContextStates]
  /\ context_ \in [ConnIds -> BOOLEAN]

RuntimeInit ==
  /\ stack = <<>>
  /\ ub = FALSE
  /\ cmd_st = [c \in CmdIds |-> "none"]
  /\ conn_st = [k \in ConnIds |-> "none"]
  /\ ctx_st = [k \in ConnIds |-> "none"]
  /\ context_ = [k \in ConnIds |-> FALSE]

Top  == Head(stack)
Rest == Tail(stack)

-----------------------------------------------------------------------------
\* What the code of a frame dereferences.
UsesCmd  == {"exec", "exec_failed", "exec_conn", "retry", "destroy_cmd", "destroy", "on_reply",
             "on_reply_asking", "on_reply_update_slot"}
UsesConn == {"exec_conn", "on_reply", "on_connected", "on_connected_end",
             "on_disconnected", "call_reply", "pop_reply", "connection_release",
             "on_reply_asking", "ask_pop", "asking", "reload_exec"}

Dangling(f) ==
  \/ f.op \in UsesCmd /\ cmd_st[f.c] = "freed"
  \/ f.op \in UsesConn /\ conn_st[f.k] = "freed"
  \/ f.op = "exec_conn" /\ context_[f.k] /\ ctx_st[f.k] = "freed"
  \/ f.op = "asking" /\ (~context_[f.k] \/ ctx_st[f.k] = "freed")
  \/ f.op = "pop_reply" /\ f.a \notin {"retry", "ask"} /\ ~context_[f.k]
  \/ f.op = "redisAsyncDisconnect" /\ ctx_st[f.k] = "freed"

Running == ~ub /\ stack # <<>>

At(op) == Running /\ Top.op = op /\ ~Dangling(Top)

\* The application may call the library from the event loop or from inside
\* one of its callbacks.
InLoop == ~ub /\ stack = <<>>
InUser == InLoop \/ At("user")

\* Replace the top frame (a call and what follows it, or a return).
Continue(frames) == stack' = frames \o Rest /\ UNCHANGED ub
\* A call from the event loop or from application code.
Call(frames)     == stack' = frames \o stack /\ UNCHANGED ub
Return           == stack' = Rest /\ UNCHANGED ub

\* The top frame uses a freed object.
UseAfterFree ==
  /\ Running
  /\ Dangling(Top)
  /\ ub' = TRUE
  /\ UNCHANGED <<stack, cmd_st, conn_st, ctx_st, context_>>

=============================================================================
