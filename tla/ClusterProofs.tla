--------------------------- MODULE ClusterProofs ---------------------------
(***************************************************************************)
(* Proofs about Cluster, for any number of commands, connections, servers, *)
(* slots and seconds, any TTL, both kinds of hiredis and every             *)
(* environment: types, the refinement of Lifecycle, and what becomes of    *)
(* connections, their timeouts and the commands that wait for the table.   *)
(*                                                                         *)
(* The type invariant is not inductive as it stands: a frame must also     *)
(* refer to the object its code works on, and to a command that has been   *)
(* created.  So the stack is a sequence of frames that are good in the     *)
(* current state.                                                          *)
(***************************************************************************)
EXTENDS Cluster, ConnectionProofs, SlotTableProofs

-----------------------------------------------------------------------------
(* The inductive invariant                                                 *)

CmdOps  == {"exec", "exec_failed", "exec_conn", "retry", "destroy_cmd", "destroy",
            "on_reply", "call_reply", "pop_reply", "on_reply_asking", "ask_pop", "asking",
            "on_reply_update_slot"}
ConnOps == {"exec_conn", "release_connection", "release_event", "release_end", "on_reply",
            "on_connected", "on_connected_end", "on_disconnected", "call_reply", "pop_reply",
            "connection_release", "redisAsyncDisconnect", "h_free", "h_free_end", "h_reply_end",
            "h_connect_end", "h_connect_failed", "on_reply_asking", "ask_pop", "asking",
            "reload_exec", "reload_end"}

\* The frames that refer to what their code works on, given the commands that
\* have been created; the callback of a command about to be destroyed has been
\* called.
Good(created, cb) ==
  {f \in Frame :
     /\ f.op \in CmdOps => f.c \in created
     /\ f.op \in ConnOps => f.k \in ConnIds
     /\ f.op \in {"on_reply", "call_reply", "on_reply_asking"} => f.a \in Replies
     /\ f.op = "pop_reply" => f.a \in Replies \cup {"retry", "ask"}
     /\ f.op = "on_connected" => f.a \in {"OK", "IO", "OTHER"}
     /\ f.op = "destroy" => ~cb[f.c]}

GoodFrame == Good(Created, callback_)

StackPart == stack \in Seq(GoodFrame) /\ ub \in BOOLEAN

\* What cluster hands to hiredis: a callback with a command.
Entries == [fn : {"on_reply", "on_reply_asking"}, c : Created]

QueuePart ==
  /\ replies \in [ConnIds -> Seq(Entries)]
  /\ reply_list_ \in [ConnIds -> Seq(Created)]
  /\ timer_pending \in Seq([at : Nat, cmd : Created])
  /\ slot_pending_ \in Seq(Created)

ContextPart ==
  /\ ctx_st \in [ConnIds -> ContextStates]
  /\ disconnecting \in [ConnIds -> BOOLEAN]
  /\ in_callback \in [ConnIds -> BOOLEAN]
  /\ ctx_err \in [ConnIds -> {"OK", "IO", "OTHER"}]

ConnPart ==
  /\ conn_st \in [ConnIds -> ObjectStates]
  /\ context_ \in [ConnIds -> BOOLEAN]
  /\ conn_status_ \in [ConnIds -> Statuses]
  /\ sequence_ \in [ConnIds -> Nat]
  /\ seq_alloc \in Nat

TablePart ==
  /\ slot_flag_ \in {"INVALID", "UPDATING", "OK"}
  /\ slots_ \in [Slots -> Seq(Servers)]
  /\ slot \in [CmdIds -> Slots \cup {-1}]

MapPart ==
  /\ connections_ \in [Servers -> ConnIds \cup {0}]
  /\ server_of \in [ConnIds -> Servers]
  /\ ncmd \in 0 .. MaxCmds /\ nconn \in 0 .. MaxConns
  /\ notified \in [ConnIds -> SUBSET Events]

TimePart ==
  /\ last_update \in Nat /\ now \in Nat
  /\ timer_conns \in Seq(Expiry)

\* Commands of the application and AUTH commands are created in order.
FreshPart ==
  \A c \in CmdIds :
    (c <= MaxCmds /\ c > ncmd) \/ (c > MaxCmds + nconn /\ ~LoadCmd(c)) => cmd_st[c] = "none"

IndInv ==
  CmdPart /\ StackPart /\ QueuePart /\ ContextPart /\ ConnPart /\ TablePart /\ MapPart
    /\ TimePart /\ FreshPart

-----------------------------------------------------------------------------
(* Frames and the stack                                                    *)

\* Steps that leave the commands alone keep the good frames.
LEMMA SameGood ==
  ASSUME CmdPart', Created' = Created, UNCHANGED callback_
  PROVE  GoodFrame' = GoodFrame
  BY DEF GoodFrame

LEMMA CmdsUnchanged ==
  ASSUME CmdPart, UNCHANGED cmdVars
  PROVE  CmdPart' /\ Created' = Created /\ GoodFrame' = GoodFrame
  <1>1. CmdPart' /\ Created' = Created
    BY SameCommands DEF CmdPart, CmdTypeOK, cmdVars
  <1> QED
    BY <1>1 DEF GoodFrame, cmdVars

LEMMA MoreGood ==
  ASSUME Created \subseteq Created', \A d \in Created : callback_'[d] => callback_[d]
  PROVE  GoodFrame \subseteq GoodFrame'
  <1> SUFFICES ASSUME NEW f \in GoodFrame PROVE f \in GoodFrame'
    OBVIOUS
  <1>1. f.op = "destroy" => ~callback_'[f.c]
    BY DEF GoodFrame, Good, CmdOps
  <1> QED
    BY <1>1 DEF GoodFrame, Good

\* Calling a command back keeps the good frames, and its own frame is good.
LEMMA CmdCalledBack ==
  ASSUME CmdPart, NEW c \in Created, NEW code \in ErrorCodes, NEW r \in Replies,
         cmd_call_reply(c, code, r), UNCHANGED cmd_st, ttl_' \in [CmdIds -> 0 .. TTL]
  PROVE  /\ CmdPart' /\ Created' = Created /\ GoodFrame \subseteq GoodFrame'
         /\ ~callback_'[c]
         /\ CallbackFrames(c, r) \in Seq(GoodFrame')
  <1>1. CmdPart' /\ Created' = Created /\ ~callback_'[c]
        /\ \A d \in CmdIds : callback_'[d] => callback_[d]
    BY CalledBack
  <1>2. GoodFrame \subseteq GoodFrame'
    BY <1>1, MoreGood DEF Created
  <1>3. c \in CmdIds /\ c \in Created'
    BY <1>1 DEF Created
  <1>5. F("user", c, 0, "none") \in GoodFrame' /\ F("on_reply_update_slot", c, 0, r) \in GoodFrame'
    BY <1>3 DEF GoodFrame, Good, F, Frame, Ops, Args, CmdOps, ConnOps, Replies
  <1> QED
    BY <1>1, <1>2, <1>5, OneType, EmptyType DEF CallbackFrames

\* Creating a fresh command keeps the good frames.
LEMMA CmdCreated ==
  ASSUME CmdPart, NEW c \in CmdIds, cmd_st[c] = "none", create(c)
  PROVE  /\ CmdPart' /\ Created' = Created \cup {c} /\ GoodFrame \subseteq GoodFrame'
  <1>1. CmdPart' /\ Created' = Created \cup {c}
        /\ \A d \in CmdIds \ {c} : callback_'[d] = callback_[d]
    BY NewCommand
  <1>2. c \notin Created /\ \A d \in Created : d \in CmdIds \ {c}
    BY DEF Created
  <1> QED
    BY <1>1, <1>2, MoreGood

\* The frames the actions push.
LEMMA CmdFramesGood ==
  ASSUME NEW created \in SUBSET CmdIds, NEW cb, NEW c \in created
  PROVE  /\ F("exec", c, 0, "none") \in Good(created, cb)
         /\ F("exec_failed", c, 0, "none") \in Good(created, cb)
         /\ F("retry", c, 0, "none") \in Good(created, cb)
         /\ F("destroy_cmd", c, 0, "none") \in Good(created, cb)
         /\ ~cb[c] => F("destroy", c, 0, "none") \in Good(created, cb)
  BY DEF Good, F, Frame, Ops, Args, CmdOps, ConnOps

LEMMA ReplyFramesGood ==
  ASSUME NEW created \in SUBSET CmdIds, NEW cb, NEW c \in created, NEW k \in ConnIds,
         NEW r \in Replies
  PROVE  /\ \A a \in Args : F("exec_conn", c, k, a) \in Good(created, cb)
         /\ F("on_reply", c, k, r) \in Good(created, cb)
         /\ F("on_reply_asking", c, k, r) \in Good(created, cb)
         /\ F("call_reply", c, k, r) \in Good(created, cb)
         /\ F("pop_reply", c, k, r) \in Good(created, cb)
         /\ F("pop_reply", c, k, "retry") \in Good(created, cb)
         /\ F("pop_reply", c, k, "ask") \in Good(created, cb)
         /\ F("ask_pop", c, k, "none") \in Good(created, cb)
         /\ F("asking", c, k, "none") \in Good(created, cb)
         /\ F("retry", c, k, "ask") \in Good(created, cb)
  BY DEF Good, F, Frame, Ops, Args, CmdOps, ConnOps, Replies

LEMMA ConnFramesGood ==
  ASSUME NEW created, NEW cb, NEW k \in ConnIds
  PROVE  /\ \A a \in {"on_connect", "on_connected", "on_disconnected"} :
              F("user", 0, k, a) \in Good(created, cb)
         /\ \A a \in {"close", "keep"} : F("release_connection", 0, k, a) \in Good(created, cb)
         /\ \A a \in {"CONNECTING", "CONNECTED"} :
              F("release_event", 0, k, a) \in Good(created, cb)
         /\ F("release_end", 0, k, "none") \in Good(created, cb)
         /\ F("connection_release", 0, k, "none") \in Good(created, cb)
         /\ F("redisAsyncDisconnect", 0, k, "none") \in Good(created, cb)
         /\ F("reload_exec", 0, k, "none") \in Good(created, cb)
         /\ F("reload_end", 0, k, "none") \in Good(created, cb)
  BY DEF Good, F, Frame, Ops, Args, CmdOps, ConnOps

LEMMA HiredisFramesGood ==
  ASSUME NEW created, NEW cb, NEW k \in ConnIds
  PROVE  /\ \A a \in {"OK", "IO", "OTHER"} :
              /\ F("on_connected", 0, k, a) \in Good(created, cb)
              /\ F("on_connected_end", 0, k, a) \in Good(created, cb)
              /\ F("on_disconnected", 0, k, a) \in Good(created, cb)
         /\ F("h_free", 0, k, "none") \in Good(created, cb)
         /\ F("h_free_end", 0, k, "none") \in Good(created, cb)
         /\ F("h_reply_end", 0, k, "none") \in Good(created, cb)
         /\ F("h_connect_end", 0, k, "none") \in Good(created, cb)
         /\ F("h_connect_failed", 0, k, "none") \in Good(created, cb)
  BY DEF Good, F, Frame, Ops, Args, CmdOps, ConnOps

LEMMA LoopFramesGood ==
  ASSUME NEW created, NEW cb
  PROVE  /\ F("reset_begin", 0, 0, "none") \in Good(created, cb)
         /\ F("reset_slots", 0, 0, "none") \in Good(created, cb)
         /\ F("reset", 0, 0, "none") \in Good(created, cb)
         /\ F("proc", 0, 0, "none") \in Good(created, cb)
         /\ F("proc_conn", 0, 0, "none") \in Good(created, cb)
         /\ F("proc_clear", 0, 0, "none") \in Good(created, cb)
         /\ F("reload_slots", 0, 0, "none") \in Good(created, cb)
         /\ F("run_pending", 0, 0, "none") \in Good(created, cb)
  BY DEF Good, F, Frame, Ops, Args, CmdOps, ConnOps

\* The top frame is good, and so is the stack after a call or a return.
LEMMA TopGood ==
  ASSUME StackPart, NEW op, At(op)
  PROVE  stack # <<>> /\ Top \in GoodFrame /\ Top.op = op
  BY TailType DEF StackPart, At, Running, Top

LEMMA TopCmd ==
  ASSUME StackPart, NEW op, At(op)
  PROVE  /\ stack # <<>> /\ Top \in GoodFrame /\ Top.op = op
         /\ op \in CmdOps => Top.c \in Created /\ Top.c \in CmdIds
         /\ op \in ConnOps => Top.k \in ConnIds
  BY TopGood DEF GoodFrame, Good, Created

LEMMA ContinueGood ==
  ASSUME StackPart, stack # <<>>, GoodFrame \subseteq GoodFrame',
         NEW fs \in Seq(GoodFrame'), Continue(fs)
  PROVE  StackPart'
  <1>1. Tail(stack) \in Seq(GoodFrame')
    BY TailType, SeqMono DEF StackPart
  <1> QED
    BY <1>1, ConcatType DEF Continue, Rest, StackPart

LEMMA ReturnGood ==
  ASSUME StackPart, stack # <<>>, GoodFrame \subseteq GoodFrame', Return
  PROVE  StackPart'
  BY TailType, SeqMono DEF StackPart, Return, Rest

LEMMA CallGood ==
  ASSUME StackPart, GoodFrame \subseteq GoodFrame', NEW fs \in Seq(GoodFrame'), Call(fs)
  PROVE  StackPart'
  <1>1. stack \in Seq(GoodFrame')
    BY SeqMono DEF StackPart
  <1> QED
    BY <1>1, ConcatType DEF Call, StackPart

\* What does not change stays within its type.
LEMMA QueuesUnchanged ==
  ASSUME QueuePart, Created \subseteq Created',
         UNCHANGED <<replies, reply_list_, timer_pending, slot_pending_>>
  PROVE  QueuePart'
  <1>1. Seq(Created) \subseteq Seq(Created')
    BY SeqMono
  <1>2. timer_pending \in Seq([at : Nat, cmd : Created'])
    <2>1. [at : Nat, cmd : Created] \subseteq [at : Nat, cmd : Created']
      OBVIOUS
    <2> QED
      BY <2>1, SeqMono DEF QueuePart
  <1>3. reply_list_ \in [ConnIds -> Seq(Created')] /\ slot_pending_ \in Seq(Created')
    BY <1>1 DEF QueuePart
  <1>4. replies \in [ConnIds -> Seq(Entries')]
    <2>1. Entries \subseteq Entries'
      BY DEF Entries
    <2>2. Seq(Entries) \subseteq Seq(Entries')
      BY <2>1, SeqMono
    <2> QED
      BY <2>2 DEF QueuePart
  <1> QED
    BY <1>2, <1>3, <1>4 DEF QueuePart

LEMMA ContextsUnchanged ==
  ASSUME ContextPart, UNCHANGED <<ctx_st, disconnecting, in_callback, ctx_err>>
  PROVE  ContextPart'
  BY DEF ContextPart

LEMMA ConnsUnchanged ==
  ASSUME ConnPart, UNCHANGED <<conn_st, context_, conn_status_, sequence_, seq_alloc>>
  PROVE  ConnPart'
  BY DEF ConnPart

LEMMA TableUnchanged ==
  ASSUME TablePart, UNCHANGED <<slot_flag_, slots_, slot>>
  PROVE  TablePart'
  BY DEF TablePart

LEMMA MapUnchanged ==
  ASSUME MapPart, UNCHANGED <<mapVars, ncmd>>
  PROVE  MapPart'
  BY DEF MapPart, mapVars

LEMMA TimesUnchanged ==
  ASSUME TimePart, UNCHANGED <<last_update, timer_conns, now>>
  PROVE  TimePart'
  BY DEF TimePart

LEMMA FreshUnchanged ==
  ASSUME FreshPart, Created' = Created, UNCHANGED <<ncmd, nconn>>
  PROVE  FreshPart'
  BY DEF FreshPart, Created

\* A step that moves the stack and the commands only.
LEMMA OnlyCmdsMove ==
  ASSUME IndInv, CmdPart', Created' = Created, StackPart',
         UNCHANGED <<hiredisVars, connVars, clusterVars>>
  PROVE  IndInv'
  BY QueuesUnchanged, ContextsUnchanged, ConnsUnchanged, TableUnchanged, MapUnchanged,
     TimesUnchanged, FreshUnchanged
  DEF IndInv, hiredisVars, connVars, clusterVars, tableVars, mapVars, timerVars

\* The queues change too.
LEMMA QueuesMove ==
  ASSUME IndInv, CmdPart', Created' = Created, StackPart', QueuePart',
         UNCHANGED <<ctx_st, disconnecting, in_callback, ctx_err, conn_st, context_,
                     conn_status_, sequence_, seq_alloc, slot_flag_, slots_, slot, mapVars,
                     last_update, timer_conns, now, ncmd>>
  PROVE  IndInv'
  BY ContextsUnchanged, ConnsUnchanged, TableUnchanged, MapUnchanged,
     TimesUnchanged, FreshUnchanged DEF IndInv, mapVars

\* The table changes too.
LEMMA TableMoves ==
  ASSUME IndInv, CmdPart', Created' = Created, StackPart', QueuePart', TablePart', TimePart',
         UNCHANGED <<ctx_st, disconnecting, in_callback, ctx_err, conn_st, context_,
                     conn_status_, sequence_, seq_alloc, mapVars, ncmd>>
  PROVE  IndInv'
  BY ContextsUnchanged, ConnsUnchanged, MapUnchanged, FreshUnchanged DEF IndInv, mapVars

\* The common step: a callback is called, and the command will be destroyed.
LEMMA CallBackStep ==
  ASSUME CmdPart, StackPart, stack # <<>>,
         NEW c \in Created, NEW code \in ErrorCodes, NEW r \in Replies,
         NEW op \in {"destroy", "destroy_cmd"},
         NEW fs \in {<<F(op, c, 0, "none")>>, <<F(op, c, 0, "none"), Top>>},
         CallBack(c, code, r, fs)
  PROVE  CmdPart' /\ Created' = Created /\ GoodFrame \subseteq GoodFrame' /\ StackPart'
  <1>1. ttl_' \in [CmdIds -> 0 .. TTL]
    BY DEF CallBack, CmdPart, CmdTypeOK
  <1>2. /\ CmdPart' /\ Created' = Created /\ GoodFrame \subseteq GoodFrame'
        /\ ~callback_'[c]
        /\ CallbackFrames(c, r) \in Seq(GoodFrame')
    BY <1>1, CmdCalledBack DEF CallBack
  <1>3. F(op, c, 0, "none") \in GoodFrame'
    <2>1. Created' \in SUBSET CmdIds /\ c \in Created'
      BY <1>2 DEF Created
    <2> QED
      BY <1>2, <2>1, CmdFramesGood DEF GoodFrame
  <1>4. Top \in GoodFrame'
    BY <1>2, TailType DEF StackPart, Top
  <1>5. fs \in Seq(GoodFrame')
    BY <1>3, <1>4, OneType, TwoType
  <1>6. CallbackFrames(c, r) \o fs \in Seq(GoodFrame')
    BY <1>2, <1>5, ConcatType
  <1>7. StackPart'
    BY <1>2, <1>6, ContinueGood DEF CallBack
  <1> QED
    BY <1>2, <1>7

\* A call goes on with other frames and the commands stay as they are.
LEMMA MoveStep ==
  ASSUME CmdPart, StackPart, stack # <<>>, UNCHANGED cmdVars,
         NEW fs \in Seq(GoodFrame), Continue(fs) \/ Return
  PROVE  CmdPart' /\ Created' = Created /\ StackPart'
  <1>1. CmdPart' /\ Created' = Created /\ GoodFrame' = GoodFrame
    BY CmdsUnchanged
  <1>2. CASE Continue(fs)
    BY <1>1, <1>2, ContinueGood
  <1>3. CASE Return
    BY <1>1, <1>3, ReturnGood
  <1> QED
    BY <1>1, <1>2, <1>3

LEMMA BackStep ==
  ASSUME CmdPart, StackPart, stack # <<>>, UNCHANGED cmdVars, Return
  PROVE  CmdPart' /\ Created' = Created /\ StackPart'
  BY CmdsUnchanged, ReturnGood

\* The same for a call from the event loop or the application.
LEMMA EnterStep ==
  ASSUME CmdPart, StackPart, UNCHANGED cmdVars, NEW fs \in Seq(GoodFrame), Call(fs)
  PROVE  CmdPart' /\ Created' = Created /\ StackPart'
  BY CmdsUnchanged, CallGood

\* Nothing but the stack moves.
LEMMA GoesOn ==
  ASSUME IndInv, stack # <<>>, NEW fs \in Seq(GoodFrame), Continue(fs),
         UNCHANGED <<cmdVars, hiredisVars, connVars, clusterVars>>
  PROVE  IndInv'
  BY MoveStep, OnlyCmdsMove DEF IndInv

LEMMA Enters ==
  ASSUME IndInv, NEW fs \in Seq(GoodFrame), Call(fs),
         UNCHANGED <<cmdVars, hiredisVars, connVars, clusterVars>>
  PROVE  IndInv'
  BY EnterStep, OnlyCmdsMove DEF IndInv

\* A command fails.
LEMMA FailStep ==
  ASSUME IndInv, stack # <<>>, NEW c \in Created, NEW code \in ErrorCodes, NEW r \in Replies,
         Fail(c, code, r), UNCHANGED <<hiredisVars, connVars, clusterVars>>
  PROVE  IndInv'
  <1> DEFINE fs == <<F("destroy_cmd", c, 0, "none")>>
  <1>1. CallBack(c, code, r, fs)
    BY DEF Fail
  <1>2. CmdPart' /\ Created' = Created /\ StackPart'
    BY <1>1, CallBackStep DEF IndInv
  <1> QED
    BY <1>2, OnlyCmdsMove

-----------------------------------------------------------------------------
(* Every action preserves the invariant                                    *)

LEMMA DestroyCmdInv == ASSUME IndInv, destroy_cmd PROVE IndInv'
  <1>1. stack # <<>> /\ Top.c \in Created
    BY TopCmd DEF IndInv, destroy_cmd, CmdOps
  <1>2. CmdPart' /\ Created' = Created /\ StackPart'
    <2> DEFINE fs == <<F("destroy", Top.c, 0, "none")>>
    <2>1. CallBack(Top.c, "UNKNOWD", "null", fs)
      BY DEF destroy_cmd
    <2> QED
      BY <1>1, <2>1, CallBackStep DEF IndInv, ErrorCodes, Replies
  <1> QED
    BY <1>2, OnlyCmdsMove DEF destroy_cmd

LEMMA DestroyInv == ASSUME IndInv, Destroy PROVE IndInv'
  <1>1. stack # <<>> /\ Top.c \in Created /\ ~callback_[Top.c]
    BY TopGood DEF IndInv, Destroy, destroy, GoodFrame, Good, CmdOps
  <1>2. CmdPart' /\ Created' = Created
    BY <1>1, Destroyed DEF IndInv, Destroy, destroy
  <1>3. GoodFrame' = GoodFrame
    BY <1>2, SameGood DEF Destroy, destroy
  <1>4. StackPart'
    BY <1>1, <1>3, ReturnGood DEF IndInv, Destroy, destroy
  <1> QED
    BY <1>2, <1>4, OnlyCmdsMove DEF Destroy

LEMMA ExecFailsInv == ASSUME IndInv, exec_ttl \/ exec_failed PROVE IndInv'
  <1>1. stack # <<>> /\ Top.c \in Created
    BY TopCmd DEF IndInv, exec_ttl, exec_failed, CmdOps
  <1>2. \E code \in ErrorCodes : Fail(Top.c, code, "null")
    BY DEF exec_ttl, exec_failed, ErrorCodes
  <1> QED
    BY <1>1, <1>2, FailStep DEF exec_ttl, exec_failed, Replies

LEMMA ExecPendingInv == ASSUME IndInv, exec_pending PROVE IndInv'
  <1> DEFINE fs == <<F("reload_slots", 0, 0, "none")>>
  <1>1. stack # <<>> /\ Top.c \in Created
    BY TopCmd DEF IndInv, exec_pending, CmdOps
  <1>2. fs \in Seq(GoodFrame)
    BY LoopFramesGood, OneType DEF GoodFrame
  <1>3. Continue(fs) /\ UNCHANGED cmdVars
    BY DEF exec_pending
  <1> HIDE DEF fs
  <1>4. CmdPart' /\ Created' = Created /\ StackPart'
    BY <1>1, <1>2, <1>3, MoveStep DEF IndInv
  <1>5. slot_pending_' \in Seq(Created)
    BY <1>1 DEF exec_pending, IndInv, QueuePart
  <1>6. QueuePart'
    BY <1>4, <1>5 DEF exec_pending, IndInv, QueuePart, Entries, hiredisVars, connVars, timerVars
  <1> QED
    BY <1>4, <1>6, QueuesMove DEF exec_pending, hiredisVars, connVars, timerVars

\* A new connection, with or without an AUTH command.
LEMMA MakeConnectionStep ==
  ASSUME IndInv, NEW k, k = nconn + 1, nconn < MaxConns, NEW s \in Servers,
         make_connection(k, s), notified' \in [ConnIds -> SUBSET Events]
  PROVE  /\ CmdPart' /\ QueuePart' /\ ContextPart' /\ ConnPart' /\ TablePart' /\ MapPart'
         /\ TimePart' /\ FreshPart' /\ GoodFrame \subseteq GoodFrame' /\ Created \subseteq Created'
         /\ Created' \in SUBSET CmdIds
         /\ k \in ConnIds
         /\ Auth => AuthCmd(k) \in Created'
  <1>1. k \in ConnIds /\ AuthCmd(k) \in CmdIds /\ cmd_st[AuthCmd(k)] = "none"
    BY BoundsAssumption DEF IndInv, MapPart, FreshPart, ConnIds, CmdIds, AuthCmd, LoadCmd,
       BoundsAssumption
  <1>2. /\ CmdPart' /\ GoodFrame \subseteq GoodFrame'
        /\ Created' = IF Auth THEN Created \cup {AuthCmd(k)} ELSE Created
    <2>1. CASE Auth
      BY <1>1, <2>1, CmdCreated DEF make_connection, IndInv
    <2>2. CASE ~Auth
      BY <2>2, CmdsUnchanged DEF make_connection, IndInv
    <2> QED
      BY <2>1, <2>2
  <1>3. QueuePart'
    BY <1>2, QueuesUnchanged DEF make_connection, redisAsyncConnect, set_connecting, IndInv,
       tableVars
  <1>4. ContextPart'
    BY <1>1 DEF make_connection, redisAsyncConnect, IndInv, ContextPart, ContextStates
  <1>5. ConnPart'
    BY <1>1 DEF make_connection, set_connecting, IndInv, ConnPart, Statuses, ObjectStates
  <1>6. TablePart'
    BY TableUnchanged DEF make_connection, IndInv, tableVars
  <1>7. MapPart'
    BY <1>1, BoundsAssumption
    DEF make_connection, IndInv, MapPart, ConnIds, BoundsAssumption
  <1>8. TimePart'
    <2> DEFINE e == [server |-> s, sequence |-> seq_alloc + 2,
                     timeout |-> last_update + ConnTimeout]
    <2>1. e \in Expiry
      BY ClusterAssumption DEF IndInv, ConnPart, TimePart, Expiry, ClusterAssumption
    <2>2. timer_conns' = timer_conns \/ timer_conns' = Append(timer_conns, e)
      BY DEF make_connection
    <2> HIDE DEF e
    <2>3. timer_conns' \in Seq(Expiry)
      BY <2>1, <2>2 DEF IndInv, TimePart
    <2> QED
      BY <2>3 DEF make_connection, IndInv, TimePart
  <1>9. FreshPart'
    BY <1>1, BoundsAssumption DEF make_connection, create, cmdVars, IndInv, FreshPart,
       MapPart, CmdPart, CmdIds, AuthCmd, LoadCmd, BoundsAssumption
  <1> QED
    BY <1>1, <1>2, <1>3, <1>4, <1>5, <1>6, <1>7, <1>8, <1>9 DEF Created

\* The frames make_connection goes on with.
LEMMA ConnectFramesGood ==
  ASSUME NEW k \in ConnIds, Created' \in SUBSET CmdIds, Auth => AuthCmd(k) \in Created'
  PROVE  ConnectFrames(k) \in Seq(GoodFrame')
  <1>1. F("user", 0, k, "on_connect") \in GoodFrame'
    BY ConnFramesGood DEF GoodFrame
  <1>2. Auth => F("exec_conn", AuthCmd(k), k, "none") \in GoodFrame'
    BY ReplyFramesGood DEF GoodFrame, Replies, Args
  <1>3. <<F("user", 0, k, "on_connect")>> \in Seq(GoodFrame')
    BY <1>1, OneType
  <1>4. (IF Auth THEN <<F("exec_conn", AuthCmd(k), k, "none")>> ELSE <<>>) \in Seq(GoodFrame')
    BY <1>2, OneType
  <1> QED
    BY <1>3, <1>4, ConcatType DEF ConnectFrames

LEMMA NotifyType ==
  ASSUME MapPart, NEW k \in ConnIds, NEW e \in Events, Notify(k, e)
  PROVE  notified' \in [ConnIds -> SUBSET Events]
  BY DEF MapPart, Notify

\* The frames of one call and of two.
LEMMA OnOne ==
  ASSUME NEW S, NEW f, NEW k, f.k = 0 => [f EXCEPT !.k = k] \in S, f.k # 0 => f \in S
  PROVE  On(k, <<f>>) \in Seq(S)
  BY DEF On

LEMMA OnTwo ==
  ASSUME NEW S, NEW f, NEW g, NEW k,
         f.k = 0 => [f EXCEPT !.k = k] \in S, f.k # 0 => f \in S,
         g.k = 0 => [g EXCEPT !.k = k] \in S, g.k # 0 => g \in S
  PROVE  On(k, <<f, g>>) \in Seq(S)
  BY DEF On

LEMMA WithConnectionStep ==
  ASSUME IndInv, stack # <<>>, NEW s \in Servers, NEW found, NEW failed \in Seq(GoodFrame),
         \A k \in ConnIds : On(k, found) \in Seq(GoodFrame),
         WithConnection(s, found, failed)
  PROVE  IndInv'
  <1> DEFINE k == nconn + 1
  <1> DEFINE no == <<F("destroy_cmd", AuthCmd(k), 0, "none")>>
  <1> DEFINE old == /\ connections_[s] # 0 /\ Continue(On(connections_[s], found))
                    /\ UNCHANGED <<cmdVars, hiredisVars, connVars, clusterVars>>
  <1> DEFINE made == /\ nconn < MaxConns /\ make_connection(k, s)
                     /\ \/ Continue(ConnectFrames(k) \o On(k, found)) /\ Notify(k, "on_connect")
                        \/ Auth /\ Continue(no \o failed) /\ UNCHANGED notified
  <1> DEFINE refused == Continue(failed) /\ UNCHANGED <<cmdVars, hiredisVars, connVars, clusterVars>>
  <1>0. old \/ made \/ refused
    BY DEF WithConnection
  <1>1. CASE old
    <2>1. On(connections_[s], found) \in Seq(GoodFrame)
      BY <1>1 DEF IndInv, MapPart
    <2> QED
      BY <1>1, <2>1, GoesOn
  <1>2. CASE made
    <2>0. k \in ConnIds
      BY <1>2, BoundsAssumption DEF IndInv, MapPart, ConnIds, BoundsAssumption
    <2>1. notified' \in [ConnIds -> SUBSET Events]
      BY <1>2, <2>0, NotifyType DEF IndInv, Events, MapPart
    <2>2. /\ CmdPart' /\ QueuePart' /\ ContextPart' /\ ConnPart' /\ TablePart' /\ MapPart'
          /\ TimePart' /\ FreshPart' /\ GoodFrame \subseteq GoodFrame'
          /\ Created' \in SUBSET CmdIds
          /\ (Auth => AuthCmd(k) \in Created')
      BY <1>2, <2>1, MakeConnectionStep
    <2>3. On(k, found) \in Seq(GoodFrame') /\ failed \in Seq(GoodFrame')
      BY <2>0, <2>2, SeqMono
    <2>4. ConnectFrames(k) \o On(k, found) \in Seq(GoodFrame')
      BY <2>0, <2>2, <2>3, ConnectFramesGood, ConcatType
    <2>5. Auth => no \o failed \in Seq(GoodFrame')
      <3>1. Auth => no \in Seq(GoodFrame')
        BY <2>2, CmdFramesGood, OneType DEF GoodFrame
      <3> QED
        BY <2>3, <3>1, ConcatType
    <2>6. StackPart'
      <3> HIDE DEF k, no
      <3> QED
        BY <1>2, <2>2, <2>4, <2>5, ContinueGood DEF IndInv
    <2> QED
      BY <2>2, <2>6 DEF IndInv
  <1>3. CASE refused
    BY <1>3, GoesOn
  <1> QED
    BY <1>0, <1>1, <1>2, <1>3

LEMMA UserConnectInv == ASSUME IndInv, NEW s \in Servers, UserConnect(s) PROVE IndInv'
  <1> DEFINE k == nconn + 1
  <1> DEFINE fail == <<F("destroy_cmd", AuthCmd(k), 0, "none")>>
  <1>0. k \in ConnIds
    BY BoundsAssumption DEF UserConnect, IndInv, MapPart, ConnIds, BoundsAssumption
  <1>1. notified' \in [ConnIds -> SUBSET Events]
    BY <1>0, NotifyType DEF UserConnect, IndInv, Events, MapPart
  <1>2. nconn < MaxConns /\ make_connection(k, s)
        /\ (Call(ConnectFrames(k)) \/ (Auth /\ Call(fail)))
    BY DEF UserConnect
  <1> HIDE DEF k
  <1>3. /\ CmdPart' /\ QueuePart' /\ ContextPart' /\ ConnPart' /\ TablePart' /\ MapPart'
        /\ TimePart' /\ FreshPart' /\ GoodFrame \subseteq GoodFrame'
        /\ Created' \in SUBSET CmdIds
        /\ (Auth => AuthCmd(k) \in Created')
    BY <1>1, <1>2, MakeConnectionStep DEF k
  <1>4. Auth => fail \in Seq(GoodFrame')
    BY <1>3, CmdFramesGood, OneType DEF GoodFrame
  <1> HIDE DEF fail
  <1>5. StackPart'
    BY <1>0, <1>2, <1>3, <1>4, ConnectFramesGood, CallGood DEF IndInv
  <1> QED
    BY <1>3, <1>5 DEF IndInv

LEMMA ExecInv == ASSUME IndInv, exec PROVE IndInv'
  <1> DEFINE found == <<F("exec_conn", Top.c, 0, "none")>>
  <1> DEFINE failed == <<F("exec_failed", Top.c, 0, "none")>>
  <1>1. stack # <<>> /\ Top.c \in Created /\ Created \in SUBSET CmdIds
    BY TopCmd DEF IndInv, exec, CmdOps, Created
  <1>2. PICK r \in Slots : WithConnection(get_slot_master(slots_, slot[Top.c], r), found, failed)
    BY DEF exec
  <1>3. get_slot_master(slots_, slot[Top.c], r) \in Servers
    BY MasterType, ClusterAssumption DEF IndInv, TablePart, ClusterAssumption
  <1>4. failed \in Seq(GoodFrame)
    BY <1>1, CmdFramesGood, OneType DEF GoodFrame
  <1>5. \A k \in ConnIds : On(k, found) \in Seq(GoodFrame)
    <2> TAKE k \in ConnIds
    <2>1. F("exec_conn", Top.c, k, "none") \in GoodFrame
      BY <1>1, ReplyFramesGood DEF GoodFrame, Replies, Args
    <2>2. [F("exec_conn", Top.c, 0, "none") EXCEPT !.k = k] = F("exec_conn", Top.c, k, "none")
          /\ F("exec_conn", Top.c, 0, "none").k = 0
      BY DEF F
    <2> QED
      BY <2>1, <2>2, OnOne
  <1> QED
    BY <1>1, <1>2, <1>3, <1>4, <1>5, WithConnectionStep

LEMMA ReloadSlotsInv == ASSUME IndInv, reload_slots PROVE IndInv'
  <1> DEFINE found == <<F("reload_exec", 0, 0, "none")>>
  <1>1. stack # <<>>
    BY TopCmd DEF IndInv, reload_slots
  <1>2. CASE Return /\ UNCHANGED <<cmdVars, hiredisVars, connVars, clusterVars>>
    BY <1>1, <1>2, BackStep, OnlyCmdsMove DEF IndInv
  <1>3. ASSUME NEW r \in Slots, WithConnection(get_slot_master(slots_, -1, r), found, <<>>)
        PROVE  IndInv'
    <2>1. get_slot_master(slots_, -1, r) \in Servers
      BY MasterType, ClusterAssumption DEF IndInv, TablePart, ClusterAssumption
    <2>2. \A k \in ConnIds : On(k, found) \in Seq(GoodFrame)
      <3> TAKE k \in ConnIds
      <3>1. F("reload_exec", 0, k, "none") \in GoodFrame
        BY ConnFramesGood DEF GoodFrame
      <3>2. [F("reload_exec", 0, 0, "none") EXCEPT !.k = k] = F("reload_exec", 0, k, "none")
            /\ F("reload_exec", 0, 0, "none").k = 0
        BY DEF F
      <3> QED
        BY <3>1, <3>2, OnOne
    <2>3. <<>> \in Seq(GoodFrame)
      OBVIOUS
    <2> QED
      BY <1>1, <1>3, <2>1, <2>2, <2>3, WithConnectionStep
  <1> QED
    BY <1>2, <1>3 DEF reload_slots

LEMMA OnReplyAskInv == ASSUME IndInv, NEW s \in Servers, on_reply_ask(s) PROVE IndInv'
  <1> DEFINE c == Top.c
             pop == F("ask_pop", c, Top.k, "none")
             found == <<pop, F("asking", c, 0, "none")>>
             failed == <<pop, F("retry", c, 0, "none")>>
  <1>1. stack # <<>> /\ c \in Created /\ Created \in SUBSET CmdIds /\ Top.k \in ConnIds
    BY TopCmd DEF IndInv, on_reply_ask, CmdOps, ConnOps, Created
  <1>2. WithConnection(s, found, failed)
    BY DEF on_reply_ask
  <1>3. pop \in GoodFrame /\ F("retry", c, 0, "none") \in GoodFrame
    BY <1>1, ReplyFramesGood, CmdFramesGood DEF GoodFrame, Replies
  <1>4. failed \in Seq(GoodFrame)
    BY <1>3, TwoType
  <1>5. \A k \in ConnIds : On(k, found) \in Seq(GoodFrame)
    <2> TAKE k \in ConnIds
    <2>1. F("asking", c, k, "none") \in GoodFrame
      BY <1>1, ReplyFramesGood DEF GoodFrame, Replies
    <2>2. [F("asking", c, 0, "none") EXCEPT !.k = k] = F("asking", c, k, "none")
          /\ F("asking", c, 0, "none").k = 0
      BY DEF F
    <2>3. pop.k # 0
      BY <1>1, BoundsAssumption DEF F, ConnIds, BoundsAssumption
    <2> QED
      BY <1>3, <2>1, <2>2, <2>3, OnTwo
  <1> QED
    BY <1>1, <1>2, <1>4, <1>5, WithConnectionStep

LEMMA UserExecInv == ASSUME IndInv, NEW i \in Slots \cup {-1}, UserExec(i) PROVE IndInv'
  <1> DEFINE c == ncmd + 1
  <1>1. c \in CmdIds /\ cmd_st[c] = "none" /\ create(c)
    BY BoundsAssumption DEF UserExec, IndInv, MapPart, FreshPart, CmdIds, BoundsAssumption
  <1>2. CmdPart' /\ Created' = Created \cup {c} /\ GoodFrame \subseteq GoodFrame'
    BY <1>1, CmdCreated DEF IndInv
  <1>3. /\ F("exec", c, 0, "none") \in GoodFrame'
        /\ F("destroy_cmd", c, 0, "none") \in GoodFrame'
    <2>1. Created' \in SUBSET CmdIds /\ c \in Created'
      BY <1>2 DEF Created
    <2> QED
      BY <2>1, CmdFramesGood DEF GoodFrame
  <1>4. StackPart'
    <2>1. <<F("exec", c, 0, "none")>> \in Seq(GoodFrame')
          /\ <<F("destroy_cmd", c, 0, "none")>> \in Seq(GoodFrame')
      BY <1>3, OneType
    <2>2. CASE Call(<<F("exec", c, 0, "none")>>)
      BY <1>2, <2>1, <2>2, CallGood DEF IndInv
    <2>3. CASE Call(<<F("destroy_cmd", c, 0, "none")>>)
      BY <1>2, <2>1, <2>3, CallGood DEF IndInv
    <2> QED
      BY <2>2, <2>3 DEF UserExec
  <1>5. FreshPart'
    BY <1>1, BoundsAssumption DEF UserExec, IndInv, FreshPart, MapPart, CmdPart, create,
       CmdIds, LoadCmd, mapVars, BoundsAssumption
  <1>6. MapPart'
    BY BoundsAssumption DEF UserExec, IndInv, MapPart, mapVars, BoundsAssumption
  <1>7. TablePart'
    BY <1>1 DEF UserExec, IndInv, TablePart
  <1> QED
    BY <1>2, <1>4, <1>5, <1>6, <1>7, QueuesUnchanged, ContextsUnchanged, ConnsUnchanged,
       TimesUnchanged DEF UserExec, IndInv, hiredisVars, connVars, timerVars

\* A try uses up TTL and changes no more about the command.
LEMMA TtlSpent ==
  ASSUME CmdPart, NEW c \in Created, SpendTtl(c),
         UNCHANGED <<callback_, error_code_, calls, got>>
  PROVE  CmdPart' /\ Created' = Created /\ GoodFrame' = GoodFrame
  <1>1. ttl_' \in [CmdIds -> 0 .. TTL]
    BY TTLAssumption DEF CmdPart, CmdTypeOK, SpendTtl, Created, TTLAssumption
  <1>2. CmdPart' /\ Created' = Created
    BY <1>1, SameCommands DEF SpendTtl, CmdPart, CmdTypeOK
  <1> QED
    BY <1>2, SameGood

LEMMA ExecConnInv == ASSUME IndInv, exec_conn PROVE IndInv'
  <1>1. stack # <<>> /\ Top.c \in Created /\ Top.k \in ConnIds
    BY TopCmd DEF IndInv, exec_conn, CmdOps, ConnOps
  <1>2. CmdPart' /\ Created' = Created /\ GoodFrame' = GoodFrame
    BY <1>1, TtlSpent DEF IndInv, exec_conn
  <1>3. StackPart'
    BY <1>1, <1>2, ReturnGood DEF IndInv, exec_conn
  <1>4. QueuePart'
    <2> DEFINE entry == [fn |-> "on_reply", c |-> Top.c]
    <2>1. /\ replies' = [replies EXCEPT ![Top.k] = Append(@, entry)]
          /\ reply_list_' = [reply_list_ EXCEPT ![Top.k] = Append(@, Top.c)]
          /\ timer_pending' = timer_pending /\ slot_pending_' = slot_pending_
      BY DEF exec_conn, redis_cmd, redisAsyncFormattedCommand, clusterVars, tableVars, timerVars
    <2>2. \A s \in Seq(Created) : Append(s, Top.c) \in Seq(Created)
      BY <1>1
    <2>3. entry \in Entries /\ Entries' = Entries
      BY <1>1, <1>2 DEF Entries
    <2> HIDE DEF entry
    <2>4. \A s \in Seq(Entries) : Append(s, entry) \in Seq(Entries)
      BY <2>3
    <2> QED
      BY <1>1, <1>2, <2>1, <2>2, <2>3, <2>4 DEF IndInv, QueuePart
  <1>5. UNCHANGED <<ctx_st, disconnecting, in_callback, ctx_err, conn_st, context_,
                    conn_status_, sequence_, seq_alloc, clusterVars>>
    BY DEF exec_conn, redis_cmd, redisAsyncFormattedCommand
  <1> QED
    BY <1>2, <1>3, <1>4, <1>5, QueuesMove DEF clusterVars, tableVars, timerVars

\* The table without a server, and without a slot for a command.
LEMMA TableForgets ==
  ASSUME TablePart, NEW s, slots_' = remove_connection_key(slots_, s), slot_flag_' = "INVALID",
         NEW c, slot' = slot \/ slot' = [slot EXCEPT ![c] = -1]
  PROVE  TablePart'
  <1>1. slots_' \in [Slots -> Seq(Servers)]
    BY RemoveType DEF TablePart
  <1>2. slot' \in [CmdIds -> Slots \cup {-1}]
    BY DEF TablePart
  <1> QED
    BY <1>1, <1>2 DEF TablePart

LEMMA ExecConnClosingInv == ASSUME IndInv, exec_conn_closing PROVE IndInv'
  <1> DEFINE rel == IF ~in_callback[Top.k]
                    THEN <<F("release_connection", 0, Top.k, "keep")>> ELSE <<>>
  <1> DEFINE fs == <<F("retry", Top.c, 0, "none")>>
  <1>1. stack # <<>> /\ Top.c \in Created /\ Top.k \in ConnIds
    BY TopCmd DEF IndInv, exec_conn_closing, CmdOps, ConnOps
  <1>2. CmdPart' /\ Created' = Created /\ GoodFrame' = GoodFrame
    BY <1>1, TtlSpent DEF IndInv, exec_conn_closing
  <1>3. rel \in Seq(GoodFrame')
    <2>1. F("release_connection", 0, Top.k, "keep") \in GoodFrame
      BY <1>1, ConnFramesGood DEF GoodFrame
    <2>2. <<F("release_connection", 0, Top.k, "keep")>> \in Seq(GoodFrame)
      BY <2>1, OneType
    <2> QED
      BY <1>2, <2>2
  <1>4. fs \in Seq(GoodFrame')
    <2>1. F("retry", Top.c, 0, "none") \in GoodFrame
      BY <1>1, CmdFramesGood DEF GoodFrame, Created
    <2> QED
      BY <1>2, <2>1, OneType
  <1>5. Continue(rel \o fs)
    BY DEF exec_conn_closing
  <1> HIDE DEF rel, fs
  <1>6. StackPart'
    BY <1>1, <1>2, <1>3, <1>4, <1>5, ConcatType, ContinueGood DEF IndInv
  <1>7. TablePart'
    BY TableForgets DEF exec_conn_closing, IndInv
  <1>8. UNCHANGED <<hiredisVars, connVars, slot_pending_, mapVars, timerVars, ncmd>>
    BY DEF exec_conn_closing
  <1> QED
    BY <1>2, <1>6, <1>7, <1>8, QueuesUnchanged, TimesUnchanged, TableMoves
    DEF IndInv, hiredisVars, connVars, timerVars

LEMMA ExecConnFailedInv == ASSUME IndInv, exec_conn_failed PROVE IndInv'
  <1> DEFINE c == Top.c
  <1> DEFINE code == IF ttl_[c] = 0 THEN "TTL"
                     ELSE IF context_[Top.k] THEN "HIREDIS" ELSE "CONNECTION"
  <1> DEFINE fs == <<F("destroy_cmd", c, 0, "none")>>
  <1>1. stack # <<>> /\ c \in Created
    BY TopCmd DEF IndInv, exec_conn_failed, CmdOps
  <1>2. code \in ErrorCodes
    BY DEF ErrorCodes
  <1>3. cmd_call_reply(c, code, "null") /\ UNCHANGED cmd_st
        /\ Continue(CallbackFrames(c, "null") \o fs)
    BY DEF exec_conn_failed
  <1>4. ttl_' \in [CmdIds -> 0 .. TTL]
    BY <1>1, TTLAssumption DEF exec_conn_failed, IndInv, CmdPart, CmdTypeOK, Created,
       TTLAssumption
  <1> HIDE DEF code
  <1>5. /\ CmdPart' /\ Created' = Created /\ GoodFrame \subseteq GoodFrame'
        /\ CallbackFrames(c, "null") \in Seq(GoodFrame')
    BY <1>1, <1>2, <1>3, <1>4, CmdCalledBack DEF IndInv, Replies
  <1>6. fs \in Seq(GoodFrame')
    <2>1. Created' \in SUBSET CmdIds /\ c \in Created'
      BY <1>1, <1>5 DEF Created
    <2>2. F("destroy_cmd", c, 0, "none") \in GoodFrame'
      BY <2>1, CmdFramesGood DEF GoodFrame
    <2> QED
      BY <2>2, OneType
  <1> HIDE DEF fs
  <1>7. StackPart'
    BY <1>1, <1>3, <1>5, <1>6, ConcatType, ContinueGood DEF IndInv
  <1> QED
    BY <1>5, <1>7, OnlyCmdsMove DEF exec_conn_failed

\* The retry queue after a command has been put into it, or not.
LEMMA DelayedQueue ==
  ASSUME IndInv, NEW c \in Created, Created' = Created,
         timer_pending' = timer_pending \/ timer_pending' = Delayed(c),
         UNCHANGED <<replies, reply_list_, slot_pending_>>
  PROVE  QueuePart'
  <1> DEFINE S == [at : Nat, cmd : Created]
  <1> DEFINE d == [at |-> last_update + Interval, cmd |-> c]
  <1>1. d \in S
    BY ClusterAssumption DEF IndInv, TimePart, ClusterAssumption
  <1>2. timer_pending' = timer_pending \/ timer_pending' = Append(timer_pending, d)
    BY DEF Delayed
  <1>3. timer_pending \in Seq(S)
    BY DEF IndInv, QueuePart
  <1>4. timer_pending' \in Seq(S)
    <2> HIDE DEF S, d
    <2> QED
      BY <1>1, <1>2, <1>3
  <1> QED
    BY <1>4 DEF IndInv, QueuePart, Entries

LEMMA RetryInv == ASSUME IndInv, retry PROVE IndInv'
  <1> DEFINE again == <<F("exec", Top.c, 0, "none")>>
  <1> DEFINE there == <<F("exec_conn", Top.c, Top.k, Top.a)>>
  <1>1. stack # <<>> /\ Top.c \in Created /\ Top \in GoodFrame
    BY TopCmd DEF IndInv, retry, CmdOps
  <1>2. again \in Seq(GoodFrame)
    BY <1>1, CmdFramesGood, OneType DEF GoodFrame, Created
  <1>3. Top.k # 0 => there \in Seq(GoodFrame)
    <2>1. Top.k # 0 => Top.k \in ConnIds /\ Top.a \in Args
      BY <1>1 DEF GoodFrame, Good, Frame
    <2>2. Top.k # 0 => F("exec_conn", Top.c, Top.k, Top.a) \in GoodFrame
      BY <1>1, <2>1, ReplyFramesGood DEF GoodFrame, Created, Replies
    <2> QED
      BY <2>2, OneType
  <1>4. (Continue(again) \/ (Top.k # 0 /\ Continue(there)) \/ Return) /\ UNCHANGED cmdVars
    BY DEF retry
  <1> HIDE DEF again, there
  <1>5. CmdPart' /\ Created' = Created /\ StackPart'
    BY <1>1, <1>2, <1>3, <1>4, MoveStep DEF IndInv
  <1>6. timer_pending' = timer_pending \/ timer_pending' = Delayed(Top.c)
    BY DEF retry
  <1>7. UNCHANGED <<hiredisVars, connVars, tableVars, mapVars, last_update, timer_conns,
                    now, ncmd>>
    BY DEF retry
  <1>8. QueuePart'
    BY <1>1, <1>5, <1>6, <1>7, DelayedQueue DEF hiredisVars, connVars, tableVars
  <1> QED
    BY <1>5, <1>7, <1>8, QueuesMove DEF hiredisVars, connVars, tableVars

LEMMA UserStartInv == ASSUME IndInv, UserStart PROVE IndInv'
  <1> DEFINE fs == <<F("reload_slots", 0, 0, "none")>>
  <1>1. fs \in Seq(GoodFrame)
    BY LoopFramesGood, OneType DEF GoodFrame
  <1>2. Call(fs) /\ UNCHANGED <<cmdVars, hiredisVars, connVars, clusterVars>>
    BY DEF UserStart
  <1> HIDE DEF fs
  <1> QED
    BY <1>1, <1>2, Enters

\* A CLUSTER SLOTS command that is created again: no frame refers to the old one.
LEMMA LoadCreated ==
  ASSUME IndInv, NEW c \in FreeLoads, create(c)
  PROVE  /\ CmdPart' /\ Created' = Created \cup {c} /\ stack \in Seq(GoodFrame')
         /\ c \in CmdIds /\ LoadCmd(c)
  <1>1. c \in CmdIds /\ LoadCmd(c) /\ \A i \in DOMAIN stack : stack[i].c # c
    BY DEF FreeLoads, Refers
  <1>2. CmdPart' /\ Created' = Created \cup {c}
        /\ \A d \in CmdIds \ {c} : callback_'[d] = callback_[d]
    BY <1>1, NewCommand DEF IndInv
  <1>3. stack \in Seq(GoodFrame)
    BY DEF IndInv, StackPart
  <1>4. ASSUME NEW f \in GoodFrame, f.c # c PROVE f \in GoodFrame'
    <2>1. f.op = "destroy" => f.c \in CmdIds \ {c} /\ ~callback_[f.c]
      BY <1>4 DEF GoodFrame, Good, CmdOps, Created
    <2>2. f.op = "destroy" => ~callback_'[f.c]
      BY <1>2, <2>1
    <2> QED
      BY <1>2, <2>2 DEF GoodFrame, Good
  <1>5. \A i \in 1 .. Len(stack) : stack[i] \in GoodFrame'
    BY <1>1, <1>3, <1>4
  <1>6. stack \in Seq(GoodFrame')
    BY <1>3, <1>5
  <1> QED
    BY <1>1, <1>2, <1>6

LEMMA ReloadExecInv == ASSUME IndInv, reload_exec PROVE IndInv'
  <1> DEFINE c == Min(FreeLoads)
  <1> DEFINE send == <<F("exec_conn", c, Top.k, "none")>>
  <1> DEFINE end == IF redis_cmd_result(Top.k) = "OK" \/ Closing(Top.k)
                    THEN <<F("reload_end", 0, Top.k, "none")>> ELSE <<>>
  <1> DEFINE no == <<F("destroy_cmd", c, 0, "none")>>
  <1>1. stack # <<>> /\ Top.k \in ConnIds
    BY TopCmd DEF IndInv, reload_exec, ConnOps
  <1>2. UNCHANGED <<hiredisVars, connVars, slot_flag_, slots_, slot_pending_, mapVars,
                    timerVars, ncmd>>
    BY DEF reload_exec
  <1>3. CASE FreeLoads = {}
    <2>1. Return /\ UNCHANGED <<cmdVars, slot>>
      BY <1>3 DEF reload_exec
    <2> QED
      BY <1>1, <1>2, <2>1, BackStep, OnlyCmdsMove DEF IndInv, clusterVars, tableVars
  <1>4. CASE FreeLoads # {}
    <2>1. c \in FreeLoads
      BY <1>4, MinIn, BoundsAssumption DEF FreeLoads, CmdIds, BoundsAssumption
    <2>2. create(c) /\ slot' = [slot EXCEPT ![c] = -1] /\ (Continue(send \o end) \/ Continue(no))
      BY <1>4 DEF reload_exec
    <2> HIDE DEF c, end
    <2>3. /\ CmdPart' /\ Created' = Created \cup {c} /\ stack \in Seq(GoodFrame')
          /\ c \in CmdIds /\ LoadCmd(c)
      BY <2>1, <2>2, LoadCreated
    <2>4. Created' \in SUBSET CmdIds /\ c \in Created'
      BY <2>3 DEF Created
    <2>5. send \in Seq(GoodFrame') /\ no \in Seq(GoodFrame')
      BY <1>1, <2>4, ReplyFramesGood, CmdFramesGood, OneType DEF GoodFrame, Replies, Args
    <2>6. end \in Seq(GoodFrame')
      <3>1. <<F("reload_end", 0, Top.k, "none")>> \in Seq(GoodFrame')
        BY <1>1, ConnFramesGood, OneType DEF GoodFrame
      <3> QED
        BY <3>1 DEF end
    <2> HIDE DEF send, no
    <2>7. StackPart'
      <3>1. Tail(stack) \in Seq(GoodFrame')
        BY <1>1, <2>3, TailType
      <3>2. send \o end \in Seq(GoodFrame')
        BY <2>5, <2>6, ConcatType
      <3>3. ASSUME NEW fs \in Seq(GoodFrame'), Continue(fs) PROVE StackPart'
        BY <3>1, <3>3, ConcatType DEF Continue, Rest, StackPart, IndInv
      <3> QED
        BY <2>2, <2>5, <3>2, <3>3
    <2>8. TablePart'
      BY <1>2, <2>2 DEF IndInv, TablePart
    <2>9. FreshPart'
      BY <1>2, <2>2, <2>3, BoundsAssumption DEF IndInv, FreshPart, create, CmdPart, LoadCmd, CmdIds,
         MapPart, mapVars, BoundsAssumption
    <2> QED
      BY <1>2, <2>3, <2>7, <2>8, <2>9, QueuesUnchanged, ContextsUnchanged, ConnsUnchanged,
         MapUnchanged, TimesUnchanged DEF IndInv, hiredisVars, connVars, timerVars
  <1> QED
    BY <1>3, <1>4

LEMMA ReloadEndInv == ASSUME IndInv, reload_end PROVE IndInv'
  <1>1. stack # <<>>
    BY TopCmd DEF IndInv, reload_end
  <1>2. CmdPart' /\ Created' = Created /\ StackPart'
    BY <1>1, BackStep DEF IndInv, reload_end
  <1>3. TablePart'
    BY DEF reload_end, IndInv, TablePart
  <1> QED
    BY <1>2, <1>3, QueuesUnchanged, TimesUnchanged, TableMoves
    DEF IndInv, reload_end, hiredisVars, connVars, timerVars

LEMMA UpdateSlotInv == ASSUME IndInv, on_reply_update_slot PROVE IndInv'
  <1> DEFINE fs == <<F("run_pending", 0, 0, "none")>>
  <1>1. stack # <<>>
    BY TopCmd DEF IndInv, on_reply_update_slot
  <1>2. fs \in Seq(GoodFrame)
    BY LoopFramesGood, OneType DEF GoodFrame
  <1>3. Continue(fs) /\ UNCHANGED cmdVars
    BY DEF on_reply_update_slot
  <1> HIDE DEF fs
  <1>4. CmdPart' /\ Created' = Created /\ StackPart'
    BY <1>1, <1>2, <1>3, MoveStep DEF IndInv
  <1>5. TablePart'
    BY ClusterAssumption DEF on_reply_update_slot, IndInv, TablePart, ClusterAssumption
  <1> QED
    BY <1>4, <1>5, QueuesUnchanged, TimesUnchanged, TableMoves
    DEF IndInv, on_reply_update_slot, hiredisVars, connVars, timerVars

\* The first command that waits for the table.
LEMMA PendingHead ==
  ASSUME QueuePart, slot_pending_ # <<>>
  PROVE  Head(slot_pending_) \in Created /\ Tail(slot_pending_) \in Seq(Created)
  BY TailType DEF QueuePart

LEMMA RunPendingInv == ASSUME IndInv, run_pending PROVE IndInv'
  <1> DEFINE fs == <<F("retry", Head(slot_pending_), 0, "none"), Top>>
  <1>1. stack # <<>> /\ Top \in GoodFrame
    BY TopCmd DEF IndInv, run_pending
  <1>2. UNCHANGED <<cmdVars, hiredisVars, connVars, slot_flag_, slots_, slot, mapVars,
                    timerVars, ncmd>>
    BY DEF run_pending
  <1>3. CASE slot_pending_ = <<>>
    <2>1. Return /\ UNCHANGED slot_pending_
      BY <1>3 DEF run_pending
    <2> QED
      BY <1>1, <1>2, <2>1, BackStep, OnlyCmdsMove DEF IndInv, clusterVars, tableVars
  <1>4. CASE slot_pending_ # <<>>
    <2>1. slot_pending_' = Tail(slot_pending_) /\ Continue(fs)
      BY <1>4 DEF run_pending
    <2>2. Head(slot_pending_) \in Created /\ Tail(slot_pending_) \in Seq(Created)
      BY <1>4, PendingHead DEF IndInv
    <2>3. fs \in Seq(GoodFrame)
      <3>1. F("retry", Head(slot_pending_), 0, "none") \in GoodFrame
        BY <2>2, CmdFramesGood DEF GoodFrame, Created
      <3> QED
        BY <1>1, <3>1, TwoType
    <2> HIDE DEF fs
    <2>4. CmdPart' /\ Created' = Created /\ StackPart'
      BY <1>1, <1>2, <2>1, <2>3, MoveStep DEF IndInv
    <2>5. QueuePart'
      BY <1>2, <2>1, <2>2, <2>4 DEF IndInv, QueuePart, Entries, hiredisVars, connVars, timerVars
    <2> QED
      BY <1>2, <2>4, <2>5, QueuesMove DEF hiredisVars, connVars, timerVars
  <1> QED
    BY <1>3, <1>4

LEMMA UpdateSlotFailedInv == ASSUME IndInv, on_reply_update_slot_failed PROVE IndInv'
  <1> DEFINE no == <<F("destroy_cmd", Top.c, 0, "none")>>
  <1> DEFINE again == <<F("exec", Top.c, 0, "none")>>
  <1>1. stack # <<>> /\ Top.c \in Created
    BY TopCmd DEF IndInv, on_reply_update_slot_failed, CmdOps
  <1>2. no \in Seq(GoodFrame) /\ again \in Seq(GoodFrame)
    BY <1>1, CmdFramesGood, OneType DEF GoodFrame, Created
  <1>3. (Continue(no) \/ Continue(again) \/ Return) /\ UNCHANGED cmdVars
    BY DEF on_reply_update_slot_failed
  <1> HIDE DEF no, again
  <1>4. CmdPart' /\ Created' = Created /\ StackPart'
    BY <1>1, <1>2, <1>3, MoveStep DEF IndInv
  <1>5. timer_pending' = timer_pending \/ timer_pending' = Delayed(Top.c)
    BY DEF on_reply_update_slot_failed
  <1>6. UNCHANGED <<hiredisVars, connVars, slots_, slot_pending_, mapVars, last_update,
                    timer_conns, now, ncmd>>
    BY DEF on_reply_update_slot_failed
  <1>7. QueuePart'
    BY <1>1, <1>4, <1>5, <1>6, DelayedQueue DEF hiredisVars, connVars
  <1>8. TablePart'
    BY <1>6 DEF on_reply_update_slot_failed, IndInv, TablePart
  <1> QED
    BY <1>4, <1>6, <1>7, <1>8, TimesUnchanged, TableMoves DEF IndInv, hiredisVars, connVars

LEMMA UserReleaseInv == ASSUME IndInv, NEW s \in Servers, UserRelease(s) PROVE IndInv'
  <1> DEFINE fs == <<F("release_connection", 0, connections_[s], "close")>>
  <1>1. fs \in Seq(GoodFrame)
    <2>1. connections_[s] \in ConnIds
      BY DEF UserRelease, IndInv, MapPart
    <2>2. F("release_connection", 0, connections_[s], "close") \in GoodFrame
      BY <2>1, ConnFramesGood DEF GoodFrame
    <2> QED
      BY <2>2, OneType
  <1>2. Call(fs) /\ UNCHANGED <<cmdVars, hiredisVars, connVars, clusterVars>>
    BY DEF UserRelease
  <1> HIDE DEF fs
  <1> QED
    BY <1>1, <1>2, Enters

\* The frames of a release.
LEMMA ReleaseFramesGood ==
  ASSUME NEW k \in ConnIds, NEW a
  PROVE  ReleaseFrames(k, a) \in Seq(GoodFrame)
  <1>1. /\ F("redisAsyncDisconnect", 0, k, "none") \in GoodFrame
        /\ F("connection_release", 0, k, "none") \in GoodFrame
    BY ConnFramesGood DEF GoodFrame
  <1>2. /\ <<F("redisAsyncDisconnect", 0, k, "none")>> \in Seq(GoodFrame)
        /\ <<F("connection_release", 0, k, "none")>> \in Seq(GoodFrame)
    BY <1>1, OneType
  <1>3. (IF context_[k] /\ a = "close" THEN <<F("redisAsyncDisconnect", 0, k, "none")>>
                                       ELSE <<>>) \in Seq(GoodFrame)
    BY <1>2
  <1> QED
    BY <1>2, <1>3, ConcatType DEF ReleaseFrames

LEMMA ReleaseConnectionInv == ASSUME IndInv, release_connection PROVE IndInv'
  <1> DEFINE k == Top.k
  <1>1. stack # <<>> /\ k \in ConnIds
    BY TopCmd DEF IndInv, release_connection, ConnOps
  <1>2. CASE Return /\ UNCHANGED connVars
    BY <1>1, <1>2, BackStep, OnlyCmdsMove DEF IndInv, release_connection
  <1>3. CASE conn_status_[k] # "DISCONNECTED" /\ set_disconnected(k)
             /\ Continue(ReleaseFrames(k, Top.a) \o <<F("release_event", 0, k, conn_status_[k])>>)
    <2> DEFINE fs == <<F("release_event", 0, k, conn_status_[k])>>
    <2>1. fs \in Seq(GoodFrame)
      <3>1. conn_status_[k] \in {"CONNECTING", "CONNECTED"}
        BY <1>1, <1>3 DEF IndInv, ConnPart, Statuses
      <3>2. F("release_event", 0, k, conn_status_[k]) \in GoodFrame
        BY <1>1, <3>1, ConnFramesGood DEF GoodFrame
      <3> QED
        BY <3>2, OneType
    <2>2. Continue(ReleaseFrames(k, Top.a) \o fs)
      BY <1>3
    <2> HIDE DEF fs
    <2>3. ReleaseFrames(k, Top.a) \o fs \in Seq(GoodFrame)
      BY <1>1, <2>1, ReleaseFramesGood, ConcatType
    <2>4. UNCHANGED <<cmdVars, hiredisVars, clusterVars>>
      BY DEF release_connection
    <2>5. CmdPart' /\ Created' = Created /\ StackPart'
      BY <1>1, <2>2, <2>3, <2>4, MoveStep DEF IndInv
    <2>6. ConnPart'
      BY <1>3 DEF IndInv, ConnPart, set_disconnected, Statuses
    <2> QED
      BY <1>3, <2>4, <2>5, <2>6, QueuesUnchanged, ContextsUnchanged, TableUnchanged, MapUnchanged,
         TimesUnchanged, FreshUnchanged DEF IndInv, set_disconnected, hiredisVars, clusterVars,
         tableVars, mapVars, timerVars
  <1> QED
    BY <1>1, <1>2, <1>3 DEF release_connection

\* An event is reported while the call goes on.
LEMMA NotifyStep ==
  ASSUME IndInv, CmdPart', Created' = Created, StackPart',
         notified' \in [ConnIds -> SUBSET Events],
         UNCHANGED <<hiredisVars, connVars, tableVars, connections_, server_of, nconn,
                     timerVars, ncmd>>
  PROVE  IndInv'
  <1>1. MapPart'
    BY DEF IndInv, MapPart
  <1> QED
    BY <1>1, QueuesUnchanged, ContextsUnchanged, ConnsUnchanged, TableUnchanged,
       TimesUnchanged, FreshUnchanged DEF IndInv, hiredisVars, connVars, tableVars, timerVars

LEMMA ReleaseEventInv == ASSUME IndInv, release_event PROVE IndInv'
  <1> DEFINE ev == IF Top.a = "CONNECTING" THEN "on_connected" ELSE "on_disconnected"
  <1> DEFINE fs == <<F("user", 0, Top.k, ev), F("release_end", 0, Top.k, "none")>>
  <1>1. stack # <<>> /\ Top.k \in ConnIds
    BY TopCmd DEF IndInv, release_event, ConnOps
  <1>2. fs \in Seq(GoodFrame)
    <2>1. F("user", 0, Top.k, ev) \in GoodFrame /\ F("release_end", 0, Top.k, "none") \in GoodFrame
      BY <1>1, ConnFramesGood DEF GoodFrame
    <2> QED
      BY <2>1, TwoType
  <1>3. Continue(fs) /\ UNCHANGED cmdVars
    BY DEF release_event
  <1> HIDE DEF fs
  <1>4. CmdPart' /\ Created' = Created /\ StackPart'
    BY <1>1, <1>2, <1>3, MoveStep DEF IndInv
  <1>5. notified' \in [ConnIds -> SUBSET Events]
    BY <1>1 DEF release_event, Notify, Events, IndInv, MapPart
  <1> QED
    BY <1>4, <1>5, NotifyStep DEF release_event

LEMMA ReleaseEndInv == ASSUME IndInv, release_end PROVE IndInv'
  <1>1. stack # <<>>
    BY TopCmd DEF IndInv, release_end
  <1>2. CmdPart' /\ Created' = Created /\ StackPart'
    BY <1>1, BackStep DEF IndInv, release_end
  <1>3. ConnPart' /\ MapPart'
    BY DEF release_end, IndInv, ConnPart, MapPart, ObjectStates
  <1>4. UNCHANGED <<hiredisVars, reply_list_, tableVars, timerVars, ncmd, nconn>>
    BY DEF release_end
  <1> QED
    BY <1>2, <1>3, <1>4, QueuesUnchanged, ContextsUnchanged, TableUnchanged, TimesUnchanged,
       FreshUnchanged DEF IndInv, hiredisVars, tableVars, timerVars

\* The first command of a reply list and what is left of the list.
LEMMA ReplyListHead ==
  ASSUME QueuePart, NEW k \in ConnIds, reply_list_[k] # <<>>
  PROVE  /\ Head(reply_list_[k]) \in Created
         /\ [reply_list_ EXCEPT ![k] = Tail(@)] \in [ConnIds -> Seq(Created)]
  <1>1. reply_list_[k] \in Seq(Created)
    BY DEF QueuePart
  <1>2. Head(reply_list_[k]) \in Created /\ Tail(reply_list_[k]) \in Seq(Created)
    BY <1>1, TailType
  <1> QED
    BY <1>2 DEF QueuePart

LEMMA ConnectionReleaseInv == ASSUME IndInv, ConnectionRelease PROVE IndInv'
  <1> DEFINE k == Top.k
  <1>1. stack # <<>> /\ k \in ConnIds
    BY TopCmd DEF IndInv, ConnectionRelease, connection_release, ConnOps
  <1>2. UNCHANGED <<hiredisVars, clusterVars>>
    BY DEF ConnectionRelease
  <1>3. CASE reply_list_[k] # <<>>
    <2> DEFINE c == Head(reply_list_[k])
    <2> DEFINE fs == <<F("destroy", c, 0, "none"), Top>>
    <2>1. c \in Created /\ [reply_list_ EXCEPT ![k] = Tail(@)] \in [ConnIds -> Seq(Created)]
      BY <1>1, <1>3, ReplyListHead DEF IndInv
    <2>2. /\ CallBack(c, "CONNECTION", "null", fs)
          /\ reply_list_' = [reply_list_ EXCEPT ![k] = Tail(@)]
          /\ UNCHANGED <<conn_st, context_, conn_status_, sequence_, seq_alloc>>
      BY <1>3 DEF ConnectionRelease, connection_release
    <2>3. CmdPart' /\ Created' = Created /\ StackPart'
      BY <1>1, <2>1, <2>2, CallBackStep DEF IndInv, ErrorCodes, Replies
    <2>4. QueuePart'
      BY <1>2, <2>1, <2>2, <2>3 DEF IndInv, QueuePart, Entries, hiredisVars, clusterVars,
         tableVars, timerVars
    <2> QED
      BY <1>2, <2>2, <2>3, <2>4, QueuesMove DEF hiredisVars, clusterVars, tableVars, timerVars
  <1>4. CASE reply_list_[k] = <<>>
    <2>1. /\ context_' = [context_ EXCEPT ![k] = FALSE]
          /\ conn_status_' = [conn_status_ EXCEPT ![k] = "DISCONNECTED"]
          /\ sequence_' = [sequence_ EXCEPT ![k] = seq_alloc + 1]
          /\ seq_alloc' = seq_alloc + 1
          /\ Return
          /\ UNCHANGED <<conn_st, reply_list_, cmdVars>>
      BY <1>4 DEF ConnectionRelease, connection_release
    <2>2. CmdPart' /\ Created' = Created /\ StackPart'
      BY <1>1, <2>1, BackStep DEF IndInv
    <2>3. ConnPart'
      BY <1>1, <2>1 DEF IndInv, ConnPart, Statuses
    <2> QED
      BY <1>2, <2>1, <2>2, <2>3, QueuesUnchanged, ContextsUnchanged, TableUnchanged, MapUnchanged,
         TimesUnchanged, FreshUnchanged DEF IndInv, hiredisVars, clusterVars, tableVars, mapVars,
         timerVars
  <1> QED
    BY <1>3, <1>4

LEMMA UserResetInv == ASSUME IndInv, UserReset PROVE IndInv'
  <1> DEFINE fs == <<F("reset_begin", 0, 0, "none")>>
  <1>1. fs \in Seq(GoodFrame)
    BY LoopFramesGood, OneType DEF GoodFrame
  <1>2. Call(fs) /\ UNCHANGED <<cmdVars, hiredisVars, connVars, clusterVars>>
    BY DEF UserReset
  <1> HIDE DEF fs
  <1> QED
    BY <1>1, <1>2, Enters

\* What reset() calls first: one frame for every connection, in some order.
LEMMA OrderedConns ==
  ASSUME NEW S \in SUBSET ConnIds, NEW q \in SetToSeqs(S)
  PROVE  q \in Seq(S) /\ DOMAIN q = 1 .. Len(q) /\ Len(q) \in Nat
  <1>1. IsFiniteSet(ConnIds)
    BY FS_Interval, BoundsAssumption DEF ConnIds, BoundsAssumption
  <1>2. Cardinality(S) \in Nat
    BY <1>1, FS_Subset, FS_CardinalityType
  <1>3. q \in [1 .. Cardinality(S) -> S]
    BY DEF SetToSeqs
  <1> QED
    BY <1>2, <1>3

LEMMA ResetBeginInv == ASSUME IndInv, reset_begin PROVE IndInv'
  <1> DEFINE open == {connections_[s] : s \in Servers} \ {0}
             S == {k \in open : context_[k]}
  <1>1. stack # <<>>
    BY TopCmd DEF IndInv, reset_begin
  <1>2. PICK q \in SetToSeqs(S) :
          Continue([i \in DOMAIN q |-> F("redisAsyncDisconnect", 0, q[i], "none")]
                   \o <<F("reset_slots", 0, 0, "none")>>)
    BY DEF reset_begin
  <1> DEFINE close == [i \in DOMAIN q |-> F("redisAsyncDisconnect", 0, q[i], "none")]
             fs == <<F("reset_slots", 0, 0, "none")>>
  <1>3. S \in SUBSET ConnIds
    BY DEF IndInv, MapPart
  <1> HIDE DEF S
  <1>4. q \in Seq(S) /\ DOMAIN q = 1 .. Len(q) /\ Len(q) \in Nat
    BY <1>2, <1>3, OrderedConns
  <1>5. \A i \in 1 .. Len(q) : F("redisAsyncDisconnect", 0, q[i], "none") \in GoodFrame
    BY <1>3, <1>4, ConnFramesGood DEF GoodFrame
  <1>6. close \in Seq(GoodFrame)
    BY <1>4, <1>5
  <1>7. fs \in Seq(GoodFrame)
    BY LoopFramesGood, OneType DEF GoodFrame
  <1>8. Continue(close \o fs) /\ UNCHANGED cmdVars
    BY <1>2 DEF reset_begin
  <1> HIDE DEF close, fs
  <1>9. CmdPart' /\ Created' = Created /\ StackPart'
    BY <1>1, <1>6, <1>7, <1>8, ConcatType, MoveStep DEF IndInv
  <1>10. TablePart'
    BY DEF reset_begin, IndInv, TablePart
  <1> QED
    BY <1>9, <1>10, QueuesUnchanged, TimesUnchanged, TableMoves
    DEF IndInv, reset_begin, hiredisVars, connVars, timerVars

LEMMA ResetSlotsInv == ASSUME IndInv, reset_slots PROVE IndInv'
  <1>1. stack # <<>>
    BY TopCmd DEF IndInv, reset_slots
  <1>2. UNCHANGED <<hiredisVars, connVars, slot_flag_, slot, mapVars, timerVars, ncmd>>
    BY DEF reset_slots
  <1>3. CASE slot_pending_ # <<>>
    <2> DEFINE c == Head(slot_pending_)
    <2> DEFINE fs == <<F("destroy_cmd", c, 0, "none"), Top>>
    <2>1. c \in Created /\ Tail(slot_pending_) \in Seq(Created)
      BY <1>3, PendingHead DEF IndInv
    <2>2. /\ CallBack(c, "SLOT_UNAVAILABLE", "null", fs)
          /\ slot_pending_' = Tail(slot_pending_)
          /\ UNCHANGED slots_
      BY <1>3 DEF reset_slots
    <2>3. CmdPart' /\ Created' = Created /\ StackPart'
      BY <1>1, <2>1, <2>2, CallBackStep DEF IndInv, ErrorCodes, Replies
    <2>4. QueuePart'
      BY <1>2, <2>1, <2>2, <2>3 DEF IndInv, QueuePart, Entries, hiredisVars, connVars, timerVars
    <2> QED
      BY <1>2, <2>2, <2>3, <2>4, QueuesMove DEF hiredisVars, connVars, timerVars
  <1>4. CASE slot_pending_ = <<>>
    <2> DEFINE fs == <<F("reset", 0, 0, "none")>>
    <2>1. slots_' = Cleared /\ Continue(fs) /\ UNCHANGED <<slot_pending_, cmdVars>>
      BY <1>4 DEF reset_slots
    <2>2. fs \in Seq(GoodFrame)
      BY LoopFramesGood, OneType DEF GoodFrame
    <2> HIDE DEF fs
    <2>3. CmdPart' /\ Created' = Created /\ StackPart'
      BY <1>1, <2>1, <2>2, MoveStep DEF IndInv
    <2>4. TablePart'
      BY <1>2, <2>1, EmptyType DEF IndInv, TablePart, Cleared
    <2> QED
      BY <1>2, <2>1, <2>3, <2>4, QueuesUnchanged, TimesUnchanged, TableMoves
      DEF IndInv, hiredisVars, connVars, timerVars
  <1> QED
    BY <1>3, <1>4

\* The first entry of the retry queue.
LEMMA TimerHead ==
  ASSUME QueuePart, timer_pending # <<>>
  PROVE  /\ Head(timer_pending).cmd \in Created
         /\ Tail(timer_pending) \in Seq([at : Nat, cmd : Created])
  <1>1. /\ Head(timer_pending) \in [at : Nat, cmd : Created]
        /\ Tail(timer_pending) \in Seq([at : Nat, cmd : Created])
    BY TailType DEF QueuePart
  <1> QED
    BY <1>1

LEMMA ResetInv == ASSUME IndInv, reset PROVE IndInv'
  <1>1. stack # <<>>
    BY TopCmd DEF IndInv, reset
  <1>2. UNCHANGED <<hiredisVars, connVars, slots_, slot_pending_, slot, mapVars, now, ncmd>>
    BY DEF reset
  <1>3. CASE timer_pending # <<>>
    <2> DEFINE c == Head(timer_pending).cmd
    <2> DEFINE fs == <<F("destroy_cmd", c, 0, "none"), Top>>
    <2>1. c \in Created /\ Tail(timer_pending) \in Seq([at : Nat, cmd : Created])
      BY <1>3, TimerHead DEF IndInv
    <2>2. /\ CallBack(c, "TIMEOUT", "null", fs)
          /\ timer_pending' = Tail(timer_pending)
          /\ UNCHANGED <<last_update, timer_conns, slot_flag_>>
      BY <1>3 DEF reset
    <2>3. CmdPart' /\ Created' = Created /\ StackPart'
      BY <1>1, <2>1, <2>2, CallBackStep DEF IndInv, ErrorCodes, Replies
    <2>4. QueuePart'
      BY <1>2, <2>1, <2>2, <2>3 DEF IndInv, QueuePart, Entries, hiredisVars, connVars
    <2> QED
      BY <1>2, <2>2, <2>3, <2>4, QueuesMove DEF hiredisVars, connVars
  <1>4. CASE timer_pending = <<>>
    <2>1. /\ last_update' = 0 /\ timer_conns' = <<>> /\ slot_flag_' = "INVALID" /\ Return
          /\ UNCHANGED <<timer_pending, cmdVars>>
      BY <1>4 DEF reset
    <2>2. CmdPart' /\ Created' = Created /\ StackPart'
      BY <1>1, <2>1, BackStep DEF IndInv
    <2>3. TablePart' /\ TimePart'
      BY <1>2, <2>1, EmptyType DEF IndInv, TablePart, TimePart
    <2> QED
      BY <1>2, <2>1, <2>2, <2>3, QueuesUnchanged, TableMoves DEF IndInv, hiredisVars, connVars
  <1> QED
    BY <1>3, <1>4

LEMMA UserProcInv == ASSUME IndInv, NEW t \in Nat, UserProc(t) PROVE IndInv'
  <1> DEFINE fs == <<F("proc", 0, 0, "none")>>
  <1>1. fs \in Seq(GoodFrame)
    BY LoopFramesGood, OneType DEF GoodFrame
  <1>2. /\ Call(fs) /\ now' = t /\ last_update' = t
        /\ UNCHANGED <<cmdVars, hiredisVars, connVars, tableVars, mapVars, timer_pending,
                       timer_conns, ncmd>>
    BY DEF UserProc
  <1> HIDE DEF fs
  <1>3. CmdPart' /\ Created' = Created /\ StackPart'
    BY <1>1, <1>2, EnterStep DEF IndInv
  <1>4. TimePart'
    BY <1>2 DEF IndInv, TimePart
  <1> QED
    BY <1>2, <1>3, <1>4, QueuesUnchanged, TableUnchanged, TableMoves
    DEF IndInv, hiredisVars, connVars, tableVars

LEMMA ProcInv == ASSUME IndInv, proc PROVE IndInv'
  <1>1. stack # <<>> /\ Top \in GoodFrame
    BY TopCmd DEF IndInv, proc
  <1>2. UNCHANGED <<cmdVars, hiredisVars, connVars, tableVars, mapVars, last_update,
                    timer_conns, now, ncmd>>
    BY DEF proc
  <1>3. CASE timer_pending # <<>> /\ Head(timer_pending).at <= now
    <2> DEFINE fs == <<F("exec", Head(timer_pending).cmd, 0, "none"), Top>>
    <2>1. /\ Head(timer_pending).cmd \in Created
          /\ Tail(timer_pending) \in Seq([at : Nat, cmd : Created])
      BY <1>3, TimerHead DEF IndInv
    <2>2. timer_pending' = Tail(timer_pending) /\ Continue(fs)
      BY <1>3 DEF proc
    <2>3. fs \in Seq(GoodFrame)
      <3>1. F("exec", Head(timer_pending).cmd, 0, "none") \in GoodFrame
        BY <2>1, CmdFramesGood DEF GoodFrame, Created
      <3> QED
        BY <1>1, <3>1, TwoType
    <2> HIDE DEF fs
    <2>4. CmdPart' /\ Created' = Created /\ StackPart'
      BY <1>1, <1>2, <2>2, <2>3, MoveStep DEF IndInv
    <2>5. QueuePart'
      BY <1>2, <2>1, <2>2, <2>4 DEF IndInv, QueuePart, Entries, hiredisVars, connVars, tableVars
    <2> QED
      BY <1>2, <2>4, <2>5, QueuesMove DEF hiredisVars, connVars, tableVars
  <1>4. CASE ~(timer_pending # <<>> /\ Head(timer_pending).at <= now)
    <2> DEFINE fs == <<F("proc_conn", 0, 0, "none")>>
    <2>1. Continue(fs) /\ UNCHANGED timer_pending
      BY <1>4 DEF proc
    <2>2. fs \in Seq(GoodFrame)
      BY LoopFramesGood, OneType DEF GoodFrame
    <2> HIDE DEF fs
    <2> QED
      BY <1>1, <1>2, <2>1, <2>2, GoesOn DEF clusterVars, timerVars
  <1> QED
    BY <1>3, <1>4

LEMMA ProcConnInv == ASSUME IndInv, proc_conn PROVE IndInv'
  <1> DEFINE k == connections_[Head(timer_conns).server]
  <1> DEFINE rel == IF Expired(k) THEN <<F("release_connection", 0, k, "close")>> ELSE <<>>
  <1> DEFINE clear == <<F("proc_clear", 0, 0, "none")>>
  <1> DEFINE fs == IF ~Due THEN <<>> ELSE rel \o clear
  <1>1. stack # <<>>
    BY TopCmd DEF IndInv, proc_conn
  <1>2. Continue(fs) /\ UNCHANGED <<cmdVars, hiredisVars, connVars, clusterVars>>
    BY DEF proc_conn
  <1>3. Due => rel \in Seq(GoodFrame)
    <2>1. Due => Head(timer_conns).server \in Servers
      <3>1. Due => Head(timer_conns) \in Expiry
        BY TailType DEF Due, IndInv, TimePart
      <3> QED
        BY <3>1 DEF Expiry
    <2>2. Due /\ k # 0 => k \in ConnIds
      BY <2>1 DEF IndInv, MapPart
    <2>3. Due /\ k # 0 => F("release_connection", 0, k, "close") \in GoodFrame
      BY <2>2, ConnFramesGood DEF GoodFrame
    <2> QED
      BY <2>3, OneType, EmptyType DEF Expired
  <1>4. clear \in Seq(GoodFrame)
    BY LoopFramesGood, OneType DEF GoodFrame
  <1> HIDE DEF rel, clear
  <1>5. fs \in Seq(GoodFrame)
    BY <1>3, <1>4, ConcatType, EmptyType
  <1> HIDE DEF fs
  <1> QED
    BY <1>1, <1>2, <1>5, GoesOn

LEMMA ProcClearInv == ASSUME IndInv, proc_clear PROVE IndInv'
  <1> DEFINE fs == <<F("proc_conn", 0, 0, "none")>>
  <1>1. stack # <<>>
    BY TopCmd DEF IndInv, proc_clear
  <1>2. UNCHANGED <<cmdVars, hiredisVars, connVars, tableVars, mapVars, last_update,
                    timer_pending, now, ncmd>>
    BY DEF proc_clear
  <1>3. CASE timer_conns = <<>>
    <2>1. ub' = TRUE /\ UNCHANGED <<stack, timer_conns>>
      BY <1>3 DEF proc_clear
    <2>2. CmdPart' /\ Created' = Created /\ StackPart'
      BY <1>2, <2>1, CmdsUnchanged DEF IndInv, StackPart
    <2> QED
      BY <1>2, <2>1, <2>2, OnlyCmdsMove DEF clusterVars, timerVars
  <1>4. CASE timer_conns # <<>>
    <2>1. timer_conns' = Tail(timer_conns) /\ Continue(fs)
      BY <1>4 DEF proc_clear
    <2>2. fs \in Seq(GoodFrame)
      BY LoopFramesGood, OneType DEF GoodFrame
    <2> HIDE DEF fs
    <2>3. CmdPart' /\ Created' = Created /\ StackPart'
      BY <1>1, <1>2, <2>1, <2>2, MoveStep DEF IndInv
    <2>4. TimePart'
      BY <1>2, <1>4, <2>1, TailType DEF IndInv, TimePart
    <2> QED
      BY <1>2, <2>3, <2>4, QueuesUnchanged, TableUnchanged, TableMoves
      DEF IndInv, hiredisVars, connVars, tableVars
  <1> QED
    BY <1>3, <1>4

LEMMA OnReplyInv == ASSUME IndInv, on_reply_wrapper PROVE IndInv'
  <1> DEFINE c == Top.c
  <1> DEFINE k == Top.k
  <1> DEFINE answer == <<F("call_reply", c, k, Top.a)>>
  <1>1. stack # <<>> /\ c \in Created /\ k \in ConnIds /\ Top.a \in Replies
    BY TopGood DEF IndInv, on_reply_wrapper, GoodFrame, Good, CmdOps, ConnOps
  <1>2. error_code_' \in [CmdIds -> ErrorCodes]
    BY DEF on_reply_wrapper, IndInv, CmdPart, CmdTypeOK, ErrorCodes
  <1>3. UNCHANGED <<cmd_st, callback_, ttl_, calls, got, hiredisVars, connVars, clusterVars>>
    BY DEF on_reply_wrapper
  <1>4. CmdPart' /\ Created' = Created
    BY <1>2, <1>3, SameCommands DEF IndInv, CmdPart, CmdTypeOK
  <1>5. GoodFrame' = GoodFrame
    BY <1>3, <1>4, SameGood
  <1>6. answer \in Seq(GoodFrame)
    BY <1>1, ReplyFramesGood, OneType DEF GoodFrame, Created
  <1>7. Continue(answer)
    BY DEF on_reply_wrapper
  <1> HIDE DEF answer
  <1>8. StackPart'
    BY <1>1, <1>5, <1>6, <1>7, ContinueGood DEF IndInv
  <1> QED
    BY <1>3, <1>4, <1>8, OnlyCmdsMove

\* Taking a command off a connection and trying it again.
LEMMA PopAndRetryGood ==
  ASSUME NEW c \in Created, NEW k \in ConnIds
  PROVE  PopAndRetry(c, k) \in Seq(GoodFrame)
  <1>1. F("pop_reply", c, k, "retry") \in GoodFrame /\ F("retry", c, 0, "none") \in GoodFrame
    BY ReplyFramesGood, CmdFramesGood DEF GoodFrame, Created, Replies
  <1> QED
    BY <1>1, OneType DEF PopAndRetry

LEMMA OnReplyRetryInv == ASSUME IndInv, on_reply_retry PROVE IndInv'
  <1>1. stack # <<>> /\ Top.c \in Created /\ Top.k \in ConnIds
    BY TopCmd DEF IndInv, on_reply_retry, CmdOps, ConnOps
  <1> QED
    BY <1>1, PopAndRetryGood, GoesOn DEF on_reply_retry

LEMMA AskPopInv == ASSUME IndInv, ask_pop PROVE IndInv'
  <1> DEFINE pop == <<F("pop_reply", Top.c, Top.k, "ask")>>
  <1>1. stack # <<>> /\ Top.c \in Created /\ Top.k \in ConnIds
    BY TopCmd DEF IndInv, ask_pop, CmdOps, ConnOps
  <1>2. pop \in Seq(GoodFrame)
    BY <1>1, ReplyFramesGood, OneType DEF GoodFrame, Created, Replies
  <1>3. (Continue(pop) \/ Continue(<<>>)) /\ UNCHANGED <<cmdVars, hiredisVars, connVars, clusterVars>>
    BY DEF ask_pop
  <1> HIDE DEF pop
  <1> QED
    BY <1>1, <1>2, <1>3, GoesOn, EmptyType

LEMMA AskingInv == ASSUME IndInv, asking PROVE IndInv'
  <1> DEFINE fs == <<F("retry", Top.c, 0, "none")>>
  <1>1. stack # <<>> /\ Top.c \in Created /\ Top.k \in ConnIds
    BY TopCmd DEF IndInv, asking, CmdOps, ConnOps
  <1>2. UNCHANGED <<cmdVars, connVars, clusterVars>>
    BY DEF asking
  <1>3. CASE Continue(fs) /\ UNCHANGED hiredisVars
    <2>1. fs \in Seq(GoodFrame)
      BY <1>1, CmdFramesGood, OneType DEF GoodFrame, Created
    <2> QED
      BY <1>1, <1>2, <1>3, <2>1, GoesOn
  <1>4. CASE redisAsyncFormattedCommand(Top.k, "on_reply_asking", Top.c) /\ Return
    <2> DEFINE entry == [fn |-> "on_reply_asking", c |-> Top.c]
    <2>1. /\ replies' = [replies EXCEPT ![Top.k] = Append(@, entry)]
          /\ UNCHANGED <<ctx_st, disconnecting, in_callback, ctx_err>>
      BY <1>4 DEF redisAsyncFormattedCommand
    <2>2. CmdPart' /\ Created' = Created /\ StackPart'
      BY <1>1, <1>2, <1>4, BackStep DEF IndInv
    <2>3. entry \in Entries /\ Entries' = Entries
      BY <1>1, <2>2 DEF Entries
    <2> HIDE DEF entry
    <2>4. \A s \in Seq(Entries) : Append(s, entry) \in Seq(Entries)
      BY <2>3
    <2>5. QueuePart'
      BY <1>1, <1>2, <2>1, <2>2, <2>3, <2>4 DEF IndInv, QueuePart, connVars, clusterVars,
         tableVars, timerVars
    <2> QED
      BY <1>2, <2>1, <2>2, <2>5, QueuesMove DEF connVars, clusterVars, tableVars, timerVars
  <1> QED
    BY <1>3, <1>4 DEF asking

LEMMA OnReplyMovedInv ==
  ASSUME IndInv, NEW s \in Servers, NEW i \in Slots, on_reply_moved(i, s)
  PROVE  IndInv'
  <1> DEFINE c == Top.c
             k == Top.k
             more == <<F("reload_slots", 0, 0, "none")>>
             answer == <<F("call_reply", c, k, Top.a)>>
  <1>1. stack # <<>> /\ c \in Created /\ k \in ConnIds /\ Top.a \in Replies
    BY TopGood DEF IndInv, on_reply_moved, GoodFrame, Good, CmdOps, ConnOps
  <1>2. PopAndRetry(c, k) \o more \in Seq(GoodFrame)
    <2>1. more \in Seq(GoodFrame)
      BY LoopFramesGood, OneType DEF GoodFrame
    <2> QED
      BY <1>1, <2>1, PopAndRetryGood, ConcatType
  <1>3. answer \in Seq(GoodFrame)
    BY <1>1, ReplyFramesGood, OneType DEF GoodFrame, Created
  <1>4. (Continue(PopAndRetry(c, k) \o more) \/ Continue(answer)) /\ UNCHANGED cmdVars
    BY DEF on_reply_moved
  <1> HIDE DEF more, answer
  <1>5. CmdPart' /\ Created' = Created /\ StackPart'
    BY <1>1, <1>2, <1>3, <1>4, MoveStep DEF IndInv
  <1>6. TablePart'
    <2>1. slot' \in [CmdIds -> Slots \cup {-1}]
      BY DEF on_reply_moved, IndInv, TablePart
    <2>2. <<s>> \in Seq(Servers)
      BY OneType
    <2>3. slots_' \in [Slots -> Seq(Servers)]
      BY <2>2 DEF on_reply_moved, IndInv, TablePart
    <2> QED
      BY <2>1, <2>3 DEF on_reply_moved, IndInv, TablePart
  <1> QED
    BY <1>5, <1>6, QueuesUnchanged, TimesUnchanged, TableMoves
    DEF IndInv, on_reply_moved, hiredisVars, connVars, timerVars

LEMMA OnReplyClusterdownInv == ASSUME IndInv, on_reply_clusterdown PROVE IndInv'
  <1> DEFINE fs == <<F("call_reply", Top.c, Top.k, Top.a), F("reset_begin", 0, 0, "none")>>
  <1>1. stack # <<>> /\ Top.c \in Created /\ Top.k \in ConnIds /\ Top.a \in Replies
    BY TopGood DEF IndInv, on_reply_clusterdown, GoodFrame, Good, CmdOps, ConnOps
  <1>2. fs \in Seq(GoodFrame)
    <2>1. F("call_reply", Top.c, Top.k, Top.a) \in GoodFrame
          /\ F("reset_begin", 0, 0, "none") \in GoodFrame
      BY <1>1, ReplyFramesGood, LoopFramesGood DEF GoodFrame, Created
    <2> QED
      BY <2>1, TwoType
  <1>3. Continue(fs) /\ UNCHANGED <<cmdVars, hiredisVars, connVars, clusterVars>>
    BY DEF on_reply_clusterdown
  <1> HIDE DEF fs
  <1> QED
    BY <1>1, <1>2, <1>3, GoesOn

LEMMA OnReplyAskingInv == ASSUME IndInv, on_reply_asking PROVE IndInv'
  <1> DEFINE again == <<F("retry", Top.c, 0, "none")>>
             there == <<F("retry", Top.c, Top.k, "ask")>>
  <1>1. stack # <<>> /\ Top.c \in Created /\ Top.k \in ConnIds /\ Top.a \in Replies
    BY TopGood DEF IndInv, on_reply_asking, GoodFrame, Good, CmdOps, ConnOps
  <1>2. UNCHANGED <<hiredisVars, connVars, clusterVars>>
    BY DEF on_reply_asking
  <1>3. again \in Seq(GoodFrame) /\ there \in Seq(GoodFrame)
    BY <1>1, ReplyFramesGood, CmdFramesGood, OneType DEF GoodFrame, Created
  <1>4. CASE (Continue(again) \/ Continue(there)) /\ UNCHANGED cmdVars
    <2> HIDE DEF again, there
    <2> QED
      BY <1>1, <1>2, <1>3, <1>4, GoesOn
  <1>5. CASE Fail(Top.c, "CONNECTION", Top.a)
    BY <1>1, <1>2, <1>5, FailStep DEF ErrorCodes
  <1> QED
    BY <1>4, <1>5 DEF on_reply_asking

LEMMA OnConnectedInv == ASSUME IndInv, on_connected_wrapper PROVE IndInv'
  <1> DEFINE status == IF Top.a = "OK" /\ conn_status_[Top.k] = "DISCONNECTED"
                       THEN "OTHER" ELSE Top.a
  <1> DEFINE fs == <<F("user", 0, Top.k, "on_connected"), F("on_connected_end", 0, Top.k, status)>>
  <1>1. stack # <<>> /\ Top.k \in ConnIds /\ Top.a \in {"OK", "IO", "OTHER"}
    BY TopGood DEF IndInv, on_connected_wrapper, GoodFrame, Good, ConnOps
  <1>2. fs \in Seq(GoodFrame)
    <2>1. status \in {"OK", "IO", "OTHER"}
      BY <1>1
    <2>2. /\ F("user", 0, Top.k, "on_connected") \in GoodFrame
          /\ F("on_connected_end", 0, Top.k, status) \in GoodFrame
      BY <1>1, <2>1, ConnFramesGood, HiredisFramesGood DEF GoodFrame
    <2> QED
      BY <2>2, TwoType
  <1>3. Continue(fs) /\ UNCHANGED cmdVars
    BY DEF on_connected_wrapper
  <1>4. notified' \in [ConnIds -> SUBSET Events]
    BY <1>1 DEF on_connected_wrapper, Notify, Events, IndInv, MapPart
  <1> HIDE DEF fs
  <1>5. CmdPart' /\ Created' = Created /\ StackPart'
    BY <1>1, <1>2, <1>3, MoveStep DEF IndInv
  <1> QED
    BY <1>4, <1>5, NotifyStep DEF on_connected_wrapper

LEMMA OnConnectedEndInv == ASSUME IndInv, on_connected_end PROVE IndInv'
  <1> DEFINE k == Top.k
             reload == <<F("reload_slots", 0, 0, "none")>>
             rel == <<F("release_connection", 0, k, "keep")>>
  <1>1. stack # <<>> /\ k \in ConnIds
    BY TopCmd DEF IndInv, on_connected_end, ConnOps
  <1>2. reload \in Seq(GoodFrame) /\ rel \in Seq(GoodFrame)
    BY <1>1, LoopFramesGood, ConnFramesGood, OneType DEF GoodFrame
  <1>3. UNCHANGED <<cmdVars, hiredisVars, clusterVars>>
    BY DEF on_connected_end
  <1>4. CASE Top.a = "OK"
    <2>1. set_connected(k) /\ (Continue(reload) \/ Continue(<<>>))
      BY <1>4 DEF on_connected_end
    <2> HIDE DEF reload
    <2>2. CmdPart' /\ Created' = Created /\ StackPart'
      BY <1>1, <1>2, <1>3, <2>1, MoveStep, EmptyType DEF IndInv
    <2>3. ConnPart'
      BY <1>1, <2>1 DEF IndInv, ConnPart, Statuses, set_connected
    <2> QED
      BY <1>3, <2>1, <2>2, <2>3, QueuesUnchanged, ContextsUnchanged, TableUnchanged, MapUnchanged,
         TimesUnchanged, FreshUnchanged DEF IndInv, set_connected, hiredisVars, clusterVars,
         tableVars, mapVars, timerVars
  <1>5. CASE Top.a # "OK"
    <2>1. Continue(rel \o reload) /\ UNCHANGED connVars
      BY <1>5 DEF on_connected_end
    <2> HIDE DEF reload, rel
    <2> QED
      BY <1>1, <1>2, <1>3, <2>1, GoesOn, ConcatType
  <1> QED
    BY <1>4, <1>5

LEMMA OnDisconnectedInv == ASSUME IndInv, on_disconnected_wrapper PROVE IndInv'
  <1> DEFINE rel == <<F("release_connection", 0, Top.k, "keep")>>
  <1>1. stack # <<>> /\ Top.k \in ConnIds
    BY TopCmd DEF IndInv, on_disconnected_wrapper, ConnOps
  <1>2. rel \in Seq(GoodFrame)
    BY <1>1, ConnFramesGood, OneType DEF GoodFrame
  <1>3. Continue(rel) /\ UNCHANGED cmdVars
    BY DEF on_disconnected_wrapper
  <1> HIDE DEF rel
  <1>4. CmdPart' /\ Created' = Created /\ StackPart'
    BY <1>1, <1>2, <1>3, MoveStep DEF IndInv
  <1>5. TablePart'
    BY TableForgets, TableUnchanged DEF on_disconnected_wrapper, IndInv
  <1> QED
    BY <1>4, <1>5, QueuesUnchanged, TimesUnchanged, TableMoves
    DEF IndInv, on_disconnected_wrapper, hiredisVars, connVars, timerVars

LEMMA UserReturnInv == ASSUME IndInv, UserReturn PROVE IndInv'
  <1>1. stack # <<>>
    BY TopCmd DEF IndInv, UserReturn
  <1> QED
    BY <1>1, BackStep, OnlyCmdsMove DEF IndInv, UserReturn

LEMMA CallReplyInv == ASSUME IndInv, CallReply PROVE IndInv'
  <1> DEFINE c == Top.c
  <1> DEFINE k == Top.k
  <1>1. stack # <<>> /\ c \in Created /\ k \in ConnIds /\ Top.a \in Replies
    BY TopGood DEF IndInv, CallReply, call_reply, GoodFrame, Good, CmdOps, ConnOps
  <1>2. UNCHANGED <<hiredisVars, connVars, clusterVars>>
    BY DEF CallReply, call_reply
  <1>3. CASE Continue(<<F("pop_reply", c, k, Top.a)>>) /\ UNCHANGED cmdVars
    <2>1. <<F("pop_reply", c, k, Top.a)>> \in Seq(GoodFrame)
      BY <1>1, ReplyFramesGood, OneType DEF GoodFrame, Created
    <2> QED
      BY <1>1, <1>2, <1>3, <2>1, GoesOn
  <1>4. CASE CallBack(c, "NOT_FOUND", Top.a, <<F("destroy", c, 0, "none")>>)
    <2> DEFINE fs == <<F("destroy", c, 0, "none")>>
    <2>1. CmdPart' /\ Created' = Created /\ StackPart'
      BY <1>1, <1>4, CallBackStep DEF IndInv, ErrorCodes
    <2> QED
      BY <1>2, <2>1, OnlyCmdsMove
  <1> QED
    BY <1>3, <1>4 DEF CallReply, call_reply

LEMMA PopReplyInv == ASSUME IndInv, PopReply PROVE IndInv'
  <1> DEFINE c == Top.c
  <1> DEFINE k == Top.k
  <1> DEFINE e == Head(reply_list_[k])
  <1>1. stack # <<>> /\ c \in Created /\ k \in ConnIds /\ Top.a \in Replies \cup {"retry", "ask"}
    BY TopGood DEF IndInv, PopReply, pop_reply, GoodFrame, Good, CmdOps, ConnOps
  <1>2. UNCHANGED <<conn_st, context_, conn_status_, sequence_, seq_alloc, hiredisVars, clusterVars>>
    BY DEF PopReply, pop_reply
  <1>3. CASE reply_list_[k] = <<>>
    <2>1. ub' = TRUE /\ UNCHANGED <<stack, cmdVars, reply_list_>>
      BY <1>3 DEF PopReply, pop_reply
    <2>2. CmdPart' /\ Created' = Created /\ StackPart'
      BY <2>1, CmdsUnchanged DEF IndInv, StackPart
    <2> QED
      BY <1>2, <2>1, <2>2, OnlyCmdsMove DEF connVars
  <1>4. CASE reply_list_[k] # <<>>
    <2>1. e \in Created /\ [reply_list_ EXCEPT ![k] = Tail(@)] \in [ConnIds -> Seq(Created)]
      BY <1>1, <1>4, ReplyListHead DEF IndInv
    <2>2. reply_list_' = [reply_list_ EXCEPT ![k] = Tail(@)]
      BY <1>4 DEF PopReply, pop_reply
    <2>3. CmdPart' /\ Created' = Created /\ StackPart'
      <3>1. CASE e # c
        <4> DEFINE fs == <<F("destroy", e, 0, "none"), Top>>
        <4>1. CallBack(e, "TIMEOUT", "null", fs)
          BY <1>4, <3>1 DEF PopReply, pop_reply
        <4> QED
          BY <1>1, <2>1, <4>1, CallBackStep DEF IndInv, ErrorCodes, Replies
      <3>2. CASE e = c /\ Top.a \in {"retry", "ask"}
        <4> DEFINE fs == <<F("retry", c, 0, "none")>>
        <4>1. (Continue(fs) \/ Continue(<<>>)) /\ UNCHANGED cmdVars
          BY <1>4, <3>2 DEF PopReply, pop_reply
        <4>2. fs \in Seq(GoodFrame)
          BY <1>1, CmdFramesGood, OneType DEF GoodFrame, Created
        <4> HIDE DEF fs
        <4> QED
          BY <1>1, <4>1, <4>2, MoveStep, EmptyType DEF IndInv
      <3>3. CASE e = c /\ Top.a \notin {"retry", "ask"}
        <4> DEFINE fs == <<F("destroy", c, 0, "none")>>
        <4>1. CallBack(c, Translate(k, c, Top.a), Top.a, fs)
          BY <1>1, <1>4, <3>3 DEF PopReply, pop_reply, Replies
        <4>2. Translate(k, c, Top.a) \in ErrorCodes
          BY <1>1 DEF Translate, ErrorCodes, IndInv, CmdPart, CmdTypeOK, Created
        <4> QED
          BY <1>1, <3>3, <4>1, <4>2, CallBackStep DEF IndInv
      <3> QED
        BY <3>1, <3>2, <3>3
    <2>4. QueuePart'
      BY <1>2, <2>1, <2>2, <2>3 DEF IndInv, QueuePart, Entries, hiredisVars, clusterVars,
         tableVars, timerVars
    <2> QED
      BY <1>2, <2>3, <2>4, QueuesMove DEF hiredisVars, clusterVars, tableVars, timerVars
  <1> QED
    BY <1>3, <1>4

\* What hiredis does by itself: the stack and the contexts move, and its queues
\* only get shorter.
LEMMA HiredisStep ==
  ASSUME IndInv, StackPart', ContextPart', replies' \in [ConnIds -> Seq(Entries)],
         UNCHANGED <<cmdVars, connVars, clusterVars>>
  PROVE  IndInv'
  <1>1. CmdPart' /\ Created' = Created
    BY CmdsUnchanged DEF IndInv
  <1>2. QueuePart'
    BY <1>1 DEF IndInv, QueuePart, Entries, connVars, clusterVars, tableVars, timerVars
  <1> QED
    BY <1>1, <1>2, ConnsUnchanged, TableUnchanged, MapUnchanged, TimesUnchanged, FreshUnchanged
    DEF IndInv, connVars, clusterVars, tableVars, mapVars, timerVars

\* Freeing the context, or nothing.
LEMMA FreeFramesGood ==
  ASSUME NEW k \in ConnIds, NEW p
  PROVE  /\ <<F("h_free", 0, k, "none")>> \in Seq(GoodFrame)
         /\ (IF p THEN <<F("h_free", 0, k, "none")>> ELSE <<>>) \in Seq(GoodFrame)
  <1>1. <<F("h_free", 0, k, "none")>> \in Seq(GoodFrame)
    BY HiredisFramesGood, OneType DEF GoodFrame
  <1> QED
    BY <1>1

LEMMA DisconnectInv == ASSUME IndInv, ByHiredis(redisAsyncDisconnect) PROVE IndInv'
  <1> DEFINE k == Top.k
  <1> DEFINE fs == IF ~in_callback[k] /\ replies[k] = <<>>
                   THEN <<F("h_free", 0, k, "none")>> ELSE <<>>
  <1>1. stack # <<>> /\ k \in ConnIds
    BY TopGood DEF IndInv, ByHiredis, redisAsyncDisconnect, GoodFrame, Good, ConnOps
  <1>2. fs \in Seq(GoodFrame)
    BY <1>1, FreeFramesGood
  <1>3. Continue(fs) /\ UNCHANGED <<replies, cmdVars, connVars, clusterVars>>
    BY DEF ByHiredis, redisAsyncDisconnect
  <1> HIDE DEF fs
  <1>4. StackPart'
    BY <1>1, <1>2, <1>3, MoveStep DEF IndInv
  <1>5. ContextPart'
    BY DEF ByHiredis, redisAsyncDisconnect, IndInv, ContextPart
  <1> QED
    BY <1>3, <1>4, <1>5, HiredisStep DEF IndInv, QueuePart

\* The end of a callback of a context that may have been told to disconnect.
LEMMA CallbackEndInv ==
  ASSUME IndInv, ByHiredis(ConnectEnd) \/ ByHiredis(ReplyEnd)
  PROVE  IndInv'
  <1> DEFINE k == Top.k
  <1> DEFINE fs == IF disconnecting[k] /\ replies[k] = <<>>
                   THEN <<F("h_free", 0, k, "none")>> ELSE <<>>
  <1>1. stack # <<>> /\ k \in ConnIds
    BY TopGood DEF IndInv, ByHiredis, ConnectEnd, ReplyEnd, GoodFrame, Good, ConnOps
  <1>2. fs \in Seq(GoodFrame)
    BY <1>1, FreeFramesGood
  <1>3. Continue(fs) /\ UNCHANGED <<replies, cmdVars, connVars, clusterVars>>
    BY DEF ByHiredis, ConnectEnd, ReplyEnd
  <1> HIDE DEF fs
  <1>4. StackPart'
    BY <1>1, <1>2, <1>3, MoveStep DEF IndInv
  <1>5. ContextPart'
    BY DEF ByHiredis, ConnectEnd, ReplyEnd, IndInv, ContextPart
  <1> QED
    BY <1>3, <1>4, <1>5, HiredisStep DEF IndInv, QueuePart

LEMMA ConnectFailedEndInv == ASSUME IndInv, ByHiredis(ConnectFailedEnd) PROVE IndInv'
  <1> DEFINE fs == <<F("h_free", 0, Top.k, "none")>>
  <1>1. stack # <<>> /\ Top.k \in ConnIds
    BY TopGood DEF IndInv, ByHiredis, ConnectFailedEnd, GoodFrame, Good, ConnOps
  <1>2. fs \in Seq(GoodFrame)
    BY <1>1, FreeFramesGood
  <1>3. Continue(fs) /\ UNCHANGED <<replies, cmdVars, connVars, clusterVars>>
    BY DEF ByHiredis, ConnectFailedEnd
  <1> HIDE DEF fs
  <1>4. StackPart'
    BY <1>1, <1>2, <1>3, MoveStep DEF IndInv
  <1>5. ContextPart'
    BY VersionAssumption DEF ByHiredis, ConnectFailedEnd, IndInv, ContextPart, VersionAssumption
  <1> QED
    BY <1>3, <1>4, <1>5, HiredisStep DEF IndInv, QueuePart

LEMMA ConnectOutcomeInv ==
  ASSUME IndInv, NEW k \in ConnIds, ByHiredis(ConnectDone(k)) \/ ByHiredis(ConnectFailed(k))
  PROVE  IndInv'
  <1> DEFINE done == <<F("on_connected", 0, k, "OK"), F("h_connect_end", 0, k, "none")>>
  <1> DEFINE failed == <<F("on_connected", 0, k, "IO"), F("h_connect_failed", 0, k, "none")>>
  <1>1. done \in Seq(GoodFrame) /\ failed \in Seq(GoodFrame)
    <2>1. /\ F("on_connected", 0, k, "OK") \in GoodFrame
          /\ F("on_connected", 0, k, "IO") \in GoodFrame
          /\ F("h_connect_end", 0, k, "none") \in GoodFrame
          /\ F("h_connect_failed", 0, k, "none") \in GoodFrame
      BY HiredisFramesGood DEF GoodFrame
    <2> QED
      BY <2>1, TwoType
  <1>2. (Call(done) \/ Call(failed)) /\ UNCHANGED <<replies, cmdVars, connVars, clusterVars>>
    BY DEF ByHiredis, ConnectDone, ConnectFailed
  <1> HIDE DEF done, failed
  <1>3. StackPart'
    BY <1>1, <1>2, EnterStep DEF IndInv
  <1>4. ContextPart'
    BY DEF ByHiredis, ConnectDone, ConnectFailed, IndInv, ContextPart, ContextStates
  <1> QED
    BY <1>2, <1>3, <1>4, HiredisStep DEF IndInv, QueuePart

\* The first command of hiredis's queue and what is left of the queue.
LEMMA RepliesHead ==
  ASSUME QueuePart, NEW k \in ConnIds, replies[k] # <<>>, NEW r \in Replies
  PROVE  /\ ReplyFrame(k, r) \in GoodFrame
         /\ [replies EXCEPT ![k] = Tail(@)] \in [ConnIds -> Seq(Entries)]
  <1>1. replies[k] \in Seq(Entries)
    BY DEF QueuePart
  <1>2. Head(replies[k]) \in Entries /\ Tail(replies[k]) \in Seq(Entries)
    BY <1>1, TailType
  <1>3. /\ Head(replies[k]).c \in Created
        /\ \/ ReplyFrame(k, r) = F("on_reply", Head(replies[k]).c, k, r)
           \/ ReplyFrame(k, r) = F("on_reply_asking", Head(replies[k]).c, k, r)
    BY <1>2 DEF ReplyFrame, Entries
  <1>4. ReplyFrame(k, r) \in GoodFrame
    BY <1>3, ReplyFramesGood DEF GoodFrame, Created
  <1> QED
    BY <1>2, <1>4 DEF QueuePart

LEMMA ReplyArrivesInv ==
  ASSUME IndInv, NEW k \in ConnIds, NEW r \in Replies, ByHiredis(ReplyArrives(k, r))
  PROVE  IndInv'
  <1> DEFINE fs == <<ReplyFrame(k, r), F("h_reply_end", 0, k, "none")>>
  <1>1. /\ ReplyFrame(k, r) \in GoodFrame
        /\ [replies EXCEPT ![k] = Tail(@)] \in [ConnIds -> Seq(Entries)]
    BY RepliesHead DEF ByHiredis, ReplyArrives, IndInv
  <1>2. fs \in Seq(GoodFrame)
    <2>1. F("h_reply_end", 0, k, "none") \in GoodFrame
      BY HiredisFramesGood DEF GoodFrame
    <2> QED
      BY <1>1, <2>1, TwoType
  <1>3. /\ Call(fs) /\ replies' = [replies EXCEPT ![k] = Tail(@)]
        /\ UNCHANGED <<cmdVars, connVars, clusterVars>>
    BY DEF ByHiredis, ReplyArrives
  <1> HIDE DEF fs
  <1>4. StackPart'
    BY <1>2, <1>3, EnterStep DEF IndInv
  <1>5. ContextPart'
    BY DEF ByHiredis, ReplyArrives, IndInv, ContextPart
  <1> QED
    BY <1>1, <1>3, <1>4, <1>5, HiredisStep

LEMMA ConnectionLostInv ==
  ASSUME IndInv, NEW k \in ConnIds, NEW e \in {"IO", "OTHER"}, ByHiredis(ConnectionLost(k, e))
  PROVE  IndInv'
  <1> DEFINE fs == <<F("h_free", 0, k, "none")>>
  <1>1. fs \in Seq(GoodFrame)
    BY FreeFramesGood
  <1>2. Call(fs) /\ UNCHANGED <<replies, cmdVars, connVars, clusterVars>>
    BY DEF ByHiredis, ConnectionLost
  <1> HIDE DEF fs
  <1>3. StackPart'
    BY <1>1, <1>2, EnterStep DEF IndInv
  <1>4. ContextPart'
    BY VersionAssumption DEF ByHiredis, ConnectionLost, IndInv, ContextPart, VersionAssumption
  <1> QED
    BY <1>2, <1>3, <1>4, HiredisStep DEF IndInv, QueuePart

LEMMA FreeContextInv == ASSUME IndInv, ByHiredis(FreeContext) PROVE IndInv'
  <1> DEFINE k == Top.k
  <1>1. stack # <<>> /\ Top \in GoodFrame /\ k \in ConnIds
    BY TopGood DEF IndInv, ByHiredis, FreeContext, GoodFrame, Good, ConnOps
  <1>2. UNCHANGED <<cmdVars, connVars, clusterVars>>
    BY DEF ByHiredis
  <1>3. ContextPart'
    BY DEF ByHiredis, FreeContext, IndInv, ContextPart
  <1>4. CASE replies[k] # <<>>
    <2> DEFINE fs == <<ReplyFrame(k, "null"), Top>>
    <2>1. /\ ReplyFrame(k, "null") \in GoodFrame
          /\ [replies EXCEPT ![k] = Tail(@)] \in [ConnIds -> Seq(Entries)]
      BY <1>1, <1>4, RepliesHead DEF IndInv, Replies
    <2>2. Continue(fs) /\ replies' = [replies EXCEPT ![k] = Tail(@)]
      BY <1>4 DEF ByHiredis, FreeContext
    <2>3. fs \in Seq(GoodFrame)
      BY <1>1, <2>1, TwoType
    <2> HIDE DEF fs
    <2>4. StackPart'
      BY <1>1, <1>2, <2>2, <2>3, MoveStep DEF IndInv
    <2> QED
      BY <1>2, <1>3, <2>1, <2>2, <2>4, HiredisStep
  <1>5. CASE replies[k] = <<>>
    <2> DEFINE ev == IF ctx_st[k] = "connected"
                     THEN <<F("on_disconnected", 0, k, ctx_err[k])>> ELSE <<>>
    <2> DEFINE fs == <<F("h_free_end", 0, k, "none")>>
    <2>1. Continue(ev \o fs) /\ UNCHANGED replies
      BY <1>5 DEF ByHiredis, FreeContext
    <2>2. ev \in Seq(GoodFrame)
      <3>1. ctx_err[k] \in {"OK", "IO", "OTHER"}
        BY <1>1 DEF IndInv, ContextPart
      <3>2. <<F("on_disconnected", 0, k, ctx_err[k])>> \in Seq(GoodFrame)
        BY <1>1, <3>1, HiredisFramesGood, OneType DEF GoodFrame
      <3> QED
        BY <3>2
    <2>3. fs \in Seq(GoodFrame)
      BY <1>1, HiredisFramesGood, OneType DEF GoodFrame
    <2> HIDE DEF ev, fs
    <2>4. StackPart'
      BY <1>1, <1>2, <2>1, <2>2, <2>3, ConcatType, MoveStep DEF IndInv
    <2> QED
      BY <1>2, <1>3, <2>1, <2>4, HiredisStep DEF IndInv, QueuePart
  <1> QED
    BY <1>4, <1>5

LEMMA FreeContextEndInv == ASSUME IndInv, ByHiredis(FreeContextEnd) PROVE IndInv'
  <1>1. stack # <<>>
    BY TopGood DEF IndInv, ByHiredis, FreeContextEnd
  <1>2. StackPart'
    BY <1>1, CmdsUnchanged, ReturnGood DEF IndInv, ByHiredis, FreeContextEnd
  <1>3. ContextPart'
    BY DEF ByHiredis, FreeContextEnd, IndInv, ContextPart, ContextStates
  <1> QED
    BY <1>2, <1>3, HiredisStep DEF ByHiredis, FreeContextEnd, IndInv, QueuePart

LEMMA CrashInv == ASSUME IndInv, Crash PROVE IndInv'
  <1>1. UNCHANGED <<cmdVars, hiredisVars, connVars, clusterVars, stack>> /\ ub' = TRUE
    BY DEF Crash, UseAfterFree, cmdVars, hiredisVars, connVars
  <1>2. CmdPart' /\ Created' = Created /\ StackPart'
    BY <1>1, CmdsUnchanged DEF IndInv, StackPart
  <1> QED
    BY <1>1, <1>2, OnlyCmdsMove

LEMMA StutterInv == ASSUME IndInv, UNCHANGED vars PROVE IndInv'
  <1>1. UNCHANGED <<cmdVars, hiredisVars, connVars, clusterVars, stack, ub>>
    BY DEF vars, stackVars
  <1>2. CmdPart' /\ Created' = Created /\ StackPart'
    BY <1>1, CmdsUnchanged DEF IndInv, StackPart
  <1> QED
    BY <1>1, <1>2, OnlyCmdsMove

-----------------------------------------------------------------------------
(* The theorems                                                            *)

LEMMA InitInv == Init => IndInv
  <1> SUFFICES ASSUME Init PROVE IndInv
    OBVIOUS
  <1> USE DEF Init, RuntimeInit, CmdInit, HiredisInit, ConnInit
  <1>1. CmdPart
    BY TTLAssumption DEF CmdPart, CmdTypeOK, ErrorCodes, Replies, ObjectStates, TTLAssumption
  <1>2. StackPart /\ QueuePart
    BY EmptyType DEF StackPart, QueuePart
  <1>3. ContextPart /\ ConnPart
    BY DEF ContextPart, ContextStates, ConnPart, Statuses, ObjectStates
  <1>4. TablePart /\ TimePart
    BY EmptyType DEF TablePart, TimePart, Cleared
  <1>5. MapPart
    BY BoundsAssumption, ClusterAssumption DEF MapPart, BoundsAssumption, ClusterAssumption
  <1>6. FreshPart
    BY DEF FreshPart
  <1> QED
    BY <1>1, <1>2, <1>3, <1>4, <1>5, <1>6 DEF IndInv

LEMMA LibraryStepInv == ASSUME IndInv, LibraryStep PROVE IndInv'
  <1>1. CASE \/ exec_ttl \/ exec_pending \/ exec \/ exec_failed \/ exec_conn \/ exec_conn_closing
             \/ exec_conn_failed \/ retry \/ destroy_cmd \/ Destroy \/ reload_slots
             \/ reload_exec \/ reload_end \/ on_reply_update_slot \/ run_pending
             \/ on_reply_update_slot_failed
    BY <1>1, ExecFailsInv, ExecPendingInv, ExecInv, ExecConnInv, ExecConnClosingInv,
       ExecConnFailedInv, RetryInv, DestroyCmdInv, DestroyInv, ReloadSlotsInv, ReloadExecInv,
       ReloadEndInv, UpdateSlotInv, RunPendingInv, UpdateSlotFailedInv
  <1>2. CASE \/ release_connection \/ release_event \/ release_end \/ ConnectionRelease
             \/ reset_begin \/ reset_slots \/ reset \/ proc \/ proc_conn \/ proc_clear
    BY <1>2, ReleaseConnectionInv, ReleaseEventInv, ReleaseEndInv, ConnectionReleaseInv,
       ResetBeginInv, ResetSlotsInv, ResetInv, ProcInv, ProcConnInv, ProcClearInv
  <1>3. CASE \/ on_reply_wrapper \/ on_reply_retry \/ on_reply_clusterdown
             \/ ask_pop \/ asking \/ on_reply_asking \/ on_connected_wrapper
             \/ on_connected_end \/ on_disconnected_wrapper \/ CallReply \/ PopReply
    BY <1>3, OnReplyInv, OnReplyRetryInv, OnReplyClusterdownInv, AskPopInv, AskingInv,
       OnReplyAskingInv, OnConnectedInv, OnConnectedEndInv, OnDisconnectedInv, CallReplyInv,
       PopReplyInv
  <1>4. ASSUME NEW s \in Servers, on_reply_ask(s) \/ \E i \in Slots : on_reply_moved(i, s)
        PROVE  IndInv'
    BY <1>4, OnReplyAskInv, OnReplyMovedInv
  <1>5. CASE \/ ByHiredis(redisAsyncDisconnect) \/ ByHiredis(ConnectEnd)
             \/ ByHiredis(ConnectFailedEnd) \/ ByHiredis(ReplyEnd)
             \/ ByHiredis(FreeContext) \/ ByHiredis(FreeContextEnd)
    BY <1>5, DisconnectInv, CallbackEndInv, ConnectFailedEndInv, FreeContextInv, FreeContextEndInv
  <1> QED
    BY <1>1, <1>2, <1>3, <1>4, <1>5 DEF LibraryStep

LEMMA NetworkStepInv == ASSUME IndInv, NetworkStep PROVE IndInv'
  <1>1. PICK k \in ConnIds :
          \/ ByHiredis(ConnectDone(k)) \/ ByHiredis(ConnectFailed(k))
          \/ Reply(k) \/ \E e \in {"IO", "OTHER"} : ByHiredis(ConnectionLost(k, e))
    BY DEF NetworkStep
  <1>2. CASE Reply(k)
    <2>1. PICK r \in Answers(Head(replies[k])) : ByHiredis(ReplyArrives(k, r))
      BY <1>2 DEF Reply
    <2>2. r \in Replies
      BY DEF Answers, Replies, Redirections
    <2> QED
      BY <2>1, <2>2, ReplyArrivesInv
  <1> QED
    BY <1>1, <1>2, ConnectOutcomeInv, ConnectionLostInv

LEMMA NextInv == ASSUME IndInv, [Next]_vars PROVE IndInv'
  <1>1. CASE LibraryStep
    BY <1>1, LibraryStepInv
  <1>2. CASE NetworkStep
    BY <1>2, NetworkStepInv
  <1>3. CASE Proc
    <2>1. PICK t \in {now, now + 1} : UserProc(t)
      BY <1>3 DEF Proc
    <2>2. t \in Nat
      BY DEF IndInv, TimePart
    <2> QED
      BY <2>1, <2>2, UserProcInv
  <1>4. CASE UserStep
    BY <1>4, UserExecInv, UserConnectInv, UserReleaseInv, UserStartInv, UserResetInv DEF UserStep
  <1>5. CASE UserReturn \/ Crash \/ Idle \/ UNCHANGED vars
    BY <1>5, UserReturnInv, CrashInv, StutterInv DEF Idle
  <1> QED
    BY <1>1, <1>2, <1>3, <1>4, <1>5 DEF Next

LEMMA InvTypeOK == IndInv => TypeOK
  <1> SUFFICES ASSUME IndInv PROVE TypeOK
    OBVIOUS
  <1>1. Created \subseteq CmdIds
    BY DEF Created
  <1>2. RuntimeTypeOK
    <2>1. GoodFrame \subseteq Frame
      BY DEF GoodFrame, Good
    <2>2. stack \in Seq(Frame)
      BY <2>1, SeqMono DEF IndInv, StackPart
    <2> QED
      BY <2>2 DEF IndInv, StackPart, CmdPart, ConnPart, ContextPart, RuntimeTypeOK
  <1>3. Seq(Created) \subseteq Seq(CmdIds)
    BY <1>1, SeqMono
  <1>4. HiredisTypeOK /\ ConnTypeOK
    <2>1. Entries \subseteq CallbackEntry
      BY <1>1 DEF Entries, CallbackEntry
    <2>2. Seq(Entries) \subseteq Seq(CallbackEntry)
      BY <2>1, SeqMono
    <2> QED
      BY <1>3, <2>2 DEF HiredisTypeOK, ConnTypeOK, IndInv, QueuePart, ContextPart, ConnPart
  <1>5. timer_pending \in Seq(Delay) /\ slot_pending_ \in Seq(CmdIds)
    <2>1. [at : Nat, cmd : Created] \subseteq Delay
      BY <1>1 DEF Delay
    <2> QED
      BY <1>3, <2>1, SeqMono DEF IndInv, QueuePart
  <1>6. CmdTypeOK /\ TablePart /\ MapPart /\ TimePart
    BY DEF IndInv, CmdPart
  <1> QED
    BY <1>2, <1>4, <1>5, <1>6 DEF TypeOK, TablePart, MapPart, TimePart

\* The invariant holds in every state the connector can reach.
THEOREM Invariance == Spec => []IndInv
  <1>1. Init => IndInv
    BY InitInv
  <1>2. IndInv /\ [Next]_vars => IndInv'
    BY NextInv
  <1> QED
    BY <1>1, <1>2, PTL DEF Spec

\* All state keeps its type: in particular no count of the TTL goes below 0
\* through redirections, retries and reloads, and every queue, reply list,
\* list of waiting commands and pending call refers to commands and
\* connections that exist or have existed.
THEOREM TypeCorrect == Spec => []TypeOK
  BY Invariance, InvTypeOK, PTL

-----------------------------------------------------------------------------
(* Cluster implements Lifecycle                                            *)

\* What a step does to the commands: nothing that Lifecycle sees, or one of
\* them is created, called back or destroyed.  Only CLUSTER SLOTS commands,
\* which Lifecycle does not see, are ever created again.
CmdStep ==
  \/ UNCHANGED <<cmd_st, calls>>
  \/ \E c \in CmdIds : (cmd_st[c] = "none" \/ LoadCmd(c)) /\ create(c)
  \/ \E c \in Created, code \in ErrorCodes, r \in Replies :
       cmd_call_reply(c, code, r) /\ UNCHANGED cmd_st
  \/ \E c \in Created : /\ cmd_st[c] = "live" /\ ~callback_[c]
                         /\ cmd_st' = [cmd_st EXCEPT ![c] = "freed"]
                         /\ UNCHANGED calls

\* The lives of the application's commands.
lives == [c \in 1 .. MaxCmds |-> lifeOf[c]]

LEMMA UserCmds ==
  /\ 1 .. MaxCmds \subseteq CmdIds
  /\ \A c \in CmdIds : c \in 1 .. MaxCmds <=> UserCmd(c)
  /\ \A c \in CmdIds : LoadCmd(c) => c \notin 1 .. MaxCmds
  BY BoundsAssumption DEF BoundsAssumption, CmdIds, UserCmd, LoadCmd

\* When no other command changes, Lifecycle sees the change of one of the
\* application's commands, and no other.
LEMMA OneOfLives ==
  ASSUME NEW c \in CmdIds, NEW v, lifeOf'[c] = v,
         \A d \in CmdIds \ {c} : cmd_st'[d] = cmd_st[d] /\ calls'[d] = calls[d]
  PROVE  /\ c \in 1 .. MaxCmds => lives' = [lives EXCEPT ![c] = v]
         /\ c \notin 1 .. MaxCmds => lives' = lives
  <1>1. lifeOf' = [lifeOf EXCEPT ![c] = v]
    BY OneLife
  <1>2. lifeOf = [d \in CmdIds |-> lifeOf[d]]
    BY DEF lifeOf
  <1>3. \A d \in CmdIds : lifeOf'[d] = IF d = c THEN v ELSE lifeOf[d]
    BY <1>1, <1>2
  <1> QED
    BY <1>3, UserCmds DEF lives

LEMMA CmdStepRefines ==
  ASSUME CmdPart, CmdStep
  PROVE  [L!LifeNext]_lives
  <1> DEFINE Same(c) ==
        \A d \in CmdIds \ {c} : cmd_st'[d] = cmd_st[d] /\ calls'[d] = calls[d]
  <1>1. CASE UNCHANGED <<cmd_st, calls>>
    BY <1>1 DEF lifeOf, lives
  <1>2. ASSUME NEW c \in CmdIds, cmd_st[c] = "none" \/ LoadCmd(c), create(c)
        PROVE  [L!LifeNext]_lives
    <2>1. cmd_st'[c] = "live" /\ calls'[c] = 0 /\ Same(c)
      BY <1>2 DEF create, CmdPart, CmdTypeOK
    <2>2. lifeOf'[c] = "pending"
      BY <2>1, Stages DEF lifeOf
    <2>3. CASE c \in 1 .. MaxCmds
      <3>1. cmd_st[c] = "none" /\ calls[c] = 0
        BY <1>2, <2>3, UserCmds DEF CmdPart
      <3>2. lives[c] = "none"
        BY <2>3, <3>1, Stages DEF lives, lifeOf
      <3>3. lives' = [lives EXCEPT ![c] = "pending"]
        BY <2>1, <2>2, <2>3, OneOfLives
      <3> QED
        BY <2>3, <3>2, <3>3 DEF L!LifeNext, L!Exec, lives
    <2>4. CASE c \notin 1 .. MaxCmds
      BY <2>1, <2>2, <2>4, OneOfLives
    <2> QED
      BY <2>3, <2>4
  <1>3. ASSUME NEW c \in Created, NEW code, NEW r, cmd_call_reply(c, code, r),
               UNCHANGED cmd_st
        PROVE  [L!LifeNext]_lives
    <2>1. CASE ~callback_[c]
      BY <1>3, <2>1 DEF cmd_call_reply, lifeOf, lives
    <2>2. CASE callback_[c]
      <3>1. c \in CmdIds /\ cmd_st[c] = "live" /\ calls[c] = 0
        BY <2>2 DEF CmdPart, Created, ObjectStates
      <3>2. calls' = [calls EXCEPT ![c] = 1]
        BY <1>3, <2>2, <3>1 DEF cmd_call_reply
      <3>3. cmd_st'[c] = "live" /\ calls'[c] = 1 /\ Same(c)
        BY <1>3, <3>1, <3>2 DEF CmdPart, CmdTypeOK
      <3>4. lifeOf[c] = "pending" /\ lifeOf'[c] = "called"
        BY <3>1, <3>3, Stages DEF lifeOf
      <3>5. CASE c \in 1 .. MaxCmds
        <4>1. lives[c] = "pending"
          BY <3>4, <3>5 DEF lives
        <4>2. lives' = [lives EXCEPT ![c] = "called"]
          BY <3>1, <3>3, <3>4, <3>5, OneOfLives
        <4> QED
          BY <3>5, <4>1, <4>2 DEF L!LifeNext, L!CallBack, lives
      <3>6. CASE c \notin 1 .. MaxCmds
        BY <3>1, <3>3, <3>4, <3>6, OneOfLives
      <3> QED
        BY <3>5, <3>6
    <2> QED
      BY <2>1, <2>2
  <1>4. ASSUME NEW c \in Created, cmd_st[c] = "live", ~callback_[c],
               cmd_st' = [cmd_st EXCEPT ![c] = "freed"], UNCHANGED calls
        PROVE  [L!LifeNext]_lives
    <2>1. c \in CmdIds /\ calls[c] = 1
      BY <1>4 DEF CmdPart, Created
    <2>2. cmd_st'[c] = "freed" /\ Same(c)
      BY <1>4, <2>1 DEF CmdPart
    <2>3. lifeOf[c] = "called" /\ lifeOf'[c] = "destroyed"
      BY <1>4, <2>1, <2>2, Stages DEF lifeOf
    <2>4. CASE c \in 1 .. MaxCmds
      <3>1. lives[c] = "called"
        BY <2>3, <2>4 DEF lives
      <3>2. lives' = [lives EXCEPT ![c] = "destroyed"]
        BY <2>1, <2>2, <2>3, <2>4, OneOfLives
      <3> QED
        BY <2>4, <3>1, <3>2 DEF L!LifeNext, L!Destroy, lives
    <2>5. CASE c \notin 1 .. MaxCmds
      BY <2>1, <2>2, <2>3, <2>5, OneOfLives
    <2> QED
      BY <2>4, <2>5
  <1> QED
    BY <1>1, <1>2, <1>3, <1>4 DEF CmdStep

\* Making a connection creates its AUTH command, a fresh one.
LEMMA MakesAuth ==
  ASSUME IndInv, nconn < MaxConns, NEW s, make_connection(nconn + 1, s)
  PROVE  CmdStep
  <1> DEFINE k == nconn + 1
  <1>1. AuthCmd(k) \in CmdIds /\ cmd_st[AuthCmd(k)] = "none"
    BY BoundsAssumption DEF IndInv, MapPart, FreshPart, CmdIds, AuthCmd, LoadCmd, BoundsAssumption
  <1> QED
    BY <1>1 DEF make_connection, CmdStep, cmdVars

LEMMA WithConnectionCmdStep ==
  ASSUME IndInv, NEW s, NEW found, NEW failed, WithConnection(s, found, failed)
  PROVE  CmdStep
  <1>1. \/ UNCHANGED cmdVars
        \/ nconn < MaxConns /\ make_connection(nconn + 1, s)
    BY DEF WithConnection
  <1>2. UNCHANGED cmdVars => CmdStep
    BY DEF CmdStep, cmdVars
  <1> QED
    BY <1>1, <1>2, MakesAuth

\* The library's own steps: who touches the commands.
LEMMA LibraryCmdStep == ASSUME IndInv, LibraryStep PROVE CmdStep
  <1> DEFINE Quiet == UNCHANGED <<cmd_st, calls>>
  <1> DEFINE Calls == \E c \in Created, code \in ErrorCodes, r \in Replies :
                        cmd_call_reply(c, code, r) /\ UNCHANGED cmd_st
  <1>0. Quiet \/ Calls => CmdStep
    BY DEF CmdStep
  <1>1. ASSUME NEW op \in CmdOps, At(op) PROVE Top.c \in Created
    BY <1>1, TopGood DEF IndInv, GoodFrame, Good
  <1>2. ASSUME NEW c \in Created, NEW code \in ErrorCodes, NEW r \in Replies, NEW fs,
               CallBack(c, code, r, fs)
        PROVE  Calls
    BY <1>2 DEF CallBack
  <1>3. CASE exec_ttl \/ exec_failed
    <2>1. Top.c \in Created
      BY <1>1, <1>3 DEF exec_ttl, exec_failed, CmdOps
    <2>2. \E code \in ErrorCodes : Fail(Top.c, code, "null")
      BY <1>3 DEF exec_ttl, exec_failed, ErrorCodes
    <2>3. Calls
      BY <1>2, <2>1, <2>2 DEF Fail, Replies
    <2> QED
      BY <1>0, <2>3
  <1>4. CASE exec \/ reload_slots \/ \E s \in Servers : on_reply_ask(s)
    <2>1. \/ UNCHANGED cmdVars
          \/ \E s, found, failed : WithConnection(s, found, failed)
      BY <1>4 DEF exec, reload_slots, on_reply_ask
    <2>2. UNCHANGED cmdVars => CmdStep
      BY DEF CmdStep, cmdVars
    <2> QED
      BY <2>1, <2>2, WithConnectionCmdStep
  <1>5. CASE exec_conn \/ exec_conn_closing
    BY <1>5 DEF exec_conn, exec_conn_closing, SpendTtl, CmdStep
  <1>6. CASE exec_conn_failed
    <2> DEFINE code == IF ttl_[Top.c] = 0 THEN "TTL"
                       ELSE IF context_[Top.k] THEN "HIREDIS" ELSE "CONNECTION"
    <2>1. Top.c \in Created /\ code \in ErrorCodes
      BY <1>1, <1>6 DEF exec_conn_failed, CmdOps, ErrorCodes
    <2>2. cmd_call_reply(Top.c, code, "null") /\ UNCHANGED cmd_st
      BY <1>6 DEF exec_conn_failed
    <2> HIDE DEF code
    <2>3. Calls
      BY <2>1, <2>2 DEF Replies
    <2> QED
      BY <1>0, <2>3
  <1>7. CASE destroy_cmd
    <2>1. Top.c \in Created
      BY <1>1, <1>7 DEF destroy_cmd, CmdOps
    <2>2. Calls
      BY <1>2, <1>7, <2>1 DEF destroy_cmd, ErrorCodes, Replies
    <2> QED
      BY <1>0, <2>2
  <1>8. CASE Destroy
    <2>1. Top.c \in Created /\ ~callback_[Top.c]
      BY <1>8, TopGood DEF Destroy, destroy, IndInv, GoodFrame, Good, CmdOps
    <2>2. cmd_st[Top.c] = "live"
      BY <1>8, <2>1, TopGood DEF Destroy, destroy, At, Dangling, UsesCmd, Created, IndInv,
         CmdPart, ObjectStates
    <2> QED
      BY <1>8, <2>1, <2>2 DEF Destroy, destroy, CmdStep
  <1>9. CASE ConnectionRelease
    <2>1. Top.k \in ConnIds
      BY <1>9, TopGood DEF ConnectionRelease, connection_release, IndInv, GoodFrame, Good, ConnOps
    <2>2. CASE reply_list_[Top.k] # <<>>
      <3>1. Head(reply_list_[Top.k]) \in Created
        BY <2>1, <2>2, ReplyListHead DEF IndInv
      <3>2. Calls
        BY <1>2, <1>9, <2>2, <3>1 DEF ConnectionRelease, connection_release, ErrorCodes, Replies
      <3> QED
        BY <1>0, <3>2
    <2>3. CASE reply_list_[Top.k] = <<>>
      BY <1>9, <2>3 DEF ConnectionRelease, connection_release, CmdStep, cmdVars
    <2> QED
      BY <2>2, <2>3
  <1>10. CASE reset
    <2>1. CASE timer_pending # <<>>
      <3>1. Head(timer_pending).cmd \in Created
        BY <2>1, TimerHead DEF IndInv
      <3>2. Calls
        BY <1>2, <1>10, <2>1, <3>1 DEF reset, ErrorCodes, Replies
      <3> QED
        BY <1>0, <3>2
    <2>2. CASE timer_pending = <<>>
      BY <1>10, <2>2 DEF reset, CmdStep, cmdVars
    <2> QED
      BY <2>1, <2>2
  <1>11. CASE reset_slots
    <2>1. CASE slot_pending_ # <<>>
      <3>1. Head(slot_pending_) \in Created
        BY <2>1, PendingHead DEF IndInv
      <3>2. Calls
        BY <1>2, <1>11, <2>1, <3>1 DEF reset_slots, ErrorCodes, Replies
      <3> QED
        BY <1>0, <3>2
    <2>2. CASE slot_pending_ = <<>>
      BY <1>11, <2>2 DEF reset_slots, CmdStep, cmdVars
    <2> QED
      BY <2>1, <2>2
  <1>12. CASE CallReply
    <2>1. Top.c \in Created /\ Top.a \in Replies
      BY <1>12, TopGood DEF CallReply, call_reply, IndInv, GoodFrame, Good, CmdOps
    <2>2. Quiet \/ CallBack(Top.c, "NOT_FOUND", Top.a, <<F("destroy", Top.c, 0, "none")>>)
      BY <1>12 DEF CallReply, call_reply, cmdVars
    <2>3. Quiet \/ Calls
      BY <1>2, <2>1, <2>2 DEF ErrorCodes
    <2> QED
      BY <1>0, <2>3
  <1>13. CASE on_reply_asking
    <2>1. Top.c \in Created /\ Top.a \in Replies
      BY <1>13, TopGood DEF on_reply_asking, IndInv, GoodFrame, Good, CmdOps
    <2>2. Quiet \/ Fail(Top.c, "CONNECTION", Top.a)
      BY <1>13 DEF on_reply_asking, cmdVars
    <2>3. Quiet \/ Calls
      BY <1>2, <2>1, <2>2 DEF Fail, ErrorCodes
    <2> QED
      BY <1>0, <2>3
  <1>14. CASE PopReply
    <2> DEFINE c == Top.c
    <2> DEFINE k == Top.k
    <2> DEFINE e == Head(reply_list_[k])
    <2>1. c \in Created /\ k \in ConnIds /\ Top.a \in Replies \cup {"retry", "ask"}
      BY <1>14, TopGood DEF PopReply, pop_reply, IndInv, GoodFrame, Good, CmdOps, ConnOps
    <2>2. Translate(k, c, Top.a) \in ErrorCodes
      BY <2>1 DEF Translate, ErrorCodes, IndInv, CmdPart, CmdTypeOK, Created
    <2>3. \/ Quiet
          \/ /\ reply_list_[k] # <<>>
             /\ CallBack(e, "TIMEOUT", "null", <<F("destroy", e, 0, "none"), Top>>)
          \/ /\ Top.a \notin {"retry", "ask"}
             /\ CallBack(c, Translate(k, c, Top.a), Top.a, <<F("destroy", c, 0, "none")>>)
      BY <1>14 DEF PopReply, pop_reply, cmdVars
    <2>4. reply_list_[k] # <<>> => e \in Created
      BY <2>1, ReplyListHead DEF IndInv
    <2>5. Quiet \/ Calls
      BY <1>2, <2>1, <2>2, <2>3, <2>4 DEF ErrorCodes, Replies
    <2> QED
      BY <1>0, <2>5
  <1>15. CASE reload_exec
    <2> DEFINE c == Min(FreeLoads)
    <2>1. CASE FreeLoads = {}
      BY <1>15, <2>1 DEF reload_exec, CmdStep, cmdVars
    <2>2. CASE FreeLoads # {}
      <3>1. c \in FreeLoads
        BY <2>2, MinIn, BoundsAssumption DEF FreeLoads, CmdIds, BoundsAssumption
      <3>2. c \in CmdIds /\ LoadCmd(c) /\ create(c)
        BY <1>15, <2>2, <3>1 DEF reload_exec, FreeLoads
      <3> HIDE DEF c
      <3> QED
        BY <3>2 DEF CmdStep
    <2> QED
      BY <2>1, <2>2
  <1>16. CASE \/ exec_pending \/ retry \/ reload_end \/ on_reply_update_slot \/ run_pending
              \/ on_reply_update_slot_failed \/ release_connection \/ release_event \/ release_end
              \/ reset_begin \/ proc \/ proc_conn \/ proc_clear
    BY <1>16 DEF exec_pending, retry, reload_end, on_reply_update_slot, run_pending,
       on_reply_update_slot_failed, release_connection, release_event, release_end,
       reset_begin, proc, proc_conn, proc_clear, cmdVars, CmdStep
  <1>17. CASE \/ on_reply_wrapper \/ on_reply_retry \/ on_reply_clusterdown
              \/ \E s \in Servers, i \in Slots : on_reply_moved(i, s)
              \/ ask_pop \/ asking
              \/ on_connected_wrapper \/ on_connected_end \/ on_disconnected_wrapper
    BY <1>17 DEF on_reply_wrapper, on_reply_retry, on_reply_clusterdown, on_reply_moved,
       ask_pop, asking, on_connected_wrapper, on_connected_end, on_disconnected_wrapper,
       cmdVars, CmdStep
  <1>18. CASE \/ ByHiredis(redisAsyncDisconnect) \/ ByHiredis(ConnectEnd)
              \/ ByHiredis(ConnectFailedEnd) \/ ByHiredis(ReplyEnd)
              \/ ByHiredis(FreeContext) \/ ByHiredis(FreeContextEnd)
    BY <1>18 DEF ByHiredis, cmdVars, CmdStep
  <1> QED
    BY <1>3, <1>4, <1>5, <1>6, <1>7, <1>8, <1>9, <1>10, <1>11, <1>12, <1>13, <1>14, <1>15,
       <1>16, <1>17, <1>18
    DEF LibraryStep

LEMMA NextCmdStep == ASSUME IndInv, [Next]_vars PROVE CmdStep
  <1>1. CASE LibraryStep
    BY <1>1, LibraryCmdStep
  <1>2. CASE \/ NetworkStep \/ Proc \/ UserReturn \/ (\E s \in Servers : UserRelease(s))
             \/ UserStart \/ UserReset
    BY <1>2 DEF NetworkStep, Reply, ByHiredis, Proc, UserProc, UserReturn, UserRelease, UserStart,
       UserReset, cmdVars, CmdStep
  <1>3. ASSUME NEW i \in Slots \cup {-1}, UserExec(i) PROVE CmdStep
    <2>1. ncmd + 1 \in CmdIds /\ cmd_st[ncmd + 1] = "none" /\ create(ncmd + 1)
      BY <1>3, BoundsAssumption DEF UserExec, IndInv, MapPart, FreshPart, CmdIds,
         BoundsAssumption
    <2> QED
      BY <2>1 DEF CmdStep
  <1>4. ASSUME NEW s \in Servers, UserConnect(s) PROVE CmdStep
    BY <1>4, MakesAuth DEF UserConnect
  <1>5. CASE Crash \/ Idle \/ UNCHANGED vars
    BY <1>5 DEF Crash, UseAfterFree, Idle, vars, cmdVars, CmdStep
  <1> QED
    BY <1>1, <1>2, <1>3, <1>4, <1>5 DEF Next, UserStep

\* Cluster implements Lifecycle: through MOVED, ASK, TRYAGAIN, the wait for the
\* slot table, reloads of it, lost connections, timeouts and reset(), every
\* command of the application is called back exactly once before it is
\* destroyed and never afterwards, for any number of commands, connections,
\* servers and slots.
THEOREM Refinement == Spec => ImplementsLifecycle
  <1>1. Init => L!LifeInit
    <2> SUFFICES ASSUME Init PROVE L!LifeInit
      OBVIOUS
    <2>1. \A c \in 1 .. MaxCmds : lifeOf[c] = "none"
      BY Stages, UserCmds DEF Init, RuntimeInit, CmdInit, lifeOf
    <2> QED
      BY <2>1 DEF L!LifeInit
  <1>2. IndInv /\ [Next]_vars => [L!LifeNext]_lives
    <2> SUFFICES ASSUME IndInv, [Next]_vars PROVE [L!LifeNext]_lives
      OBVIOUS
    <2> QED
      BY NextCmdStep, CmdStepRefines DEF IndInv
  <1> QED
    BY <1>1, <1>2, Invariance, PTL DEF Spec, ImplementsLifecycle, L!Spec, lives

-----------------------------------------------------------------------------
(***************************************************************************)
(* Connections, their timeouts, and the commands that wait for the slot    *)
(* table, across nested calls.  As in RawFlowProofs the stack is looked at *)
(* from the bottom: a frame keeps its height when others come and go above *)
(* it.                                                                     *)
(***************************************************************************)
HiredisOps == {"h_connect_end", "h_connect_failed", "h_reply_end", "h_free", "h_free_end"}
ReleaseOps == {"release_event", "release_end"}
ProcOps    == {"proc", "proc_conn", "proc_clear"}

Heights == 0 .. Len(stack) - 1

\* proc() is called by the event loop only.
ShapePart == \A d \in Heights : Pile[d].op \in ProcOps => d = 0

\* hiredis is in a callback of a context only while one of its calls is under way.
CallbackPart ==
  \A k \in ConnIds : in_callback[k] =>
    \E d \in Heights : Pile[d].op \in HiredisOps /\ Pile[d].k = k

\* The map leads to the live connections, each from its own server; only they
\* may have a status, and while they have one they have their context.
LinkPart ==
  /\ \A s \in Servers : connections_[s] # 0 =>
       conn_st[connections_[s]] = "live" /\ server_of[connections_[s]] = s
  /\ \A k \in ConnIds :
       /\ conn_st[k] = "live" => connections_[server_of[k]] = k
       /\ k > nconn <=> conn_st[k] = "none"
       /\ conn_status_[k] # "DISCONNECTED" => conn_st[k] = "live" /\ context_[k]

\* A connection in the map that has lost its status is being released, by one
\* call only, and that call has reported its end before it destroys it.
Releases(d, k) == Pile[d].op \in ReleaseOps /\ Pile[d].k = k

ReleasePart ==
  /\ \A k \in ConnIds : conn_st[k] = "live" /\ conn_status_[k] = "DISCONNECTED" =>
       \E d \in Heights : Releases(d, k)
  /\ \A d \in Heights :
       /\ Pile[d].op \in ReleaseOps =>
            conn_st[Pile[d].k] = "live" /\ conn_status_[Pile[d].k] = "DISCONNECTED"
       /\ Pile[d].op = "connection_release" =>
            conn_st[Pile[d].k] # "none" /\ conn_status_[Pile[d].k] = "DISCONNECTED"
       /\ Pile[d].op = "release_end" => notified[Pile[d].k] \cap {"failed", "disconnected"} # {}
  /\ \A k \in ConnIds : \A d, e \in Heights : Releases(d, k) /\ Releases(e, k) => d = e
  /\ EndIsReported

\* Sequence numbers are never used again, so the number a timeout has noted is
\* not that of an established connection.
SequencePart ==
  /\ \A k \in ConnIds : sequence_[k] <= seq_alloc
  /\ \A i \in DOMAIN timer_conns :
       /\ timer_conns[i].sequence <= seq_alloc
       /\ \A k \in ConnIds :
            sequence_[k] = timer_conns[i].sequence => conn_status_[k] # "CONNECTED"

\* While commands wait although the table is there, they are being sent.
PendingPart ==
  slot_flag_ = "OK" /\ slot_pending_ # <<>> => \E d \in Heights : Pile[d].op = "run_pending"

FlowInv ==
  ShapePart /\ CallbackPart /\ LinkPart /\ ReleasePart /\ SequencePart /\ PendingPart

-----------------------------------------------------------------------------
(* Steps that keep all frames but the top one                              *)

LEMMA StackFrames == ASSUME IndInv PROVE StackSeq
  <1>1. GoodFrame \subseteq Frame
    BY DEF GoodFrame, Good
  <1> QED
    BY <1>1, SeqMono DEF IndInv, StackPart, StackSeq

\* The frames before and after a step that keeps the h lowest ones.
LEMMA KeptFrames ==
  ASSUME StackSeq, NEW h, Keep(h), Len(stack) <= h + 1
  PROVE  /\ h \in Nat /\ Len(stack) \in Nat /\ Len(stack') \in Nat
         /\ h <= Len(stack) /\ h <= Len(stack')
         /\ \A d \in Heights' :
              \/ d < h /\ d \in Heights /\ Pile'[d] = Pile[d]
              \/ d >= h /\ d \in h .. Len(stack') - 1
         /\ \A d \in Heights :
              \/ d < h /\ d \in Heights' /\ Pile'[d] = Pile[d]
              \/ d = h /\ d = Len(stack) - 1 /\ Len(stack) # h /\ Pile[d] = Top
         /\ \A d \in h .. Len(stack') - 1 : d \in Heights'
  <1>1. /\ h \in Nat /\ Len(stack) \in Nat /\ Len(stack') \in Nat
        /\ h <= Len(stack) /\ h <= Len(stack')
    BY PileFrames DEF Keep
  <1>2. ASSUME NEW d \in Heights'
        PROVE  \/ d < h /\ d \in Heights /\ Pile'[d] = Pile[d]
               \/ d >= h /\ d \in h .. Len(stack') - 1
    <2>1. CASE d < h
      <3>1. d \in 0 .. h - 1 /\ d \in Heights
        BY <1>1, <2>1 DEF Heights
      <3> QED
        BY <2>1, <3>1 DEF Keep
    <2>2. CASE d >= h
      BY <1>1, <2>2 DEF Heights
    <2> QED
      BY <1>1, <2>1, <2>2 DEF Heights
  <1>3. ASSUME NEW d \in Heights
        PROVE  \/ d < h /\ d \in Heights' /\ Pile'[d] = Pile[d]
               \/ d = h /\ d = Len(stack) - 1 /\ Len(stack) # h /\ Pile[d] = Top
    <2>1. CASE d < h
      <3>1. d \in 0 .. h - 1 /\ d \in Heights'
        BY <1>1, <2>1 DEF Heights
      <3> QED
        BY <2>1, <3>1 DEF Keep
    <2>2. CASE d >= h
      <3>1. d = h /\ d = Len(stack) - 1 /\ Len(stack) # 0 /\ Len(stack) # h
        BY <1>1, <2>2 DEF Heights
      <3> QED
        BY <1>1, <3>1, PileFrames
    <2> QED
      BY <1>1, <2>1, <2>2 DEF Heights
  <1>4. \A d \in h .. Len(stack') - 1 : d \in Heights'
    BY <1>1 DEF Heights
  <1> QED
    BY <1>1, <1>2, <1>3, <1>4

\* The shape has to be shown for the new frames only.
LEMMA ShapeKept ==
  ASSUME StackSeq, ShapePart, NEW h, Keep(h), Len(stack) <= h + 1,
         \A d \in h .. Len(stack') - 1 : Pile'[d].op \in ProcOps => d = 0
  PROVE  ShapePart'
  <1> SUFFICES ASSUME NEW d \in Heights', Pile'[d].op \in ProcOps PROVE d = 0
    BY DEF ShapePart
  <1> QED
    BY KeptFrames DEF ShapePart

\* hiredis stays in the callbacks it is in unless one of its calls ends.
LEMMA CallbackKept ==
  ASSUME StackSeq, CallbackPart, NEW h, Keep(h), Len(stack) <= h + 1,
         Len(stack) # h => Top.op \notin HiredisOps, UNCHANGED in_callback
  PROVE  CallbackPart'
  <1> SUFFICES ASSUME NEW k \in ConnIds, in_callback[k]
               PROVE  \E d \in Heights' : Pile'[d].op \in HiredisOps /\ Pile'[d].k = k
    BY DEF CallbackPart
  <1>1. PICK d \in Heights : Pile[d].op \in HiredisOps /\ Pile[d].k = k
    BY DEF CallbackPart
  <1>2. d < h /\ d \in Heights' /\ Pile'[d] = Pile[d]
    BY <1>1, KeptFrames
  <1> QED
    BY <1>1, <1>2

linkVars == <<conn_st, context_, conn_status_, sequence_, seq_alloc, connections_, server_of,
              nconn>>

LEMMA LinksUnchanged == ASSUME LinkPart, UNCHANGED linkVars PROVE LinkPart'
  BY DEF LinkPart, linkVars

\* No timeout is noted, though some may be forgotten.
FewerTimeouts ==
  \A i \in DOMAIN timer_conns' : \E j \in DOMAIN timer_conns : timer_conns'[i] = timer_conns[j]

LEMMA SequencesKept ==
  ASSUME SequencePart, UNCHANGED linkVars, FewerTimeouts
  PROVE  SequencePart'
  BY DEF SequencePart, linkVars, FewerTimeouts

\* Frames of a release belong to a connection.
LEMMA ReleaseFrameConn ==
  ASSUME IndInv, NEW d \in Heights,
         Pile[d].op \in ReleaseOps \cup {"connection_release"}
  PROVE  Pile[d].k \in ConnIds
  <1>1. d \in 0 .. Len(stack) - 1 /\ Len(stack) \in Nat /\ stack \in Seq(GoodFrame)
    BY DEF Heights, IndInv, StackPart
  <1>2. Pile[d] \in GoodFrame
    BY <1>1 DEF Pile
  <1> QED
    BY <1>2 DEF GoodFrame, Good, ConnOps, ReleaseOps

\* No connection begins or ends to be released.
SameReleases ==
  /\ \A k \in ConnIds :
       /\ conn_st'[k] = "live" /\ conn_status_'[k] = "DISCONNECTED" =>
            conn_st[k] = "live" /\ conn_status_[k] = "DISCONNECTED"
       /\ conn_st[k] = "live" /\ conn_status_[k] = "DISCONNECTED" =>
            conn_st'[k] = "live" /\ conn_status_'[k] = "DISCONNECTED"
       /\ conn_st[k] # "none" /\ conn_status_[k] = "DISCONNECTED" =>
            conn_st'[k] # "none" /\ conn_status_'[k] = "DISCONNECTED"
       /\ notified[k] \subseteq notified'[k]
  /\ EndIsReported'

LEMMA SameReleasesKept ==
  ASSUME IndInv, ReleasePart, NEW h, Keep(h), Len(stack) <= h + 1,
         Len(stack) # h => Top.op \notin ReleaseOps,
         \A d \in h .. Len(stack') - 1 : Pile'[d].op \notin ReleaseOps \cup {"connection_release"},
         SameReleases
  PROVE  ReleasePart'
  <1>0. StackSeq
    BY StackFrames
  <1>1. \A d \in Heights' :
          Pile'[d].op \in ReleaseOps \cup {"connection_release"} =>
            d \in Heights /\ Pile'[d] = Pile[d]
    BY <1>0, KeptFrames
  <1>2. \A d \in Heights : Pile[d].op \in ReleaseOps => d \in Heights' /\ Pile'[d] = Pile[d]
    BY <1>0, KeptFrames
  <1>3. \A k \in ConnIds : conn_st'[k] = "live" /\ conn_status_'[k] = "DISCONNECTED" =>
          \E d \in Heights' : Releases(d, k)'
    BY <1>2 DEF ReleasePart, Releases, SameReleases
  <1>4. \A k \in ConnIds : \A d, e \in Heights' : Releases(d, k)' /\ Releases(e, k)' => d = e
    BY <1>1 DEF ReleasePart, Releases
  <1>5. ASSUME NEW d \in Heights'
        PROVE  /\ Pile'[d].op \in ReleaseOps =>
                    conn_st'[Pile'[d].k] = "live" /\ conn_status_'[Pile'[d].k] = "DISCONNECTED"
               /\ Pile'[d].op = "connection_release" =>
                    conn_st'[Pile'[d].k] # "none" /\ conn_status_'[Pile'[d].k] = "DISCONNECTED"
               /\ Pile'[d].op = "release_end" =>
                    notified'[Pile'[d].k] \cap {"failed", "disconnected"} # {}
    <2>1. CASE Pile'[d].op \notin ReleaseOps \cup {"connection_release"}
      BY <2>1 DEF ReleaseOps
    <2>2. CASE Pile'[d].op \in ReleaseOps \cup {"connection_release"}
      <3>1. d \in Heights /\ Pile'[d] = Pile[d] /\ Pile[d].k \in ConnIds
        BY <1>1, <2>2, ReleaseFrameConn
      <3>2. notified[Pile[d].k] \subseteq notified'[Pile[d].k]
        BY <3>1 DEF SameReleases
      <3> QED
        BY <3>1, <3>2 DEF ReleasePart, SameReleases
    <2> QED
      BY <2>1, <2>2
  <1> QED
    BY <1>3, <1>4, <1>5 DEF ReleasePart, SameReleases

\* Nothing changes about releases unless one of their calls takes a step.
LEMMA ReleaseKept ==
  ASSUME IndInv, ReleasePart, NEW h, Keep(h), Len(stack) <= h + 1,
         Len(stack) # h => Top.op \notin ReleaseOps,
         \A d \in h .. Len(stack') - 1 : Pile'[d].op \notin ReleaseOps \cup {"connection_release"},
         UNCHANGED <<conn_st, conn_status_>>,
         \A k \in ConnIds : notified[k] \subseteq notified'[k]
  PROVE  ReleasePart'
  <1>1. SameReleases
    BY DEF SameReleases, ReleasePart, EndIsReported
  <1> QED
    BY <1>1, SameReleasesKept

\* Commands that wait are still being sent, unless none waits any more.
LEMMA PendingKept ==
  ASSUME StackSeq, PendingPart, NEW h, Keep(h), Len(stack) <= h + 1,
         Len(stack) # h => Top.op # "run_pending" \/ slot_pending_' = <<>>,
         slot_flag_' = "OK" /\ slot_pending_' # <<>> => slot_flag_ = "OK" /\ slot_pending_ # <<>>
  PROVE  PendingPart'
  <1> SUFFICES ASSUME slot_flag_' = "OK", slot_pending_' # <<>>
               PROVE  \E d \in Heights' : Pile'[d].op = "run_pending"
    BY DEF PendingPart
  <1>1. PICK d \in Heights : Pile[d].op = "run_pending"
    BY DEF PendingPart
  <1>2. d < h /\ d \in Heights' /\ Pile'[d] = Pile[d]
    BY <1>1, KeptFrames
  <1> QED
    BY <1>1, <1>2

-----------------------------------------------------------------------------
(* Calm steps                                                              *)

\* Frames that no part of the invariant speaks of.
CalmOps == {"user", "exec", "exec_failed", "exec_conn", "retry", "destroy_cmd", "destroy",
            "release_connection", "reset", "reset_begin", "reset_slots",
            "reload_slots", "reload_exec", "reload_end", "on_reply_update_slot",
            "on_reply", "call_reply", "pop_reply", "on_reply_asking", "ask_pop", "asking",
            "on_connected", "on_connected_end", "on_disconnected", "redisAsyncDisconnect"}

CalmFrames == {f \in Frame : f.op \in CalmOps}

LEMMA CalmFrame ==
  ASSUME NEW op \in CalmOps, NEW c \in CmdIds \cup {0}, NEW k \in ConnIds \cup {0}, NEW a \in Args
  PROVE  F(op, c, k, a) \in CalmFrames
  <1>1. op \in Ops
    BY DEF CalmOps, Ops
  <1> QED
    BY <1>1 DEF CalmFrames, Frame, F

\* Nothing but the frames, and what hiredis and the connector do with commands,
\* changes.
Apart ==
  /\ UNCHANGED linkVars
  /\ FewerTimeouts
  /\ \A k \in ConnIds : notified[k] \subseteq notified'[k]

\* A step that keeps the h lowest frames, and adds frames of no importance to
\* releases.
LEMMA MoveFlow ==
  ASSUME IndInv, FlowInv, NEW h, Keep(h), Len(stack) <= h + 1,
         Len(stack) # h => Top.op \notin ReleaseOps,
         \A d \in h .. Len(stack') - 1 :
           \/ Pile'[d].op \in CalmOps \cup HiredisOps \cup {"run_pending"}
           \/ Pile'[d].op \in ProcOps /\ d = 0,
         CallbackPart', PendingPart', Apart
  PROVE  FlowInv'
  <1>0. StackSeq
    BY StackFrames
  <1>1. \A d \in h .. Len(stack') - 1 : Pile'[d].op \in ProcOps => d = 0
    BY DEF CalmOps, HiredisOps, ProcOps
  <1>2. \A d \in h .. Len(stack') - 1 : Pile'[d].op \notin ReleaseOps \cup {"connection_release"}
    BY DEF CalmOps, HiredisOps, ProcOps, ReleaseOps
  <1>3. ShapePart'
    BY <1>0, <1>1, ShapeKept DEF FlowInv
  <1>4. ReleasePart'
    BY <1>2, ReleaseKept DEF FlowInv, Apart, linkVars
  <1>5. LinkPart' /\ SequencePart'
    BY LinksUnchanged, SequencesKept DEF FlowInv, Apart
  <1> QED
    BY <1>3, <1>4, <1>5 DEF FlowInv

\* The top frame, of no importance, is replaced by such frames; or such frames
\* are called.
CalmStack ==
  \/ /\ stack # <<>> /\ Top.op \in CalmOps
     /\ Return \/ \E fs \in Seq(CalmFrames) : Continue(fs)
  \/ \E fs \in Seq(CalmFrames) : Call(fs)
  \/ UNCHANGED stack

\* No command begins to wait while the table is there.
CalmTable ==
  slot_flag_' = "OK" /\ slot_pending_' # <<>> => slot_flag_ = "OK" /\ slot_pending_ # <<>>

CalmAbove(h) ==
  /\ Keep(h) /\ Len(stack) <= h + 1
  /\ Len(stack) # h => Top.op \in CalmOps
  /\ \A d \in h .. Len(stack') - 1 : Pile'[d].op \in CalmOps

LEMMA CalmKeeps ==
  ASSUME StackSeq, CalmStack
  PROVE  \E h \in Nat : CalmAbove(h)
  <1>0. Len(stack) \in Nat /\ (stack # <<>> => Len(stack) >= 1)
    BY PileFrames
  <1>1. ASSUME NEW h \in Nat, NEW fs \in Seq(CalmFrames), Len(stack') = h + Len(fs),
               \A i \in 1 .. Len(fs) : Pile'[h + Len(fs) - i] = fs[i]
        PROVE  \A d \in h .. Len(stack') - 1 : Pile'[d].op \in CalmOps
    <2> TAKE d \in h .. Len(stack') - 1
    <2> DEFINE i == h + Len(fs) - d
    <2>1. Len(fs) \in Nat
      OBVIOUS
    <2>2. i \in 1 .. Len(fs) /\ h + Len(fs) - i = d
      BY <1>1, <2>1
    <2> HIDE DEF i
    <2>3. Pile'[d] = fs[i]
      BY <1>1, <2>2
    <2>4. fs[i] \in CalmFrames
      BY <2>2
    <2> QED
      BY <2>3, <2>4 DEF CalmFrames
  <1>2. ASSUME NEW fs \in Seq(CalmFrames), Continue(fs), stack # <<>>, Top.op \in CalmOps
        PROVE  \E h \in Nat : CalmAbove(h)
    <2> DEFINE h == Len(stack) - 1
    <2>1. h \in Nat /\ Len(stack) <= h + 1
      BY <1>0, <1>2
    <2>2. /\ Keep(h) /\ Len(stack') = h + Len(fs)
          /\ \A i \in 1 .. Len(fs) : Pile'[h + Len(fs) - i] = fs[i]
      BY <1>2, ContinueMany
    <2> HIDE DEF h
    <2>3. \A d \in h .. Len(stack') - 1 : Pile'[d].op \in CalmOps
      BY <1>1, <2>1, <2>2
    <2> QED
      BY <1>2, <2>1, <2>2, <2>3 DEF CalmAbove
  <1>3. ASSUME NEW fs \in Seq(CalmFrames), Call(fs)
        PROVE  \E h \in Nat : CalmAbove(h)
    <2> DEFINE h == Len(stack)
    <2>1. h \in Nat /\ Len(stack) <= h + 1 /\ h = Len(stack)
      BY <1>0
    <2>2. /\ Keep(h) /\ Len(stack') = h + Len(fs)
          /\ \A i \in 1 .. Len(fs) : Pile'[h + Len(fs) - i] = fs[i]
      BY <1>3, CallMany
    <2> HIDE DEF h
    <2>3. \A d \in h .. Len(stack') - 1 : Pile'[d].op \in CalmOps
      BY <1>1, <2>1, <2>2
    <2> QED
      BY <2>1, <2>2, <2>3 DEF CalmAbove
  <1>4. CASE stack # <<>> /\ Top.op \in CalmOps /\ Return
    <2> DEFINE h == Len(stack) - 1
    <2>1. h \in Nat /\ Len(stack) <= h + 1
      BY <1>0, <1>4
    <2>2. Keep(h) /\ Len(stack') = h
      BY <1>4, ReturnOne
    <2>3. \A d \in h .. Len(stack') - 1 : Pile'[d].op \in CalmOps
      BY <2>1, <2>2
    <2> HIDE DEF h
    <2> QED
      BY <1>4, <2>1, <2>2, <2>3 DEF CalmAbove
  <1>5. CASE UNCHANGED stack
    <2>1. Keep(Len(stack))
      BY <1>0, <1>5 DEF Keep, Pile
    <2>2. \A d \in Len(stack) .. Len(stack') - 1 : Pile'[d].op \in CalmOps
      BY <1>0, <1>5
    <2> QED
      BY <1>0, <2>1, <2>2 DEF CalmAbove
  <1> QED
    BY <1>2, <1>3, <1>4, <1>5 DEF CalmStack

LEMMA CalmFlow ==
  ASSUME IndInv, FlowInv, CalmStack, CalmTable, Apart, UNCHANGED in_callback
  PROVE  FlowInv'
  <1>0. StackSeq
    BY StackFrames
  <1>a. PICK h \in Nat : CalmAbove(h)
    BY <1>0, CalmKeeps
  <1>1. /\ Keep(h) /\ Len(stack) <= h + 1
        /\ Len(stack) # h => Top.op \in CalmOps
        /\ \A d \in h .. Len(stack') - 1 : Pile'[d].op \in CalmOps
    BY <1>a DEF CalmAbove
  <1>2. Len(stack) # h => Top.op \notin ReleaseOps \cup HiredisOps \cup {"run_pending"}
    BY <1>1 DEF CalmOps, ReleaseOps, HiredisOps
  <1>3. CallbackPart'
    BY <1>0, <1>1, <1>2, CallbackKept DEF FlowInv
  <1>4. PendingPart'
    BY <1>0, <1>1, <1>2, PendingKept DEF FlowInv, CalmTable
  <1> QED
    BY <1>1, <1>2, <1>3, <1>4, MoveFlow

\* The common case: the connections and the timeouts are left alone.
LEMMA QuietFlow ==
  ASSUME IndInv, FlowInv, CalmStack, CalmTable,
         UNCHANGED <<in_callback, conn_st, context_, conn_status_, sequence_, seq_alloc, mapVars,
                     timer_conns>>
  PROVE  FlowInv'
  <1>1. Apart
    BY DEF Apart, linkVars, FewerTimeouts, mapVars
  <1> QED
    BY <1>1, CalmFlow

LEMMA TopCalm ==
  ASSUME IndInv, NEW op \in CalmOps, At(op)
  PROVE  /\ stack # <<>> /\ Top.op \in CalmOps /\ Top \in GoodFrame /\ Top \in CalmFrames
         /\ op \in CmdOps => Top.c \in CmdIds /\ Top.c \in Created
         /\ op \in ConnOps => Top.k \in ConnIds
  <1>1. /\ stack # <<>> /\ Top \in GoodFrame /\ Top.op = op
        /\ op \in CmdOps => Top.c \in Created /\ Top.c \in CmdIds
        /\ op \in ConnOps => Top.k \in ConnIds
    BY TopCmd DEF IndInv
  <1> QED
    BY <1>1 DEF CalmFrames, GoodFrame, Good

LEMMA CalmContinue ==
  ASSUME IndInv, NEW op \in CalmOps, At(op), NEW fs \in Seq(CalmFrames), Continue(fs)
  PROVE  CalmStack
  BY TopCalm DEF CalmStack

LEMMA CalmReturn ==
  ASSUME IndInv, NEW op \in CalmOps, At(op), Return
  PROVE  CalmStack
  BY TopCalm DEF CalmStack

\* Calling a command back.
LEMMA CallbackCalm ==
  ASSUME NEW c \in CmdIds, NEW r \in Replies
  PROVE  CallbackFrames(c, r) \in Seq(CalmFrames)
  <1>1. F("user", c, 0, "none") \in CalmFrames /\ F("on_reply_update_slot", c, 0, r) \in CalmFrames
    BY CalmFrame DEF CalmOps, Args, Replies
  <1> QED
    BY <1>1, OneType, EmptyType DEF CallbackFrames

LEMMA CallBackCalm ==
  ASSUME IndInv, NEW op \in CalmOps, At(op), NEW c \in CmdIds, NEW code, NEW r \in Replies,
         NEW fs \in Seq(CalmFrames), CallBack(c, code, r, fs)
  PROVE  CalmStack
  <1>1. CallbackFrames(c, r) \o fs \in Seq(CalmFrames)
    BY CallbackCalm, ConcatType
  <1>2. Continue(CallbackFrames(c, r) \o fs)
    BY DEF CallBack
  <1> QED
    BY <1>1, <1>2, CalmContinue

\* The frames the calm steps push.
LEMMA CalmCmdFrames ==
  ASSUME NEW c \in CmdIds
  PROVE  /\ <<F("exec", c, 0, "none")>> \in Seq(CalmFrames)
         /\ <<F("exec_failed", c, 0, "none")>> \in Seq(CalmFrames)
         /\ <<F("retry", c, 0, "none")>> \in Seq(CalmFrames)
         /\ <<F("destroy_cmd", c, 0, "none")>> \in Seq(CalmFrames)
         /\ <<F("destroy", c, 0, "none")>> \in Seq(CalmFrames)
  BY CalmFrame, OneType DEF CalmOps, Args

LEMMA CalmReplyFrames ==
  ASSUME NEW c \in CmdIds, NEW k \in ConnIds
  PROVE  /\ \A a \in Args : <<F("exec_conn", c, k, a)>> \in Seq(CalmFrames)
         /\ \A r \in Args : <<F("call_reply", c, k, r)>> \in Seq(CalmFrames)
         /\ \A r \in Args : <<F("pop_reply", c, k, r)>> \in Seq(CalmFrames)
         /\ <<F("retry", c, k, "ask")>> \in Seq(CalmFrames)
  BY CalmFrame, OneType DEF CalmOps, Args

LEMMA CalmConnFrames ==
  ASSUME NEW k \in ConnIds
  PROVE  /\ <<F("release_connection", 0, k, "keep")>> \in Seq(CalmFrames)
         /\ <<F("release_connection", 0, k, "close")>> \in Seq(CalmFrames)
         /\ <<F("reload_exec", 0, k, "none")>> \in Seq(CalmFrames)
         /\ <<F("reload_end", 0, k, "none")>> \in Seq(CalmFrames)
         /\ <<F("reload_slots", 0, 0, "none")>> \in Seq(CalmFrames)
         /\ <<F("user", 0, k, "on_connect")>> \in Seq(CalmFrames)
  BY CalmFrame, OneType DEF CalmOps, Args

LEMMA CalmLoopFrames ==
  /\ <<F("reload_slots", 0, 0, "none")>> \in Seq(CalmFrames)
  /\ <<F("reset", 0, 0, "none")>> \in Seq(CalmFrames)
  /\ <<F("reset_slots", 0, 0, "none")>> \in Seq(CalmFrames)
  /\ <<F("reset_begin", 0, 0, "none")>> \in Seq(CalmFrames)
  BY CalmFrame, OneType DEF CalmOps, Args

-----------------------------------------------------------------------------
(* The actions that are calm                                               *)

LEMMA FailFlow ==
  ASSUME IndInv, FlowInv, NEW op \in {"exec", "exec_failed", "destroy_cmd"}, At(op), NEW code,
         NEW fop \in {"destroy", "destroy_cmd"},
         CallBack(Top.c, code, "null", <<F(fop, Top.c, 0, "none")>>),
         UNCHANGED <<hiredisVars, connVars, clusterVars>>
  PROVE  FlowInv'
  <1>1. op \in CalmOps /\ op \in CmdOps /\ fop \in CalmOps
    BY DEF CalmOps, CmdOps
  <1>2. Top.c \in CmdIds
    BY <1>1, TopCalm
  <1>3. <<F(fop, Top.c, 0, "none")>> \in Seq(CalmFrames)
    BY <1>1, <1>2, CalmFrame, OneType DEF Args
  <1>4. CalmStack
    BY <1>1, <1>2, <1>3, CallBackCalm DEF Replies
  <1> QED
    BY <1>4, QuietFlow
    DEF CalmTable, hiredisVars, connVars, clusterVars, tableVars, mapVars, timerVars

LEMMA FailsFlow ==
  ASSUME IndInv, FlowInv, exec_ttl \/ exec_failed \/ destroy_cmd
  PROVE  FlowInv'
  BY FailFlow DEF exec_ttl, exec_failed, destroy_cmd, Fail

LEMMA ExecPendingFlow == ASSUME IndInv, FlowInv, exec_pending PROVE FlowInv'
  <1>1. CalmStack
    BY CalmContinue, CalmLoopFrames DEF exec_pending, CalmOps
  <1> QED
    BY <1>1, QuietFlow DEF exec_pending, CalmTable, hiredisVars, connVars, mapVars, timerVars

LEMMA ExecConnFlow == ASSUME IndInv, FlowInv, exec_conn PROVE FlowInv'
  <1>1. CalmStack
    BY CalmReturn DEF exec_conn, CalmOps
  <1> QED
    BY <1>1, QuietFlow DEF exec_conn, redis_cmd, redisAsyncFormattedCommand, CalmTable,
       clusterVars, tableVars, mapVars, timerVars

LEMMA ExecConnClosingFlow == ASSUME IndInv, FlowInv, exec_conn_closing PROVE FlowInv'
  <1> DEFINE release == IF ~in_callback[Top.k] THEN <<F("release_connection", 0, Top.k, "keep")>>
                                               ELSE <<>>
             again == <<F("retry", Top.c, 0, "none")>>
  <1>1. Top.c \in CmdIds /\ Top.k \in ConnIds
    BY TopCalm DEF exec_conn_closing, CalmOps, CmdOps, ConnOps
  <1>2. release \in Seq(CalmFrames) /\ again \in Seq(CalmFrames)
    BY <1>1, CalmConnFrames, CalmCmdFrames, EmptyType
  <1>3. At("exec_conn") /\ Continue(release \o again)
    BY DEF exec_conn_closing
  <1> HIDE DEF release, again
  <1>4. CalmStack
    BY <1>2, <1>3, ConcatType, CalmContinue DEF CalmOps
  <1> QED
    BY <1>4, QuietFlow
    DEF exec_conn_closing, CalmTable, hiredisVars, connVars, mapVars, timerVars

LEMMA ExecConnFailedFlow == ASSUME IndInv, FlowInv, exec_conn_failed PROVE FlowInv'
  <1>1. Top.c \in CmdIds
    BY TopCalm DEF exec_conn_failed, CalmOps, CmdOps
  <1>2. CallbackFrames(Top.c, "null") \in Seq(CalmFrames)
        /\ <<F("destroy_cmd", Top.c, 0, "none")>> \in Seq(CalmFrames)
    BY <1>1, CallbackCalm, CalmCmdFrames DEF Replies
  <1>3. CalmStack
    BY <1>2, ConcatType, CalmContinue DEF exec_conn_failed, CalmOps
  <1> QED
    BY <1>3, QuietFlow
    DEF exec_conn_failed, CalmTable, hiredisVars, connVars, clusterVars, tableVars, mapVars,
        timerVars

LEMMA RetryFlow == ASSUME IndInv, FlowInv, retry PROVE FlowInv'
  <1>1. At("retry") /\ "retry" \in CalmOps /\ "retry" \in CmdOps
    BY DEF retry, CalmOps, CmdOps
  <1>2. Top.c \in CmdIds /\ Top.k \in ConnIds \cup {0} /\ Top.a \in Args
    BY <1>1, TopCalm DEF GoodFrame, Good, Frame
  <1>3. <<F("exec", Top.c, 0, "none")>> \in Seq(CalmFrames)
        /\ <<F("exec_conn", Top.c, Top.k, Top.a)>> \in Seq(CalmFrames)
    BY <1>2, CalmFrame, OneType DEF CalmOps, Args
  <1>4. \/ Continue(<<F("exec", Top.c, 0, "none")>>)
        \/ Continue(<<F("exec_conn", Top.c, Top.k, Top.a)>>)
        \/ Return
    BY DEF retry
  <1>5. CalmStack
    BY <1>1, <1>3, <1>4, CalmContinue, CalmReturn
  <1> QED
    BY <1>5, QuietFlow DEF retry, CalmTable, hiredisVars, connVars, tableVars, mapVars

LEMMA DestroyFlow == ASSUME IndInv, FlowInv, Destroy PROVE FlowInv'
  <1>1. CalmStack
    BY CalmReturn DEF Destroy, destroy, CalmOps
  <1> QED
    BY <1>1, QuietFlow DEF Destroy, CalmTable, hiredisVars, connVars, clusterVars, tableVars,
       mapVars, timerVars

LEMMA ReloadExecFlow == ASSUME IndInv, FlowInv, reload_exec PROVE FlowInv'
  <1> DEFINE c == Min(FreeLoads)
  <1> DEFINE send == <<F("exec_conn", c, Top.k, "none")>>
  <1> DEFINE end == IF redis_cmd_result(Top.k) = "OK" \/ Closing(Top.k)
                    THEN <<F("reload_end", 0, Top.k, "none")>> ELSE <<>>
  <1> DEFINE no == <<F("destroy_cmd", c, 0, "none")>>
  <1>1. At("reload_exec") /\ "reload_exec" \in CalmOps /\ Top.k \in ConnIds
    BY TopCalm DEF reload_exec, CalmOps, ConnOps
  <1>2. CASE FreeLoads = {}
    BY <1>1, <1>2, CalmReturn, QuietFlow
    DEF reload_exec, CalmTable, hiredisVars, connVars, mapVars, timerVars
  <1>3. CASE FreeLoads # {}
    <2>1. c \in CmdIds
      BY <1>3, MinIn, BoundsAssumption DEF FreeLoads, CmdIds, BoundsAssumption
    <2>2. send \in Seq(CalmFrames) /\ end \in Seq(CalmFrames) /\ no \in Seq(CalmFrames)
      <3> HIDE DEF c
      <3> QED
        BY <1>1, <2>1, CalmFrame, OneType, EmptyType DEF CalmOps, Args
    <2>3. Continue(send \o end) \/ Continue(no)
      BY <1>3 DEF reload_exec
    <2> HIDE DEF send, end, no
    <2>4. CalmStack
      BY <1>1, <2>2, <2>3, ConcatType, CalmContinue
    <2> QED
      BY <2>4, QuietFlow DEF reload_exec, CalmTable, hiredisVars, connVars, mapVars, timerVars
  <1> QED
    BY <1>2, <1>3

LEMMA ReloadEndFlow == ASSUME IndInv, FlowInv, reload_end PROVE FlowInv'
  <1>1. CalmStack
    BY CalmReturn DEF reload_end, CalmOps
  <1> QED
    BY <1>1, QuietFlow DEF reload_end, CalmTable, hiredisVars, connVars, mapVars, timerVars

LEMMA UpdateSlotFailedFlow == ASSUME IndInv, FlowInv, on_reply_update_slot_failed PROVE FlowInv'
  <1>1. At("on_reply_update_slot") /\ "on_reply_update_slot" \in CalmOps
    BY DEF on_reply_update_slot_failed, CalmOps
  <1>2. Top.c \in CmdIds
    BY <1>1, TopCalm DEF CmdOps
  <1>3. \/ Return
        \/ Continue(<<F("destroy_cmd", Top.c, 0, "none")>>)
        \/ Continue(<<F("exec", Top.c, 0, "none")>>)
    BY DEF on_reply_update_slot_failed
  <1>4. CalmStack
    BY <1>1, <1>2, <1>3, CalmCmdFrames, CalmContinue, CalmReturn
  <1> QED
    BY <1>4, QuietFlow DEF on_reply_update_slot_failed, CalmTable, hiredisVars, connVars, mapVars

LEMMA ResetSlotsFlow == ASSUME IndInv, FlowInv, reset_slots PROVE FlowInv'
  <1> DEFINE c == Head(slot_pending_)
  <1>1. At("reset_slots") /\ "reset_slots" \in CalmOps /\ Top \in CalmFrames
    BY TopCalm DEF reset_slots, CalmOps
  <1>2. CASE slot_pending_ # <<>>
    <2>1. c \in CmdIds
      BY <1>2, PendingHead DEF IndInv, Created
    <2>2. CallBack(c, "SLOT_UNAVAILABLE", "null", <<F("destroy_cmd", c, 0, "none"), Top>>)
      BY <1>2 DEF reset_slots
    <2> HIDE DEF c
    <2>3. <<F("destroy_cmd", c, 0, "none"), Top>> \in Seq(CalmFrames)
      BY <1>1, <2>1, CalmFrame, TwoType DEF CalmOps, Args
    <2>4. CalmStack
      BY <1>1, <2>1, <2>2, <2>3, CallBackCalm DEF Replies
    <2>5. CalmTable
      BY <1>2 DEF CalmTable, reset_slots
    <2> QED
      BY <2>4, <2>5, QuietFlow DEF reset_slots, hiredisVars, connVars, mapVars, timerVars
  <1>3. CASE slot_pending_ = <<>>
    <2>1. CalmStack
      BY <1>1, <1>3, CalmContinue, CalmLoopFrames DEF reset_slots
    <2> QED
      BY <1>3, <2>1, QuietFlow
      DEF reset_slots, CalmTable, hiredisVars, connVars, mapVars, timerVars
  <1> QED
    BY <1>2, <1>3

LEMMA ResetFlow == ASSUME IndInv, FlowInv, reset PROVE FlowInv'
  <1> DEFINE c == Head(timer_pending).cmd
  <1>1. At("reset") /\ "reset" \in CalmOps /\ Top \in CalmFrames
    BY TopCalm DEF reset, CalmOps
  <1>2. CASE timer_pending # <<>>
    <2>1. c \in CmdIds
      BY <1>2, TimerHead DEF IndInv, Created
    <2>2. CallBack(c, "TIMEOUT", "null", <<F("destroy_cmd", c, 0, "none"), Top>>)
      BY <1>2 DEF reset
    <2> HIDE DEF c
    <2>3. <<F("destroy_cmd", c, 0, "none"), Top>> \in Seq(CalmFrames)
      BY <1>1, <2>1, CalmFrame, TwoType DEF CalmOps, Args
    <2>4. CalmStack
      BY <1>1, <2>1, <2>2, <2>3, CallBackCalm DEF Replies
    <2> QED
      BY <1>2, <2>4, QuietFlow DEF reset, CalmTable, hiredisVars, connVars, mapVars
  <1>3. CASE timer_pending = <<>>
    <2>1. CalmStack
      BY <1>1, <1>3, CalmReturn DEF reset
    <2>2. Apart
      BY <1>3 DEF reset, Apart, linkVars, FewerTimeouts, connVars, mapVars
    <2> QED
      BY <1>3, <2>1, <2>2, CalmFlow DEF reset, CalmTable, hiredisVars
  <1> QED
    BY <1>2, <1>3

LEMMA ResetBeginFlow == ASSUME IndInv, FlowInv, reset_begin PROVE FlowInv'
  <1> DEFINE open == {connections_[s] : s \in Servers} \ {0}
             S == {k \in open : context_[k]}
  <1>1. At("reset_begin") /\ "reset_begin" \in CalmOps
    BY DEF reset_begin, CalmOps
  <1>2. PICK q \in SetToSeqs(S) :
          Continue([i \in DOMAIN q |-> F("redisAsyncDisconnect", 0, q[i], "none")]
                   \o <<F("reset_slots", 0, 0, "none")>>)
    BY DEF reset_begin
  <1> DEFINE close == [i \in DOMAIN q |-> F("redisAsyncDisconnect", 0, q[i], "none")]
             fs == <<F("reset_slots", 0, 0, "none")>>
  <1>3. S \in SUBSET ConnIds
    BY DEF IndInv, MapPart
  <1> HIDE DEF S
  <1>4. q \in Seq(S) /\ DOMAIN q = 1 .. Len(q) /\ Len(q) \in Nat
    BY <1>2, <1>3, OrderedConns
  <1>5. \A i \in 1 .. Len(q) : F("redisAsyncDisconnect", 0, q[i], "none") \in CalmFrames
    <2>1. \A i \in 1 .. Len(q) : q[i] \in ConnIds \cup {0}
      BY <1>3, <1>4
    <2>2. "redisAsyncDisconnect" \in CalmOps /\ "none" \in Args /\ 0 \in CmdIds \cup {0}
      BY DEF CalmOps, Args
    <2> QED
      BY <2>1, <2>2, CalmFrame
  <1>6. close \in Seq(CalmFrames)
    BY <1>4, <1>5
  <1>7. fs \in Seq(CalmFrames)
    BY CalmLoopFrames
  <1>8. Continue(close \o fs)
    BY <1>2
  <1> HIDE DEF close, fs
  <1>9. CalmStack
    BY <1>1, <1>6, <1>7, <1>8, ConcatType, CalmContinue
  <1> QED
    BY <1>9, QuietFlow DEF reset_begin, CalmTable, hiredisVars, connVars, mapVars, timerVars

\* The reply of a command is handed on.
LEMMA TopReply ==
  ASSUME IndInv, NEW op \in {"on_reply", "call_reply", "on_reply_asking", "pop_reply"}, At(op)
  PROVE  /\ op \in CalmOps /\ Top.c \in CmdIds /\ Top.k \in ConnIds
         /\ op # "pop_reply" => Top.a \in Replies
         /\ Top.a \in Replies \cup {"retry", "ask"} /\ Top.a \in Args
  <1>1. op \in CalmOps /\ op \in CmdOps /\ op \in ConnOps
    BY DEF CalmOps, CmdOps, ConnOps
  <1>2. Top \in GoodFrame /\ Top.c \in CmdIds /\ Top.k \in ConnIds /\ Top.op = op
    BY <1>1, TopCalm, TopGood DEF IndInv
  <1> QED
    BY <1>1, <1>2 DEF GoodFrame, Good, Replies, Args

LEMMA PopAndRetryCalm ==
  ASSUME NEW c \in CmdIds, NEW k \in ConnIds
  PROVE  PopAndRetry(c, k) \in Seq(CalmFrames)
  BY CalmCmdFrames, CalmReplyFrames DEF PopAndRetry, Args

LEMMA OnReplyFlow ==
  ASSUME IndInv, FlowInv, on_reply_wrapper \/ on_reply_retry \/ on_reply_clusterdown
  PROVE  FlowInv'
  <1> DEFINE down == <<F("call_reply", Top.c, Top.k, Top.a), F("reset_begin", 0, 0, "none")>>
  <1>1. At("on_reply")
    BY DEF on_reply_wrapper, on_reply_retry, on_reply_clusterdown
  <1>2. "on_reply" \in CalmOps /\ Top.c \in CmdIds /\ Top.k \in ConnIds /\ Top.a \in Args
    BY <1>1, TopReply
  <1>3. /\ <<F("call_reply", Top.c, Top.k, Top.a)>> \in Seq(CalmFrames)
        /\ PopAndRetry(Top.c, Top.k) \in Seq(CalmFrames)
    BY <1>2, CalmReplyFrames, PopAndRetryCalm
  <1>4. down \in Seq(CalmFrames)
    BY <1>2, CalmFrame, TwoType DEF CalmOps, Args
  <1>5. \/ Continue(<<F("call_reply", Top.c, Top.k, Top.a)>>)
        \/ Continue(PopAndRetry(Top.c, Top.k))
        \/ Continue(down)
    BY DEF on_reply_wrapper, on_reply_retry, on_reply_clusterdown
  <1>6. CalmStack
    <2> HIDE DEF down
    <2> QED
      BY <1>1, <1>2, <1>3, <1>4, <1>5, CalmContinue
  <1>7. UNCHANGED <<hiredisVars, connVars, clusterVars>>
    BY DEF on_reply_wrapper, on_reply_retry, on_reply_clusterdown
  <1> QED
    BY <1>6, <1>7, QuietFlow
    DEF CalmTable, hiredisVars, connVars, clusterVars, tableVars, mapVars, timerVars

LEMMA OnReplyMovedFlow ==
  ASSUME IndInv, FlowInv, NEW i, NEW s, on_reply_moved(i, s)
  PROVE  FlowInv'
  <1>1. At("on_reply")
    BY DEF on_reply_moved
  <1>2. "on_reply" \in CalmOps /\ Top.c \in CmdIds /\ Top.k \in ConnIds /\ Top.a \in Args
    BY <1>1, TopReply
  <1>3. /\ <<F("call_reply", Top.c, Top.k, Top.a)>> \in Seq(CalmFrames)
        /\ PopAndRetry(Top.c, Top.k) \in Seq(CalmFrames)
        /\ <<F("reload_slots", 0, 0, "none")>> \in Seq(CalmFrames)
    BY <1>2, CalmReplyFrames, PopAndRetryCalm, CalmLoopFrames
  <1>4. \/ Continue(PopAndRetry(Top.c, Top.k) \o <<F("reload_slots", 0, 0, "none")>>)
        \/ Continue(<<F("call_reply", Top.c, Top.k, Top.a)>>)
    BY DEF on_reply_moved
  <1>5. CalmStack
    BY <1>1, <1>2, <1>3, <1>4, ConcatType, CalmContinue
  <1> QED
    BY <1>5, QuietFlow DEF on_reply_moved, CalmTable, hiredisVars, connVars, mapVars, timerVars

LEMMA AskPopFlow == ASSUME IndInv, FlowInv, ask_pop PROVE FlowInv'
  <1>1. At("ask_pop") /\ "ask_pop" \in CalmOps /\ Top.c \in CmdIds /\ Top.k \in ConnIds
    BY TopCalm DEF ask_pop, CalmOps, CmdOps, ConnOps
  <1>2. \/ Continue(<<F("pop_reply", Top.c, Top.k, "ask")>>)
        \/ Continue(<<>>)
    BY DEF ask_pop
  <1>3. CalmStack
    BY <1>1, <1>2, CalmReplyFrames, EmptyType, CalmContinue DEF Args
  <1> QED
    BY <1>3, QuietFlow
    DEF ask_pop, CalmTable, hiredisVars, connVars, clusterVars, tableVars, mapVars, timerVars

LEMMA AskingFlow == ASSUME IndInv, FlowInv, asking PROVE FlowInv'
  <1>1. At("asking") /\ "asking" \in CalmOps /\ Top.c \in CmdIds
    BY TopCalm DEF asking, CalmOps, CmdOps
  <1>2. Return \/ Continue(<<F("retry", Top.c, 0, "none")>>)
    BY DEF asking
  <1>3. CalmStack
    BY <1>1, <1>2, CalmCmdFrames, CalmContinue, CalmReturn
  <1>4. UNCHANGED in_callback
    BY DEF asking, redisAsyncFormattedCommand, hiredisVars
  <1> QED
    BY <1>3, <1>4, QuietFlow
    DEF asking, CalmTable, connVars, clusterVars, tableVars, mapVars, timerVars

LEMMA OnReplyAskingFlow == ASSUME IndInv, FlowInv, on_reply_asking PROVE FlowInv'
  <1>1. At("on_reply_asking")
    BY DEF on_reply_asking
  <1>2. "on_reply_asking" \in CalmOps /\ Top.c \in CmdIds /\ Top.k \in ConnIds
        /\ Top.a \in Replies
    BY <1>1, TopReply
  <1>3. /\ <<F("retry", Top.c, 0, "none")>> \in Seq(CalmFrames)
        /\ <<F("retry", Top.c, Top.k, "ask")>> \in Seq(CalmFrames)
        /\ <<F("destroy_cmd", Top.c, 0, "none")>> \in Seq(CalmFrames)
    BY <1>2, CalmCmdFrames, CalmReplyFrames
  <1>4. \/ Continue(<<F("retry", Top.c, 0, "none")>>)
        \/ Continue(<<F("retry", Top.c, Top.k, "ask")>>)
        \/ CallBack(Top.c, "CONNECTION", Top.a, <<F("destroy_cmd", Top.c, 0, "none")>>)
    BY DEF on_reply_asking, Fail
  <1>5. CalmStack
    BY <1>1, <1>2, <1>3, <1>4, CalmContinue, CallBackCalm
  <1> QED
    BY <1>5, QuietFlow
    DEF on_reply_asking, CalmTable, hiredisVars, connVars, clusterVars, tableVars, mapVars,
        timerVars

LEMMA CallReplyFlow == ASSUME IndInv, FlowInv, CallReply PROVE FlowInv'
  <1>1. At("call_reply")
    BY DEF CallReply, call_reply
  <1>2. "call_reply" \in CalmOps /\ Top.c \in CmdIds /\ Top.k \in ConnIds
        /\ Top.a \in Replies /\ Top.a \in Args
    BY <1>1, TopReply
  <1>3. /\ <<F("pop_reply", Top.c, Top.k, Top.a)>> \in Seq(CalmFrames)
        /\ <<F("destroy", Top.c, 0, "none")>> \in Seq(CalmFrames)
    BY <1>2, CalmCmdFrames, CalmReplyFrames
  <1>4. \/ Continue(<<F("pop_reply", Top.c, Top.k, Top.a)>>)
        \/ CallBack(Top.c, "NOT_FOUND", Top.a, <<F("destroy", Top.c, 0, "none")>>)
    BY DEF CallReply, call_reply
  <1>5. CalmStack
    BY <1>1, <1>2, <1>3, <1>4, CalmContinue, CallBackCalm
  <1> QED
    BY <1>5, QuietFlow
    DEF CallReply, call_reply, CalmTable, hiredisVars, connVars, clusterVars, tableVars, mapVars,
        timerVars

LEMMA PopReplyFlow == ASSUME IndInv, FlowInv, PopReply PROVE FlowInv'
  <1> DEFINE c == Top.c
  <1> DEFINE k == Top.k
  <1> DEFINE e == Head(reply_list_[k])
  <1>1. At("pop_reply")
    BY DEF PopReply, pop_reply
  <1>2. "pop_reply" \in CalmOps /\ c \in CmdIds /\ k \in ConnIds
        /\ Top.a \in Replies \cup {"retry", "ask"} /\ Top \in CalmFrames
    BY <1>1, TopReply, TopCalm
  <1>3. UNCHANGED <<conn_st, context_, conn_status_, sequence_, seq_alloc, hiredisVars, clusterVars>>
    BY DEF PopReply, pop_reply
  <1>4. CASE reply_list_[k] = <<>>
    BY <1>3, <1>4, QuietFlow
    DEF PopReply, pop_reply, CalmStack, CalmTable, hiredisVars, clusterVars, tableVars, mapVars,
        timerVars
  <1>5. CASE reply_list_[k] # <<>>
    <2>1. e \in CmdIds
      BY <1>2, <1>5, ReplyListHead DEF IndInv, Created
    <2>2. \/ CallBack(e, "TIMEOUT", "null", <<F("destroy", e, 0, "none"), Top>>)
          \/ Continue(<<F("retry", c, 0, "none")>>)
          \/ Continue(<<>>)
          \/ /\ Top.a \notin {"retry", "ask"}
             /\ CallBack(c, Translate(k, c, Top.a), Top.a, <<F("destroy", c, 0, "none")>>)
      BY <1>5 DEF PopReply, pop_reply
    <2> HIDE DEF e
    <2>3. <<F("destroy", e, 0, "none"), Top>> \in Seq(CalmFrames)
      BY <1>2, <2>1, CalmFrame, TwoType DEF CalmOps, Args
    <2>4. /\ <<F("retry", c, 0, "none")>> \in Seq(CalmFrames)
          /\ <<F("destroy", c, 0, "none")>> \in Seq(CalmFrames)
          /\ <<>> \in Seq(CalmFrames)
      BY <1>2, CalmCmdFrames, EmptyType
    <2>5. "null" \in Replies /\ (Top.a \notin {"retry", "ask"} => Top.a \in Replies)
      BY <1>2 DEF Replies
    <2> HIDE DEF c, k
    <2>6. CalmStack
      BY <1>1, <1>2, <2>1, <2>2, <2>3, <2>4, <2>5, CalmContinue, CallBackCalm
    <2> QED
      BY <1>3, <2>6, QuietFlow DEF CalmTable, hiredisVars, clusterVars, tableVars, mapVars, timerVars
  <1> QED
    BY <1>4, <1>5

LEMMA NotifiedMore ==
  ASSUME IndInv, NEW k \in ConnIds, NEW e, Notify(k, e)
  PROVE  /\ \A j \in ConnIds : notified[j] \subseteq notified'[j]
         /\ e \in notified'[k]
  BY DEF Notify, IndInv, MapPart

LEMMA OnConnectedFlow == ASSUME IndInv, FlowInv, on_connected_wrapper PROVE FlowInv'
  <1> DEFINE status == IF Top.a = "OK" /\ conn_status_[Top.k] = "DISCONNECTED"
                       THEN "OTHER" ELSE Top.a
             fs == <<F("user", 0, Top.k, "on_connected"), F("on_connected_end", 0, Top.k, status)>>
  <1>1. At("on_connected") /\ "on_connected" \in CalmOps
    BY DEF on_connected_wrapper, CalmOps
  <1>2. Top.k \in ConnIds /\ Top.a \in Args
    BY <1>1, TopCalm DEF ConnOps, GoodFrame, Good, Frame
  <1>3. fs \in Seq(CalmFrames)
    <2>1. status \in Args
      BY <1>2 DEF Args
    <2> QED
      BY <1>2, <2>1, CalmFrame, TwoType DEF CalmOps, Args
  <1>4. Continue(fs)
    BY DEF on_connected_wrapper
  <1> HIDE DEF fs
  <1>5. CalmStack
    BY <1>1, <1>3, <1>4, CalmContinue
  <1>6. \A j \in ConnIds : notified[j] \subseteq notified'[j]
    BY <1>2, NotifiedMore DEF on_connected_wrapper
  <1>7. Apart
    BY <1>6 DEF on_connected_wrapper, Apart, linkVars, FewerTimeouts, connVars, timerVars
  <1> QED
    BY <1>5, <1>7, CalmFlow DEF on_connected_wrapper, CalmTable, hiredisVars, tableVars

LEMMA OnDisconnectedFlow == ASSUME IndInv, FlowInv, on_disconnected_wrapper PROVE FlowInv'
  <1>1. At("on_disconnected") /\ "on_disconnected" \in CalmOps /\ Top.k \in ConnIds
    BY TopCalm DEF on_disconnected_wrapper, CalmOps, ConnOps
  <1>2. CalmStack
    BY <1>1, CalmConnFrames, CalmContinue DEF on_disconnected_wrapper
  <1> QED
    BY <1>2, QuietFlow
    DEF on_disconnected_wrapper, CalmTable, hiredisVars, connVars, mapVars, timerVars

LEMMA UserReturnFlow == ASSUME IndInv, FlowInv, UserReturn PROVE FlowInv'
  <1>1. CalmStack
    BY CalmReturn DEF UserReturn, CalmOps
  <1> QED
    BY <1>1, QuietFlow
    DEF UserReturn, CalmTable, hiredisVars, connVars, clusterVars, tableVars, mapVars, timerVars

LEMMA UserCallFlow ==
  ASSUME IndInv, FlowInv, UserStart \/ UserReset \/ \E s \in Servers : UserRelease(s)
  PROVE  FlowInv'
  <1>1. ASSUME NEW s \in Servers, UserRelease(s)
        PROVE  \E fs \in Seq(CalmFrames) : Call(fs)
    <2>1. connections_[s] \in ConnIds
      BY <1>1 DEF UserRelease, IndInv, MapPart
    <2> QED
      BY <1>1, <2>1, CalmConnFrames DEF UserRelease
  <1>2. UserStart \/ UserReset => \E fs \in Seq(CalmFrames) : Call(fs)
    BY CalmLoopFrames DEF UserStart, UserReset
  <1>3. CalmStack
    BY <1>1, <1>2 DEF CalmStack
  <1>4. UNCHANGED <<hiredisVars, connVars, clusterVars>>
    BY DEF UserStart, UserReset, UserRelease
  <1> QED
    BY <1>3, <1>4, QuietFlow
    DEF CalmTable, hiredisVars, connVars, clusterVars, tableVars, mapVars, timerVars

LEMMA UserExecFlow == ASSUME IndInv, FlowInv, NEW i, UserExec(i) PROVE FlowInv'
  <1>1. ncmd + 1 \in CmdIds
    BY BoundsAssumption DEF UserExec, IndInv, MapPart, CmdIds, BoundsAssumption
  <1>2. CalmStack
    BY <1>1, CalmCmdFrames DEF UserExec, CalmStack
  <1> QED
    BY <1>2, QuietFlow DEF UserExec, CalmTable, hiredisVars, connVars, mapVars, timerVars

-----------------------------------------------------------------------------
(* The commands that wait for the table                                    *)

LEMMA HeightOf ==
  ASSUME StackSeq, stack # <<>>
  PROVE  /\ Len(stack) \in Nat /\ Len(stack) >= 1 /\ Len(stack) - 1 \in Nat
         /\ Len(stack) - 1 \in Heights /\ Pile[Len(stack) - 1] = Top
  BY PileFrames DEF Heights

LEMMA UpdateSlotFlow == ASSUME IndInv, FlowInv, on_reply_update_slot PROVE FlowInv'
  <1> DEFINE f == F("run_pending", 0, 0, "none")
             h == Len(stack) - 1
  <1>1. StackSeq /\ stack # <<>> /\ Top.op = "on_reply_update_slot"
    BY StackFrames, TopGood DEF on_reply_update_slot, IndInv
  <1>2. Len(stack) \in Nat /\ h \in Nat /\ Len(stack) <= h + 1
    BY <1>1, HeightOf
  <1>3. Keep(h) /\ Len(stack') = h + 1 /\ Pile'[h] = f
    BY <1>1, <1>2, ContinueOne DEF on_reply_update_slot
  <1>4. h \in Heights' /\ Pile'[h].op = "run_pending"
    BY <1>2, <1>3 DEF Heights, F
  <1> HIDE DEF h
  <1>5. \A d \in h .. Len(stack') - 1 : Pile'[d].op = "run_pending"
    BY <1>2, <1>3, <1>4
  <1>6. PendingPart'
    BY <1>4 DEF PendingPart
  <1>7. CallbackPart'
    BY <1>1, <1>2, <1>3, CallbackKept DEF FlowInv, HiredisOps, on_reply_update_slot, hiredisVars
  <1>8. Apart
    BY DEF Apart, linkVars, FewerTimeouts, on_reply_update_slot, connVars, mapVars, timerVars
  <1> QED
    BY <1>1, <1>2, <1>3, <1>5, <1>6, <1>7, <1>8, MoveFlow DEF ReleaseOps

LEMMA RunPendingFlow == ASSUME IndInv, FlowInv, run_pending PROVE FlowInv'
  <1> DEFINE f == F("retry", Head(slot_pending_), 0, "none")
             h == Len(stack) - 1
  <1>1. StackSeq /\ stack # <<>> /\ Top.op = "run_pending"
    BY StackFrames, TopGood DEF run_pending, IndInv
  <1>2. Len(stack) \in Nat /\ h \in Nat /\ Len(stack) <= h + 1 /\ Len(stack) = h + 1
    BY <1>1, HeightOf
  <1>3. Apart /\ UNCHANGED in_callback
    BY DEF Apart, linkVars, FewerTimeouts, run_pending, connVars, mapVars, timerVars, hiredisVars
  <1>4. CASE slot_pending_ = <<>>
    <2>1. Keep(h) /\ Len(stack') = h
      BY <1>1, <1>4, ReturnOne DEF run_pending
    <2> HIDE DEF h
    <2>2. \A d \in h .. Len(stack') - 1 : FALSE
      BY <1>2, <2>1
    <2>3. PendingPart'
      BY <1>4 DEF PendingPart, run_pending
    <2>4. CallbackPart'
      BY <1>1, <1>2, <1>3, <2>1, CallbackKept DEF FlowInv, HiredisOps
    <2> QED
      BY <1>1, <1>2, <1>3, <2>1, <2>2, <2>3, <2>4, MoveFlow DEF ReleaseOps
  <1>5. CASE slot_pending_ # <<>>
    <2>1. Keep(h) /\ Len(stack') = h + 2 /\ Pile'[h + 1] = f /\ Pile'[h] = Top
      BY <1>1, <1>2, <1>5, ContinueTwo DEF run_pending
    <2> HIDE DEF h
    <2>2. h \in Heights' /\ Pile'[h].op = "run_pending" /\ Pile'[h + 1].op = "retry"
      BY <1>1, <1>2, <2>1 DEF Heights, F
    <2>3. \A d \in h .. Len(stack') - 1 : d = h \/ d = h + 1
      BY <1>2, <2>1
    <2>4. \A d \in h .. Len(stack') - 1 : Pile'[d].op \in CalmOps \cup {"run_pending"}
      BY <2>2, <2>3 DEF CalmOps
    <2>5. PendingPart'
      BY <2>2 DEF PendingPart
    <2>6. CallbackPart'
      BY <1>1, <1>2, <1>3, <2>1, CallbackKept DEF FlowInv, HiredisOps
    <2> QED
      BY <1>1, <1>2, <1>3, <2>1, <2>4, <2>5, <2>6, MoveFlow DEF ReleaseOps
  <1> QED
    BY <1>4, <1>5

-----------------------------------------------------------------------------
(* proc                                                                    *)

LEMMA TopProc ==
  ASSUME IndInv, FlowInv, NEW op \in ProcOps, At(op)
  PROVE  StackSeq /\ stack # <<>> /\ Len(stack) = 1 /\ Top.op \in ProcOps
  <1>1. StackSeq /\ stack # <<>> /\ Top.op = op
    BY StackFrames, TopGood DEF IndInv
  <1>2. Len(stack) - 1 = 0
    BY <1>1, HeightOf DEF FlowInv, ShapePart
  <1> QED
    BY <1>1, <1>2, PileFrames

\* A step of proc() leaves a frame of proc() at the bottom, or none.
LEMMA ProcMoves ==
  ASSUME IndInv, FlowInv, StackSeq, Len(stack) = 0 \/ (Len(stack) = 1 /\ Top.op \in ProcOps),
         Keep(0), Len(stack') > 0 => Pile'[0].op \in ProcOps,
         \A d \in 1 .. Len(stack') - 1 : Pile'[d].op \in CalmOps,
         UNCHANGED in_callback, CalmTable, Apart
  PROVE  FlowInv'
  <1>0. Len(stack) = 0 \/ Len(stack) = 1
    OBVIOUS
  <1>a. Len(stack') \in Nat
    BY DEF Keep
  <1>b. \A n : n = 0 \/ n = 1 => n <= 0 + 1
    OBVIOUS
  <1>c. Len(stack) <= 0 + 1
    BY ONLY <1>0, <1>b
  <1>1. Len(stack') \in Nat /\ Len(stack) <= 0 + 1 /\ 0 \in Nat
    BY <1>a, <1>c
  <1>2. Len(stack) # 0 => Top.op \notin ReleaseOps \cup HiredisOps \cup {"run_pending"}
    BY DEF ProcOps, ReleaseOps, HiredisOps
  <1>3. \A d \in 0 .. Len(stack') - 1 : d = 0 \/ d \in 1 .. Len(stack') - 1
    BY <1>1
  <1>4. \A d \in 0 .. Len(stack') - 1 : Len(stack') > 0
    BY <1>1
  <1>5. \A d \in 0 .. Len(stack') - 1 :
          \/ Pile'[d].op \in CalmOps \cup HiredisOps \cup {"run_pending"}
          \/ Pile'[d].op \in ProcOps /\ d = 0
    BY <1>3, <1>4
  <1>6. CallbackPart'
    BY <1>1, <1>2, CallbackKept DEF FlowInv
  <1>7. PendingPart'
    BY <1>1, <1>2, PendingKept DEF FlowInv, CalmTable
  <1> QED
    BY <1>1, <1>2, <1>5, <1>6, <1>7, MoveFlow

LEMMA UserProcFlow == ASSUME IndInv, FlowInv, NEW t, UserProc(t) PROVE FlowInv'
  <1>1. StackSeq /\ Len(stack) = 0
    BY StackFrames, PileFrames DEF UserProc, InLoop
  <1>2. Keep(0) /\ Len(stack') = 1 /\ Pile'[0] = F("proc", 0, 0, "none")
    BY <1>1, CallOne DEF UserProc
  <1>3. Pile'[0].op \in ProcOps /\ \A d \in 1 .. Len(stack') - 1 : Pile'[d].op \in CalmOps
    BY <1>2 DEF F, ProcOps
  <1>4. Apart /\ UNCHANGED in_callback /\ CalmTable
    BY DEF Apart, linkVars, FewerTimeouts, UserProc, connVars, mapVars, hiredisVars, tableVars,
       CalmTable
  <1> QED
    BY <1>1, <1>2, <1>3, <1>4, ProcMoves

LEMMA ProcFlow == ASSUME IndInv, FlowInv, proc PROVE FlowInv'
  <1>1. StackSeq /\ stack # <<>> /\ Len(stack) = 1 /\ Top.op \in ProcOps
    BY TopProc DEF proc, ProcOps
  <1>2. Apart /\ UNCHANGED in_callback /\ CalmTable
    BY DEF Apart, linkVars, FewerTimeouts, proc, connVars, mapVars, hiredisVars, tableVars,
       CalmTable
  <1>3. CASE timer_pending # <<>> /\ Head(timer_pending).at <= now
    <2> DEFINE f == F("exec", Head(timer_pending).cmd, 0, "none")
    <2>1. Continue(<<f, Top>>)
      BY <1>3 DEF proc
    <2>2. f.op \in CalmOps
      BY DEF F, CalmOps
    <2> HIDE DEF f
    <2>3. Keep(0) /\ Len(stack') = 2 /\ Pile'[1] = f /\ Pile'[0] = Top
      BY <1>1, <2>1, ContinueTwo
    <2>4. \A d \in 1 .. Len(stack') - 1 : Pile'[d].op \in CalmOps
      BY <2>2, <2>3
    <2> QED
      BY <1>1, <1>2, <2>3, <2>4, ProcMoves
  <1>4. CASE ~(timer_pending # <<>> /\ Head(timer_pending).at <= now)
    <2>1. Keep(0) /\ Len(stack') = 1 /\ Pile'[0] = F("proc_conn", 0, 0, "none")
      BY <1>1, <1>4, ContinueOne DEF proc
    <2>2. Pile'[0].op \in ProcOps /\ \A d \in 1 .. Len(stack') - 1 : Pile'[d].op \in CalmOps
      BY <2>1 DEF F, ProcOps
    <2> QED
      BY <1>1, <1>2, <2>1, <2>2, ProcMoves
  <1> QED
    BY <1>3, <1>4

LEMMA ProcConnFlow == ASSUME IndInv, FlowInv, proc_conn PROVE FlowInv'
  <1> DEFINE k == connections_[Head(timer_conns).server]
             clear == F("proc_clear", 0, 0, "none")
             release == F("release_connection", 0, k, "close")
  <1>1. StackSeq /\ stack # <<>> /\ Len(stack) = 1 /\ Top.op \in ProcOps
    BY TopProc DEF proc_conn, ProcOps
  <1>2. Apart /\ UNCHANGED in_callback /\ CalmTable
    BY DEF Apart, linkVars, FewerTimeouts, proc_conn, connVars, mapVars, hiredisVars, tableVars,
       clusterVars, timerVars, CalmTable
  <1>3. CASE ~Due
    <2>1. Return
      BY <1>1, <1>3 DEF proc_conn, Continue, Return, StackSeq, Rest
    <2>2. Keep(0) /\ Len(stack') = 0
      BY <1>1, <2>1, ReturnOne
    <2>3. \A d \in 1 .. Len(stack') - 1 : Pile'[d].op \in CalmOps
      BY <2>2
    <2> QED
      BY <1>1, <1>2, <2>2, <2>3, ProcMoves
  <1>4. CASE Due /\ ~Expired(k)
    <2>1. Continue(<<clear>>)
      BY <1>4 DEF proc_conn
    <2>2. Keep(0) /\ Len(stack') = 1 /\ Pile'[0] = clear
      BY <1>1, <2>1, ContinueOne
    <2>3. Pile'[0].op \in ProcOps /\ \A d \in 1 .. Len(stack') - 1 : Pile'[d].op \in CalmOps
      BY <2>2 DEF F, ProcOps
    <2> QED
      BY <1>1, <1>2, <2>2, <2>3, ProcMoves
  <1>5. CASE Due /\ Expired(k)
    <2>0. <<release>> \o <<clear>> = <<release, clear>>
      BY Pair
    <2>1. Continue(<<release, clear>>)
      BY <1>5, <2>0 DEF proc_conn
    <2>2. release.op \in CalmOps /\ clear.op \in ProcOps
      BY DEF F, CalmOps, ProcOps
    <2> HIDE DEF release, clear
    <2>3. Keep(0) /\ Len(stack') = 2 /\ Pile'[1] = release /\ Pile'[0] = clear
      BY <1>1, <2>1, ContinueTwo
    <2>4. \A d \in 1 .. Len(stack') - 1 : Pile'[d].op \in CalmOps
      BY <2>2, <2>3
    <2> QED
      BY <1>1, <1>2, <2>2, <2>3, <2>4, ProcMoves
  <1> QED
    BY <1>3, <1>4, <1>5

LEMMA ProcClearFlow == ASSUME IndInv, FlowInv, proc_clear PROVE FlowInv'
  <1>1. StackSeq /\ stack # <<>> /\ Len(stack) = 1 /\ Top.op \in ProcOps
    BY TopProc DEF proc_clear, ProcOps
  <1>2. UNCHANGED in_callback /\ CalmTable
    BY DEF proc_clear, hiredisVars, tableVars, CalmTable
  <1>3. Apart
    <2>1. FewerTimeouts
      <3>1. CASE timer_conns = <<>>
        BY <3>1 DEF proc_clear, FewerTimeouts
      <3>2. CASE timer_conns # <<>>
        <4>1. timer_conns' = Tail(timer_conns) /\ timer_conns \in Seq(Expiry)
          BY <3>2 DEF proc_clear, IndInv, TimePart
        <4>2. \A i \in DOMAIN Tail(timer_conns) :
                i + 1 \in DOMAIN timer_conns /\ Tail(timer_conns)[i] = timer_conns[i + 1]
          BY <3>2, <4>1
        <4> QED
          BY <4>1, <4>2 DEF FewerTimeouts
      <3> QED
        BY <3>1, <3>2
    <2> QED
      BY <2>1 DEF Apart, linkVars, proc_clear, connVars, mapVars
  <1>4. CASE timer_conns = <<>>
    <2>1. UNCHANGED stack
      BY <1>4 DEF proc_clear
    <2> QED
      BY <1>2, <1>3, <2>1, CalmFlow DEF CalmStack
  <1>5. CASE timer_conns # <<>>
    <2>1. Keep(0) /\ Len(stack') = 1 /\ Pile'[0] = F("proc_conn", 0, 0, "none")
      BY <1>1, <1>5, ContinueOne DEF proc_clear
    <2>2. Pile'[0].op \in ProcOps /\ \A d \in 1 .. Len(stack') - 1 : Pile'[d].op \in CalmOps
      BY <2>1 DEF F, ProcOps
    <2> QED
      BY <1>1, <1>2, <1>3, <2>1, <2>2, ProcMoves
  <1> QED
    BY <1>4, <1>5

-----------------------------------------------------------------------------
(* hiredis                                                                 *)

\* A call of hiredis about context k begins, goes on or ends.
LEMMA CallbackMoved ==
  ASSUME StackSeq, CallbackPart, NEW h, Keep(h), Len(stack) <= h + 1, NEW k \in ConnIds,
         Len(stack) # h => Top.op \notin HiredisOps \/ Top.k = k,
         \A j \in ConnIds \ {k} : in_callback'[j] => in_callback[j],
         in_callback'[k] =>
           \E d \in h .. Len(stack') - 1 : Pile'[d].op \in HiredisOps /\ Pile'[d].k = k
  PROVE  CallbackPart'
  <1> SUFFICES ASSUME NEW j \in ConnIds, in_callback'[j]
               PROVE  \E d \in Heights' : Pile'[d].op \in HiredisOps /\ Pile'[d].k = j
    BY DEF CallbackPart
  <1>1. CASE j = k
    BY <1>1, KeptFrames
  <1>2. CASE j # k
    <2>1. PICK d \in Heights : Pile[d].op \in HiredisOps /\ Pile[d].k = j
      BY <1>2 DEF CallbackPart
    <2>2. d < h /\ d \in Heights' /\ Pile'[d] = Pile[d]
      BY <1>2, <2>1, KeptFrames
    <2> QED
      BY <2>1, <2>2
  <1> QED
    BY <1>1, <1>2

LEMMA HiredisFlow ==
  ASSUME IndInv, FlowInv, NEW h, Keep(h), Len(stack) <= h + 1,
         Len(stack) # h => Top.op \in HiredisOps \cup {"redisAsyncDisconnect"},
         \A d \in h .. Len(stack') - 1 : Pile'[d].op \in CalmOps \cup HiredisOps,
         CallbackPart', UNCHANGED <<connVars, clusterVars>>
  PROVE  FlowInv'
  <1>1. StackSeq
    BY StackFrames
  <1>2. Len(stack) # h => Top.op \notin ReleaseOps /\ Top.op # "run_pending"
    BY DEF HiredisOps, ReleaseOps
  <1>3. Apart
    BY DEF Apart, linkVars, FewerTimeouts, connVars, clusterVars, mapVars, timerVars
  <1>4. PendingPart'
    BY <1>1, <1>2, PendingKept DEF FlowInv, clusterVars, tableVars
  <1> QED
    BY <1>2, <1>3, <1>4, MoveFlow

\* hiredis ends a callback of context k, or goes on with it, or begins one.
LEMMA HiredisMoves ==
  ASSUME IndInv, FlowInv, NEW h, Keep(h), Len(stack) <= h + 1, NEW k \in ConnIds,
         Len(stack) # h => Top.op \in HiredisOps /\ Top.k = k,
         \A d \in h .. Len(stack') - 1 : Pile'[d].op \in CalmOps \cup HiredisOps,
         NEW b, in_callback' = [in_callback EXCEPT ![k] = b],
         b => \E d \in h .. Len(stack') - 1 : Pile'[d].op \in HiredisOps /\ Pile'[d].k = k,
         UNCHANGED <<connVars, clusterVars>>
  PROVE  FlowInv'
  <1>1. StackSeq /\ in_callback \in [ConnIds -> BOOLEAN]
    BY StackFrames DEF IndInv, ContextPart
  <1>2. in_callback'[k] = b /\ \A j \in ConnIds \ {k} : in_callback'[j] = in_callback[j]
    BY <1>1
  <1>3. CallbackPart'
    BY <1>1, <1>2, CallbackMoved DEF FlowInv
  <1> QED
    BY <1>3, HiredisFlow

LEMMA TopHiredis ==
  ASSUME IndInv, NEW op \in HiredisOps, At(op)
  PROVE  /\ StackSeq /\ stack # <<>> /\ Top.op \in HiredisOps /\ Top.k \in ConnIds
         /\ Len(stack) \in Nat /\ Len(stack) - 1 \in Nat /\ Len(stack) <= Len(stack) - 1 + 1
  <1>1. op \in ConnOps
    BY DEF HiredisOps, ConnOps
  <1>2. StackSeq /\ stack # <<>> /\ Top.op = op /\ Top.k \in ConnIds
    BY <1>1, StackFrames, TopCmd DEF IndInv
  <1>3. Len(stack) \in Nat /\ Len(stack) - 1 \in Nat
    BY <1>2, HeightOf
  <1> QED
    BY <1>2, <1>3

\* A callback of hiredis has ended; the context may be freed now.
LEMMA EndOfCallback ==
  ASSUME IndInv, FlowInv, NEW op \in HiredisOps, At(op),
         in_callback' = [in_callback EXCEPT ![Top.k] = FALSE],
         Return \/ Continue(<<F("h_free", 0, Top.k, "none")>>),
         UNCHANGED <<connVars, clusterVars>>
  PROVE  FlowInv'
  <1> DEFINE h == Len(stack) - 1
             f == F("h_free", 0, Top.k, "none")
  <1>1. /\ StackSeq /\ stack # <<>> /\ Top.op \in HiredisOps /\ Top.k \in ConnIds
        /\ Len(stack) \in Nat /\ h \in Nat /\ Len(stack) <= h + 1
    BY TopHiredis
  <1>2. \/ Keep(h) /\ Len(stack') = h
        \/ Keep(h) /\ Len(stack') = h + 1 /\ Pile'[h] = f
    <2>1. CASE Return
      BY <1>1, <2>1, ReturnOne
    <2>2. CASE Continue(<<f>>)
      <3>1. Keep(h) /\ Len(stack') = Len(stack) /\ Pile'[h] = f
        BY <1>1, <2>2, ContinueOne
      <3> QED
        BY <1>1, <3>1
    <2> QED
      BY <2>1, <2>2
  <1>3. f.op \in HiredisOps
    BY DEF F, HiredisOps
  <1> HIDE DEF h, f
  <1>4. \A d \in h .. Len(stack') - 1 : Pile'[d].op \in HiredisOps
    BY <1>1, <1>2, <1>3
  <1> QED
    BY <1>1, <1>2, <1>4, HiredisMoves

LEMMA EndsFlow ==
  ASSUME IndInv, FlowInv,
         \/ ByHiredis(ConnectEnd) \/ ByHiredis(ConnectFailedEnd) \/ ByHiredis(ReplyEnd)
         \/ ByHiredis(FreeContextEnd)
  PROVE  FlowInv'
  <1>0. Continue(<<>>) /\ stack # <<>> => Return
    BY StackFrames DEF Continue, Return, StackSeq, Rest
  <1>1. CASE ByHiredis(ConnectEnd)
    <2>1. At("h_connect_end") /\ "h_connect_end" \in HiredisOps
      BY <1>1 DEF ByHiredis, ConnectEnd, HiredisOps
    <2> QED
      BY <1>0, <1>1, <2>1, TopHiredis, EndOfCallback DEF ByHiredis, ConnectEnd
  <1>2. CASE ByHiredis(ReplyEnd)
    <2>1. At("h_reply_end") /\ "h_reply_end" \in HiredisOps
      BY <1>2 DEF ByHiredis, ReplyEnd, HiredisOps
    <2> QED
      BY <1>0, <1>2, <2>1, TopHiredis, EndOfCallback DEF ByHiredis, ReplyEnd
  <1>3. CASE ByHiredis(ConnectFailedEnd)
    <2>1. At("h_connect_failed") /\ "h_connect_failed" \in HiredisOps
      BY <1>3 DEF ByHiredis, ConnectFailedEnd, HiredisOps
    <2> QED
      BY <1>3, <2>1, EndOfCallback DEF ByHiredis, ConnectFailedEnd
  <1>4. CASE ByHiredis(FreeContextEnd)
    <2>1. At("h_free_end") /\ "h_free_end" \in HiredisOps
      BY <1>4 DEF ByHiredis, FreeContextEnd, HiredisOps
    <2> QED
      BY <1>4, <2>1, EndOfCallback DEF ByHiredis, FreeContextEnd
  <1> QED
    BY <1>1, <1>2, <1>3, <1>4

LEMMA DisconnectFlow == ASSUME IndInv, FlowInv, ByHiredis(redisAsyncDisconnect) PROVE FlowInv'
  <1> DEFINE h == Len(stack) - 1
             f == F("h_free", 0, Top.k, "none")
  <1>1. /\ At("redisAsyncDisconnect") /\ StackSeq /\ stack # <<>>
        /\ Top.op = "redisAsyncDisconnect"
    BY StackFrames, TopGood DEF ByHiredis, redisAsyncDisconnect, IndInv
  <1>2. Len(stack) \in Nat /\ h \in Nat /\ Len(stack) <= h + 1 /\ Len(stack) = h + 1
    BY <1>1, HeightOf
  <1>3. Continue(<<>>) => Return
    BY <1>1 DEF Continue, Return, StackSeq, Rest
  <1>4. \/ Keep(h) /\ Len(stack') = h
        \/ Keep(h) /\ Len(stack') = h + 1 /\ Pile'[h] = f
    <2>1. CASE Return
      BY <1>1, <2>1, ReturnOne
    <2>2. CASE Continue(<<f>>)
      <3>1. Keep(h) /\ Len(stack') = Len(stack) /\ Pile'[h] = f
        BY <1>1, <2>2, ContinueOne
      <3> QED
        BY <1>2, <3>1
    <2> QED
      BY <1>3, <2>1, <2>2 DEF ByHiredis, redisAsyncDisconnect
  <1>5. f.op \in HiredisOps
    BY DEF F, HiredisOps
  <1> HIDE DEF h, f
  <1>6. \A d \in h .. Len(stack') - 1 : Pile'[d].op \in HiredisOps
    BY <1>2, <1>4, <1>5
  <1>7. CallbackPart'
    BY <1>1, <1>2, <1>4, CallbackKept
    DEF FlowInv, HiredisOps, ByHiredis, redisAsyncDisconnect
  <1> QED
    BY <1>1, <1>2, <1>4, <1>6, <1>7, HiredisFlow DEF ByHiredis

LEMMA ReplyFrameCalm ==
  ASSUME IndInv, NEW k \in ConnIds, NEW r, replies[k] # <<>>
  PROVE  ReplyFrame(k, r).op \in CalmOps
  <1>1. Head(replies[k]) \in Entries
    BY TailType DEF IndInv, QueuePart
  <1> QED
    BY <1>1 DEF Entries, ReplyFrame, F, CalmOps

LEMMA FreeContextFlow == ASSUME IndInv, FlowInv, ByHiredis(FreeContext) PROVE FlowInv'
  <1> DEFINE h == Len(stack) - 1
             k == Top.k
             f == ReplyFrame(k, "null")
             end == F("h_free_end", 0, k, "none")
             event == F("on_disconnected", 0, k, ctx_err[k])
  <1>1. At("h_free") /\ "h_free" \in HiredisOps
    BY DEF ByHiredis, FreeContext, HiredisOps
  <1>2. /\ StackSeq /\ stack # <<>> /\ Top.op \in HiredisOps /\ k \in ConnIds
        /\ Len(stack) \in Nat /\ h \in Nat /\ Len(stack) <= h + 1
    BY <1>1, TopHiredis
  <1>3. /\ end.op \in HiredisOps /\ end.k = k /\ event.op \in CalmOps
        /\ replies[k] # <<>> => f.op \in CalmOps
    BY <1>2, ReplyFrameCalm DEF F, HiredisOps, CalmOps
  <1>4. CASE replies[k] # <<>>
    <2>1. Continue(<<f, Top>>)
      BY <1>4 DEF ByHiredis, FreeContext
    <2> HIDE DEF f
    <2>2. Keep(h) /\ Len(stack') = Len(stack) + 1 /\ Pile'[Len(stack)] = f /\ Pile'[h] = Top
      BY <1>2, <2>1, ContinueTwo
    <2>3. Len(stack) = h + 1
      BY <1>2
    <2> HIDE DEF h
    <2>4. \A d \in h .. Len(stack') - 1 : d = h \/ d = Len(stack)
      BY <1>2, <2>2, <2>3
    <2>5. \A d \in h .. Len(stack') - 1 : Pile'[d].op \in CalmOps \cup HiredisOps
      BY <1>2, <1>3, <1>4, <2>2, <2>4
    <2>6. h \in h .. Len(stack') - 1 /\ Pile'[h].op \in HiredisOps /\ Pile'[h].k = k
      BY <1>2, <2>2, <2>3
    <2> QED
      BY <1>2, <2>2, <2>5, <2>6, HiredisMoves DEF ByHiredis, FreeContext
  <1>5. CASE replies[k] = <<>> /\ ctx_st[k] = "connected"
    <2>0. <<event>> \o <<end>> = <<event, end>>
      BY Pair
    <2>1. Continue(<<event, end>>)
      BY <1>5, <2>0 DEF ByHiredis, FreeContext
    <2> HIDE DEF event, end
    <2>2. Keep(h) /\ Len(stack') = Len(stack) + 1 /\ Pile'[Len(stack)] = event /\ Pile'[h] = end
      BY <1>2, <2>1, ContinueTwo
    <2>3. Len(stack) = h + 1
      BY <1>2
    <2> HIDE DEF h
    <2>4. \A d \in h .. Len(stack') - 1 : d = h \/ d = Len(stack)
      BY <1>2, <2>2, <2>3
    <2>5. \A d \in h .. Len(stack') - 1 : Pile'[d].op \in CalmOps \cup HiredisOps
      BY <1>3, <2>2, <2>4
    <2>6. h \in h .. Len(stack') - 1 /\ Pile'[h].op \in HiredisOps /\ Pile'[h].k = k
      BY <1>2, <1>3, <2>2, <2>3
    <2> QED
      BY <1>2, <2>2, <2>5, <2>6, HiredisMoves DEF ByHiredis, FreeContext
  <1>6. CASE replies[k] = <<>> /\ ctx_st[k] # "connected"
    <2>1. Continue(<<end>>)
      BY <1>6 DEF ByHiredis, FreeContext
    <2> HIDE DEF end
    <2>2. Keep(h) /\ Len(stack') = Len(stack) /\ Pile'[h] = end
      BY <1>2, <2>1, ContinueOne
    <2>3. Len(stack) = h + 1
      BY <1>2
    <2> HIDE DEF h
    <2>4. \A d \in h .. Len(stack') - 1 : d = h
      BY <1>2, <2>2, <2>3
    <2>5. \A d \in h .. Len(stack') - 1 : Pile'[d].op \in CalmOps \cup HiredisOps
      BY <1>3, <2>2, <2>4
    <2>6. h \in h .. Len(stack') - 1 /\ Pile'[h].op \in HiredisOps /\ Pile'[h].k = k
      BY <1>2, <1>3, <2>2, <2>3
    <2> QED
      BY <1>2, <2>2, <2>5, <2>6, HiredisMoves DEF ByHiredis, FreeContext
  <1> QED
    BY <1>4, <1>5, <1>6

\* The event loop calls hiredis, which calls back.
LEMMA EventFlow ==
  ASSUME IndInv, FlowInv, NEW k \in ConnIds, stack = <<>>, NEW f, f.op \in CalmOps,
         NEW op \in HiredisOps, Call(<<f, F(op, 0, k, "none")>>),
         in_callback' = [in_callback EXCEPT ![k] = TRUE], UNCHANGED <<connVars, clusterVars>>
  PROVE  FlowInv'
  <1> DEFINE g == F(op, 0, k, "none")
  <1>1. StackSeq /\ Len(stack) = 0
    BY StackFrames, PileFrames
  <1>2. g.op \in HiredisOps /\ g.k = k
    BY DEF F
  <1>3. Call(<<f, g>>)
    OBVIOUS
  <1> HIDE DEF g
  <1>4. Keep(0) /\ Len(stack') = 2 /\ Pile'[1] = f /\ Pile'[0] = g
    BY <1>1, <1>3, CallTwo
  <1>5. \A d \in 0 .. Len(stack') - 1 : d = 0 \/ d = 1
    BY <1>4
  <1>6. \A d \in 0 .. Len(stack') - 1 : Pile'[d].op \in CalmOps \cup HiredisOps
    BY <1>2, <1>4, <1>5
  <1>7. 0 \in 0 .. Len(stack') - 1 /\ Pile'[0].op \in HiredisOps /\ Pile'[0].k = k
    BY <1>2, <1>4
  <1>8. Len(stack) <= 0 + 1
    BY <1>1
  <1> QED
    BY <1>1, <1>4, <1>6, <1>7, <1>8, HiredisMoves

LEMMA NetworkFlow == ASSUME IndInv, FlowInv, NetworkStep PROVE FlowInv'
  <1> SUFFICES ASSUME NEW k \in ConnIds,
                      \/ ByHiredis(ConnectDone(k)) \/ ByHiredis(ConnectFailed(k))
                      \/ \E r : ByHiredis(ReplyArrives(k, r))
                      \/ \E e : ByHiredis(ConnectionLost(k, e))
               PROVE  FlowInv'
    BY DEF NetworkStep, Reply
  <1>1. CASE ByHiredis(ConnectDone(k))
    <2>1. F("on_connected", 0, k, "OK").op \in CalmOps /\ "h_connect_end" \in HiredisOps
      BY DEF F, CalmOps, HiredisOps
    <2> QED
      BY <1>1, <2>1, EventFlow DEF ByHiredis, ConnectDone, InLoop
  <1>2. CASE ByHiredis(ConnectFailed(k))
    <2>1. F("on_connected", 0, k, "IO").op \in CalmOps /\ "h_connect_failed" \in HiredisOps
      BY DEF F, CalmOps, HiredisOps
    <2> QED
      BY <1>2, <2>1, EventFlow DEF ByHiredis, ConnectFailed, InLoop
  <1>3. ASSUME NEW r, ByHiredis(ReplyArrives(k, r)) PROVE FlowInv'
    <2>1. ReplyFrame(k, r).op \in CalmOps /\ "h_reply_end" \in HiredisOps
      BY <1>3, ReplyFrameCalm DEF ByHiredis, ReplyArrives, HiredisOps
    <2> QED
      BY <1>3, <2>1, EventFlow DEF ByHiredis, ReplyArrives, InLoop
  <1>4. ASSUME NEW e, ByHiredis(ConnectionLost(k, e)) PROVE FlowInv'
    <2> DEFINE f == F("h_free", 0, k, "none")
    <2>1. StackSeq /\ Len(stack) = 0 /\ Call(<<f>>)
      BY <1>4, StackFrames, PileFrames DEF ByHiredis, ConnectionLost, InLoop
    <2>2. f.op \in HiredisOps
      BY DEF F, HiredisOps
    <2> HIDE DEF f
    <2>3. Keep(0) /\ Len(stack') = 1 /\ Pile'[0] = f
      BY <2>1, CallOne
    <2>4. \A d \in 0 .. Len(stack') - 1 : d = 0
      BY <2>3
    <2>5. \A d \in 0 .. Len(stack') - 1 : Pile'[d].op \in HiredisOps
      BY <2>2, <2>3, <2>4
    <2>6. Len(stack) <= 0 + 1
      BY <2>1
    <2>7. CallbackPart'
      BY <1>4, <2>1, <2>3, <2>6, CallbackKept DEF FlowInv, ByHiredis, ConnectionLost
    <2> QED
      BY <1>4, <2>1, <2>3, <2>5, <2>6, <2>7, HiredisFlow DEF ByHiredis
  <1> QED
    BY <1>1, <1>2, <1>3, <1>4

-----------------------------------------------------------------------------
(* Steps that change a connection                                          *)

\* A calm step that makes or establishes a connection.
LEMMA LinkFlow ==
  ASSUME IndInv, FlowInv, CalmStack, CalmTable, UNCHANGED in_callback,
         LinkPart', SequencePart', SameReleases
  PROVE  FlowInv'
  <1>0. StackSeq
    BY StackFrames
  <1>a. PICK h \in Nat : CalmAbove(h)
    BY <1>0, CalmKeeps
  <1>1. /\ Keep(h) /\ Len(stack) <= h + 1
        /\ Len(stack) # h => Top.op \in CalmOps
        /\ \A d \in h .. Len(stack') - 1 : Pile'[d].op \in CalmOps
    BY <1>a DEF CalmAbove
  <1>2. Len(stack) # h => Top.op \notin ReleaseOps \cup HiredisOps \cup {"run_pending"}
    BY <1>1 DEF CalmOps, ReleaseOps, HiredisOps
  <1>3. \A d \in h .. Len(stack') - 1 :
          Pile'[d].op \notin ReleaseOps \cup {"connection_release"} \cup ProcOps
    BY <1>1 DEF CalmOps, ReleaseOps, ProcOps
  <1>4. CallbackPart'
    BY <1>0, <1>1, <1>2, CallbackKept DEF FlowInv
  <1>5. PendingPart'
    BY <1>0, <1>1, <1>2, PendingKept DEF FlowInv, CalmTable
  <1>6. ReleasePart'
    BY <1>1, <1>2, <1>3, SameReleasesKept DEF FlowInv
  <1>7. ShapePart'
    BY <1>0, <1>1, <1>3, ShapeKept DEF FlowInv
  <1> QED
    BY <1>4, <1>5, <1>6, <1>7 DEF FlowInv

\* set_connected draws a number no timeout has noted.
LEMMA SetConnectedLinks ==
  ASSUME IndInv, FlowInv, NEW k \in ConnIds, set_connected(k), UNCHANGED <<mapVars, timer_conns>>
  PROVE  LinkPart' /\ SequencePart' /\ SameReleases
  <1> DEFINE done == conn_status_[k] = "CONNECTING" /\ context_[k]
  <1>1. /\ conn_st \in [ConnIds -> ObjectStates] /\ conn_status_ \in [ConnIds -> Statuses]
        /\ sequence_ \in [ConnIds -> Nat] /\ seq_alloc \in Nat /\ timer_conns \in Seq(Expiry)
    BY DEF IndInv, ConnPart, TimePart
  <1>2. CASE ~done
    <2>1. UNCHANGED linkVars /\ UNCHANGED <<timer_conns, notified>>
      BY <1>2 DEF set_connected, linkVars, mapVars
    <2> QED
      BY <2>1, LinksUnchanged, SequencesKept
      DEF FlowInv, FewerTimeouts, SameReleases, linkVars, ReleasePart, EndIsReported
  <1>3. CASE done
    <2>1. /\ conn_status_' = [conn_status_ EXCEPT ![k] = "CONNECTED"]
          /\ sequence_' = [sequence_ EXCEPT ![k] = seq_alloc + 1]
          /\ seq_alloc' = seq_alloc + 1
          /\ UNCHANGED <<conn_st, context_, mapVars, timer_conns>>
      BY <1>3 DEF set_connected
    <2>2. LinkPart'
      BY <1>1, <1>3, <2>1 DEF FlowInv, LinkPart, mapVars
    <2>3. \A j \in ConnIds : sequence_'[j] <= seq_alloc'
      BY <1>1, <2>1 DEF FlowInv, SequencePart
    <2>4. ASSUME NEW i \in DOMAIN timer_conns
          PROVE  /\ timer_conns[i].sequence <= seq_alloc'
                 /\ \A j \in ConnIds :
                      sequence_'[j] = timer_conns[i].sequence => conn_status_'[j] # "CONNECTED"
      <3>0. timer_conns[i] \in Expiry
        BY <1>1
      <3>1. timer_conns[i].sequence \in Nat /\ timer_conns[i].sequence <= seq_alloc
        BY <3>0 DEF Expiry, FlowInv, SequencePart
      <3>2. timer_conns[i].sequence <= seq_alloc' /\ sequence_'[k] # timer_conns[i].sequence
        BY <1>1, <2>1, <3>1
      <3>3. \A j \in ConnIds \ {k} :
              sequence_'[j] = timer_conns[i].sequence => conn_status_'[j] # "CONNECTED"
        BY <1>1, <2>1 DEF FlowInv, SequencePart
      <3> QED
        BY <3>2, <3>3
    <2>5. SequencePart'
      BY <2>1, <2>3, <2>4 DEF SequencePart
    <2>6. SameReleases
      BY <1>1, <1>3, <2>1 DEF SameReleases, FlowInv, ReleasePart, EndIsReported, mapVars
    <2> QED
      BY <2>2, <2>5, <2>6
  <1> QED
    BY <1>2, <1>3

LEMMA OnConnectedEndFlow == ASSUME IndInv, FlowInv, on_connected_end PROVE FlowInv'
  <1> DEFINE reload == <<F("reload_slots", 0, 0, "none")>>
  <1>1. At("on_connected_end") /\ "on_connected_end" \in CalmOps /\ Top.k \in ConnIds
    BY TopCalm DEF on_connected_end, CalmOps, ConnOps
  <1>2. CASE Top.a = "OK"
    <2>1. \E fs \in Seq(CalmFrames) : Continue(fs)
      BY <1>2, CalmLoopFrames, EmptyType DEF on_connected_end
    <2>2. CalmStack
      BY <1>1, <2>1, CalmContinue
    <2>3. LinkPart' /\ SequencePart' /\ SameReleases
      BY <1>1, <1>2, SetConnectedLinks DEF on_connected_end, clusterVars, timerVars
    <2> QED
      BY <2>2, <2>3, LinkFlow
      DEF on_connected_end, CalmTable, clusterVars, tableVars, hiredisVars
  <1>3. CASE Top.a # "OK"
    <2>1. <<F("release_connection", 0, Top.k, "keep")>> \o reload \in Seq(CalmFrames)
      BY <1>1, CalmConnFrames, CalmLoopFrames, ConcatType
    <2>2. CalmStack
      BY <1>1, <1>3, <2>1, CalmContinue DEF on_connected_end
    <2> QED
      BY <1>3, <2>2, QuietFlow
      DEF on_connected_end, CalmTable, hiredisVars, connVars, clusterVars, tableVars, mapVars,
          timerVars
  <1> QED
    BY <1>2, <1>3

\* What a step of a release leaves alone.
LEMMA ReleaseOthers ==
  ASSUME IndInv, FlowInv, NEW h, Keep(h), Len(stack) <= h + 1,
         Len(stack) # h => Top.op \in CalmOps \cup ReleaseOps \cup {"connection_release"},
         \A d \in h .. Len(stack') - 1 :
           Pile'[d].op \in CalmOps \cup ReleaseOps \cup {"connection_release"},
         UNCHANGED <<in_callback, slot_flag_, slot_pending_>>
  PROVE  ShapePart' /\ CallbackPart' /\ PendingPart'
  <1>0. StackSeq
    BY StackFrames
  <1>1. Len(stack) # h => Top.op \notin HiredisOps \cup {"run_pending"}
    BY DEF CalmOps, ReleaseOps, HiredisOps
  <1>2. \A d \in h .. Len(stack') - 1 : Pile'[d].op \notin ProcOps
    BY DEF CalmOps, ReleaseOps, ProcOps
  <1>3. ShapePart'
    BY <1>0, <1>2, ShapeKept DEF FlowInv
  <1>4. CallbackPart'
    BY <1>0, <1>1, CallbackKept DEF FlowInv
  <1>5. PendingPart'
    BY <1>0, <1>1, PendingKept DEF FlowInv
  <1> QED
    BY <1>3, <1>4, <1>5

\* release_connection begins to release connection k: it has its status no more.
LEMMA ReleaseBegins ==
  ASSUME IndInv, FlowInv, NEW k \in ConnIds, conn_status_[k] # "DISCONNECTED", set_disconnected(k),
         NEW h, Keep(h), Len(stack) <= h + 1, Len(stack) # h => Top.op \in CalmOps,
         h \in h .. Len(stack') - 1, Pile'[h].op = "release_event", Pile'[h].k = k,
         \A d \in h .. Len(stack') - 1 :
           \/ d = h
           \/ Pile'[d].op \in CalmOps
           \/ Pile'[d].op = "connection_release" /\ Pile'[d].k = k,
         UNCHANGED <<hiredisVars, clusterVars>>
  PROVE  FlowInv'
  <1>0. StackSeq
    BY StackFrames
  <1>1. /\ conn_status_ \in [ConnIds -> Statuses]
        /\ conn_status_' = [conn_status_ EXCEPT ![k] = "DISCONNECTED"]
        /\ UNCHANGED <<conn_st, context_, sequence_, seq_alloc, connections_, server_of, nconn,
                       notified, timer_conns>>
    BY DEF IndInv, ConnPart, set_disconnected, clusterVars, mapVars, timerVars
  <1>2. /\ conn_status_'[k] = "DISCONNECTED"
        /\ \A j \in ConnIds : conn_status_'[j] = "DISCONNECTED" \/ conn_status_'[j] = conn_status_[j]
        /\ \A j \in ConnIds : conn_status_[j] = "DISCONNECTED" => conn_status_'[j] = "DISCONNECTED"
        /\ \A j \in ConnIds \ {k} : conn_status_'[j] = conn_status_[j]
    BY <1>1
  <1>3. conn_st[k] = "live"
    BY DEF FlowInv, LinkPart
  <1>4. LinkPart' /\ SequencePart'
    BY <1>1, <1>2 DEF FlowInv, LinkPart, SequencePart
  <1>5. /\ \A d \in Heights' : \/ d \in Heights /\ Pile'[d] = Pile[d]
                               \/ d \in h .. Len(stack') - 1
        /\ \A d \in Heights : Pile[d].op \in ReleaseOps => d \in Heights' /\ Pile'[d] = Pile[d]
        /\ h \in Heights'
    <2>1. \A op \in CalmOps : op \notin ReleaseOps
      BY DEF CalmOps, ReleaseOps
    <2> QED
      BY <1>0, <2>1, KeptFrames
  <1>6. \A d \in Heights : ~Releases(d, k)
    BY DEF Releases, FlowInv, ReleasePart
  <1>7. \A d \in Heights' : Pile'[d].op \in ReleaseOps =>
          d = h \/ (d \in Heights /\ Pile'[d] = Pile[d] /\ Pile[d].k # k)
    <2>1. \A op \in CalmOps \cup {"connection_release"} : op \notin ReleaseOps
      BY DEF CalmOps, ReleaseOps
    <2> QED
      BY <1>5, <1>6, <2>1 DEF Releases
  <1>8. \A j \in ConnIds : conn_st'[j] = "live" /\ conn_status_'[j] = "DISCONNECTED" =>
          \E d \in Heights' : Releases(d, j)'
    <2> SUFFICES ASSUME NEW j \in ConnIds, conn_st'[j] = "live",
                        conn_status_'[j] = "DISCONNECTED"
                 PROVE  \E d \in Heights' : Releases(d, j)'
      OBVIOUS
    <2>1. CASE j = k
      BY <1>5, <2>1 DEF Releases, ReleaseOps
    <2>2. CASE j # k
      <3>1. PICK d \in Heights : Releases(d, j)
        BY <1>1, <1>2, <2>2 DEF FlowInv, ReleasePart
      <3> QED
        BY <1>5, <3>1 DEF Releases
    <2> QED
      BY <2>1, <2>2
  <1>9. \A j \in ConnIds : \A d, e \in Heights' : Releases(d, j)' /\ Releases(e, j)' => d = e
    <2>1. \A j \in ConnIds : \A d, e \in Heights : Releases(d, j) /\ Releases(e, j) => d = e
      BY DEF FlowInv, ReleasePart
    <2> QED
      BY <1>7, <2>1 DEF Releases
  <1>10. ASSUME NEW d \in Heights'
         PROVE  /\ Pile'[d].op \in ReleaseOps =>
                     conn_st'[Pile'[d].k] = "live" /\ conn_status_'[Pile'[d].k] = "DISCONNECTED"
                /\ Pile'[d].op = "connection_release" =>
                     conn_st'[Pile'[d].k] # "none" /\ conn_status_'[Pile'[d].k] = "DISCONNECTED"
                /\ Pile'[d].op = "release_end" =>
                     notified'[Pile'[d].k] \cap {"failed", "disconnected"} # {}
    <2>1. CASE d \in Heights /\ Pile'[d] = Pile[d]
      <3>1. CASE Pile[d].op \in ReleaseOps \cup {"connection_release"}
        <4>1. Pile[d].k \in ConnIds
          BY <2>1, <3>1, ReleaseFrameConn
        <4> QED
          BY <1>1, <1>2, <2>1, <4>1 DEF FlowInv, ReleasePart
      <3>2. CASE Pile[d].op \notin ReleaseOps \cup {"connection_release"}
        BY <2>1, <3>2 DEF ReleaseOps
      <3> QED
        BY <3>1, <3>2
    <2>2. CASE d \in h .. Len(stack') - 1
      <3>1. \A op \in CalmOps : op \notin ReleaseOps \cup {"connection_release", "release_end"}
        BY DEF CalmOps, ReleaseOps
      <3> QED
        BY <1>1, <1>2, <1>3, <2>2, <3>1
    <2> QED
      BY <1>5, <2>1, <2>2
  <1>11. ReleasePart'
    BY <1>1, <1>8, <1>9, <1>10 DEF ReleasePart, FlowInv, EndIsReported
  <1>12. ShapePart' /\ CallbackPart' /\ PendingPart'
    <2>1. \A d \in h .. Len(stack') - 1 :
            Pile'[d].op \in CalmOps \cup ReleaseOps \cup {"connection_release"}
      BY DEF ReleaseOps
    <2> QED
      BY <2>1, ReleaseOthers DEF hiredisVars, clusterVars, tableVars
  <1> QED
    BY <1>4, <1>11, <1>12 DEF FlowInv

LEMMA ReleaseConnectionFlow == ASSUME IndInv, FlowInv, release_connection PROVE FlowInv'
  <1> DEFINE k == Top.k
             h == Len(stack) - 1
             close == F("redisAsyncDisconnect", 0, k, "none")
             drop == F("connection_release", 0, k, "none")
             event == F("release_event", 0, k, conn_status_[k])
  <1>1. /\ At("release_connection") /\ "release_connection" \in CalmOps /\ k \in ConnIds
        /\ stack # <<>> /\ Top.op \in CalmOps
    BY TopCalm DEF release_connection, CalmOps, ConnOps
  <1>2. CASE conn_status_[k] = "DISCONNECTED"
    <2>1. CalmStack
      BY <1>1, <1>2, CalmReturn DEF release_connection
    <2> QED
      BY <1>2, <2>1, QuietFlow
      DEF release_connection, CalmTable, hiredisVars, connVars, clusterVars, tableVars, mapVars,
          timerVars
  <1>3. CASE conn_status_[k] # "DISCONNECTED"
    <2>0. StackSeq /\ Len(stack) \in Nat /\ h \in Nat /\ Len(stack) = h + 1 /\ Len(stack) <= h + 1
      BY <1>1, StackFrames, HeightOf
    <2>1. set_disconnected(k) /\ Continue(ReleaseFrames(k, Top.a) \o <<event>>)
      BY <1>3 DEF release_connection
    <2>2. /\ <<close>> \o <<drop>> = <<close, drop>> /\ <<close, drop>> \o <<event>> = <<close, drop, event>>
          /\ <<drop>> \o <<event>> = <<drop, event>> /\ <<>> \o <<drop>> = <<drop>>
      BY Pair, Triple
    <2>3. Continue(<<close, drop, event>>) \/ Continue(<<drop, event>>)
      BY <2>1, <2>2 DEF ReleaseFrames
    <2>4. /\ close.op \in CalmOps /\ drop.op = "connection_release" /\ drop.k = k
          /\ event.op = "release_event" /\ event.k = k
      BY DEF F, CalmOps
    <2> HIDE DEF close, drop, event
    <2>5. \/ /\ Keep(h) /\ Len(stack') = h + 3
             /\ Pile'[h + 2] = close /\ Pile'[h + 1] = drop /\ Pile'[h] = event
          \/ /\ Keep(h) /\ Len(stack') = h + 2
             /\ Pile'[h + 1] = drop /\ Pile'[h] = event
      <3>1. CASE Continue(<<close, drop, event>>)
        <4>1. /\ Keep(h) /\ Len(stack') = Len(stack) + 2
              /\ Pile'[Len(stack) + 1] = close /\ Pile'[Len(stack)] = drop /\ Pile'[h] = event
          BY <1>1, <2>0, <3>1, ContinueThree
        <4>2. Len(stack) + 2 = h + 3 /\ Len(stack) + 1 = h + 2
          BY <2>0
        <4> QED
          BY <2>0, <4>1, <4>2
      <3>2. CASE Continue(<<drop, event>>)
        <4>1. /\ Keep(h) /\ Len(stack') = Len(stack) + 1
              /\ Pile'[Len(stack)] = drop /\ Pile'[h] = event
          BY <1>1, <2>0, <3>2, ContinueTwo
        <4>2. Len(stack) + 1 = h + 2
          BY <2>0
        <4> QED
          BY <2>0, <4>1, <4>2
      <3> QED
        BY <2>3, <3>1, <3>2
    <2> HIDE DEF h
    <2>6. h \in h .. Len(stack') - 1
      BY <2>0, <2>5
    <2>7. \A d \in h .. Len(stack') - 1 :
            d = h \/ d = h + 1 \/ (d = h + 2 /\ Len(stack') = h + 3)
      BY <2>0, <2>5
    <2>8. Len(stack') = h + 3 => Pile'[h + 2] = close
      BY <2>0, <2>5
    <2>9. \A d \in h .. Len(stack') - 1 :
            \/ d = h
            \/ Pile'[d].op \in CalmOps
            \/ Pile'[d].op = "connection_release" /\ Pile'[d].k = k
      BY <2>4, <2>5, <2>7, <2>8
    <2>10. Keep(h) /\ Pile'[h].op = "release_event" /\ Pile'[h].k = k
      BY <2>4, <2>5
    <2>11. UNCHANGED <<hiredisVars, clusterVars>>
      BY DEF release_connection
    <2> HIDE DEF k
    <2> QED
      BY <1>1, <1>3, <2>0, <2>1, <2>6, <2>9, <2>10, <2>11, ReleaseBegins
  <1> QED
    BY <1>2, <1>3

\* The end of the connection is reported, and its release goes on.
LEMMA ReleaseEventFlow == ASSUME IndInv, FlowInv, release_event PROVE FlowInv'
  <1> DEFINE k == Top.k
             h == Len(stack) - 1
             e == IF Top.a = "CONNECTING" THEN "failed" ELSE "disconnected"
             f == F("user", 0, k, IF Top.a = "CONNECTING" THEN "on_connected" ELSE "on_disconnected")
             g == F("release_end", 0, k, "none")
  <1>1. /\ StackSeq /\ stack # <<>> /\ Top.op = "release_event" /\ k \in ConnIds
    BY StackFrames, TopCmd DEF release_event, IndInv, ConnOps
  <1>2. /\ Len(stack) \in Nat /\ h \in Nat /\ Len(stack) = h + 1 /\ Len(stack) <= h + 1
        /\ h \in Heights /\ Pile[h] = Top
    BY <1>1, HeightOf
  <1>3. Continue(<<f, g>>) /\ Notify(k, e)
    BY DEF release_event
  <1>4. f.op = "user" /\ g.op = "release_end" /\ g.k = k /\ e \in Events
        /\ e \in {"failed", "disconnected"}
    BY DEF F, Events
  <1> HIDE DEF e, f, g
  <1>5. Keep(h) /\ Len(stack') = h + 2 /\ Pile'[h + 1] = f /\ Pile'[h] = g
    BY <1>1, <1>2, <1>3, ContinueTwo
  <1> HIDE DEF h
  <1>6. \A d \in h .. Len(stack') - 1 : d = h \/ d = h + 1
    BY <1>2, <1>5
  <1>7. \A d \in Heights' : Pile'[d].op \in ReleaseOps \cup {"connection_release"} =>
          d \in Heights /\ (Pile'[d] = Pile[d] \/ d = h)
    <2>1. Pile'[h + 1].op \notin ReleaseOps \cup {"connection_release"}
      BY <1>4, <1>5 DEF ReleaseOps
    <2> QED
      BY <1>1, <1>2, <1>5, <1>6, <2>1, KeptFrames
  <1>8. \A d \in Heights : d \in Heights' /\ (Pile'[d] = Pile[d] \/ d = h)
    BY <1>1, <1>2, <1>5, KeptFrames DEF Heights
  <1>9. Pile[h].op = "release_event" /\ Pile[h].k = k /\ Pile'[h].op = "release_end" /\ Pile'[h].k = k
    BY <1>1, <1>2, <1>4, <1>5
  <1>10. /\ notified'[k] \cap {"failed", "disconnected"} # {}
         /\ \A j \in ConnIds : notified[j] \subseteq notified'[j]
    BY <1>1, <1>3, <1>4 DEF Notify, IndInv, MapPart
  <1>11. /\ \A d \in Heights' : \A j : Releases(d, j)' => d \in Heights /\ Releases(d, j)
         /\ \A d \in Heights : \A j : Releases(d, j) => d \in Heights' /\ Releases(d, j)'
    BY <1>7, <1>8, <1>9 DEF Releases, ReleaseOps
  <1>12. UNCHANGED <<conn_st, context_, conn_status_, sequence_, seq_alloc, connections_, server_of,
                     nconn, timer_conns, in_callback, slot_flag_, slot_pending_>>
    BY DEF release_event, connVars, timerVars, hiredisVars, tableVars
  <1>13. ASSUME NEW d \in Heights'
         PROVE  /\ Pile'[d].op \in ReleaseOps =>
                     conn_st'[Pile'[d].k] = "live" /\ conn_status_'[Pile'[d].k] = "DISCONNECTED"
                /\ Pile'[d].op = "connection_release" =>
                     conn_st'[Pile'[d].k] # "none" /\ conn_status_'[Pile'[d].k] = "DISCONNECTED"
                /\ Pile'[d].op = "release_end" =>
                     notified'[Pile'[d].k] \cap {"failed", "disconnected"} # {}
    <2>1. CASE Pile'[d].op \notin ReleaseOps \cup {"connection_release"}
      BY <2>1 DEF ReleaseOps
    <2>2. CASE d = h
      BY <1>2, <1>9, <1>10, <1>12, <2>2 DEF FlowInv, ReleasePart, ReleaseOps
    <2>3. CASE Pile'[d].op \in ReleaseOps \cup {"connection_release"} /\ d # h
      <3>1. d \in Heights /\ Pile'[d] = Pile[d]
        BY <1>7, <2>3
      <3>2. Pile[d].k \in ConnIds
        BY <2>3, <3>1, ReleaseFrameConn
      <3>3. notified[Pile[d].k] \subseteq notified'[Pile[d].k]
        BY <1>10, <3>2
      <3> QED
        BY <1>12, <3>1, <3>3 DEF FlowInv, ReleasePart
    <2> QED
      BY <2>1, <2>2, <2>3
  <1>14. ReleasePart'
    <2>1. \A j \in ConnIds : conn_st'[j] = "live" /\ conn_status_'[j] = "DISCONNECTED" =>
            \E d \in Heights' : Releases(d, j)'
      BY <1>11, <1>12 DEF FlowInv, ReleasePart
    <2>2. \A j \in ConnIds : \A d, d2 \in Heights' : Releases(d, j)' /\ Releases(d2, j)' => d = d2
      BY <1>11 DEF FlowInv, ReleasePart
    <2>3. EndIsReported'
      BY <1>10, <1>12 DEF FlowInv, ReleasePart, EndIsReported
    <2> QED
      BY <1>13, <2>1, <2>2, <2>3 DEF ReleasePart
  <1>15. LinkPart' /\ SequencePart'
    BY <1>12, LinksUnchanged, SequencesKept DEF FlowInv, linkVars, FewerTimeouts
  <1>16. ShapePart' /\ CallbackPart' /\ PendingPart'
    <2>1. \A d \in h .. Len(stack') - 1 :
            Pile'[d].op \in CalmOps \cup ReleaseOps \cup {"connection_release"}
      BY <1>4, <1>5, <1>6 DEF CalmOps, ReleaseOps
    <2>2. Top.op \in ReleaseOps
      BY <1>1 DEF ReleaseOps
    <2> QED
      BY <1>2, <1>5, <1>12, <2>1, <2>2, ReleaseOthers
  <1> QED
    BY <1>14, <1>15, <1>16 DEF FlowInv

\* The connection is destroyed, and with it the only call that releases it ends.
LEMMA ReleaseEndFlow == ASSUME IndInv, FlowInv, release_end PROVE FlowInv'
  <1> DEFINE k == Top.k
             h == Len(stack) - 1
  <1>1. /\ StackSeq /\ stack # <<>> /\ Top.op = "release_end" /\ k \in ConnIds
    BY StackFrames, TopCmd DEF release_end, IndInv, ConnOps
  <1>2. /\ Len(stack) \in Nat /\ h \in Nat /\ Len(stack) = h + 1 /\ Len(stack) <= h + 1
        /\ h \in Heights /\ Pile[h] = Top
    BY <1>1, HeightOf
  <1>3. Keep(h) /\ Len(stack') = h
    BY <1>1, ReturnOne DEF release_end
  <1> HIDE DEF h
  <1>4. /\ \A d \in Heights' : d \in Heights /\ d # h /\ Pile'[d] = Pile[d]
        /\ \A d \in Heights : d # h => d \in Heights' /\ Pile'[d] = Pile[d]
    <2>1. \A d \in Heights' : d < h
      BY <1>2, <1>3 DEF Heights
    <2> QED
      BY <1>1, <1>2, <1>3, <2>1, KeptFrames
  <1>5. /\ Releases(h, k)
        /\ conn_st[k] = "live" /\ conn_status_[k] = "DISCONNECTED"
        /\ notified[k] \cap {"failed", "disconnected"} # {}
    BY <1>1, <1>2 DEF FlowInv, ReleasePart, Releases, ReleaseOps
  <1>6. /\ conn_st' = [conn_st EXCEPT ![k] = "freed"]
        /\ connections_' = [connections_ EXCEPT ![server_of[k]] = 0]
        /\ UNCHANGED <<context_, conn_status_, sequence_, seq_alloc, server_of, nconn, notified,
                       timer_conns, in_callback, slot_flag_, slot_pending_>>
    BY DEF release_end, timerVars, hiredisVars, tableVars
  <1>7. /\ conn_st \in [ConnIds -> ObjectStates] /\ connections_ \in [Servers -> ConnIds \cup {0}]
        /\ server_of \in [ConnIds -> Servers]
    BY DEF IndInv, ConnPart, MapPart
  <1>8. /\ conn_st'[k] = "freed" /\ \A j \in ConnIds \ {k} : conn_st'[j] = conn_st[j]
        /\ \A s \in Servers : \/ s = server_of[k] /\ connections_'[s] = 0
                              \/ s # server_of[k] /\ connections_'[s] = connections_[s]
    BY <1>1, <1>6, <1>7
  <1>9. LinkPart'
    <2>1. ASSUME NEW s \in Servers, connections_'[s] # 0
          PROVE  conn_st'[connections_'[s]] = "live" /\ server_of'[connections_'[s]] = s
      <3>1. s # server_of[k] /\ connections_'[s] = connections_[s] /\ connections_[s] \in ConnIds
        BY <1>7, <1>8, <2>1
      <3>2. conn_st[connections_[s]] = "live" /\ server_of[connections_[s]] = s
        BY <2>1, <3>1 DEF FlowInv, LinkPart
      <3> QED
        BY <1>6, <1>8, <3>1, <3>2
    <2>2. ASSUME NEW j \in ConnIds
          PROVE  /\ conn_st'[j] = "live" => connections_'[server_of'[j]] = j
                 /\ j > nconn' <=> conn_st'[j] = "none"
                 /\ conn_status_'[j] # "DISCONNECTED" => conn_st'[j] = "live" /\ context_'[j]
      <3>1. CASE j = k
        <4>1. ~(k > nconn)
          BY <1>1, <1>5 DEF FlowInv, LinkPart
        <4> QED
          BY <1>5, <1>6, <1>8, <3>1, <4>1
      <3>2. CASE j # k
        <4>1. /\ conn_st[j] = "live" => connections_[server_of[j]] = j
              /\ conn_st[k] = "live" => connections_[server_of[k]] = k
              /\ j > nconn <=> conn_st[j] = "none"
              /\ conn_status_[j] # "DISCONNECTED" => conn_st[j] = "live" /\ context_[j]
          BY <1>1 DEF FlowInv, LinkPart
        <4>2. conn_st[j] = "live" => server_of[j] # server_of[k]
          BY <1>5, <3>2, <4>1
        <4>3. server_of[j] \in Servers
          BY <1>7
        <4> QED
          BY <1>6, <1>8, <3>2, <4>1, <4>2, <4>3
      <3> QED
        BY <3>1, <3>2
    <2> QED
      BY <2>1, <2>2 DEF LinkPart
  <1>10. SequencePart'
    BY <1>6 DEF FlowInv, SequencePart
  <1>11. \A d \in Heights : Releases(d, k) => d = h
    BY <1>1, <1>2, <1>5 DEF FlowInv, ReleasePart
  <1>12. ReleasePart'
    <2>1. \A j \in ConnIds : conn_st'[j] = "live" /\ conn_status_'[j] = "DISCONNECTED" =>
            \E d \in Heights' : Releases(d, j)'
      <3> SUFFICES ASSUME NEW j \in ConnIds, conn_st'[j] = "live",
                          conn_status_'[j] = "DISCONNECTED"
                   PROVE  \E d \in Heights' : Releases(d, j)'
        OBVIOUS
      <3>1. j # k /\ conn_st[j] = "live" /\ conn_status_[j] = "DISCONNECTED"
        BY <1>6, <1>8
      <3>2. PICK d \in Heights : Releases(d, j)
        BY <3>1 DEF FlowInv, ReleasePart
      <3>3. d # h
        BY <1>5, <3>1, <3>2 DEF Releases
      <3> QED
        BY <1>4, <3>2, <3>3 DEF Releases
    <2>2. \A j \in ConnIds : \A d, e \in Heights' : Releases(d, j)' /\ Releases(e, j)' => d = e
      BY <1>4 DEF FlowInv, ReleasePart, Releases
    <2>3. ASSUME NEW d \in Heights'
          PROVE  /\ Pile'[d].op \in ReleaseOps =>
                      conn_st'[Pile'[d].k] = "live" /\ conn_status_'[Pile'[d].k] = "DISCONNECTED"
                 /\ Pile'[d].op = "connection_release" =>
                      conn_st'[Pile'[d].k] # "none" /\ conn_status_'[Pile'[d].k] = "DISCONNECTED"
                 /\ Pile'[d].op = "release_end" =>
                      notified'[Pile'[d].k] \cap {"failed", "disconnected"} # {}
      <3>1. d \in Heights /\ d # h /\ Pile'[d] = Pile[d]
        BY <1>4
      <3>2. CASE Pile[d].op \notin ReleaseOps \cup {"connection_release"}
        BY <3>1, <3>2 DEF ReleaseOps
      <3>3. CASE Pile[d].op \in ReleaseOps \cup {"connection_release"}
        <4>1. Pile[d].k \in ConnIds
          BY <3>1, <3>3, ReleaseFrameConn
        <4>2. Pile[d].op \in ReleaseOps => Pile[d].k # k
          BY <1>11, <3>1 DEF Releases
        <4>3. /\ Pile[d].op \in ReleaseOps =>
                   conn_st[Pile[d].k] = "live" /\ conn_status_[Pile[d].k] = "DISCONNECTED"
              /\ Pile[d].op = "connection_release" =>
                   conn_st[Pile[d].k] # "none" /\ conn_status_[Pile[d].k] = "DISCONNECTED"
              /\ Pile[d].op = "release_end" =>
                   notified[Pile[d].k] \cap {"failed", "disconnected"} # {}
          BY <3>1 DEF FlowInv, ReleasePart
        <4>4. Pile[d].k = k \/ conn_st'[Pile[d].k] = conn_st[Pile[d].k]
          BY <1>8, <4>1
        <4> QED
          BY <1>6, <1>8, <3>1, <4>2, <4>3, <4>4
      <3> QED
        BY <3>2, <3>3
    <2>4. EndIsReported'
      BY <1>5, <1>6, <1>8 DEF FlowInv, ReleasePart, EndIsReported
    <2> QED
      BY <2>1, <2>2, <2>3, <2>4 DEF ReleasePart
  <1>13. ShapePart' /\ CallbackPart' /\ PendingPart'
    <2>1. \A d \in h .. Len(stack') - 1 : FALSE
      BY <1>2, <1>3
    <2>2. Top.op \in ReleaseOps
      BY <1>1 DEF ReleaseOps
    <2> QED
      BY <1>2, <1>3, <1>6, <2>1, <2>2, ReleaseOthers
  <1> QED
    BY <1>9, <1>10, <1>12, <1>13 DEF FlowInv

\* The commands of the connection fail one by one; then its context is dropped.
LEMMA ConnectionReleaseFlow == ASSUME IndInv, FlowInv, ConnectionRelease PROVE FlowInv'
  <1> DEFINE k == Top.k
  <1>1. /\ StackSeq /\ stack # <<>> /\ Top.op = "connection_release" /\ k \in ConnIds
    BY StackFrames, TopCmd DEF ConnectionRelease, connection_release, IndInv, ConnOps
  <1>2. CASE reply_list_[k] # <<>>
    <2> DEFINE c == Head(reply_list_[k])
               f == F("destroy", c, 0, "none")
               h == Len(stack)
    <2>1. Continue(CallbackFrames(c, "null") \o <<f, Top>>)
      BY <1>2 DEF ConnectionRelease, connection_release, CallBack
    <2>2. f.op \in CalmOps /\ \A x \in CallbackFrame(c, "null") : x.op \in CalmOps
      BY DEF F, CalmOps, CallbackFrame
    <2> HIDE DEF c, f
    <2>3. /\ Keep(h) /\ Pile'[h] = f
          /\ \/ Len(stack') = h + 1
             \/ Len(stack') = h + 2 /\ Pile'[h + 1] \in CallbackFrame(c, "null")
      BY <1>1, <2>1, CallbackLoop
    <2>4. h \in Nat /\ Len(stack) <= h + 1 /\ h = Len(stack)
      BY <1>1, PileFrames
    <2> HIDE DEF h
    <2>5. \A d \in h .. Len(stack') - 1 : d = h \/ (d = h + 1 /\ Len(stack') # h + 1)
      BY <2>3, <2>4
    <2>6. \A d \in h .. Len(stack') - 1 : Pile'[d].op \in CalmOps
      BY <2>2, <2>3, <2>5
    <2>7. CalmAbove(h)
      BY <2>3, <2>4, <2>6 DEF CalmAbove
    <2>8. Apart /\ CalmTable /\ UNCHANGED in_callback
      BY <1>2 DEF ConnectionRelease, connection_release, Apart, linkVars, FewerTimeouts,
         clusterVars, mapVars, timerVars, tableVars, CalmTable, hiredisVars
    <2>9. CallbackPart' /\ PendingPart'
      BY <1>1, <2>3, <2>4, <2>8, CallbackKept, PendingKept DEF FlowInv, CalmTable
    <2> QED
      BY <2>3, <2>4, <2>6, <2>8, <2>9, MoveFlow
  <1>3. CASE reply_list_[k] = <<>>
    <2> DEFINE h == Len(stack) - 1
    <2>1. /\ Len(stack) \in Nat /\ h \in Nat /\ Len(stack) = h + 1 /\ Len(stack) <= h + 1
          /\ h \in Heights /\ Pile[h] = Top
      BY <1>1, HeightOf
    <2>2. Keep(h) /\ Len(stack') = h
      BY <1>1, <1>3, ReturnOne DEF ConnectionRelease, connection_release
    <2> HIDE DEF h
    <2>3. \A d \in h .. Len(stack') - 1 : FALSE
      BY <2>1, <2>2
    <2>4. conn_status_[k] = "DISCONNECTED"
      BY <1>1, <2>1 DEF FlowInv, ReleasePart
    <2>5. /\ context_' = [context_ EXCEPT ![k] = FALSE]
          /\ conn_status_' = [conn_status_ EXCEPT ![k] = "DISCONNECTED"]
          /\ sequence_' = [sequence_ EXCEPT ![k] = seq_alloc + 1]
          /\ seq_alloc' = seq_alloc + 1
          /\ UNCHANGED <<conn_st, connections_, server_of, nconn, notified, timer_conns,
                         in_callback, slot_flag_, slot_pending_>>
      BY <1>3 DEF ConnectionRelease, connection_release, clusterVars, mapVars, timerVars,
         tableVars, hiredisVars
    <2>6. /\ conn_status_ \in [ConnIds -> Statuses] /\ context_ \in [ConnIds -> BOOLEAN]
          /\ sequence_ \in [ConnIds -> Nat] /\ seq_alloc \in Nat /\ timer_conns \in Seq(Expiry)
      BY DEF IndInv, ConnPart, TimePart
    <2>7. conn_status_' = conn_status_
      BY <1>1, <2>4, <2>5, <2>6
    <2>8. LinkPart'
      BY <2>4, <2>5, <2>6, <2>7 DEF FlowInv, LinkPart
    <2>9. SequencePart'
      <3>1. \A j \in ConnIds : sequence_'[j] <= seq_alloc'
        BY <1>1, <2>5, <2>6 DEF FlowInv, SequencePart
      <3>2. ASSUME NEW i \in DOMAIN timer_conns
            PROVE  /\ timer_conns[i].sequence <= seq_alloc'
                   /\ \A j \in ConnIds :
                        sequence_'[j] = timer_conns[i].sequence => conn_status_'[j] # "CONNECTED"
        <4>0. timer_conns[i] \in Expiry
          BY <2>6
        <4>1. timer_conns[i].sequence \in Nat /\ timer_conns[i].sequence <= seq_alloc
          BY <4>0 DEF Expiry, FlowInv, SequencePart
        <4>2. timer_conns[i].sequence <= seq_alloc'
          BY <2>5, <2>6, <4>1
        <4>3. \A j \in ConnIds \ {k} :
                sequence_'[j] = timer_conns[i].sequence => conn_status_'[j] # "CONNECTED"
          BY <2>5, <2>6, <2>7 DEF FlowInv, SequencePart
        <4>4. conn_status_'[k] # "CONNECTED"
          BY <2>4, <2>7
        <4> QED
          BY <4>2, <4>3, <4>4
      <3> QED
        BY <2>5, <3>1, <3>2 DEF SequencePart
    <2>10. ReleasePart'
      <3>1. Top.op \notin ReleaseOps
        BY <1>1 DEF ReleaseOps
      <3> QED
        BY <2>1, <2>2, <2>3, <2>5, <2>7, <3>1, ReleaseKept DEF FlowInv
    <2>11. ShapePart' /\ CallbackPart' /\ PendingPart'
      BY <1>1, <2>1, <2>2, <2>3, <2>5, ReleaseOthers
    <2> QED
      BY <2>8, <2>9, <2>10, <2>11 DEF FlowInv
  <1> QED
    BY <1>2, <1>3

\* make_connection: a new connection in the map, with a number only its own
\* timeout notes.
LEMMA MakeConnectionLinks ==
  ASSUME IndInv, FlowInv, NEW k, k = nconn + 1, nconn < MaxConns, NEW s \in Servers,
         connections_[s] = 0, make_connection(k, s),
         \A j \in ConnIds : notified[j] \subseteq notified'[j]
  PROVE  LinkPart' /\ SequencePart' /\ SameReleases
  <1>1. k \in ConnIds /\ nconn \in Nat /\ ConnIds \subseteq Nat
    BY BoundsAssumption DEF IndInv, MapPart, ConnIds, BoundsAssumption
  <1>2. /\ conn_st \in [ConnIds -> ObjectStates] /\ conn_status_ \in [ConnIds -> Statuses]
        /\ context_ \in [ConnIds -> BOOLEAN]
        /\ sequence_ \in [ConnIds -> Nat] /\ seq_alloc \in Nat /\ timer_conns \in Seq(Expiry)
        /\ connections_ \in [Servers -> ConnIds \cup {0}] /\ server_of \in [ConnIds -> Servers]
    BY DEF IndInv, ConnPart, TimePart, MapPart
  <1>3. /\ conn_st' = [conn_st EXCEPT ![k] = "live"]
        /\ context_' = [context_ EXCEPT ![k] = TRUE]
        /\ conn_status_' = [conn_status_ EXCEPT ![k] = "CONNECTING"]
        /\ sequence_' = [sequence_ EXCEPT ![k] = seq_alloc + 2]
        /\ seq_alloc' = seq_alloc + 2
        /\ connections_' = [connections_ EXCEPT ![s] = k]
        /\ server_of' = [server_of EXCEPT ![k] = s]
        /\ nconn' = k
    BY DEF make_connection, set_connecting
  <1>4. /\ conn_st'[k] = "live" /\ context_'[k] /\ conn_status_'[k] = "CONNECTING"
        /\ server_of'[k] = s /\ connections_'[s] = k
        /\ \A j \in ConnIds \ {k} :
             /\ conn_st'[j] = conn_st[j] /\ context_'[j] = context_[j]
             /\ conn_status_'[j] = conn_status_[j] /\ server_of'[j] = server_of[j]
        /\ \A t \in Servers \ {s} : connections_'[t] = connections_[t]
    BY <1>1, <1>2, <1>3
  <1>5. conn_st[k] = "none"
    <2>1. k > nconn
      BY <1>1
    <2> QED
      BY <1>1, <2>1 DEF FlowInv, LinkPart
  <1>6. LinkPart'
    <2>1. ASSUME NEW t \in Servers, connections_'[t] # 0
          PROVE  conn_st'[connections_'[t]] = "live" /\ server_of'[connections_'[t]] = t
      <3>1. CASE t = s
        BY <1>4, <3>1
      <3>2. CASE t # s
        <4>1. connections_'[t] = connections_[t] /\ connections_[t] \in ConnIds
          BY <1>2, <1>4, <2>1, <3>2
        <4>2. conn_st[connections_[t]] = "live" /\ server_of[connections_[t]] = t
          BY <2>1, <4>1 DEF FlowInv, LinkPart
        <4>3. connections_[t] # k
          BY <1>5, <4>2
        <4> QED
          BY <1>4, <4>1, <4>2, <4>3
      <3> QED
        BY <3>1, <3>2
    <2>2. ASSUME NEW j \in ConnIds
          PROVE  /\ conn_st'[j] = "live" => connections_'[server_of'[j]] = j
                 /\ j > nconn' <=> conn_st'[j] = "none"
                 /\ conn_status_'[j] # "DISCONNECTED" => conn_st'[j] = "live" /\ context_'[j]
      <3>1. CASE j = k
        <4>1. ~(k > nconn')
          BY <1>1, <1>3
        <4> QED
          BY <1>4, <3>1, <4>1
      <3>2. CASE j # k
        <4>1. /\ conn_st[j] = "live" => connections_[server_of[j]] = j
              /\ j > nconn <=> conn_st[j] = "none"
              /\ conn_status_[j] # "DISCONNECTED" => conn_st[j] = "live" /\ context_[j]
          BY DEF FlowInv, LinkPart
        <4>2. j > nconn' <=> j > nconn
          <5>1. j \in Nat /\ k = nconn + 1 /\ nconn' = k
            BY <1>1, <1>3
          <5> QED
            BY <1>1, <3>2, <5>1
        <4>3. j # 0
          BY <1>1, BoundsAssumption DEF ConnIds, BoundsAssumption
        <4>4. conn_st[j] = "live" => server_of[j] # s
          BY <4>1, <4>3
        <4>5. server_of[j] \in Servers
          BY <1>2
        <4> QED
          BY <1>4, <3>2, <4>1, <4>2, <4>4, <4>5
      <3> QED
        BY <3>1, <3>2
    <2> QED
      BY <2>1, <2>2 DEF LinkPart
  <1>7. SequencePart'
    <2> DEFINE e == [server |-> s, sequence |-> seq_alloc + 2, timeout |-> last_update + ConnTimeout]
    <2>1. \/ timer_conns' = timer_conns
          \/ timer_conns' = Append(timer_conns, e)
      BY DEF make_connection
    <2>2. e.sequence = seq_alloc + 2
      OBVIOUS
    <2> HIDE DEF e
    <2>3. \A i \in DOMAIN timer_conns' :
            \/ i \in DOMAIN timer_conns /\ timer_conns'[i] = timer_conns[i]
            \/ timer_conns'[i] = e
      <3>1. CASE timer_conns' = timer_conns
        BY <3>1
      <3>2. CASE timer_conns' = Append(timer_conns, e)
        BY <1>2, <3>2
      <3> QED
        BY <2>1, <3>1, <3>2
    <2>4. sequence_'[k] = seq_alloc + 2 /\ \A j \in ConnIds \ {k} : sequence_'[j] = sequence_[j]
      BY <1>1, <1>2, <1>3
    <2>5. \A j \in ConnIds : sequence_[j] \in Nat /\ sequence_[j] <= seq_alloc
      BY <1>2 DEF FlowInv, SequencePart
    <2>6. \A j \in ConnIds : sequence_'[j] <= seq_alloc'
      BY <1>2, <1>3, <2>4, <2>5
    <2>7. ASSUME NEW i \in DOMAIN timer_conns'
          PROVE  /\ timer_conns'[i].sequence <= seq_alloc'
                 /\ \A j \in ConnIds :
                      sequence_'[j] = timer_conns'[i].sequence => conn_status_'[j] # "CONNECTED"
      <3>1. CASE timer_conns'[i] = e
        <4>1. timer_conns'[i].sequence <= seq_alloc'
          BY <1>2, <1>3, <2>2, <3>1
        <4>2. \A j \in ConnIds \ {k} : sequence_'[j] # seq_alloc + 2
          BY <1>2, <2>4, <2>5
        <4> QED
          BY <1>4, <2>2, <3>1, <4>1, <4>2
      <3>2. CASE i \in DOMAIN timer_conns /\ timer_conns'[i] = timer_conns[i]
        <4>0. timer_conns[i] \in Expiry
          BY <1>2, <3>2
        <4>1. timer_conns[i].sequence \in Nat /\ timer_conns[i].sequence <= seq_alloc
          BY <3>2, <4>0 DEF Expiry, FlowInv, SequencePart
        <4>2. timer_conns'[i].sequence <= seq_alloc'
          BY <1>2, <1>3, <3>2, <4>1
        <4>3. \A j \in ConnIds \ {k} :
                sequence_'[j] = timer_conns[i].sequence => conn_status_'[j] # "CONNECTED"
          BY <1>4, <2>4, <3>2 DEF FlowInv, SequencePart
        <4> QED
          BY <1>4, <3>2, <4>2, <4>3
      <3> QED
        BY <2>3, <3>1, <3>2
    <2> QED
      BY <2>6, <2>7 DEF SequencePart
  <1>8. SameReleases
    <2>1. EndIsReported'
      BY <1>4 DEF FlowInv, ReleasePart, EndIsReported
    <2> QED
      BY <1>4, <1>5, <2>1 DEF SameReleases
  <1> QED
    BY <1>6, <1>7, <1>8

LEMMA MakeConnectionFlow ==
  ASSUME IndInv, FlowInv, NEW k, k = nconn + 1, nconn < MaxConns, NEW s \in Servers,
         connections_[s] = 0, make_connection(k, s), CalmStack,
         Notify(k, "on_connect") \/ UNCHANGED notified
  PROVE  FlowInv'
  <1>1. k \in ConnIds
    BY BoundsAssumption DEF IndInv, MapPart, ConnIds, BoundsAssumption
  <1>2. \A j \in ConnIds : notified[j] \subseteq notified'[j]
    BY <1>1, NotifiedMore
  <1>3. LinkPart' /\ SequencePart' /\ SameReleases
    BY <1>2, MakeConnectionLinks
  <1> QED
    BY <1>3, LinkFlow DEF make_connection, redisAsyncConnect, CalmTable, tableVars

LEMMA ConnectFramesCalm ==
  ASSUME IndInv, NEW k \in ConnIds
  PROVE  /\ ConnectFrames(k) \in Seq(CalmFrames)
         /\ <<F("destroy_cmd", AuthCmd(k), 0, "none")>> \in Seq(CalmFrames)
  <1>1. AuthCmd(k) \in CmdIds
    BY BoundsAssumption DEF AuthCmd, CmdIds, ConnIds, BoundsAssumption
  <1>2. <<F("exec_conn", AuthCmd(k), k, "none")>> \in Seq(CalmFrames)
    BY <1>1, CalmReplyFrames DEF Args
  <1>3. <<F("user", 0, k, "on_connect")>> \in Seq(CalmFrames)
    BY CalmConnFrames
  <1>4. ConnectFrames(k) \in Seq(CalmFrames)
    BY <1>2, <1>3, ConcatType, EmptyType DEF ConnectFrames
  <1> QED
    BY <1>1, <1>4, CalmCmdFrames

LEMMA WithConnectionFlow ==
  ASSUME IndInv, FlowInv, NEW op \in CalmOps, At(op), NEW s \in Servers, NEW found,
         NEW failed \in Seq(CalmFrames), \A k \in ConnIds : On(k, found) \in Seq(CalmFrames),
         WithConnection(s, found, failed)
  PROVE  FlowInv'
  <1> DEFINE k == nconn + 1
             no == <<F("destroy_cmd", AuthCmd(k), 0, "none")>>
             old == /\ connections_[s] # 0 /\ Continue(On(connections_[s], found))
                    /\ UNCHANGED <<cmdVars, hiredisVars, connVars, clusterVars>>
             made == /\ connections_[s] = 0 /\ nconn < MaxConns /\ make_connection(k, s)
                     /\ \/ Continue(ConnectFrames(k) \o On(k, found)) /\ Notify(k, "on_connect")
                        \/ Continue(no \o failed) /\ UNCHANGED notified
             refused == Continue(failed) /\ UNCHANGED <<cmdVars, hiredisVars, connVars, clusterVars>>
  <1>0. old \/ made \/ refused
    BY DEF WithConnection
  <1>1. CASE old \/ refused
    <2>1. CASE old
      <3>1. On(connections_[s], found) \in Seq(CalmFrames)
        BY <2>1 DEF IndInv, MapPart
      <3> QED
        BY <2>1, <3>1, CalmContinue, QuietFlow
        DEF CalmTable, hiredisVars, connVars, clusterVars, tableVars, mapVars, timerVars
    <2>2. CASE refused
      BY <2>2, CalmContinue, QuietFlow
      DEF CalmTable, hiredisVars, connVars, clusterVars, tableVars, mapVars, timerVars
    <2> QED
      BY <1>1, <2>1, <2>2
  <1>2. CASE made
    <2>0. k \in ConnIds
      BY <1>2, BoundsAssumption DEF IndInv, MapPart, ConnIds, BoundsAssumption
    <2>1. ConnectFrames(k) \o On(k, found) \in Seq(CalmFrames) /\ no \o failed \in Seq(CalmFrames)
      BY <2>0, ConnectFramesCalm, ConcatType
    <2> HIDE DEF no
    <2>2. CalmStack
      BY <1>2, <2>1, CalmContinue
    <2> QED
      BY <1>2, <2>2, MakeConnectionFlow
  <1> QED
    BY <1>0, <1>1, <1>2

LEMMA UserConnectFlow == ASSUME IndInv, FlowInv, NEW s \in Servers, UserConnect(s) PROVE FlowInv'
  <1> DEFINE k == nconn + 1
  <1>1. k \in ConnIds
    BY BoundsAssumption DEF UserConnect, IndInv, MapPart, ConnIds, BoundsAssumption
  <1>2. CalmStack
    BY <1>1, ConnectFramesCalm DEF UserConnect, CalmStack
  <1> QED
    BY <1>2, MakeConnectionFlow DEF UserConnect

\* The frames to go to connection k.
LEMMA OnCalm ==
  ASSUME NEW op \in CalmOps, NEW c \in CmdIds \cup {0}, NEW k \in ConnIds
  PROVE  /\ F(op, c, 0, "none").k = 0
         /\ [F(op, c, 0, "none") EXCEPT !.k = k] \in CalmFrames
  <1>1. [F(op, c, 0, "none") EXCEPT !.k = k] = F(op, c, k, "none")
    BY DEF F
  <1>2. F(op, c, k, "none") \in CalmFrames
    BY CalmFrame DEF Args
  <1>3. F(op, c, 0, "none").k = 0
    BY DEF F
  <1> QED
    BY <1>1, <1>2, <1>3

LEMMA ExecFlow == ASSUME IndInv, FlowInv, exec PROVE FlowInv'
  <1> DEFINE found == <<F("exec_conn", Top.c, 0, "none")>>
             failed == <<F("exec_failed", Top.c, 0, "none")>>
  <1>1. /\ At("exec") /\ "exec" \in CalmOps /\ "exec_conn" \in CalmOps /\ Top.c \in CmdIds
    BY TopCalm DEF exec, CalmOps, CmdOps
  <1>2. PICK r \in Slots : WithConnection(get_slot_master(slots_, slot[Top.c], r), found, failed)
    BY DEF exec
  <1>3. get_slot_master(slots_, slot[Top.c], r) \in Servers
    BY MasterType, ClusterAssumption DEF IndInv, TablePart, ClusterAssumption
  <1>4. failed \in Seq(CalmFrames)
    BY <1>1, CalmCmdFrames
  <1>5. \A k \in ConnIds : On(k, found) \in Seq(CalmFrames)
    BY <1>1, OnCalm, OnOne
  <1> HIDE DEF found, failed
  <1> QED
    BY <1>1, <1>2, <1>3, <1>4, <1>5, WithConnectionFlow

LEMMA ReloadSlotsFlow == ASSUME IndInv, FlowInv, reload_slots PROVE FlowInv'
  <1> DEFINE found == <<F("reload_exec", 0, 0, "none")>>
  <1>1. At("reload_slots") /\ "reload_slots" \in CalmOps /\ "reload_exec" \in CalmOps
    BY DEF reload_slots, CalmOps
  <1>2. CASE Return /\ UNCHANGED <<cmdVars, hiredisVars, connVars, clusterVars>>
    BY <1>1, <1>2, CalmReturn, QuietFlow
    DEF CalmTable, hiredisVars, connVars, clusterVars, tableVars, mapVars, timerVars
  <1>3. ASSUME NEW r \in Slots, WithConnection(get_slot_master(slots_, -1, r), found, <<>>)
        PROVE  FlowInv'
    <2>1. get_slot_master(slots_, -1, r) \in Servers
      BY MasterType, ClusterAssumption DEF IndInv, TablePart, ClusterAssumption
    <2>2. \A k \in ConnIds : On(k, found) \in Seq(CalmFrames)
      BY <1>1, OnCalm, OnOne
    <2>3. <<>> \in Seq(CalmFrames)
      BY EmptyType
    <2> HIDE DEF found
    <2> QED
      BY <1>1, <1>3, <2>1, <2>2, <2>3, WithConnectionFlow
  <1> QED
    BY <1>2, <1>3 DEF reload_slots

LEMMA OnReplyAskFlow == ASSUME IndInv, FlowInv, NEW s \in Servers, on_reply_ask(s) PROVE FlowInv'
  <1> DEFINE c == Top.c
             pop == F("ask_pop", c, Top.k, "none")
             ask == F("asking", c, 0, "none")
             again == F("retry", c, 0, "none")
  <1>1. /\ At("on_reply") /\ "on_reply" \in CalmOps /\ "asking" \in CalmOps
        /\ c \in CmdIds /\ Top.k \in ConnIds
    BY TopCalm DEF on_reply_ask, CalmOps, CmdOps, ConnOps
  <1>2. WithConnection(s, <<pop, ask>>, <<pop, again>>)
    BY DEF on_reply_ask
  <1>3. pop \in CalmFrames /\ again \in CalmFrames /\ pop.k \in ConnIds
    <2>1. pop \in CalmFrames /\ again \in CalmFrames
      BY <1>1, CalmFrame DEF CalmOps, Args
    <2>2. pop.k = Top.k
      BY DEF F
    <2> QED
      BY <1>1, <2>1, <2>2
  <1>4. <<pop, again>> \in Seq(CalmFrames)
    BY <1>3, TwoType
  <1>5. pop.k # 0
    BY <1>3, BoundsAssumption DEF ConnIds, BoundsAssumption
  <1>6. \A k \in ConnIds : ask.k = 0 /\ [ask EXCEPT !.k = k] \in CalmFrames
    BY <1>1, OnCalm
  <1> HIDE DEF pop, ask, again
  <1>7. \A k \in ConnIds : On(k, <<pop, ask>>) \in Seq(CalmFrames)
    BY <1>3, <1>5, <1>6, OnTwo
  <1> QED
    BY <1>1, <1>2, <1>4, <1>7, WithConnectionFlow

-----------------------------------------------------------------------------
(* The theorems                                                            *)

LEMMA SameFlow ==
  ASSUME IndInv, FlowInv, UNCHANGED <<stack, hiredisVars, connVars, clusterVars>>
  PROVE  FlowInv'
  <1>1. CalmStack
    BY DEF CalmStack
  <1> QED
    BY <1>1, QuietFlow
    DEF CalmTable, hiredisVars, connVars, clusterVars, tableVars, mapVars, timerVars

LEMMA CrashFlow == ASSUME IndInv, FlowInv, Crash PROVE FlowInv'
  <1>1. UNCHANGED <<stack, hiredisVars, connVars, clusterVars>>
    BY DEF Crash, UseAfterFree, hiredisVars, connVars
  <1> QED
    BY <1>1, SameFlow

LEMMA InitFlow == Init => FlowInv
  <1> SUFFICES ASSUME Init PROVE FlowInv
    OBVIOUS
  <1> USE DEF Init, RuntimeInit, CmdInit, HiredisInit, ConnInit
  <1>1. \A d \in Heights : FALSE
    BY DEF Heights
  <1>2. ShapePart /\ CallbackPart /\ PendingPart
    BY <1>1 DEF ShapePart, CallbackPart, PendingPart
  <1>3. LinkPart
    <2>1. \A k \in ConnIds : k > nconn /\ k # 0
      BY BoundsAssumption DEF ConnIds, BoundsAssumption
    <2> QED
      BY <2>1 DEF LinkPart
  <1>4. ReleasePart
    BY <1>1 DEF ReleasePart, EndIsReported
  <1>5. SequencePart
    BY DEF SequencePart
  <1> QED
    BY <1>2, <1>3, <1>4, <1>5 DEF FlowInv

LEMMA LibraryStepFlow == ASSUME IndInv, FlowInv, LibraryStep PROVE FlowInv'
  <1>1. CASE \/ exec_ttl \/ exec_pending \/ exec \/ exec_failed \/ exec_conn \/ exec_conn_closing
             \/ exec_conn_failed \/ retry \/ destroy_cmd \/ Destroy \/ reload_slots
             \/ reload_exec \/ reload_end \/ on_reply_update_slot \/ run_pending
             \/ on_reply_update_slot_failed
    BY <1>1, FailsFlow, ExecPendingFlow, ExecFlow, ExecConnFlow, ExecConnClosingFlow,
       ExecConnFailedFlow, RetryFlow, DestroyFlow, ReloadSlotsFlow, ReloadExecFlow,
       ReloadEndFlow, UpdateSlotFlow, RunPendingFlow, UpdateSlotFailedFlow
  <1>2. CASE \/ release_connection \/ release_event \/ release_end \/ ConnectionRelease
             \/ reset_begin \/ reset_slots \/ reset \/ proc \/ proc_conn \/ proc_clear
    BY <1>2, ReleaseConnectionFlow, ReleaseEventFlow, ReleaseEndFlow, ConnectionReleaseFlow,
       ResetBeginFlow, ResetSlotsFlow, ResetFlow, ProcFlow, ProcConnFlow, ProcClearFlow
  <1>3. CASE \/ on_reply_wrapper \/ on_reply_retry \/ on_reply_clusterdown
             \/ ask_pop \/ asking \/ on_reply_asking \/ on_connected_wrapper
             \/ on_connected_end \/ on_disconnected_wrapper \/ CallReply \/ PopReply
    BY <1>3, OnReplyFlow, AskPopFlow, AskingFlow, OnReplyAskingFlow, OnConnectedFlow,
       OnConnectedEndFlow, OnDisconnectedFlow, CallReplyFlow, PopReplyFlow
  <1>4. ASSUME NEW s \in Servers, on_reply_ask(s) \/ \E i \in Slots : on_reply_moved(i, s)
        PROVE  FlowInv'
    BY <1>4, OnReplyAskFlow, OnReplyMovedFlow
  <1>5. CASE \/ ByHiredis(redisAsyncDisconnect) \/ ByHiredis(ConnectEnd)
             \/ ByHiredis(ConnectFailedEnd) \/ ByHiredis(ReplyEnd)
             \/ ByHiredis(FreeContext) \/ ByHiredis(FreeContextEnd)
    BY <1>5, DisconnectFlow, EndsFlow, FreeContextFlow
  <1> QED
    BY <1>1, <1>2, <1>3, <1>4, <1>5 DEF LibraryStep

LEMMA NextFlow == ASSUME IndInv, FlowInv, [Next]_vars PROVE FlowInv'
  <1>1. CASE LibraryStep
    BY <1>1, LibraryStepFlow
  <1>2. CASE NetworkStep
    BY <1>2, NetworkFlow
  <1>3. CASE Proc
    BY <1>3, UserProcFlow DEF Proc
  <1>4. CASE UserStep
    BY <1>4, UserExecFlow, UserConnectFlow, UserCallFlow DEF UserStep
  <1>5. CASE Idle \/ UNCHANGED vars
    <2>1. UNCHANGED <<stack, hiredisVars, connVars, clusterVars>>
      BY <1>5 DEF Idle, vars, stackVars
    <2> QED
      BY <2>1, SameFlow
  <1>6. CASE UserReturn \/ Crash
    BY <1>6, UserReturnFlow, CrashFlow
  <1> QED
    BY <1>1, <1>2, <1>3, <1>4, <1>5, <1>6 DEF Next

\* The map, the connections, the calls that release them, the numbers their
\* timeouts have noted and the commands that wait for the table stay in step,
\* whatever the callbacks of the application call in between.
THEOREM FlowInvariance == Spec => [](IndInv /\ FlowInv)
  <1>1. Init => FlowInv
    BY InitFlow
  <1>2. IndInv /\ FlowInv /\ [Next]_vars => FlowInv'
    BY NextFlow
  <1> QED
    BY <1>1, <1>2, Invariance, PTL DEF Spec

\* The map of connections and the connection objects agree: a connection is
\* alive exactly as long as the map leads to it from its own server
\* (connections_ in make_connection, release_connection and reset).
THEOREM MapMatches == Spec => []MapMatchesConnections
  <1>1. IndInv /\ FlowInv => MapMatchesConnections
    <2> SUFFICES ASSUME IndInv, FlowInv, NEW k \in ConnIds
                 PROVE  conn_st[k] = "live" <=> connections_[server_of[k]] = k
      BY DEF MapMatchesConnections
    <2>1. k # 0 /\ server_of[k] \in Servers
      BY BoundsAssumption DEF ConnIds, BoundsAssumption, IndInv, MapPart
    <2> QED
      BY <2>1 DEF FlowInv, LinkPart
  <1> QED
    BY <1>1, FlowInvariance, PTL

\* The assertion in cluster::proc holds: a connection whose timeout is due and
\* still has the number that was noted is connecting, has its context, and
\* hiredis is not in one of its callbacks.
THEOREM TimeoutConnecting == Spec => []TimeoutHitsConnecting
  <1>1. IndInv /\ FlowInv => TimeoutHitsConnecting
    <2> DEFINE k == connections_[Head(timer_conns).server]
    <2> SUFFICES ASSUME IndInv, FlowInv, At("proc_conn"), Due, Expired(k)
                 PROVE  context_[k] /\ ~in_callback[k] /\ conn_status_[k] = "CONNECTING"
      BY DEF TimeoutHitsConnecting
    <2>1. StackSeq /\ stack # <<>> /\ Len(stack) = 1 /\ Top.op \in ProcOps
      BY TopProc DEF ProcOps
    <2>2. \A d \in Heights : Pile[d].op \in ProcOps
      BY <2>1, PileFrames DEF Heights
    <2>3. \A d \in Heights : Pile[d].op \notin HiredisOps \cup ReleaseOps
      BY <2>2 DEF ProcOps, HiredisOps, ReleaseOps
    <2>4. timer_conns \in Seq(Expiry) /\ timer_conns # <<>>
      BY DEF IndInv, TimePart, Due
    <2>5. /\ Head(timer_conns) \in Expiry /\ 1 \in DOMAIN timer_conns
          /\ Head(timer_conns) = timer_conns[1]
      BY <2>4
    <2>6. Head(timer_conns).server \in Servers
      BY <2>5 DEF Expiry
    <2>7. k \in ConnIds /\ conn_st[k] = "live"
      BY <2>6 DEF Expired, IndInv, MapPart, FlowInv, LinkPart
    <2>8. conn_status_[k] # "CONNECTED"
      BY <2>5, <2>7 DEF Expired, FlowInv, SequencePart
    <2>9. conn_status_[k] # "DISCONNECTED"
      BY <2>3, <2>7 DEF FlowInv, ReleasePart, Releases
    <2>10. conn_status_[k] \in Statuses
      BY <2>7 DEF IndInv, ConnPart
    <2>11. ~in_callback[k]
      BY <2>3, <2>7 DEF FlowInv, CallbackPart
    <2>12. context_[k]
      BY <2>7, <2>9 DEF FlowInv, LinkPart
    <2> QED
      BY <2>8, <2>9, <2>10, <2>11, <2>12 DEF Statuses
  <1> QED
    BY <1>1, FlowInvariance, PTL

\* No connection disappears silently: release_connection has reported its end
\* before it destroys it, also when the callbacks of its commands release,
\* reset or reconnect.
THEOREM EndReported == Spec => []EndIsReported
  <1>1. FlowInv => EndIsReported
    BY DEF FlowInv, ReleasePart
  <1> QED
    BY <1>1, FlowInvariance, PTL

\* Whenever the event loop waits, no command waits for a slot table that is
\* there: on_reply_update_slot sends them all, however many callbacks add some.
THEOREM NobodyWaits == Spec => []NobodyWaitsForTable
  <1>1. FlowInv => NobodyWaitsForTable
    <2> SUFFICES ASSUME FlowInv, stack = <<>>, slot_pending_ # <<>>, slot_flag_ = "OK"
                 PROVE  FALSE
      BY DEF NobodyWaitsForTable
    <2>1. \A d \in Heights : FALSE
      BY DEF Heights
    <2> QED
      BY <2>1 DEF FlowInv, PendingPart
  <1> QED
    BY <1>1, FlowInvariance, PTL

=============================================================================
