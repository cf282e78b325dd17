----------------------------- MODULE RawProofs -----------------------------
(***************************************************************************)
(* Proofs about Raw, for any number of commands, connections and seconds,  *)
(* any TTL, both kinds of hiredis and every environment.                   *)
(*                                                                         *)
(* The type invariant is not inductive as it stands: a frame must also     *)
(* refer to the object its code works on, and to a command that has been   *)
(* created.  So the stack is a sequence of frames that are good in the     *)
(* current state, and the set of good frames only grows.                   *)
(***************************************************************************)
EXTENDS Raw, TLAPS

-----------------------------------------------------------------------------
(* Sequences                                                               *)

\* A sequence over a set is one over every larger set.
LEMMA SeqMono ==
  ASSUME NEW S, NEW T, S \subseteq T, NEW s \in Seq(S)
  PROVE  s \in Seq(T)
  OBVIOUS

\* Concatenation, sequences of no, one and two elements, and the tail stay within the set.
LEMMA ConcatType ==
  ASSUME NEW S, NEW s \in Seq(S), NEW t \in Seq(S)
  PROVE  s \o t \in Seq(S)
  OBVIOUS

LEMMA EmptyType ==
  ASSUME NEW S
  PROVE  <<>> \in Seq(S)
  OBVIOUS

LEMMA OneType ==
  ASSUME NEW S, NEW x \in S
  PROVE  <<x>> \in Seq(S)
  OBVIOUS

LEMMA TwoType ==
  ASSUME NEW S, NEW x \in S, NEW y \in S
  PROVE  <<x, y>> \in Seq(S)
  OBVIOUS

LEMMA TailType ==
  ASSUME NEW S, NEW s \in Seq(S), s # <<>>
  PROVE  Head(s) \in S /\ Tail(s) \in Seq(S)
  OBVIOUS

-----------------------------------------------------------------------------
(* The inductive invariant                                                 *)

Created == {c \in CmdIds : cmd_st[c] # "none"}

CmdOps  == {"exec", "exec_failed", "exec_conn", "retry", "destroy_cmd", "destroy",
            "on_reply", "call_reply", "pop_reply"}
ConnOps == {"exec_conn", "release_event", "on_reply", "on_connected", "on_connected_end",
            "on_disconnected", "call_reply", "pop_reply", "connection_release",
            "redisAsyncDisconnect", "h_free", "h_free_end", "h_reply_end",
            "h_connect_end", "h_connect_failed"}

\* The frames that refer to what their code works on, given the commands that
\* have been created; the callback of a command about to be destroyed has been
\* called.  ask_pop belongs to the cluster client.
Good(created, cb) ==
  {f \in Frame :
     /\ f.op \in CmdOps => f.c \in created
     /\ f.op \in ConnOps => f.k \in ConnIds
     /\ f.op # "ask_pop"
     /\ f.op \in {"on_reply", "call_reply"} => f.a \in Replies
     /\ f.op = "pop_reply" => f.a \in Replies \cup {"retry"}
     /\ f.op = "on_connected" => f.a \in {"OK", "IO", "OTHER"}
     /\ f.op = "destroy" => ~cb[f.c]}

GoodFrame == Good(Created, callback_)

\* The callback is called once, and before the command is freed.
CmdPart ==
  /\ CmdTypeOK
  /\ cmd_st \in [CmdIds -> ObjectStates]
  /\ \A c \in CmdIds :
       /\ cmd_st[c] = "none" => ~callback_[c] /\ calls[c] = 0
       /\ cmd_st[c] # "none" => calls[c] = IF callback_[c] THEN 0 ELSE 1
       /\ cmd_st[c] = "freed" => ~callback_[c]

StackPart == stack \in Seq(GoodFrame) /\ ub \in BOOLEAN

\* What raw hands to hiredis: on_reply_wrapper with a command.
Entries == [fn : {"on_reply"}, c : Created]

QueuePart ==
  /\ replies \in [ConnIds -> Seq(Entries)]
  /\ reply_list_ \in [ConnIds -> Seq(Created)]
  /\ timer_pending \in Seq([at : Nat, cmd : Created])

ContextPart ==
  /\ ctx_st \in [ConnIds -> ContextStates]
  /\ disconnecting \in [ConnIds -> BOOLEAN]
  /\ in_callback \in [ConnIds -> BOOLEAN]
  /\ ctx_err \in [ConnIds -> {"OK", "IO", "OTHER"}]

ConnPart ==
  /\ conn_st \in [ConnIds -> ObjectStates]
  /\ context_ \in [ConnIds -> BOOLEAN]
  /\ conn_status_ \in [ConnIds -> Statuses]
  /\ sequence_ \in [ConnIds -> Nat]
  /\ seq_alloc \in Nat

RawPart ==
  /\ conn_ \in ConnIds \cup {0}
  /\ last_update \in Nat
  /\ timer_conn \in [sequence : Nat, timeout : Nat]
  /\ now \in Nat
  /\ ncmd \in 0 .. MaxCmds /\ nconn \in 0 .. MaxConns
  /\ notified \in [ConnIds -> SUBSET Events]

\* Commands are created in order.
FreshPart ==
  \A c \in CmdIds :
    (c <= MaxCmds /\ c > ncmd) \/ c > MaxCmds + nconn => cmd_st[c] = "none"

\* Sequence numbers come from the counter, so a new one was never seen.
SequencePart ==
  /\ \A k \in ConnIds : sequence_[k] <= seq_alloc
  /\ timer_conn.sequence <= seq_alloc
  /\ TimeoutSparesEstablished

IndInv ==
  CmdPart /\ StackPart /\ QueuePart /\ ContextPart /\ ConnPart /\ RawPart
    /\ FreshPart /\ SequencePart

-----------------------------------------------------------------------------
(* Frames and the stack                                                    *)

\* Steps that leave the commands alone keep the good frames.
LEMMA CmdsUnchanged ==
  ASSUME CmdPart, UNCHANGED cmdVars
  PROVE  CmdPart' /\ Created' = Created /\ GoodFrame' = GoodFrame
  <1>1. CmdPart'
    BY DEF CmdPart, CmdTypeOK, cmdVars
  <1>2. Created' = Created
    BY DEF Created, cmdVars
  <1> QED
    BY <1>1, <1>2 DEF GoodFrame, Good, cmdVars

\* Calling a command back keeps the good frames, and its own frame is good.
LEMMA CmdCalledBack ==
  ASSUME CmdPart, NEW c \in Created, NEW code \in ErrorCodes, NEW r \in Replies,
         cmd_call_reply(c, code, r), UNCHANGED cmd_st, ttl_' \in [CmdIds -> 0 .. TTL]
  PROVE  /\ CmdPart' /\ Created' = Created /\ GoodFrame \subseteq GoodFrame'
         /\ ~callback_'[c]
         /\ CallbackFrames(c, r) \in Seq(GoodFrame')
  <1>a. callback_' \in [CmdIds -> BOOLEAN] /\ error_code_' \in [CmdIds -> ErrorCodes]
          /\ got' \in [CmdIds -> Replies]
    BY DEF CmdPart, CmdTypeOK, cmd_call_reply, Created
  <1>b. calls' \in [CmdIds -> Nat]
    BY DEF CmdPart, CmdTypeOK, cmd_call_reply, Created
  <1>c. ASSUME NEW d \in CmdIds
        PROVE  /\ cmd_st'[d] = "none" => ~callback_'[d] /\ calls'[d] = 0
               /\ cmd_st'[d] # "none" => calls'[d] = IF callback_'[d] THEN 0 ELSE 1
               /\ cmd_st'[d] = "freed" => ~callback_'[d]
    <2>1. CASE d = c
      BY <2>1 DEF CmdPart, CmdTypeOK, cmd_call_reply, Created
    <2>2. CASE d # c
      <3>1. callback_'[d] = callback_[d] /\ calls'[d] = calls[d]
        BY <2>2 DEF CmdPart, CmdTypeOK, cmd_call_reply, Created
      <3> QED
        BY <3>1 DEF CmdPart
    <2> QED
      BY <2>1, <2>2
  <1>1. CmdPart'
    BY <1>a, <1>b, <1>c DEF CmdPart, CmdTypeOK
  <1>2. Created' = Created
    BY DEF Created
  <1>3. ~callback_'[c] /\ \A d \in CmdIds : callback_'[d] => callback_[d]
    BY DEF CmdPart, CmdTypeOK, cmd_call_reply, Created
  <1>4. GoodFrame \subseteq GoodFrame'
    <2> SUFFICES ASSUME NEW f \in GoodFrame PROVE f \in GoodFrame'
      OBVIOUS
    <2>1. f.op = "destroy" => ~callback_'[f.c]
      BY <1>3 DEF GoodFrame, Good, Created, CmdOps
    <2> QED
      BY <1>2, <2>1 DEF GoodFrame, Good
  <1>5. F("user", c, 0, "none") \in GoodFrame' /\ F("on_reply_update_slot", c, 0, r) \in GoodFrame'
    BY DEF GoodFrame, Good, F, Frame, Ops, Args, CmdOps, ConnOps, Created, Replies
  <1> QED
    BY <1>1, <1>2, <1>3, <1>4, <1>5, OneType, EmptyType DEF CallbackFrames

\* Creating a fresh command keeps the good frames.
LEMMA CmdCreated ==
  ASSUME CmdPart, TTLAssumption, NEW c \in CmdIds, cmd_st[c] = "none", create(c)
  PROVE  /\ CmdPart' /\ Created' = Created \cup {c} /\ GoodFrame \subseteq GoodFrame'
  <1>1. CmdPart'
    BY TTLAssumption DEF CmdPart, CmdTypeOK, create, TTLAssumption, ObjectStates, ErrorCodes,
       Replies
  <1>2. Created' = Created \cup {c}
    BY DEF Created, create, CmdPart
  <1>3. \A d \in Created : callback_'[d] = callback_[d]
    BY DEF CmdPart, CmdTypeOK, create, Created
  <1>4. GoodFrame \subseteq GoodFrame'
    <2> SUFFICES ASSUME NEW f \in GoodFrame PROVE f \in GoodFrame'
      OBVIOUS
    <2>1. f.op = "destroy" => ~callback_'[f.c]
      BY <1>3 DEF GoodFrame, Good, Created, CmdOps
    <2> QED
      BY <1>2, <2>1 DEF GoodFrame, Good
  <1> QED
    BY <1>1, <1>2, <1>4

\* Destroying one does, too.
LEMMA CmdDestroyed ==
  ASSUME CmdPart, NEW c \in Created, ~callback_[c],
         cmd_st' = [cmd_st EXCEPT ![c] = "freed"],
         UNCHANGED <<callback_, ttl_, error_code_, calls, got>>
  PROVE  CmdPart' /\ Created' = Created /\ GoodFrame' = GoodFrame
  <1>1. CmdPart'
    BY DEF CmdPart, CmdTypeOK, Created, ObjectStates
  <1>2. Created' = Created
    BY DEF Created, CmdPart
  <1> QED
    BY <1>1, <1>2 DEF GoodFrame, Good

\* The frames the actions push.
LEMMA CmdFramesGood ==
  ASSUME NEW created \in SUBSET CmdIds, NEW cb, NEW c \in created
  PROVE  /\ F("exec", c, 0, "none") \in Good(created, cb)
         /\ F("exec_failed", c, 0, "none") \in Good(created, cb)
         /\ F("retry", c, 0, "none") \in Good(created, cb)
         /\ F("destroy_cmd", c, 0, "none") \in Good(created, cb)
         /\ ~cb[c] => F("destroy", c, 0, "none") \in Good(created, cb)
  BY DEF Good, F, Frame, Ops, Args, CmdOps, ConnOps

LEMMA ReplyFramesGood ==
  ASSUME NEW created \in SUBSET CmdIds, NEW cb, NEW c \in created, NEW k \in ConnIds,
         NEW r \in Replies
  PROVE  /\ F("exec_conn", c, k, "none") \in Good(created, cb)
         /\ F("on_reply", c, k, r) \in Good(created, cb)
         /\ F("call_reply", c, k, r) \in Good(created, cb)
         /\ F("pop_reply", c, k, r) \in Good(created, cb)
         /\ F("pop_reply", c, k, "retry") \in Good(created, cb)
  BY DEF Good, F, Frame, Ops, Args, CmdOps, ConnOps, Replies

LEMMA ConnFramesGood ==
  ASSUME NEW created, NEW cb, NEW k \in ConnIds, NEW j \in ConnIds \cup {0}
  PROVE  /\ \A a \in {"on_connect", "on_connected", "on_disconnected"} :
              F("user", 0, k, a) \in Good(created, cb)
         /\ \A a \in {"close", "keep"} : F("release_connection", 0, j, a) \in Good(created, cb)
         /\ \A a \in {"CONNECTING", "CONNECTED"} :
              F("release_event", 0, k, a) \in Good(created, cb)
         /\ F("release_end", 0, k, "none") \in Good(created, cb)
         /\ F("connection_release", 0, k, "none") \in Good(created, cb)
         /\ F("redisAsyncDisconnect", 0, k, "none") \in Good(created, cb)
  BY DEF Good, F, Frame, Ops, Args, CmdOps, ConnOps

LEMMA HiredisFramesGood ==
  ASSUME NEW created, NEW cb, NEW k \in ConnIds
  PROVE  /\ \A a \in {"OK", "IO", "OTHER"} :
              /\ F("on_connected", 0, k, a) \in Good(created, cb)
              /\ F("on_connected_end", 0, k, a) \in Good(created, cb)
              /\ F("on_disconnected", 0, k, a) \in Good(created, cb)
         /\ F("h_free", 0, k, "none") \in Good(created, cb)
         /\ F("h_free_end", 0, k, "none") \in Good(created, cb)
         /\ F("h_reply_end", 0, k, "none") \in Good(created, cb)
         /\ F("h_connect_end", 0, k, "none") \in Good(created, cb)
         /\ F("h_connect_failed", 0, k, "none") \in Good(created, cb)
  BY DEF Good, F, Frame, Ops, Args, CmdOps, ConnOps

LEMMA TimerFramesGood ==
  ASSUME NEW created, NEW cb
  PROVE  /\ F("reset", 0, 0, "none") \in Good(created, cb)
         /\ F("proc", 0, 0, "none") \in Good(created, cb)
         /\ F("proc_conn", 0, 0, "none") \in Good(created, cb)
         /\ F("proc_clear", 0, 0, "none") \in Good(created, cb)
  BY DEF Good, F, Frame, Ops, Args, CmdOps, ConnOps

\* The top frame is good, and so is the stack after a call or a return.
LEMMA TopGood ==
  ASSUME StackPart, NEW op, At(op)
  PROVE  stack # <<>> /\ Top \in GoodFrame /\ Top.op = op
  BY TailType DEF StackPart, At, Running, Top

LEMMA ContinueGood ==
  ASSUME StackPart, stack # <<>>, GoodFrame \subseteq GoodFrame',
         NEW fs \in Seq(GoodFrame'), Continue(fs)
  PROVE  StackPart'
  <1>1. Tail(stack) \in Seq(GoodFrame')
    BY TailType, SeqMono DEF StackPart
  <1> QED
    BY <1>1, ConcatType DEF Continue, Rest, StackPart

LEMMA ReturnGood ==
  ASSUME StackPart, stack # <<>>, GoodFrame \subseteq GoodFrame', Return
  PROVE  StackPart'
  BY TailType, SeqMono DEF StackPart, Return, Rest

LEMMA CallGood ==
  ASSUME StackPart, GoodFrame \subseteq GoodFrame', NEW fs \in Seq(GoodFrame'), Call(fs)
  PROVE  StackPart'
  <1>1. stack \in Seq(GoodFrame')
    BY SeqMono DEF StackPart
  <1> QED
    BY <1>1, ConcatType DEF Call, StackPart

\* What does not change stays within its type.
LEMMA QueuesUnchanged ==
  ASSUME QueuePart, Created \subseteq Created',
         UNCHANGED <<replies, reply_list_, timer_pending>>
  PROVE  QueuePart'
  <1>1. Seq(Created) \subseteq Seq(Created')
    BY SeqMono
  <1>2. timer_pending \in Seq([at : Nat, cmd : Created'])
    <2>1. [at : Nat, cmd : Created] \subseteq [at : Nat, cmd : Created']
      OBVIOUS
    <2> QED
      BY <2>1, SeqMono DEF QueuePart
  <1>3. reply_list_ \in [ConnIds -> Seq(Created')]
    BY <1>1 DEF QueuePart
  <1>4. replies \in [ConnIds -> Seq(Entries')]
    <2>1. Entries \subseteq Entries'
      BY DEF Entries
    <2>2. Seq(Entries) \subseteq Seq(Entries')
      BY <2>1, SeqMono
    <2> QED
      BY <2>2 DEF QueuePart
  <1> QED
    BY <1>2, <1>3, <1>4 DEF QueuePart

LEMMA ContextsUnchanged ==
  ASSUME ContextPart, UNCHANGED <<ctx_st, disconnecting, in_callback, ctx_err>>
  PROVE  ContextPart'
  BY DEF ContextPart

LEMMA ConnsUnchanged ==
  ASSUME ConnPart, UNCHANGED <<conn_st, context_, conn_status_, sequence_, seq_alloc>>
  PROVE  ConnPart'
  BY DEF ConnPart

LEMMA RawUnchanged ==
  ASSUME RawPart, UNCHANGED <<conn_, last_update, timer_conn, now, ncmd, nconn, notified>>
  PROVE  RawPart'
  BY DEF RawPart

LEMMA FreshUnchanged ==
  ASSUME FreshPart, Created' = Created, UNCHANGED <<ncmd, nconn>>
  PROVE  FreshPart'
  BY DEF FreshPart, Created

LEMMA SequencesUnchanged ==
  ASSUME SequencePart, UNCHANGED <<conn_, timer_conn, sequence_, seq_alloc, conn_status_>>
  PROVE  SequencePart'
  BY DEF SequencePart, TimeoutSparesEstablished

\* A step that only moves the stack, or only the stack and the commands.
LEMMA OnlyStackMoves ==
  ASSUME IndInv, StackPart', UNCHANGED <<cmdVars, hiredisVars, connVars, rawVars>>
  PROVE  IndInv'
  <1>1. CmdPart' /\ Created' = Created
    BY CmdsUnchanged DEF IndInv
  <1> QED
    BY <1>1, QueuesUnchanged, ContextsUnchanged, ConnsUnchanged, RawUnchanged,
       FreshUnchanged, SequencesUnchanged DEF IndInv, hiredisVars, connVars, rawVars

LEMMA OnlyCmdsMove ==
  ASSUME IndInv, CmdPart', Created' = Created, StackPart',
         UNCHANGED <<hiredisVars, connVars, rawVars>>
  PROVE  IndInv'
  BY QueuesUnchanged, ContextsUnchanged, ConnsUnchanged, RawUnchanged,
     FreshUnchanged, SequencesUnchanged DEF IndInv, hiredisVars, connVars, rawVars

\* The common step: a callback is called, and the command will be destroyed.
LEMMA CallBackStep ==
  ASSUME CmdPart, StackPart, stack # <<>>,
         NEW c \in Created, NEW code \in ErrorCodes, NEW r \in Replies,
         NEW op \in {"destroy", "destroy_cmd"},
         NEW fs \in {<<F(op, c, 0, "none")>>, <<F(op, c, 0, "none"), Top>>},
         CallBack(c, code, r, fs)
  PROVE  CmdPart' /\ Created' = Created /\ GoodFrame \subseteq GoodFrame' /\ StackPart'
  <1>1. ttl_' \in [CmdIds -> 0 .. TTL]
    BY DEF CallBack, CmdPart, CmdTypeOK
  <1>2. /\ CmdPart' /\ Created' = Created /\ GoodFrame \subseteq GoodFrame'
        /\ ~callback_'[c]
        /\ CallbackFrames(c, r) \in Seq(GoodFrame')
    BY <1>1, CmdCalledBack DEF CallBack
  <1>3. F(op, c, 0, "none") \in GoodFrame'
    <2>1. Created' \in SUBSET CmdIds /\ c \in Created'
      BY <1>2 DEF Created
    <2> QED
      BY <1>2, <2>1, CmdFramesGood DEF GoodFrame
  <1>4. Top \in GoodFrame'
    BY <1>2, TailType DEF StackPart, Top
  <1>5. fs \in Seq(GoodFrame')
    BY <1>3, <1>4, OneType, TwoType
  <1>6. CallbackFrames(c, r) \o fs \in Seq(GoodFrame')
    BY <1>2, <1>5, ConcatType
  <1>7. StackPart'
    BY <1>2, <1>6, ContinueGood DEF CallBack
  <1> QED
    BY <1>2, <1>7

\* A call goes on with other frames and the commands stay as they are.
LEMMA MoveStep ==
  ASSUME CmdPart, StackPart, stack # <<>>, UNCHANGED cmdVars,
         NEW fs \in Seq(GoodFrame), Continue(fs) \/ Return
  PROVE  CmdPart' /\ Created' = Created /\ StackPart'
  <1>1. CmdPart' /\ Created' = Created /\ GoodFrame' = GoodFrame
    BY CmdsUnchanged
  <1>2. CASE Continue(fs)
    BY <1>1, <1>2, ContinueGood
  <1>3. CASE Return
    BY <1>1, <1>3, ReturnGood
  <1> QED
    BY <1>1, <1>2, <1>3

\* The same for a call from the event loop or the application.
LEMMA EnterStep ==
  ASSUME CmdPart, StackPart, UNCHANGED cmdVars, NEW fs \in Seq(GoodFrame), Call(fs)
  PROVE  CmdPart' /\ Created' = Created /\ StackPart'
  BY CmdsUnchanged, CallGood

-----------------------------------------------------------------------------
(* Every action preserves the invariant                                    *)

LEMMA DestroyCmdInv == ASSUME IndInv, destroy_cmd PROVE IndInv'
  <1>1. stack # <<>> /\ Top.c \in Created
    BY TopGood DEF IndInv, destroy_cmd, GoodFrame, Good, CmdOps
  <1>2. CmdPart' /\ Created' = Created /\ StackPart'
    <2> DEFINE fs == <<F("destroy", Top.c, 0, "none")>>
    <2>1. CallBack(Top.c, "UNKNOWD", "null", fs)
      BY DEF destroy_cmd
    <2> QED
      BY <1>1, <2>1, CallBackStep DEF IndInv, ErrorCodes, Replies
  <1> QED
    BY <1>2, OnlyCmdsMove DEF destroy_cmd

LEMMA DestroyInv == ASSUME IndInv, Destroy PROVE IndInv'
  <1>1. stack # <<>> /\ Top.c \in Created /\ ~callback_[Top.c]
    BY TopGood DEF IndInv, Destroy, destroy, GoodFrame, Good, CmdOps
  <1>2. CmdPart' /\ Created' = Created /\ GoodFrame' = GoodFrame
    BY <1>1, CmdDestroyed DEF IndInv, Destroy, destroy
  <1>3. StackPart'
    BY <1>1, <1>2, ReturnGood DEF IndInv, Destroy, destroy
  <1> QED
    BY <1>2, <1>3, OnlyCmdsMove DEF Destroy

LEMMA FailStep ==
  ASSUME IndInv, stack # <<>>, NEW c \in Created, NEW code \in ErrorCodes, Fail(c, code),
         UNCHANGED <<hiredisVars, connVars, rawVars>>
  PROVE  IndInv'
  <1> DEFINE fs == <<F("destroy_cmd", c, 0, "none")>>
  <1>1. CallBack(c, code, "null", fs)
    BY DEF Fail
  <1>2. CmdPart' /\ Created' = Created /\ StackPart'
    BY <1>1, CallBackStep DEF IndInv, Replies
  <1> QED
    BY <1>2, OnlyCmdsMove

LEMMA ExecInv == ASSUME IndInv, exec PROVE IndInv'
  <1>1. stack # <<>> /\ Top.c \in Created
    BY TopGood DEF IndInv, exec, GoodFrame, Good, CmdOps
  <1>2. CASE ttl_[Top.c] = 0
    BY <1>1, <1>2, FailStep DEF exec, ErrorCodes
  <1>3. CASE ttl_[Top.c] # 0
    <2> DEFINE fs == <<F("exec_conn", Top.c, conn_, "none")>>
    <2>1. conn_ \in ConnIds /\ Continue(fs) /\ UNCHANGED cmdVars
      BY <1>3 DEF exec, IndInv, RawPart
    <2>2. GoodFrame' = GoodFrame
      BY <2>1, CmdsUnchanged DEF IndInv
    <2>3. fs \in Seq(GoodFrame')
      BY <1>1, <2>1, <2>2, ReplyFramesGood, OneType DEF GoodFrame, Created, Replies
    <2>4. StackPart'
      BY <1>1, <2>1, <2>2, <2>3, ContinueGood DEF IndInv
    <2> QED
      BY <2>1, <2>4, OnlyStackMoves DEF exec
  <1> QED
    BY <1>2, <1>3

LEMMA ExecConnectFailedInv == ASSUME IndInv, exec_connect_failed PROVE IndInv'
  <1>1. stack # <<>> /\ Top.c \in Created
    BY TopGood DEF IndInv, exec_connect_failed, GoodFrame, Good, CmdOps
  <1> QED
    BY <1>1, FailStep DEF exec_connect_failed, ErrorCodes

LEMMA UserExecInv == ASSUME IndInv, UserExec PROVE IndInv'
  <1> DEFINE c == ncmd + 1
  <1>1. c \in CmdIds /\ cmd_st[c] = "none" /\ create(c)
    BY BoundsAssumption DEF UserExec, IndInv, RawPart, FreshPart, CmdIds, BoundsAssumption
  <1>2. CmdPart' /\ Created' = Created \cup {c} /\ GoodFrame \subseteq GoodFrame'
    BY <1>1, CmdCreated, TTLAssumption DEF IndInv
  <1>3. /\ F("exec", c, 0, "none") \in GoodFrame'
        /\ F("destroy_cmd", c, 0, "none") \in GoodFrame'
    <2>1. Created' \in SUBSET CmdIds /\ c \in Created'
      BY <1>2 DEF Created
    <2> QED
      BY <2>1, CmdFramesGood DEF GoodFrame
  <1>4. StackPart'
    <2>1. <<F("exec", c, 0, "none")>> \in Seq(GoodFrame')
          /\ <<F("destroy_cmd", c, 0, "none")>> \in Seq(GoodFrame')
      BY <1>3, OneType
    <2>2. CASE Call(<<F("exec", c, 0, "none")>>)
      BY <1>2, <2>1, <2>2, CallGood DEF IndInv
    <2>3. CASE Call(<<F("destroy_cmd", c, 0, "none")>>)
      BY <1>2, <2>1, <2>3, CallGood DEF IndInv
    <2> QED
      BY <2>2, <2>3 DEF UserExec
  <1>5. FreshPart'
    BY <1>1, BoundsAssumption DEF UserExec, IndInv, FreshPart, RawPart, CmdPart, create,
       CmdIds, BoundsAssumption
  <1>6. RawPart'
    BY BoundsAssumption DEF UserExec, IndInv, RawPart, BoundsAssumption
  <1> QED
    BY <1>2, <1>4, <1>5, <1>6, QueuesUnchanged, ContextsUnchanged, ConnsUnchanged,
       SequencesUnchanged DEF UserExec, IndInv, hiredisVars, connVars

\* A new connection, with or without an AUTH command.
LEMMA MakeConnectionStep ==
  ASSUME IndInv, NEW k, k = nconn + 1, nconn < MaxConns, make_connection(k),
         notified' \in [ConnIds -> SUBSET Events],
         UNCHANGED <<last_update, timer_pending, now, ncmd>>
  PROVE  /\ CmdPart' /\ QueuePart' /\ ContextPart' /\ ConnPart' /\ RawPart' /\ FreshPart'
         /\ SequencePart' /\ GoodFrame \subseteq GoodFrame' /\ Created \subseteq Created'
         /\ Created' \in SUBSET CmdIds
         /\ k \in ConnIds
         /\ Auth => AuthCmd(k) \in Created'
  <1>1. k \in ConnIds /\ AuthCmd(k) \in CmdIds /\ cmd_st[AuthCmd(k)] = "none"
    BY BoundsAssumption DEF IndInv, RawPart, FreshPart, ConnIds, CmdIds, AuthCmd,
       BoundsAssumption
  <1>2. /\ CmdPart' /\ GoodFrame \subseteq GoodFrame'
        /\ Created' = IF Auth THEN Created \cup {AuthCmd(k)} ELSE Created
    <2>1. CASE Auth
      BY <1>1, <2>1, CmdCreated, TTLAssumption DEF make_connection, IndInv
    <2>2. CASE ~Auth
      BY <2>2, CmdsUnchanged DEF make_connection, IndInv
    <2> QED
      BY <2>1, <2>2
  <1>3. QueuePart'
    BY <1>2, QueuesUnchanged DEF make_connection, redisAsyncConnect, set_connecting, IndInv
  <1>4. ContextPart'
    BY <1>1 DEF make_connection, redisAsyncConnect, IndInv, ContextPart, ContextStates
  <1>5. ConnPart'
    BY <1>1 DEF make_connection, set_connecting, IndInv, ConnPart, Statuses, ObjectStates
  <1>6. RawPart'
    BY <1>1, BoundsAssumption, RawAssumption
    DEF make_connection, IndInv, RawPart, ConnPart, ConnIds, BoundsAssumption, RawAssumption
  <1>7. FreshPart'
    BY <1>1, BoundsAssumption DEF make_connection, create, cmdVars, IndInv, FreshPart,
       RawPart, CmdPart, CmdIds, AuthCmd, BoundsAssumption
  <1>8. SequencePart'
    <2>1. \A j \in ConnIds : sequence_'[j] <= seq_alloc'
      BY <1>1 DEF make_connection, set_connecting, IndInv, ConnPart, SequencePart
    <2>2. timer_conn'.sequence <= seq_alloc'
      BY DEF make_connection, set_connecting, IndInv, ConnPart, RawPart, SequencePart
    <2>3. conn_status_'[conn_'] = "CONNECTING"
      BY <1>1 DEF make_connection, set_connecting, IndInv, ConnPart
    <2> QED
      BY <2>1, <2>2, <2>3 DEF SequencePart, TimeoutSparesEstablished
  <1> QED
    BY <1>1, <1>2, <1>3, <1>4, <1>5, <1>6, <1>7, <1>8 DEF Created

\* The frames make_connection goes on with.
LEMMA ConnectFramesGood ==
  ASSUME NEW k \in ConnIds, Created' \in SUBSET CmdIds, Auth => AuthCmd(k) \in Created'
  PROVE  ConnectFrames(k) \in Seq(GoodFrame')
  <1>1. F("user", 0, k, "on_connect") \in GoodFrame'
    BY ConnFramesGood DEF GoodFrame
  <1>2. Auth => F("exec_conn", AuthCmd(k), k, "none") \in GoodFrame'
    BY ReplyFramesGood DEF GoodFrame, Replies
  <1>3. <<F("user", 0, k, "on_connect")>> \in Seq(GoodFrame')
    BY <1>1, OneType
  <1>4. (IF Auth THEN <<F("exec_conn", AuthCmd(k), k, "none")>> ELSE <<>>) \in Seq(GoodFrame')
    BY <1>2, OneType
  <1> QED
    BY <1>3, <1>4, ConcatType DEF ConnectFrames

LEMMA NotifyType ==
  ASSUME RawPart, NEW k \in ConnIds, NEW e \in Events, Notify(k, e)
  PROVE  notified' \in [ConnIds -> SUBSET Events]
  BY DEF RawPart, Notify

LEMMA UserConnectInv == ASSUME IndInv, UserConnect PROVE IndInv'
  <1> DEFINE k == nconn + 1
  <1> DEFINE fail == <<F("destroy_cmd", AuthCmd(k), 0, "none")>>
  <1>0. k \in ConnIds
    BY BoundsAssumption DEF UserConnect, IndInv, RawPart, ConnIds, BoundsAssumption
  <1>1. notified' \in [ConnIds -> SUBSET Events]
    BY <1>0, NotifyType DEF UserConnect, IndInv, Events, RawPart
  <1>2. nconn < MaxConns /\ make_connection(k) /\ (Call(ConnectFrames(k)) \/ (Auth /\ Call(fail)))
        /\ UNCHANGED <<last_update, timer_pending, now, ncmd>>
    BY DEF UserConnect
  <1> HIDE DEF k
  <1>3. /\ CmdPart' /\ QueuePart' /\ ContextPart' /\ ConnPart' /\ RawPart' /\ FreshPart'
        /\ SequencePart' /\ GoodFrame \subseteq GoodFrame' /\ Created' \in SUBSET CmdIds
        /\ (Auth => AuthCmd(k) \in Created')
    BY <1>1, <1>2, MakeConnectionStep DEF k
  <1>4. Auth => fail \in Seq(GoodFrame')
    BY <1>3, CmdFramesGood, OneType DEF GoodFrame
  <1> HIDE DEF fail
  <1>5. StackPart'
    BY <1>0, <1>2, <1>3, <1>4, ConnectFramesGood, CallGood DEF IndInv
  <1> QED
    BY <1>3, <1>5 DEF IndInv

LEMMA ExecConnectInv == ASSUME IndInv, exec_connect PROVE IndInv'
  <1> DEFINE k == nconn + 1
  <1> DEFINE fs == <<F("exec_conn", Top.c, k, "none")>>
  <1>0. k \in ConnIds
    BY BoundsAssumption DEF exec_connect, IndInv, RawPart, ConnIds, BoundsAssumption
  <1>1. notified' \in [ConnIds -> SUBSET Events]
    BY <1>0, NotifyType DEF exec_connect, IndInv, Events
  <1>2. nconn < MaxConns /\ make_connection(k) /\ Continue(ConnectFrames(k) \o fs)
        /\ UNCHANGED <<last_update, timer_pending, now, ncmd>>
    BY DEF exec_connect
  <1>3. stack # <<>> /\ Top.c \in Created
    BY TopGood DEF IndInv, exec_connect, GoodFrame, Good, CmdOps
  <1> HIDE DEF k
  <1>4. /\ CmdPart' /\ QueuePart' /\ ContextPart' /\ ConnPart' /\ RawPart' /\ FreshPart'
        /\ SequencePart' /\ GoodFrame \subseteq GoodFrame' /\ Created' \in SUBSET CmdIds
        /\ Created \subseteq Created' /\ (Auth => AuthCmd(k) \in Created')
    BY <1>1, <1>2, MakeConnectionStep DEF k
  <1>5. fs \in Seq(GoodFrame')
    BY <1>0, <1>3, <1>4, ReplyFramesGood, OneType DEF GoodFrame, Replies
  <1>6. ConnectFrames(k) \o fs \in Seq(GoodFrame')
    BY <1>0, <1>4, <1>5, ConnectFramesGood, ConcatType
  <1> HIDE DEF fs
  <1>7. StackPart'
    BY <1>2, <1>3, <1>4, <1>6, ContinueGood DEF IndInv
  <1> QED
    BY <1>4, <1>7 DEF IndInv

LEMMA ExecAuthFormatFailedInv == ASSUME IndInv, exec_auth_format_failed PROVE IndInv'
  <1> DEFINE k == nconn + 1
  <1> DEFINE fs == <<F("destroy_cmd", AuthCmd(k), 0, "none"), F("exec_failed", Top.c, 0, "none")>>
  <1>1. notified' \in [ConnIds -> SUBSET Events]
    BY DEF exec_auth_format_failed, IndInv, RawPart
  <1>2. nconn < MaxConns /\ make_connection(k) /\ Continue(fs) /\ Auth
        /\ UNCHANGED <<last_update, timer_pending, now, ncmd>>
    BY DEF exec_auth_format_failed
  <1>3. stack # <<>> /\ Top.c \in Created
    BY TopGood DEF IndInv, exec_auth_format_failed, GoodFrame, Good, CmdOps
  <1> HIDE DEF k
  <1>4. /\ CmdPart' /\ QueuePart' /\ ContextPart' /\ ConnPart' /\ RawPart' /\ FreshPart'
        /\ SequencePart' /\ GoodFrame \subseteq GoodFrame' /\ Created' \in SUBSET CmdIds
        /\ Created \subseteq Created' /\ (Auth => AuthCmd(k) \in Created')
    BY <1>1, <1>2, MakeConnectionStep DEF k
  <1>5. /\ F("destroy_cmd", AuthCmd(k), 0, "none") \in GoodFrame'
        /\ F("exec_failed", Top.c, 0, "none") \in GoodFrame'
    BY <1>2, <1>3, <1>4, CmdFramesGood DEF GoodFrame
  <1>6. fs \in Seq(GoodFrame')
    BY <1>5, TwoType
  <1> HIDE DEF fs
  <1>7. StackPart'
    BY <1>2, <1>3, <1>4, <1>6, ContinueGood DEF IndInv
  <1> QED
    BY <1>4, <1>7 DEF IndInv

\* A try uses up TTL and changes no more about the command.
LEMMA TtlSpent ==
  ASSUME CmdPart, NEW c \in Created, SpendTtl(c),
         UNCHANGED <<callback_, error_code_, calls, got>>
  PROVE  CmdPart' /\ Created' = Created /\ GoodFrame' = GoodFrame
  <1>1. ttl_' \in [CmdIds -> 0 .. TTL]
    BY TTLAssumption DEF CmdPart, CmdTypeOK, SpendTtl, Created, TTLAssumption
  <1>2. CmdPart'
    BY <1>1 DEF CmdPart, CmdTypeOK, SpendTtl
  <1>3. Created' = Created
    BY DEF Created, SpendTtl
  <1> QED
    BY <1>2, <1>3 DEF GoodFrame, Good

LEMMA ExecConnInv == ASSUME IndInv, exec_conn PROVE IndInv'
  <1>1. stack # <<>> /\ Top.c \in Created /\ Top.k \in ConnIds
    BY TopGood DEF IndInv, exec_conn, GoodFrame, Good, CmdOps, ConnOps
  <1>2. CmdPart' /\ Created' = Created /\ GoodFrame' = GoodFrame
    BY <1>1, TtlSpent DEF IndInv, exec_conn
  <1>3. StackPart'
    BY <1>1, <1>2, ReturnGood DEF IndInv, exec_conn
  <1>4. QueuePart'
    <2> DEFINE entry == [fn |-> "on_reply", c |-> Top.c]
    <2>1. /\ replies' = [replies EXCEPT ![Top.k] = Append(@, entry)]
          /\ reply_list_' = [reply_list_ EXCEPT ![Top.k] = Append(@, Top.c)]
          /\ timer_pending' = timer_pending
      BY DEF exec_conn, redis_cmd, redisAsyncFormattedCommand, rawVars
    <2>2. \A s \in Seq(Created) : Append(s, Top.c) \in Seq(Created)
      BY <1>1
    <2>3. entry \in Entries /\ Entries' = Entries
      BY <1>1, <1>2 DEF Entries
    <2> HIDE DEF entry
    <2>4. \A s \in Seq(Entries) : Append(s, entry) \in Seq(Entries)
      BY <2>3
    <2> QED
      BY <1>1, <1>2, <2>1, <2>2, <2>3, <2>4 DEF IndInv, QueuePart
  <1>5. UNCHANGED <<ctx_st, disconnecting, in_callback, ctx_err, conn_st, context_,
                    conn_status_, sequence_, seq_alloc, rawVars>>
    BY DEF exec_conn, redis_cmd, redisAsyncFormattedCommand
  <1> QED
    BY <1>2, <1>3, <1>4, <1>5, ContextsUnchanged, ConnsUnchanged, RawUnchanged,
       FreshUnchanged, SequencesUnchanged DEF IndInv, rawVars

LEMMA ExecConnClosingInv == ASSUME IndInv, exec_conn_closing PROVE IndInv'
  <1> DEFINE rel == IF conn_ = Top.k /\ ~in_callback[Top.k]
                    THEN <<F("release_connection", 0, Top.k, "keep")>> ELSE <<>>
  <1> DEFINE fs == <<F("retry", Top.c, 0, "none")>>
  <1>1. stack # <<>> /\ Top.c \in Created /\ Top.k \in ConnIds
    BY TopGood DEF IndInv, exec_conn_closing, GoodFrame, Good, CmdOps, ConnOps
  <1>2. CmdPart' /\ Created' = Created /\ GoodFrame' = GoodFrame
    BY <1>1, TtlSpent DEF IndInv, exec_conn_closing
  <1>3. rel \in Seq(GoodFrame')
    <2>1. F("release_connection", 0, Top.k, "keep") \in GoodFrame
      BY <1>1, ConnFramesGood DEF GoodFrame
    <2>2. <<F("release_connection", 0, Top.k, "keep")>> \in Seq(GoodFrame)
      BY <2>1, OneType
    <2> QED
      BY <1>2, <2>2
  <1>4. fs \in Seq(GoodFrame')
    <2>1. F("retry", Top.c, 0, "none") \in GoodFrame
      BY <1>1, CmdFramesGood DEF GoodFrame, Created
    <2> QED
      BY <1>2, <2>1, OneType
  <1>5. Continue(rel \o fs)
    BY DEF exec_conn_closing
  <1> HIDE DEF rel, fs
  <1>6. StackPart'
    BY <1>1, <1>2, <1>3, <1>4, <1>5, ConcatType, ContinueGood DEF IndInv
  <1> QED
    BY <1>2, <1>6, OnlyCmdsMove DEF exec_conn_closing

LEMMA ExecConnFailedInv == ASSUME IndInv, exec_conn_failed PROVE IndInv'
  <1> DEFINE c == Top.c
  <1> DEFINE code == IF ttl_[c] = 0 THEN "TTL"
                     ELSE IF context_[Top.k] THEN "HIREDIS" ELSE "CONNECTION"
  <1> DEFINE fs == <<F("destroy_cmd", c, 0, "none")>>
  <1>1. stack # <<>> /\ c \in Created
    BY TopGood DEF IndInv, exec_conn_failed, GoodFrame, Good, CmdOps
  <1>2. code \in ErrorCodes
    BY DEF ErrorCodes
  <1>3. cmd_call_reply(c, code, "null") /\ UNCHANGED cmd_st
        /\ Continue(CallbackFrames(c, "null") \o fs)
    BY DEF exec_conn_failed
  <1>4. ttl_' \in [CmdIds -> 0 .. TTL]
    BY <1>1, TTLAssumption DEF exec_conn_failed, IndInv, CmdPart, CmdTypeOK, Created,
       TTLAssumption
  <1> HIDE DEF code
  <1>5. /\ CmdPart' /\ Created' = Created /\ GoodFrame \subseteq GoodFrame'
        /\ CallbackFrames(c, "null") \in Seq(GoodFrame')
    BY <1>1, <1>2, <1>3, <1>4, CmdCalledBack DEF IndInv, Replies
  <1>6. fs \in Seq(GoodFrame')
    <2>1. Created' \in SUBSET CmdIds /\ c \in Created'
      BY <1>1, <1>5 DEF Created
    <2>2. F("destroy_cmd", c, 0, "none") \in GoodFrame'
      BY <2>1, CmdFramesGood DEF GoodFrame
    <2> QED
      BY <2>2, OneType
  <1> HIDE DEF fs
  <1>7. StackPart'
    BY <1>1, <1>3, <1>5, <1>6, ConcatType, ContinueGood DEF IndInv
  <1> QED
    BY <1>5, <1>7, OnlyCmdsMove DEF exec_conn_failed

LEMMA RetryInv == ASSUME IndInv, retry PROVE IndInv'
  <1> DEFINE fs == <<F("exec", Top.c, 0, "none")>>
  <1>1. stack # <<>> /\ Top.c \in Created
    BY TopGood DEF IndInv, retry, GoodFrame, Good, CmdOps
  <1>2. fs \in Seq(GoodFrame)
    <2>1. F("exec", Top.c, 0, "none") \in GoodFrame
      BY <1>1, CmdFramesGood DEF GoodFrame, Created
    <2> QED
      BY <2>1, OneType
  <1>3. (Continue(fs) \/ Return) /\ UNCHANGED cmdVars
    BY DEF retry
  <1> HIDE DEF fs
  <1>4. CmdPart' /\ Created' = Created /\ StackPart'
    BY <1>1, <1>2, <1>3, MoveStep DEF IndInv
  <1>5. QueuePart'
    <2> DEFINE S == [at : Nat, cmd : Created]
    <2> DEFINE d == [at |-> last_update + Interval, cmd |-> Top.c]
    <2>1. d \in S
      BY <1>1, RawAssumption DEF IndInv, RawPart, RawAssumption
    <2>2. timer_pending' = timer_pending \/ timer_pending' = Append(timer_pending, d)
      BY DEF retry
    <2>3. timer_pending \in Seq(S)
      BY DEF IndInv, QueuePart
    <2>4. timer_pending' \in Seq(S)
      <3> HIDE DEF S, d
      <3> QED
        BY <2>1, <2>2, <2>3
    <2> QED
      BY <1>4, <2>4 DEF IndInv, QueuePart, Entries, retry, hiredisVars, connVars
  <1>6. UNCHANGED <<hiredisVars, connVars, conn_, last_update, timer_conn, now, ncmd, nconn,
                    notified>>
    BY DEF retry
  <1> QED
    BY <1>4, <1>5, <1>6, ContextsUnchanged, ConnsUnchanged, RawUnchanged,
       FreshUnchanged, SequencesUnchanged DEF IndInv, hiredisVars, connVars

LEMMA UserReleaseInv == ASSUME IndInv, UserRelease PROVE IndInv'
  <1> DEFINE fs == <<F("release_connection", 0, conn_, "close")>>
  <1>1. fs \in Seq(GoodFrame)
    <2>1. conn_ \in ConnIds
      BY DEF UserRelease, IndInv, RawPart
    <2>2. F("release_connection", 0, conn_, "close") \in GoodFrame
      BY <2>1, ConnFramesGood DEF GoodFrame
    <2> QED
      BY <2>2, OneType
  <1>2. Call(fs) /\ UNCHANGED <<cmdVars, hiredisVars, connVars, rawVars>>
    BY DEF UserRelease
  <1> HIDE DEF fs
  <1>3. StackPart'
    BY <1>1, <1>2, EnterStep DEF IndInv
  <1> QED
    BY <1>2, <1>3, OnlyStackMoves

\* The frames of a release.
LEMMA ReleaseFramesGood ==
  ASSUME NEW k \in ConnIds, NEW a
  PROVE  ReleaseFrames(k, a) \in Seq(GoodFrame)
  <1>1. /\ F("redisAsyncDisconnect", 0, k, "none") \in GoodFrame
        /\ F("connection_release", 0, k, "none") \in GoodFrame
    BY ConnFramesGood DEF GoodFrame
  <1>2. /\ <<F("redisAsyncDisconnect", 0, k, "none")>> \in Seq(GoodFrame)
        /\ <<F("connection_release", 0, k, "none")>> \in Seq(GoodFrame)
    BY <1>1, OneType
  <1>3. (IF context_[k] /\ a = "close" THEN <<F("redisAsyncDisconnect", 0, k, "none")>>
                                       ELSE <<>>) \in Seq(GoodFrame)
    BY <1>2
  <1> QED
    BY <1>2, <1>3, ConcatType DEF ReleaseFrames

LEMMA ReleaseConnectionInv == ASSUME IndInv, release_connection PROVE IndInv'
  <1> DEFINE k == Top.k
  <1>1. stack # <<>> /\ Top \in GoodFrame /\ k \in ConnIds \cup {0}
    BY TopGood DEF IndInv, release_connection, GoodFrame, Good, Frame
  <1>2. CASE Return /\ UNCHANGED connVars
    <2>1. StackPart'
      BY <1>1, <1>2, CmdsUnchanged, ReturnGood DEF IndInv, release_connection
    <2> QED
      BY <1>2, <2>1, OnlyStackMoves DEF release_connection
  <1>3. CASE k \in ConnIds /\ conn_status_[k] # "DISCONNECTED" /\ set_disconnected(k)
             /\ Continue(ReleaseFrames(k, Top.a) \o <<F("release_event", 0, k, conn_status_[k])>>)
    <2> DEFINE fs == <<F("release_event", 0, k, conn_status_[k])>>
    <2>1. fs \in Seq(GoodFrame)
      <3>1. conn_status_[k] \in {"CONNECTING", "CONNECTED"}
        BY <1>3 DEF IndInv, ConnPart, Statuses
      <3>2. F("release_event", 0, k, conn_status_[k]) \in GoodFrame
        BY <1>3, <3>1, ConnFramesGood DEF GoodFrame
      <3> QED
        BY <3>2, OneType
    <2>2. Continue(ReleaseFrames(k, Top.a) \o fs)
      BY <1>3
    <2> HIDE DEF fs
    <2>3. ReleaseFrames(k, Top.a) \o fs \in Seq(GoodFrame)
      BY <1>3, <2>1, ReleaseFramesGood, ConcatType
    <2>4. UNCHANGED <<cmdVars, hiredisVars, rawVars>>
      BY DEF release_connection
    <2>5. CmdPart' /\ Created' = Created /\ StackPart'
      BY <1>1, <2>2, <2>3, <2>4, MoveStep DEF IndInv
    <2>6. ConnPart' /\ SequencePart'
      BY <1>3, <2>4 DEF IndInv, ConnPart, SequencePart, TimeoutSparesEstablished, RawPart,
         set_disconnected, Statuses, rawVars
    <2> QED
      BY <1>3, <2>4, <2>5, <2>6, QueuesUnchanged, ContextsUnchanged, RawUnchanged,
         FreshUnchanged DEF IndInv, set_disconnected, hiredisVars, rawVars
  <1> QED
    BY <1>1, <1>2, <1>3 DEF release_connection

LEMMA ReleaseEventInv == ASSUME IndInv, release_event PROVE IndInv'
  <1> DEFINE ev == IF Top.a = "CONNECTING" THEN "on_connected" ELSE "on_disconnected"
  <1> DEFINE fs == <<F("user", 0, Top.k, ev), F("release_end", 0, Top.k, "none")>>
  <1>1. stack # <<>> /\ Top.k \in ConnIds
    BY TopGood DEF IndInv, release_event, GoodFrame, Good, ConnOps
  <1>2. fs \in Seq(GoodFrame)
    <2>1. F("user", 0, Top.k, ev) \in GoodFrame /\ F("release_end", 0, Top.k, "none") \in GoodFrame
      BY <1>1, ConnFramesGood DEF GoodFrame
    <2> QED
      BY <2>1, TwoType
  <1>3. Continue(fs) /\ UNCHANGED cmdVars
    BY DEF release_event
  <1> HIDE DEF fs
  <1>4. CmdPart' /\ Created' = Created /\ StackPart'
    BY <1>1, <1>2, <1>3, MoveStep DEF IndInv
  <1>5. notified' \in [ConnIds -> SUBSET Events]
    BY <1>1 DEF release_event, Notify, Events, IndInv, RawPart
  <1>6. RawPart'
    BY <1>5 DEF release_event, IndInv, RawPart
  <1>7. UNCHANGED <<hiredisVars, connVars, timer_pending, conn_, timer_conn, ncmd, nconn>>
    BY DEF release_event
  <1> QED
    BY <1>4, <1>6, <1>7, QueuesUnchanged, ContextsUnchanged, ConnsUnchanged,
       FreshUnchanged, SequencesUnchanged DEF IndInv, hiredisVars, connVars

LEMMA ReleaseEndInv == ASSUME IndInv, release_end PROVE IndInv'
  <1>1. stack # <<>>
    BY TopGood DEF IndInv, release_end
  <1>2. CmdPart' /\ Created' = Created /\ StackPart'
    BY <1>1, CmdsUnchanged, ReturnGood DEF IndInv, release_end
  <1>3. ConnPart' /\ RawPart'
    BY DEF release_end, IndInv, ConnPart, RawPart, NoTimer, ObjectStates
  <1>4. SequencePart'
    BY DEF release_end, IndInv, SequencePart, TimeoutSparesEstablished, NoTimer, ConnPart
  <1>5. UNCHANGED <<hiredisVars, reply_list_, timer_pending, ncmd, nconn>>
    BY DEF release_end
  <1> QED
    BY <1>2, <1>3, <1>4, <1>5, QueuesUnchanged, ContextsUnchanged, FreshUnchanged
    DEF IndInv, hiredisVars

\* The first command of a reply list and what is left of the list.
LEMMA ReplyListHead ==
  ASSUME QueuePart, NEW k \in ConnIds, reply_list_[k] # <<>>
  PROVE  /\ Head(reply_list_[k]) \in Created
         /\ [reply_list_ EXCEPT ![k] = Tail(@)] \in [ConnIds -> Seq(Created)]
  <1>1. reply_list_[k] \in Seq(Created)
    BY DEF QueuePart
  <1>2. Head(reply_list_[k]) \in Created /\ Tail(reply_list_[k]) \in Seq(Created)
    BY <1>1, TailType
  <1> QED
    BY <1>2 DEF QueuePart

LEMMA ConnectionReleaseInv == ASSUME IndInv, ConnectionRelease PROVE IndInv'
  <1> DEFINE k == Top.k
  <1>1. stack # <<>> /\ k \in ConnIds
    BY TopGood DEF IndInv, ConnectionRelease, connection_release, GoodFrame, Good, ConnOps
  <1>2. UNCHANGED <<hiredisVars, rawVars>>
    BY DEF ConnectionRelease
  <1>3. CASE reply_list_[k] # <<>>
    <2> DEFINE c == Head(reply_list_[k])
    <2> DEFINE fs == <<F("destroy", c, 0, "none"), Top>>
    <2>1. c \in Created /\ [reply_list_ EXCEPT ![k] = Tail(@)] \in [ConnIds -> Seq(Created)]
      BY <1>1, <1>3, ReplyListHead DEF IndInv
    <2>2. /\ CallBack(c, "CONNECTION", "null", fs)
          /\ reply_list_' = [reply_list_ EXCEPT ![k] = Tail(@)]
          /\ UNCHANGED <<conn_st, context_, conn_status_, sequence_, seq_alloc>>
      BY <1>3 DEF ConnectionRelease, connection_release
    <2>3. CmdPart' /\ Created' = Created /\ StackPart'
      BY <1>1, <2>1, <2>2, CallBackStep DEF IndInv, ErrorCodes, Replies
    <2>4. QueuePart'
      BY <1>2, <2>1, <2>2, <2>3 DEF IndInv, QueuePart, Entries, hiredisVars, rawVars
    <2> QED
      BY <1>2, <2>2, <2>3, <2>4, ContextsUnchanged, ConnsUnchanged, RawUnchanged,
         FreshUnchanged, SequencesUnchanged DEF IndInv, hiredisVars, rawVars
  <1>4. CASE reply_list_[k] = <<>>
    <2>1. /\ context_' = [context_ EXCEPT ![k] = FALSE]
          /\ conn_status_' = [conn_status_ EXCEPT ![k] = "DISCONNECTED"]
          /\ sequence_' = [sequence_ EXCEPT ![k] = seq_alloc + 1]
          /\ seq_alloc' = seq_alloc + 1
          /\ Return
          /\ UNCHANGED <<conn_st, reply_list_, cmdVars>>
      BY <1>4 DEF ConnectionRelease, connection_release
    <2>2. CmdPart' /\ Created' = Created /\ StackPart'
      BY <1>1, <2>1, CmdsUnchanged, ReturnGood DEF IndInv
    <2>3. ConnPart'
      BY <1>1, <2>1 DEF IndInv, ConnPart, Statuses
    <2>4. SequencePart'
      BY <1>1, <1>2, <2>1 DEF IndInv, ConnPart, RawPart, SequencePart,
         TimeoutSparesEstablished, rawVars
    <2> QED
      BY <1>2, <2>1, <2>2, <2>3, <2>4, QueuesUnchanged, ContextsUnchanged, RawUnchanged,
         FreshUnchanged DEF IndInv, hiredisVars, rawVars
  <1> QED
    BY <1>3, <1>4

LEMMA UserResetInv == ASSUME IndInv, UserReset PROVE IndInv'
  <1> DEFINE close == IF conn_ # 0 /\ context_[conn_]
                      THEN <<F("redisAsyncDisconnect", 0, conn_, "none")>> ELSE <<>>
  <1> DEFINE fs == <<F("reset", 0, 0, "none")>>
  <1>1. close \in Seq(GoodFrame)
    <2>1. conn_ # 0 => F("redisAsyncDisconnect", 0, conn_, "none") \in GoodFrame
      BY ConnFramesGood DEF GoodFrame, IndInv, RawPart
    <2> QED
      BY <2>1, OneType
  <1>2. fs \in Seq(GoodFrame)
    BY TimerFramesGood, OneType DEF GoodFrame
  <1>3. Call(close \o fs) /\ UNCHANGED <<cmdVars, hiredisVars, connVars, rawVars>>
    BY DEF UserReset
  <1> HIDE DEF close, fs
  <1>4. StackPart'
    BY <1>1, <1>2, <1>3, ConcatType, EnterStep DEF IndInv
  <1> QED
    BY <1>3, <1>4, OnlyStackMoves

\* The first entry of the retry queue.
LEMMA TimerHead ==
  ASSUME QueuePart, timer_pending # <<>>
  PROVE  /\ Head(timer_pending).cmd \in Created
         /\ Tail(timer_pending) \in Seq([at : Nat, cmd : Created])
  <1>1. /\ Head(timer_pending) \in [at : Nat, cmd : Created]
        /\ Tail(timer_pending) \in Seq([at : Nat, cmd : Created])
    BY TailType DEF QueuePart
  <1> QED
    BY <1>1

LEMMA ResetInv == ASSUME IndInv, reset PROVE IndInv'
  <1>1. stack # <<>>
    BY TopGood DEF IndInv, reset
  <1>2. UNCHANGED <<hiredisVars, connVars, conn_, now, ncmd, nconn, notified>>
    BY DEF reset
  <1>3. CASE timer_pending # <<>>
    <2> DEFINE c == Head(timer_pending).cmd
    <2> DEFINE fs == <<F("destroy_cmd", c, 0, "none"), Top>>
    <2>1. c \in Created /\ Tail(timer_pending) \in Seq([at : Nat, cmd : Created])
      BY <1>3, TimerHead DEF IndInv
    <2>2. /\ CallBack(c, "TIMEOUT", "null", fs)
          /\ timer_pending' = Tail(timer_pending)
          /\ UNCHANGED <<last_update, timer_conn>>
      BY <1>3 DEF reset
    <2>3. CmdPart' /\ Created' = Created /\ StackPart'
      BY <1>1, <2>1, <2>2, CallBackStep DEF IndInv, ErrorCodes, Replies
    <2>4. QueuePart'
      BY <1>2, <2>1, <2>2, <2>3 DEF IndInv, QueuePart, Entries, hiredisVars, connVars
    <2> QED
      BY <1>2, <2>2, <2>3, <2>4, ContextsUnchanged, ConnsUnchanged, RawUnchanged,
         FreshUnchanged, SequencesUnchanged DEF IndInv, hiredisVars, connVars
  <1>4. CASE timer_pending = <<>>
    <2>1. /\ last_update' = 0 /\ timer_conn' = NoTimer /\ Return
          /\ UNCHANGED <<timer_pending, cmdVars>>
      BY <1>4 DEF reset
    <2>2. CmdPart' /\ Created' = Created /\ StackPart'
      BY <1>1, <2>1, CmdsUnchanged, ReturnGood DEF IndInv
    <2>3. RawPart'
      BY <1>2, <2>1 DEF IndInv, RawPart, NoTimer
    <2>4. SequencePart'
      BY <1>2, <2>1 DEF IndInv, SequencePart, TimeoutSparesEstablished, NoTimer, ConnPart,
         connVars
    <2> QED
      BY <1>2, <2>1, <2>2, <2>3, <2>4, QueuesUnchanged, ContextsUnchanged, ConnsUnchanged,
         FreshUnchanged DEF IndInv, hiredisVars, connVars
  <1> QED
    BY <1>3, <1>4

LEMMA UserProcInv == ASSUME IndInv, NEW t \in Nat, UserProc(t) PROVE IndInv'
  <1> DEFINE fs == <<F("proc", 0, 0, "none")>>
  <1>1. fs \in Seq(GoodFrame)
    BY TimerFramesGood, OneType DEF GoodFrame
  <1>2. /\ Call(fs) /\ now' = t /\ last_update' = t
        /\ UNCHANGED <<cmdVars, hiredisVars, connVars, conn_, timer_pending, timer_conn, ncmd,
                       nconn, notified>>
    BY DEF UserProc
  <1> HIDE DEF fs
  <1>3. CmdPart' /\ Created' = Created /\ StackPart'
    BY <1>1, <1>2, EnterStep DEF IndInv
  <1>4. RawPart'
    BY <1>2 DEF IndInv, RawPart
  <1> QED
    BY <1>2, <1>3, <1>4, QueuesUnchanged, ContextsUnchanged, ConnsUnchanged,
       FreshUnchanged, SequencesUnchanged DEF IndInv, hiredisVars, connVars

LEMMA ProcInv == ASSUME IndInv, proc PROVE IndInv'
  <1>1. stack # <<>> /\ Top \in GoodFrame
    BY TopGood DEF IndInv, proc
  <1>2. UNCHANGED <<cmdVars, hiredisVars, connVars, conn_, last_update, timer_conn, now,
                    ncmd, nconn, notified>>
    BY DEF proc
  <1>3. CASE timer_pending # <<>> /\ Head(timer_pending).at <= now
    <2> DEFINE fs == <<F("exec", Head(timer_pending).cmd, 0, "none"), Top>>
    <2>1. /\ Head(timer_pending).cmd \in Created
          /\ Tail(timer_pending) \in Seq([at : Nat, cmd : Created])
      BY <1>3, TimerHead DEF IndInv
    <2>2. timer_pending' = Tail(timer_pending) /\ Continue(fs)
      BY <1>3 DEF proc
    <2>3. fs \in Seq(GoodFrame)
      <3>1. F("exec", Head(timer_pending).cmd, 0, "none") \in GoodFrame
        BY <2>1, CmdFramesGood DEF GoodFrame, Created
      <3> QED
        BY <1>1, <3>1, TwoType
    <2> HIDE DEF fs
    <2>4. CmdPart' /\ Created' = Created /\ StackPart'
      BY <1>1, <1>2, <2>2, <2>3, MoveStep DEF IndInv
    <2>5. QueuePart'
      BY <1>2, <2>1, <2>2, <2>4 DEF IndInv, QueuePart, Entries, hiredisVars, connVars
    <2> QED
      BY <1>2, <2>4, <2>5, ContextsUnchanged, ConnsUnchanged, RawUnchanged,
         FreshUnchanged, SequencesUnchanged DEF IndInv, hiredisVars, connVars
  <1>4. CASE ~(timer_pending # <<>> /\ Head(timer_pending).at <= now)
    <2> DEFINE fs == <<F("proc_conn", 0, 0, "none")>>
    <2>1. Continue(fs) /\ UNCHANGED timer_pending
      BY <1>4 DEF proc
    <2>2. fs \in Seq(GoodFrame)
      BY TimerFramesGood, OneType DEF GoodFrame
    <2> HIDE DEF fs
    <2>3. CmdPart' /\ Created' = Created /\ StackPart'
      BY <1>1, <1>2, <2>1, <2>2, MoveStep DEF IndInv
    <2> QED
      BY <1>2, <2>1, <2>3, OnlyStackMoves DEF rawVars
  <1> QED
    BY <1>3, <1>4

LEMMA ProcConnInv == ASSUME IndInv, proc_conn PROVE IndInv'
  <1> DEFINE rel == IF conn_ # 0 /\ sequence_[conn_] = timer_conn.sequence
                    THEN <<F("release_connection", 0, conn_, "close")>> ELSE <<>>
  <1> DEFINE clear == <<F("proc_clear", 0, 0, "none")>>
  <1> DEFINE fs == IF ~(timer_conn.timeout # 0 /\ now >= timer_conn.timeout) THEN <<>>
                   ELSE rel \o clear
  <1>1. stack # <<>>
    BY TopGood DEF IndInv, proc_conn
  <1>2. Continue(fs) /\ UNCHANGED <<cmdVars, hiredisVars, connVars, rawVars>>
    BY DEF proc_conn
  <1>3. rel \in Seq(GoodFrame)
    <2>1. conn_ # 0 => F("release_connection", 0, conn_, "close") \in GoodFrame
      BY ConnFramesGood DEF GoodFrame, IndInv, RawPart
    <2> QED
      BY <2>1, OneType
  <1>4. clear \in Seq(GoodFrame)
    BY TimerFramesGood, OneType DEF GoodFrame
  <1> HIDE DEF rel, clear
  <1>5. fs \in Seq(GoodFrame)
    BY <1>3, <1>4, ConcatType
  <1> HIDE DEF fs
  <1>6. StackPart'
    BY <1>1, <1>2, <1>5, MoveStep DEF IndInv
  <1> QED
    BY <1>2, <1>6, OnlyStackMoves

LEMMA ProcClearInv == ASSUME IndInv, proc_clear PROVE IndInv'
  <1>1. stack # <<>>
    BY TopGood DEF IndInv, proc_clear
  <1>2. CmdPart' /\ Created' = Created /\ StackPart'
    BY <1>1, CmdsUnchanged, ReturnGood DEF IndInv, proc_clear
  <1>3. RawPart'
    BY DEF proc_clear, IndInv, RawPart, NoTimer
  <1>4. SequencePart'
    BY DEF proc_clear, IndInv, SequencePart, TimeoutSparesEstablished, NoTimer, ConnPart,
       connVars
  <1>5. UNCHANGED <<hiredisVars, connVars, timer_pending, ncmd, nconn>>
    BY DEF proc_clear
  <1> QED
    BY <1>2, <1>3, <1>4, <1>5, QueuesUnchanged, ContextsUnchanged, ConnsUnchanged,
       FreshUnchanged DEF IndInv, hiredisVars, connVars

LEMMA OnReplyInv == ASSUME IndInv, on_reply_wrapper PROVE IndInv'
  <1> DEFINE c == Top.c
  <1> DEFINE k == Top.k
  <1> DEFINE answer == <<F("call_reply", c, k, Top.a)>>
  <1> DEFINE pop == <<F("pop_reply", c, k, "retry")>>
  <1> DEFINE again == <<F("retry", c, 0, "none")>>
  <1>1. stack # <<>> /\ c \in Created /\ k \in ConnIds /\ Top.a \in Replies
    BY TopGood DEF IndInv, on_reply_wrapper, GoodFrame, Good, CmdOps, ConnOps
  <1>2. error_code_' \in [CmdIds -> ErrorCodes]
    BY DEF on_reply_wrapper, IndInv, CmdPart, CmdTypeOK, ErrorCodes
  <1>3. UNCHANGED <<cmd_st, callback_, ttl_, calls, got, hiredisVars, connVars, rawVars>>
    BY DEF on_reply_wrapper
  <1>4. CmdPart' /\ Created' = Created /\ GoodFrame' = GoodFrame
    BY <1>2, <1>3 DEF IndInv, CmdPart, CmdTypeOK, Created, GoodFrame, Good
  <1>5. answer \in Seq(GoodFrame) /\ pop \in Seq(GoodFrame) /\ again \in Seq(GoodFrame)
    <2>1. Created \in SUBSET CmdIds
      BY DEF Created
    <2>2. /\ F("call_reply", c, k, Top.a) \in GoodFrame
          /\ F("pop_reply", c, k, "retry") \in GoodFrame
          /\ F("retry", c, 0, "none") \in GoodFrame
      BY <1>1, <2>1, ReplyFramesGood, CmdFramesGood DEF GoodFrame
    <2> QED
      BY <2>2, OneType
  <1>6. Continue(answer) \/ Continue(pop) \/ Continue(again)
    BY DEF on_reply_wrapper
  <1> HIDE DEF answer, pop, again
  <1>7. StackPart'
    BY <1>1, <1>4, <1>5, <1>6, ContinueGood DEF IndInv
  <1> QED
    BY <1>3, <1>4, <1>7, OnlyCmdsMove

LEMMA OnConnectedInv == ASSUME IndInv, on_connected_wrapper PROVE IndInv'
  <1> DEFINE status == IF Top.a = "OK" /\ conn_status_[Top.k] = "DISCONNECTED"
                       THEN "OTHER" ELSE Top.a
  <1> DEFINE fs == <<F("user", 0, Top.k, "on_connected"), F("on_connected_end", 0, Top.k, status)>>
  <1>1. stack # <<>> /\ Top.k \in ConnIds /\ Top.a \in {"OK", "IO", "OTHER"}
    BY TopGood DEF IndInv, on_connected_wrapper, GoodFrame, Good, ConnOps
  <1>2. fs \in Seq(GoodFrame)
    <2>1. status \in {"OK", "IO", "OTHER"}
      BY <1>1
    <2>2. /\ F("user", 0, Top.k, "on_connected") \in GoodFrame
          /\ F("on_connected_end", 0, Top.k, status) \in GoodFrame
      BY <1>1, <2>1, ConnFramesGood, HiredisFramesGood DEF GoodFrame
    <2> QED
      BY <2>2, TwoType
  <1>3. Continue(fs) /\ UNCHANGED cmdVars
    BY DEF on_connected_wrapper
  <1>4. notified' \in [ConnIds -> SUBSET Events]
    BY <1>1 DEF on_connected_wrapper, Notify, Events, IndInv, RawPart
  <1> HIDE DEF fs
  <1>5. CmdPart' /\ Created' = Created /\ StackPart'
    BY <1>1, <1>2, <1>3, MoveStep DEF IndInv
  <1>6. RawPart'
    BY <1>4 DEF on_connected_wrapper, IndInv, RawPart
  <1>7. UNCHANGED <<hiredisVars, connVars, timer_pending, conn_, timer_conn, ncmd, nconn>>
    BY DEF on_connected_wrapper
  <1> QED
    BY <1>5, <1>6, <1>7, QueuesUnchanged, ContextsUnchanged, ConnsUnchanged,
       FreshUnchanged, SequencesUnchanged DEF IndInv, hiredisVars, connVars

\* Going on with release_connection of whatever conn_ is.
LEMMA ReleaseKeepStep ==
  ASSUME IndInv, stack # <<>>, Continue(<<F("release_connection", 0, conn_, "keep")>>),
         UNCHANGED <<cmdVars, hiredisVars, connVars, rawVars>>
  PROVE  IndInv'
  <1>1. <<F("release_connection", 0, conn_, "keep")>> \in Seq(GoodFrame)
    <2>1. F("release_connection", 0, conn_, "keep") \in GoodFrame
      BY DEF GoodFrame, Good, F, Frame, Ops, Args, CmdOps, ConnOps, IndInv, RawPart
    <2> QED
      BY <2>1, OneType
  <1>2. StackPart'
    BY <1>1, MoveStep DEF IndInv
  <1> QED
    BY <1>2, OnlyStackMoves

LEMMA OnConnectedEndInv == ASSUME IndInv, on_connected_end PROVE IndInv'
  <1>1. stack # <<>> /\ Top.k \in ConnIds
    BY TopGood DEF IndInv, on_connected_end, GoodFrame, Good, ConnOps
  <1>2. CASE Top.a = "OK"
    <2> DEFINE k == Top.k
    <2>1. set_connected(k) /\ Return /\ UNCHANGED <<cmdVars, hiredisVars, rawVars>>
      BY <1>2 DEF on_connected_end
    <2>2. CmdPart' /\ Created' = Created /\ StackPart'
      BY <1>1, <2>1, CmdsUnchanged, ReturnGood DEF IndInv
    <2>3. ConnPart'
      BY <1>1, <2>1 DEF IndInv, ConnPart, Statuses, set_connected
    <2>4. SequencePart'
      <3>1. CASE UNCHANGED <<conn_status_, sequence_, seq_alloc>>
        BY <2>1, <3>1, SequencesUnchanged DEF IndInv, rawVars
      <3>2. CASE /\ conn_status_' = [conn_status_ EXCEPT ![k] = "CONNECTED"]
                 /\ sequence_' = [sequence_ EXCEPT ![k] = seq_alloc + 1]
                 /\ seq_alloc' = seq_alloc + 1
        <4>1. \A j \in ConnIds : sequence_'[j] <= seq_alloc'
          BY <1>1, <3>2 DEF IndInv, ConnPart, SequencePart
        <4>2. timer_conn'.sequence <= seq_alloc /\ seq_alloc \in Nat
              /\ timer_conn'.sequence \in Nat
          BY <2>1 DEF IndInv, ConnPart, RawPart, SequencePart, rawVars
        <4>3. sequence_'[k] = seq_alloc + 1 /\ sequence_'[k] # timer_conn'.sequence
          BY <1>1, <3>2, <4>2 DEF IndInv, ConnPart
        <4>4. TimeoutSparesEstablished'
          BY <1>1, <2>1, <3>2, <4>3 DEF IndInv, ConnPart, RawPart, SequencePart,
             TimeoutSparesEstablished, rawVars
        <4> QED
          BY <3>2, <4>1, <4>2, <4>4 DEF SequencePart
      <3> QED
        BY <2>1, <3>1, <3>2 DEF set_connected
    <2> QED
      BY <2>1, <2>2, <2>3, <2>4, QueuesUnchanged, ContextsUnchanged, RawUnchanged,
         FreshUnchanged DEF IndInv, set_connected, hiredisVars, rawVars
  <1>3. CASE Top.a # "OK"
    BY <1>1, <1>3, ReleaseKeepStep DEF on_connected_end
  <1> QED
    BY <1>2, <1>3

LEMMA OnDisconnectedInv == ASSUME IndInv, on_disconnected_wrapper PROVE IndInv'
  <1>1. stack # <<>>
    BY TopGood DEF IndInv, on_disconnected_wrapper
  <1> QED
    BY <1>1, ReleaseKeepStep DEF on_disconnected_wrapper

LEMMA UserReturnInv == ASSUME IndInv, UserReturn PROVE IndInv'
  <1>1. stack # <<>>
    BY TopGood DEF IndInv, UserReturn
  <1>2. StackPart'
    BY <1>1, CmdsUnchanged, ReturnGood DEF IndInv, UserReturn
  <1> QED
    BY <1>2, OnlyStackMoves DEF UserReturn

LEMMA CallReplyInv == ASSUME IndInv, CallReply PROVE IndInv'
  <1> DEFINE c == Top.c
  <1> DEFINE k == Top.k
  <1>1. stack # <<>> /\ c \in Created /\ k \in ConnIds /\ Top.a \in Replies
    BY TopGood DEF IndInv, CallReply, call_reply, GoodFrame, Good, CmdOps, ConnOps
  <1>2. UNCHANGED <<hiredisVars, connVars, rawVars>>
    BY DEF CallReply, call_reply
  <1>3. CASE Continue(<<F("pop_reply", c, k, Top.a)>>) /\ UNCHANGED cmdVars
    <2>1. <<F("pop_reply", c, k, Top.a)>> \in Seq(GoodFrame)
      BY <1>1, ReplyFramesGood, OneType DEF GoodFrame, Created
    <2>2. StackPart'
      BY <1>1, <1>3, <2>1, MoveStep DEF IndInv
    <2> QED
      BY <1>2, <1>3, <2>2, OnlyStackMoves
  <1>4. CASE CallBack(c, "NOT_FOUND", Top.a, <<F("destroy", c, 0, "none")>>)
    <2> DEFINE fs == <<F("destroy", c, 0, "none")>>
    <2>1. CmdPart' /\ Created' = Created /\ StackPart'
      BY <1>1, <1>4, CallBackStep DEF IndInv, ErrorCodes
    <2> QED
      BY <1>2, <2>1, OnlyCmdsMove
  <1> QED
    BY <1>3, <1>4 DEF CallReply, call_reply

LEMMA PopReplyInv == ASSUME IndInv, PopReply PROVE IndInv'
  <1> DEFINE c == Top.c
  <1> DEFINE k == Top.k
  <1> DEFINE e == Head(reply_list_[k])
  <1>1. stack # <<>> /\ c \in Created /\ k \in ConnIds /\ Top.a \in Replies \cup {"retry"}
    BY TopGood DEF IndInv, PopReply, pop_reply, GoodFrame, Good, CmdOps, ConnOps
  <1>2. UNCHANGED <<conn_st, context_, conn_status_, sequence_, seq_alloc, hiredisVars, rawVars>>
    BY DEF PopReply, pop_reply
  <1>3. CASE reply_list_[k] = <<>>
    <2>1. ub' = TRUE /\ UNCHANGED <<stack, cmdVars, reply_list_>>
      BY <1>3 DEF PopReply, pop_reply
    <2>2. StackPart'
      BY <2>1, CmdsUnchanged DEF IndInv, StackPart
    <2> QED
      BY <1>2, <2>1, <2>2, OnlyStackMoves DEF connVars
  <1>4. CASE reply_list_[k] # <<>>
    <2>1. e \in Created /\ [reply_list_ EXCEPT ![k] = Tail(@)] \in [ConnIds -> Seq(Created)]
      BY <1>1, <1>4, ReplyListHead DEF IndInv
    <2>2. reply_list_' = [reply_list_ EXCEPT ![k] = Tail(@)]
      BY <1>4 DEF PopReply, pop_reply
    <2>3. CmdPart' /\ Created' = Created /\ StackPart'
      <3>1. CASE e # c
        <4> DEFINE fs == <<F("destroy", e, 0, "none"), Top>>
        <4>1. CallBack(e, "TIMEOUT", "null", fs)
          BY <1>4, <3>1 DEF PopReply, pop_reply
        <4> QED
          BY <1>1, <2>1, <4>1, CallBackStep DEF IndInv, ErrorCodes, Replies
      <3>2. CASE e = c /\ Top.a = "retry"
        <4>1. Continue(<<F("retry", c, 0, "none")>>) /\ UNCHANGED cmdVars
          BY <1>4, <3>2 DEF PopReply, pop_reply
        <4>2. <<F("retry", c, 0, "none")>> \in Seq(GoodFrame)
          BY <1>1, CmdFramesGood, OneType DEF GoodFrame, Created
        <4> QED
          BY <1>1, <4>1, <4>2, MoveStep DEF IndInv
      <3>3. CASE e = c /\ Top.a # "retry"
        <4> DEFINE fs == <<F("destroy", c, 0, "none")>>
        <4>1. CallBack(c, Translate(k, c, Top.a), Top.a, fs)
          BY <1>1, <1>4, <3>3 DEF PopReply, pop_reply, Replies
        <4>2. Translate(k, c, Top.a) \in ErrorCodes
          BY <1>1 DEF Translate, ErrorCodes, IndInv, CmdPart, CmdTypeOK, Created
        <4> QED
          BY <1>1, <3>3, <4>1, <4>2, CallBackStep DEF IndInv
      <3> QED
        BY <3>1, <3>2, <3>3
    <2>4. QueuePart'
      BY <1>2, <2>1, <2>2, <2>3 DEF IndInv, QueuePart, Entries, hiredisVars, rawVars
    <2> QED
      BY <1>2, <2>3, <2>4, ContextsUnchanged, ConnsUnchanged, RawUnchanged,
         FreshUnchanged, SequencesUnchanged DEF IndInv, hiredisVars, rawVars
  <1> QED
    BY <1>3, <1>4

\* What hiredis does by itself: the stack and the contexts move, and its queues
\* only get shorter.
LEMMA HiredisStep ==
  ASSUME IndInv, StackPart', ContextPart', replies' \in [ConnIds -> Seq(Entries)],
         UNCHANGED <<cmdVars, connVars, rawVars>>
  PROVE  IndInv'
  <1>1. CmdPart' /\ Created' = Created
    BY CmdsUnchanged DEF IndInv
  <1>2. QueuePart'
    BY <1>1 DEF IndInv, QueuePart, Entries, connVars, rawVars
  <1> QED
    BY <1>1, <1>2, ConnsUnchanged, RawUnchanged, FreshUnchanged, SequencesUnchanged
    DEF IndInv, connVars, rawVars

\* Freeing the context, or nothing.
LEMMA FreeFramesGood ==
  ASSUME NEW k \in ConnIds, NEW p
  PROVE  /\ <<F("h_free", 0, k, "none")>> \in Seq(GoodFrame)
         /\ (IF p THEN <<F("h_free", 0, k, "none")>> ELSE <<>>) \in Seq(GoodFrame)
  <1>1. <<F("h_free", 0, k, "none")>> \in Seq(GoodFrame)
    BY HiredisFramesGood, OneType DEF GoodFrame
  <1> QED
    BY <1>1

LEMMA DisconnectInv == ASSUME IndInv, ByHiredis(redisAsyncDisconnect) PROVE IndInv'
  <1> DEFINE k == Top.k
  <1> DEFINE fs == IF ~in_callback[k] /\ replies[k] = <<>>
                   THEN <<F("h_free", 0, k, "none")>> ELSE <<>>
  <1>1. stack # <<>> /\ k \in ConnIds
    BY TopGood DEF IndInv, ByHiredis, redisAsyncDisconnect, GoodFrame, Good, ConnOps
  <1>2. fs \in Seq(GoodFrame)
    BY <1>1, FreeFramesGood
  <1>3. Continue(fs) /\ UNCHANGED <<replies, cmdVars, connVars, rawVars>>
    BY DEF ByHiredis, redisAsyncDisconnect
  <1> HIDE DEF fs
  <1>4. StackPart'
    BY <1>1, <1>2, <1>3, MoveStep DEF IndInv
  <1>5. ContextPart'
    BY DEF ByHiredis, redisAsyncDisconnect, IndInv, ContextPart
  <1> QED
    BY <1>3, <1>4, <1>5, HiredisStep DEF IndInv, QueuePart

\* The end of a callback of a context that may have been told to disconnect.
LEMMA CallbackEndInv ==
  ASSUME IndInv, ByHiredis(ConnectEnd) \/ ByHiredis(ReplyEnd)
  PROVE  IndInv'
  <1> DEFINE k == Top.k
  <1> DEFINE fs == IF disconnecting[k] /\ replies[k] = <<>>
                   THEN <<F("h_free", 0, k, "none")>> ELSE <<>>
  <1>1. stack # <<>> /\ k \in ConnIds
    BY TopGood DEF IndInv, ByHiredis, ConnectEnd, ReplyEnd, GoodFrame, Good, ConnOps
  <1>2. fs \in Seq(GoodFrame)
    BY <1>1, FreeFramesGood
  <1>3. Continue(fs) /\ UNCHANGED <<replies, cmdVars, connVars, rawVars>>
    BY DEF ByHiredis, ConnectEnd, ReplyEnd
  <1> HIDE DEF fs
  <1>4. StackPart'
    BY <1>1, <1>2, <1>3, MoveStep DEF IndInv
  <1>5. ContextPart'
    BY DEF ByHiredis, ConnectEnd, ReplyEnd, IndInv, ContextPart
  <1> QED
    BY <1>3, <1>4, <1>5, HiredisStep DEF IndInv, QueuePart

LEMMA ConnectFailedEndInv == ASSUME IndInv, ByHiredis(ConnectFailedEnd) PROVE IndInv'
  <1> DEFINE fs == <<F("h_free", 0, Top.k, "none")>>
  <1>1. stack # <<>> /\ Top.k \in ConnIds
    BY TopGood DEF IndInv, ByHiredis, ConnectFailedEnd, GoodFrame, Good, ConnOps
  <1>2. fs \in Seq(GoodFrame)
    BY <1>1, FreeFramesGood
  <1>3. Continue(fs) /\ UNCHANGED <<replies, cmdVars, connVars, rawVars>>
    BY DEF ByHiredis, ConnectFailedEnd
  <1> HIDE DEF fs
  <1>4. StackPart'
    BY <1>1, <1>2, <1>3, MoveStep DEF IndInv
  <1>5. ContextPart'
    BY VersionAssumption DEF ByHiredis, ConnectFailedEnd, IndInv, ContextPart, VersionAssumption
  <1> QED
    BY <1>3, <1>4, <1>5, HiredisStep DEF IndInv, QueuePart

LEMMA ConnectOutcomeInv ==
  ASSUME IndInv, NEW k \in ConnIds, ByHiredis(ConnectDone(k)) \/ ByHiredis(ConnectFailed(k))
  PROVE  IndInv'
  <1> DEFINE done == <<F("on_connected", 0, k, "OK"), F("h_connect_end", 0, k, "none")>>
  <1> DEFINE failed == <<F("on_connected", 0, k, "IO"), F("h_connect_failed", 0, k, "none")>>
  <1>1. done \in Seq(GoodFrame) /\ failed \in Seq(GoodFrame)
    <2>1. /\ F("on_connected", 0, k, "OK") \in GoodFrame
          /\ F("on_connected", 0, k, "IO") \in GoodFrame
          /\ F("h_connect_end", 0, k, "none") \in GoodFrame
          /\ F("h_connect_failed", 0, k, "none") \in GoodFrame
      BY HiredisFramesGood DEF GoodFrame
    <2> QED
      BY <2>1, TwoType
  <1>2. (Call(done) \/ Call(failed)) /\ UNCHANGED <<replies, cmdVars, connVars, rawVars>>
    BY DEF ByHiredis, ConnectDone, ConnectFailed
  <1> HIDE DEF done, failed
  <1>3. StackPart'
    BY <1>1, <1>2, EnterStep DEF IndInv
  <1>4. ContextPart'
    BY DEF ByHiredis, ConnectDone, ConnectFailed, IndInv, ContextPart, ContextStates
  <1> QED
    BY <1>2, <1>3, <1>4, HiredisStep DEF IndInv, QueuePart

\* The first command of hiredis's queue and what is left of the queue.
LEMMA RepliesHead ==
  ASSUME QueuePart, NEW k \in ConnIds, replies[k] # <<>>, NEW r \in Replies
  PROVE  /\ ReplyFrame(k, r) \in GoodFrame
         /\ [replies EXCEPT ![k] = Tail(@)] \in [ConnIds -> Seq(Entries)]
  <1>1. replies[k] \in Seq(Entries)
    BY DEF QueuePart
  <1>2. Head(replies[k]) \in Entries /\ Tail(replies[k]) \in Seq(Entries)
    BY <1>1, TailType
  <1>3. ReplyFrame(k, r) = F("on_reply", Head(replies[k]).c, k, r)
          /\ Head(replies[k]).c \in Created
    BY <1>2 DEF ReplyFrame, Entries
  <1>4. ReplyFrame(k, r) \in GoodFrame
    BY <1>3, ReplyFramesGood DEF GoodFrame, Created
  <1> QED
    BY <1>2, <1>4 DEF QueuePart

LEMMA ReplyArrivesInv ==
  ASSUME IndInv, NEW k \in ConnIds, NEW r \in {"ok", "error"}, ByHiredis(ReplyArrives(k, r))
  PROVE  IndInv'
  <1> DEFINE fs == <<ReplyFrame(k, r), F("h_reply_end", 0, k, "none")>>
  <1>1. /\ ReplyFrame(k, r) \in GoodFrame
        /\ [replies EXCEPT ![k] = Tail(@)] \in [ConnIds -> Seq(Entries)]
    BY RepliesHead DEF ByHiredis, ReplyArrives, IndInv, Replies
  <1>2. fs \in Seq(GoodFrame)
    <2>1. F("h_reply_end", 0, k, "none") \in GoodFrame
      BY HiredisFramesGood DEF GoodFrame
    <2> QED
      BY <1>1, <2>1, TwoType
  <1>3. /\ Call(fs) /\ replies' = [replies EXCEPT ![k] = Tail(@)]
        /\ UNCHANGED <<cmdVars, connVars, rawVars>>
    BY DEF ByHiredis, ReplyArrives
  <1> HIDE DEF fs
  <1>4. StackPart'
    BY <1>2, <1>3, EnterStep DEF IndInv
  <1>5. ContextPart'
    BY DEF ByHiredis, ReplyArrives, IndInv, ContextPart
  <1> QED
    BY <1>1, <1>3, <1>4, <1>5, HiredisStep

LEMMA ConnectionLostInv ==
  ASSUME IndInv, NEW k \in ConnIds, NEW e \in {"IO", "OTHER"}, ByHiredis(ConnectionLost(k, e))
  PROVE  IndInv'
  <1> DEFINE fs == <<F("h_free", 0, k, "none")>>
  <1>1. fs \in Seq(GoodFrame)
    BY FreeFramesGood
  <1>2. Call(fs) /\ UNCHANGED <<replies, cmdVars, connVars, rawVars>>
    BY DEF ByHiredis, ConnectionLost
  <1> HIDE DEF fs
  <1>3. StackPart'
    BY <1>1, <1>2, EnterStep DEF IndInv
  <1>4. ContextPart'
    BY VersionAssumption DEF ByHiredis, ConnectionLost, IndInv, ContextPart, VersionAssumption
  <1> QED
    BY <1>2, <1>3, <1>4, HiredisStep DEF IndInv, QueuePart

LEMMA FreeContextInv == ASSUME IndInv, ByHiredis(FreeContext) PROVE IndInv'
  <1> DEFINE k == Top.k
  <1>1. stack # <<>> /\ Top \in GoodFrame /\ k \in ConnIds
    BY TopGood DEF IndInv, ByHiredis, FreeContext, GoodFrame, Good, ConnOps
  <1>2. UNCHANGED <<cmdVars, connVars, rawVars>>
    BY DEF ByHiredis
  <1>3. ContextPart'
    BY DEF ByHiredis, FreeContext, IndInv, ContextPart
  <1>4. CASE replies[k] # <<>>
    <2> DEFINE fs == <<ReplyFrame(k, "null"), Top>>
    <2>1. /\ ReplyFrame(k, "null") \in GoodFrame
          /\ [replies EXCEPT ![k] = Tail(@)] \in [ConnIds -> Seq(Entries)]
      BY <1>1, <1>4, RepliesHead DEF IndInv, Replies
    <2>2. Continue(fs) /\ replies' = [replies EXCEPT ![k] = Tail(@)]
      BY <1>4 DEF ByHiredis, FreeContext
    <2>3. fs \in Seq(GoodFrame)
      BY <1>1, <2>1, TwoType
    <2> HIDE DEF fs
    <2>4. StackPart'
      BY <1>1, <1>2, <2>2, <2>3, MoveStep DEF IndInv
    <2> QED
      BY <1>2, <1>3, <2>1, <2>2, <2>4, HiredisStep
  <1>5. CASE replies[k] = <<>>
    <2> DEFINE ev == IF ctx_st[k] = "connected"
                     THEN <<F("on_disconnected", 0, k, ctx_err[k])>> ELSE <<>>
    <2> DEFINE fs == <<F("h_free_end", 0, k, "none")>>
    <2>1. Continue(ev \o fs) /\ UNCHANGED replies
      BY <1>5 DEF ByHiredis, FreeContext
    <2>2. ev \in Seq(GoodFrame)
      <3>1. ctx_err[k] \in {"OK", "IO", "OTHER"}
        BY <1>1 DEF IndInv, ContextPart
      <3>2. <<F("on_disconnected", 0, k, ctx_err[k])>> \in Seq(GoodFrame)
        BY <1>1, <3>1, HiredisFramesGood, OneType DEF GoodFrame
      <3> QED
        BY <3>2
    <2>3. fs \in Seq(GoodFrame)
      BY <1>1, HiredisFramesGood, OneType DEF GoodFrame
    <2> HIDE DEF ev, fs
    <2>4. StackPart'
      BY <1>1, <1>2, <2>1, <2>2, <2>3, ConcatType, MoveStep DEF IndInv
    <2> QED
      BY <1>2, <1>3, <2>1, <2>4, HiredisStep DEF IndInv, QueuePart
  <1> QED
    BY <1>4, <1>5

LEMMA FreeContextEndInv == ASSUME IndInv, ByHiredis(FreeContextEnd) PROVE IndInv'
  <1>1. stack # <<>>
    BY TopGood DEF IndInv, ByHiredis, FreeContextEnd
  <1>2. StackPart'
    BY <1>1, CmdsUnchanged, ReturnGood DEF IndInv, ByHiredis, FreeContextEnd
  <1>3. ContextPart'
    BY DEF ByHiredis, FreeContextEnd, IndInv, ContextPart, ContextStates
  <1> QED
    BY <1>2, <1>3, HiredisStep DEF ByHiredis, FreeContextEnd, IndInv, QueuePart

LEMMA CrashInv == ASSUME IndInv, Crash PROVE IndInv'
  <1>1. UNCHANGED <<cmdVars, hiredisVars, connVars, rawVars, stack>> /\ ub' = TRUE
    BY DEF Crash, UseAfterFree, cmdVars, hiredisVars, connVars
  <1>2. StackPart'
    BY <1>1, CmdsUnchanged DEF IndInv, StackPart
  <1> QED
    BY <1>1, <1>2, OnlyStackMoves

LEMMA StutterInv == ASSUME IndInv, UNCHANGED vars PROVE IndInv'
  <1>1. UNCHANGED <<cmdVars, hiredisVars, connVars, rawVars, stack, ub>>
    BY DEF vars, stackVars
  <1>2. StackPart'
    BY <1>1, CmdsUnchanged DEF IndInv, StackPart
  <1> QED
    BY <1>1, <1>2, OnlyStackMoves

-----------------------------------------------------------------------------
(* The theorems                                                            *)

LEMMA InitInv == Init => IndInv
  <1> SUFFICES ASSUME Init PROVE IndInv
    OBVIOUS
  <1> USE DEF Init, RuntimeInit, CmdInit, HiredisInit, ConnInit
  <1>1. CmdPart
    BY TTLAssumption DEF CmdPart, CmdTypeOK, ErrorCodes, Replies, ObjectStates, TTLAssumption
  <1>2. StackPart /\ QueuePart
    BY EmptyType DEF StackPart, QueuePart
  <1>3. ContextPart /\ ConnPart
    BY DEF ContextPart, ContextStates, ConnPart, Statuses, ObjectStates
  <1>4. RawPart
    BY BoundsAssumption DEF RawPart, NoTimer, BoundsAssumption
  <1>5. FreshPart
    BY DEF FreshPart
  <1>6. SequencePart
    BY DEF SequencePart, TimeoutSparesEstablished, NoTimer
  <1> QED
    BY <1>1, <1>2, <1>3, <1>4, <1>5, <1>6 DEF IndInv

LEMMA LibraryStepInv == ASSUME IndInv, LibraryStep PROVE IndInv'
  BY ExecInv, ExecConnectInv, ExecAuthFormatFailedInv, ExecConnectFailedInv, ExecConnInv,
     ExecConnClosingInv, ExecConnFailedInv, RetryInv, DestroyCmdInv, DestroyInv,
     ReleaseConnectionInv, ReleaseEventInv, ReleaseEndInv, ConnectionReleaseInv, ResetInv,
     ProcInv, ProcConnInv, ProcClearInv, OnReplyInv, OnConnectedInv, OnConnectedEndInv,
     OnDisconnectedInv, CallReplyInv, PopReplyInv, DisconnectInv, CallbackEndInv,
     ConnectFailedEndInv, FreeContextInv, FreeContextEndInv
  DEF LibraryStep

LEMMA NextInv == ASSUME IndInv, [Next]_vars PROVE IndInv'
  <1>1. CASE LibraryStep
    BY <1>1, LibraryStepInv
  <1>2. CASE NetworkStep
    BY <1>2, ConnectOutcomeInv, ReplyArrivesInv, ConnectionLostInv DEF NetworkStep
  <1>3. CASE Proc
    <2>1. PICK t \in {now, now + 1} : UserProc(t)
      BY <1>3 DEF Proc
    <2>2. t \in Nat
      BY DEF IndInv, RawPart
    <2> QED
      BY <2>1, <2>2, UserProcInv
  <1>4. CASE UserReturn \/ UserExec \/ UserConnect \/ UserRelease \/ UserReset
    BY <1>4, UserReturnInv, UserExecInv, UserConnectInv, UserReleaseInv, UserResetInv
  <1>5. CASE Crash \/ Idle \/ UNCHANGED vars
    BY <1>5, CrashInv, StutterInv DEF Idle
  <1> QED
    BY <1>1, <1>2, <1>3, <1>4, <1>5 DEF Next

LEMMA InvTypeOK == IndInv => TypeOK
  <1> SUFFICES ASSUME IndInv PROVE TypeOK
    OBVIOUS
  <1>1. Created \subseteq CmdIds
    BY DEF Created
  <1>2. RuntimeTypeOK
    <2>1. GoodFrame \subseteq Frame
      BY DEF GoodFrame, Good
    <2>2. stack \in Seq(Frame)
      BY <2>1, SeqMono DEF IndInv, StackPart
    <2> QED
      BY <2>2 DEF IndInv, StackPart, CmdPart, ConnPart, ContextPart, RuntimeTypeOK
  <1>3. Seq(Created) \subseteq Seq(CmdIds)
    BY <1>1, SeqMono
  <1>4. HiredisTypeOK /\ ConnTypeOK
    <2>1. Entries \subseteq CallbackEntry
      BY <1>1 DEF Entries, CallbackEntry
    <2>2. Seq(Entries) \subseteq Seq(CallbackEntry)
      BY <2>1, SeqMono
    <2> QED
      BY <1>3, <2>2 DEF HiredisTypeOK, ConnTypeOK, IndInv, QueuePart, ContextPart, ConnPart
  <1>5. timer_pending \in Seq(Delay)
    <2>1. [at : Nat, cmd : Created] \subseteq Delay
      BY <1>1 DEF Delay
    <2> QED
      BY <2>1, SeqMono DEF IndInv, QueuePart
  <1>6. CmdTypeOK /\ RawPart
    BY DEF IndInv, CmdPart
  <1> QED
    BY <1>2, <1>4, <1>5, <1>6 DEF TypeOK, RawPart

\* The invariant holds in every state the connector can reach.
THEOREM Invariance == Spec => []IndInv
  <1>1. Init => IndInv
    BY InitInv
  <1>2. IndInv /\ [Next]_vars => IndInv'
    BY NextInv
  <1> QED
    BY <1>1, <1>2, PTL DEF Spec

\* All state keeps its type: in particular the TTL never wraps around (every
\* exec(conn, cmd) checks it before it counts down), and every queue, reply
\* list and pending call refers to commands and connections that exist or
\* have existed.
THEOREM TypeCorrect == Spec => []TypeOK
  BY Invariance, InvTypeOK, PTL

\* The connect timer in raw::proc never hits an established connection.
THEOREM TimerSafe == Spec => []TimeoutSparesEstablished
  <1>1. IndInv => TimeoutSparesEstablished
    BY DEF IndInv, SequencePart
  <1> QED
    BY <1>1, Invariance, PTL

-----------------------------------------------------------------------------
(* Raw implements Lifecycle                                                *)

\* What a step does to the commands: nothing that Lifecycle sees, or one of
\* them is created, called back or destroyed.
CmdStep ==
  \/ UNCHANGED <<cmd_st, calls>>
  \/ \E c \in CmdIds : cmd_st[c] = "none" /\ create(c)
  \/ \E c \in Created, code \in ErrorCodes, r \in Replies :
       cmd_call_reply(c, code, r) /\ UNCHANGED cmd_st
  \/ \E c \in Created : /\ cmd_st[c] = "live" /\ ~callback_[c]
                         /\ cmd_st' = [cmd_st EXCEPT ![c] = "freed"]
                         /\ UNCHANGED calls

LEMMA Stages ==
  /\ \A n \in Nat : Stage("none", n) = "none" /\ Stage("freed", n) = "destroyed"
  /\ Stage("live", 0) = "pending" /\ Stage("live", 1) = "called"
  BY DEF Stage

\* The life of one command changes when no other command does.
LEMMA OneLife ==
  ASSUME NEW c \in CmdIds, NEW v, lifeOf'[c] = v,
         \A d \in CmdIds \ {c} : cmd_st'[d] = cmd_st[d] /\ calls'[d] = calls[d]
  PROVE  lifeOf' = [lifeOf EXCEPT ![c] = v]
  <1>1. \A d \in CmdIds \ {c} : lifeOf'[d] = lifeOf[d]
    BY DEF lifeOf
  <1>2. lifeOf = [d \in CmdIds |-> lifeOf[d]] /\ lifeOf' = [d \in CmdIds |-> lifeOf'[d]]
    BY DEF lifeOf
  <1> QED
    BY <1>1, <1>2

LEMMA CmdStepRefines ==
  ASSUME CmdPart, CmdStep
  PROVE  [L!LifeNext]_lifeOf
  <1>1. CASE UNCHANGED <<cmd_st, calls>>
    BY <1>1 DEF lifeOf
  <1>2. ASSUME NEW c \in CmdIds, cmd_st[c] = "none", create(c)
        PROVE  L!Exec(c)
    <2>1. lifeOf[c] = "none" /\ calls[c] = 0
      BY <1>2, Stages DEF lifeOf, CmdPart
    <2>2. lifeOf' = [lifeOf EXCEPT ![c] = "pending"]
      <3>1. cmd_st'[c] = "live" /\ calls'[c] = 0
            /\ \A d \in CmdIds \ {c} : cmd_st'[d] = cmd_st[d] /\ calls'[d] = calls[d]
        BY <1>2, <2>1 DEF create, CmdPart
      <3>2. lifeOf'[c] = "pending"
        BY <3>1, Stages DEF lifeOf
      <3> QED
        BY <3>1, <3>2, OneLife
    <2> QED
      BY <2>1, <2>2 DEF L!Exec
  <1>3. ASSUME NEW c \in Created, NEW code, NEW r, cmd_call_reply(c, code, r),
               UNCHANGED cmd_st
        PROVE  L!CallBack(c) \/ UNCHANGED lifeOf
    <2>1. CASE ~callback_[c]
      BY <1>3, <2>1 DEF cmd_call_reply, lifeOf
    <2>2. CASE callback_[c]
      <3>1. c \in CmdIds /\ cmd_st[c] = "live" /\ calls[c] = 0
        BY <2>2 DEF CmdPart, Created, ObjectStates
      <3>2. calls' = [calls EXCEPT ![c] = 1]
        BY <1>3, <2>2, <3>1 DEF cmd_call_reply
      <3>3. lifeOf[c] = "pending"
        BY <3>1, Stages DEF lifeOf
      <3>4. lifeOf' = [lifeOf EXCEPT ![c] = "called"]
        <4>1. cmd_st'[c] = "live" /\ calls'[c] = 1
              /\ \A d \in CmdIds \ {c} : cmd_st'[d] = cmd_st[d] /\ calls'[d] = calls[d]
          BY <1>3, <3>1, <3>2 DEF CmdPart, CmdTypeOK
        <4>2. lifeOf'[c] = "called"
          BY <3>1, <4>1, Stages DEF lifeOf
        <4> QED
          BY <3>1, <4>1, <4>2, OneLife
      <3> QED
        BY <3>3, <3>4 DEF L!CallBack
    <2> QED
      BY <2>1, <2>2
  <1>4. ASSUME NEW c \in Created, cmd_st[c] = "live", ~callback_[c],
               cmd_st' = [cmd_st EXCEPT ![c] = "freed"], UNCHANGED calls
        PROVE  L!Destroy(c)
    <2>1. c \in CmdIds /\ calls[c] = 1
      BY <1>4 DEF CmdPart, Created
    <2>2. lifeOf[c] = "called"
      BY <1>4, <2>1, Stages DEF lifeOf
    <2>3. lifeOf' = [lifeOf EXCEPT ![c] = "destroyed"]
      <3>1. cmd_st'[c] = "freed"
            /\ \A d \in CmdIds \ {c} : cmd_st'[d] = cmd_st[d] /\ calls'[d] = calls[d]
        BY <1>4, <2>1 DEF CmdPart
      <3>2. lifeOf'[c] = "destroyed"
        BY <1>4, <2>1, <3>1, Stages DEF lifeOf
      <3> QED
        BY <2>1, <3>1, <3>2, OneLife
    <2> QED
      BY <2>2, <2>3 DEF L!Destroy
  <1> QED
    BY <1>1, <1>2, <1>3, <1>4 DEF CmdStep, L!LifeNext, Created

\* The library's own steps: who touches the commands.
LEMMA LibraryCmdStep == ASSUME IndInv, LibraryStep PROVE CmdStep
  <1> DEFINE Quiet == UNCHANGED <<cmd_st, calls>>
  <1> DEFINE Calls == \E c \in Created, code \in ErrorCodes, r \in Replies :
                        cmd_call_reply(c, code, r) /\ UNCHANGED cmd_st
  <1>0. Quiet \/ Calls => CmdStep
    BY DEF CmdStep
  <1>1. ASSUME NEW op \in CmdOps, At(op) PROVE Top.c \in Created
    BY <1>1, TopGood DEF IndInv, GoodFrame, Good
  <1>2. ASSUME NEW c \in Created, NEW code \in ErrorCodes, NEW r \in Replies, NEW fs,
               CallBack(c, code, r, fs)
        PROVE  Calls
    BY <1>2 DEF CallBack
  <1>3. CASE exec \/ exec_connect_failed
    <2>1. Top.c \in Created
      BY <1>1, <1>3 DEF exec, exec_connect_failed, CmdOps
    <2>2. Quiet \/ \E code \in ErrorCodes : Fail(Top.c, code)
      BY <1>3 DEF exec, exec_connect_failed, ErrorCodes, cmdVars
    <2>3. Quiet \/ Calls
      BY <1>2, <2>1, <2>2 DEF Fail, Replies
    <2> QED
      BY <1>0, <2>3
  <1>4. CASE exec_connect \/ exec_auth_format_failed
    <2> DEFINE k == nconn + 1
    <2>1. make_connection(k) /\ nconn < MaxConns
      BY <1>4 DEF exec_connect, exec_auth_format_failed
    <2>2. AuthCmd(k) \in CmdIds /\ cmd_st[AuthCmd(k)] = "none"
      BY <2>1, BoundsAssumption DEF IndInv, RawPart, FreshPart, CmdIds, AuthCmd,
         BoundsAssumption
    <2> QED
      BY <2>1, <2>2 DEF make_connection, CmdStep, cmdVars
  <1>5. CASE exec_conn \/ exec_conn_closing
    BY <1>5 DEF exec_conn, exec_conn_closing, SpendTtl, CmdStep
  <1>6. CASE exec_conn_failed
    <2> DEFINE code == IF ttl_[Top.c] = 0 THEN "TTL"
                       ELSE IF context_[Top.k] THEN "HIREDIS" ELSE "CONNECTION"
    <2>1. Top.c \in Created /\ code \in ErrorCodes
      BY <1>1, <1>6 DEF exec_conn_failed, CmdOps, ErrorCodes
    <2>2. cmd_call_reply(Top.c, code, "null") /\ UNCHANGED cmd_st
      BY <1>6 DEF exec_conn_failed
    <2> HIDE DEF code
    <2>3. Calls
      BY <2>1, <2>2 DEF Replies
    <2> QED
      BY <1>0, <2>3
  <1>7. CASE destroy_cmd
    <2>1. Top.c \in Created
      BY <1>1, <1>7 DEF destroy_cmd, CmdOps
    <2>2. Calls
      BY <1>2, <1>7, <2>1 DEF destroy_cmd, ErrorCodes, Replies
    <2> QED
      BY <1>0, <2>2
  <1>8. CASE Destroy
    <2>1. Top.c \in Created /\ ~callback_[Top.c]
      BY <1>8, TopGood DEF Destroy, destroy, IndInv, GoodFrame, Good, CmdOps
    <2>2. cmd_st[Top.c] = "live"
      BY <1>8, <2>1, TopGood DEF Destroy, destroy, At, Dangling, UsesCmd, Created, IndInv,
         CmdPart, ObjectStates
    <2> QED
      BY <1>8, <2>1, <2>2 DEF Destroy, destroy, CmdStep
  <1>9. CASE ConnectionRelease
    <2>1. Top.k \in ConnIds
      BY <1>9, TopGood DEF ConnectionRelease, connection_release, IndInv, GoodFrame, Good, ConnOps
    <2>2. CASE reply_list_[Top.k] # <<>>
      <3>1. Head(reply_list_[Top.k]) \in Created
        BY <2>1, <2>2, ReplyListHead DEF IndInv
      <3>2. Calls
        BY <1>2, <1>9, <2>2, <3>1 DEF ConnectionRelease, connection_release, ErrorCodes, Replies
      <3> QED
        BY <1>0, <3>2
    <2>3. CASE reply_list_[Top.k] = <<>>
      BY <1>9, <2>3 DEF ConnectionRelease, connection_release, CmdStep, cmdVars
    <2> QED
      BY <2>2, <2>3
  <1>10. CASE reset
    <2>1. CASE timer_pending # <<>>
      <3>1. Head(timer_pending).cmd \in Created
        BY <2>1, TimerHead DEF IndInv
      <3>2. Calls
        BY <1>2, <1>10, <2>1, <3>1 DEF reset, ErrorCodes, Replies
      <3> QED
        BY <1>0, <3>2
    <2>2. CASE timer_pending = <<>>
      BY <1>10, <2>2 DEF reset, CmdStep, cmdVars
    <2> QED
      BY <2>1, <2>2
  <1>11. CASE CallReply
    <2>1. Top.c \in Created /\ Top.a \in Replies
      BY <1>11, TopGood DEF CallReply, call_reply, IndInv, GoodFrame, Good, CmdOps
    <2>2. Quiet \/ CallBack(Top.c, "NOT_FOUND", Top.a, <<F("destroy", Top.c, 0, "none")>>)
      BY <1>11 DEF CallReply, call_reply, cmdVars
    <2>3. Quiet \/ Calls
      BY <1>2, <2>1, <2>2 DEF ErrorCodes
    <2> QED
      BY <1>0, <2>3
  <1>12. CASE PopReply
    <2> DEFINE c == Top.c
    <2> DEFINE k == Top.k
    <2> DEFINE e == Head(reply_list_[k])
    <2>1. c \in Created /\ k \in ConnIds /\ Top.a \in Replies \cup {"retry"}
      BY <1>12, TopGood DEF PopReply, pop_reply, IndInv, GoodFrame, Good, CmdOps, ConnOps
    <2>2. Translate(k, c, Top.a) \in ErrorCodes
      BY <2>1 DEF Translate, ErrorCodes, IndInv, CmdPart, CmdTypeOK, Created
    <2>3. \/ Quiet
          \/ /\ reply_list_[k] # <<>>
             /\ CallBack(e, "TIMEOUT", "null", <<F("destroy", e, 0, "none"), Top>>)
          \/ /\ Top.a # "retry"
             /\ CallBack(c, Translate(k, c, Top.a), Top.a, <<F("destroy", c, 0, "none")>>)
      BY <1>12 DEF PopReply, pop_reply, cmdVars
    <2>4. reply_list_[k] # <<>> => e \in Created
      BY <2>1, ReplyListHead DEF IndInv
    <2>5. Quiet \/ Calls
      BY <1>2, <2>1, <2>2, <2>3, <2>4 DEF ErrorCodes, Replies
    <2> QED
      BY <1>0, <2>5
  <1>13. CASE \/ retry \/ release_connection \/ release_event \/ release_end \/ proc
              \/ proc_conn \/ proc_clear \/ on_reply_wrapper \/ on_connected_wrapper
              \/ on_connected_end \/ on_disconnected_wrapper
    BY <1>13 DEF retry, release_connection, release_event, release_end, proc, proc_conn,
       proc_clear, on_reply_wrapper, on_connected_wrapper, on_connected_end,
       on_disconnected_wrapper, cmdVars, CmdStep
  <1>14. CASE \/ ByHiredis(redisAsyncDisconnect) \/ ByHiredis(ConnectEnd)
              \/ ByHiredis(ConnectFailedEnd) \/ ByHiredis(ReplyEnd)
              \/ ByHiredis(FreeContext) \/ ByHiredis(FreeContextEnd)
    BY <1>14 DEF ByHiredis, cmdVars, CmdStep
  <1> QED
    BY <1>3, <1>4, <1>5, <1>6, <1>7, <1>8, <1>9, <1>10, <1>11, <1>12, <1>13, <1>14
    DEF LibraryStep

LEMMA NextCmdStep == ASSUME IndInv, [Next]_vars PROVE CmdStep
  <1>1. CASE LibraryStep
    BY <1>1, LibraryCmdStep
  <1>2. CASE NetworkStep \/ Proc \/ UserReturn \/ UserRelease \/ UserReset
    BY <1>2 DEF NetworkStep, ByHiredis, Proc, UserProc, UserReturn, UserRelease, UserReset,
       cmdVars, CmdStep
  <1>3. CASE UserExec
    <2>1. ncmd + 1 \in CmdIds /\ cmd_st[ncmd + 1] = "none" /\ create(ncmd + 1)
      BY <1>3, BoundsAssumption DEF UserExec, IndInv, RawPart, FreshPart, CmdIds,
         BoundsAssumption
    <2> QED
      BY <2>1 DEF CmdStep
  <1>4. CASE UserConnect
    <2> DEFINE k == nconn + 1
    <2>1. make_connection(k) /\ nconn < MaxConns
      BY <1>4 DEF UserConnect
    <2>2. AuthCmd(k) \in CmdIds /\ cmd_st[AuthCmd(k)] = "none"
      BY <2>1, BoundsAssumption DEF IndInv, RawPart, FreshPart, CmdIds, AuthCmd,
         BoundsAssumption
    <2> QED
      BY <2>1, <2>2 DEF make_connection, CmdStep, cmdVars
  <1>5. CASE Crash \/ Idle \/ UNCHANGED vars
    BY <1>5 DEF Crash, UseAfterFree, Idle, vars, cmdVars, CmdStep
  <1> QED
    BY <1>1, <1>2, <1>3, <1>4, <1>5 DEF Next

\* Raw implements Lifecycle: whatever the network, the timers and the nested
\* calls do, every command is called back exactly once before it is destroyed
\* and never afterwards, for any number of commands and connections.
THEOREM Refinement == Spec => ImplementsLifecycle
  <1>1. Init => L!LifeInit
    BY Stages DEF Init, RuntimeInit, CmdInit, L!LifeInit, lifeOf
  <1>2. IndInv /\ [Next]_vars => [L!LifeNext]_lifeOf
    <2> SUFFICES ASSUME IndInv, [Next]_vars PROVE [L!LifeNext]_lifeOf
      OBVIOUS
    <2> QED
      BY NextCmdStep, CmdStepRefines DEF IndInv
  <1> QED
    BY <1>1, <1>2, Invariance, PTL DEF Spec, ImplementsLifecycle, L!Spec

=============================================================================
