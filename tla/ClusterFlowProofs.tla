------------------------- MODULE ClusterFlowProofs -------------------------
(***************************************************************************)
(* What becomes of the commands of cluster and of their answers: what the  *)
(* callbacks of commands are given, that the reply list of a connection    *)
(* follows hiredis's queue, that every command is held in one place, and   *)
(* that none overtakes AUTH, across nested calls, for any number of        *)
(* commands, connections, servers and slots, and every environment.        *)
(***************************************************************************)
EXTENDS ClusterProofs

-----------------------------------------------------------------------------
(* A callback that reports OK was given an answer                          *)

\* hiredis calls back with nullptr only on a context that is going away.
Closed(k) == disconnecting[k] \/ ctx_err[k] # "OK"

\* A reply that is nullptr is on its way to a caller only together with an
\* error: that of the context, or the one on_reply_wrapper has put into the
\* command.
Fine(f) ==
  /\ f.op = "h_free" => Closed(f.k)
  /\ f.op = "h_connect_failed" => ctx_err[f.k] # "OK"
  /\ f.op = "on_reply" /\ f.a = "null" => Closed(f.k)
  /\ f.op \in {"call_reply", "pop_reply"} /\ f.a = "null" =>
       ctx_err[f.k] # "OK" \/ error_code_[f.c] # "OK"

NullPart == \A i \in DOMAIN stack : Fine(stack[i])

AnswerInv == NullPart /\ OkMeansAnswered

\* The frames that carry no nullptr, and lead to none.
Plain(f) ==
  /\ f.op \notin {"h_free", "h_connect_failed"}
  /\ f.op \in {"on_reply", "call_reply", "pop_reply"} => f.a # "null"

\* A step adds frames of S only.
Added(S) ==
  \A i \in DOMAIN stack' : stack'[i] \in S \/ \E j \in DOMAIN stack : stack'[i] = stack[j]

LEMMA ContinueAdded ==
  ASSUME StackSeq, stack # <<>>, NEW S, NEW fs \in Seq(S), Continue(fs)
  PROVE  Added(S)
  <1>1. /\ Rest \in Seq(Frame) /\ Len(Rest) = Len(stack) - 1 /\ Len(stack) \in Nat /\ Len(stack) >= 1
        /\ \A i \in 1 .. Len(Rest) : Rest[i] = stack[i + 1]
    BY DEF StackSeq, Rest
  <1>2. fs \in Seq(S \cup Frame) /\ Rest \in Seq(S \cup Frame) /\ Len(fs) \in Nat
    BY <1>1, SeqMono
  <1>3. /\ DOMAIN stack' = 1 .. Len(fs) + Len(Rest) /\ DOMAIN stack = 1 .. Len(stack)
        /\ \A i \in 1 .. Len(fs) : stack'[i] = fs[i]
        /\ \A i \in 1 .. Len(Rest) : stack'[Len(fs) + i] = Rest[i]
    BY <1>2 DEF Continue, StackSeq
  <1>4. ASSUME NEW i \in DOMAIN stack'
        PROVE  stack'[i] \in S \/ \E j \in DOMAIN stack : stack'[i] = stack[j]
    <2>1. CASE i \in 1 .. Len(fs)
      BY <1>3, <2>1
    <2>2. CASE i \notin 1 .. Len(fs)
      <3>0. Len(fs) \in Nat /\ Len(Rest) \in Nat /\ i \in 1 .. Len(fs) + Len(Rest)
        BY <1>1, <1>2, <1>3
      <3>a. i - Len(fs) \in 1 .. Len(Rest) /\ Len(fs) + (i - Len(fs)) = i
        BY <2>2, <3>0
      <3>b. (i - Len(fs)) + 1 \in DOMAIN stack
        BY <1>1, <1>3, <3>a
      <3>1. /\ i - Len(fs) \in 1 .. Len(Rest) /\ Len(fs) + (i - Len(fs)) = i
            /\ (i - Len(fs)) + 1 \in DOMAIN stack
        BY <3>a, <3>b
      <3>2. stack'[i] = stack[(i - Len(fs)) + 1]
        BY <1>1, <1>3, <3>1
      <3> QED
        BY <3>1, <3>2
    <2> QED
      BY <2>1, <2>2
  <1> QED
    BY <1>4 DEF Added

LEMMA ReturnAdded == ASSUME StackSeq, stack # <<>>, Return PROVE Added({})
  <1>1. Continue(<<>>)
    BY DEF Return, Continue, StackSeq, Rest
  <1> QED
    BY <1>1, EmptyType, ContinueAdded

LEMMA CallAdded ==
  ASSUME StackSeq, NEW S, NEW fs \in Seq(S), Call(fs)
  PROVE  Added(S)
  <1>1. fs \in Seq(S \cup Frame) /\ stack \in Seq(S \cup Frame) /\ Len(fs) \in Nat /\ Len(stack) \in Nat
    BY SeqMono DEF StackSeq
  <1>2. /\ DOMAIN stack' = 1 .. Len(fs) + Len(stack) /\ DOMAIN stack = 1 .. Len(stack)
        /\ \A i \in 1 .. Len(fs) : stack'[i] = fs[i]
        /\ \A i \in 1 .. Len(stack) : stack'[Len(fs) + i] = stack[i]
    BY <1>1 DEF Call
  <1>3. ASSUME NEW i \in DOMAIN stack'
        PROVE  stack'[i] \in S \/ \E j \in DOMAIN stack : stack'[i] = stack[j]
    <2>1. CASE i \in 1 .. Len(fs)
      BY <1>2, <2>1
    <2>2. CASE i \notin 1 .. Len(fs)
      <3>1. i - Len(fs) \in 1 .. Len(stack) /\ Len(fs) + (i - Len(fs)) = i
        BY <1>1, <1>2, <2>2
      <3>2. stack'[i] = stack[i - Len(fs)]
        BY <1>2, <3>1
      <3> QED
        BY <1>2, <3>1, <3>2
    <2> QED
      BY <2>1, <2>2
  <1> QED
    BY <1>3 DEF Added

\* The frames that are added by a callback and what follows it.
LEMMA CallbackAdded ==
  ASSUME StackSeq, stack # <<>>, NEW c, NEW r, NEW fs, NEW S, fs \in Seq(S),
         Continue(CallbackFrames(c, r) \o fs)
  PROVE  Added(CallbackFrame(c, r) \cup S)
  <1>0. CallbackFrames(c, r) = <<>> \/ \E g \in CallbackFrame(c, r) : CallbackFrames(c, r) = <<g>>
    BY DEF CallbackFrames, CallbackFrame
  <1>1. CallbackFrames(c, r) \in Seq(CallbackFrame(c, r))
    BY <1>0, EmptyType, OneType
  <1>2. CallbackFrames(c, r) \o fs \in Seq(CallbackFrame(c, r) \cup S)
    BY <1>1, SeqMono, ConcatType
  <1> QED
    BY <1>2, ContinueAdded

LEMMA CallbackPlain == \A c, r : \A f \in CallbackFrame(c, r) : Plain(f)
  BY DEF CallbackFrame, Plain, F

-----------------------------------------------------------------------------
(* What a step does to the answers                                         *)

\* Contexts that are going away do not come back.
StillClosed ==
  \A k \in ConnIds : /\ disconnecting[k] => disconnecting'[k]
                     /\ ctx_err[k] # "OK" => ctx_err'[k] # "OK"

\* A command is created that no reply is on its way to; or one is called back,
\* with OK only if it was given a good reply and had no error before; or none
\* is touched but to note that its connection is gone.
Unawaited(c) ==
  \A i \in DOMAIN stack : stack[i].op \in {"call_reply", "pop_reply"} => stack[i].c # c

AnswerStep ==
  \/ UNCHANGED <<calls, got>> /\ \A c \in CmdIds : error_code_'[c] \in {error_code_[c], "CONNECTION"}
  \/ \E c \in CmdIds : Unawaited(c) /\ create(c)
  \/ \E c \in CmdIds, code \in ErrorCodes, r \in Replies :
       /\ cmd_call_reply(c, code, r)
       /\ code = "OK" => r = "ok" /\ error_code_[c] = "OK"

LEMMA AnswersKept ==
  ASSUME CmdPart, OkMeansAnswered, AnswerStep
  PROVE  OkMeansAnswered'
  <1>1. CASE UNCHANGED <<calls, got>> /\ \A c \in CmdIds : error_code_'[c] \in {error_code_[c], "CONNECTION"}
    BY <1>1 DEF OkMeansAnswered
  <1>2. ASSUME NEW c \in CmdIds, create(c) PROVE OkMeansAnswered'
    BY <1>2 DEF OkMeansAnswered, create, CmdPart, CmdTypeOK
  <1>3. ASSUME NEW c \in CmdIds, NEW code, NEW r, cmd_call_reply(c, code, r),
               code = "OK" => r = "ok"
        PROVE  OkMeansAnswered'
    <2> SUFFICES ASSUME NEW d \in CmdIds, calls'[d] = 1, error_code_'[d] = "OK"
                 PROVE  got'[d] = "ok"
      BY DEF OkMeansAnswered
    <2>1. CASE d = c /\ callback_[c]
      BY <1>3, <2>1 DEF cmd_call_reply, CmdPart, CmdTypeOK
    <2>2. CASE ~(d = c /\ callback_[c])
      <3>1. calls'[d] = calls[d] /\ error_code_'[d] = error_code_[d] /\ got'[d] = got[d]
        BY <1>3, <2>2 DEF cmd_call_reply, CmdPart, CmdTypeOK
      <3> QED
        BY <3>1 DEF OkMeansAnswered
    <2> QED
      BY <2>1, <2>2
  <1> QED
    BY <1>1, <1>2, <1>3 DEF AnswerStep

\* An error in a command stays until the command is made anew.
LEMMA ErrorsKept ==
  ASSUME CmdPart, AnswerStep, NEW f, f.c \in CmdIds, error_code_[f.c] # "OK",
         NEW i \in DOMAIN stack, f = stack[i], f.op \in {"call_reply", "pop_reply"}
  PROVE  error_code_'[f.c] # "OK"
  <1>1. CASE UNCHANGED <<calls, got>> /\ \A c \in CmdIds : error_code_'[c] \in {error_code_[c], "CONNECTION"}
    BY <1>1
  <1>2. ASSUME NEW c \in CmdIds, Unawaited(c), create(c) PROVE error_code_'[f.c] # "OK"
    BY <1>2 DEF Unawaited, create, CmdPart, CmdTypeOK
  <1>3. ASSUME NEW c \in CmdIds, NEW code, NEW r, cmd_call_reply(c, code, r),
               code = "OK" => error_code_[c] = "OK"
        PROVE  error_code_'[f.c] # "OK"
    BY <1>3 DEF cmd_call_reply, CmdPart, CmdTypeOK
  <1> QED
    BY <1>1, <1>2, <1>3 DEF AnswerStep

LEMMA FineKept ==
  ASSUME IndInv, AnswerStep, StillClosed, NEW f, NEW i \in DOMAIN stack, f = stack[i], Fine(f)
  PROVE  Fine(f)'
  <1>1. f \in GoodFrame
    BY DEF IndInv, StackPart
  <1>2. f.op \in {"call_reply", "pop_reply"} => f.c \in CmdIds /\ f.k \in ConnIds
    BY <1>1 DEF GoodFrame, Good, CmdOps, ConnOps, Created
  <1>3. f.op \in {"h_free", "h_connect_failed", "on_reply"} => f.k \in ConnIds
    BY <1>1 DEF GoodFrame, Good, ConnOps
  <1>4. f.op \in {"call_reply", "pop_reply"} /\ error_code_[f.c] # "OK" => error_code_'[f.c] # "OK"
    BY <1>2, ErrorsKept DEF IndInv
  <1> QED
    BY <1>2, <1>3, <1>4 DEF Fine, Closed, StillClosed

\* It is left to show that the frames a step adds are in order.
LEMMA AddedAnswer ==
  ASSUME IndInv, AnswerInv, AnswerStep, StillClosed, NEW S, Added(S), \A f \in S : Fine(f)'
  PROVE  AnswerInv'
  <1>1. ASSUME NEW i \in DOMAIN stack', NEW f, f = stack'[i] PROVE Fine(f)'
    <2>1. CASE f \in S
      BY <2>1
    <2>2. ASSUME NEW j \in DOMAIN stack, f = stack[j] PROVE Fine(f)'
      <3>1. Fine(f)
        BY <2>2 DEF AnswerInv, NullPart
      <3> QED
        BY <2>2, <3>1, FineKept
    <2> QED
      BY <1>1, <2>1, <2>2 DEF Added
  <1>2. NullPart'
    BY <1>1 DEF NullPart
  <1> QED
    BY <1>2, AnswersKept DEF AnswerInv, IndInv

LEMMA PlainFine == \A f : Plain(f) => Fine(f)'
  BY DEF Plain, Fine

LEMMA PlainAnswer ==
  ASSUME IndInv, AnswerInv, AnswerStep, StillClosed, NEW S, Added(S), \A f \in S : Plain(f)
  PROVE  AnswerInv'
  BY PlainFine, AddedAnswer

-----------------------------------------------------------------------------
(* Every step keeps what is known of the answers                           *)

LEMMA NextStillClosed == ASSUME IndInv, [Next]_vars PROVE StillClosed
  <1>0. UNCHANGED <<disconnecting, ctx_err>> => StillClosed
    BY DEF StillClosed
  <1>1. ASSUME NEW k, NEW b, NEW e,
               disconnecting' = disconnecting \/ disconnecting' = [disconnecting EXCEPT ![k] = @ \/ b]
                 \/ disconnecting' = [disconnecting EXCEPT ![k] = TRUE],
               ctx_err' = ctx_err \/ (e # "OK" /\ ctx_err' = [ctx_err EXCEPT ![k] = e])
        PROVE  StillClosed
    BY <1>1 DEF StillClosed, IndInv, ContextPart
  <1>2. CASE LibraryStep
    <2>1. CASE \/ ByHiredis(redisAsyncDisconnect) \/ ByHiredis(ConnectEnd)
               \/ ByHiredis(ConnectFailedEnd) \/ ByHiredis(ReplyEnd)
               \/ ByHiredis(FreeContext) \/ ByHiredis(FreeContextEnd)
      BY <1>1, <2>1 DEF ByHiredis, redisAsyncDisconnect, ConnectEnd, ConnectFailedEnd, ReplyEnd,
         FreeContext, FreeContextEnd
    <2>2. CASE exec \/ reload_slots \/ \E s \in Servers : on_reply_ask(s)
      BY <1>0, <2>2 DEF exec, reload_slots, on_reply_ask, WithConnection, make_connection,
         redisAsyncConnect, hiredisVars
    <2>3. CASE exec_conn \/ asking
      BY <1>0, <2>3 DEF exec_conn, asking, redis_cmd, redisAsyncFormattedCommand, hiredisVars
    <2>4. CASE \/ exec_ttl \/ exec_pending \/ exec_failed \/ exec_conn_closing \/ exec_conn_failed
               \/ retry \/ destroy_cmd \/ Destroy \/ reload_exec \/ reload_end
               \/ on_reply_update_slot \/ run_pending \/ on_reply_update_slot_failed
               \/ release_connection \/ release_event \/ release_end \/ ConnectionRelease
               \/ reset_begin \/ reset_slots \/ reset \/ proc \/ proc_conn \/ proc_clear
      BY <1>0, <2>4 DEF exec_ttl, exec_pending, exec_failed, exec_conn_closing, exec_conn_failed,
         retry, destroy_cmd, Destroy, reload_exec, reload_end, on_reply_update_slot, run_pending,
         on_reply_update_slot_failed, release_connection, release_event, release_end,
         ConnectionRelease, reset_begin, reset_slots, reset, proc, proc_conn, proc_clear,
         hiredisVars
    <2>5. CASE \/ on_reply_wrapper \/ on_reply_retry \/ on_reply_clusterdown
               \/ \E s \in Servers, i \in Slots : on_reply_moved(i, s)
               \/ ask_pop \/ on_reply_asking \/ CallReply \/ PopReply
               \/ on_connected_wrapper \/ on_connected_end \/ on_disconnected_wrapper
      BY <1>0, <2>5 DEF on_reply_wrapper, on_reply_retry, on_reply_clusterdown, on_reply_moved,
         ask_pop, on_reply_asking, CallReply, PopReply, on_connected_wrapper, on_connected_end,
         on_disconnected_wrapper, hiredisVars
    <2> QED
      BY <1>2, <2>1, <2>2, <2>3, <2>4, <2>5 DEF LibraryStep
  <1>3. CASE NetworkStep
    BY <1>1, <1>3 DEF NetworkStep, ByHiredis, Reply, ConnectDone, ConnectFailed, ReplyArrives,
       ConnectionLost
  <1>4. CASE UserStep \/ Proc \/ UserReturn
    BY <1>0, <1>4 DEF UserStep, UserExec, UserConnect, UserRelease, UserStart, UserReset, Proc,
       UserProc, UserReturn, make_connection, redisAsyncConnect, hiredisVars
  <1>5. CASE Crash \/ Idle \/ UNCHANGED vars
    BY <1>0, <1>5 DEF Crash, Idle, vars, hiredisVars
  <1> QED
    BY <1>2, <1>3, <1>4, <1>5 DEF Next

\* Commands that do not exist yet await no reply.
LEMMA FreshUnawaited ==
  ASSUME IndInv, NEW c \in CmdIds, cmd_st[c] = "none"
  PROVE  Unawaited(c)
  <1> SUFFICES ASSUME NEW i \in DOMAIN stack, stack[i].op \in {"call_reply", "pop_reply"}
               PROVE  stack[i].c # c
    BY DEF Unawaited
  <1>1. stack[i] \in GoodFrame
    BY DEF IndInv, StackPart
  <1> QED
    BY <1>1 DEF GoodFrame, Good, CmdOps, Created

LEMMA AuthAnswerStep ==
  ASSUME IndInv, nconn < MaxConns, NEW s, make_connection(nconn + 1, s)
  PROVE  AnswerStep
  <1> DEFINE c == AuthCmd(nconn + 1)
  <1>1. c \in CmdIds /\ cmd_st[c] = "none"
    BY BoundsAssumption DEF IndInv, MapPart, FreshPart, CmdIds, AuthCmd, LoadCmd, BoundsAssumption
  <1>2. create(c) \/ UNCHANGED cmdVars
    BY DEF make_connection
  <1> HIDE DEF c
  <1> QED
    BY <1>1, <1>2, FreshUnawaited DEF AnswerStep, cmdVars

LEMMA WithConnectionAnswerStep ==
  ASSUME IndInv, NEW s, NEW found, NEW failed, WithConnection(s, found, failed)
  PROVE  AnswerStep
  <1>1. \/ UNCHANGED cmdVars
        \/ nconn < MaxConns /\ make_connection(nconn + 1, s)
    BY DEF WithConnection
  <1>2. UNCHANGED cmdVars => AnswerStep
    BY DEF AnswerStep, cmdVars
  <1> QED
    BY <1>1, <1>2, AuthAnswerStep

\* Nothing but an error is reported with a code of its own.
LEMMA CallBackAnswerStep ==
  ASSUME NEW c \in CmdIds, NEW code \in ErrorCodes \ {"OK"}, NEW r \in Replies,
         cmd_call_reply(c, code, r)
  PROVE  AnswerStep
  BY DEF AnswerStep

\* pop_reply passes OK on only with a good reply.
LEMMA PopReplyAnswerStep == ASSUME IndInv, AnswerInv, PopReply PROVE AnswerStep
  <1> DEFINE c == Top.c
  <1> DEFINE k == Top.k
  <1> DEFINE e == Head(reply_list_[k])
  <1>1. c \in CmdIds /\ k \in ConnIds /\ Top.a \in Replies \cup {"retry", "ask"} /\ Top.op = "pop_reply"
    BY TopGood DEF PopReply, pop_reply, IndInv, GoodFrame, Good, CmdOps, ConnOps, Created
  <1>2. Fine(Top)
    BY TopGood DEF PopReply, pop_reply, IndInv, StackPart, AnswerInv, NullPart, Top
  <1>3. Translate(k, c, Top.a) \in ErrorCodes
    BY <1>1 DEF Translate, ErrorCodes, IndInv, CmdPart, CmdTypeOK
  <1>4. Top.a \in Replies /\ Translate(k, c, Top.a) = "OK" => Top.a = "ok" /\ error_code_[c] = "OK"
    BY <1>1, <1>2 DEF Translate, Fine
  <1>5. \/ UNCHANGED cmdVars
        \/ reply_list_[k] # <<>> /\ cmd_call_reply(e, "TIMEOUT", "null")
        \/ Top.a \notin {"retry", "ask"} /\ cmd_call_reply(c, Translate(k, c, Top.a), Top.a)
    BY DEF PopReply, pop_reply, CallBack
  <1>6. reply_list_[k] # <<>> => e \in CmdIds
    BY <1>1, ReplyListHead DEF IndInv, Created
  <1> HIDE DEF c, k, e
  <1>7. CASE UNCHANGED cmdVars
    BY <1>7 DEF cmdVars, AnswerStep
  <1>8. CASE reply_list_[k] # <<>> /\ cmd_call_reply(e, "TIMEOUT", "null")
    BY <1>6, <1>8, CallBackAnswerStep DEF ErrorCodes, Replies
  <1>9. CASE Top.a \notin {"retry", "ask"} /\ cmd_call_reply(c, Translate(k, c, Top.a), Top.a)
    <2>1. Top.a \in Replies
      BY <1>1, <1>9
    <2> QED
      BY <1>1, <1>3, <1>4, <1>9, <2>1 DEF AnswerStep
  <1> QED
    BY <1>5, <1>7, <1>8, <1>9

\* The other steps of the library that call a command back.
LEMMA FailAnswerStep ==
  ASSUME IndInv, \/ exec_ttl \/ exec_failed \/ exec_conn_failed \/ destroy_cmd \/ CallReply
                 \/ on_reply_asking \/ ConnectionRelease \/ reset \/ reset_slots
  PROVE  AnswerStep
  <1>0. UNCHANGED cmdVars => AnswerStep
    BY DEF cmdVars, AnswerStep
  <1>1. CASE exec_ttl \/ exec_failed \/ exec_conn_failed \/ destroy_cmd
    <2>1. Top.c \in CmdIds
      BY <1>1, TopCmd DEF exec_ttl, exec_failed, exec_conn_failed, destroy_cmd, CmdOps, IndInv
    <2>2. \E code \in ErrorCodes \ {"OK"} : cmd_call_reply(Top.c, code, "null")
      BY <1>1 DEF exec_ttl, exec_failed, exec_conn_failed, destroy_cmd, Fail, CallBack, ErrorCodes
    <2> QED
      BY <2>1, <2>2, CallBackAnswerStep DEF Replies
  <1>2. CASE CallReply \/ on_reply_asking
    <2>1. Top.c \in CmdIds /\ Top.a \in Replies
      BY <1>2, TopGood DEF CallReply, call_reply, on_reply_asking, IndInv, GoodFrame, Good, CmdOps,
         Created
    <2>2. \/ UNCHANGED cmdVars
          \/ \E code \in ErrorCodes \ {"OK"} : cmd_call_reply(Top.c, code, Top.a)
      BY <1>2 DEF CallReply, call_reply, on_reply_asking, Fail, CallBack, ErrorCodes
    <2> QED
      BY <1>0, <2>1, <2>2, CallBackAnswerStep
  <1>3. CASE ConnectionRelease
    <2>1. Top.k \in ConnIds
      BY <1>3, TopCmd DEF ConnectionRelease, connection_release, IndInv, ConnOps
    <2>2. reply_list_[Top.k] # <<>> => Head(reply_list_[Top.k]) \in CmdIds
      BY <2>1, ReplyListHead DEF IndInv, Created
    <2>3. \/ UNCHANGED cmdVars
          \/ /\ reply_list_[Top.k] # <<>>
             /\ cmd_call_reply(Head(reply_list_[Top.k]), "CONNECTION", "null")
      BY <1>3 DEF ConnectionRelease, connection_release, CallBack
    <2> QED
      BY <1>0, <2>2, <2>3, CallBackAnswerStep DEF ErrorCodes, Replies
  <1>4. CASE reset
    <2>1. timer_pending # <<>> => Head(timer_pending).cmd \in CmdIds
      BY TimerHead DEF IndInv, Created
    <2>2. \/ UNCHANGED cmdVars
          \/ timer_pending # <<>> /\ cmd_call_reply(Head(timer_pending).cmd, "TIMEOUT", "null")
      BY <1>4 DEF reset, CallBack
    <2> QED
      BY <1>0, <2>1, <2>2, CallBackAnswerStep DEF ErrorCodes, Replies
  <1>5. CASE reset_slots
    <2>1. slot_pending_ # <<>> => Head(slot_pending_) \in CmdIds
      BY PendingHead DEF IndInv, Created
    <2>2. \/ UNCHANGED cmdVars
          \/ slot_pending_ # <<>> /\ cmd_call_reply(Head(slot_pending_), "SLOT_UNAVAILABLE", "null")
      BY <1>5 DEF reset_slots, CallBack
    <2> QED
      BY <1>0, <2>1, <2>2, CallBackAnswerStep DEF ErrorCodes, Replies
  <1> QED
    BY <1>1, <1>2, <1>3, <1>4, <1>5

LEMMA NextAnswerStep == ASSUME IndInv, AnswerInv, [Next]_vars PROVE AnswerStep
  <1>0. UNCHANGED <<error_code_, calls, got>> => AnswerStep
    BY DEF AnswerStep
  <1>1. CASE LibraryStep
    <2>1. CASE exec \/ reload_slots \/ \E s \in Servers : on_reply_ask(s)
      <3>1. \/ UNCHANGED cmdVars
            \/ \E s, found, failed : WithConnection(s, found, failed)
        BY <2>1 DEF exec, reload_slots, on_reply_ask
      <3> QED
        BY <1>0, <3>1, WithConnectionAnswerStep DEF cmdVars
    <2>2. CASE on_reply_wrapper
      <3>1. Top.c \in CmdIds
        BY <2>2, TopCmd DEF on_reply_wrapper, IndInv, CmdOps
      <3>2. \A c \in CmdIds : error_code_'[c] \in {error_code_[c], "CONNECTION"}
        BY <2>2, <3>1 DEF on_reply_wrapper, IndInv, CmdPart, CmdTypeOK
      <3> QED
        BY <2>2, <3>2 DEF on_reply_wrapper, AnswerStep
    <2>3. CASE reload_exec
      <3> DEFINE c == Min(FreeLoads)
      <3>1. CASE FreeLoads = {}
        BY <1>0, <2>3, <3>1 DEF reload_exec, cmdVars
      <3>2. CASE FreeLoads # {}
        <4>1. c \in FreeLoads
          BY <3>2, MinIn, BoundsAssumption DEF FreeLoads, CmdIds, BoundsAssumption
        <4>2. c \in CmdIds /\ Unawaited(c) /\ create(c)
          BY <2>3, <3>2, <4>1 DEF reload_exec, FreeLoads, Refers, Unawaited
        <4> HIDE DEF c
        <4> QED
          BY <4>2 DEF AnswerStep
      <3> QED
        BY <3>1, <3>2
    <2>4. CASE \/ exec_ttl \/ exec_failed \/ exec_conn_failed \/ destroy_cmd \/ CallReply
               \/ on_reply_asking \/ ConnectionRelease \/ reset \/ reset_slots \/ PopReply
      BY <2>4, FailAnswerStep, PopReplyAnswerStep
    <2>5. CASE \/ exec_pending \/ exec_conn \/ exec_conn_closing \/ retry \/ Destroy \/ reload_end
               \/ on_reply_update_slot \/ run_pending \/ on_reply_update_slot_failed
               \/ release_connection \/ release_event \/ release_end
               \/ reset_begin \/ proc \/ proc_conn \/ proc_clear
      BY <1>0, <2>5 DEF exec_pending, exec_conn, exec_conn_closing, retry, Destroy, destroy,
         reload_end, on_reply_update_slot, run_pending, on_reply_update_slot_failed,
         release_connection, release_event, release_end, reset_begin, proc, proc_conn, proc_clear,
         cmdVars
    <2>6. CASE \/ on_reply_retry \/ on_reply_clusterdown
               \/ \E s \in Servers, i \in Slots : on_reply_moved(i, s)
               \/ ask_pop \/ asking
               \/ on_connected_wrapper \/ on_connected_end \/ on_disconnected_wrapper
      BY <1>0, <2>6 DEF on_reply_retry, on_reply_clusterdown, on_reply_moved,
         ask_pop, asking, on_connected_wrapper, on_connected_end, on_disconnected_wrapper, cmdVars
    <2>7. CASE \/ ByHiredis(redisAsyncDisconnect) \/ ByHiredis(ConnectEnd)
               \/ ByHiredis(ConnectFailedEnd) \/ ByHiredis(ReplyEnd)
               \/ ByHiredis(FreeContext) \/ ByHiredis(FreeContextEnd)
      BY <1>0, <2>7 DEF ByHiredis, cmdVars
    <2> QED
      BY <1>1, <2>1, <2>2, <2>3, <2>4, <2>5, <2>6, <2>7 DEF LibraryStep
  <1>2. CASE \/ NetworkStep \/ Proc \/ UserReturn \/ (\E s \in Servers : UserRelease(s))
             \/ UserStart \/ UserReset
    BY <1>0, <1>2 DEF NetworkStep, Reply, ByHiredis, Proc, UserProc, UserReturn, UserRelease,
       UserStart, UserReset, cmdVars
  <1>3. ASSUME NEW i \in Slots \cup {-1}, UserExec(i) PROVE AnswerStep
    <2>1. ncmd + 1 \in CmdIds /\ cmd_st[ncmd + 1] = "none" /\ create(ncmd + 1)
      BY <1>3, BoundsAssumption DEF UserExec, IndInv, MapPart, FreshPart, CmdIds,
         BoundsAssumption
    <2> QED
      BY <2>1, FreshUnawaited DEF AnswerStep
  <1>4. ASSUME NEW s \in Servers, UserConnect(s) PROVE AnswerStep
    BY <1>4, AuthAnswerStep DEF UserConnect
  <1>5. CASE Crash \/ Idle \/ UNCHANGED vars
    BY <1>0, <1>5 DEF Crash, Idle, vars, cmdVars
  <1> QED
    BY <1>1, <1>2, <1>3, <1>4, <1>5 DEF Next, UserStep

-----------------------------------------------------------------------------
(* The frames a step adds                                                  *)

\* Frames that deliver a reply, and those the event loop enters hiredis with.
HandedOps  == {"on_reply", "call_reply", "pop_reply"}
DeliverOps == HandedOps \cup {"ask_pop"}
BottomOps  == {"h_connect_end", "h_connect_failed", "h_reply_end"}

\* All others, but for the end of a context.
SideOps ==
  Ops \ (DeliverOps \cup BottomOps \cup {"h_free", "on_reply_update_slot", "redisAsyncDisconnect"})

Side(f) ==
  \/ f.op \in SideOps
  \/ f.op = "on_reply_update_slot" /\ LoadCmd(f.c)
  \/ f.op = "redisAsyncDisconnect" /\ f.k \in ConnIds /\ context_[f.k]

\* Sequences of such frames, and a step that adds no others.
SideSeq(fs) == \E S : fs \in Seq(S) /\ \A f \in S : Side(f)

SideMove ==
  \/ stack # <<>> /\ (Return \/ \E fs : SideSeq(fs) /\ Continue(fs))
  \/ \E fs : SideSeq(fs) /\ Call(fs)
  \/ UNCHANGED stack

LEMMA SideMoves ==
  /\ \A fs : stack # <<>> /\ SideSeq(fs) /\ Continue(fs) => SideMove
  /\ \A fs : SideSeq(fs) /\ Call(fs) => SideMove
  /\ stack # <<>> /\ Return => SideMove
  /\ UNCHANGED stack => SideMove
  BY DEF SideMove

LEMMA SideSeqOf ==
  ASSUME NEW S, NEW fs \in Seq(S), \A f \in S : Side(f)
  PROVE  SideSeq(fs)
  BY DEF SideSeq

LEMMA SideSeqs ==
  /\ SideSeq(<<>>)
  /\ \A f : Side(f) => SideSeq(<<f>>)
  /\ \A f, g : Side(f) /\ Side(g) => SideSeq(<<f, g>>)
  /\ \A fs, gs : SideSeq(fs) /\ SideSeq(gs) => SideSeq(fs \o gs)
  /\ \A c, r : SideSeq(CallbackFrames(c, r))
  <1>1. SideSeq(<<>>)
    <2> DEFINE S == {}
    <2>1. <<>> \in Seq(S) /\ \A f \in S : Side(f)
      BY EmptyType
    <2> HIDE DEF S
    <2> QED
      BY <2>1, SideSeqOf
  <1>2. ASSUME NEW f, Side(f) PROVE SideSeq(<<f>>)
    <2> DEFINE S == {f}
    <2>1. <<f>> \in Seq(S) /\ \A g \in S : Side(g)
      BY <1>2, OneType
    <2> HIDE DEF S
    <2> QED
      BY <2>1, SideSeqOf
  <1>3. ASSUME NEW f, NEW g, Side(f), Side(g) PROVE SideSeq(<<f, g>>)
    <2> DEFINE S == {f, g}
    <2>1. <<f, g>> \in Seq(S) /\ \A l \in S : Side(l)
      BY <1>3, TwoType
    <2> HIDE DEF S
    <2> QED
      BY <2>1, SideSeqOf
  <1>4. ASSUME NEW fs, NEW gs, SideSeq(fs), SideSeq(gs) PROVE SideSeq(fs \o gs)
    <2>1. PICK S : fs \in Seq(S) /\ \A f \in S : Side(f)
      BY <1>4 DEF SideSeq
    <2>2. PICK T : gs \in Seq(T) /\ \A f \in T : Side(f)
      BY <1>4 DEF SideSeq
    <2>3. fs \o gs \in Seq(S \cup T)
      BY <2>1, <2>2, SeqMono, ConcatType
    <2> QED
      BY <2>1, <2>2, <2>3 DEF SideSeq
  <1>5. ASSUME NEW c, NEW r PROVE SideSeq(CallbackFrames(c, r))
    <2>1. Side(F("user", c, 0, "none")) /\ (LoadCmd(c) => Side(F("on_reply_update_slot", c, 0, r)))
      BY DEF Side, SideOps, DeliverOps, HandedOps, BottomOps, Ops, F
    <2> QED
      BY <1>1, <1>2, <2>1 DEF CallbackFrames
  <1> QED
    BY <1>1, <1>2, <1>3, <1>4, <1>5

LEMMA SideFrame == \A op \in SideOps : \A c, k, a : Side(F(op, c, k, a))
  BY DEF Side, F

LEMMA SideNames ==
  /\ {"user", "exec", "exec_failed", "exec_conn", "retry", "destroy_cmd", "destroy"} \subseteq SideOps
  /\ {"reload_slots", "reload_exec", "reload_end", "run_pending", "asking"} \subseteq SideOps
  /\ {"release_connection", "release_event", "release_end", "connection_release"} \subseteq SideOps
  /\ {"h_free_end", "on_connected_end", "on_disconnected"} \subseteq SideOps
  /\ {"reset_begin", "reset_slots", "reset", "proc", "proc_conn", "proc_clear"} \subseteq SideOps
  /\ {"on_connected", "on_reply_asking"} \subseteq SideOps
  BY DEF SideOps, DeliverOps, HandedOps, BottomOps, Ops

LEMMA TopSide == ASSUME stack # <<>>, Top.op \in SideOps PROVE Side(Top)
  BY DEF Side

\* A callback and what follows it.
LEMMA CallBackSide ==
  ASSUME StackSeq, stack # <<>>, NEW c, NEW code, NEW r, NEW fs, SideSeq(fs),
         CallBack(c, code, r, fs)
  PROVE  SideMove
  BY SideSeqs, SideMoves DEF CallBack

LEMMA SideOne ==
  ASSUME NEW op \in SideOps, NEW c, NEW k, NEW a
  PROVE  SideSeq(<<F(op, c, k, a)>>)
  BY SideFrame, SideSeqs

LEMMA SidePair ==
  ASSUME NEW op \in SideOps, NEW c, NEW k, NEW a, NEW f, Side(f)
  PROVE  SideSeq(<<F(op, c, k, a), f>>)
  BY SideFrame, SideSeqs

\* Commands that are called back, sent or retried.
LEMMA CommandSide ==
  ASSUME IndInv, \/ exec_ttl \/ exec_failed \/ exec_pending \/ exec_conn \/ exec_conn_closing
                 \/ exec_conn_failed \/ retry \/ destroy_cmd \/ Destroy \/ reload_exec \/ reload_end
  PROVE  SideMove
  <1>0. StackSeq
    BY StackFrames
  <1>1. CASE exec_ttl \/ exec_failed \/ destroy_cmd
    <2>1. PICK op \in SideOps : \E code :
            CallBack(Top.c, code, "null", <<F(op, Top.c, 0, "none")>>)
      BY <1>1, SideNames DEF exec_ttl, exec_failed, destroy_cmd, Fail
    <2>2. stack # <<>>
      BY <1>1 DEF exec_ttl, exec_failed, destroy_cmd, At, Running
    <2>3. SideSeq(<<F(op, Top.c, 0, "none")>>)
      BY SideOne
    <2> QED
      BY <1>0, <2>1, <2>2, <2>3, CallBackSide
  <1>2. CASE exec_conn \/ Destroy \/ reload_end
    <2>1. stack # <<>> /\ Return
      BY <1>2 DEF exec_conn, Destroy, destroy, reload_end, At, Running
    <2> QED
      BY <1>0, <2>1, SideMoves
  <1>3. CASE exec_pending
    <2>1. stack # <<>> /\ Continue(<<F("reload_slots", 0, 0, "none")>>)
      BY <1>3 DEF exec_pending, At, Running
    <2>2. SideSeq(<<F("reload_slots", 0, 0, "none")>>)
      BY SideOne, SideNames
    <2> QED
      BY <1>0, <2>1, <2>2, SideMoves
  <1>4. CASE exec_conn_closing
    <2> DEFINE release == IF ~in_callback[Top.k] THEN <<F("release_connection", 0, Top.k, "keep")>>
                                                 ELSE <<>>
               again == <<F("retry", Top.c, 0, "none")>>
    <2>1. stack # <<>> /\ Continue(release \o again)
      BY <1>4 DEF exec_conn_closing, At, Running
    <2>2. SideSeq(<<F("release_connection", 0, Top.k, "keep")>>) /\ SideSeq(again)
      BY SideOne, SideNames
    <2>3. SideSeq(release)
      BY <2>2, SideSeqs
    <2> HIDE DEF release, again
    <2>4. SideSeq(release \o again)
      BY <2>2, <2>3, SideSeqs
    <2> QED
      BY <1>0, <2>1, <2>4, SideMoves
  <1>5. CASE exec_conn_failed
    <2> DEFINE fs == <<F("destroy_cmd", Top.c, 0, "none")>>
    <2>1. stack # <<>> /\ Continue(CallbackFrames(Top.c, "null") \o fs)
      BY <1>5 DEF exec_conn_failed, At, Running
    <2>2. SideSeq(fs)
      BY SideOne, SideNames
    <2> HIDE DEF fs
    <2>3. SideSeq(CallbackFrames(Top.c, "null") \o fs)
      BY <2>2, SideSeqs
    <2> QED
      BY <1>0, <2>1, <2>3, SideMoves
  <1>6. CASE retry
    <2>1. stack # <<>> /\ \/ Return
                          \/ Continue(<<F("exec", Top.c, 0, "none")>>)
                          \/ Continue(<<F("exec_conn", Top.c, Top.k, Top.a)>>)
      BY <1>6 DEF retry, At, Running
    <2>2. SideSeq(<<F("exec", Top.c, 0, "none")>>)
          /\ SideSeq(<<F("exec_conn", Top.c, Top.k, Top.a)>>)
      BY SideOne, SideNames
    <2> QED
      BY <1>0, <2>1, <2>2, SideMoves
  <1>7. CASE reload_exec
    <2> DEFINE c == Min(FreeLoads)
    <2> DEFINE send == <<F("exec_conn", c, Top.k, "none")>>
    <2> DEFINE end == IF redis_cmd_result(Top.k) = "OK" \/ Closing(Top.k)
                      THEN <<F("reload_end", 0, Top.k, "none")>> ELSE <<>>
    <2> DEFINE no == <<F("destroy_cmd", c, 0, "none")>>
    <2>1. stack # <<>> /\ (Return \/ Continue(send \o end) \/ Continue(no))
      BY <1>7 DEF reload_exec, At, Running
    <2> HIDE DEF c
    <2>2. SideSeq(send) /\ SideSeq(no) /\ SideSeq(<<F("reload_end", 0, Top.k, "none")>>)
      BY SideOne, SideNames
    <2>3. SideSeq(end)
      BY <2>2, SideSeqs
    <2> HIDE DEF send, end, no
    <2>4. SideSeq(send \o end)
      BY <2>2, <2>3, SideSeqs
    <2> QED
      BY <1>0, <2>1, <2>2, <2>4, SideMoves
  <1> QED
    BY <1>1, <1>2, <1>3, <1>4, <1>5, <1>6, <1>7

\* Loading the table, releasing connections, reset() and proc().
LEMMA LoopSide ==
  ASSUME IndInv, \/ on_reply_update_slot \/ run_pending \/ on_reply_update_slot_failed
                 \/ release_connection \/ release_event \/ release_end \/ ConnectionRelease
                 \/ reset_begin \/ reset_slots \/ reset \/ proc \/ proc_conn \/ proc_clear
  PROVE  SideMove
  <1>0. StackSeq
    BY StackFrames
  <1>1. CASE on_reply_update_slot \/ on_reply_update_slot_failed \/ release_end \/ proc_clear
    <2>1. stack # <<>> /\ \/ Return \/ UNCHANGED stack
                          \/ Continue(<<F("run_pending", 0, 0, "none")>>)
                          \/ Continue(<<F("destroy_cmd", Top.c, 0, "none")>>)
                          \/ Continue(<<F("exec", Top.c, 0, "none")>>)
                          \/ Continue(<<F("proc_conn", 0, 0, "none")>>)
      BY <1>1 DEF on_reply_update_slot, on_reply_update_slot_failed, release_end, proc_clear, At,
         Running
    <2>2. /\ SideSeq(<<F("run_pending", 0, 0, "none")>>)
          /\ SideSeq(<<F("destroy_cmd", Top.c, 0, "none")>>)
          /\ SideSeq(<<F("exec", Top.c, 0, "none")>>)
          /\ SideSeq(<<F("proc_conn", 0, 0, "none")>>)
      BY SideOne, SideNames
    <2> QED
      BY <1>0, <2>1, <2>2, SideMoves
  <1>2. CASE run_pending \/ proc
    <2>1. stack # <<>> /\ Side(Top)
      BY <1>2, TopSide, SideNames DEF run_pending, proc, At, Running
    <2>2. \/ Return \/ Continue(<<F("proc_conn", 0, 0, "none")>>)
          \/ Continue(<<F("retry", Head(slot_pending_), 0, "none"), Top>>)
          \/ Continue(<<F("exec", Head(timer_pending).cmd, 0, "none"), Top>>)
      BY <1>2 DEF run_pending, proc
    <2>3. /\ SideSeq(<<F("proc_conn", 0, 0, "none")>>)
          /\ SideSeq(<<F("retry", Head(slot_pending_), 0, "none"), Top>>)
          /\ SideSeq(<<F("exec", Head(timer_pending).cmd, 0, "none"), Top>>)
      BY <2>1, SideOne, SidePair, SideNames
    <2> QED
      BY <1>0, <2>1, <2>2, <2>3, SideMoves
  <1>3. CASE release_connection
    <2> DEFINE close == IF context_[Top.k] /\ Top.a = "close"
                        THEN <<F("redisAsyncDisconnect", 0, Top.k, "none")>> ELSE <<>>
               rel == <<F("connection_release", 0, Top.k, "none")>>
               tell == <<F("release_event", 0, Top.k, conn_status_[Top.k])>>
    <2>1. stack # <<>> /\ (Return \/ Continue((close \o rel) \o tell))
      BY <1>3 DEF release_connection, ReleaseFrames, At, Running
    <2>2. SideSeq(rel) /\ SideSeq(tell)
      BY SideOne, SideNames
    <2>a. Top.k \in ConnIds
      BY <1>3, TopCmd DEF release_connection, IndInv, ConnOps
    <2>b. context_[Top.k] => Side(F("redisAsyncDisconnect", 0, Top.k, "none"))
      BY <2>a DEF Side, F
    <2>3. SideSeq(close)
      BY <2>b, SideSeqs
    <2> HIDE DEF close, rel, tell
    <2>4. SideSeq(close \o rel)
      BY <2>2, <2>3, SideSeqs
    <2>5. SideSeq((close \o rel) \o tell)
      BY <2>2, <2>4, SideSeqs
    <2> QED
      BY <1>0, <2>1, <2>5, SideMoves
  <1>4. CASE release_event
    <2> DEFINE a == IF Top.a = "CONNECTING" THEN "on_connected" ELSE "on_disconnected"
    <2>1. stack # <<>> /\ Continue(<<F("user", 0, Top.k, a), F("release_end", 0, Top.k, "none")>>)
      BY <1>4 DEF release_event, At, Running
    <2> HIDE DEF a
    <2>2. SideSeq(<<F("user", 0, Top.k, a), F("release_end", 0, Top.k, "none")>>)
      BY SideFrame, SidePair, SideNames
    <2> QED
      BY <1>0, <2>1, <2>2, SideMoves
  <1>5. CASE ConnectionRelease \/ reset_slots \/ reset
    <2>1. stack # <<>> /\ Side(Top)
      BY <1>5, TopSide, SideNames
      DEF ConnectionRelease, connection_release, reset_slots, reset, At, Running
    <2>2. \/ Return \/ Continue(<<F("reset", 0, 0, "none")>>)
          \/ \E op \in SideOps : \E c, code : CallBack(c, code, "null", <<F(op, c, 0, "none"), Top>>)
      BY <1>5, SideNames DEF ConnectionRelease, connection_release, reset_slots, reset
    <2>3. SideSeq(<<F("reset", 0, 0, "none")>>)
      BY SideOne, SideNames
    <2>4. ASSUME NEW op \in SideOps, NEW c, NEW code,
                 CallBack(c, code, "null", <<F(op, c, 0, "none"), Top>>)
          PROVE  SideMove
      <3>1. SideSeq(<<F(op, c, 0, "none"), Top>>)
        BY <2>1, SidePair
      <3> QED
        BY <1>0, <2>1, <2>4, <3>1, CallBackSide
    <2> QED
      BY <1>0, <2>1, <2>2, <2>3, <2>4, SideMoves
  <1>6. CASE reset_begin
    <2> DEFINE open == {connections_[s] : s \in Servers} \ {0}
               S == {k \in open : context_[k]}
    <2>1. PICK q \in SetToSeqs(S) :
            Continue([i \in DOMAIN q |-> F("redisAsyncDisconnect", 0, q[i], "none")]
                     \o <<F("reset_slots", 0, 0, "none")>>)
      BY <1>6 DEF reset_begin
    <2> DEFINE close == [i \in DOMAIN q |-> F("redisAsyncDisconnect", 0, q[i], "none")]
               fs == <<F("reset_slots", 0, 0, "none")>>
               D == {F("redisAsyncDisconnect", 0, k, "none") : k \in S}
    <2>2. S \in SUBSET ConnIds /\ stack # <<>>
      BY <1>6 DEF reset_begin, At, Running, IndInv, MapPart
    <2>a. \A k \in S : context_[k]
      OBVIOUS
    <2> HIDE DEF S
    <2>3. q \in Seq(S) /\ DOMAIN q = 1 .. Len(q) /\ Len(q) \in Nat
      BY <2>1, <2>2, OrderedConns
    <2>4. close \in Seq(D)
      BY <2>3
    <2>5. \A f \in D : Side(f)
      BY <2>2, <2>a DEF Side, F
    <2>6. SideSeq(fs)
      BY SideOne, SideNames
    <2>7. Continue(close \o fs)
      BY <2>1
    <2> HIDE DEF close, fs, D
    <2>8. SideSeq(close)
      BY <2>4, <2>5, SideSeqOf
    <2>9. SideSeq(close \o fs)
      BY <2>6, <2>8, SideSeqs
    <2> QED
      BY <1>0, <2>2, <2>7, <2>9, SideMoves
  <1>7. CASE proc_conn
    <2> DEFINE k == connections_[Head(timer_conns).server]
               end == IF Expired(k) THEN <<F("release_connection", 0, k, "close")>> ELSE <<>>
               next == <<F("proc_clear", 0, 0, "none")>>
    <2>1. stack # <<>> /\ (Continue(<<>>) \/ Continue(end \o next))
      BY <1>7 DEF proc_conn, At, Running
    <2>2. SideSeq(next) /\ SideSeq(<<F("release_connection", 0, k, "close")>>)
      BY SideOne, SideNames
    <2>3. SideSeq(end) /\ SideSeq(<<>>)
      BY <2>2, SideSeqs
    <2> HIDE DEF end, next
    <2>4. SideSeq(end \o next)
      BY <2>2, <2>3, SideSeqs
    <2> QED
      BY <1>0, <2>1, <2>3, <2>4, SideMoves
  <1> QED
    BY <1>1, <1>2, <1>3, <1>4, <1>5, <1>6, <1>7

\* What the application and the event loop call, and the end of a callback.
LEMMA UserSide ==
  ASSUME IndInv, UserReturn \/ UserStep \/ Proc
  PROVE  SideMove
  <1>0. StackSeq
    BY StackFrames
  <1>1. CASE UserReturn
    <2>1. stack # <<>> /\ Return
      BY <1>1 DEF UserReturn, At, Running
    <2> QED
      BY <1>0, <2>1, SideMoves
  <1>2. CASE Proc \/ UserStart \/ UserReset \/ (\E s \in Servers : UserRelease(s))
             \/ (\E i \in Slots \cup {-1} : UserExec(i))
    <2>1. \E op \in SideOps : \E c, k, a : Call(<<F(op, c, k, a)>>)
      <3>1. /\ "proc" \in SideOps /\ "reload_slots" \in SideOps /\ "reset_begin" \in SideOps
            /\ "release_connection" \in SideOps /\ "exec" \in SideOps /\ "destroy_cmd" \in SideOps
        BY SideNames
      <3> QED
        BY <1>2, <3>1 DEF Proc, UserProc, UserStart, UserReset, UserRelease, UserExec
    <2> QED
      BY <1>0, <2>1, SideOne, SideMoves
  <1>3. ASSUME NEW s \in Servers, UserConnect(s) PROVE SideMove
    <2> DEFINE k == nconn + 1
               no == <<F("destroy_cmd", AuthCmd(k), 0, "none")>>
               auth == IF Auth THEN <<F("exec_conn", AuthCmd(k), k, "none")>> ELSE <<>>
               told == <<F("user", 0, k, "on_connect")>>
    <2>1. Call(auth \o told) \/ Call(no)
      BY <1>3 DEF UserConnect, ConnectFrames
    <2>2. SideSeq(no) /\ SideSeq(told) /\ SideSeq(<<F("exec_conn", AuthCmd(k), k, "none")>>)
      BY SideOne, SideNames
    <2>3. SideSeq(auth)
      BY <2>2, SideSeqs
    <2> HIDE DEF k, no, auth, told
    <2>4. SideSeq(auth \o told)
      BY <2>2, <2>3, SideSeqs
    <2> QED
      BY <1>0, <2>1, <2>2, <2>4, SideMoves
  <1> QED
    BY <1>1, <1>2, <1>3 DEF UserStep

\* Getting a connection, or making one.
LEMMA WithConnectionSide ==
  ASSUME IndInv, stack # <<>>, NEW s, NEW found, NEW failed, SideSeq(failed),
         \A k : SideSeq(On(k, found)), WithConnection(s, found, failed)
  PROVE  SideMove
  <1> DEFINE k == nconn + 1
             no == <<F("destroy_cmd", AuthCmd(k), 0, "none")>>
             auth == IF Auth THEN <<F("exec_conn", AuthCmd(k), k, "none")>> ELSE <<>>
             told == <<F("user", 0, k, "on_connect")>>
  <1>0. StackSeq
    BY StackFrames
  <1>1. \/ \E l : Continue(On(l, found))
        \/ Continue((auth \o told) \o On(k, found))
        \/ Continue(no \o failed)
        \/ Continue(failed)
    BY DEF WithConnection, ConnectFrames
  <1>2. SideSeq(no) /\ SideSeq(told) /\ SideSeq(<<F("exec_conn", AuthCmd(k), k, "none")>>)
    BY SideOne, SideNames
  <1>3. SideSeq(auth)
    BY <1>2, SideSeqs
  <1> HIDE DEF k, no, auth, told
  <1>4. SideSeq(auth \o told) /\ SideSeq(no \o failed)
    BY <1>2, <1>3, SideSeqs
  <1>5. SideSeq((auth \o told) \o On(k, found))
    BY <1>4, SideSeqs
  <1> QED
    BY <1>0, <1>1, <1>4, <1>5, SideMoves

LEMMA OnSide ==
  ASSUME NEW op \in SideOps, NEW c
  PROVE  \A k : SideSeq(On(k, <<F(op, c, 0, "none")>>))
  <1> TAKE k
  <1> DEFINE f == F(op, c, 0, "none")
             S == {F(op, c, k, "none")}
  <1>1. f.k = 0 /\ [f EXCEPT !.k = k] = F(op, c, k, "none")
    BY DEF F
  <1>2. \A g \in S : Side(g)
    BY SideFrame
  <1> HIDE DEF f
  <1>3. On(k, <<f>>) \in Seq(S)
    BY <1>1, OnOne
  <1> HIDE DEF S
  <1>4. SideSeq(On(k, <<f>>))
    BY <1>2, <1>3, SideSeqOf
  <1> QED
    BY <1>4 DEF f

LEMMA ConnectSide ==
  ASSUME IndInv, exec \/ reload_slots
  PROVE  SideMove
  <1>0. StackSeq
    BY StackFrames
  <1>1. CASE exec
    <2> DEFINE found == <<F("exec_conn", Top.c, 0, "none")>>
               failed == <<F("exec_failed", Top.c, 0, "none")>>
    <2>1. stack # <<>> /\ \E s : WithConnection(s, found, failed)
      BY <1>1 DEF exec, At, Running
    <2>2. SideSeq(failed) /\ \A k : SideSeq(On(k, found))
      BY SideOne, OnSide, SideNames
    <2> HIDE DEF found, failed
    <2> QED
      BY <2>1, <2>2, WithConnectionSide
  <1>2. CASE reload_slots
    <2> DEFINE found == <<F("reload_exec", 0, 0, "none")>>
    <2>1. stack # <<>> /\ (Return \/ \E s : WithConnection(s, found, <<>>))
      BY <1>2 DEF reload_slots, At, Running
    <2>2. SideSeq(<<>>) /\ \A k : SideSeq(On(k, found))
      BY SideSeqs, OnSide, SideNames
    <2> HIDE DEF found
    <2> QED
      BY <1>0, <2>1, <2>2, WithConnectionSide, SideMoves
  <1> QED
    BY <1>1, <1>2

\* The callbacks registered with hiredis, where they deliver no reply.
LEMMA WrapperSide ==
  ASSUME IndInv, \/ asking \/ on_reply_asking
                 \/ on_connected_wrapper \/ on_connected_end \/ on_disconnected_wrapper
  PROVE  SideMove
  <1> DEFINE c == Top.c
             k == Top.k
             again == <<F("retry", c, 0, "none")>>
             load == <<F("reload_slots", 0, 0, "none")>>
             release == <<F("release_connection", 0, k, "keep")>>
  <1>0. StackSeq
    BY StackFrames
  <1>1. SideSeq(again) /\ SideSeq(load) /\ SideSeq(release) /\ SideSeq(<<>>)
    BY SideOne, SideSeqs, SideNames
  <1>2. SideSeq(release \o load)
    <2> HIDE DEF load, release
    <2> QED
      BY <1>1, SideSeqs
  <1>3. CASE asking \/ on_connected_end \/ on_disconnected_wrapper
    <2>1. stack # <<>> /\ \/ Return \/ Continue(<<>>) \/ Continue(again)
                          \/ Continue(load) \/ Continue(release) \/ Continue(release \o load)
      BY <1>3 DEF asking, on_connected_end, on_disconnected_wrapper, At, Running
    <2> HIDE DEF again, load, release
    <2> QED
      BY <1>1, <1>2, <2>1, SideMoves
  <1>4. CASE on_reply_asking
    <2>1. stack # <<>> /\ \/ Continue(again)
                          \/ Continue(<<F("retry", c, k, "ask")>>)
                          \/ CallBack(c, "CONNECTION", Top.a, <<F("destroy_cmd", c, 0, "none")>>)
      BY <1>4 DEF on_reply_asking, Fail, At, Running
    <2>2. SideSeq(<<F("retry", c, k, "ask")>>) /\ SideSeq(<<F("destroy_cmd", c, 0, "none")>>)
      BY SideOne, SideNames
    <2> HIDE DEF again
    <2> QED
      BY <1>0, <1>1, <2>1, <2>2, SideMoves, CallBackSide
  <1>5. CASE on_connected_wrapper
    <2>1. stack # <<>> /\ \E a : Continue(<<F("user", 0, k, "on_connected"), F("on_connected_end", 0, k, a)>>)
      BY <1>5 DEF on_connected_wrapper, At, Running
    <2>2. \A a : SideSeq(<<F("user", 0, k, "on_connected"), F("on_connected_end", 0, k, a)>>)
      BY SideFrame, SidePair, SideNames
    <2> QED
      BY <2>1, <2>2, SideMoves
  <1> QED
    BY <1>3, <1>4, <1>5

PlainStack == \E S : Added(S) /\ \A f \in S : Plain(f)

\* Sequences of plain frames.
PlainSeq(fs) == \E S : fs \in Seq(S) /\ \A f \in S : Plain(f)

LEMMA PlainMoves ==
  ASSUME StackSeq
  PROVE  /\ \A fs : stack # <<>> /\ PlainSeq(fs) /\ Continue(fs) => PlainStack
         /\ \A fs : PlainSeq(fs) /\ Call(fs) => PlainStack
         /\ stack # <<>> /\ Return => PlainStack
         /\ UNCHANGED stack => PlainStack
  <1>1. ASSUME NEW fs, stack # <<>>, PlainSeq(fs), Continue(fs) PROVE PlainStack
    BY <1>1, ContinueAdded DEF PlainStack, PlainSeq
  <1>2. ASSUME NEW fs, PlainSeq(fs), Call(fs) PROVE PlainStack
    BY <1>2, CallAdded DEF PlainStack, PlainSeq
  <1>3. ASSUME stack # <<>>, Return PROVE PlainStack
    BY <1>3, ReturnAdded DEF PlainStack
  <1>4. ASSUME UNCHANGED stack PROVE PlainStack
    <2>1. Added({})
      BY <1>4 DEF Added
    <2> QED
      BY <2>1 DEF PlainStack
  <1> QED
    BY <1>1, <1>2, <1>3, <1>4

\* A step that neither delivers a reply nor ends a context is plain.
LEMMA SidePlain == ASSUME StackSeq, SideMove PROVE PlainStack
  <1>1. \A f : Side(f) => Plain(f)
    BY DEF Side, SideOps, DeliverOps, HandedOps, BottomOps, Plain
  <1>2. \A fs : SideSeq(fs) => PlainSeq(fs)
    BY <1>1 DEF SideSeq, PlainSeq
  <1> QED
    BY <1>2, PlainMoves DEF SideMove

LEMMA PlainSeqOf ==
  ASSUME NEW S, NEW fs \in Seq(S), \A f \in S : Plain(f)
  PROVE  PlainSeq(fs)
  BY DEF PlainSeq

LEMMA PlainSeqs ==
  /\ PlainSeq(<<>>)
  /\ \A f : Plain(f) => PlainSeq(<<f>>)
  /\ \A f, g : Plain(f) /\ Plain(g) => PlainSeq(<<f, g>>)
  /\ \A fs, gs : PlainSeq(fs) /\ PlainSeq(gs) => PlainSeq(fs \o gs)
  /\ \A c, r : PlainSeq(CallbackFrames(c, r))
  <1>1. PlainSeq(<<>>)
    <2> DEFINE S == {}
    <2>1. <<>> \in Seq(S) /\ \A f \in S : Plain(f)
      BY EmptyType
    <2> HIDE DEF S
    <2> QED
      BY <2>1, PlainSeqOf
  <1>2. ASSUME NEW f, Plain(f) PROVE PlainSeq(<<f>>)
    <2> DEFINE S == {f}
    <2>1. <<f>> \in Seq(S) /\ \A g \in S : Plain(g)
      BY <1>2, OneType
    <2> HIDE DEF S
    <2> QED
      BY <2>1, PlainSeqOf
  <1>3. ASSUME NEW f, NEW g, Plain(f), Plain(g) PROVE PlainSeq(<<f, g>>)
    <2> DEFINE S == {f, g}
    <2>1. <<f, g>> \in Seq(S) /\ \A l \in S : Plain(l)
      BY <1>3, TwoType
    <2> HIDE DEF S
    <2> QED
      BY <2>1, PlainSeqOf
  <1>4. ASSUME NEW fs, NEW gs, PlainSeq(fs), PlainSeq(gs) PROVE PlainSeq(fs \o gs)
    <2>1. PICK S : fs \in Seq(S) /\ \A f \in S : Plain(f)
      BY <1>4 DEF PlainSeq
    <2>2. PICK T : gs \in Seq(T) /\ \A f \in T : Plain(f)
      BY <1>4 DEF PlainSeq
    <2>3. fs \o gs \in Seq(S \cup T)
      BY <2>1, <2>2, SeqMono, ConcatType
    <2> QED
      BY <2>1, <2>2, <2>3 DEF PlainSeq
  <1>5. ASSUME NEW c, NEW r PROVE PlainSeq(CallbackFrames(c, r))
    <2>1. CallbackFrames(c, r) = <<>> \/ \E g \in CallbackFrame(c, r) : CallbackFrames(c, r) = <<g>>
      BY DEF CallbackFrames, CallbackFrame
    <2> QED
      BY <1>1, <1>2, <2>1, CallbackPlain
  <1> QED
    BY <1>1, <1>2, <1>3, <1>4, <1>5

\* Frames that have nothing to do with replies are plain.
PlainOps == Ops \ {"h_free", "h_connect_failed", "on_reply", "call_reply", "pop_reply"}

LEMMA PlainFrame ==
  /\ \A op \in PlainOps : \A c, k, a : Plain(F(op, c, k, a))
  /\ \A op : \A c, k, a : op \in {"on_reply", "call_reply", "pop_reply"} /\ a # "null" => Plain(F(op, c, k, a))
  BY DEF PlainOps, Plain, F

LEMMA TopPlain == ASSUME stack # <<>>, Top.op \in PlainOps PROVE Plain(Top)
  BY DEF PlainOps, Plain

\* A callback and what follows it.
LEMMA CallBackPlain ==
  ASSUME StackSeq, stack # <<>>, NEW c, NEW code, NEW r, NEW fs, PlainSeq(fs),
         CallBack(c, code, r, fs)
  PROVE  PlainStack
  BY PlainSeqs, PlainMoves DEF CallBack

LEMMA PlainOne ==
  ASSUME NEW op \in PlainOps, NEW c, NEW k, NEW a
  PROVE  PlainSeq(<<F(op, c, k, a)>>)
  BY PlainFrame, PlainSeqs

LEMMA PlainPair ==
  ASSUME NEW op \in PlainOps, NEW c, NEW k, NEW a, NEW f, Plain(f)
  PROVE  PlainSeq(<<F(op, c, k, a), f>>)
  BY PlainFrame, PlainSeqs

\* Getting a connection, or making one.
LEMMA WithConnectionPlain ==
  ASSUME IndInv, stack # <<>>, NEW s, NEW found, NEW failed, PlainSeq(failed),
         \A k : PlainSeq(On(k, found)), WithConnection(s, found, failed)
  PROVE  PlainStack
  <1> DEFINE k == nconn + 1
             no == <<F("destroy_cmd", AuthCmd(k), 0, "none")>>
             auth == IF Auth THEN <<F("exec_conn", AuthCmd(k), k, "none")>> ELSE <<>>
             told == <<F("user", 0, k, "on_connect")>>
  <1>0. StackSeq
    BY StackFrames
  <1>1. \/ \E l : Continue(On(l, found))
        \/ Continue((auth \o told) \o On(k, found))
        \/ Continue(no \o failed)
        \/ Continue(failed)
    BY DEF WithConnection, ConnectFrames
  <1>2. PlainSeq(no) /\ PlainSeq(told) /\ PlainSeq(<<F("exec_conn", AuthCmd(k), k, "none")>>)
    BY PlainOne DEF PlainOps, Ops
  <1>3. PlainSeq(auth)
    BY <1>2, PlainSeqs
  <1> HIDE DEF k, no, auth, told
  <1>4. PlainSeq(auth \o told) /\ PlainSeq(no \o failed)
    BY <1>2, <1>3, PlainSeqs
  <1>5. PlainSeq((auth \o told) \o On(k, found))
    BY <1>4, PlainSeqs
  <1> QED
    BY <1>0, <1>1, <1>4, <1>5, PlainMoves

LEMMA OnPlain ==
  ASSUME NEW op \in PlainOps, NEW c
  PROVE  \A k : PlainSeq(On(k, <<F(op, c, 0, "none")>>))
  <1> TAKE k
  <1> DEFINE f == F(op, c, 0, "none")
             S == {F(op, c, k, "none")}
  <1>1. f.k = 0 /\ [f EXCEPT !.k = k] = F(op, c, k, "none")
    BY DEF F
  <1>2. \A g \in S : Plain(g)
    BY PlainFrame
  <1> HIDE DEF f
  <1>3. On(k, <<f>>) \in Seq(S)
    BY <1>1, OnOne
  <1> HIDE DEF S
  <1>4. PlainSeq(On(k, <<f>>))
    BY <1>2, <1>3, PlainSeqOf
  <1> QED
    BY <1>4 DEF f

LEMMA AskPlain ==
  ASSUME IndInv, NEW s \in Servers, on_reply_ask(s)
  PROVE  PlainStack
  <1> DEFINE pop == F("ask_pop", Top.c, Top.k, "none")
             ask == F("asking", Top.c, 0, "none")
             again == F("retry", Top.c, 0, "none")
  <1>1. stack # <<>> /\ WithConnection(s, <<pop, ask>>, <<pop, again>>)
    BY DEF on_reply_ask, At, Running
  <1>2. Plain(pop) /\ Plain(again)
    BY PlainFrame DEF PlainOps, Ops
  <1>3. Top.k \in ConnIds /\ Top.k # 0
    BY TopCmd, BoundsAssumption DEF on_reply_ask, IndInv, ConnOps, ConnIds, BoundsAssumption
  <1>4. ASSUME NEW k PROVE PlainSeq(On(k, <<pop, ask>>))
    <2> DEFINE S == {pop, F("asking", Top.c, k, "none")}
    <2>1. pop.k = Top.k /\ ask.k = 0 /\ [ask EXCEPT !.k = k] = F("asking", Top.c, k, "none")
      BY DEF F
    <2>2. On(k, <<pop, ask>>) \in Seq(S)
      <3> HIDE DEF pop, ask
      <3> QED
        BY <1>3, <2>1, OnTwo
    <2>3. \A f \in S : Plain(f)
      BY <1>2, PlainFrame DEF PlainOps, Ops
    <2> HIDE DEF S
    <2> QED
      BY <2>2, <2>3, PlainSeqOf
  <1> HIDE DEF pop, ask, again
  <1>5. PlainSeq(<<pop, again>>)
    BY <1>2, PlainSeqs
  <1> QED
    BY <1>1, <1>4, <1>5, WithConnectionPlain

\* The callbacks registered with hiredis, where they pass no reply on.
LEMMA WrapperPlain ==
  ASSUME IndInv, \/ on_reply_retry \/ on_reply_clusterdown
                 \/ \E s \in Servers, i \in Slots : on_reply_moved(i, s)
                 \/ ask_pop
  PROVE  PlainStack
  <1>0. StackSeq
    BY StackFrames
  <1> DEFINE c == Top.c
             k == Top.k
             again == <<F("retry", c, 0, "none")>>
             load == <<F("reload_slots", 0, 0, "none")>>
             release == <<F("release_connection", 0, k, "keep")>>
  <1>1. /\ PlainSeq(again) /\ PlainSeq(load) /\ PlainSeq(release) /\ PlainSeq(<<>>)
        /\ PlainSeq(<<F("pop_reply", c, k, "retry")>>) /\ PlainSeq(<<F("pop_reply", c, k, "ask")>>)
    BY PlainOne, PlainFrame, PlainSeqs DEF PlainOps, Ops
  <1>2. PlainSeq(PopAndRetry(c, k))
    BY <1>1 DEF PopAndRetry
  <1>3. PlainSeq(PopAndRetry(c, k) \o load) /\ PlainSeq(release \o load)
    <2> HIDE DEF again, load, release
    <2> QED
      BY <1>1, <1>2, PlainSeqs
  <1>4. CASE \/ on_reply_retry \/ ask_pop \/ asking \/ on_connected_end
             \/ on_disconnected_wrapper
    <2>1. stack # <<>> /\ \/ Return \/ Continue(<<>>) \/ Continue(PopAndRetry(c, k))
                          \/ Continue(<<F("pop_reply", c, k, "ask")>>) \/ Continue(again)
                          \/ Continue(load) \/ Continue(release) \/ Continue(release \o load)
      BY <1>4 DEF on_reply_retry, ask_pop, asking, on_connected_end, on_disconnected_wrapper, At,
         Running
    <2> HIDE DEF again, load, release
    <2> QED
      BY <1>0, <1>1, <1>2, <1>3, <2>1, PlainMoves
  <1>6. CASE on_reply_clusterdown
    <2>1. stack # <<>> /\ Continue(<<F("call_reply", c, k, Top.a), F("reset_begin", 0, 0, "none")>>)
          /\ Top.a # "null"
      BY <1>6 DEF on_reply_clusterdown, At, Running
    <2>2. PlainSeq(<<F("call_reply", c, k, Top.a), F("reset_begin", 0, 0, "none")>>)
      BY <2>1, PlainFrame, PlainSeqs DEF PlainOps, Ops
    <2> QED
      BY <1>0, <2>1, <2>2, PlainMoves
  <1>7. ASSUME NEW s \in Servers, NEW i \in Slots, on_reply_moved(i, s) PROVE PlainStack
    <2>1. stack # <<>> /\ Top.a # "null" /\ \/ Continue(PopAndRetry(c, k) \o load)
                                            \/ Continue(<<F("call_reply", c, k, Top.a)>>)
      BY <1>7 DEF on_reply_moved, At, Running
    <2>2. PlainSeq(<<F("call_reply", c, k, Top.a)>>)
      BY <2>1, PlainFrame, PlainSeqs
    <2> HIDE DEF load
    <2> QED
      BY <1>0, <1>3, <2>1, <2>2, PlainMoves
  <1> QED
    BY <1>4, <1>6, <1>7

LEMMA ContinueFine ==
  ASSUME IndInv, AnswerInv, AnswerStep, StillClosed, NEW f, Fine(f)', stack # <<>>, Continue(<<f>>)
  PROVE  AnswerInv'
  <1> DEFINE T == {f}
  <1>1. \A g \in T : Fine(g)'
    OBVIOUS
  <1>2. <<f>> \in Seq(T)
    BY OneType
  <1> HIDE DEF T
  <1>3. Added(T)
    BY <1>2, StackFrames, ContinueAdded
  <1> QED
    BY <1>1, <1>3, AddedAnswer

\* The top frame is none that is added.
LEMMA TopAdded ==
  ASSUME StackSeq, stack # <<>>, NEW S, Added(S \cup {Top})
  PROVE  Added(S)
  <1>1. 1 \in DOMAIN stack /\ Top = stack[1]
    BY DEF StackSeq, Top
  <1> QED
    BY <1>1 DEF Added

LEMMA TopFine ==
  ASSUME IndInv, AnswerInv, NEW op, At(op)
  PROVE  stack # <<>> /\ Top.op = op /\ Fine(Top)
  <1>1. stack # <<>> /\ Top.op = op /\ stack \in Seq(GoodFrame)
    BY TopGood DEF IndInv, StackPart
  <1>2. 1 \in DOMAIN stack /\ Top = stack[1]
    BY <1>1 DEF Top
  <1> QED
    BY <1>1, <1>2 DEF AnswerInv, NullPart

\* The reply on its way from hiredis to the caller.
LEMMA OnReplyAnswer ==
  ASSUME IndInv, AnswerInv, AnswerStep, StillClosed, on_reply_wrapper
  PROVE  AnswerInv'
  <1>1. PICK f : f = F("call_reply", Top.c, Top.k, Top.a)
    OBVIOUS
  <1>2. At("on_reply") /\ Continue(<<f>>) /\ Fine(Top) /\ stack # <<>> /\ Top.op = "on_reply"
    BY <1>1, TopFine DEF on_reply_wrapper
  <1>3. Top.c \in CmdIds /\ Top.k \in ConnIds
    BY <1>2, TopCmd DEF IndInv, CmdOps, ConnOps
  <1>4. Top.a = "null" => ctx_err'[Top.k] # "OK" \/ error_code_'[Top.c] # "OK"
    <2>1. Top.a = "null" => disconnecting[Top.k] \/ ctx_err[Top.k] # "OK"
      BY <1>2 DEF Fine, Closed
    <2>2. disconnecting[Top.k] => error_code_'[Top.c] = "CONNECTION"
      BY <1>3 DEF on_reply_wrapper, IndInv, CmdPart, CmdTypeOK
    <2> QED
      BY <1>3, <2>1, <2>2 DEF StillClosed
  <1>5. f.op = "call_reply" /\ f.c = Top.c /\ f.k = Top.k /\ f.a = Top.a
    BY <1>1 DEF F
  <1>6. Fine(f)'
    BY <1>4, <1>5 DEF Fine
  <1> QED
    BY <1>2, <1>6, ContinueFine

LEMMA CallReplyAnswer ==
  ASSUME IndInv, AnswerInv, AnswerStep, StillClosed, CallReply
  PROVE  AnswerInv'
  <1>1. PICK f : f = F("pop_reply", Top.c, Top.k, Top.a)
    OBVIOUS
  <1>2. At("call_reply") /\ Fine(Top) /\ stack # <<>> /\ Top.op = "call_reply"
    BY TopFine DEF CallReply, call_reply
  <1>3. \/ Continue(<<f>>) /\ UNCHANGED <<hiredisVars, cmdVars>>
        \/ CallBack(Top.c, "NOT_FOUND", Top.a, <<F("destroy", Top.c, 0, "none")>>)
    BY <1>1 DEF CallReply, call_reply
  <1>4. CASE Continue(<<f>>) /\ UNCHANGED <<hiredisVars, cmdVars>>
    <2>1. f.op = "pop_reply" /\ f.c = Top.c /\ f.k = Top.k /\ f.a = Top.a
      BY <1>1 DEF F
    <2>2. Fine(f)'
      BY <1>2, <1>4, <2>1 DEF Fine, hiredisVars, cmdVars
    <2> QED
      BY <1>2, <1>4, <2>2, ContinueFine
  <1>5. CASE CallBack(Top.c, "NOT_FOUND", Top.a, <<F("destroy", Top.c, 0, "none")>>)
    <2>1. PlainSeq(<<F("destroy", Top.c, 0, "none")>>)
      BY PlainOne DEF PlainOps, Ops
    <2>2. PlainStack
      BY <1>2, <1>5, <2>1, StackFrames, CallBackPlain
    <2> QED
      BY <2>2, PlainAnswer DEF PlainStack
  <1> QED
    BY <1>3, <1>4, <1>5

LEMMA PopReplyAnswer ==
  ASSUME IndInv, AnswerInv, AnswerStep, StillClosed, PopReply
  PROVE  AnswerInv'
  <1>0. StackSeq /\ stack # <<>>
    BY StackFrames, TopFine DEF PopReply, pop_reply
  <1>1. \/ UNCHANGED stack
        \/ Continue(<<>>)
        \/ Continue(<<F("retry", Top.c, 0, "none")>>)
        \/ \E c, code, r : CallBack(c, code, r, <<F("destroy", c, 0, "none")>>)
        \/ \E c, code, r : CallBack(c, code, r, <<F("destroy", c, 0, "none"), Top>>)
    BY DEF PopReply, pop_reply
  <1>2. ASSUME PlainStack PROVE AnswerInv'
    BY <1>2, PlainAnswer DEF PlainStack
  <1>3. PlainSeq(<<F("retry", Top.c, 0, "none")>>) /\ PlainSeq(<<>>)
    BY PlainOne, PlainSeqs DEF PlainOps, Ops
  <1>4. ASSUME NEW c, NEW code, NEW r, CallBack(c, code, r, <<F("destroy", c, 0, "none")>>)
        PROVE  AnswerInv'
    <2>1. PlainSeq(<<F("destroy", c, 0, "none")>>)
      BY PlainOne DEF PlainOps, Ops
    <2>2. PlainStack
      BY <1>0, <1>4, <2>1, CallBackPlain
    <2> QED
      BY <1>2, <2>2
  <1>5. ASSUME NEW c, NEW code, NEW r, CallBack(c, code, r, <<F("destroy", c, 0, "none"), Top>>)
        PROVE  AnswerInv'
    <2>1. PICK f : f = F("destroy", c, 0, "none")
      OBVIOUS
    <2> DEFINE S == CallbackFrame(c, r) \cup {f}
    <2>2. \A g \in S : Plain(g)
      BY <2>1, CallbackPlain, PlainFrame DEF PlainOps, Ops
    <2>3. <<f, Top>> \in Seq({f, Top})
      BY TwoType
    <2>4. Added(CallbackFrame(c, r) \cup {f, Top})
      BY <1>0, <1>5, <2>1, <2>3, CallbackAdded DEF CallBack
    <2>5. CallbackFrame(c, r) \cup {f, Top} = S \cup {Top}
      OBVIOUS
    <2> HIDE DEF S
    <2>6. Added(S)
      BY <1>0, <2>4, <2>5, TopAdded
    <2> QED
      BY <2>2, <2>6, PlainAnswer
  <1> QED
    BY <1>0, <1>1, <1>2, <1>3, <1>4, <1>5, PlainMoves

\* hiredis: a context is freed only when it is going away, and only then are its
\* callbacks called with nullptr.
LEMMA HiredisAnswer ==
  ASSUME IndInv, AnswerInv, AnswerStep, StillClosed,
         \/ ByHiredis(redisAsyncDisconnect) \/ ByHiredis(ConnectEnd)
         \/ ByHiredis(ConnectFailedEnd) \/ ByHiredis(ReplyEnd)
  PROVE  AnswerInv'
  <1>1. PICK k : k = Top.k
    OBVIOUS
  <1>2. PICK f : f = F("h_free", 0, k, "none")
    OBVIOUS
  <1>3. PICK op \in {"redisAsyncDisconnect", "h_connect_end", "h_connect_failed", "h_reply_end"} : At(op)
    BY DEF ByHiredis, redisAsyncDisconnect, ConnectEnd, ConnectFailedEnd, ReplyEnd
  <1>4. stack # <<>> /\ Top.op = op /\ Fine(Top) /\ k \in ConnIds
    BY <1>1, <1>3, TopFine, TopCmd DEF IndInv, ConnOps
  <1>5. \/ Continue(<<>>)
        \/ Continue(<<f>>) /\ (disconnecting'[k] \/ ctx_err'[k] # "OK")
    BY <1>1, <1>2, <1>4 DEF ByHiredis, redisAsyncDisconnect, ConnectEnd, ConnectFailedEnd, ReplyEnd,
       IndInv, ContextPart, Fine, At
  <1>6. CASE Continue(<<>>)
    <2>1. PlainStack
      BY <1>4, <1>6, StackFrames, PlainMoves, PlainSeqs
    <2> QED
      BY <2>1, PlainAnswer DEF PlainStack
  <1>7. CASE Continue(<<f>>) /\ (disconnecting'[k] \/ ctx_err'[k] # "OK")
    <2>1. f.op = "h_free" /\ f.k = k
      BY <1>2 DEF F
    <2>2. Fine(f)'
      BY <1>7, <2>1 DEF Fine, Closed
    <2> QED
      BY <1>4, <1>7, <2>2, ContinueFine
  <1> QED
    BY <1>5, <1>6, <1>7

LEMMA FreeContextAnswer ==
  ASSUME IndInv, AnswerInv, AnswerStep, StillClosed, ByHiredis(FreeContext)
  PROVE  AnswerInv'
  <1>0. StackSeq
    BY StackFrames
  <1>1. PICK k : k = Top.k
    OBVIOUS
  <1>2. At("h_free") /\ stack # <<>> /\ Top.op = "h_free" /\ Fine(Top)
    BY TopFine DEF ByHiredis, FreeContext
  <1>3. k \in ConnIds /\ (disconnecting'[k] \/ ctx_err'[k] # "OK")
    <2>1. k \in ConnIds
      BY <1>1, <1>2, TopCmd DEF IndInv, ConnOps
    <2> QED
      BY <1>1, <1>2, <2>1 DEF Fine, Closed, StillClosed
  <1>4. CASE replies[k] # <<>>
    <2>1. PICK f : f = ReplyFrame(k, "null")
      OBVIOUS
    <2>2. f.op \in {"on_reply", "on_reply_asking"} /\ f.k = k
      <3>1. Head(replies[k]) \in Entries
        BY <1>3, <1>4, TailType DEF IndInv, QueuePart
      <3> QED
        BY <2>1, <3>1 DEF ReplyFrame, Entries, F
    <2>3. Fine(f)'
      BY <1>3, <2>2 DEF Fine, Closed
    <2> DEFINE T == {f}
    <2>4. \A g \in T : Fine(g)'
      BY <2>3
    <2>5. <<f, Top>> \in Seq(T \cup {Top})
      BY TwoType
    <2>6. Continue(<<f, Top>>)
      BY <1>1, <1>4, <2>1 DEF ByHiredis, FreeContext
    <2> HIDE DEF T
    <2>7. Added(T)
      BY <1>0, <1>2, <2>5, <2>6, ContinueAdded, TopAdded
    <2> QED
      BY <2>4, <2>7, AddedAnswer
  <1>5. CASE replies[k] = <<>>
    <2> DEFINE told == IF ctx_st[k] = "connected"
                       THEN <<F("on_disconnected", 0, k, ctx_err[k])>> ELSE <<>>
               end == <<F("h_free_end", 0, k, "none")>>
    <2>1. Continue(told \o end)
      BY <1>1, <1>5 DEF ByHiredis, FreeContext
    <2>2. PlainSeq(end) /\ PlainSeq(<<F("on_disconnected", 0, k, ctx_err[k])>>)
      BY PlainOne DEF PlainOps, Ops
    <2>3. PlainSeq(told)
      BY <2>2, PlainSeqs
    <2> HIDE DEF told, end
    <2>4. PlainSeq(told \o end)
      BY <2>2, <2>3, PlainSeqs
    <2>5. PlainStack
      BY <1>0, <1>2, <2>1, <2>4, PlainMoves
    <2> QED
      BY <2>5, PlainAnswer DEF PlainStack
  <1> QED
    BY <1>4, <1>5

LEMMA NetworkAnswer ==
  ASSUME IndInv, AnswerInv, AnswerStep, StillClosed, NetworkStep
  PROVE  AnswerInv'
  <1>0. StackSeq
    BY StackFrames
  <1>1. ASSUME NEW f, Fine(f)', NEW g, Fine(g)', Call(<<f, g>>) \/ Call(<<f>>)
        PROVE  AnswerInv'
    <2> DEFINE T == {f, g}
    <2>1. <<f, g>> \in Seq(T) /\ <<f>> \in Seq(T)
      BY OneType, TwoType
    <2>2. \A l \in T : Fine(l)'
      BY <1>1
    <2> HIDE DEF T
    <2>3. Added(T)
      BY <1>0, <1>1, <2>1, CallAdded
    <2> QED
      BY <2>2, <2>3, AddedAnswer
  <1>2. ASSUME NEW k \in ConnIds, ByHiredis(ConnectDone(k)) PROVE AnswerInv'
    <2>1. Plain(F("on_connected", 0, k, "OK")) /\ Plain(F("h_connect_end", 0, k, "none"))
      BY PlainFrame DEF PlainOps, Ops
    <2>2. Call(<<F("on_connected", 0, k, "OK"), F("h_connect_end", 0, k, "none")>>)
      BY <1>2 DEF ByHiredis, ConnectDone
    <2> QED
      BY <1>1, <2>1, <2>2, PlainFine
  <1>3. ASSUME NEW k \in ConnIds, ByHiredis(ConnectFailed(k)) PROVE AnswerInv'
    <2>1. PICK f : f = F("h_connect_failed", 0, k, "none")
      OBVIOUS
    <2>2. Plain(F("on_connected", 0, k, "IO"))
      BY PlainFrame DEF PlainOps, Ops
    <2>3. ctx_err'[k] # "OK" /\ Call(<<F("on_connected", 0, k, "IO"), f>>)
      BY <1>3, <2>1 DEF ByHiredis, ConnectFailed, IndInv, ContextPart
    <2>4. f.op = "h_connect_failed" /\ f.k = k
      BY <2>1 DEF F
    <2>5. Fine(f)'
      BY <2>3, <2>4 DEF Fine
    <2> QED
      BY <1>1, <2>2, <2>3, <2>5, PlainFine
  <1>4. ASSUME NEW k \in ConnIds, NEW e \in {"IO", "OTHER"}, ByHiredis(ConnectionLost(k, e))
        PROVE  AnswerInv'
    <2>1. PICK f : f = F("h_free", 0, k, "none")
      OBVIOUS
    <2>2. ctx_err'[k] # "OK" /\ Call(<<f>>)
      BY <1>4, <2>1 DEF ByHiredis, ConnectionLost, IndInv, ContextPart
    <2>3. f.op = "h_free" /\ f.k = k
      BY <2>1 DEF F
    <2>4. Fine(f)'
      BY <2>2, <2>3 DEF Fine, Closed
    <2> QED
      BY <1>1, <2>2, <2>4
  <1>5. ASSUME NEW k \in ConnIds, Reply(k) PROVE AnswerInv'
    <2>1. PICK r \in Answers(Head(replies[k])) : ByHiredis(ReplyArrives(k, r))
      BY <1>5 DEF Reply
    <2>2. r # "null"
      BY DEF Answers, Redirections
    <2>3. PICK f : f = ReplyFrame(k, r)
      OBVIOUS
    <2>4. f.op \in {"on_reply", "on_reply_asking"} /\ f.a = r
      <3>1. Head(replies[k]) \in Entries
        BY <2>1, TailType DEF ByHiredis, ReplyArrives, IndInv, QueuePart
      <3> QED
        BY <2>3, <3>1 DEF ReplyFrame, Entries, F
    <2>5. Plain(f) /\ Plain(F("h_reply_end", 0, k, "none"))
      BY <2>2, <2>4, PlainFrame DEF Plain, PlainOps, Ops
    <2>6. Call(<<f, F("h_reply_end", 0, k, "none")>>)
      BY <2>1, <2>3 DEF ByHiredis, ReplyArrives
    <2> QED
      BY <1>1, <2>5, <2>6, PlainFine
  <1> QED
    BY <1>2, <1>3, <1>4, <1>5 DEF NetworkStep

LEMMA NextAnswer == ASSUME IndInv, AnswerInv, [Next]_vars PROVE AnswerInv'
  <1>0. AnswerStep /\ StillClosed /\ StackSeq
    BY NextAnswerStep, NextStillClosed, StackFrames
  <1>1. ASSUME PlainStack PROVE AnswerInv'
    BY <1>0, <1>1, PlainAnswer DEF PlainStack
  <1>a. ASSUME SideMove PROVE AnswerInv'
    BY <1>0, <1>1, <1>a, SidePlain
  <1>2. CASE LibraryStep
    <2>1. CASE \/ exec_ttl \/ exec_failed \/ exec_pending \/ exec_conn \/ exec_conn_closing
               \/ exec_conn_failed \/ retry \/ destroy_cmd \/ Destroy \/ reload_exec \/ reload_end
      BY <1>a, <2>1, CommandSide
    <2>2. CASE exec \/ reload_slots \/ \E s \in Servers : on_reply_ask(s)
      BY <1>1, <1>a, <2>2, ConnectSide, AskPlain
    <2>3. CASE \/ on_reply_update_slot \/ run_pending \/ on_reply_update_slot_failed
               \/ release_connection \/ release_event \/ release_end \/ ConnectionRelease
               \/ reset_begin \/ reset_slots \/ reset \/ proc \/ proc_conn \/ proc_clear
      BY <1>a, <2>3, LoopSide
    <2>4. CASE \/ on_reply_retry \/ on_reply_clusterdown
               \/ \E s \in Servers, i \in Slots : on_reply_moved(i, s)
               \/ ask_pop \/ asking \/ on_reply_asking
               \/ on_connected_wrapper \/ on_connected_end \/ on_disconnected_wrapper
      BY <1>1, <1>a, <2>4, WrapperPlain, WrapperSide
    <2>5. CASE on_reply_wrapper \/ CallReply \/ PopReply
      BY <1>0, <2>5, OnReplyAnswer, CallReplyAnswer, PopReplyAnswer
    <2>6. CASE \/ ByHiredis(redisAsyncDisconnect) \/ ByHiredis(ConnectEnd)
               \/ ByHiredis(ConnectFailedEnd) \/ ByHiredis(ReplyEnd) \/ ByHiredis(FreeContext)
      BY <1>0, <2>6, HiredisAnswer, FreeContextAnswer
    <2>7. CASE ByHiredis(FreeContextEnd)
      <3>1. stack # <<>> /\ Return
        BY <2>7 DEF ByHiredis, FreeContextEnd, At, Running
      <3> QED
        BY <1>0, <1>1, <3>1, PlainMoves
    <2> QED
      BY <1>2, <2>1, <2>2, <2>3, <2>4, <2>5, <2>6, <2>7 DEF LibraryStep
  <1>3. CASE NetworkStep
    BY <1>0, <1>3, NetworkAnswer
  <1>4. CASE UserReturn \/ UserStep \/ Proc
    BY <1>a, <1>4, UserSide
  <1>5. CASE Crash \/ Idle \/ UNCHANGED vars
    <2>1. UNCHANGED stack
      BY <1>5 DEF Crash, UseAfterFree, Idle, vars, stackVars
    <2> QED
      BY <1>0, <1>1, <2>1, PlainMoves
  <1> QED
    BY <1>2, <1>3, <1>4, <1>5 DEF Next

\* A nullptr that hiredis passes to the callbacks of a dying context stays
\* tied to an error on its way through on_reply_wrapper, call_reply and
\* pop_reply, although callbacks of the application run in between.
THEOREM AnswerInvariance == Spec => [](IndInv /\ AnswerInv)
  <1>1. Init => AnswerInv
    BY DEF Init, RuntimeInit, CmdInit, AnswerInv, NullPart, OkMeansAnswered
  <1>2. IndInv /\ AnswerInv /\ [Next]_vars => AnswerInv'
    BY NextAnswer
  <1> QED
    BY <1>1, <1>2, Invariance, PTL DEF Spec

\* A callback that reports OK was given a good reply: no lost connection,
\* redirection, timeout, reset or release lets a command without an answer pass
\* for a success (the error codes of on_reply_wrapper, connection::call_reply
\* and cmd_exec::call_reply), with either kind of hiredis.
THEOREM OkIsAnswered == Spec => []OkMeansAnswered
  <1>1. AnswerInv => OkMeansAnswered
    BY DEF AnswerInv
  <1> QED
    BY <1>1, AnswerInvariance, PTL

-----------------------------------------------------------------------------
(* Lists and queues in the same order                                      *)

\* A queue with a callback fewer, or more, in front or at the end.
LEMMA OrderEmpty == InOrder(<<>>, <<>>)
  <1> DEFINE at == [i \in {} |-> 0]
  <1>1. DOMAIN <<>> = {}
    OBVIOUS
  <1>2. at \in [{} -> {}] /\ {} = {at[i] : i \in {}}
    OBVIOUS
  <1> QED
    BY <1>1, <1>2 DEF InOrder

LEMMA OrderAppendOther ==
  ASSUME NEW S, NEW list \in Seq(S), NEW T, NEW q \in Seq(T), NEW e, e.fn # "on_reply",
         InOrder(list, q)
  PROVE  InOrder(list, Append(q, e))
  <1> DEFINE n == Len(q)
             p == Append(q, e)
             sent == {i \in DOMAIN q : q[i].fn = "on_reply"}
             more == {i \in DOMAIN p : p[i].fn = "on_reply"}
  <1>1. n \in Nat /\ DOMAIN q = 1 .. n /\ DOMAIN p = 1 .. n + 1 /\ p[n + 1] = e
        /\ \A i \in 1 .. n : p[i] = q[i]
    OBVIOUS
  <1> HIDE DEF p, n
  <1>2. \A i \in 1 .. n + 1 : i \in 1 .. n \/ i = n + 1
    BY <1>1
  <1>3. more = sent /\ \A i \in sent : p[i] = q[i]
    BY <1>1, <1>2
  <1>4. PICK at \in [DOMAIN list -> sent] :
          /\ \A i \in DOMAIN list : q[at[i]].c = list[i]
          /\ \A i, j \in DOMAIN list : i < j => at[i] < at[j]
          /\ sent = {at[i] : i \in DOMAIN list}
    BY DEF InOrder
  <1> HIDE DEF sent, more
  <1>5. at \in [DOMAIN list -> more] /\ \A i \in DOMAIN list : p[at[i]].c = list[i]
    BY <1>3, <1>4
  <1>6. \E a \in [DOMAIN list -> more] :
          /\ \A i \in DOMAIN list : p[a[i]].c = list[i]
          /\ \A i, j \in DOMAIN list : i < j => a[i] < a[j]
          /\ more = {a[i] : i \in DOMAIN list}
    BY <1>3, <1>4, <1>5
  <1> QED
    BY <1>6 DEF InOrder, more, p

LEMMA OrderAppend ==
  ASSUME NEW S, NEW list \in Seq(S), NEW T, NEW q \in Seq(T), NEW e, e.fn = "on_reply",
         InOrder(list, q)
  PROVE  InOrder(Append(list, e.c), Append(q, e))
  <1> DEFINE n == Len(q)
             p == Append(q, e)
             m == Len(list)
             long == Append(list, e.c)
             sent == {i \in DOMAIN q : q[i].fn = "on_reply"}
             more == {i \in DOMAIN p : p[i].fn = "on_reply"}
  <1>1. n \in Nat /\ DOMAIN q = 1 .. n /\ DOMAIN p = 1 .. n + 1 /\ p[n + 1] = e
        /\ \A i \in 1 .. n : p[i] = q[i]
    OBVIOUS
  <1>2. m \in Nat /\ DOMAIN list = 1 .. m /\ DOMAIN long = 1 .. m + 1 /\ long[m + 1] = e.c
        /\ \A i \in 1 .. m : long[i] = list[i]
    OBVIOUS
  <1>3. PICK at \in [DOMAIN list -> sent] :
          /\ \A i \in DOMAIN list : q[at[i]].c = list[i]
          /\ \A i, j \in DOMAIN list : i < j => at[i] < at[j]
          /\ sent = {at[i] : i \in DOMAIN list}
    BY DEF InOrder
  <1> DEFINE to == [i \in 1 .. m + 1 |-> IF i = m + 1 THEN n + 1 ELSE at[i]]
  <1> HIDE DEF p, n, m, long
  <1>4. (\A i \in 1 .. n + 1 : i \in 1 .. n \/ i = n + 1) /\ (\A i \in 1 .. m + 1 : i \in 1 .. m \/ i = m + 1)
        /\ m + 1 \notin 1 .. m /\ n + 1 \notin 1 .. n /\ m + 1 \in 1 .. m + 1 /\ n + 1 \in 1 .. n + 1
        /\ (\A i \in 1 .. n : i \in 1 .. n + 1) /\ (\A i \in 1 .. m : i \in 1 .. m + 1)
    BY <1>1, <1>2
  <1>5. more = sent \cup {n + 1}
    BY <1>1, <1>4
  <1>6. sent \subseteq 1 .. n
    BY <1>1
  <1> HIDE DEF sent, more
  <1>7. /\ to \in [1 .. m + 1 -> more] /\ to[m + 1] = n + 1
        /\ \A i \in 1 .. m : to[i] = at[i] /\ at[i] \in sent
    BY <1>2, <1>3, <1>4, <1>5
  <1> HIDE DEF to
  <1>8. ASSUME NEW i \in 1 .. m + 1 PROVE p[to[i]].c = long[i]
    <2>1. CASE i = m + 1
      BY <1>1, <1>2, <1>7, <2>1
    <2>2. CASE i # m + 1
      <3>1. i \in 1 .. m
        BY <1>4, <2>2
      <3>2. to[i] = at[i] /\ at[i] \in 1 .. n
        BY <1>6, <1>7, <3>1
      <3>3. p[to[i]] = q[at[i]] /\ long[i] = list[i]
        BY <1>1, <1>2, <3>1, <3>2
      <3> QED
        BY <1>2, <1>3, <3>1, <3>3
    <2> QED
      BY <2>1, <2>2
  <1>9. ASSUME NEW i \in 1 .. m + 1, NEW j \in 1 .. m + 1, i < j PROVE to[i] < to[j]
    <2>1. i \in 1 .. m
      BY <1>2, <1>9
    <2>2. at[i] \in 1 .. n /\ to[i] = at[i]
      BY <1>6, <1>7, <2>1
    <2>3. CASE j = m + 1
      BY <1>1, <1>7, <2>2, <2>3
    <2>4. CASE j # m + 1
      <3>1. j \in 1 .. m
        BY <1>4, <2>4
      <3> QED
        BY <1>2, <1>3, <1>7, <1>9, <2>1, <3>1
    <2> QED
      BY <2>3, <2>4
  <1>10. more = {to[i] : i \in 1 .. m + 1}
    BY <1>2, <1>3, <1>4, <1>5, <1>7
  <1>11. \E a \in [DOMAIN long -> more] :
          /\ \A i \in DOMAIN long : p[a[i]].c = long[i]
          /\ \A i, j \in DOMAIN long : i < j => a[i] < a[j]
          /\ more = {a[i] : i \in DOMAIN long}
    <2>1. to \in [DOMAIN long -> more] /\ more = {to[i] : i \in DOMAIN long}
      BY <1>2, <1>7, <1>10
    <2>2. /\ \A i \in DOMAIN long : p[to[i]].c = long[i]
          /\ \A i, j \in DOMAIN long : i < j => to[i] < to[j]
      BY <1>2, <1>8, <1>9
    <2> QED
      BY <2>1, <2>2
  <1> QED
    BY <1>11 DEF InOrder, more, p, long

\* The oldest callback is called: its command is the first of the list.
LEMMA OrderTailOther ==
  ASSUME NEW S, NEW list \in Seq(S), NEW T, NEW q \in Seq(T), q # <<>>, Head(q).fn # "on_reply",
         InOrder(list, q)
  PROVE  InOrder(list, Tail(q))
  <1> DEFINE n == Len(q)
             p == Tail(q)
             sent == {i \in DOMAIN q : q[i].fn = "on_reply"}
             less == {i \in DOMAIN p : p[i].fn = "on_reply"}
  <1>1. n \in Nat /\ n >= 1 /\ DOMAIN q = 1 .. n /\ DOMAIN p = 1 .. n - 1 /\ Head(q) = q[1]
        /\ \A i \in 1 .. n - 1 : p[i] = q[i + 1]
    OBVIOUS
  <1>2. PICK at \in [DOMAIN list -> sent] :
          /\ \A i \in DOMAIN list : q[at[i]].c = list[i]
          /\ \A i, j \in DOMAIN list : i < j => at[i] < at[j]
          /\ sent = {at[i] : i \in DOMAIN list}
    BY DEF InOrder
  <1> DEFINE to == [i \in DOMAIN list |-> at[i] - 1]
  <1> HIDE DEF p, n
  <1>3. \A i \in sent : i \in 2 .. n
    <2>1. ASSUME NEW i \in sent PROVE i \in 2 .. n
      <3>1. i \in 1 .. n /\ i # 1
        BY <1>1
      <3> QED
        BY <1>1, <3>1
    <2> QED
      BY <2>1
  <1>4. \A i \in sent : i - 1 \in less
    <2>1. ASSUME NEW i \in sent PROVE i - 1 \in less
      <3>1. i - 1 \in 1 .. n - 1 /\ (i - 1) + 1 = i
        BY <1>1, <1>3
      <3>2. p[i - 1] = q[i]
        BY <1>1, <3>1
      <3> QED
        BY <1>1, <3>1, <3>2
    <2> QED
      BY <2>1
  <1>5. \A i \in less : i + 1 \in sent /\ (i + 1) - 1 = i
    <2>1. ASSUME NEW i \in less PROVE i + 1 \in sent /\ (i + 1) - 1 = i
      <3>1. i \in 1 .. n - 1 /\ i + 1 \in 1 .. n /\ (i + 1) - 1 = i
        BY <1>1
      <3> QED
        BY <1>1, <3>1
    <2> QED
      BY <2>1
  <1>6. \A i \in DOMAIN list : to[i] = at[i] - 1 /\ at[i] \in sent /\ to[i] \in less
    BY <1>2, <1>4
  <1>7. \A i \in DOMAIN list : p[to[i]] = q[at[i]]
    <2>1. ASSUME NEW i \in DOMAIN list PROVE p[to[i]] = q[at[i]]
      <3>1. at[i] \in 2 .. n /\ to[i] = at[i] - 1
        BY <1>3, <1>6
      <3>2. at[i] - 1 \in 1 .. n - 1 /\ (at[i] - 1) + 1 = at[i]
        BY <1>1, <3>1
      <3> QED
        BY <1>1, <3>1, <3>2
    <2> QED
      BY <2>1
  <1> HIDE DEF sent, less
  <1>8. to \in [DOMAIN list -> less]
    BY <1>6
  <1>9. less = {to[i] : i \in DOMAIN list}
    BY <1>2, <1>5, <1>6
  <1>10. \A i, j \in DOMAIN list : i < j => to[i] < to[j]
    <2>1. ASSUME NEW i \in DOMAIN list, NEW j \in DOMAIN list, i < j PROVE to[i] < to[j]
      <3>1. at[i] < at[j] /\ at[i] \in 2 .. n /\ at[j] \in 2 .. n /\ to[i] = at[i] - 1 /\ to[j] = at[j] - 1
        BY <1>2, <1>3, <1>6, <2>1
      <3> QED
        BY <1>1, <3>1
    <2> QED
      BY <2>1
  <1> HIDE DEF to
  <1>11. \E a \in [DOMAIN list -> less] :
          /\ \A i \in DOMAIN list : p[a[i]].c = list[i]
          /\ \A i, j \in DOMAIN list : i < j => a[i] < a[j]
          /\ less = {a[i] : i \in DOMAIN list}
    BY <1>2, <1>7, <1>8, <1>9, <1>10
  <1> QED
    BY <1>11 DEF InOrder, less, p

LEMMA OrderTail ==
  ASSUME NEW S, NEW list \in Seq(S), NEW T, NEW q \in Seq(T), q # <<>>, Head(q).fn = "on_reply",
         InOrder(list, q)
  PROVE  list # <<>> /\ Head(list) = Head(q).c /\ InOrder(Tail(list), Tail(q))
  <1> DEFINE n == Len(q)
             p == Tail(q)
             m == Len(list)
             short == Tail(list)
             sent == {i \in DOMAIN q : q[i].fn = "on_reply"}
             less == {i \in DOMAIN p : p[i].fn = "on_reply"}
  <1>1. n \in Nat /\ n >= 1 /\ DOMAIN q = 1 .. n /\ DOMAIN p = 1 .. n - 1 /\ Head(q) = q[1]
        /\ \A i \in 1 .. n - 1 : p[i] = q[i + 1]
    OBVIOUS
  <1>2. PICK at \in [DOMAIN list -> sent] :
          /\ \A i \in DOMAIN list : q[at[i]].c = list[i]
          /\ \A i, j \in DOMAIN list : i < j => at[i] < at[j]
          /\ sent = {at[i] : i \in DOMAIN list}
    BY DEF InOrder
  <1>3. m \in Nat /\ DOMAIN list = 1 .. m
    OBVIOUS
  <1> HIDE DEF p, n, m
  <1>4. sent \subseteq 1 .. n /\ 1 \in sent
    BY <1>1
  <1>5. PICK i0 \in 1 .. m : at[i0] = 1
    BY <1>2, <1>3, <1>4
  <1>6. i0 = 1 /\ m >= 1
    <2>1. 1 \in 1 .. m
      BY <1>3, <1>5
    <2>2. at[1] \in 1 .. n
      BY <1>2, <1>3, <1>4, <2>1
    <2>3. ~(1 < i0)
      <3>1. 1 < i0 => at[1] < at[i0]
        BY <1>2, <1>3, <2>1
      <3> QED
        BY <1>1, <1>5, <2>2, <3>1
    <2> QED
      BY <1>3, <1>5, <2>3
  <1>7. list # <<>> /\ Head(list) = list[1] /\ list[1] = q[1].c
    <2>1. 1 \in 1 .. m /\ at[1] = 1
      BY <1>3, <1>5, <1>6
    <2>2. list # <<>>
      BY <1>3, <2>1
    <2>3. q[at[1]].c = list[1]
      BY <1>2, <1>3, <2>1
    <2> QED
      BY <2>1, <2>2, <2>3
  <1>8. DOMAIN short = 1 .. m - 1 /\ \A i \in 1 .. m - 1 : short[i] = list[i + 1]
    BY <1>7 DEF m
  <1> DEFINE to == [i \in 1 .. m - 1 |-> at[i + 1] - 1]
  <1> HIDE DEF short
  <1>9. ASSUME NEW i \in 1 .. m - 1
        PROVE  /\ i + 1 \in 1 .. m /\ at[i + 1] \in 2 .. n /\ to[i] = at[i + 1] - 1
               /\ to[i] \in less /\ p[to[i]] = q[at[i + 1]]
    <2>1. i + 1 \in 1 .. m /\ 1 \in 1 .. m /\ 1 < i + 1
      BY <1>3, <1>6
    <2>2. at[i + 1] \in 1 .. n /\ 1 < at[i + 1] /\ at[i + 1] \in sent
      BY <1>2, <1>3, <1>4, <1>5, <1>6, <2>1
    <2>3. at[i + 1] \in 2 .. n /\ at[i + 1] - 1 \in 1 .. n - 1 /\ (at[i + 1] - 1) + 1 = at[i + 1]
      BY <1>1, <2>2
    <2>4. p[at[i + 1] - 1] = q[at[i + 1]]
      BY <1>1, <2>3
    <2>5. at[i + 1] - 1 \in less
      BY <1>1, <2>2, <2>3, <2>4
    <2> QED
      BY <2>1, <2>3, <2>4, <2>5
  <1>10. ASSUME NEW x \in less PROVE \E i \in 1 .. m - 1 : to[i] = x
    <2>1. x \in 1 .. n - 1 /\ x + 1 \in 1 .. n /\ x + 1 # 1 /\ (x + 1) - 1 = x /\ p[x] = q[x + 1]
          /\ q[x + 1].fn = "on_reply"
      BY <1>1
    <2>2. PICK j \in 1 .. m : at[j] = x + 1
      BY <1>1, <1>2, <1>3, <2>1
    <2>3. j # 1
      BY <1>5, <1>6, <2>1, <2>2
    <2>4. j - 1 \in 1 .. m - 1 /\ (j - 1) + 1 = j
      BY <1>3, <2>3
    <2>5. to[j - 1] = x
      BY <2>1, <2>2, <2>4
    <2> QED
      BY <2>4, <2>5
  <1> HIDE DEF sent, less, to
  <1>11. less = {to[i] : i \in 1 .. m - 1}
    BY <1>9, <1>10
  <1>12. to \in [1 .. m - 1 -> less]
    BY <1>9 DEF to
  <1>13. \A i \in 1 .. m - 1 : p[to[i]].c = short[i]
    <2>1. ASSUME NEW i \in 1 .. m - 1 PROVE p[to[i]].c = short[i]
      <3>1. i + 1 \in 1 .. m /\ p[to[i]] = q[at[i + 1]] /\ short[i] = list[i + 1]
        BY <1>8, <1>9
      <3> QED
        BY <1>2, <1>3, <3>1
    <2> QED
      BY <2>1
  <1>14. ASSUME NEW i \in 1 .. m - 1, NEW j \in 1 .. m - 1, i < j PROVE to[i] < to[j]
    <2>1. i + 1 < j + 1
      BY <1>3, <1>14
    <2>2. at[i + 1] < at[j + 1]
      BY <1>2, <1>3, <1>9, <2>1
    <2>3. to[i] = at[i + 1] - 1 /\ to[j] = at[j + 1] - 1 /\ at[i + 1] \in 2 .. n /\ at[j + 1] \in 2 .. n
      BY <1>9
    <2> QED
      BY <1>1, <2>2, <2>3
  <1>15. \E a \in [DOMAIN short -> less] :
          /\ \A i \in DOMAIN short : p[a[i]].c = short[i]
          /\ \A i, j \in DOMAIN short : i < j => a[i] < a[j]
          /\ less = {a[i] : i \in DOMAIN short}
    <2>1. to \in [DOMAIN short -> less] /\ less = {to[i] : i \in DOMAIN short}
      BY <1>8, <1>11, <1>12
    <2>2. /\ \A i \in DOMAIN short : p[to[i]].c = short[i]
          /\ \A i, j \in DOMAIN short : i < j => to[i] < to[j]
      BY <1>8, <1>13, <1>14
    <2> QED
      BY <2>1, <2>2
  <1> QED
    BY <1>1, <1>7, <1>15 DEF InOrder, less, p, short

-----------------------------------------------------------------------------
(* The invariant                                                           *)

BelowOps   == {"h_reply_end", "h_free", "reset_begin", "reload_slots", "asking", "retry"}

\* The event loop enters hiredis at the bottom, and only there a context is
\* freed that may have callbacks left.  A reply is delivered right above, with
\* nothing in between that releases a connection, and by the top frame; only
\* when ASK makes a new connection, there may be more on top.
\* Only contexts of connections that have been made are disconnected.
MarkingOps == {"redisAsyncDisconnect", "h_connect_failed"}

FormAt(d) ==
  LET f == Pile[d] IN
  /\ f.op \in BottomOps => d = 0
  /\ f.op = "h_free" => d = 0 \/ (replies[f.k] = <<>> /\ disconnecting[f.k])
  /\ f.op \in DeliverOps => /\ \A e \in 0 .. d - 1 : Pile[e].op \in BelowOps
                            /\ f.op # "ask_pop" => d = Len(stack) - 1
                            /\ f.k <= nconn
  /\ Leaves(f) => /\ d > 0 /\ Pile[d - 1].op \in {"asking", "retry"}
                  /\ Pile[d - 1].c = f.c
  /\ f.op = "on_reply_update_slot" => LoadCmd(f.c)
  /\ f.op \in MarkingOps => f.k <= nconn

FormPart == \A d \in Heights : FormAt(d)

\* Connections that have not been made yet are empty, and the network has no
\* news about them.
Silent(k) == ctx_st[k] \notin {"connecting", "connected"} /\ ~disconnecting[k]

UnusedPart ==
  \A k \in ConnIds : k > nconn =>
    ~context_[k] /\ replies[k] = <<>> /\ reply_list_[k] = <<>> /\ Silent(k)

\* The reply list of a connection in use is the queue of hiredis, after the
\* command being delivered.
Awaits(d, k) == Pile[d].op \in DeliverOps /\ Pile[d].k = k

MatchPart ==
  \A k \in ConnIds : conn_status_[k] # "DISCONNECTED" =>
    /\ \A d \in Heights : Awaits(d, k) =>
         /\ reply_list_[k] # <<>> /\ Head(reply_list_[k]) = Pile[d].c
         /\ InOrder(Tail(reply_list_[k]), replies[k])
    /\ (\A d \in Heights : ~Awaits(d, k)) => InOrder(reply_list_[k], replies[k])

OrderInv == FormPart /\ UnusedPart /\ MatchPart

-----------------------------------------------------------------------------
(* Deliveries                                                              *)

\* At most one frame delivers a reply.
LEMMA OneDelivery ==
  ASSUME StackSeq, FormPart, NEW d \in Heights, NEW e \in Heights,
         Pile[d].op \in DeliverOps, Pile[e].op \in DeliverOps
  PROVE  d = e
  <1>1. Len(stack) \in Nat /\ d \in 0 .. Len(stack) - 1 /\ e \in 0 .. Len(stack) - 1
    BY PileFrames DEF Heights
  <1>2. ASSUME NEW a \in Heights, NEW b \in Heights, Pile[a].op \in DeliverOps,
               Pile[b].op \in DeliverOps, a < b
        PROVE  FALSE
    <2>1. Len(stack) \in Nat /\ a \in 0 .. b - 1
      BY <1>2, PileFrames DEF Heights
    <2>2. Pile[a].op \in BelowOps
      BY <1>2, <2>1 DEF FormPart, FormAt
    <2> QED
      BY <1>2, <2>2 DEF BelowOps, DeliverOps, HandedOps
  <1>3. ~(d < e) /\ ~(e < d)
    BY <1>2
  <1> QED
    BY <1>1, <1>3

LEMMA FrameGood == ASSUME IndInv, NEW d \in Heights PROVE Pile[d] \in GoodFrame
  <1>1. d \in 0 .. Len(stack) - 1 /\ Len(stack) \in Nat /\ stack \in Seq(GoodFrame)
    BY DEF Heights, IndInv, StackPart
  <1> QED
    BY <1>1 DEF Pile

\* The shape has to be shown for the new frames only.
LEMMA FormKept ==
  ASSUME IndInv, FormPart, NEW h, Keep(h), Len(stack) <= h + 1,
         stack # <<>> /\ Len(stack) = h => Top.op \notin HandedOps,
         \A k \in ConnIds : replies[k] = <<>> /\ disconnecting[k] =>
                             replies'[k] = <<>> /\ disconnecting'[k],
         nconn \in Nat, nconn' \in Nat, nconn <= nconn',
         \A d \in h .. Len(stack') - 1 : FormAt(d)'
  PROVE  FormPart'
  <1> SUFFICES ASSUME NEW d \in Heights' PROVE FormAt(d)'
    BY DEF FormPart
  <1>a. StackSeq
    BY StackFrames
  <1>0. /\ h \in Nat /\ Len(stack) \in Nat /\ Len(stack') \in Nat
        /\ h <= Len(stack) /\ h <= Len(stack')
    BY <1>a, KeptFrames
  <1>1. CASE d >= h
    BY <1>0, <1>1 DEF Heights
  <1>2. CASE d < h
    <2>1. d \in Heights /\ Pile'[d] = Pile[d] /\ d \in Nat
      BY <1>2, <1>a, <1>0, KeptFrames DEF Heights
    <2>2. FormAt(d) /\ Pile[d] \in Frame
      BY <1>a, <2>1, PileFrames DEF FormPart, Heights
    <2>3. \A e \in 0 .. d : Pile'[e] = Pile[e]
      BY <1>0, <1>2, <2>1 DEF Keep
    <2>4. \A e \in 0 .. d - 1 : e \in 0 .. d
      BY <2>1
    <2>5. Pile[d].op \in HandedOps => FALSE
      <3>1. SUFFICES ASSUME Pile[d].op \in HandedOps PROVE FALSE
        OBVIOUS
      <3>2. d = Len(stack) - 1
        BY <2>2, <3>1 DEF FormAt, DeliverOps, HandedOps
      <3>3. Len(stack) = h /\ stack # <<>> /\ Pile[d] = Top
        BY <1>a, <1>0, <1>2, <2>1, <3>2, PileFrames
      <3> QED
        BY <3>1, <3>3
    <2>6. Pile[d].op \in DeliverOps =>
            /\ \A e \in 0 .. d - 1 : Pile'[e].op \in BelowOps
            /\ Pile[d].op # "ask_pop" => d = Len(stack') - 1
            /\ Pile[d].k <= nconn'
      <3>1. SUFFICES ASSUME Pile[d].op \in DeliverOps
                     PROVE  /\ \A e \in 0 .. d - 1 : Pile'[e].op \in BelowOps
                            /\ Pile[d].op # "ask_pop" => d = Len(stack') - 1
                            /\ Pile[d].k <= nconn'
        OBVIOUS
      <3>2. Pile[d].k \in Nat
        BY <2>2, BoundsAssumption DEF Frame, ConnIds, BoundsAssumption
      <3>3. Pile[d].k <= nconn /\ \A e \in 0 .. d - 1 : Pile[e].op \in BelowOps
        BY <2>2, <3>1 DEF FormAt
      <3>4. Pile[d].k <= nconn'
        BY <3>2, <3>3
      <3>5. Pile[d].op = "ask_pop"
        BY <2>5, <3>1 DEF DeliverOps
      <3> QED
        BY <2>3, <2>4, <3>3, <3>4, <3>5
    <2>7. Leaves(Pile[d]) => d > 0 /\ Pile'[d - 1].op \in {"asking", "retry"} /\ Pile'[d - 1].c = Pile[d].c
      <3>1. d > 0 => d - 1 \in 0 .. d
        BY <2>1
      <3> QED
        BY <2>2, <2>3, <3>1 DEF FormAt
    <2>8. Pile[d].op = "h_free" => d = 0 \/ (replies'[Pile[d].k] = <<>> /\ disconnecting'[Pile[d].k])
      <3>1. Pile[d].op = "h_free" => Pile[d].k \in ConnIds
        BY <2>1, FrameGood DEF GoodFrame, Good, ConnOps
      <3> QED
        BY <2>2, <3>1 DEF FormAt
    <2>9. (Pile[d].op \in BottomOps => d = 0) /\ (Pile[d].op = "on_reply_update_slot" => LoadCmd(Pile[d].c))
      BY <2>2 DEF FormAt
    <2>10. Pile[d].op \in MarkingOps => Pile[d].k <= nconn'
      <3>1. Pile[d].k \in Nat
        BY <2>2, BoundsAssumption DEF Frame, ConnIds, BoundsAssumption
      <3>2. Pile[d].op \in MarkingOps => Pile[d].k <= nconn
        BY <2>2 DEF FormAt
      <3> QED
        BY <3>1, <3>2
    <2> QED
      BY <2>1, <2>6, <2>7, <2>8, <2>9, <2>10 DEF FormAt, Leaves
  <1> QED
    BY <1>0, <1>1, <1>2 DEF Heights

\* What happens to the reply list of a connection happens to the queue too.
Follows(k) ==
  /\ InOrder(reply_list_[k], replies[k]) => InOrder(reply_list_'[k], replies'[k])
  /\ reply_list_[k] # <<>> /\ InOrder(Tail(reply_list_[k]), replies[k]) =>
       /\ reply_list_'[k] # <<>> /\ Head(reply_list_'[k]) = Head(reply_list_[k])
       /\ InOrder(Tail(reply_list_'[k]), replies'[k])

\* No delivery begins or ends, and lists and queues stay in step.
LEMMA MatchKept ==
  ASSUME StackSeq, MatchPart, NEW h, Keep(h), Len(stack) <= h + 1,
         Len(stack) # h => Top.op \notin DeliverOps,
         \A d \in h .. Len(stack') - 1 : Pile'[d].op \notin DeliverOps,
         \A k \in ConnIds : conn_status_'[k] # "DISCONNECTED" =>
           \/ conn_status_[k] # "DISCONNECTED" /\ Follows(k)
           \/ /\ InOrder(reply_list_'[k], replies'[k])
              /\ \A d \in Heights : ~Awaits(d, k)
  PROVE  MatchPart'
  <1> SUFFICES ASSUME NEW k \in ConnIds, conn_status_'[k] # "DISCONNECTED"
               PROVE  /\ \A d \in Heights' : Awaits(d, k)' =>
                           /\ reply_list_'[k] # <<>> /\ Head(reply_list_'[k]) = Pile'[d].c
                           /\ InOrder(Tail(reply_list_'[k]), replies'[k])
                      /\ (\A d \in Heights' : ~Awaits(d, k)') => InOrder(reply_list_'[k], replies'[k])
    BY DEF MatchPart
  <1>1. \A d \in Heights' : Awaits(d, k)' => d \in Heights /\ Pile'[d] = Pile[d] /\ Awaits(d, k)
    BY KeptFrames DEF Awaits
  <1>2. \A d \in Heights : Awaits(d, k) => d \in Heights' /\ Pile'[d] = Pile[d] /\ Awaits(d, k)'
    BY KeptFrames DEF Awaits
  <1>3. CASE conn_status_[k] # "DISCONNECTED" /\ Follows(k)
    <2>1. \A d \in Heights : Awaits(d, k) =>
            /\ reply_list_[k] # <<>> /\ Head(reply_list_[k]) = Pile[d].c
            /\ InOrder(Tail(reply_list_[k]), replies[k])
      BY <1>3 DEF MatchPart
    <2>2. (\A d \in Heights : ~Awaits(d, k)) => InOrder(reply_list_[k], replies[k])
      BY <1>3 DEF MatchPart
    <2> QED
      BY <1>1, <1>2, <1>3, <2>1, <2>2 DEF Follows
  <1>4. CASE /\ InOrder(reply_list_'[k], replies'[k])
             /\ \A d \in Heights : ~Awaits(d, k)
    BY <1>1, <1>4
  <1> QED
    BY <1>3, <1>4

LEMMA SameFollows ==
  ASSUME NEW k, reply_list_'[k] = reply_list_[k], replies'[k] = replies[k]
  PROVE  Follows(k)
  BY DEF Follows

LEMMA SideForm ==
  ASSUME IndInv, OrderInv, nconn' \in Nat, nconn <= nconn', NEW d, Side(Pile'[d])
  PROVE  FormAt(d)' /\ Pile'[d].op \notin DeliverOps
  <1>1. PICK f : f = Pile'[d]
    OBVIOUS
  <1>2. CASE f.op = "redisAsyncDisconnect" /\ f.k \in ConnIds /\ context_[f.k]
    <2>1. ~(f.k > nconn)
      BY <1>2 DEF OrderInv, UnusedPart
    <2>2. f.k \in Nat /\ nconn \in Nat
      BY <1>2, BoundsAssumption DEF ConnIds, BoundsAssumption, IndInv, MapPart
    <2>3. f.k <= nconn'
      BY <2>1, <2>2
    <2> QED
      BY <1>1, <1>2, <2>3 DEF FormAt, DeliverOps, HandedOps, BottomOps, Leaves
  <1>3. CASE f.op \in SideOps \/ (f.op = "on_reply_update_slot" /\ LoadCmd(f.c))
    BY <1>1, <1>3 DEF SideOps, FormAt, DeliverOps, HandedOps, BottomOps, MarkingOps, Leaves
  <1> QED
    BY <1>1, <1>2, <1>3 DEF Side

\* A step that begins or ends no delivery; the frames it adds are in order.
OrderStack(h) ==
  /\ Keep(h) /\ Len(stack) <= h + 1
  /\ stack # <<>> => Top.op \notin DeliverOps
  /\ \A d \in h .. Len(stack') - 1 : FormAt(d)' /\ Pile'[d].op \notin DeliverOps

\* Lists and queues change together, and only those of connections that have
\* been made; a new connection begins with both empty.
OrderStep ==
  /\ nconn' \in Nat /\ nconn <= nconn'
  /\ \A k \in ConnIds :
       /\ conn_status_'[k] # "DISCONNECTED" =>
            \/ conn_status_[k] # "DISCONNECTED" /\ Follows(k)
            \/ k > nconn /\ reply_list_'[k] = reply_list_[k] /\ replies'[k] = replies[k]
       /\ replies[k] = <<>> /\ disconnecting[k] => replies'[k] = <<>> /\ disconnecting'[k]
       /\ k > nconn' => /\ context_'[k] => context_[k]
                        /\ reply_list_'[k] = reply_list_[k] /\ replies'[k] = replies[k]
                        /\ Silent(k) => Silent(k)'

\* The connections that deliver have been made.
LEMMA AwaitedMade ==
  ASSUME IndInv, OrderInv, NEW k \in ConnIds, k > nconn
  PROVE  /\ \A d \in Heights : ~Awaits(d, k)
         /\ reply_list_[k] = <<>> /\ replies[k] = <<>> /\ ~context_[k] /\ Silent(k)
  <1>1. ASSUME NEW d \in Heights, Awaits(d, k) PROVE FALSE
    <2>1. Pile[d].k <= nconn /\ Pile[d].k = k
      BY <1>1 DEF OrderInv, FormPart, FormAt, Awaits
    <2>2. k \in Nat /\ nconn \in Nat
      BY BoundsAssumption DEF BoundsAssumption, ConnIds, IndInv, MapPart
    <2> QED
      BY <2>1, <2>2
  <1> QED
    BY <1>1 DEF OrderInv, UnusedPart

LEMMA OrderMoves ==
  ASSUME IndInv, OrderInv, NEW h, OrderStack(h), OrderStep
  PROVE  OrderInv'
  <1>0. StackSeq
    BY StackFrames
  <1>1. \A d \in h .. Len(stack') - 1 : FormAt(d)' /\ Pile'[d].op \notin DeliverOps
    BY DEF OrderStack
  <1>2. stack # <<>> => Top.op \notin HandedOps
    BY DEF OrderStack, DeliverOps
  <1>3. nconn \in Nat /\ nconn' \in Nat /\ nconn <= nconn'
    BY DEF IndInv, MapPart, OrderStep
  <1>4. FormPart'
    BY <1>1, <1>2, <1>3, FormKept DEF OrderStack, OrderStep, OrderInv
  <1>5. ASSUME NEW k \in ConnIds, conn_status_'[k] # "DISCONNECTED"
        PROVE  \/ conn_status_[k] # "DISCONNECTED" /\ Follows(k)
               \/ /\ InOrder(reply_list_'[k], replies'[k])
                  /\ \A d \in Heights : ~Awaits(d, k)
    <2>1. CASE k > nconn /\ reply_list_'[k] = reply_list_[k] /\ replies'[k] = replies[k]
      BY <2>1, AwaitedMade, OrderEmpty
    <2> QED
      BY <1>5, <2>1 DEF OrderStep
  <1>6. Len(stack) # h => stack # <<>>
    BY <1>0, PileFrames DEF OrderStack, Keep
  <1>7. MatchPart'
    BY <1>0, <1>1, <1>5, <1>6, MatchKept DEF OrderStack, OrderInv
  <1>8. ASSUME NEW k \in ConnIds, k > nconn'
        PROVE  ~context_'[k] /\ replies'[k] = <<>> /\ reply_list_'[k] = <<>> /\ Silent(k)'
    <2>1. k \in Nat
      BY BoundsAssumption DEF BoundsAssumption, ConnIds
    <2>2. k > nconn
      BY <1>3, <1>8, <2>1
    <2> QED
      BY <1>8, <2>2, AwaitedMade DEF OrderStep
  <1>9. UnusedPart'
    BY <1>8 DEF UnusedPart
  <1> QED
    BY <1>4, <1>7, <1>9 DEF OrderInv

\* Frames of no importance come and go.
SideStack(h) ==
  /\ Keep(h) /\ Len(stack) <= h + 1
  /\ \A d \in h .. Len(stack') - 1 : Side(Pile'[d])

LEMMA SideKeeps ==
  ASSUME StackSeq, SideMove
  PROVE  \E h : SideStack(h)
  <1>1. Len(stack) \in Nat /\ (stack # <<>> => Len(stack) >= 1 /\ Len(stack) - 1 \in Nat)
    BY PileFrames
  <1>2. ASSUME NEW h \in Nat, Keep(h), Len(stack) <= h + 1, NEW S, NEW fs \in Seq(S),
               \A f \in S : Side(f), Len(stack') = h + Len(fs),
               \A i \in 1 .. Len(fs) : Pile'[h + Len(fs) - i] = fs[i]
        PROVE  SideStack(h)
    <2>1. ASSUME NEW d \in h .. Len(stack') - 1 PROVE Side(Pile'[d])
      <3>1. Len(fs) \in Nat
        OBVIOUS
      <3>2. h + Len(fs) - d \in 1 .. Len(fs) /\ h + Len(fs) - (h + Len(fs) - d) = d
        BY <1>2, <3>1
      <3>3. PICK i \in 1 .. Len(fs) : h + Len(fs) - i = d
        BY <3>2
      <3>4. Pile'[d] = fs[i]
        BY <1>2, <3>3
      <3>5. fs[i] \in S
        OBVIOUS
      <3> QED
        BY <1>2, <3>4, <3>5
    <2> QED
      BY <1>2, <2>1 DEF SideStack
  <1>3. ASSUME NEW fs, SideSeq(fs), stack # <<>>, Continue(fs) PROVE \E h : SideStack(h)
    <2>1. PICK S : fs \in Seq(S) /\ \A f \in S : Side(f)
      BY <1>3 DEF SideSeq
    <2>2. /\ Keep(Len(stack) - 1) /\ Len(stack') = Len(stack) - 1 + Len(fs)
          /\ \A i \in 1 .. Len(fs) : Pile'[Len(stack) - 1 + Len(fs) - i] = fs[i]
      BY <1>3, <2>1, ContinueMany
    <2>3. PICK h \in Nat : h = Len(stack) - 1
      BY <1>1, <1>3
    <2>4. Len(stack) <= h + 1
      BY <1>1, <2>3
    <2> QED
      BY <1>2, <2>1, <2>2, <2>3, <2>4
  <1>4. ASSUME NEW fs, SideSeq(fs), Call(fs) PROVE \E h : SideStack(h)
    <2>1. PICK S : fs \in Seq(S) /\ \A f \in S : Side(f)
      BY <1>4 DEF SideSeq
    <2>2. /\ Keep(Len(stack)) /\ Len(stack') = Len(stack) + Len(fs)
          /\ \A i \in 1 .. Len(fs) : Pile'[Len(stack) + Len(fs) - i] = fs[i]
      BY <1>4, <2>1, CallMany
    <2>3. Len(stack) <= Len(stack) + 1
      BY <1>1
    <2> QED
      BY <1>1, <1>2, <2>1, <2>2, <2>3
  <1>5. CASE stack # <<>> /\ Return
    <2>1. Continue(<<>>)
      BY <1>5 DEF Return, Continue, StackSeq, Rest
    <2> QED
      BY <1>3, <1>5, <2>1, SideSeqs
  <1>6. CASE UNCHANGED stack
    <2>1. Keep(Len(stack)) /\ Len(stack') = Len(stack)
      BY <1>1, <1>6 DEF Keep, Pile
    <2>2. Len(stack) <= Len(stack) + 1 /\ ~(\E d : d \in Len(stack) .. Len(stack) - 1)
      BY <1>1
    <2> QED
      BY <2>1, <2>2 DEF SideStack
  <1> QED
    BY <1>3, <1>4, <1>5, <1>6 DEF SideMove

LEMMA SideOrder ==
  ASSUME IndInv, OrderInv, SideMove, stack # <<>> => Top.op \notin DeliverOps, OrderStep
  PROVE  OrderInv'
  <1>1. PICK h : SideStack(h)
    BY StackFrames, SideKeeps
  <1>2. nconn' \in Nat /\ nconn <= nconn'
    BY DEF OrderStep
  <1>3. \A d \in h .. Len(stack') - 1 : FormAt(d)' /\ Pile'[d].op \notin DeliverOps
    BY <1>1, <1>2, SideForm DEF SideStack
  <1>4. OrderStack(h)
    BY <1>1, <1>3 DEF SideStack, OrderStack
  <1> QED
    BY <1>4, OrderMoves

-----------------------------------------------------------------------------
(* Steps that deliver nothing                                              *)

\* Neither a list nor a queue changes.
SameQueues ==
  /\ UNCHANGED <<reply_list_, replies, nconn, context_>>
  /\ \A k \in ConnIds : /\ conn_status_'[k] # "DISCONNECTED" => conn_status_[k] # "DISCONNECTED"
                        /\ disconnecting[k] => disconnecting'[k]
                        /\ k > nconn /\ Silent(k) => Silent(k)'

LEMMA SameOrder == ASSUME IndInv, SameQueues PROVE OrderStep
  <1>1. nconn \in Nat
    BY DEF IndInv, MapPart
  <1> QED
    BY <1>1, SameFollows DEF SameQueues, OrderStep

\* A command is sent: it goes to the end of both.
LEMMA SentOrder ==
  ASSUME IndInv, FlowInv, OrderInv, exec_conn
  PROVE  OrderStep
  <1>1. PICK k : k = Top.k
    OBVIOUS
  <1>2. PICK c : c = Top.c
    OBVIOUS
  <1>3. k \in ConnIds /\ c \in Created
    BY <1>1, <1>2, TopCmd DEF exec_conn, IndInv, ConnOps, CmdOps
  <1>4. context_[k] /\ conn_status_[k] # "DISCONNECTED" /\ ~disconnecting[k]
    BY <1>1 DEF exec_conn, redis_cmd_result, Accepts
  <1> DEFINE e == [fn |-> "on_reply", c |-> c]
  <1>5. /\ replies' = [replies EXCEPT ![k] = Append(@, e)]
        /\ reply_list_' = [reply_list_ EXCEPT ![k] = Append(@, c)]
        /\ UNCHANGED <<nconn, context_, conn_status_, disconnecting, ctx_st>>
    BY <1>1, <1>2 DEF exec_conn, redis_cmd, redisAsyncFormattedCommand, clusterVars, mapVars
  <1>6. /\ replies \in [ConnIds -> Seq(Entries)] /\ reply_list_ \in [ConnIds -> Seq(Created)]
        /\ nconn \in Nat
    BY DEF IndInv, QueuePart, MapPart
  <1>7. e.fn = "on_reply" /\ e.c = c
    OBVIOUS
  <1> HIDE DEF e
  <1>8. /\ replies'[k] = Append(replies[k], e) /\ reply_list_'[k] = Append(reply_list_[k], c)
        /\ \A j \in ConnIds \ {k} : replies'[j] = replies[j] /\ reply_list_'[j] = reply_list_[j]
    BY <1>3, <1>5, <1>6
  <1>9. ASSUME reply_list_[k] # <<>>
        PROVE  /\ Tail(reply_list_[k]) \in Seq(Created) /\ reply_list_'[k] # <<>>
               /\ Head(reply_list_'[k]) = Head(reply_list_[k])
               /\ Tail(reply_list_'[k]) = Append(Tail(reply_list_[k]), c)
    <2>1. PICK list \in Seq(Created) : list = reply_list_[k]
      BY <1>3, <1>6
    <2>2. list # <<>> /\ c \in Created
      BY <1>3, <1>9, <2>1
    <2>3. /\ Append(list, c) # <<>> /\ Tail(list) \in Seq(Created)
          /\ Head(Append(list, c)) = Head(list) /\ Tail(Append(list, c)) = Append(Tail(list), c)
      BY <2>2
    <2> QED
      BY <1>8, <2>1, <2>3
  <1>10. Follows(k)
    <2>1. replies[k] \in Seq(Entries) /\ reply_list_[k] \in Seq(Created)
      BY <1>3, <1>6
    <2>2. InOrder(reply_list_[k], replies[k]) => InOrder(reply_list_'[k], replies'[k])
      BY <1>7, <1>8, <2>1, OrderAppend
    <2>3. reply_list_[k] # <<>> /\ InOrder(Tail(reply_list_[k]), replies[k]) =>
            InOrder(Tail(reply_list_'[k]), replies'[k])
      BY <1>7, <1>8, <1>9, <2>1, OrderAppend
    <2> QED
      BY <1>9, <2>2, <2>3 DEF Follows
  <1>11. \A j \in ConnIds : j > nconn => j # k
    BY <1>4, AwaitedMade
  <1>12. \A j \in ConnIds : j # k => Follows(j)
    BY <1>8, SameFollows
  <1>13. nconn' \in Nat /\ nconn <= nconn'
    BY <1>5, <1>6
  <1> QED
    BY <1>4, <1>5, <1>8, <1>10, <1>11, <1>12, <1>13 DEF OrderStep, Silent

\* ASKING is sent: no list is concerned.
LEMMA AskingOrder ==
  ASSUME IndInv, FlowInv, OrderInv, asking
  PROVE  OrderStep
  <1>1. PICK k : k = Top.k
    OBVIOUS
  <1>2. PICK c : c = Top.c
    OBVIOUS
  <1>3. k \in ConnIds
    BY <1>1, TopCmd DEF asking, IndInv, ConnOps
  <1>4. UNCHANGED <<nconn, context_, conn_status_, reply_list_>>
    BY DEF asking, connVars, clusterVars, mapVars
  <1>5. CASE ~Accepts(k)
    <2>1. SameQueues
      BY <1>1, <1>4, <1>5 DEF asking, hiredisVars, SameQueues, Silent
    <2> QED
      BY <2>1, SameOrder
  <1>6. CASE Accepts(k)
    <2> DEFINE e == [fn |-> "on_reply_asking", c |-> c]
    <2>1. /\ replies' = [replies EXCEPT ![k] = Append(@, e)]
          /\ UNCHANGED <<disconnecting, ctx_st>> /\ ~disconnecting[k]
      BY <1>1, <1>2, <1>6 DEF asking, redisAsyncFormattedCommand, Accepts
    <2>2. /\ replies \in [ConnIds -> Seq(Entries)] /\ reply_list_ \in [ConnIds -> Seq(Created)]
          /\ nconn \in Nat
      BY DEF IndInv, QueuePart, MapPart
    <2>3. e.fn # "on_reply"
      OBVIOUS
    <2> HIDE DEF e
    <2>4. /\ replies'[k] = Append(replies[k], e) /\ reply_list_'[k] = reply_list_[k]
          /\ \A j \in ConnIds \ {k} : replies'[j] = replies[j] /\ reply_list_'[j] = reply_list_[j]
      BY <1>3, <1>4, <2>1, <2>2
    <2>5. Follows(k)
      <3>1. replies[k] \in Seq(Entries) /\ reply_list_[k] \in Seq(Created)
        BY <1>3, <2>2
      <3>2. InOrder(reply_list_[k], replies[k]) => InOrder(reply_list_'[k], replies'[k])
        BY <2>3, <2>4, <3>1, OrderAppendOther
      <3>3. reply_list_[k] # <<>> => Tail(reply_list_[k]) \in Seq(Created)
        BY <3>1
      <3>4. reply_list_[k] # <<>> /\ InOrder(Tail(reply_list_[k]), replies[k]) =>
              InOrder(Tail(reply_list_'[k]), replies'[k])
        BY <2>3, <2>4, <3>1, <3>3, OrderAppendOther
      <3> QED
        BY <2>4, <3>2, <3>4 DEF Follows
    <2>6. context_[k]
      BY <1>1 DEF asking, At, Dangling
    <2>7. \A j \in ConnIds : j > nconn => j # k
      BY <2>6, AwaitedMade
    <2> QED
      BY <1>3, <1>4, <2>1, <2>2, <2>4, <2>5, <2>7, SameFollows DEF OrderStep, Silent
  <1> QED
    BY <1>5, <1>6

\* A connection is made.
LEMMA MadeOrder ==
  ASSUME IndInv, NEW k, k = nconn + 1, nconn < MaxConns, NEW s, make_connection(k, s)
  PROVE  OrderStep
  <1>1. nconn \in Nat /\ nconn' = k
    BY DEF IndInv, MapPart, make_connection
  <1>2. UNCHANGED <<reply_list_, replies, disconnecting>>
    BY DEF make_connection, redisAsyncConnect, set_connecting
  <1>3. /\ context_' = [context_ EXCEPT ![k] = TRUE]
        /\ conn_status_' = [conn_status_ EXCEPT ![k] = "CONNECTING"]
    BY DEF make_connection, set_connecting
  <1>4. context_ \in [ConnIds -> BOOLEAN] /\ conn_status_ \in [ConnIds -> Statuses]
    BY DEF IndInv, ConnPart
  <1>5. nconn <= nconn' /\ k > nconn /\ ~(k > nconn')
    BY <1>1
  <1>6. \A j \in ConnIds : j # k => ctx_st'[j] = ctx_st[j]
    BY DEF make_connection, redisAsyncConnect, IndInv, ContextPart
  <1> QED
    BY <1>1, <1>2, <1>3, <1>4, <1>5, <1>6, SameFollows DEF OrderStep, Silent

\* A connection that is being released fails its commands.
LEMMA ReleasedOrder ==
  ASSUME IndInv, FlowInv, ConnectionRelease
  PROVE  OrderStep
  <1>1. PICK k : k = Top.k
    OBVIOUS
  <1>2. StackSeq /\ stack # <<>> /\ Top.op = "connection_release"
    BY StackFrames DEF ConnectionRelease, connection_release, At, Running
  <1>3. Len(stack) - 1 \in Heights /\ Pile[Len(stack) - 1] = Top
    BY <1>2, HeightOf
  <1>4. k \in ConnIds /\ conn_st[k] # "none" /\ conn_status_[k] = "DISCONNECTED"
    <2>1. k \in ConnIds
      BY <1>1, <1>2, <1>3, ReleaseFrameConn
    <2> QED
      BY <1>1, <1>2, <1>3, <2>1 DEF FlowInv, ReleasePart
  <1>5. ~(k > nconn)
    BY <1>4 DEF FlowInv, LinkPart
  <1>6. /\ UNCHANGED <<replies, disconnecting, ctx_st, nconn>>
        /\ \A j \in ConnIds \ {k} : reply_list_'[j] = reply_list_[j] /\ context_'[j] = context_[j]
                                    /\ conn_status_'[j] = conn_status_[j]
        /\ conn_status_'[k] = "DISCONNECTED"
    BY <1>1, <1>4 DEF ConnectionRelease, connection_release, hiredisVars, clusterVars, mapVars,
       IndInv, ConnPart, QueuePart
  <1>7. nconn \in Nat
    BY DEF IndInv, MapPart
  <1> QED
    BY <1>4, <1>5, <1>6, <1>7, SameFollows DEF OrderStep, Silent

LEMMA QuietQueues == ASSUME UNCHANGED <<hiredisVars, connVars, nconn>> PROVE SameQueues
  BY DEF SameQueues, Silent, hiredisVars, connVars

LEMMA QuietCommand ==
  ASSUME \/ exec_ttl \/ exec_failed \/ exec_pending \/ exec_conn_closing \/ exec_conn_failed
         \/ retry \/ destroy_cmd \/ Destroy \/ reload_exec \/ reload_end
         \/ on_reply_update_slot \/ run_pending \/ on_reply_update_slot_failed
  PROVE  SameQueues /\ stack # <<>> /\ Top.op \notin DeliverOps
  <1>1. UNCHANGED <<hiredisVars, connVars, nconn>>
    BY DEF exec_ttl, exec_failed, exec_pending, exec_conn_closing, exec_conn_failed, retry,
       destroy_cmd, Destroy, reload_exec, reload_end, on_reply_update_slot, run_pending,
       on_reply_update_slot_failed, clusterVars, mapVars
  <1>2. stack # <<>> /\ Top.op \notin DeliverOps
    BY DEF exec_ttl, exec_failed, exec_pending, exec_conn_closing, exec_conn_failed, retry,
       destroy_cmd, Destroy, destroy, reload_exec, reload_end, on_reply_update_slot, run_pending,
       on_reply_update_slot_failed, At, Running, DeliverOps, HandedOps
  <1> QED
    BY <1>1, <1>2, QuietQueues

LEMMA QuietLoop ==
  ASSUME IndInv,
         \/ release_connection \/ release_event \/ release_end
         \/ reset_begin \/ reset_slots \/ reset \/ proc \/ proc_conn \/ proc_clear
         \/ on_reply_asking \/ on_connected_wrapper \/ on_connected_end \/ on_disconnected_wrapper
  PROVE  SameQueues /\ stack # <<>> /\ Top.op \notin DeliverOps
  <1>0. stack # <<>> /\ Top.op \notin DeliverOps
    BY DEF release_connection, release_event, release_end, reset_begin, reset_slots, reset, proc,
       proc_conn, proc_clear, on_reply_asking, on_connected_wrapper, on_connected_end,
       on_disconnected_wrapper, At, Running, DeliverOps, HandedOps
  <1>1. CASE \/ release_event \/ reset_begin \/ reset_slots \/ reset \/ proc \/ proc_conn \/ proc_clear
             \/ on_reply_asking \/ on_connected_wrapper \/ on_disconnected_wrapper
    <2>1. UNCHANGED <<hiredisVars, connVars, nconn>>
      BY <1>1 DEF release_event, reset_begin, reset_slots, reset, proc, proc_conn, proc_clear,
         on_reply_asking, on_connected_wrapper, on_disconnected_wrapper, clusterVars, mapVars
    <2> QED
      BY <1>0, <2>1, QuietQueues
  <1>2. CASE release_connection \/ release_end \/ on_connected_end
    <2>1. PICK k : k = Top.k
      OBVIOUS
    <2>2. UNCHANGED <<reply_list_, replies, disconnecting, ctx_st, nconn, context_>>
      BY <1>2 DEF release_connection, release_end, on_connected_end, set_disconnected, set_connected,
         connVars, hiredisVars, clusterVars, mapVars
    <2>3. conn_status_' \in {conn_status_, [conn_status_ EXCEPT ![k] = "DISCONNECTED"]}
          \/ (conn_status_[k] = "CONNECTING" /\ conn_status_' = [conn_status_ EXCEPT ![k] = "CONNECTED"])
      BY <1>2, <2>1 DEF release_connection, release_end, on_connected_end, set_disconnected, set_connected,
         connVars
    <2>4. conn_status_ \in [ConnIds -> Statuses]
      BY DEF IndInv, ConnPart
    <2>5. \A j \in ConnIds : conn_status_'[j] # "DISCONNECTED" => conn_status_[j] # "DISCONNECTED"
      BY <2>3, <2>4
    <2> QED
      BY <1>0, <2>2, <2>5 DEF SameQueues, Silent
  <1> QED
    BY <1>1, <1>2

LEMMA QuietUser ==
  ASSUME \/ UserReturn \/ Proc \/ UserStart \/ UserReset \/ (\E s \in Servers : UserRelease(s))
         \/ (\E i \in Slots \cup {-1} : UserExec(i))
  PROVE  SameQueues /\ (stack # <<>> => Top.op \notin DeliverOps)
  <1>1. UNCHANGED <<hiredisVars, connVars, nconn>>
    BY DEF UserReturn, Proc, UserProc, UserStart, UserReset, UserRelease, UserExec, clusterVars, mapVars
  <1>2. stack # <<>> => Top.op \notin DeliverOps
    BY DEF UserReturn, Proc, UserProc, UserStart, UserReset, UserRelease, UserExec, InUser, InLoop,
       At, Running, DeliverOps, HandedOps
  <1> QED
    BY <1>1, <1>2, QuietQueues

\* Getting a connection, or making one.
LEMMA ConnectOrder ==
  ASSUME IndInv, NEW s, NEW found, NEW failed, WithConnection(s, found, failed)
  PROVE  OrderStep
  <1>1. CASE UNCHANGED <<cmdVars, hiredisVars, connVars, clusterVars>>
    <2>1. UNCHANGED <<hiredisVars, connVars, nconn>>
      BY <1>1 DEF clusterVars, mapVars
    <2> QED
      BY <2>1, QuietQueues, SameOrder
  <1>2. CASE nconn < MaxConns /\ make_connection(nconn + 1, s)
    BY <1>2, MadeOrder
  <1> QED
    BY <1>1, <1>2 DEF WithConnection

LEMMA SideActions ==
  ASSUME IndInv, FlowInv, OrderInv,
         \/ exec_ttl \/ exec_failed \/ exec_pending \/ exec_conn \/ exec_conn_closing
         \/ exec_conn_failed \/ retry \/ destroy_cmd \/ Destroy \/ reload_exec \/ reload_end
         \/ on_reply_update_slot \/ run_pending \/ on_reply_update_slot_failed
         \/ release_connection \/ release_event \/ release_end \/ ConnectionRelease
         \/ reset_begin \/ reset_slots \/ reset \/ proc \/ proc_conn \/ proc_clear
         \/ asking \/ on_reply_asking
         \/ on_connected_wrapper \/ on_connected_end \/ on_disconnected_wrapper
         \/ UserReturn \/ Proc \/ UserStep \/ exec \/ reload_slots
  PROVE  OrderInv'
  <1>1. SideMove
    BY CommandSide, LoopSide, WrapperSide, UserSide, ConnectSide
  <1>2. CASE SameQueues /\ (stack # <<>> => Top.op \notin DeliverOps)
    BY <1>1, <1>2, SameOrder, SideOrder
  <1>3. CASE exec_conn
    <2>1. stack # <<>> /\ Top.op \notin DeliverOps
      BY <1>3 DEF exec_conn, At, Running, DeliverOps, HandedOps
    <2> QED
      BY <1>1, <1>3, <2>1, SentOrder, SideOrder
  <1>4. CASE asking
    <2>1. stack # <<>> /\ Top.op \notin DeliverOps
      BY <1>4 DEF asking, At, Running, DeliverOps, HandedOps
    <2> QED
      BY <1>1, <1>4, <2>1, AskingOrder, SideOrder
  <1>5. CASE ConnectionRelease
    <2>1. stack # <<>> /\ Top.op \notin DeliverOps
      BY <1>5 DEF ConnectionRelease, connection_release, At, Running, DeliverOps, HandedOps
    <2> QED
      BY <1>1, <1>5, <2>1, ReleasedOrder, SideOrder
  <1>6. CASE exec \/ reload_slots
    <2>1. stack # <<>> /\ Top.op \notin DeliverOps
      BY <1>6 DEF exec, reload_slots, At, Running, DeliverOps, HandedOps
    <2>2. \/ UNCHANGED <<hiredisVars, connVars, nconn>>
          \/ \E s, found, failed : WithConnection(s, found, failed)
      BY <1>6 DEF exec, reload_slots, clusterVars, mapVars
    <2>3. OrderStep
      BY <2>2, QuietQueues, SameOrder, ConnectOrder
    <2> QED
      BY <1>1, <2>1, <2>3, SideOrder
  <1>7. ASSUME NEW s \in Servers, UserConnect(s) PROVE OrderInv'
    <2>1. stack # <<>> => Top.op \notin DeliverOps
      BY <1>7 DEF UserConnect, InUser, InLoop, At, Running, DeliverOps, HandedOps
    <2>2. OrderStep
      BY <1>7, MadeOrder DEF UserConnect
    <2> QED
      BY <1>1, <2>1, <2>2, SideOrder
  <1> QED
    BY <1>2, <1>3, <1>4, <1>5, <1>6, <1>7, QuietCommand, QuietLoop, QuietUser DEF UserStep

-----------------------------------------------------------------------------
(* Steps of hiredis that deliver nothing                                   *)

LEMMA HiredisForm ==
  ASSUME NEW d,
         \/ Pile'[d].op \in BottomOps /\ d = 0 /\ Pile'[d].k <= nconn'
         \/ Pile'[d].op \in {"h_free", "h_reply_end"} /\ d = 0
         \/ /\ Pile'[d].op = "h_free"
            /\ replies'[Pile'[d].k] = <<>> /\ disconnecting'[Pile'[d].k]
  PROVE  FormAt(d)' /\ Pile'[d].op \notin DeliverOps
  BY DEF FormAt, DeliverOps, HandedOps, BottomOps, MarkingOps, Leaves

\* The top frame returns, or a context is freed in its place.
LEMMA EndOrder ==
  ASSUME IndInv, OrderInv,
         \/ ByHiredis(redisAsyncDisconnect) \/ ByHiredis(ConnectEnd)
         \/ ByHiredis(ConnectFailedEnd) \/ ByHiredis(ReplyEnd) \/ ByHiredis(FreeContextEnd)
  PROVE  OrderInv'
  <1>0. StackSeq
    BY StackFrames
  <1>1. PICK k : k = Top.k
    OBVIOUS
  <1>2. PICK f : f = F("h_free", 0, k, "none")
    OBVIOUS
  <1>3. PICK op \in BottomOps \cup {"redisAsyncDisconnect", "h_free_end"} : At(op)
    BY DEF ByHiredis, redisAsyncDisconnect, ConnectEnd, ConnectFailedEnd, ReplyEnd, FreeContextEnd,
       BottomOps
  <1>4. stack # <<>> /\ Top.op = op /\ k \in ConnIds /\ Top.op \notin DeliverOps
    <2>1. op \in ConnOps /\ op \notin DeliverOps
      BY DEF ConnOps, BottomOps, DeliverOps, HandedOps
    <2> QED
      BY <1>1, <1>3, <2>1, TopCmd DEF IndInv
  <1>5. disconnecting \in [ConnIds -> BOOLEAN]
    BY DEF IndInv, ContextPart
  <1>6. SameQueues
    <2>1. \A j \in ConnIds : disconnecting[j] => disconnecting'[j]
      BY <1>5 DEF ByHiredis, redisAsyncDisconnect, ConnectEnd, ConnectFailedEnd, ReplyEnd, FreeContextEnd
    <2>2. /\ \A j \in ConnIds : j # k => disconnecting'[j] = disconnecting[j] /\ ctx_st'[j] = ctx_st[j]
          /\ ctx_st'[k] \in {ctx_st[k], "freed"}
          /\ op \notin MarkingOps => UNCHANGED disconnecting
      BY <1>1, <1>4, <1>5 DEF ByHiredis, redisAsyncDisconnect, ConnectEnd, ConnectFailedEnd, ReplyEnd,
         FreeContextEnd, At, MarkingOps, IndInv, ContextPart
    <2>3. k > nconn => op \notin MarkingOps
      <3>1. Len(stack) - 1 \in Heights /\ Pile[Len(stack) - 1] = Top
        BY <1>0, <1>4, HeightOf
      <3>2. op \in MarkingOps => k <= nconn
        BY <1>1, <1>4, <3>1 DEF OrderInv, FormPart, FormAt
      <3>3. k \in Nat /\ nconn \in Nat
        BY <1>4, BoundsAssumption DEF ConnIds, BoundsAssumption, IndInv, MapPart
      <3> QED
        BY <3>2, <3>3
    <2>4. \A j \in ConnIds : j > nconn /\ Silent(j) => Silent(j)'
      BY <2>2, <2>3 DEF Silent
    <2> QED
      BY <2>1, <2>4 DEF ByHiredis, redisAsyncDisconnect, ConnectEnd, ConnectFailedEnd, ReplyEnd,
         FreeContextEnd, SameQueues, connVars, clusterVars, mapVars
  <1>7. \/ Return \/ Continue(<<>>)
        \/ Continue(<<f>>) /\ (Top.op \in BottomOps \/ (replies'[k] = <<>> /\ disconnecting'[k]))
    BY <1>1, <1>2, <1>4, <1>5 DEF ByHiredis, redisAsyncDisconnect, ConnectEnd, ConnectFailedEnd,
       ReplyEnd, FreeContextEnd, At, BottomOps
  <1>8. CASE Return \/ Continue(<<>>)
    <2>1. SideMove
      BY <1>4, <1>8, SideMoves, SideSeqs
    <2> QED
      BY <1>4, <1>6, <2>1, SameOrder, SideOrder
  <1>9. CASE Continue(<<f>>) /\ (Top.op \in BottomOps \/ (replies'[k] = <<>> /\ disconnecting'[k]))
    <2>1. PICK h : h = Len(stack) - 1
      OBVIOUS
    <2>2. Keep(h) /\ Len(stack') = Len(stack) /\ Pile'[h] = f
      BY <1>0, <1>4, <1>9, <2>1, ContinueOne
    <2>3. h \in Nat /\ h \in Heights /\ Pile[h] = Top /\ Len(stack) = h + 1
      BY <1>0, <1>4, <2>1, HeightOf
    <2>4. h .. Len(stack') - 1 = {h}
      BY <2>2, <2>3
    <2>5. f.op = "h_free" /\ f.k = k
      BY <1>2 DEF F
    <2>6. Top.op \in BottomOps => h = 0
      BY <2>3 DEF OrderInv, FormPart, FormAt
    <2>7. FormAt(h)' /\ Pile'[h].op \notin DeliverOps
      BY <1>9, <2>2, <2>5, <2>6, HiredisForm
    <2>8. Len(stack) <= h + 1
      BY <2>3
    <2>9. OrderStack(h)
      BY <1>4, <2>2, <2>4, <2>7, <2>8 DEF OrderStack
    <2> QED
      BY <1>6, <2>9, SameOrder, OrderMoves
  <1> QED
    BY <1>7, <1>8, <1>9

\* The event loop finds that a connection is established, or lost.
LEMMA EventOrder ==
  ASSUME IndInv, OrderInv, NEW k \in ConnIds,
         \/ ByHiredis(ConnectDone(k)) \/ ByHiredis(ConnectFailed(k))
         \/ \E e : ByHiredis(ConnectionLost(k, e))
  PROVE  OrderInv'
  <1>0. StackSeq /\ stack = <<>> /\ Len(stack) = 0
    BY StackFrames DEF ByHiredis, ConnectDone, ConnectFailed, ConnectionLost, InLoop
  <1>1. disconnecting \in [ConnIds -> BOOLEAN]
    BY DEF IndInv, ContextPart
  <1>a. ~Silent(k)
    BY DEF ByHiredis, ConnectDone, ConnectFailed, ConnectionLost, Silent
  <1>b. UNCHANGED nconn /\ nconn \in Nat /\ k \in Nat
    BY BoundsAssumption DEF ByHiredis, clusterVars, mapVars, IndInv, MapPart, ConnIds, BoundsAssumption
  <1>c. ~(k > nconn)
    BY <1>a, AwaitedMade
  <1>d. k <= nconn'
    BY <1>b, <1>c
  <1>2. SameQueues
    <2>1. \A j \in ConnIds : disconnecting[j] => disconnecting'[j]
      BY <1>1 DEF ByHiredis, ConnectDone, ConnectFailed, ConnectionLost
    <2>2. \A j \in ConnIds : j # k => disconnecting'[j] = disconnecting[j] /\ ctx_st'[j] = ctx_st[j]
      BY <1>1 DEF ByHiredis, ConnectDone, ConnectFailed, ConnectionLost, IndInv, ContextPart
    <2>3. \A j \in ConnIds : j > nconn /\ Silent(j) => Silent(j)'
      BY <1>c, <2>2 DEF Silent
    <2> QED
      BY <2>1, <2>3 DEF ByHiredis, ConnectDone, ConnectFailed, ConnectionLost, SameQueues, connVars,
         clusterVars, mapVars
  <1>3. CASE \E e : ByHiredis(ConnectionLost(k, e))
    <2>1. PICK f : f = F("h_free", 0, k, "none")
      OBVIOUS
    <2>2. Call(<<f>>) /\ f.op = "h_free"
      BY <1>3, <2>1 DEF ByHiredis, ConnectionLost, F
    <2>3. Keep(0) /\ Len(stack') = 1 /\ Pile'[0] = f
      BY <1>0, <2>2, CallOne
    <2>4. FormAt(0)' /\ Pile'[0].op \notin DeliverOps
      BY <2>2, <2>3, HiredisForm
    <2>5. 0 .. Len(stack') - 1 = {0} /\ Len(stack) <= 0 + 1
      BY <1>0, <2>3
    <2>6. OrderStack(0)
      BY <1>0, <2>3, <2>4, <2>5 DEF OrderStack
    <2> QED
      BY <1>2, <2>6, SameOrder, OrderMoves
  <1>4. CASE ByHiredis(ConnectDone(k)) \/ ByHiredis(ConnectFailed(k))
    <2>1. PICK f, g : Call(<<f, g>>) /\ f.op = "on_connected" /\ g.op \in BottomOps /\ g.k = k
      <3>1. F("on_connected", 0, k, "OK").op = "on_connected" /\ F("on_connected", 0, k, "IO").op = "on_connected"
            /\ F("h_connect_end", 0, k, "none").op \in BottomOps
            /\ F("h_connect_failed", 0, k, "none").op \in BottomOps
            /\ F("h_connect_end", 0, k, "none").k = k /\ F("h_connect_failed", 0, k, "none").k = k
        BY DEF F, BottomOps
      <3> QED
        BY <1>4, <3>1 DEF ByHiredis, ConnectDone, ConnectFailed
    <2>2. Keep(0) /\ Len(stack') = 2 /\ Pile'[1] = f /\ Pile'[0] = g
      BY <1>0, <2>1, CallTwo
    <2>3. FormAt(0)' /\ Pile'[0].op \notin DeliverOps
      BY <1>d, <2>1, <2>2, HiredisForm
    <2>a. nconn' \in Nat /\ nconn <= nconn'
      BY <1>b
    <2>4. FormAt(1)' /\ Pile'[1].op \notin DeliverOps
      BY <2>1, <2>2, <2>a, SideForm, SideNames DEF Side
    <2>5. 0 .. Len(stack') - 1 = {0, 1} /\ Len(stack) <= 0 + 1
      BY <1>0, <2>2
    <2>6. OrderStack(0)
      BY <1>0, <2>2, <2>3, <2>4, <2>5 DEF OrderStack
    <2> QED
      BY <1>2, <2>6, SameOrder, OrderMoves
  <1> QED
    BY <1>3, <1>4

-----------------------------------------------------------------------------
(* Deliveries                                                              *)

\* The frame that delivers a reply is about to run.  Its connection is not
\* being released, since that would have to be done by a frame below.
LEMMA DeliverTop ==
  ASSUME IndInv, FlowInv, OrderInv, NEW op \in DeliverOps, At(op)
  PROVE  /\ StackSeq /\ stack # <<>> /\ Top.op = op /\ Top.k \in ConnIds /\ Top.k <= nconn
         /\ Len(stack) - 1 \in Nat /\ Len(stack) - 1 \in Heights /\ Pile[Len(stack) - 1] = Top
         /\ Len(stack) \in Nat
         /\ conn_status_[Top.k] # "DISCONNECTED" /\ context_[Top.k]
         /\ reply_list_[Top.k] # <<>> /\ Head(reply_list_[Top.k]) = Top.c
         /\ Top.c \in Elems(reply_list_[Top.k])
         /\ InOrder(Tail(reply_list_[Top.k]), replies[Top.k])
         /\ \A e \in 0 .. Len(stack) - 2 : Pile[e].op \in BelowOps
         /\ \A d \in Heights : Pile[d].op \in DeliverOps => d = Len(stack) - 1
  <1>1. PICK h : h = Len(stack) - 1
    OBVIOUS
  <1>2. PICK k : k = Top.k
    OBVIOUS
  <1>3. op \in ConnOps /\ op \in UsesConn
    BY DEF ConnOps, UsesConn, DeliverOps, HandedOps
  <1>4. StackSeq /\ stack # <<>> /\ Top.op = op /\ k \in ConnIds
    BY <1>2, <1>3, StackFrames, TopCmd DEF IndInv
  <1>5. Len(stack) \in Nat /\ h \in Nat /\ h \in Heights /\ Pile[h] = Top /\ Len(stack) = h + 1
    BY <1>1, <1>4, HeightOf
  <1>6. FormAt(h)
    BY <1>5 DEF OrderInv, FormPart
  <1>7. (\A e \in 0 .. h - 1 : Pile[e].op \in BelowOps) /\ k <= nconn
    BY <1>2, <1>4, <1>5, <1>6 DEF FormAt
  <1>8. conn_st[k] = "live"
    <2>1. conn_st[k] # "freed"
      BY <1>2, <1>3, <1>4 DEF At, Dangling
    <2>2. ~(k > nconn)
      BY <1>4, <1>7, BoundsAssumption DEF ConnIds, BoundsAssumption, IndInv, MapPart
    <2>3. conn_st[k] # "none"
      BY <1>4, <2>2 DEF FlowInv, LinkPart
    <2> QED
      BY <1>4, <2>1, <2>3 DEF IndInv, ConnPart, ObjectStates
  <1>9. conn_status_[k] # "DISCONNECTED"
    <2>1. SUFFICES ASSUME conn_status_[k] = "DISCONNECTED" PROVE FALSE
      OBVIOUS
    <2>2. PICK d \in Heights : Releases(d, k)
      BY <1>4, <1>8, <2>1 DEF FlowInv, ReleasePart
    <2>3. d \in 0 .. h - 1 \/ d = h
      BY <1>5 DEF Heights
    <2> QED
      BY <1>4, <1>5, <1>7, <2>2, <2>3 DEF Releases, ReleaseOps, BelowOps, DeliverOps, HandedOps
  <1>10. context_[k]
    BY <1>4, <1>9 DEF FlowInv, LinkPart
  <1>11. Awaits(h, k)
    BY <1>2, <1>4, <1>5 DEF Awaits
  <1>12. /\ reply_list_[k] # <<>> /\ Head(reply_list_[k]) = Top.c
         /\ InOrder(Tail(reply_list_[k]), replies[k])
    BY <1>4, <1>5, <1>9, <1>11 DEF OrderInv, MatchPart
  <1>13. Top.c \in Elems(reply_list_[k])
    <2>1. reply_list_[k] \in Seq(Created)
      BY <1>4 DEF IndInv, QueuePart
    <2>2. 1 \in DOMAIN reply_list_[k] /\ Head(reply_list_[k]) = reply_list_[k][1]
      BY <1>12, <2>1
    <2> QED
      BY <1>12, <2>2 DEF Elems
  <1>14. \A d \in Heights : Pile[d].op \in DeliverOps => d = h
    BY <1>4, <1>5, OneDelivery DEF OrderInv
  <1>15. Len(stack) - 2 = h - 1
    BY <1>5
  <1> QED
    BY <1>1, <1>2, <1>4, <1>5, <1>7, <1>9, <1>10, <1>12, <1>13, <1>14, <1>15

\* hiredis calls the oldest callback of context k: the first command of the
\* reply list is being delivered from now on, unless the callback is for ASKING.
LEMMA DeliverBegins ==
  ASSUME IndInv, OrderInv, NEW k \in ConnIds, replies[k] # <<>>,
         replies' = [replies EXCEPT ![k] = Tail(@)],
         UNCHANGED <<reply_list_, nconn, context_, conn_status_, disconnecting, ctx_st>>,
         Len(stack) <= 1, stack # <<>> => Top.op \notin DeliverOps,
         Keep(0), Len(stack') = 2,
         Pile'[1].op = Head(replies[k]).fn, Pile'[1].c = Head(replies[k]).c, Pile'[1].k = k,
         Pile'[0].op \in {"h_reply_end", "h_free"}
  PROVE  OrderInv'
  <1>0. StackSeq
    BY StackFrames
  <1>1. /\ replies \in [ConnIds -> Seq(Entries)] /\ reply_list_ \in [ConnIds -> Seq(Created)]
        /\ nconn \in Nat /\ k \in Nat
    BY BoundsAssumption DEF IndInv, QueuePart, MapPart, ConnIds, BoundsAssumption
  <1>2. PICK q \in Seq(Entries) : q = replies[k]
    BY <1>1
  <1>3. PICK list \in Seq(Created) : list = reply_list_[k]
    BY <1>1
  <1>4. q # <<>> /\ replies'[k] = Tail(q) /\ reply_list_'[k] = list
        /\ \A j \in ConnIds \ {k} : replies'[j] = replies[j] /\ reply_list_'[j] = reply_list_[j]
    BY <1>1, <1>2, <1>3
  <1>5. ~(k > nconn)
    BY AwaitedMade
  <1>6. \A d \in Heights : Pile[d].op \notin DeliverOps
    <2>1. ASSUME NEW d \in Heights PROVE stack # <<>> /\ Pile[d] = Top
      <3>1. Len(stack) \in Nat /\ d \in 0 .. Len(stack) - 1
        BY <1>0, PileFrames DEF Heights
      <3>a. ASSUME NEW n \in Nat, n <= 1, d \in 0 .. n - 1 PROVE n = 1 /\ d = n - 1
        BY <3>a
      <3>2. Len(stack) = 1 /\ d = Len(stack) - 1
        BY <3>1, <3>a
      <3>3. stack # <<>>
        BY <1>0, <3>2, PileFrames
      <3> QED
        BY <1>0, <3>2, <3>3, PileFrames
    <2> QED
      BY <2>1
  <1>7. FormAt(0)' /\ Pile'[0].op \notin DeliverOps
    BY HiredisForm DEF BottomOps
  <1>8. 0 .. Len(stack') - 1 = {0, 1}
    OBVIOUS
  <1>9. Head(q) \in Entries
    BY <1>4, TailType
  <1>10. CASE Head(q).fn = "on_reply_asking"
    <2>1. FormAt(1)' /\ Pile'[1].op \notin DeliverOps
      BY <1>1, <1>2, <1>10, SideForm, SideNames DEF Side
    <2>2. Len(stack) <= 0 + 1
      OBVIOUS
    <2>3. OrderStack(0)
      BY <1>7, <1>8, <2>1, <2>2 DEF OrderStack
    <2>4. Follows(k)
      <3>1. Head(q).fn # "on_reply"
        BY <1>10
      <3>2. InOrder(list, q) => InOrder(list, Tail(q))
        BY <1>4, <3>1, OrderTailOther
      <3>3. list # <<>> => Tail(list) \in Seq(Created)
        OBVIOUS
      <3>4. list # <<>> /\ InOrder(Tail(list), q) => InOrder(Tail(list), Tail(q))
        BY <1>4, <3>1, <3>3, OrderTailOther
      <3> QED
        BY <1>2, <1>3, <1>4, <3>2, <3>4 DEF Follows
    <2>5. \A j \in ConnIds \ {k} : Follows(j)
      BY <1>4, SameFollows
    <2>6. OrderStep
      BY <1>1, <1>4, <1>5, <2>4, <2>5 DEF OrderStep, Silent
    <2> QED
      BY <2>3, <2>6, OrderMoves
  <1>11. CASE Head(q).fn = "on_reply"
    <2>1. FormAt(1)'
      <3>1. \A e \in 0 .. 1 - 1 : e = 0
        OBVIOUS
      <3>2. k <= nconn' /\ 1 = Len(stack') - 1
        BY <1>1, <1>5
      <3>3. Pile'[1].op = "on_reply" /\ Pile'[0].op \in BelowOps
        BY <1>2, <1>11 DEF BelowOps
      <3> QED
        BY <3>1, <3>2, <3>3 DEF FormAt, BottomOps, MarkingOps, Leaves
    <2>2. FormPart'
      <3>1. \A j \in ConnIds : replies[j] = <<>> /\ disconnecting[j] => replies'[j] = <<>> /\ disconnecting'[j]
        BY <1>2, <1>4
      <3>2. \A d \in 0 .. Len(stack') - 1 : FormAt(d)'
        BY <1>7, <1>8, <2>1
      <3>3. Len(stack) <= 0 + 1 /\ nconn <= nconn' /\ nconn' \in Nat
        BY <1>1
      <3>4. stack # <<>> /\ Len(stack) = 0 => Top.op \notin HandedOps
        BY DEF DeliverOps
      <3>5. FormPart
        BY DEF OrderInv
      <3> QED
        BY <1>1, <3>1, <3>2, <3>3, <3>4, <3>5, FormKept
    <2>3. Heights' = {0, 1}
      BY <1>8 DEF Heights
    <2>4. \A j \in ConnIds \ {k} : \A d \in Heights' : ~Awaits(d, j)'
      BY <1>7, <2>3 DEF Awaits
    <2>5. Awaits(1, k)' /\ ~Awaits(0, k)'
      BY <1>2, <1>7, <1>11 DEF Awaits, DeliverOps, HandedOps
    <2>6. ASSUME NEW j \in ConnIds, conn_status_[j] # "DISCONNECTED"
          PROVE  InOrder(reply_list_[j], replies[j])
      <3>1. \A d \in Heights : ~Awaits(d, j)
        BY <1>6 DEF Awaits
      <3> QED
        BY <2>6, <3>1 DEF OrderInv, MatchPart
    <2>7. conn_status_[k] # "DISCONNECTED" =>
            list # <<>> /\ Head(list) = Head(q).c /\ InOrder(Tail(list), Tail(q))
      BY <1>2, <1>3, <1>4, <1>11, <2>6, OrderTail
    <2>8. MatchPart'
      <3>1. ASSUME NEW j \in ConnIds, conn_status_'[j] # "DISCONNECTED", j # k
            PROVE  /\ \A d \in Heights' : ~Awaits(d, j)'
                   /\ InOrder(reply_list_'[j], replies'[j])
        BY <1>4, <2>4, <2>6, <3>1
      <3>2. ASSUME conn_status_'[k] # "DISCONNECTED"
            PROVE  /\ \A d \in Heights' : Awaits(d, k)' => d = 1
                   /\ reply_list_'[k] # <<>> /\ Head(reply_list_'[k]) = Pile'[1].c
                   /\ InOrder(Tail(reply_list_'[k]), replies'[k])
        BY <1>2, <1>3, <1>4, <2>3, <2>5, <2>7, <3>2
      <3> QED
        BY <2>3, <2>5, <3>1, <3>2 DEF MatchPart
    <2>9. UnusedPart'
      BY <1>4, <1>5 DEF OrderInv, UnusedPart, Silent
    <2> QED
      BY <2>2, <2>8, <2>9 DEF OrderInv
  <1> QED
    BY <1>9, <1>10, <1>11 DEF Entries

LEMMA ReplyOrder ==
  ASSUME IndInv, OrderInv, NEW k \in ConnIds, NEW r, ByHiredis(ReplyArrives(k, r))
  PROVE  OrderInv'
  <1>0. StackSeq /\ stack = <<>> /\ Len(stack) = 0
    BY StackFrames DEF ByHiredis, ReplyArrives, InLoop
  <1>1. PICK f : f = ReplyFrame(k, r)
    OBVIOUS
  <1>2. PICK g : g = F("h_reply_end", 0, k, "none")
    OBVIOUS
  <1>3. Call(<<f, g>>)
    BY <1>1, <1>2 DEF ByHiredis, ReplyArrives
  <1>4. Keep(0) /\ Len(stack') = 2 /\ Pile'[1] = f /\ Pile'[0] = g
    BY <1>0, <1>3, CallTwo
  <1>5. /\ f.op = Head(replies[k]).fn /\ f.c = Head(replies[k]).c /\ f.k = k
        /\ g.op = "h_reply_end"
    BY <1>1, <1>2 DEF ReplyFrame, F
  <1>6. /\ replies[k] # <<>> /\ replies' = [replies EXCEPT ![k] = Tail(@)]
        /\ UNCHANGED <<reply_list_, nconn, context_, conn_status_, disconnecting, ctx_st>>
    BY DEF ByHiredis, ReplyArrives, connVars, clusterVars, mapVars
  <1>7. Len(stack) <= 1
    BY <1>0
  <1> QED
    BY <1>0, <1>4, <1>5, <1>6, <1>7, DeliverBegins

LEMMA FreeOrder ==
  ASSUME IndInv, OrderInv, ByHiredis(FreeContext)
  PROVE  OrderInv'
  <1>0. StackSeq
    BY StackFrames
  <1>1. PICK k : k = Top.k
    OBVIOUS
  <1>2. At("h_free") /\ stack # <<>> /\ Top.op = "h_free" /\ k \in ConnIds
    BY <1>1, TopCmd DEF ByHiredis, FreeContext, IndInv, ConnOps
  <1>3. Top.op \notin DeliverOps
    BY <1>2 DEF DeliverOps, HandedOps
  <1>4. UNCHANGED <<reply_list_, nconn, context_, conn_status_, disconnecting, ctx_st>>
    BY DEF ByHiredis, FreeContext, connVars, clusterVars, mapVars
  <1>5. CASE replies[k] # <<>>
    <2>1. PICK f : f = ReplyFrame(k, "null")
      OBVIOUS
    <2>2. PICK g : g = Top
      OBVIOUS
    <2>3. Continue(<<f, g>>) /\ replies' = [replies EXCEPT ![k] = Tail(@)]
      BY <1>1, <1>5, <2>1, <2>2 DEF ByHiredis, FreeContext
    <2>4. Len(stack) = 1
      <3>1. PICK h : h = Len(stack) - 1
        OBVIOUS
      <3>2. Len(stack) \in Nat /\ h \in Heights /\ Pile[h] = Top
        BY <1>0, <1>2, <3>1, HeightOf
      <3>3. h = 0
        BY <1>1, <1>2, <1>5, <3>2 DEF OrderInv, FormPart, FormAt
      <3> QED
        BY <3>1, <3>2, <3>3
    <2>5. Keep(0) /\ Len(stack') = 2 /\ Pile'[1] = f /\ Pile'[0] = g
      BY <1>0, <1>2, <2>3, <2>4, ContinueTwo
    <2>6. f.op = Head(replies[k]).fn /\ f.c = Head(replies[k]).c /\ f.k = k
      BY <2>1 DEF ReplyFrame, F
    <2>7. Len(stack) <= 1
      BY <2>4
    <2> QED
      BY <1>2, <1>3, <1>4, <1>5, <2>2, <2>3, <2>5, <2>6, <2>7, DeliverBegins
  <1>6. CASE replies[k] = <<>>
    <2> DEFINE told == IF ctx_st[k] = "connected"
                       THEN <<F("on_disconnected", 0, k, ctx_err[k])>> ELSE <<>>
               end == <<F("h_free_end", 0, k, "none")>>
    <2>1. Continue(told \o end) /\ UNCHANGED replies
      BY <1>1, <1>6 DEF ByHiredis, FreeContext
    <2>2. SideSeq(end) /\ SideSeq(<<F("on_disconnected", 0, k, ctx_err[k])>>)
      BY SideOne, SideNames
    <2>3. SideSeq(told)
      BY <2>2, SideSeqs
    <2> HIDE DEF told, end
    <2>4. SideSeq(told \o end)
      BY <2>2, <2>3, SideSeqs
    <2>5. SideMove
      BY <1>2, <2>1, <2>4, SideMoves
    <2>6. SameQueues
      BY <1>4, <2>1 DEF SameQueues, Silent
    <2> QED
      BY <1>3, <2>5, <2>6, SameOrder, SideOrder
  <1> QED
    BY <1>5, <1>6

\* The delivery goes on, in a frame at height e.
LEMMA HandOver ==
  ASSUME IndInv, FlowInv, OrderInv, NEW op \in DeliverOps, At(op),
         NEW h, h = Len(stack) - 1, Keep(h), NEW e \in h .. Len(stack') - 1, NEW f, Pile'[e] = f,
         f.op \in DeliverOps, f.c = Top.c, f.k = Top.k, f.op # "ask_pop" => e = Len(stack') - 1,
         \A d \in h .. e - 1 : Pile'[d].op \in BelowOps,
         \A d \in h .. Len(stack') - 1 : d # e => Side(Pile'[d]),
         Leaves(f) => /\ e > 0 /\ Pile'[e - 1].op \in {"asking", "retry"}
                      /\ Pile'[e - 1].c = f.c,
         UNCHANGED <<reply_list_, replies>>, OrderStep
  PROVE  OrderInv'
  <1>1. PICK k : k = Top.k
    OBVIOUS
  <1>2. /\ StackSeq /\ stack # <<>> /\ k \in ConnIds /\ k <= nconn
        /\ h \in Nat /\ h \in Heights /\ Pile[h] = Top /\ Len(stack) \in Nat /\ Top.op = op
        /\ conn_status_[k] # "DISCONNECTED"
        /\ reply_list_[k] # <<>> /\ Head(reply_list_[k]) = Top.c
        /\ InOrder(Tail(reply_list_[k]), replies[k])
        /\ \A d \in Heights : Pile[d].op \in DeliverOps => d = h
    BY <1>1, DeliverTop
  <1>3. \A d \in 0 .. h - 1 : Pile[d].op \in BelowOps /\ Pile'[d] = Pile[d]
    <2>1. Len(stack) - 2 = h - 1
      BY <1>2
    <2> QED
      BY <2>1, DeliverTop DEF Keep
  <1>4. Len(stack) <= h + 1 /\ Len(stack') \in Nat /\ e \in Nat
    BY <1>2 DEF Keep
  <1>5. nconn \in Nat /\ nconn' \in Nat /\ nconn <= nconn' /\ k \in Nat
    BY <1>2, BoundsAssumption DEF IndInv, MapPart, OrderStep, ConnIds, BoundsAssumption
  <1>6. \A d \in 0 .. e - 1 : Pile'[d].op \in BelowOps
    <2>1. \A d \in 0 .. e - 1 : d \in 0 .. h - 1 \/ d \in h .. e - 1
      BY <1>2, <1>4
    <2> QED
      BY <1>3, <2>1
  <1>7. f.k <= nconn'
    BY <1>1, <1>5, <1>2
  <1>8. FormAt(e)'
    BY <1>6, <1>7 DEF FormAt, DeliverOps, HandedOps, BottomOps, MarkingOps, Leaves
  <1>9. \A d \in h .. Len(stack') - 1 : FormAt(d)' /\ (d # e => Pile'[d].op \notin DeliverOps)
    BY <1>5, <1>8, SideForm
  <1>10. FormPart'
    <2>1. Len(stack) # h
      BY <1>2
    <2>2. FormPart
      BY DEF OrderInv
    <2> QED
      BY <1>4, <1>5, <1>9, <2>1, <2>2, FormKept DEF OrderStep
  <1>11. /\ \A d \in Heights' : (d < h /\ d \in Heights /\ Pile'[d] = Pile[d]) \/ d \in h .. Len(stack') - 1
         /\ \A d \in h .. Len(stack') - 1 : d \in Heights'
    BY <1>2, <1>4, KeptFrames
  <1>12. \A d \in Heights' : Pile'[d].op \in DeliverOps => d = e
    <2>1. ASSUME NEW d \in Heights', Pile'[d].op \in DeliverOps PROVE d = e
      <3>1. CASE d < h /\ d \in Heights /\ Pile'[d] = Pile[d]
        <4>1. d = h
          BY <1>2, <2>1, <3>1
        <4> QED
          BY <1>2, <3>1, <4>1
      <3>2. CASE d \in h .. Len(stack') - 1
        BY <1>9, <2>1, <3>2
      <3> QED
        BY <1>11, <3>1, <3>2
    <2> QED
      BY <2>1
  <1>13. e \in Heights' /\ Awaits(e, k)'
    BY <1>1, <1>11 DEF Awaits
  <1>14. ASSUME NEW j \in ConnIds, j # k, conn_status_'[j] # "DISCONNECTED"
         PROVE  (\A d \in Heights' : ~Awaits(d, j)') /\ InOrder(reply_list_'[j], replies'[j])
    <2>1. \A d \in Heights' : ~Awaits(d, j)'
      BY <1>1, <1>12, <1>14 DEF Awaits
    <2>2. \A d \in Heights : ~Awaits(d, j)
      BY <1>1, <1>2, <1>14 DEF Awaits
    <2>3. CASE conn_status_[j] # "DISCONNECTED"
      BY <2>1, <2>2, <2>3 DEF OrderInv, MatchPart
    <2>4. CASE j > nconn
      BY <2>1, <2>4, AwaitedMade, OrderEmpty
    <2> QED
      BY <1>14, <2>3, <2>4 DEF OrderStep
  <1>15. /\ \A d \in Heights' : Awaits(d, k)' => d = e
         /\ reply_list_'[k] # <<>> /\ Head(reply_list_'[k]) = Pile'[e].c
         /\ InOrder(Tail(reply_list_'[k]), replies'[k])
    BY <1>2, <1>12 DEF Awaits
  <1>16. MatchPart'
    BY <1>13, <1>14, <1>15 DEF MatchPart
  <1>17. UnusedPart'
    <2>1. \A j \in ConnIds : j > nconn' => j > nconn
      BY <1>5, BoundsAssumption DEF ConnIds, BoundsAssumption
    <2> QED
      BY <2>1 DEF OrderStep, OrderInv, UnusedPart
  <1> QED
    BY <1>10, <1>16, <1>17 DEF OrderInv

\* It goes on in place of the top frame,
LEMMA HandOne ==
  ASSUME IndInv, FlowInv, OrderInv, NEW op \in DeliverOps, At(op), NEW f, Continue(<<f>>),
         f.op \in DeliverOps, f.c = Top.c, f.k = Top.k, Leaves(f) => Leaves(Top),
         UNCHANGED <<reply_list_, replies>>, OrderStep
  PROVE  OrderInv'
  <1>1. PICK h : h = Len(stack) - 1
    OBVIOUS
  <1>2. StackSeq /\ stack # <<>> /\ h \in Nat /\ h \in Heights /\ Pile[h] = Top /\ Len(stack) \in Nat
    BY <1>1, DeliverTop
  <1>3. Keep(h) /\ Len(stack') = Len(stack) /\ Pile'[h] = f
    BY <1>1, <1>2, ContinueOne
  <1>4. h .. Len(stack') - 1 = {h} /\ h = Len(stack') - 1 /\ ~(\E d : d \in h .. h - 1) /\ h \in h .. Len(stack') - 1
    BY <1>1, <1>2, <1>3
  <1>5. Leaves(f) => h > 0 /\ Pile'[h - 1].op \in {"asking", "retry"} /\ Pile'[h - 1].c = f.c
    <2>1. h > 0 => h - 1 \in 0 .. h - 1
      BY <1>2
    <2>2. h > 0 => Pile'[h - 1] = Pile[h - 1]
      BY <1>3, <2>1 DEF Keep
    <2> QED
      BY <1>2, <2>2 DEF OrderInv, FormPart, FormAt
  <1> QED
    BY <1>1, <1>3, <1>4, <1>5, HandOver

LEMMA ConcatAt ==
  ASSUME NEW T, NEW up \in Seq(T), NEW low \in Seq(T), NEW fs, fs = up \o low
  PROVE  /\ fs \in Seq(T) /\ Len(fs) = Len(up) + Len(low) /\ Len(up) \in Nat
         /\ \A i \in 1 .. Len(up) : fs[i] = up[i]
         /\ \A i \in 1 .. Len(low) : fs[Len(up) + i] = low[i]
  <1>1. fs \in Seq(T) /\ Len(up) \in Nat
    OBVIOUS
  <1>2. /\ Len(fs) = Len(up) + Len(low)
        /\ \A i \in 1 .. Len(up) : fs[i] = up[i]
        /\ \A i \in 1 .. Len(low) : fs[Len(up) + i] = low[i]
    OBVIOUS
  <1> QED
    BY <1>1, <1>2

\* or with a frame below for what follows it, and others above.
LEMMA HandTwo ==
  ASSUME IndInv, FlowInv, OrderInv, NEW op \in DeliverOps, At(op), NEW f, NEW g, NEW up,
         SideSeq(up), Continue(up \o <<f, g>>), Side(g), g.op \in BelowOps,
         f.op \in DeliverOps, f.c = Top.c, f.k = Top.k, f.op # "ask_pop" => up = <<>>,
         Leaves(f) => g.op \in {"asking", "retry"} /\ g.c = f.c,
         UNCHANGED <<reply_list_, replies>>, OrderStep
  PROVE  OrderInv'
  <1>1. PICK h : h = Len(stack) - 1
    OBVIOUS
  <1>2. StackSeq /\ stack # <<>> /\ h \in Nat
    BY <1>1, DeliverTop
  <1>3. PICK S : up \in Seq(S) /\ \A l \in S : Side(l)
    BY DEF SideSeq
  <1>l. PICK low : low = <<f, g>>
    OBVIOUS
  <1>f. PICK fs : fs = up \o low
    OBVIOUS
  <1> DEFINE m == Len(up)
  <1>4. low \in Seq({f, g}) /\ Len(low) = 2 /\ low[1] = f /\ low[2] = g
    BY <1>l, TwoType
  <1>5. Continue(fs)
    BY <1>l, <1>f
  <1>a. PICK T : T = S \cup {f, g}
    OBVIOUS
  <1>6. up \in Seq(T) /\ low \in Seq(T) /\ m \in Nat
    BY <1>3, <1>4, <1>a, SeqMono
  <1>b. /\ fs \in Seq(T) /\ Len(fs) = m + Len(low)
        /\ \A i \in 1 .. m : fs[i] = up[i]
        /\ \A i \in 1 .. Len(low) : fs[m + i] = low[i]
    BY <1>6, <1>f, ConcatAt
  <1>c. \A n : n = 2 => 1 \in 1 .. n /\ 2 \in 1 .. n
    OBVIOUS
  <1>7. /\ fs \in Seq(T) /\ Len(fs) = m + 2 /\ fs[m + 1] = f /\ fs[m + 2] = g
        /\ \A i \in 1 .. m : fs[i] = up[i]
    BY <1>4, <1>b, <1>c
  <1>8. \A i \in 1 .. m : Side(fs[i])
    BY <1>3, <1>7
  <1> HIDE DEF m
  <1>d. PICK z : z = m + 2
    OBVIOUS
  <1>e. Len(fs) = z
    BY <1>7, <1>d
  <1>g. /\ Keep(h) /\ Len(stack') = h + z
        /\ \A i \in 1 .. z : Pile'[h + z - i] = fs[i]
    <2>1. /\ Keep(Len(stack) - 1) /\ Len(stack') = Len(stack) - 1 + Len(fs)
          /\ \A i \in 1 .. Len(fs) : Pile'[Len(stack) - 1 + Len(fs) - i] = fs[i]
      BY <1>2, <1>5, <1>b, ContinueMany
    <2> QED
      BY <1>1, <1>e, <2>1
  <1>9. /\ Keep(h) /\ Len(stack') = h + (m + 2)
        /\ \A i \in 1 .. m + 2 : Pile'[h + (m + 2) - i] = fs[i]
    BY <1>d, <1>g
  <1>10. m + 1 \in 1 .. m + 2 /\ m + 2 \in 1 .. m + 2 /\ h + (m + 2) - (m + 1) = h + 1
         /\ h + (m + 2) - (m + 2) = h
    BY <1>2, <1>6
  <1>11. Pile'[h + 1] = f /\ Pile'[h] = g
    BY <1>7, <1>9, <1>10
  <1>12. ASSUME NEW d \in h .. Len(stack') - 1, d # h + 1 PROVE Side(Pile'[d])
    <2>1. CASE d = h
      BY <1>11, <2>1
    <2>2. CASE d # h
      <3>a. ASSUME NEW a \in Nat, NEW b \in Nat, NEW n \in h .. a + (b + 2) - 1, a = h, n # a, n # a + 1
            PROVE  /\ a + (b + 2) - n \in 1 .. b /\ a + (b + 2) - n \in 1 .. b + 2
                   /\ a + (b + 2) - (a + (b + 2) - n) = n
        BY <3>a
      <3>1. h + (m + 2) - d \in 1 .. m /\ h + (m + 2) - d \in 1 .. m + 2
            /\ h + (m + 2) - (h + (m + 2) - d) = d
        BY <1>2, <1>6, <1>9, <1>12, <2>2, <3>a
      <3>2. PICK i \in 1 .. m : i \in 1 .. m + 2 /\ h + (m + 2) - i = d
        BY <3>1
      <3> QED
        BY <1>8, <1>9, <3>2
    <2> QED
      BY <2>1, <2>2
  <1>13. /\ h + 1 \in h .. Len(stack') - 1 /\ h + 1 > 0 /\ (h + 1) - 1 = h
         /\ \A d \in h .. (h + 1) - 1 : d = h
    BY <1>2, <1>6, <1>9
  <1>14. up = <<>> => h + 1 = Len(stack') - 1
    <2>1. up = <<>> => m = 0
      BY DEF m
    <2> QED
      BY <1>2, <1>9, <2>1
  <1> QED
    BY <1>1, <1>9, <1>11, <1>12, <1>13, <1>14, HandOver


\* The callback of a command looks at the reply, and hands it on.
LEMMA HandsOn ==
  ASSUME IndInv, FlowInv, OrderInv,
         \/ on_reply_wrapper \/ on_reply_retry \/ on_reply_clusterdown \/ ask_pop \/ CallReply
         \/ \E i, s : on_reply_moved(i, s)
  PROVE  OrderInv'
  <1>1. UNCHANGED <<hiredisVars, connVars, nconn>>
    BY DEF on_reply_wrapper, on_reply_retry, on_reply_clusterdown, ask_pop, CallReply, call_reply,
       on_reply_moved, clusterVars, mapVars
  <1>2. OrderStep /\ UNCHANGED <<reply_list_, replies>>
    <2>1. SameQueues
      BY <1>1, QuietQueues
    <2> QED
      BY <2>1, SameOrder DEF SameQueues
  <1>3. PICK op \in {"on_reply", "call_reply", "ask_pop"} : At(op)
    BY DEF on_reply_wrapper, on_reply_retry, on_reply_clusterdown, ask_pop, CallReply, call_reply,
       on_reply_moved
  <1>4. op \in DeliverOps
    BY DEF DeliverOps, HandedOps
  <1>5. Top.c \in Elems(reply_list_[Top.k]) /\ context_[Top.k] /\ Top.op = op
    BY <1>3, <1>4, DeliverTop
  <1>6. PopAndRetry(Top.c, Top.k) = <<F("pop_reply", Top.c, Top.k, "retry")>>
    BY <1>5 DEF PopAndRetry
  <1>7. ASSUME NEW fop \in {"call_reply", "pop_reply"}, NEW a, Continue(<<F(fop, Top.c, Top.k, a)>>),
               a = "ask" => Top.op \in {"ask_pop", "call_reply"} /\ Leaves(Top)
        PROVE  OrderInv'
    <2>1. PICK f : f = F(fop, Top.c, Top.k, a)
      OBVIOUS
    <2>2. f.op = fop /\ f.c = Top.c /\ f.k = Top.k /\ f.a = a /\ Continue(<<f>>)
      BY <1>7, <2>1 DEF F
    <2>3. f.op \in DeliverOps /\ (Leaves(f) => Leaves(Top))
      BY <1>7, <2>2 DEF DeliverOps, HandedOps, Leaves
    <2> QED
      BY <1>2, <1>3, <1>4, <2>2, <2>3, HandOne
  <1>8. ASSUME NEW fop \in {"call_reply", "pop_reply"}, NEW a, NEW gop \in {"reload_slots", "reset_begin"},
               Continue(<<F(fop, Top.c, Top.k, a), F(gop, 0, 0, "none")>>), a # "ask"
        PROVE  OrderInv'
    <2>1. PICK f : f = F(fop, Top.c, Top.k, a)
      OBVIOUS
    <2>2. PICK g : g = F(gop, 0, 0, "none")
      OBVIOUS
    <2>3. f.op = fop /\ f.c = Top.c /\ f.k = Top.k /\ f.a = a /\ g.op = gop
      BY <2>1, <2>2 DEF F
    <2>4. f.op \in DeliverOps /\ ~Leaves(f) /\ g.op \in BelowOps
      BY <1>8, <2>3 DEF DeliverOps, HandedOps, Leaves, BelowOps
    <2>5. Side(g)
      BY <2>3, SideNames DEF Side
    <2>6. PICK up : up = <<>>
      OBVIOUS
    <2>7. Continue(up \o <<f, g>>)
      <3>1. up \o <<f, g>> = <<f, g>>
        BY <2>6
      <3> QED
        BY <1>8, <2>1, <2>2, <3>1
    <2>8. SideSeq(up)
      BY <2>6, SideSeqs
    <2> QED
      BY <1>2, <1>3, <1>4, <2>3, <2>4, <2>5, <2>6, <2>7, <2>8, HandTwo
  <1>9. Top.op = "call_reply" \/ Top.op = "on_reply" => Top.a # "ask"
    <2>1. Top.op = "call_reply" \/ Top.op = "on_reply" => Top.a \in Replies
      BY <1>3, <1>5, TopReply
    <2> QED
      BY <2>1 DEF Replies, Redirections
  <1>10. CASE on_reply_wrapper
    <2>1. Top.op = "on_reply" /\ Continue(<<F("call_reply", Top.c, Top.k, Top.a)>>)
      BY <1>10 DEF on_reply_wrapper, At
    <2> QED
      BY <1>7, <1>9, <2>1
  <1>11. CASE on_reply_retry
    BY <1>6, <1>7, <1>11 DEF on_reply_retry
  <1>12. CASE on_reply_clusterdown
    <2>1. /\ Top.op = "on_reply"
          /\ Continue(<<F("call_reply", Top.c, Top.k, Top.a), F("reset_begin", 0, 0, "none")>>)
      BY <1>12 DEF on_reply_clusterdown, At
    <2> QED
      BY <1>8, <1>9, <2>1
  <1>13. CASE ask_pop
    <2>1. Leaves(Top) /\ Top.op = "ask_pop"
      BY <1>13 DEF ask_pop, At, Leaves
    <2>2. Continue(<<F("pop_reply", Top.c, Top.k, "ask")>>)
      BY <1>5, <1>13 DEF ask_pop
    <2> QED
      BY <1>7, <2>1, <2>2
  <1>14. CASE CallReply
    <2>1. Top.op = "call_reply" /\ Continue(<<F("pop_reply", Top.c, Top.k, Top.a)>>)
      BY <1>5, <1>14 DEF CallReply, call_reply, At
    <2> QED
      BY <1>7, <1>9, <2>1
  <1>15. ASSUME NEW i, NEW s, on_reply_moved(i, s) PROVE OrderInv'
    <2>1. Top.op = "on_reply"
      BY <1>15 DEF on_reply_moved, At
    <2>2. CASE Continue(<<F("call_reply", Top.c, Top.k, Top.a)>>)
      BY <1>7, <1>9, <2>1, <2>2
    <2>3. CASE Continue(PopAndRetry(Top.c, Top.k) \o <<F("reload_slots", 0, 0, "none")>>)
      <3>1. PICK f : f = F("pop_reply", Top.c, Top.k, "retry")
        OBVIOUS
      <3>2. PICK g : g = F("reload_slots", 0, 0, "none")
        OBVIOUS
      <3>3. <<f>> \o <<g>> = <<f, g>>
        BY Pair
      <3>4. Continue(<<f, g>>)
        BY <1>6, <2>3, <3>1, <3>2, <3>3
      <3> QED
        BY <1>8, <3>1, <3>2, <3>4
    <2> QED
      BY <1>15, <2>2, <2>3 DEF on_reply_moved
  <1> QED
    BY <1>10, <1>11, <1>12, <1>13, <1>14, <1>15

LEMMA OnPair ==
  ASSUME NEW k, NEW f, NEW g, f.k # 0, g.k = 0
  PROVE  On(k, <<f, g>>) = <<f, [g EXCEPT !.k = k]>>
  BY DEF On

\* ASK: the command leaves its list before it is asked for on another
\* connection, which may have to be made.
LEMMA AskOrder ==
  ASSUME IndInv, FlowInv, OrderInv, NEW s \in Servers, on_reply_ask(s)
  PROVE  OrderInv'
  <1>1. PICK c : c = Top.c
    OBVIOUS
  <1>2. PICK k : k = Top.k
    OBVIOUS
  <1>3. PICK pop : pop = F("ask_pop", c, k, "none")
    OBVIOUS
  <1>4. PICK ask : ask = F("asking", c, 0, "none")
    OBVIOUS
  <1>5. PICK again : again = F("retry", c, 0, "none")
    OBVIOUS
  <1>6. WithConnection(s, <<pop, ask>>, <<pop, again>>) /\ At("on_reply") /\ "on_reply" \in DeliverOps
    BY <1>1, <1>2, <1>3, <1>4, <1>5 DEF on_reply_ask, DeliverOps, HandedOps
  <1>7. OrderStep
    BY <1>6, ConnectOrder
  <1>8. UNCHANGED <<reply_list_, replies>>
    BY <1>6 DEF WithConnection, make_connection, redisAsyncConnect, set_connecting, hiredisVars, connVars
  <1>9. k \in ConnIds /\ k # 0
    <2>1. k \in ConnIds
      BY <1>2, <1>6, DeliverTop
    <2> QED
      BY <2>1, BoundsAssumption DEF ConnIds, BoundsAssumption
  <1>10. /\ pop.op = "ask_pop" /\ pop.c = c /\ pop.k = k /\ ask.k = 0
         /\ again.op = "retry" /\ again.c = c
         /\ \A j : [ask EXCEPT !.k = j] = F("asking", c, j, "none")
    BY <1>3, <1>4, <1>5 DEF F
  <1>11. pop.op \in DeliverOps
    BY <1>10 DEF DeliverOps
  <1>12. ASSUME NEW up, SideSeq(up), NEW g, g.op \in {"asking", "retry"}, g.c = c,
                Continue(up \o <<pop, g>>)
         PROVE  OrderInv'
    <2>1. Side(g) /\ g.op \in BelowOps
      BY <1>12, SideNames DEF Side, BelowOps
    <2>2. pop.op # "ask_pop" => up = <<>>
      BY <1>10
    <2>3. pop.c = Top.c /\ pop.k = Top.k /\ g.c = pop.c
      BY <1>1, <1>2, <1>10, <1>12
    <2> QED
      BY <1>6, <1>7, <1>8, <1>11, <1>12, <2>1, <2>2, <2>3, HandTwo
  <1>13. \A j : On(j, <<pop, ask>>) = <<pop, F("asking", c, j, "none")>>
    BY <1>9, <1>10, OnPair
  <1>14. \A j : F("asking", c, j, "none").op = "asking" /\ F("asking", c, j, "none").c = c
    BY DEF F
  <1>a. PICK no : no = <<>>
    OBVIOUS
  <1>15. SideSeq(no) /\ \A g : no \o <<pop, g>> = <<pop, g>>
    BY <1>a, SideSeqs
  <1>16. ASSUME NEW j, Continue(On(j, <<pop, ask>>)) PROVE OrderInv'
    <2>1. PICK g : g = F("asking", c, j, "none")
      OBVIOUS
    <2>2. g.op = "asking" /\ g.c = c /\ Continue(no \o <<pop, g>>)
      BY <1>13, <1>14, <1>15, <1>16, <2>1
    <2> QED
      BY <1>12, <1>15, <2>2
  <1>17. ASSUME NEW j, Continue(ConnectFrames(j) \o On(j, <<pop, ask>>)) PROVE OrderInv'
    <2>1. PICK g : g = F("asking", c, j, "none")
      OBVIOUS
    <2>2. g.op = "asking" /\ g.c = c /\ Continue(ConnectFrames(j) \o <<pop, g>>)
      BY <1>13, <1>14, <1>17, <2>1
    <2>3. SideSeq(<<F("exec_conn", AuthCmd(j), j, "none")>>) /\ SideSeq(<<F("user", 0, j, "on_connect")>>)
      BY SideOne, SideNames
    <2>4. SideSeq(ConnectFrames(j))
      BY <2>3, SideSeqs DEF ConnectFrames
    <2> QED
      BY <1>12, <2>2, <2>4
  <1>18. ASSUME NEW j, Continue(<<F("destroy_cmd", AuthCmd(j), 0, "none")>> \o <<pop, again>>)
         PROVE  OrderInv'
    <2>1. SideSeq(<<F("destroy_cmd", AuthCmd(j), 0, "none")>>)
      BY SideOne, SideNames
    <2> QED
      BY <1>10, <1>12, <1>18, <2>1
  <1>19. ASSUME Continue(<<pop, again>>) PROVE OrderInv'
    <2>1. Continue(no \o <<pop, again>>)
      BY <1>15, <1>19
    <2> QED
      BY <1>10, <1>12, <1>15, <2>1
  <1> QED
    BY <1>6, <1>16, <1>17, <1>18, <1>19 DEF WithConnection

\* The frames that replace the top one.
LEMMA ContinueSide ==
  ASSUME StackSeq, stack # <<>>, NEW fs, SideSeq(fs), Continue(fs), NEW h, h = Len(stack) - 1
  PROVE  Keep(h) /\ \A d \in h .. Len(stack') - 1 : Side(Pile'[d])
  <1>1. PICK S : fs \in Seq(S) /\ \A f \in S : Side(f)
    BY DEF SideSeq
  <1>2. /\ Keep(h) /\ Len(stack') = h + Len(fs)
        /\ \A i \in 1 .. Len(fs) : Pile'[h + Len(fs) - i] = fs[i]
    BY <1>1, ContinueMany
  <1>3. h \in Nat /\ Len(fs) \in Nat
    BY <1>1, HeightOf
  <1>4. ASSUME NEW d \in h .. Len(stack') - 1 PROVE Side(Pile'[d])
    <2>1. h + Len(fs) - d \in 1 .. Len(fs) /\ h + Len(fs) - (h + Len(fs) - d) = d
      BY <1>2, <1>3
    <2>2. PICK i \in 1 .. Len(fs) : h + Len(fs) - i = d
      BY <2>1
    <2>3. Pile'[d] = fs[i] /\ fs[i] \in S
      BY <1>1, <1>2, <2>2
    <2> QED
      BY <1>1, <2>3
  <1> QED
    BY <1>2, <1>4

\* connection::pop_reply finds the command at the front, and the delivery ends.
LEMMA PopOrder ==
  ASSUME IndInv, FlowInv, OrderInv, PopReply
  PROVE  OrderInv'
  <1>1. PICK k : k = Top.k
    OBVIOUS
  <1>2. PICK c : c = Top.c
    OBVIOUS
  <1>3. PICK h : h = Len(stack) - 1
    OBVIOUS
  <1>4. At("pop_reply") /\ "pop_reply" \in DeliverOps
    BY DEF PopReply, pop_reply, DeliverOps, HandedOps
  <1>5. /\ StackSeq /\ stack # <<>> /\ Top.op = "pop_reply" /\ k \in ConnIds
        /\ h \in Nat /\ Len(stack) \in Nat
        /\ reply_list_[k] # <<>> /\ Head(reply_list_[k]) = c
        /\ InOrder(Tail(reply_list_[k]), replies[k])
        /\ \A d \in Heights : Pile[d].op \in DeliverOps => d = h
    BY <1>1, <1>2, <1>3, <1>4, DeliverTop
  <1>6. k <= nconn
    BY <1>1, <1>4, DeliverTop
  <1>7. /\ reply_list_' = [reply_list_ EXCEPT ![k] = Tail(@)]
        /\ UNCHANGED <<replies, disconnecting, ctx_st, context_, conn_status_, nconn>>
    BY <1>1, <1>2, <1>5 DEF PopReply, pop_reply, hiredisVars, clusterVars, mapVars
  <1>8. \/ Continue(<<>>) \/ Continue(<<F("retry", c, 0, "none")>>)
        \/ \E code : CallBack(c, code, Top.a, <<F("destroy", c, 0, "none")>>)
    BY <1>1, <1>2, <1>5 DEF PopReply, pop_reply
  <1>9. PICK fs : SideSeq(fs) /\ Continue(fs)
    <2>1. SideSeq(<<F("retry", c, 0, "none")>>) /\ SideSeq(<<F("destroy", c, 0, "none")>>) /\ SideSeq(<<>>)
      BY SideOne, SideNames, SideSeqs
    <2> QED
      BY <1>8, <2>1, SideSeqs DEF CallBack
  <1>10. Keep(h) /\ \A d \in h .. Len(stack') - 1 : Side(Pile'[d])
    BY <1>3, <1>5, <1>9, ContinueSide
  <1>11. nconn \in Nat /\ nconn' \in Nat /\ nconn <= nconn' /\ k \in Nat /\ Len(stack) <= h + 1 /\ Len(stack) # h
    BY <1>3, <1>5, <1>7, BoundsAssumption DEF IndInv, MapPart, ConnIds, BoundsAssumption
  <1>12. \A d \in h .. Len(stack') - 1 : FormAt(d)' /\ Pile'[d].op \notin DeliverOps
    BY <1>10, <1>11, SideForm
  <1>13. FormPart'
    <2>1. \A j \in ConnIds : replies[j] = <<>> /\ disconnecting[j] => replies'[j] = <<>> /\ disconnecting'[j]
      BY <1>7
    <2>2. FormPart
      BY DEF OrderInv
    <2> QED
      BY <1>10, <1>12, <1>11, <2>1, <2>2, FormKept
  <1>14. \A d \in Heights' : Pile'[d].op \notin DeliverOps
    <2>1. ASSUME NEW d \in Heights', d < h, d \in Heights, Pile'[d] = Pile[d]
          PROVE  Pile'[d].op \notin DeliverOps
      BY <1>5, <2>1
    <2>2. \A d \in Heights' : \/ d < h /\ d \in Heights /\ Pile'[d] = Pile[d]
                              \/ d >= h /\ d \in h .. Len(stack') - 1
      BY <1>5, <1>10, <1>11, KeptFrames
    <2> QED
      BY <1>12, <2>1, <2>2
  <1>15. reply_list_'[k] = Tail(reply_list_[k]) /\ \A j \in ConnIds \ {k} : reply_list_'[j] = reply_list_[j]
    BY <1>5, <1>7 DEF IndInv, QueuePart
  <1>16. ASSUME NEW j \in ConnIds, conn_status_'[j] # "DISCONNECTED"
         PROVE  InOrder(reply_list_'[j], replies'[j])
    <2>1. CASE j = k
      BY <1>5, <1>7, <1>15, <2>1
    <2>2. CASE j # k
      <3>1. Pile[h] = Top
        BY <1>3, <1>5, HeightOf
      <3>2. \A d \in Heights : ~Awaits(d, j)
        BY <1>1, <1>5, <2>2, <3>1 DEF Awaits
      <3> QED
        BY <1>7, <1>15, <1>16, <2>2, <3>2 DEF OrderInv, MatchPart
    <2> QED
      BY <2>1, <2>2
  <1>17. MatchPart'
    BY <1>14, <1>16 DEF MatchPart, Awaits
  <1>18. UnusedPart'
    <2>1. \A j \in ConnIds : j > nconn => j # k
      BY <1>6, <1>11
    <2> QED
      BY <1>7, <1>15, <2>1 DEF OrderInv, UnusedPart, Silent
  <1> QED
    BY <1>13, <1>17, <1>18 DEF OrderInv

LEMMA SameOrderInv ==
  ASSUME OrderInv,
         UNCHANGED <<stack, reply_list_, replies, disconnecting, ctx_st, conn_status_, context_, nconn>>
  PROVE  OrderInv'
  <1>1. Heights' = Heights /\ Pile' = Pile
    BY DEF Heights, Pile
  <1>2. FormPart'
    BY <1>1 DEF OrderInv, FormPart, FormAt
  <1>3. UnusedPart' /\ MatchPart'
    BY <1>1 DEF OrderInv, UnusedPart, Silent, MatchPart, Awaits
  <1> QED
    BY <1>2, <1>3 DEF OrderInv

LEMMA NextOrder == ASSUME IndInv, FlowInv, OrderInv, [Next]_vars PROVE OrderInv'
  <1>1. CASE LibraryStep
    BY <1>1, SideActions, HandsOn, AskOrder, PopOrder, EndOrder, FreeOrder DEF LibraryStep
  <1>2. CASE NetworkStep
    BY <1>2, EventOrder, ReplyOrder DEF NetworkStep, Reply
  <1>3. CASE UserReturn \/ Proc \/ UserStep
    BY <1>3, SideActions
  <1>4. CASE Crash \/ Idle \/ UNCHANGED vars
    <2>1. UNCHANGED <<stack, reply_list_, replies, disconnecting, ctx_st, conn_status_, context_, nconn>>
      BY <1>4 DEF Crash, UseAfterFree, Idle, vars, stackVars, hiredisVars, connVars, clusterVars, mapVars
    <2> QED
      BY <2>1, SameOrderInv
  <1> QED
    BY <1>1, <1>2, <1>3, <1>4 DEF Next

\* The reply list of a connection and hiredis's queue stay in step through
\* nested calls: deliveries do not nest, and nothing that releases a
\* connection lies below one.
THEOREM OrderInvariance == Spec => [](IndInv /\ FlowInv /\ OrderInv)
  <1>1. Init => OrderInv
    <2>1. ASSUME Init PROVE FormPart /\ MatchPart /\ UnusedPart
      <3>1. stack = <<>> /\ ~(\E d : d \in Heights)
        BY <2>1 DEF Init, RuntimeInit, Heights
      <3>2. \A k \in ConnIds : /\ conn_status_[k] = "DISCONNECTED" /\ ~context_[k]
                               /\ replies[k] = <<>> /\ reply_list_[k] = <<>> /\ Silent(k)
        BY <2>1 DEF Init, HiredisInit, ConnInit, RuntimeInit, Silent
      <3> QED
        BY <3>1, <3>2 DEF FormPart, MatchPart, UnusedPart
    <2> QED
      BY <2>1 DEF OrderInv
  <1>2. IndInv /\ FlowInv /\ OrderInv /\ [Next]_vars => OrderInv'
    BY NextOrder
  <1> QED
    BY <1>1, <1>2, FlowInvariance, PTL DEF Spec

\* While a connection is in use, its reply list holds the commands of the
\* callbacks in hiredis's queue, in their order, after the one being delivered:
\* pop_reply finds the command it is looking for at the front and never gives
\* up another one, whatever redirections, ASKING replies, resets and calls of
\* the application come in between.
THEOREM ListMatchesQueue == Spec => []ReplyListMatchesHiredis
  <1>1. IndInv /\ FlowInv /\ OrderInv => ReplyListMatchesHiredis
    <2> SUFFICES ASSUME IndInv, FlowInv, OrderInv, NEW k \in ConnIds, conn_status_[k] # "DISCONNECTED"
                 PROVE  \/ Delivering(k) = {} /\ InOrder(reply_list_[k], replies[k])
                        \/ /\ reply_list_[k] # <<>> /\ Delivering(k) = {Head(reply_list_[k])}
                           /\ InOrder(Tail(reply_list_[k]), replies[k])
      BY DEF ReplyListMatchesHiredis
    <2>1. StackSeq
      BY StackFrames
    <2>2. \A x : x \in Delivering(k) <=> \E d \in Heights : Awaits(d, k) /\ Pile[d].c = x
      <3>1. Len(stack) \in Nat /\ DOMAIN stack = 1 .. Len(stack)
        BY <2>1 DEF StackSeq
      <3>2. \A d \in Heights : Len(stack) - d \in DOMAIN stack /\ Pile[d] = stack[Len(stack) - d]
        BY <3>1 DEF Heights, Pile
      <3>3. \A i \in DOMAIN stack : Len(stack) - i \in Heights /\ Pile[Len(stack) - i] = stack[i]
        <4>1. ASSUME NEW i \in DOMAIN stack
              PROVE  Len(stack) - i \in Heights /\ Len(stack) - (Len(stack) - i) = i
          BY <3>1 DEF Heights
        <4> QED
          BY <3>2, <4>1
      <3>4. \A x : x \in Delivering(k) <=>
              \E i \in DOMAIN stack : stack[i].k = k /\ stack[i].op \in DeliverOps /\ stack[i].c = x
        BY DEF Delivering, DeliverOps, HandedOps
      <3> QED
        BY <3>2, <3>3, <3>4 DEF Awaits
    <2>3. CASE \A d \in Heights : ~Awaits(d, k)
      <3>1. Delivering(k) = {}
        BY <2>2, <2>3
      <3> QED
        BY <2>3, <3>1 DEF OrderInv, MatchPart
    <2>4. ASSUME NEW d \in Heights, Awaits(d, k)
          PROVE  /\ reply_list_[k] # <<>> /\ Delivering(k) = {Head(reply_list_[k])}
                 /\ InOrder(Tail(reply_list_[k]), replies[k])
      <3>1. /\ reply_list_[k] # <<>> /\ Head(reply_list_[k]) = Pile[d].c
            /\ InOrder(Tail(reply_list_[k]), replies[k])
        BY <2>4 DEF OrderInv, MatchPart
      <3>2. \A e \in Heights : Awaits(e, k) => e = d
        BY <2>1, <2>4, OneDelivery DEF Awaits, OrderInv
      <3>3. \A x : x \in Delivering(k) <=> x = Pile[d].c
        BY <2>2, <2>4, <3>2
      <3> QED
        BY <3>1, <3>3
    <2> QED
      BY <2>3, <2>4
  <1> QED
    BY <1>1, OrderInvariance, PTL

-----------------------------------------------------------------------------
(* Where the commands are                                                  *)

\* The queues a command may wait in, and what stands for it there.
Queues == ({"timer", "pending"} \X {0}) \cup ({"list", "asking"} \X ConnIds)

QueueAt(x) == CASE x[1] = "timer"   -> timer_pending
                [] x[1] = "pending" -> slot_pending_
                [] x[1] = "list"    -> reply_list_[x[2]]
                [] x[1] = "asking"  -> replies[x[2]]

Marks(x, c) == CASE x[1] = "timer"  -> [at : Nat, cmd : {c}]
                 [] x[1] = "asking" -> {[fn |-> "on_reply_asking", c |-> c]}
                 [] OTHER           -> {c}

HasOf(s, v)   == \E i \in DOMAIN s : s[i] \in v
TwiceOf(s, v) == \E i, j \in DOMAIN s : i # j /\ s[i] \in v /\ s[j] \in v
Has(x, c)   == HasOf(QueueAt(x), Marks(x, c))
Twice(x, c) == TwiceOf(QueueAt(x), Marks(x, c))

\* The calls that hold a command.  What is going to ask for it elsewhere does
\* not hold it before it has left its reply list.
OwnerOps == {"exec", "exec_failed", "exec_conn", "destroy_cmd", "destroy", "on_reply_asking",
             "retry", "asking"}
Owner(f, c)  == f.op \in OwnerOps /\ f.c = c
Leaver(f, c) == Leaves(f) /\ f.c = c
OwnsAt(d, c) == Owner(Pile[d], c) /\ ~(d + 1 \in Heights /\ Leaver(Pile[d + 1], c))

InCalls(c)  == {d \in Heights : OwnsAt(d, c)}
InQueues(c) == {x \in Queues : Has(x, c)}

\* A live command is in one call or one queue, and only once; while it is
\* leaving, that is its reply list, or the call that destroys it.
OnceAt(c) ==
  cmd_st[c] = "live" =>
    /\ \/ InQueues(c) = {} /\ \E d \in Heights : InCalls(c) = {d}
       \/ InCalls(c) = {} /\ \E x \in Queues : InQueues(c) = {x}
    /\ \A x \in Queues : ~Twice(x, c)
    /\ \A d \in Heights : Leaver(Pile[d], c) =>
         /\ \A e \in InCalls(c) : Pile[e].op = "destroy"
         /\ \A x \in InQueues(c) : x[1] = "list"

\* The identities of CLUSTER SLOTS commands are used again.
OnceIds == {c \in CmdIds : ~LoadCmd(c)}

OncePart == \A c \in OnceIds : OnceAt(c)

-----------------------------------------------------------------------------
(* Queues                                                                  *)

LEMMA QueueNames ==
  /\ <<"timer", 0>> \in Queues /\ <<"pending", 0>> \in Queues
  /\ \A k \in ConnIds : <<"list", k>> \in Queues /\ <<"asking", k>> \in Queues
  /\ \A x \in Queues : \/ x = <<"timer", 0>> \/ x = <<"pending", 0>>
                       \/ \E k \in ConnIds : x = <<"list", k>> \/ x = <<"asking", k>>
  BY DEF Queues

LEMMA QueueValues ==
  /\ QueueAt(<<"timer", 0>>) = timer_pending /\ QueueAt(<<"pending", 0>>) = slot_pending_
  /\ \A k : QueueAt(<<"list", k>>) = reply_list_[k] /\ QueueAt(<<"asking", k>>) = replies[k]
  BY DEF QueueAt

LEMMA QueueValuesNext ==
  /\ QueueAt(<<"timer", 0>>)' = timer_pending' /\ QueueAt(<<"pending", 0>>)' = slot_pending_'
  /\ \A k : QueueAt(<<"list", k>>)' = reply_list_'[k] /\ QueueAt(<<"asking", k>>)' = replies'[k]
  BY DEF QueueAt

LEMMA MarkValues ==
  \A c : /\ Marks(<<"timer", 0>>, c) = [at : Nat, cmd : {c}]
         /\ Marks(<<"pending", 0>>, c) = {c}
         /\ \A k : /\ Marks(<<"list", k>>, c) = {c}
                   /\ Marks(<<"asking", k>>, c) = {[fn |-> "on_reply_asking", c |-> c]}
  BY DEF Marks

LEMMA AppendOf ==
  ASSUME NEW S, NEW s \in Seq(S), NEW e, NEW v
  PROVE  /\ HasOf(Append(s, e), v) <=> HasOf(s, v) \/ e \in v
         /\ TwiceOf(Append(s, e), v) => TwiceOf(s, v) \/ (HasOf(s, v) /\ e \in v)
  <1>1. PICK t : t = Append(s, e)
    OBVIOUS
  <1>2. PICK n : n = Len(s)
    OBVIOUS
  <1>3. /\ n \in Nat /\ DOMAIN s = 1 .. n /\ DOMAIN t = 1 .. n + 1 /\ t[n + 1] = e
        /\ \A i \in 1 .. n : t[i] = s[i]
    BY <1>1, <1>2
  <1>4. 1 .. n + 1 = (1 .. n) \cup {n + 1}
    BY <1>3
  <1>5. HasOf(t, v) <=> HasOf(s, v) \/ e \in v
    BY <1>3, <1>4 DEF HasOf
  <1>6. TwiceOf(t, v) => TwiceOf(s, v) \/ (HasOf(s, v) /\ e \in v)
    BY <1>3, <1>4 DEF HasOf, TwiceOf
  <1> QED
    BY <1>1, <1>5, <1>6

LEMMA TailOf ==
  ASSUME NEW S, NEW s \in Seq(S), s # <<>>, NEW v
  PROVE  /\ HasOf(s, v) <=> HasOf(Tail(s), v) \/ Head(s) \in v
         /\ HasOf(Tail(s), v) /\ Head(s) \in v => TwiceOf(s, v)
         /\ TwiceOf(Tail(s), v) => TwiceOf(s, v)
  <1>1. PICK t : t = Tail(s)
    OBVIOUS
  <1>2. PICK n : n = Len(s)
    OBVIOUS
  <1>3. /\ n \in Nat /\ n >= 1 /\ DOMAIN s = 1 .. n /\ DOMAIN t = 1 .. n - 1 /\ s[1] = Head(s)
        /\ \A i \in 1 .. n - 1 : t[i] = s[i + 1]
    BY <1>1, <1>2
  <1>4. \A i \in 1 .. n - 1 : i + 1 \in 1 .. n /\ i + 1 # 1
    BY <1>3
  <1>5. \A i \in 1 .. n : i = 1 \/ \E j \in 1 .. n - 1 : i = j + 1
    <2> TAKE i \in 1 .. n
    <2>1. i # 1 => i - 1 \in 1 .. n - 1 /\ i = (i - 1) + 1
      BY <1>3
    <2> QED
      BY <2>1
  <1>6. 1 \in 1 .. n /\ \A i, j \in 1 .. n - 1 : i + 1 = j + 1 => i = j
    BY <1>3
  <1>7. HasOf(s, v) => HasOf(t, v) \/ Head(s) \in v
    BY <1>3, <1>5 DEF HasOf
  <1>8. HasOf(t, v) \/ Head(s) \in v => HasOf(s, v)
    BY <1>3, <1>4, <1>6 DEF HasOf
  <1>9. HasOf(t, v) /\ Head(s) \in v => TwiceOf(s, v)
    BY <1>3, <1>4, <1>6 DEF HasOf, TwiceOf
  <1>10. ASSUME TwiceOf(t, v) PROVE TwiceOf(s, v)
    <2>1. PICK i, j \in 1 .. n - 1 : i # j /\ t[i] \in v /\ t[j] \in v
      BY <1>3, <1>10 DEF TwiceOf
    <2>2. i + 1 \in DOMAIN s /\ j + 1 \in DOMAIN s /\ s[i + 1] \in v /\ s[j + 1] \in v
      BY <1>3, <1>4, <2>1
    <2>3. i + 1 # j + 1
      BY <1>6, <2>1
    <2> QED
      BY <2>2, <2>3 DEF TwiceOf
  <1> QED
    BY <1>1, <1>7, <1>8, <1>9, <1>10

\* What a step does to a command in a queue: nothing, or it comes or goes.
Still(x, c) == (Has(x, c)' <=> Has(x, c)) /\ (Twice(x, c)' => Twice(x, c))

LEMMA QueueSame ==
  ASSUME NEW x, NEW c, QueueAt(x)' = QueueAt(x)
  PROVE  Still(x, c)
  BY DEF Still, Has, Twice, Marks

LEMMA QueueAppend ==
  ASSUME NEW x, NEW c, NEW S, QueueAt(x) \in Seq(S), NEW e, QueueAt(x)' = Append(QueueAt(x), e)
  PROVE  /\ e \notin Marks(x, c) => Still(x, c)
         /\ e \in Marks(x, c) /\ ~Has(x, c) /\ ~Twice(x, c) => Has(x, c)' /\ ~Twice(x, c)'
  <1>1. Marks(x, c)' = Marks(x, c)
    BY DEF Marks
  <1> QED
    BY <1>1, AppendOf DEF Still, Has, Twice

LEMMA QueueTail ==
  ASSUME NEW x, NEW c, NEW S, QueueAt(x) \in Seq(S), QueueAt(x) # <<>>,
         QueueAt(x)' = Tail(QueueAt(x))
  PROVE  /\ Head(QueueAt(x)) \notin Marks(x, c) => Still(x, c)
         /\ Head(QueueAt(x)) \in Marks(x, c) => Has(x, c)
         /\ Head(QueueAt(x)) \in Marks(x, c) /\ ~Twice(x, c) => ~Has(x, c)' /\ ~Twice(x, c)'
  <1>1. Marks(x, c)' = Marks(x, c)
    BY DEF Marks
  <1> QED
    BY <1>1, TailOf DEF Still, Has, Twice

-----------------------------------------------------------------------------
(* Frames                                                                  *)

\* A frame that has nothing to do with c; a sequence of such frames, and one
\* in which f is the only other frame.
Foreign(f, c) == ~Owner(f, c) /\ ~Leaver(f, c)

Without(fs, c) == \E S : fs \in Seq(S) /\ \A f \in S : Foreign(f, c)

Only(fs, f, c) ==
  \E S : /\ fs \in Seq(S)
         /\ \E i \in 1 .. Len(fs) : /\ fs[i] = f
                                    /\ \A j \in 1 .. Len(fs) : j # i => Foreign(fs[j], c)

LEMMA WithoutOf ==
  ASSUME NEW c, NEW S, NEW fs \in Seq(S), \A f \in S : Foreign(f, c)
  PROVE  Without(fs, c)
  BY DEF Without

LEMMA Withouts ==
  ASSUME NEW c
  PROVE  /\ Without(<<>>, c)
         /\ \A f : Foreign(f, c) => Without(<<f>>, c)
         /\ \A f, g : Foreign(f, c) /\ Foreign(g, c) => Without(<<f, g>>, c)
         /\ \A fs, gs : Without(fs, c) /\ Without(gs, c) => Without(fs \o gs, c)
         /\ \A e, r : Without(CallbackFrames(e, r), c)
  <1>1. Without(<<>>, c)
    <2>1. PICK S : S = {}
      OBVIOUS
    <2>2. <<>> \in Seq(S) /\ \A f \in S : Foreign(f, c)
      BY <2>1, EmptyType
    <2> QED
      BY <2>2, WithoutOf
  <1>2. ASSUME NEW f, Foreign(f, c) PROVE Without(<<f>>, c)
    <2>1. PICK S : S = {f}
      OBVIOUS
    <2>2. <<f>> \in Seq(S) /\ \A g \in S : Foreign(g, c)
      BY <1>2, <2>1, OneType
    <2> QED
      BY <2>2, WithoutOf
  <1>3. ASSUME NEW f, NEW g, Foreign(f, c), Foreign(g, c) PROVE Without(<<f, g>>, c)
    <2>1. PICK S : S = {f, g}
      OBVIOUS
    <2>2. <<f, g>> \in Seq(S) /\ \A l \in S : Foreign(l, c)
      BY <1>3, <2>1, TwoType
    <2> QED
      BY <2>2, WithoutOf
  <1>4. ASSUME NEW fs, NEW gs, Without(fs, c), Without(gs, c) PROVE Without(fs \o gs, c)
    <2>1. PICK S : fs \in Seq(S) /\ \A f \in S : Foreign(f, c)
      BY <1>4 DEF Without
    <2>2. PICK T : gs \in Seq(T) /\ \A f \in T : Foreign(f, c)
      BY <1>4 DEF Without
    <2>3. fs \o gs \in Seq(S \cup T)
      BY <2>1, <2>2, SeqMono, ConcatType
    <2> QED
      BY <2>1, <2>2, <2>3 DEF Without
  <1>5. ASSUME NEW e, NEW r PROVE Without(CallbackFrames(e, r), c)
    <2>1. Foreign(F("user", e, 0, "none"), c) /\ Foreign(F("on_reply_update_slot", e, 0, r), c)
      BY DEF Foreign, Owner, OwnerOps, Leaver, Leaves, F
    <2> QED
      BY <1>1, <1>2, <2>1 DEF CallbackFrames
  <1> QED
    BY <1>1, <1>2, <1>3, <1>4, <1>5

LEMMA OnlyOf ==
  ASSUME NEW c, NEW f, NEW S, NEW fs \in Seq(S), NEW i \in 1 .. Len(fs), fs[i] = f,
         \A j \in 1 .. Len(fs) : j # i => Foreign(fs[j], c)
  PROVE  Only(fs, f, c)
  BY DEF Only

LEMMA OnlyAbove ==
  ASSUME NEW c, NEW f, NEW fs, NEW gs, Only(fs, f, c), Without(gs, c)
  PROVE  Only(fs \o gs, f, c)
  <1>1. PICK S : /\ fs \in Seq(S)
                 /\ \E i \in 1 .. Len(fs) : /\ fs[i] = f
                                            /\ \A j \in 1 .. Len(fs) : j # i => Foreign(fs[j], c)
    BY DEF Only
  <1>2. PICK i \in 1 .. Len(fs) : fs[i] = f /\ \A j \in 1 .. Len(fs) : j # i => Foreign(fs[j], c)
    BY <1>1
  <1>3. PICK T : gs \in Seq(T) /\ \A g \in T : Foreign(g, c)
    BY DEF Without
  <1>4. PICK R : R = S \cup T
    OBVIOUS
  <1>5. PICK l : l = fs \o gs
    OBVIOUS
  <1>6. fs \in Seq(R) /\ gs \in Seq(R)
    BY <1>1, <1>3, <1>4, SeqMono
  <1>7. /\ l \in Seq(R) /\ Len(l) = Len(fs) + Len(gs) /\ Len(fs) \in Nat
        /\ \A j \in 1 .. Len(fs) : l[j] = fs[j]
        /\ \A j \in 1 .. Len(gs) : l[Len(fs) + j] = gs[j]
    BY <1>5, <1>6, ConcatAt
  <1>8. Len(gs) \in Nat /\ \A j \in 1 .. Len(gs) : Foreign(gs[j], c)
    BY <1>3
  <1>9. \A m, n \in Nat : \A j \in 1 .. m + n : j \in 1 .. m \/ (j - m \in 1 .. n /\ m + (j - m) = j)
    OBVIOUS
  <1>10. ASSUME NEW j \in 1 .. Len(l), j # i PROVE Foreign(l[j], c)
    <2>1. j \in 1 .. Len(fs) \/ \E m \in 1 .. Len(gs) : j = Len(fs) + m
      BY <1>7, <1>8, <1>9
    <2> QED
      BY <1>2, <1>7, <1>8, <1>10, <2>1
  <1>11. i \in 1 .. Len(l) /\ l[i] = f
    BY <1>2, <1>7, <1>8
  <1> QED
    BY <1>5, <1>7, <1>10, <1>11, OnlyOf

LEMMA OnlyBelow ==
  ASSUME NEW c, NEW f, NEW fs, NEW gs, Only(fs, f, c), Without(gs, c)
  PROVE  Only(gs \o fs, f, c)
  <1>1. PICK S : /\ fs \in Seq(S)
                 /\ \E i \in 1 .. Len(fs) : /\ fs[i] = f
                                            /\ \A j \in 1 .. Len(fs) : j # i => Foreign(fs[j], c)
    BY DEF Only
  <1>2. PICK i \in 1 .. Len(fs) : fs[i] = f /\ \A j \in 1 .. Len(fs) : j # i => Foreign(fs[j], c)
    BY <1>1
  <1>3. PICK T : gs \in Seq(T) /\ \A g \in T : Foreign(g, c)
    BY DEF Without
  <1>4. PICK R : R = S \cup T
    OBVIOUS
  <1>5. PICK l : l = gs \o fs
    OBVIOUS
  <1>6. fs \in Seq(R) /\ gs \in Seq(R)
    BY <1>1, <1>3, <1>4, SeqMono
  <1>7. /\ l \in Seq(R) /\ Len(l) = Len(gs) + Len(fs) /\ Len(gs) \in Nat
        /\ \A j \in 1 .. Len(gs) : l[j] = gs[j]
        /\ \A j \in 1 .. Len(fs) : l[Len(gs) + j] = fs[j]
    BY <1>5, <1>6, ConcatAt
  <1>8. Len(fs) \in Nat /\ \A j \in 1 .. Len(gs) : Foreign(gs[j], c)
    BY <1>1, <1>3
  <1>9. \A m, n \in Nat : \A j \in 1 .. m + n : j \in 1 .. m \/ (j - m \in 1 .. n /\ m + (j - m) = j)
    OBVIOUS
  <1>10. ASSUME NEW j \in 1 .. Len(l), j # Len(gs) + i PROVE Foreign(l[j], c)
    <2>1. j \in 1 .. Len(gs) \/ \E m \in 1 .. Len(fs) : j = Len(gs) + m
      BY <1>7, <1>8, <1>9
    <2> QED
      BY <1>2, <1>7, <1>8, <1>10, <2>1
  <1>11. Len(gs) + i \in 1 .. Len(l) /\ l[Len(gs) + i] = f
    BY <1>2, <1>7, <1>8
  <1> QED
    BY <1>5, <1>7, <1>10, <1>11, OnlyOf

LEMMA OnlyOne ==
  ASSUME NEW c, NEW f
  PROVE  Only(<<f>>, f, c)
  <1>1. PICK fs : fs = <<f>>
    OBVIOUS
  <1>2. fs \in Seq({f}) /\ Len(fs) = 1 /\ fs[1] = f
    BY <1>1
  <1>3. 1 \in 1 .. Len(fs) /\ \A j \in 1 .. Len(fs) : j = 1
    BY <1>2
  <1>4. Only(fs, f, c)
    BY <1>2, <1>3, OnlyOf
  <1> QED
    BY <1>1, <1>4

LEMMA Onlys ==
  ASSUME NEW c, NEW f
  PROVE  /\ Only(<<f>>, f, c)
         /\ \A g : Foreign(g, c) => Only(<<f, g>>, f, c) /\ Only(<<g, f>>, f, c)
         /\ \A e, r : Only(CallbackFrames(e, r) \o <<f>>, f, c)
         /\ \A e, r, g : Foreign(g, c) => Only(CallbackFrames(e, r) \o <<f, g>>, f, c)
  <1>1. ASSUME NEW g, Foreign(g, c) PROVE Only(<<f, g>>, f, c) /\ Only(<<g, f>>, f, c)
    <2>1. Only(<<f>> \o <<g>>, f, c) /\ Only(<<g>> \o <<f>>, f, c)
      BY <1>1, OnlyOne, OnlyAbove, OnlyBelow, Withouts
    <2> QED
      BY <2>1, Pair
  <1> QED
    BY <1>1, OnlyOne, OnlyBelow, Withouts

-----------------------------------------------------------------------------
(* What a step does to one command                                         *)

\* The frames a step adds have nothing to do with c, or only f has.
NoNew(h, c) ==
  /\ Keep(h) /\ Len(stack) <= h + 1
  /\ \A d \in h .. Len(stack') - 1 : Foreign(Pile'[d], c)

OneNew(h, f, c) ==
  /\ Keep(h) /\ Len(stack) <= h + 1
  /\ \E p \in h .. Len(stack') - 1 :
       /\ Pile'[p] = f
       /\ \A d \in h .. Len(stack') - 1 : d # p => Foreign(Pile'[d], c)

LEMMA NewFrames ==
  ASSUME NEW h \in Nat, Keep(h), Len(stack) <= h + 1, NEW S, NEW fs \in Seq(S),
         Len(stack') = h + Len(fs),
         \A i \in 1 .. Len(fs) : Pile'[h + Len(fs) - i] = fs[i]
  PROVE  \A c : /\ Without(fs, c) => NoNew(h, c)
                /\ \A f : Only(fs, f, c) => OneNew(h, f, c)
  <1>1. PICK n : n = Len(fs)
    OBVIOUS
  <1>2. n \in Nat /\ Len(stack') = h + n
    BY <1>1
  <1>3. \A d \in h .. h + n - 1 : h + n - d \in 1 .. n /\ h + n - (h + n - d) = d
    BY <1>2
  <1>4. \A i \in 1 .. n : h + n - i \in h .. h + n - 1 /\ h + n - (h + n - i) = i
    BY <1>2
  <1>5. \A d \in h .. h + n - 1 : Pile'[d] = fs[h + n - d]
    BY <1>1, <1>2, <1>3
  <1>n. h .. Len(stack') - 1 = h .. h + n - 1
    BY <1>2
  <1> SUFFICES ASSUME NEW c PROVE /\ Without(fs, c) => NoNew(h, c)
                                  /\ \A f : Only(fs, f, c) => OneNew(h, f, c)
    OBVIOUS
  <1>6. ASSUME Without(fs, c) PROVE NoNew(h, c)
    <2>1. \A i \in 1 .. n : Foreign(fs[i], c)
      BY <1>1, <1>6 DEF Without
    <2> QED
      BY <1>n, <1>3, <1>5, <2>1 DEF NoNew
  <1>7. ASSUME NEW f, Only(fs, f, c) PROVE OneNew(h, f, c)
    <2>1. PICK i \in 1 .. n : fs[i] = f /\ \A j \in 1 .. n : j # i => Foreign(fs[j], c)
      BY <1>1, <1>7 DEF Only
    <2>2. PICK p \in h .. h + n - 1 : p = h + n - i /\ h + n - p = i
      BY <1>4
    <2>3. Pile'[p] = f
      <3>1. Pile'[p] = fs[h + n - p] /\ h + n - p = i
        BY <1>5, <2>2
      <3> QED
        BY <2>1, <3>1
    <2>4. ASSUME NEW d \in h .. h + n - 1, d # p PROVE Foreign(Pile'[d], c)
      <3>1. h + n - d # i
        BY <1>2, <2>2, <2>4
      <3> QED
        BY <1>3, <1>5, <2>1, <3>1
    <2> QED
      BY <1>n, <2>3, <2>4 DEF OneNew
  <1> QED
    BY <1>6, <1>7

LEMMA ContinueNew ==
  ASSUME StackSeq, stack # <<>>, NEW fs, Continue(fs)
  PROVE  \A c : /\ Without(fs, c) => NoNew(Len(stack) - 1, c)
                /\ \A f : Only(fs, f, c) => OneNew(Len(stack) - 1, f, c)
  <1>1. PICK h : h = Len(stack) - 1
    OBVIOUS
  <1>2. h \in Nat /\ Len(stack) <= h + 1
    BY <1>1, PileFrames
  <1>3. ASSUME NEW S, fs \in Seq(S)
        PROVE  \A c : /\ Without(fs, c) => NoNew(h, c)
                      /\ \A f : Only(fs, f, c) => OneNew(h, f, c)
    <2>1. /\ Keep(h) /\ Len(stack') = h + Len(fs)
          /\ \A i \in 1 .. Len(fs) : Pile'[h + Len(fs) - i] = fs[i]
      BY <1>1, <1>3, ContinueMany
    <2> QED
      BY <1>2, <1>3, <2>1, NewFrames
  <1> QED
    BY <1>1, <1>3 DEF Without, Only

LEMMA CallNew ==
  ASSUME StackSeq, NEW fs, Call(fs)
  PROVE  \A c : /\ Without(fs, c) => NoNew(Len(stack), c)
                /\ \A f : Only(fs, f, c) => OneNew(Len(stack), f, c)
  <1>1. PICK h : h = Len(stack)
    OBVIOUS
  <1>2. h \in Nat /\ Len(stack) <= h + 1
    BY <1>1, PileFrames
  <1>3. ASSUME NEW S, fs \in Seq(S)
        PROVE  \A c : /\ Without(fs, c) => NoNew(h, c)
                      /\ \A f : Only(fs, f, c) => OneNew(h, f, c)
    <2>1. /\ Keep(h) /\ Len(stack') = h + Len(fs)
          /\ \A i \in 1 .. Len(fs) : Pile'[h + Len(fs) - i] = fs[i]
      BY <1>1, <1>3, CallMany
    <2> QED
      BY <1>2, <1>3, <2>1, NewFrames
  <1> QED
    BY <1>1, <1>3 DEF Without, Only

LEMMA ReturnNew ==
  ASSUME StackSeq, stack # <<>>, Return
  PROVE  \A c : NoNew(Len(stack) - 1, c)
  <1>1. Continue(<<>>)
    BY DEF Return, Continue, StackSeq, Rest
  <1> QED
    BY <1>1, ContinueNew, Withouts

\* The frames that are kept hold what they held.
LEMMA OwnsKept ==
  ASSUME StackSeq, NEW h, NEW c, Keep(h), Len(stack) <= h + 1,
         Len(stack) # h => ~Leaver(Top, c), Len(stack') # h => ~Leaver(Pile'[h], c)
  PROVE  /\ h \in Nat /\ Len(stack) \in Nat /\ Len(stack') \in Nat
         /\ h <= Len(stack) /\ h <= Len(stack')
         /\ \A d \in 0 .. h - 1 : /\ d \in Heights /\ d \in Heights' /\ Pile'[d] = Pile[d]
                                  /\ OwnsAt(d, c)' <=> OwnsAt(d, c)
  <1>1. /\ h \in Nat /\ Len(stack) \in Nat /\ Len(stack') \in Nat
        /\ h <= Len(stack) /\ h <= Len(stack')
    BY KeptFrames
  <1>2. Len(stack) # h => Len(stack) = h + 1 /\ stack # <<>> /\ Pile[h] = Top
    <2>1. Len(stack) # h => Len(stack) = h + 1 /\ Len(stack) - 1 = h /\ Len(stack) # 0
      BY <1>1
    <2> QED
      BY <2>1, PileFrames
  <1>3. ASSUME NEW d \in 0 .. h - 1
        PROVE  /\ d \in Heights /\ d \in Heights' /\ Pile'[d] = Pile[d]
               /\ OwnsAt(d, c)' <=> OwnsAt(d, c)
    <2>1. d \in Heights /\ d \in Heights' /\ Pile'[d] = Pile[d]
      BY <1>1 DEF Heights, Keep
    <2>2. CASE d + 1 # h
      <3>1. d + 1 \in 0 .. h - 1 /\ d + 1 \in Heights /\ d + 1 \in Heights'
        BY <1>1, <2>2 DEF Heights
      <3>2. Pile'[d + 1] = Pile[d + 1]
        BY <3>1 DEF Keep
      <3> QED
        BY <2>1, <3>1, <3>2 DEF OwnsAt
    <2>3. CASE d + 1 = h
      <3>1. ~(d + 1 \in Heights /\ Leaver(Pile[d + 1], c))
        <4>1. h \in Heights => Len(stack) # h
          BY <1>1 DEF Heights
        <4> QED
          BY <1>2, <2>3, <4>1
      <3>2. ~(d + 1 \in Heights' /\ Leaver(Pile'[d + 1], c))
        <4>1. h \in Heights' => Len(stack') # h
          BY <1>1 DEF Heights
        <4> QED
          BY <2>3, <4>1
      <3> QED
        BY <2>1, <3>1, <3>2 DEF OwnsAt
    <2> QED
      BY <2>2, <2>3
  <1> QED
    BY <1>1, <1>3

\* A call that owns a command is on top of all that it leaves.
LEMMA OwnerNotLeaver ==
  \A f, c : /\ Owner(f, c) => ~Leaver(f, c)
            /\ Foreign(f, c) => ~Leaver(f, c) /\ ~Owner(f, c)
  BY DEF Owner, OwnerOps, Leaver, Leaves, Foreign

\* The top frame holds its command.
LEMMA TopOwns ==
  ASSUME StackSeq, stack # <<>>, NEW c, Owner(Top, c), OnceAt(c), cmd_st[c] = "live"
  PROVE  /\ Len(stack) - 1 \in Heights /\ Pile[Len(stack) - 1] = Top
         /\ InCalls(c) = {Len(stack) - 1} /\ InQueues(c) = {}
         /\ Top.op # "destroy" => \A d \in Heights : ~Leaver(Pile[d], c)
  <1>1. PICK h : h = Len(stack) - 1
    OBVIOUS
  <1>2. h \in Heights /\ Pile[h] = Top /\ Len(stack) \in Nat /\ h \in Nat /\ Len(stack) = h + 1
    BY <1>1, HeightOf
  <1>3. h + 1 \notin Heights
    BY <1>2 DEF Heights
  <1>4. h \in InCalls(c)
    BY <1>2, <1>3 DEF InCalls, OwnsAt
  <1>5. InCalls(c) = {h} /\ InQueues(c) = {}
    BY <1>4 DEF OnceAt
  <1>6. Top.op # "destroy" => \A d \in Heights : ~Leaver(Pile[d], c)
    BY <1>2, <1>4 DEF OnceAt
  <1> QED
    BY <1>1, <1>2, <1>5, <1>6

\* A step that does not concern c.
LEMMA Stays ==
  ASSUME StackSeq, NEW c, OnceAt(c), NEW h, NoNew(h, c), Len(stack) # h => Foreign(Top, c),
         \A x \in Queues : Still(x, c), cmd_st'[c] = cmd_st[c]
  PROVE  OnceAt(c)'
  <1>0. SUFFICES ASSUME cmd_st[c] = "live" PROVE OnceAt(c)'
    BY DEF OnceAt
  <1>1. Keep(h) /\ Len(stack) <= h + 1 /\ h \in Nat /\ Len(stack') \in Nat /\ h <= Len(stack')
    BY KeptFrames DEF NoNew
  <1>2. \A d \in h .. Len(stack') - 1 : ~Owner(Pile'[d], c) /\ ~Leaver(Pile'[d], c)
    BY OwnerNotLeaver DEF NoNew
  <1>3. Len(stack') # h => ~Leaver(Pile'[h], c)
    <2>1. Len(stack') # h => h \in h .. Len(stack') - 1
      BY <1>1
    <2> QED
      BY <1>2, <2>1
  <1>4. /\ Len(stack) \in Nat /\ h <= Len(stack)
        /\ \A d \in 0 .. h - 1 : /\ d \in Heights /\ d \in Heights' /\ Pile'[d] = Pile[d]
                                 /\ OwnsAt(d, c)' <=> OwnsAt(d, c)
    BY <1>1, <1>3, OwnsKept, OwnerNotLeaver
  <1>5. \A d \in Heights' : d \in 0 .. h - 1 \/ d \in h .. Len(stack') - 1
    BY <1>1 DEF Heights
  <1>6. \A d \in Heights : d \in 0 .. h - 1 \/ (d = h /\ Len(stack) # h /\ Pile[d] = Top)
    <2> TAKE d \in Heights
    <2>1. d \in 0 .. h - 1 \/ (d = h /\ Len(stack) # h /\ d = Len(stack) - 1 /\ Len(stack) # 0)
      BY <1>1, <1>4 DEF Heights
    <2> QED
      BY <2>1, PileFrames
  <1>7. InCalls(c)' = InCalls(c)
    <2>1. ASSUME NEW d \in InCalls(c)' PROVE d \in InCalls(c)
      BY <1>2, <1>4, <1>5, <2>1 DEF InCalls, OwnsAt
    <2>2. ASSUME NEW d \in InCalls(c) PROVE d \in InCalls(c)' /\ d \in 0 .. h - 1
      BY <1>4, <1>6, <2>2, OwnerNotLeaver DEF InCalls, OwnsAt
    <2> QED
      BY <2>1, <2>2
  <1>8. \A d \in InCalls(c) : d \in Heights' /\ Pile'[d] = Pile[d]
    BY <1>4, <1>6, OwnerNotLeaver DEF InCalls, OwnsAt
  <1>9. InQueues(c)' = InQueues(c)
    BY DEF InQueues, Still
  <1>10. \A x \in Queues : ~Twice(x, c)'
    BY <1>0 DEF OnceAt, Still
  <1>11. \A d \in Heights' : Leaver(Pile'[d], c) => d \in Heights /\ Leaver(Pile[d], c)
    BY <1>2, <1>4, <1>5
  <1>12. \/ InQueues(c)' = {} /\ \E d \in Heights' : InCalls(c)' = {d}
         \/ InCalls(c)' = {} /\ \E x \in Queues : InQueues(c)' = {x}
    BY <1>0, <1>7, <1>8, <1>9 DEF OnceAt
  <1>13. \A d \in Heights' : Leaver(Pile'[d], c) =>
           /\ \A e \in InCalls(c)' : Pile'[e].op = "destroy"
           /\ \A x \in InQueues(c)' : x[1] = "list"
    BY <1>0, <1>7, <1>8, <1>9, <1>11 DEF OnceAt
  <1> QED
    BY <1>10, <1>12, <1>13 DEF OnceAt

\* After a step in which a new call takes c, which nothing held that is kept.
LEMMA Taken ==
  ASSUME StackSeq, NEW c, NEW h, NEW f, OneNew(h, f, c), Owner(f, c),
         Len(stack) # h => ~Leaver(Top, c),
         \A d \in Heights : d < h => ~OwnsAt(d, c),
         \A d \in Heights : d < h /\ Leaver(Pile[d], c) => f.op = "destroy",
         \A x \in Queues : ~Has(x, c)' /\ ~Twice(x, c)'
  PROVE  OnceAt(c)'
  <1>1. Keep(h) /\ Len(stack) <= h + 1 /\ h \in Nat /\ Len(stack') \in Nat /\ h <= Len(stack')
    BY KeptFrames DEF OneNew
  <1>2. PICK p \in h .. Len(stack') - 1 :
          /\ Pile'[p] = f
          /\ \A d \in h .. Len(stack') - 1 : d # p => Foreign(Pile'[d], c)
    BY DEF OneNew
  <1>3. \A d \in h .. Len(stack') - 1 : ~Leaver(Pile'[d], c) /\ (d # p => ~Owner(Pile'[d], c))
    BY <1>2, OwnerNotLeaver
  <1>4. Len(stack') # h => ~Leaver(Pile'[h], c)
    <2>1. Len(stack') # h => h \in h .. Len(stack') - 1
      BY <1>1
    <2> QED
      BY <1>3, <2>1
  <1>5. \A d \in 0 .. h - 1 : /\ d \in Heights /\ d \in Heights' /\ Pile'[d] = Pile[d]
                              /\ OwnsAt(d, c)' <=> OwnsAt(d, c)
    BY <1>1, <1>4, OwnsKept
  <1>6. \A d \in 0 .. h - 1 : d < h
    BY <1>1
  <1>7. \A d \in Heights' : d \in 0 .. h - 1 \/ d \in h .. Len(stack') - 1
    BY <1>1 DEF Heights
  <1>8. p \in Heights' /\ (p + 1 \in Heights' => p + 1 \in h .. Len(stack') - 1)
    BY <1>1 DEF Heights
  <1>9. InCalls(c)' = {p}
    <2>1. OwnsAt(p, c)'
      BY <1>2, <1>3, <1>8 DEF OwnsAt
    <2>2. ASSUME NEW d \in Heights', OwnsAt(d, c)' PROVE d = p
      BY <1>3, <1>5, <1>6, <1>7, <2>2 DEF OwnsAt
    <2> QED
      BY <1>8, <2>1, <2>2 DEF InCalls
  <1>10. InQueues(c)' = {}
    BY DEF InQueues
  <1>11. \A d \in Heights' : Leaver(Pile'[d], c) => f.op = "destroy"
    BY <1>3, <1>5, <1>6, <1>7
  <1> QED
    BY <1>2, <1>8, <1>9, <1>10, <1>11 DEF OnceAt

\* After a step in which queue y takes c.
LEMMA Stored ==
  ASSUME StackSeq, NEW c, NEW h, NoNew(h, c), NEW y \in Queues,
         Len(stack) # h => ~Leaver(Top, c),
         \A d \in Heights : d < h => ~OwnsAt(d, c) /\ ~Leaver(Pile[d], c),
         Has(y, c)', \A x \in Queues : (x # y => ~Has(x, c)') /\ ~Twice(x, c)'
  PROVE  OnceAt(c)'
  <1>1. Keep(h) /\ Len(stack) <= h + 1 /\ h \in Nat /\ Len(stack') \in Nat /\ h <= Len(stack')
    BY KeptFrames DEF NoNew
  <1>2. \A d \in h .. Len(stack') - 1 : ~Leaver(Pile'[d], c) /\ ~Owner(Pile'[d], c)
    BY OwnerNotLeaver DEF NoNew
  <1>3. Len(stack') # h => ~Leaver(Pile'[h], c)
    <2>1. Len(stack') # h => h \in h .. Len(stack') - 1
      BY <1>1
    <2> QED
      BY <1>2, <2>1
  <1>4. \A d \in 0 .. h - 1 : /\ d \in Heights /\ d \in Heights' /\ Pile'[d] = Pile[d]
                              /\ OwnsAt(d, c)' <=> OwnsAt(d, c)
    BY <1>1, <1>3, OwnsKept
  <1>5. \A d \in 0 .. h - 1 : d < h
    BY <1>1
  <1>6. \A d \in Heights' : d \in 0 .. h - 1 \/ d \in h .. Len(stack') - 1
    BY <1>1 DEF Heights
  <1>7. \A d \in Heights' : ~OwnsAt(d, c)' /\ ~Leaver(Pile'[d], c)
    BY <1>2, <1>4, <1>5, <1>6 DEF OwnsAt
  <1>8. InCalls(c)' = {}
    BY <1>7 DEF InCalls
  <1>9. InQueues(c)' = {y}
    BY DEF InQueues
  <1> QED
    BY <1>7, <1>8, <1>9 DEF OnceAt

-----------------------------------------------------------------------------
(* How a command moves                                                     *)

\* Only queue y changes for any command; it takes e, or loses its first element.
Others(y) == \A x \in Queues : x # y => \A c : Still(x, c)

Grows(y, e) == Others(y) /\ QueueAt(y)' = Append(QueueAt(y), e)
Shrinks(y)  == Others(y) /\ QueueAt(y) # <<>> /\ QueueAt(y)' = Tail(QueueAt(y))

SameEverywhere == \A x \in Queues : \A c \in OnceIds : Still(x, c)

LEMMA QueueTypes ==
  ASSUME IndInv, NEW y \in Queues
  PROVE  \E S : QueueAt(y) \in Seq(S)
  <1>1. timer_pending \in Seq([at : Nat, cmd : Created]) /\ slot_pending_ \in Seq(Created)
        /\ \A k \in ConnIds : reply_list_[k] \in Seq(Created) /\ replies[k] \in Seq(Entries)
    BY DEF IndInv, QueuePart
  <1> QED
    BY <1>1, QueueNames, QueueValues

LEMMA Grown ==
  ASSUME IndInv, NEW y \in Queues, NEW e, Grows(y, e), NEW c
  PROVE  /\ e \notin Marks(y, c) => \A x \in Queues : Still(x, c)
         /\ e \in Marks(y, c) /\ (\A x \in Queues : ~Has(x, c) /\ ~Twice(x, c)) =>
              Has(y, c)' /\ \A x \in Queues : (x # y => ~Has(x, c)') /\ ~Twice(x, c)'
  <1>1. PICK S : QueueAt(y) \in Seq(S)
    BY QueueTypes
  <1>2. /\ e \notin Marks(y, c) => Still(y, c)
        /\ e \in Marks(y, c) /\ ~Has(y, c) /\ ~Twice(y, c) => Has(y, c)' /\ ~Twice(y, c)'
    BY <1>1, QueueAppend DEF Grows
  <1>3. \A x \in Queues : x # y => Still(x, c)
    BY DEF Grows, Others
  <1> QED
    BY <1>2, <1>3 DEF Still

LEMMA Shrunk ==
  ASSUME IndInv, NEW y \in Queues, Shrinks(y), NEW c
  PROVE  /\ Head(QueueAt(y)) \notin Marks(y, c) => \A x \in Queues : Still(x, c)
         /\ Head(QueueAt(y)) \in Marks(y, c) => Has(y, c)
         /\ Head(QueueAt(y)) \in Marks(y, c) /\ InQueues(c) = {y} /\ (\A x \in Queues : ~Twice(x, c)) =>
              \A x \in Queues : ~Has(x, c)' /\ ~Twice(x, c)'
  <1>1. PICK S : QueueAt(y) \in Seq(S)
    BY QueueTypes
  <1>2. /\ Head(QueueAt(y)) \notin Marks(y, c) => Still(y, c)
        /\ Head(QueueAt(y)) \in Marks(y, c) => Has(y, c)
        /\ Head(QueueAt(y)) \in Marks(y, c) /\ ~Twice(y, c) => ~Has(y, c)' /\ ~Twice(y, c)'
    BY <1>1, QueueTail DEF Shrinks
  <1>3. \A x \in Queues : x # y => Still(x, c)
    BY DEF Shrinks, Others
  <1>4. InQueues(c) = {y} => \A x \in Queues : x # y => ~Has(x, c)
    BY DEF InQueues
  <1> QED
    BY <1>2, <1>3, <1>4 DEF Still

\* The call on top hands c to the call f.
LEMMA Passes ==
  ASSUME StackSeq, stack # <<>>, NEW c, OnceAt(c), Owner(Top, c), Top.op # "destroy",
         NEW f, OneNew(Len(stack) - 1, f, c), Owner(f, c),
         \A x \in Queues : Still(x, c), cmd_st'[c] = cmd_st[c]
  PROVE  OnceAt(c)'
  <1>0. SUFFICES ASSUME cmd_st[c] = "live" PROVE OnceAt(c)'
    BY DEF OnceAt
  <1>1. PICK h : h = Len(stack) - 1
    OBVIOUS
  <1>2. InCalls(c) = {h} /\ InQueues(c) = {} /\ \A d \in Heights : ~Leaver(Pile[d], c)
    BY <1>0, <1>1, TopOwns
  <1>3. \A d \in Heights : d < h => ~OwnsAt(d, c)
    <2>1. h \in Nat /\ \A d \in Heights : d < h => d # h
      BY <1>1, HeightOf
    <2> QED
      BY <1>2, <2>1 DEF InCalls
  <1>4. \A x \in Queues : ~Has(x, c) /\ ~Twice(x, c)
    BY <1>0, <1>2 DEF InQueues, OnceAt
  <1>5. \A x \in Queues : ~Has(x, c)' /\ ~Twice(x, c)'
    BY <1>4 DEF Still
  <1>6. ~Leaver(Top, c)
    BY OwnerNotLeaver
  <1> QED
    BY <1>1, <1>2, <1>3, <1>5, <1>6, Taken

\* The call on top puts c into the queue y.
LEMMA Goes ==
  ASSUME IndInv, stack # <<>>, NEW c, OnceAt(c), Owner(Top, c), Top.op # "destroy",
         NoNew(Len(stack) - 1, c), NEW y \in Queues, NEW e, e \in Marks(y, c), Grows(y, e),
         cmd_st'[c] = cmd_st[c]
  PROVE  OnceAt(c)'
  <1>0. SUFFICES ASSUME cmd_st[c] = "live" PROVE OnceAt(c)'
    BY DEF OnceAt
  <1>s. StackSeq
    BY StackFrames
  <1>1. PICK h : h = Len(stack) - 1
    OBVIOUS
  <1>2. InCalls(c) = {h} /\ InQueues(c) = {} /\ \A d \in Heights : ~Leaver(Pile[d], c)
    BY <1>0, <1>1, <1>s, TopOwns
  <1>3. \A d \in Heights : d < h => ~OwnsAt(d, c)
    <2>1. h \in Nat /\ \A d \in Heights : d < h => d # h
      BY <1>1, <1>s, HeightOf
    <2> QED
      BY <1>2, <2>1 DEF InCalls
  <1>4. \A x \in Queues : ~Has(x, c) /\ ~Twice(x, c)
    BY <1>0, <1>2 DEF InQueues, OnceAt
  <1>5. Has(y, c)' /\ \A x \in Queues : (x # y => ~Has(x, c)') /\ ~Twice(x, c)'
    BY <1>4, Grown
  <1>6. ~Leaver(Top, c)
    BY OwnerNotLeaver
  <1> QED
    BY <1>1, <1>2, <1>3, <1>5, <1>6, <1>s, Stored

\* A new call f takes c off the queue y.  A command that is leaving is only
\* taken to be destroyed.
LEMMA Comes ==
  ASSUME IndInv, NEW c, OnceAt(c), NEW h, NEW f, OneNew(h, f, c), Owner(f, c),
         Len(stack) # h => Foreign(Top, c),
         NEW y \in Queues, Shrinks(y), Head(QueueAt(y)) \in Marks(y, c),
         f.op = "destroy" \/ y[1] # "list" \/ \A d \in Heights : ~Leaver(Pile[d], c),
         cmd_st'[c] = cmd_st[c]
  PROVE  OnceAt(c)'
  <1>0. SUFFICES ASSUME cmd_st[c] = "live" PROVE OnceAt(c)'
    BY DEF OnceAt
  <1>s. StackSeq
    BY StackFrames
  <1>1. Has(y, c)
    BY Shrunk
  <1>2. y \in InQueues(c)
    BY <1>1 DEF InQueues
  <1>3. InCalls(c) = {} /\ InQueues(c) = {y} /\ \A x \in Queues : ~Twice(x, c)
    BY <1>0, <1>2 DEF OnceAt
  <1>4. \A d \in Heights : ~OwnsAt(d, c)
    BY <1>3 DEF InCalls
  <1>5. \A d \in Heights : Leaver(Pile[d], c) => y[1] = "list"
    BY <1>0, <1>2 DEF OnceAt
  <1>6. \A x \in Queues : ~Has(x, c)' /\ ~Twice(x, c)'
    BY <1>3, Shrunk
  <1>7. Len(stack) # h => ~Leaver(Top, c)
    BY OwnerNotLeaver
  <1> QED
    BY <1>4, <1>5, <1>6, <1>7, <1>s, Taken

\* Nothing refers to a command that has not been created.
LEMMA NotThere ==
  ASSUME IndInv, NEW c, c \notin Created
  PROVE  /\ \A d \in Heights : Foreign(Pile[d], c)
         /\ \A x \in Queues : ~Has(x, c) /\ ~Twice(x, c)
  <1>1. ASSUME NEW d \in Heights PROVE Foreign(Pile[d], c)
    <2>1. Pile[d] \in GoodFrame
      BY FrameGood
    <2> QED
      BY <2>1 DEF GoodFrame, Good, CmdOps, Foreign, Owner, OwnerOps, Leaver, Leaves
  <1>2. ASSUME NEW x \in Queues PROVE ~Has(x, c)
    <2>1. \A s, v, S : s \in Seq(S) /\ S \cap v = {} => ~HasOf(s, v)
      BY DEF HasOf
    <2>2. CASE x = <<"timer", 0>>
      <3>1. QueueAt(x) \in Seq([at : Nat, cmd : Created]) /\ Marks(x, c) = [at : Nat, cmd : {c}]
        BY <2>2, QueueValues, MarkValues DEF IndInv, QueuePart
      <3>2. [at : Nat, cmd : Created] \cap [at : Nat, cmd : {c}] = {}
        OBVIOUS
      <3> QED
        BY <2>1, <3>1, <3>2 DEF Has
    <2>3. CASE x = <<"pending", 0>>
      <3>1. QueueAt(x) \in Seq(Created) /\ Marks(x, c) = {c} /\ Created \cap {c} = {}
        BY <2>3, QueueValues, MarkValues DEF IndInv, QueuePart
      <3> QED
        BY <2>1, <3>1 DEF Has
    <2>4. CASE \E k \in ConnIds : x = <<"list", k>>
      <3>1. QueueAt(x) \in Seq(Created) /\ Marks(x, c) = {c} /\ Created \cap {c} = {}
        BY <2>4, QueueValues, MarkValues DEF IndInv, QueuePart
      <3> QED
        BY <2>1, <3>1 DEF Has
    <2>5. CASE \E k \in ConnIds : x = <<"asking", k>>
      <3>1. QueueAt(x) \in Seq(Entries) /\ Marks(x, c) = {[fn |-> "on_reply_asking", c |-> c]}
        BY <2>5, QueueValues, MarkValues DEF IndInv, QueuePart
      <3>2. Entries \cap {[fn |-> "on_reply_asking", c |-> c]} = {}
        BY DEF Entries
      <3> QED
        BY <2>1, <3>1, <3>2 DEF Has
    <2> QED
      BY <2>2, <2>3, <2>4, <2>5, QueueNames
  <1>3. \A x : Twice(x, c) => Has(x, c)
    BY DEF Has, Twice, HasOf, TwiceOf
  <1> QED
    BY <1>1, <1>2, <1>3

\* A command is created, for the call f.
LEMMA Born ==
  ASSUME IndInv, NEW c, c \notin Created, NEW h, NEW f, OneNew(h, f, c), Owner(f, c),
         \A x \in Queues : Still(x, c)
  PROVE  OnceAt(c)'
  <1>s. StackSeq
    BY StackFrames
  <1>1. /\ \A d \in Heights : Foreign(Pile[d], c)
        /\ \A x \in Queues : ~Has(x, c) /\ ~Twice(x, c)
    BY NotThere
  <1>2. \A d \in Heights : ~OwnsAt(d, c) /\ ~Leaver(Pile[d], c)
    BY <1>1, OwnerNotLeaver DEF OwnsAt
  <1>3. \A x \in Queues : ~Has(x, c)' /\ ~Twice(x, c)'
    BY <1>1 DEF Still
  <1>4. Len(stack) # h => ~Leaver(Top, c)
    <2>1. h \in Nat /\ Len(stack) \in Nat /\ h <= Len(stack)
      BY <1>s, KeptFrames DEF OneNew
    <2>2. Len(stack) # h => Len(stack) # 0
      BY <2>1
    <2>3. Len(stack) # h => Len(stack) - 1 \in Heights /\ Pile[Len(stack) - 1] = Top
      BY <1>s, <2>2, PileFrames, HeightOf
    <2> QED
      BY <1>2, <2>3
  <1> QED
    BY <1>2, <1>3, <1>4, <1>s, Taken

-----------------------------------------------------------------------------
(* What a step does to the commands                                        *)

\* A frame that holds no command, and sequences that hold none, or only the
\* command of f.
AlienOps == Ops \ (OwnerOps \cup {"ask_pop", "pop_reply"})

Alien(f) == f.op \notin OwnerOps /\ ~Leaves(f)

Aliens(fs) == \A c \in OnceIds : Without(fs, c)

Carries(fs, f) ==
  /\ f.op \in OwnerOps /\ Only(fs, f, f.c)
  /\ \A c \in OnceIds : c # f.c => Without(fs, c)

LEMMA AlienForeign == \A f : Alien(f) => \A c : Foreign(f, c)
  BY DEF Alien, Foreign, Owner, Leaver

LEMMA OwnedForeign == \A f, c : f.c # c => Foreign(f, c)
  BY DEF Foreign, Owner, Leaver

LEMMA AlienFrame ==
  \A op \in AlienOps : \A c, k, a : Alien(F(op, c, k, a))
  BY DEF Alien, AlienOps, Leaves, F

LEMMA AlienNames ==
  /\ {"user", "on_reply", "call_reply", "connection_release", "redisAsyncDisconnect"} \subseteq AlienOps
  /\ {"reload_slots", "reload_exec", "reload_end", "run_pending"} \subseteq AlienOps
  /\ {"release_connection", "release_event", "release_end", "h_free", "h_free_end"} \subseteq AlienOps
  /\ {"on_connected", "on_connected_end", "on_disconnected", "h_reply_end"} \subseteq AlienOps
  /\ {"reset_begin", "reset_slots", "reset", "proc", "proc_conn", "proc_clear"} \subseteq AlienOps
  /\ {"h_connect_end", "h_connect_failed", "on_reply_update_slot"} \subseteq AlienOps
  BY DEF AlienOps, Ops, OwnerOps

LEMMA AlienSeqs ==
  /\ Aliens(<<>>)
  /\ \A f : Alien(f) => Aliens(<<f>>)
  /\ \A f, g : Alien(f) /\ Alien(g) => Aliens(<<f, g>>)
  /\ \A fs, gs : Aliens(fs) /\ Aliens(gs) => Aliens(fs \o gs)
  /\ \A e, r : Aliens(CallbackFrames(e, r))
  /\ \A S : \A fs \in Seq(S) : (\A f \in S : Alien(f)) => Aliens(fs)
  BY Withouts, WithoutOf, AlienForeign DEF Aliens

LEMMA CarrySeqs ==
  ASSUME NEW f, f.op \in OwnerOps
  PROVE  /\ Carries(<<f>>, f)
         /\ \A g : Alien(g) => Carries(<<f, g>>, f) /\ Carries(<<g, f>>, f)
         /\ \A fs, gs : Carries(fs, f) /\ Aliens(gs) /\ Without(gs, f.c) =>
                          Carries(gs \o fs, f) /\ Carries(fs \o gs, f)
         /\ \A e, r : Carries(CallbackFrames(e, r) \o <<f>>, f)
         /\ \A e, r, g : Alien(g) => Carries(CallbackFrames(e, r) \o <<f, g>>, f)
  <1>1. \A c : c # f.c => Foreign(f, c)
    BY OwnedForeign
  <1>2. Carries(<<f>>, f)
    BY <1>1, Onlys, Withouts DEF Carries
  <1>3. ASSUME NEW g, Alien(g) PROVE Carries(<<f, g>>, f) /\ Carries(<<g, f>>, f)
    <2>1. \A c : Foreign(g, c)
      BY <1>3, AlienForeign
    <2> QED
      BY <1>1, <2>1, Onlys, Withouts DEF Carries
  <1>4. ASSUME NEW fs, NEW gs, Carries(fs, f), Aliens(gs), Without(gs, f.c)
        PROVE  Carries(gs \o fs, f) /\ Carries(fs \o gs, f)
    <2>1. Only(gs \o fs, f, f.c) /\ Only(fs \o gs, f, f.c)
      BY <1>4, OnlyAbove, OnlyBelow DEF Carries
    <2>2. \A c \in OnceIds : c # f.c => Without(gs \o fs, c) /\ Without(fs \o gs, c)
      BY <1>4, Withouts DEF Carries, Aliens
    <2> QED
      BY <2>1, <2>2 DEF Carries
  <1>5. \A e, r : Aliens(CallbackFrames(e, r)) /\ Without(CallbackFrames(e, r), f.c)
    BY AlienSeqs, Withouts
  <1> QED
    BY <1>2, <1>3, <1>4, <1>5

\* A step of the frame on top, if it holds no command and none moves.
LEMMA StaysOn ==
  ASSUME IndInv, OncePart, stack # <<>>, Alien(Top), NEW fs, Aliens(fs),
         Continue(fs) \/ Return \/ Call(fs),
         SameEverywhere, \A c \in OnceIds : cmd_st'[c] = cmd_st[c]
  PROVE  OncePart'
  <1>s. StackSeq
    BY StackFrames
  <1> SUFFICES ASSUME NEW c \in OnceIds PROVE OnceAt(c)'
    BY DEF OncePart
  <1>1. OnceAt(c) /\ Foreign(Top, c) /\ Without(fs, c) /\ \A x \in Queues : Still(x, c)
    BY AlienForeign DEF OncePart, Aliens, SameEverywhere
  <1>2. \E h : NoNew(h, c)
    BY <1>s, <1>1, ContinueNew, ReturnNew, CallNew
  <1> QED
    BY <1>s, <1>1, <1>2, Stays

\* Likewise for a step of the event loop.
LEMMA StaysIn ==
  ASSUME IndInv, OncePart, NEW fs, Aliens(fs), Call(fs), SameEverywhere,
         \A c \in OnceIds : cmd_st'[c] = cmd_st[c]
  PROVE  OncePart'
  <1>s. StackSeq
    BY StackFrames
  <1> SUFFICES ASSUME NEW c \in OnceIds PROVE OnceAt(c)'
    BY DEF OncePart
  <1>1. OnceAt(c) /\ Without(fs, c) /\ \A x \in Queues : Still(x, c)
    BY DEF OncePart, Aliens, SameEverywhere
  <1>2. NoNew(Len(stack), c)
    BY <1>s, <1>1, CallNew
  <1>3. PICK h : h = Len(stack)
    OBVIOUS
  <1> QED
    BY <1>s, <1>1, <1>2, <1>3, Stays

\* The queues do not change, or only one does.
LEMMA QueuesSame ==
  ASSUME UNCHANGED <<timer_pending, slot_pending_, reply_list_, replies>>
  PROVE  SameEverywhere
  <1>1. \A x \in Queues : QueueAt(x)' = QueueAt(x)
    BY QueueNames, QueueValues, QueueValuesNext
  <1> QED
    BY <1>1, QueueSame DEF SameEverywhere

LEMMA SameOnce ==
  ASSUME IndInv, OncePart,
         UNCHANGED <<stack, cmd_st, timer_pending, slot_pending_, reply_list_, replies>>
  PROVE  OncePart'
  <1>s. StackSeq
    BY StackFrames
  <1> SUFFICES ASSUME NEW c \in OnceIds PROVE OnceAt(c)'
    BY DEF OncePart
  <1>1. PICK h : h = Len(stack)
    OBVIOUS
  <1>2. h \in Nat /\ Len(stack) <= h + 1 /\ Len(stack') = h /\ Pile' = Pile
    BY <1>s, <1>1, PileFrames DEF Pile
  <1>3. Keep(h)
    BY <1>1, <1>2 DEF Keep
  <1>4. h .. Len(stack') - 1 = {}
    BY <1>2
  <1>5. NoNew(h, c)
    BY <1>2, <1>3, <1>4 DEF NoNew
  <1>6. OnceAt(c) /\ \A x \in Queues : Still(x, c)
    BY QueuesSame DEF OncePart, SameEverywhere
  <1> QED
    BY <1>s, <1>1, <1>5, <1>6, Stays

\* The frame on top hands its command to the call f.
LEMMA PassesOn ==
  ASSUME IndInv, OncePart, stack # <<>>, Top.op \in OwnerOps, Top.op # "destroy",
         NEW fs, NEW f, Continue(fs), Carries(fs, f), f.c = Top.c,
         SameEverywhere, \A c \in OnceIds : cmd_st'[c] = cmd_st[c]
  PROVE  OncePart'
  <1>s. StackSeq
    BY StackFrames
  <1> SUFFICES ASSUME NEW c \in OnceIds PROVE OnceAt(c)'
    BY DEF OncePart
  <1>1. OnceAt(c) /\ \A x \in Queues : Still(x, c)
    BY DEF OncePart, SameEverywhere
  <1>2. CASE c = Top.c
    <2>1. Only(fs, f, c) /\ Owner(f, c) /\ Owner(Top, c)
      BY <1>2 DEF Carries, Owner
    <2>2. OneNew(Len(stack) - 1, f, c)
      BY <1>s, <2>1, ContinueNew
    <2> QED
      BY <1>s, <1>1, <2>1, <2>2, Passes
  <1>3. CASE c # Top.c
    <2>1. Without(fs, c) /\ Foreign(Top, c)
      BY <1>3, OwnedForeign DEF Carries
    <2>2. NoNew(Len(stack) - 1, c)
      BY <1>s, <2>1, ContinueNew
    <2> QED
      BY <1>s, <1>1, <2>1, <2>2, Stays
  <1> QED
    BY <1>2, <1>3

\* The frame on top puts its command into the queue y.
LEMMA GoesOff ==
  ASSUME IndInv, OncePart, stack # <<>>, Top.op \in OwnerOps, Top.op # "destroy",
         NEW fs, Continue(fs), Aliens(fs), NEW y \in Queues, NEW e, Grows(y, e),
         \A c : e \in Marks(y, c) <=> c = Top.c, \A c \in OnceIds : cmd_st'[c] = cmd_st[c]
  PROVE  OncePart'
  <1>s. StackSeq
    BY StackFrames
  <1> SUFFICES ASSUME NEW c \in OnceIds PROVE OnceAt(c)'
    BY DEF OncePart
  <1>1. OnceAt(c) /\ Without(fs, c)
    BY DEF OncePart, Aliens
  <1>2. NoNew(Len(stack) - 1, c)
    BY <1>s, <1>1, ContinueNew
  <1>3. CASE c = Top.c
    <2>1. Owner(Top, c) /\ e \in Marks(y, c)
      BY <1>3 DEF Owner
    <2> QED
      BY <1>1, <1>2, <2>1, Goes
  <1>4. CASE c # Top.c
    <2>1. Foreign(Top, c) /\ \A x \in Queues : Still(x, c)
      BY <1>4, OwnedForeign, Grown
    <2> QED
      BY <1>s, <1>1, <1>2, <2>1, Stays
  <1> QED
    BY <1>3, <1>4

\* A frame that holds no command takes one off the queue y, for the call f.
LEMMA ComesUp ==
  ASSUME IndInv, OncePart, stack # <<>> => Alien(Top), NEW fs, NEW f, Carries(fs, f),
         (stack # <<>> /\ Continue(fs)) \/ Call(fs), NEW y \in Queues, Shrinks(y),
         \A c : Head(QueueAt(y)) \in Marks(y, c) <=> c = f.c,
         f.op = "destroy" \/ y[1] # "list" \/ \A d \in Heights : ~Leaves(Pile[d]),
         \A c \in OnceIds : cmd_st'[c] = cmd_st[c]
  PROVE  OncePart'
  <1>s. StackSeq
    BY StackFrames
  <1> SUFFICES ASSUME NEW c \in OnceIds PROVE OnceAt(c)'
    BY DEF OncePart
  <1>1. OnceAt(c)
    BY DEF OncePart
  <1>3. \A n : Len(stack) # n /\ (n = Len(stack) \/ (stack # <<>> /\ n = Len(stack) - 1)) => Foreign(Top, c)
    BY AlienForeign
  <1>4. CASE c = f.c
    <2>1. Only(fs, f, c) /\ Owner(f, c) /\ Head(QueueAt(y)) \in Marks(y, c)
      BY <1>4 DEF Carries, Owner
    <2>2. PICK n : OneNew(n, f, c) /\ (n = Len(stack) \/ (stack # <<>> /\ n = Len(stack) - 1))
      BY <1>s, <2>1, ContinueNew, CallNew
    <2>3. f.op = "destroy" \/ y[1] # "list" \/ \A d \in Heights : ~Leaver(Pile[d], c)
      BY DEF Leaver
    <2> QED
      BY <1>1, <1>3, <2>1, <2>2, <2>3, Comes
  <1>5. CASE c # f.c
    <2>1. Without(fs, c) /\ \A x \in Queues : Still(x, c)
      BY <1>5, Shrunk DEF Carries
    <2>2. PICK n : NoNew(n, c) /\ (n = Len(stack) \/ (stack # <<>> /\ n = Len(stack) - 1))
      BY <1>s, <2>1, ContinueNew, CallNew
    <2> QED
      BY <1>s, <1>1, <1>3, <2>1, <2>2, Stays
  <1> QED
    BY <1>4, <1>5

-----------------------------------------------------------------------------
(* The queues                                                              *)

LEMMA OneQueue ==
  ASSUME NEW y, \A x \in Queues : x # y => QueueAt(x)' = QueueAt(x)
  PROVE  Others(y)
  BY QueueSame DEF Others

LEMMA TimerQueue ==
  ASSUME UNCHANGED <<slot_pending_, reply_list_, replies>>
  PROVE  LET y == <<"timer", 0>> IN
         /\ y \in Queues /\ y[1] # "list" /\ QueueAt(y) = timer_pending
         /\ \A e : timer_pending' = Append(timer_pending, e) => Grows(y, e)
         /\ timer_pending # <<>> /\ timer_pending' = Tail(timer_pending) => Shrinks(y)
         /\ \A c : \A e \in [at : Nat, cmd : Created] : e \in Marks(y, c) <=> c = e.cmd
  <1>1. PICK y : y = <<"timer", 0>>
    OBVIOUS
  <1>2. y \in Queues /\ y[1] # "list" /\ QueueAt(y) = timer_pending /\ QueueAt(y)' = timer_pending'
    BY <1>1, QueueNames, QueueValues, QueueValuesNext
  <1>3. \A x \in Queues : x # y => QueueAt(x)' = QueueAt(x)
    BY <1>1, QueueNames, QueueValues, QueueValuesNext
  <1>4. Others(y)
    BY <1>3, OneQueue
  <1>5. \A c : Marks(y, c) = [at : Nat, cmd : {c}]
    BY <1>1, MarkValues
  <1>6. ASSUME NEW c, NEW e \in [at : Nat, cmd : Created] PROVE e \in Marks(y, c) <=> c = e.cmd
    <2>1. e = [at |-> e.at, cmd |-> e.cmd] /\ e.at \in Nat
      OBVIOUS
    <2>2. e \in [at : Nat, cmd : {c}] <=> c = e.cmd
      BY <2>1
    <2> QED
      BY <1>5, <2>2
  <1>7. /\ \A e : timer_pending' = Append(timer_pending, e) => Grows(y, e)
        /\ timer_pending # <<>> /\ timer_pending' = Tail(timer_pending) => Shrinks(y)
    BY <1>2, <1>4 DEF Grows, Shrinks
  <1> QED
    BY <1>1, <1>2, <1>6, <1>7

LEMMA PendingQueue ==
  ASSUME UNCHANGED <<timer_pending, reply_list_, replies>>
  PROVE  LET y == <<"pending", 0>> IN
         /\ y \in Queues /\ y[1] # "list" /\ QueueAt(y) = slot_pending_
         /\ \A e : slot_pending_' = Append(slot_pending_, e) => Grows(y, e)
         /\ slot_pending_ # <<>> /\ slot_pending_' = Tail(slot_pending_) => Shrinks(y)
         /\ \A c, e : e \in Marks(y, c) <=> c = e
  <1>1. PICK y : y = <<"pending", 0>>
    OBVIOUS
  <1>2. /\ y \in Queues /\ y[1] # "list" /\ QueueAt(y) = slot_pending_
        /\ QueueAt(y)' = slot_pending_'
    BY <1>1, QueueNames, QueueValues, QueueValuesNext
  <1>3. \A x \in Queues : x # y => QueueAt(x)' = QueueAt(x)
    BY <1>1, QueueNames, QueueValues, QueueValuesNext
  <1>4. Others(y)
    BY <1>3, OneQueue
  <1>5. \A c : Marks(y, c) = {c}
    BY <1>1, MarkValues
  <1> QED
    BY <1>1, <1>2, <1>4, <1>5 DEF Grows, Shrinks

\* The first command leaves a reply list;
LEMMA ListQueue ==
  ASSUME IndInv, NEW k \in ConnIds, reply_list_[k] # <<>>,
         reply_list_' = [reply_list_ EXCEPT ![k] = Tail(@)],
         UNCHANGED <<timer_pending, slot_pending_, replies>>
  PROVE  LET y == <<"list", k>> IN
         /\ y \in Queues /\ Shrinks(y) /\ QueueAt(y) = reply_list_[k]
         /\ \A c, e : e \in Marks(y, c) <=> c = e
  <1>1. PICK y : y = <<"list", k>>
    OBVIOUS
  <1>2. /\ y \in Queues /\ QueueAt(y) = reply_list_[k] /\ QueueAt(y)' = reply_list_'[k]
    BY <1>1, QueueNames, QueueValues, QueueValuesNext
  <1>3. reply_list_'[k] = Tail(reply_list_[k]) /\ \A j \in ConnIds : j # k => reply_list_'[j] = reply_list_[j]
    BY DEF IndInv, QueuePart
  <1>4. ASSUME NEW x \in Queues, x # y PROVE QueueAt(x)' = QueueAt(x)
    <2>1. CASE x = <<"timer", 0>> \/ x = <<"pending", 0>>
      BY <2>1, QueueValues, QueueValuesNext
    <2>2. ASSUME NEW j \in ConnIds, x = <<"list", j>> PROVE QueueAt(x)' = QueueAt(x)
      <3>1. j # k
        BY <1>1, <1>4, <2>2
      <3> QED
        BY <1>3, <2>2, <3>1, QueueValues, QueueValuesNext
    <2>3. ASSUME NEW j \in ConnIds, x = <<"asking", j>> PROVE QueueAt(x)' = QueueAt(x)
      BY <2>3, QueueValues, QueueValuesNext
    <2> QED
      BY <2>1, <2>2, <2>3, QueueNames
  <1>5. Others(y)
    BY <1>4, OneQueue
  <1>6. \A c : Marks(y, c) = {c}
    BY <1>1, MarkValues
  <1>7. Shrinks(y) /\ \A c, e : e \in Marks(y, c) <=> c = e
    BY <1>2, <1>3, <1>5, <1>6 DEF Shrinks
  <1> QED
    BY <1>1, <1>2, <1>7

\* a command is sent;
LEMMA SentQueue ==
  ASSUME IndInv, NEW k \in ConnIds, NEW e, redis_cmd(k, e), UNCHANGED <<timer_pending, slot_pending_>>
  PROVE  LET y == <<"list", k>> IN
         /\ y \in Queues /\ Grows(y, e)
         /\ \A c : e \in Marks(y, c) <=> c = e
  <1>1. PICK y : y = <<"list", k>>
    OBVIOUS
  <1>2. /\ y \in Queues /\ QueueAt(y) = reply_list_[k] /\ QueueAt(y)' = reply_list_'[k]
    BY <1>1, QueueNames, QueueValues, QueueValuesNext
  <1>3. /\ reply_list_'[k] = Append(reply_list_[k], e)
        /\ \A j \in ConnIds : j # k => reply_list_'[j] = reply_list_[j]
    BY DEF IndInv, QueuePart, redis_cmd
  <1>4. PICK g : g = [fn |-> "on_reply", c |-> e]
    OBVIOUS
  <1>5. /\ replies'[k] = Append(replies[k], g) /\ replies[k] \in Seq(Entries)
        /\ \A j \in ConnIds : j # k => replies'[j] = replies[j]
    BY <1>4 DEF IndInv, QueuePart, redis_cmd, redisAsyncFormattedCommand
  <1>6. PICK z : z = <<"asking", k>>
    OBVIOUS
  <1>7. z \in Queues /\ QueueAt(z) = replies[k] /\ QueueAt(z)' = replies'[k]
    BY <1>6, QueueNames, QueueValues, QueueValuesNext
  <1>8. \A c : g \notin Marks(z, c)
    <2>1. \A c : Marks(z, c) = {[fn |-> "on_reply_asking", c |-> c]}
      BY <1>6, MarkValues
    <2>2. \A c : g # [fn |-> "on_reply_asking", c |-> c]
      BY <1>4
    <2> QED
      BY <2>1, <2>2
  <1>9. \A c : Still(z, c)
    BY <1>5, <1>7, <1>8, QueueAppend
  <1>10. \A x \in Queues : x # y /\ x # z => QueueAt(x)' = QueueAt(x)
    <2> SUFFICES ASSUME NEW x \in Queues, x # y, x # z PROVE QueueAt(x)' = QueueAt(x)
      OBVIOUS
    <2>1. CASE x = <<"timer", 0>> \/ x = <<"pending", 0>>
      BY <2>1, QueueValues, QueueValuesNext
    <2>2. ASSUME NEW j \in ConnIds, x = <<"list", j>> PROVE QueueAt(x)' = QueueAt(x)
      <3>1. j # k
        BY <1>1, <2>2
      <3> QED
        BY <1>3, <2>2, <3>1, QueueValues, QueueValuesNext
    <2>3. ASSUME NEW j \in ConnIds, x = <<"asking", j>> PROVE QueueAt(x)' = QueueAt(x)
      <3>1. j # k
        BY <1>6, <2>3
      <3> QED
        BY <1>5, <2>3, <3>1, QueueValues, QueueValuesNext
    <2> QED
      BY <2>1, <2>2, <2>3, QueueNames
  <1>11. Others(y)
    BY <1>9, <1>10, QueueSame DEF Others
  <1>12. \A c : Marks(y, c) = {c}
    BY <1>1, MarkValues
  <1>13. Grows(y, e) /\ \A c : e \in Marks(y, c) <=> c = e
    BY <1>2, <1>3, <1>11, <1>12 DEF Grows
  <1> QED
    BY <1>1, <1>2, <1>13

\* ASKING is sent;
LEMMA AskedQueue ==
  ASSUME IndInv, NEW k \in ConnIds, NEW e, redisAsyncFormattedCommand(k, "on_reply_asking", e),
         UNCHANGED <<timer_pending, slot_pending_, reply_list_>>
  PROVE  LET y == <<"asking", k>>
             g == [fn |-> "on_reply_asking", c |-> e]
         IN
         /\ y \in Queues /\ Grows(y, g)
         /\ \A c : g \in Marks(y, c) <=> c = e
  <1>1. PICK y : y = <<"asking", k>>
    OBVIOUS
  <1>2. PICK g : g = [fn |-> "on_reply_asking", c |-> e]
    OBVIOUS
  <1>3. /\ y \in Queues /\ QueueAt(y) = replies[k] /\ QueueAt(y)' = replies'[k]
    BY <1>1, QueueNames, QueueValues, QueueValuesNext
  <1>4. /\ replies'[k] = Append(replies[k], g)
        /\ \A j \in ConnIds : j # k => replies'[j] = replies[j]
    BY <1>2 DEF IndInv, QueuePart, redisAsyncFormattedCommand
  <1>5. \A x \in Queues : x # y => QueueAt(x)' = QueueAt(x)
    BY <1>1, <1>4, QueueNames, QueueValues, QueueValuesNext
  <1>6. Others(y)
    BY <1>5, OneQueue
  <1>7. \A c : Marks(y, c) = {[fn |-> "on_reply_asking", c |-> c]}
    BY <1>1, MarkValues
  <1>8. \A c : g \in Marks(y, c) <=> c = e
    BY <1>2, <1>7
  <1> QED
    BY <1>1, <1>2, <1>3, <1>4, <1>6, <1>8 DEF Grows

\* hiredis takes its oldest callback.
LEMMA TakenQueue ==
  ASSUME IndInv, NEW k \in ConnIds, replies[k] # <<>>, replies' = [replies EXCEPT ![k] = Tail(@)],
         UNCHANGED <<timer_pending, slot_pending_, reply_list_>>
  PROVE  LET y == <<"asking", k>>
             e == Head(replies[k])
         IN
         /\ e \in Entries /\ y \in Queues /\ y[1] # "list" /\ QueueAt(y) = replies[k] /\ Shrinks(y)
         /\ e.fn = "on_reply" => SameEverywhere
         /\ e.fn = "on_reply_asking" => \A c : e \in Marks(y, c) <=> c = e.c
  <1>1. PICK y : y = <<"asking", k>>
    OBVIOUS
  <1>2. PICK e : e = Head(replies[k])
    OBVIOUS
  <1>3. /\ y \in Queues /\ y[1] # "list" /\ QueueAt(y) = replies[k] /\ QueueAt(y)' = replies'[k]
    BY <1>1, QueueNames, QueueValues, QueueValuesNext
  <1>4. /\ replies'[k] = Tail(replies[k]) /\ replies[k] \in Seq(Entries) /\ e \in Entries
        /\ \A j \in ConnIds : j # k => replies'[j] = replies[j]
    BY <1>2 DEF IndInv, QueuePart
  <1>5. \A x \in Queues : x # y => QueueAt(x)' = QueueAt(x)
    BY <1>1, <1>4, QueueNames, QueueValues, QueueValuesNext
  <1>6. Others(y)
    BY <1>5, OneQueue
  <1>7. \A c : Marks(y, c) = {[fn |-> "on_reply_asking", c |-> c]}
    BY <1>1, MarkValues
  <1>8. \A c : e \in Marks(y, c) <=> e.fn = "on_reply_asking" /\ c = e.c
    BY <1>4, <1>7 DEF Entries
  <1>9. e.fn = "on_reply" => \A c : Still(y, c)
    BY <1>2, <1>3, <1>4, <1>8, QueueTail
  <1>10. e.fn = "on_reply" => SameEverywhere
    BY <1>6, <1>9 DEF Others, SameEverywhere
  <1> QED
    BY <1>1, <1>2, <1>3, <1>4, <1>6, <1>8, <1>10 DEF Shrinks

-----------------------------------------------------------------------------
(* The calls that hold a command                                           *)

LEMMA OwnerFrame == \A op \in OwnerOps : \A c, k, a : F(op, c, k, a).op \in OwnerOps /\ F(op, c, k, a).c = c
  BY DEF F

LEMMA OwnerNames ==
  /\ {"exec", "exec_failed", "exec_conn", "destroy_cmd", "destroy"} \subseteq OwnerOps
  /\ {"on_reply_asking", "retry", "asking"} \subseteq OwnerOps
  BY DEF OwnerOps

LEMMA QueuesQuiet ==
  ASSUME UNCHANGED <<hiredisVars, connVars, clusterVars>>
  PROVE  SameEverywhere
  BY QueuesSame DEF hiredisVars, connVars, clusterVars, tableVars, timerVars

\* The command is called back, then destroyed.
LEMMA FailOnce ==
  ASSUME IndInv, OncePart, exec_ttl \/ exec_failed \/ destroy_cmd
  PROVE  OncePart'
  <1>1. PICK op \in {"destroy_cmd", "destroy"} : \E code :
          CallBack(Top.c, code, "null", <<F(op, Top.c, 0, "none")>>)
    BY DEF exec_ttl, exec_failed, destroy_cmd, Fail
  <1>2. stack # <<>> /\ Top.op \in OwnerOps /\ Top.op # "destroy"
    BY OwnerNames DEF exec_ttl, exec_failed, destroy_cmd, At, Running
  <1>3. PICK f : f = F(op, Top.c, 0, "none")
    OBVIOUS
  <1>4. f.op \in OwnerOps /\ f.c = Top.c
    BY <1>3, OwnerFrame, OwnerNames
  <1>5. PICK fs : fs = CallbackFrames(Top.c, "null") \o <<f>>
    OBVIOUS
  <1>6. Continue(fs) /\ Carries(fs, f)
    BY <1>1, <1>3, <1>4, <1>5, CarrySeqs DEF CallBack
  <1>7. SameEverywhere
    BY QueuesQuiet DEF exec_ttl, exec_failed, destroy_cmd
  <1>8. UNCHANGED cmd_st
    BY <1>1 DEF CallBack
  <1> QED
    BY <1>2, <1>4, <1>6, <1>7, <1>8, PassesOn

LEMMA ConnFailedOnce == ASSUME IndInv, OncePart, exec_conn_failed PROVE OncePart'
  <1>2. stack # <<>> /\ Top.op \in OwnerOps /\ Top.op # "destroy"
    BY OwnerNames DEF exec_conn_failed, At, Running
  <1>3. PICK f : f = F("destroy_cmd", Top.c, 0, "none")
    OBVIOUS
  <1>4. f.op \in OwnerOps /\ f.c = Top.c
    BY <1>3, OwnerFrame, OwnerNames
  <1>5. PICK fs : fs = CallbackFrames(Top.c, "null") \o <<f>>
    OBVIOUS
  <1>6. Continue(fs) /\ Carries(fs, f)
    BY <1>3, <1>4, <1>5, CarrySeqs DEF exec_conn_failed
  <1>7. SameEverywhere /\ UNCHANGED cmd_st
    BY QueuesQuiet DEF exec_conn_failed
  <1> QED
    BY <1>2, <1>4, <1>6, <1>7, PassesOn

LEMMA ConnClosingOnce == ASSUME IndInv, OncePart, exec_conn_closing PROVE OncePart'
  <1>2. stack # <<>> /\ Top.op \in OwnerOps /\ Top.op # "destroy"
    BY OwnerNames DEF exec_conn_closing, At, Running
  <1>3. PICK f : f = F("retry", Top.c, 0, "none")
    OBVIOUS
  <1>4. f.op \in OwnerOps /\ f.c = Top.c
    BY <1>3, OwnerFrame, OwnerNames
  <1>5. PICK g : g = F("release_connection", 0, Top.k, "keep")
    OBVIOUS
  <1>6. Alien(g)
    BY <1>5, AlienFrame, AlienNames
  <1>7. PICK gs : gs = IF ~in_callback[Top.k] THEN <<g>> ELSE <<>>
    OBVIOUS
  <1>8. Aliens(gs) /\ Without(gs, f.c)
    <2>1. Without(<<g>>, f.c) /\ Without(<<>>, f.c)
      BY <1>6, AlienForeign, Withouts
    <2> QED
      BY <1>6, <1>7, <2>1, AlienSeqs
  <1>9. PICK fs : fs = gs \o <<f>>
    OBVIOUS
  <1>10. Continue(fs)
    BY <1>3, <1>5, <1>7, <1>9 DEF exec_conn_closing
  <1>11. Carries(fs, f)
    BY <1>4, <1>8, <1>9, CarrySeqs
  <1>12. SameEverywhere /\ UNCHANGED cmd_st
    BY QueuesSame DEF exec_conn_closing, hiredisVars, connVars, timerVars, SpendTtl
  <1> QED
    BY <1>2, <1>4, <1>10, <1>11, <1>12, PassesOn

\* The command is sent,
LEMMA ExecConnOnce == ASSUME IndInv, OncePart, exec_conn PROVE OncePart'
  <1>1. stack # <<>> /\ Top.op \in OwnerOps /\ Top.op # "destroy" /\ Top.k \in ConnIds
    <2>1. At("exec_conn") /\ "exec_conn" \in ConnOps
      BY DEF exec_conn, ConnOps
    <2>2. stack # <<>> /\ Top.op = "exec_conn" /\ Top.k \in ConnIds
      BY <2>1, TopCmd DEF IndInv
    <2> QED
      BY <2>2, OwnerNames
  <1>2. redis_cmd(Top.k, Top.c) /\ UNCHANGED <<timer_pending, slot_pending_, cmd_st>>
    BY DEF exec_conn, clusterVars, tableVars, timerVars, SpendTtl
  <1>3. PICK y : y = <<"list", Top.k>>
    OBVIOUS
  <1>4. y \in Queues /\ Grows(y, Top.c) /\ \A c : Top.c \in Marks(y, c) <=> c = Top.c
    BY <1>1, <1>2, <1>3, SentQueue
  <1>5. Continue(<<>>)
    BY StackFrames DEF exec_conn, Return, Continue, StackSeq, Rest
  <1>6. PICK fs : fs = <<>>
    OBVIOUS
  <1>7. Continue(fs) /\ Aliens(fs)
    BY <1>5, <1>6, AlienSeqs
  <1> QED
    BY <1>1, <1>2, <1>4, <1>7, GoesOff

\* waits for the table,
LEMMA ExecPendingOnce == ASSUME IndInv, OncePart, exec_pending PROVE OncePart'
  <1>1. stack # <<>> /\ Top.op \in OwnerOps /\ Top.op # "destroy"
    BY OwnerNames DEF exec_pending, At, Running
  <1>2. /\ slot_pending_' = Append(slot_pending_, Top.c)
        /\ UNCHANGED <<timer_pending, reply_list_, replies, cmd_st>>
    BY DEF exec_pending, cmdVars, hiredisVars, connVars, timerVars
  <1>3. PICK y : y = <<"pending", 0>>
    OBVIOUS
  <1>4. y \in Queues /\ Grows(y, Top.c) /\ \A c : Top.c \in Marks(y, c) <=> c = Top.c
    BY <1>2, <1>3, PendingQueue
  <1>5. PICK f : f = F("reload_slots", 0, 0, "none")
    OBVIOUS
  <1>6. PICK fs : fs = <<f>>
    OBVIOUS
  <1>7. Alien(f)
    BY <1>5, AlienFrame, AlienNames
  <1>8. Continue(fs) /\ Aliens(fs)
    BY <1>5, <1>6, <1>7, AlienSeqs DEF exec_pending
  <1> QED
    BY <1>1, <1>2, <1>4, <1>8, GoesOff

\* or is tried again, now or later.
LEMMA RetryOnce == ASSUME IndInv, OncePart, retry PROVE OncePart'
  <1>1. stack # <<>> /\ Top.op \in OwnerOps /\ Top.op # "destroy" /\ Top.c \in Created
    <2>1. At("retry") /\ "retry" \in CmdOps
      BY DEF retry, CmdOps
    <2>2. stack # <<>> /\ Top.op = "retry" /\ Top.c \in Created
      BY <2>1, TopCmd DEF IndInv
    <2> QED
      BY <2>2, OwnerNames
  <1>2. UNCHANGED <<slot_pending_, reply_list_, replies, cmd_st>>
    BY DEF retry, cmdVars, hiredisVars, connVars, tableVars
  <1>3. CASE timer_pending' = timer_pending
    <2>1. PICK op \in {"exec", "exec_conn"} : \E k, a : Continue(<<F(op, Top.c, k, a)>>)
      <3>1. ~(timer_pending' = Delayed(Top.c))
        <4>1. timer_pending \in Seq([at : Nat, cmd : Created])
          BY DEF IndInv, QueuePart
        <4> QED
          BY <1>3, <4>1 DEF Delayed
      <3> QED
        BY <3>1 DEF retry
    <2>2. PICK k, a : Continue(<<F(op, Top.c, k, a)>>)
      BY <2>1
    <2>3. PICK f : f = F(op, Top.c, k, a)
      OBVIOUS
    <2>4. f.op \in OwnerOps /\ f.c = Top.c
      BY <2>3, OwnerFrame, OwnerNames
    <2>5. PICK fs : fs = <<f>>
      OBVIOUS
    <2>6. Continue(fs) /\ Carries(fs, f)
      BY <2>2, <2>3, <2>4, <2>5, CarrySeqs
    <2>7. SameEverywhere
      BY <1>2, <1>3, QueuesSame
    <2> QED
      BY <1>1, <1>2, <2>4, <2>6, <2>7, PassesOn
  <1>4. CASE timer_pending' # timer_pending
    <2>1. timer_pending' = Delayed(Top.c) /\ Return
      BY <1>4 DEF retry
    <2>2. PICK e : e = [at |-> last_update + Interval, cmd |-> Top.c]
      OBVIOUS
    <2>3. e \in [at : Nat, cmd : Created] /\ e.cmd = Top.c /\ timer_pending' = Append(timer_pending, e)
      BY <1>1, <2>1, <2>2, ClusterAssumption DEF Delayed, ClusterAssumption, IndInv, TimePart
    <2>4. PICK y : y = <<"timer", 0>>
      OBVIOUS
    <2>5. y \in Queues /\ Grows(y, e) /\ \A c : e \in Marks(y, c) <=> c = Top.c
      BY <1>2, <2>3, <2>4, TimerQueue
    <2>6. Continue(<<>>)
      BY <2>1, StackFrames DEF Return, Continue, StackSeq, Rest
    <2>7. PICK fs : fs = <<>>
      OBVIOUS
    <2>8. Continue(fs) /\ Aliens(fs)
      BY <2>6, <2>7, AlienSeqs
    <2> QED
      BY <1>1, <1>2, <2>5, <2>8, GoesOff
  <1> QED
    BY <1>3, <1>4

LEMMA AskingOnce == ASSUME IndInv, OncePart, asking PROVE OncePart'
  <1>1. stack # <<>> /\ Top.op \in OwnerOps /\ Top.op # "destroy" /\ Top.k \in ConnIds
    <2>1. At("asking") /\ "asking" \in ConnOps
      BY DEF asking, ConnOps
    <2>2. stack # <<>> /\ Top.op = "asking" /\ Top.k \in ConnIds
      BY <2>1, TopCmd DEF IndInv
    <2> QED
      BY <2>2, OwnerNames
  <1>2. UNCHANGED <<timer_pending, slot_pending_, reply_list_, cmd_st>>
    BY DEF asking, cmdVars, connVars, clusterVars, tableVars, timerVars
  <1>3. CASE Accepts(Top.k)
    <2>1. redisAsyncFormattedCommand(Top.k, "on_reply_asking", Top.c) /\ Return
      BY <1>3 DEF asking
    <2>2. PICK e : e = [fn |-> "on_reply_asking", c |-> Top.c]
      OBVIOUS
    <2>3. PICK y : y = <<"asking", Top.k>>
      OBVIOUS
    <2>4. y \in Queues /\ Grows(y, e) /\ \A c : e \in Marks(y, c) <=> c = Top.c
      BY <1>1, <1>2, <2>1, <2>2, <2>3, AskedQueue
    <2>5. Continue(<<>>)
      BY <2>1, StackFrames DEF Return, Continue, StackSeq, Rest
    <2>6. PICK fs : fs = <<>>
      OBVIOUS
    <2>7. Continue(fs) /\ Aliens(fs)
      BY <2>5, <2>6, AlienSeqs
    <2> QED
      BY <1>1, <1>2, <2>4, <2>7, GoesOff
  <1>4. CASE ~Accepts(Top.k)
    <2>1. PICK f : f = F("retry", Top.c, 0, "none")
      OBVIOUS
    <2>2. f.op \in OwnerOps /\ f.c = Top.c
      BY <2>1, OwnerFrame, OwnerNames
    <2>3. PICK fs : fs = <<f>>
      OBVIOUS
    <2>4. Continue(fs) /\ Carries(fs, f)
      BY <1>4, <2>1, <2>2, <2>3, CarrySeqs DEF asking
    <2>5. SameEverywhere
      BY <1>2, <1>4, QueuesSame DEF asking, hiredisVars
    <2> QED
      BY <1>1, <1>2, <2>2, <2>4, <2>5, PassesOn
  <1> QED
    BY <1>3, <1>4

LEMMA OnReplyAskingOnce == ASSUME IndInv, OncePart, on_reply_asking PROVE OncePart'
  <1>1. stack # <<>> /\ Top.op \in OwnerOps /\ Top.op # "destroy"
    BY OwnerNames DEF on_reply_asking, At, Running
  <1>2. SameEverywhere
    BY QueuesQuiet DEF on_reply_asking
  <1>3. UNCHANGED cmd_st
    BY DEF on_reply_asking, Fail, CallBack, cmdVars
  <1>4. PICK op \in {"retry", "destroy_cmd"} : \E k, a :
          \/ Continue(<<F(op, Top.c, k, a)>>)
          \/ Continue(CallbackFrames(Top.c, Top.a) \o <<F(op, Top.c, k, a)>>)
    BY DEF on_reply_asking, Fail, CallBack
  <1>5. PICK k, a :
          \/ Continue(<<F(op, Top.c, k, a)>>)
          \/ Continue(CallbackFrames(Top.c, Top.a) \o <<F(op, Top.c, k, a)>>)
    BY <1>4
  <1>6. PICK f : f = F(op, Top.c, k, a)
    OBVIOUS
  <1>7. f.op \in OwnerOps /\ f.c = Top.c
    BY <1>6, OwnerFrame, OwnerNames
  <1>8. PICK fs : (fs = <<f>> \/ fs = CallbackFrames(Top.c, Top.a) \o <<f>>) /\ Continue(fs)
    BY <1>5, <1>6
  <1>9. Carries(fs, f)
    BY <1>7, <1>8, CarrySeqs
  <1> QED
    BY <1>1, <1>2, <1>3, <1>7, <1>8, <1>9, PassesOn

LEMMA DestroyOnce == ASSUME IndInv, OncePart, Destroy PROVE OncePart'
  <1>s. StackSeq
    BY StackFrames
  <1>1. stack # <<>> /\ Return
    BY DEF Destroy, destroy, At, Running
  <1>2. cmd_st' = [cmd_st EXCEPT ![Top.c] = "freed"] /\ cmd_st \in [CmdIds -> ObjectStates]
    BY DEF Destroy, destroy, IndInv, CmdPart
  <1>3. SameEverywhere
    BY QueuesQuiet DEF Destroy
  <1> SUFFICES ASSUME NEW c \in OnceIds PROVE OnceAt(c)'
    BY DEF OncePart
  <1>4. c \in CmdIds /\ OnceAt(c) /\ \A x \in Queues : Still(x, c)
    BY <1>3 DEF OnceIds, OncePart, SameEverywhere
  <1>5. CASE c = Top.c
    BY <1>2, <1>4, <1>5 DEF OnceAt
  <1>6. CASE c # Top.c
    <2>1. cmd_st'[c] = cmd_st[c] /\ Foreign(Top, c)
      BY <1>2, <1>4, <1>6, OwnedForeign
    <2>2. NoNew(Len(stack) - 1, c)
      BY <1>1, <1>s, ReturnNew
    <2> QED
      BY <1>s, <1>4, <2>1, <2>2, Stays
  <1> QED
    BY <1>5, <1>6

-----------------------------------------------------------------------------
(* The calls that take a command off a queue                               *)

LEMMA TopAlien ==
  ASSUME NEW op \in AlienOps, At(op)
  PROVE  stack # <<>> /\ Alien(Top)
  BY DEF At, Running, Alien, AlienOps, Leaves

\* The frame on top takes no command.
LEMMA NoneTaken ==
  ASSUME IndInv, OncePart, stack # <<>>, Alien(Top), SameEverywhere, UNCHANGED cmd_st,
         Return \/ \E f : Alien(f) /\ Continue(<<f>>)
  PROVE  OncePart'
  <1>1. \A f : Alien(f) => Aliens(<<f>>)
    BY AlienSeqs
  <1>2. PICK fs : Aliens(fs) /\ (Return \/ Continue(fs))
    BY <1>1, AlienSeqs
  <1> QED
    BY <1>2, StaysOn

LEMMA RunPendingOnce == ASSUME IndInv, OncePart, run_pending PROVE OncePart'
  <1>1. stack # <<>> /\ Alien(Top)
    BY TopAlien, AlienNames DEF run_pending
  <1>2. UNCHANGED <<timer_pending, reply_list_, replies, cmd_st>>
    BY DEF run_pending, cmdVars, hiredisVars, connVars, timerVars
  <1>3. CASE slot_pending_ = <<>>
    <2>1. Return /\ UNCHANGED slot_pending_
      BY <1>3 DEF run_pending
    <2> QED
      BY <1>1, <1>2, <2>1, QueuesSame, NoneTaken
  <1>4. CASE slot_pending_ # <<>>
    <2>1. PICK f : f = F("retry", Head(slot_pending_), 0, "none")
      OBVIOUS
    <2>2. f.op \in OwnerOps /\ f.c = Head(slot_pending_)
      BY <2>1, OwnerFrame, OwnerNames
    <2>3. PICK fs : fs = <<f, Top>>
      OBVIOUS
    <2>4. Carries(fs, f) /\ Continue(fs)
      BY <1>1, <1>4, <2>1, <2>2, <2>3, CarrySeqs DEF run_pending
    <2>5. PICK y : y = <<"pending", 0>>
      OBVIOUS
    <2>6. slot_pending_' = Tail(slot_pending_)
      BY <1>4 DEF run_pending
    <2>7. /\ y \in Queues /\ y[1] # "list" /\ Shrinks(y)
          /\ \A c : Head(QueueAt(y)) \in Marks(y, c) <=> c = f.c
      BY <1>2, <1>4, <2>2, <2>5, <2>6, PendingQueue
    <2> QED
      BY <1>1, <1>2, <2>4, <2>7, ComesUp
  <1> QED
    BY <1>3, <1>4

LEMMA ResetSlotsOnce == ASSUME IndInv, OncePart, reset_slots PROVE OncePart'
  <1>1. stack # <<>> /\ Alien(Top)
    BY TopAlien, AlienNames DEF reset_slots
  <1>2. UNCHANGED <<timer_pending, reply_list_, replies, cmd_st>>
    BY DEF reset_slots, cmdVars, hiredisVars, connVars, timerVars, CallBack
  <1>3. CASE slot_pending_ = <<>>
    <2>1. Continue(<<F("reset", 0, 0, "none")>>) /\ UNCHANGED slot_pending_
      BY <1>3 DEF reset_slots
    <2>2. Alien(F("reset", 0, 0, "none"))
      BY AlienFrame, AlienNames
    <2> QED
      BY <1>1, <1>2, <2>1, <2>2, QueuesSame, NoneTaken
  <1>4. CASE slot_pending_ # <<>>
    <2>1. PICK f : f = F("destroy_cmd", Head(slot_pending_), 0, "none")
      OBVIOUS
    <2>2. f.op \in OwnerOps /\ f.c = Head(slot_pending_)
      BY <2>1, OwnerFrame, OwnerNames
    <2>3. PICK fs : fs = CallbackFrames(Head(slot_pending_), "null") \o <<f, Top>>
      OBVIOUS
    <2>4. Carries(fs, f) /\ Continue(fs)
      BY <1>1, <1>4, <2>1, <2>2, <2>3, CarrySeqs DEF reset_slots, CallBack
    <2>5. PICK y : y = <<"pending", 0>>
      OBVIOUS
    <2>6. slot_pending_' = Tail(slot_pending_)
      BY <1>4 DEF reset_slots
    <2>7. /\ y \in Queues /\ y[1] # "list" /\ Shrinks(y)
          /\ \A c : Head(QueueAt(y)) \in Marks(y, c) <=> c = f.c
      BY <1>2, <1>4, <2>2, <2>5, <2>6, PendingQueue
    <2> QED
      BY <1>1, <1>2, <2>4, <2>7, ComesUp
  <1> QED
    BY <1>3, <1>4

\* The head of the retry queue.
LEMMA TimerTaken ==
  ASSUME IndInv, timer_pending # <<>>, timer_pending' = Tail(timer_pending),
         UNCHANGED <<slot_pending_, reply_list_, replies>>
  PROVE  LET y == <<"timer", 0>> IN
         /\ y \in Queues /\ y[1] # "list" /\ Shrinks(y)
         /\ \A c : Head(QueueAt(y)) \in Marks(y, c) <=> c = Head(timer_pending).cmd
  <1>1. PICK e : e = Head(timer_pending)
    OBVIOUS
  <1>2. e \in [at : Nat, cmd : Created]
    BY <1>1, TailType DEF IndInv, QueuePart
  <1> QED
    BY <1>1, <1>2, TimerQueue

LEMMA ResetOnce == ASSUME IndInv, OncePart, reset PROVE OncePart'
  <1>1. stack # <<>> /\ Alien(Top)
    BY TopAlien, AlienNames DEF reset
  <1>2. UNCHANGED <<slot_pending_, reply_list_, replies, cmd_st>>
    BY DEF reset, cmdVars, hiredisVars, connVars, CallBack
  <1>3. CASE timer_pending = <<>>
    <2>1. Return /\ UNCHANGED timer_pending
      BY <1>3 DEF reset
    <2> QED
      BY <1>1, <1>2, <2>1, QueuesSame, NoneTaken
  <1>4. CASE timer_pending # <<>>
    <2>0. PICK d : d = Head(timer_pending).cmd
      OBVIOUS
    <2>1. PICK f : f = F("destroy_cmd", d, 0, "none")
      OBVIOUS
    <2>2. f.op \in OwnerOps /\ f.c = d
      BY <2>1, OwnerFrame, OwnerNames
    <2>3. PICK fs : fs = CallbackFrames(d, "null") \o <<f, Top>>
      OBVIOUS
    <2>4. Carries(fs, f) /\ Continue(fs)
      BY <1>1, <1>4, <2>0, <2>1, <2>2, <2>3, CarrySeqs DEF reset, CallBack
    <2>5. PICK y : y = <<"timer", 0>>
      OBVIOUS
    <2>6. timer_pending' = Tail(timer_pending)
      BY <1>4 DEF reset
    <2>7. /\ y \in Queues /\ y[1] # "list" /\ Shrinks(y)
          /\ \A c : Head(QueueAt(y)) \in Marks(y, c) <=> c = f.c
      BY <1>2, <1>4, <2>0, <2>2, <2>5, <2>6, TimerTaken
    <2> QED
      BY <1>1, <1>2, <2>4, <2>7, ComesUp
  <1> QED
    BY <1>3, <1>4

LEMMA ProcOnce == ASSUME IndInv, OncePart, proc PROVE OncePart'
  <1>1. stack # <<>> /\ Alien(Top)
    BY TopAlien, AlienNames DEF proc
  <1>2. UNCHANGED <<slot_pending_, reply_list_, replies, cmd_st>>
    BY DEF proc, cmdVars, hiredisVars, connVars, tableVars
  <1>3. CASE ~(timer_pending # <<>> /\ Head(timer_pending).at <= now)
    <2>1. Continue(<<F("proc_conn", 0, 0, "none")>>) /\ UNCHANGED timer_pending
      BY <1>3 DEF proc
    <2>2. Alien(F("proc_conn", 0, 0, "none"))
      BY AlienFrame, AlienNames
    <2> QED
      BY <1>1, <1>2, <2>1, <2>2, QueuesSame, NoneTaken
  <1>4. CASE timer_pending # <<>> /\ Head(timer_pending).at <= now
    <2>0. PICK d : d = Head(timer_pending).cmd
      OBVIOUS
    <2>1. PICK f : f = F("exec", d, 0, "none")
      OBVIOUS
    <2>2. f.op \in OwnerOps /\ f.c = d
      BY <2>1, OwnerFrame, OwnerNames
    <2>3. PICK fs : fs = <<f, Top>>
      OBVIOUS
    <2>4. Carries(fs, f) /\ Continue(fs)
      BY <1>1, <1>4, <2>0, <2>1, <2>2, <2>3, CarrySeqs DEF proc
    <2>5. PICK y : y = <<"timer", 0>>
      OBVIOUS
    <2>6. timer_pending' = Tail(timer_pending)
      BY <1>4 DEF proc
    <2>7. /\ y \in Queues /\ y[1] # "list" /\ Shrinks(y)
          /\ \A c : Head(QueueAt(y)) \in Marks(y, c) <=> c = f.c
      BY <1>2, <1>4, <2>0, <2>2, <2>5, <2>6, TimerTaken
    <2> QED
      BY <1>1, <1>2, <2>4, <2>7, ComesUp
  <1> QED
    BY <1>3, <1>4

LEMMA ConnectionReleaseOnce == ASSUME IndInv, OncePart, ConnectionRelease PROVE OncePart'
  <1>0. PICK k : k = Top.k
    OBVIOUS
  <1>1. stack # <<>> /\ Alien(Top) /\ k \in ConnIds
    <2>1. At("connection_release") /\ "connection_release" \in ConnOps
      BY DEF ConnectionRelease, connection_release, ConnOps
    <2>2. stack # <<>> /\ k \in ConnIds
      BY <1>0, <2>1, TopCmd DEF IndInv
    <2> QED
      BY <2>1, <2>2, TopAlien, AlienNames
  <1>2. UNCHANGED <<timer_pending, slot_pending_, replies, cmd_st>>
    BY DEF ConnectionRelease, connection_release, cmdVars, hiredisVars, clusterVars, tableVars,
       timerVars, CallBack
  <1>3. CASE reply_list_[k] = <<>>
    <2>1. Return /\ UNCHANGED reply_list_
      BY <1>0, <1>3 DEF ConnectionRelease, connection_release
    <2> QED
      BY <1>1, <1>2, <2>1, QueuesSame, NoneTaken
  <1>4. CASE reply_list_[k] # <<>>
    <2>0. PICK d : d = Head(reply_list_[k])
      OBVIOUS
    <2>1. PICK f : f = F("destroy", d, 0, "none")
      OBVIOUS
    <2>2. f.op \in OwnerOps /\ f.c = d /\ f.op = "destroy"
      BY <2>1, OwnerFrame, OwnerNames DEF F
    <2>3. PICK fs : fs = CallbackFrames(d, "null") \o <<f, Top>>
      OBVIOUS
    <2>4. Carries(fs, f) /\ Continue(fs)
      BY <1>0, <1>1, <1>4, <2>0, <2>1, <2>2, <2>3, CarrySeqs
      DEF ConnectionRelease, connection_release, CallBack
    <2>5. PICK y : y = <<"list", k>>
      OBVIOUS
    <2>6. reply_list_' = [reply_list_ EXCEPT ![k] = Tail(@)]
      BY <1>0, <1>4 DEF ConnectionRelease, connection_release
    <2>7. /\ y \in Queues /\ Shrinks(y)
          /\ \A c : Head(QueueAt(y)) \in Marks(y, c) <=> c = f.c
      BY <1>1, <1>2, <1>4, <2>0, <2>2, <2>5, <2>6, ListQueue
    <2> QED
      BY <1>1, <1>2, <2>2, <2>4, <2>7, ComesUp
  <1> QED
    BY <1>3, <1>4

\* hiredis calls its oldest callback, of a command or of an ASKING.
LEMMA CallbackOnce ==
  ASSUME IndInv, OncePart, stack # <<>> => Alien(Top), NEW k \in ConnIds, replies[k] # <<>>,
         replies' = [replies EXCEPT ![k] = Tail(@)],
         UNCHANGED <<timer_pending, slot_pending_, reply_list_, cmd_st>>, NEW r, NEW g, Alien(g),
         (stack # <<>> /\ Continue(<<ReplyFrame(k, r), g>>)) \/ Call(<<ReplyFrame(k, r), g>>)
  PROVE  OncePart'
  <1>1. PICK e : e = Head(replies[k])
    OBVIOUS
  <1>2. PICK y : y = <<"asking", k>>
    OBVIOUS
  <1>3. /\ e \in Entries /\ y \in Queues /\ y[1] # "list" /\ QueueAt(y) = replies[k] /\ Shrinks(y)
        /\ e.fn = "on_reply" => SameEverywhere
        /\ e.fn = "on_reply_asking" => \A c : e \in Marks(y, c) <=> c = e.c
    BY <1>1, <1>2, TakenQueue
  <1>4. PICK f : f = ReplyFrame(k, r)
    OBVIOUS
  <1>5. PICK fs : fs = <<f, g>>
    OBVIOUS
  <1>6. (stack # <<>> /\ Continue(fs)) \/ Call(fs)
    BY <1>4, <1>5
  <1>7. CASE e.fn = "on_reply"
    <2>1. f = F("on_reply", e.c, k, r)
      BY <1>1, <1>4, <1>7 DEF ReplyFrame
    <2>2. Alien(f)
      BY <2>1, AlienFrame, AlienNames
    <2>3. Aliens(fs)
      BY <1>5, <2>2, AlienSeqs
    <2> QED
      BY <1>3, <1>6, <1>7, <2>3, StaysOn, StaysIn
  <1>8. CASE e.fn = "on_reply_asking"
    <2>1. f = F("on_reply_asking", e.c, k, r)
      BY <1>1, <1>4, <1>8 DEF ReplyFrame
    <2>2. f.op \in OwnerOps /\ f.c = e.c
      BY <2>1, OwnerFrame, OwnerNames
    <2>3. Carries(fs, f)
      BY <1>5, <2>2, CarrySeqs
    <2>4. \A c : Head(QueueAt(y)) \in Marks(y, c) <=> c = f.c
      BY <1>1, <1>3, <1>8, <2>2
    <2> QED
      BY <1>3, <1>6, <2>3, <2>4, ComesUp
  <1> QED
    BY <1>3, <1>7, <1>8 DEF Entries

LEMMA ReplyOnce ==
  ASSUME IndInv, OncePart, NEW k \in ConnIds, NEW r, ByHiredis(ReplyArrives(k, r))
  PROVE  OncePart'
  <1>1. PICK g : g = F("h_reply_end", 0, k, "none")
    OBVIOUS
  <1>2. Alien(g)
    BY <1>1, AlienFrame, AlienNames
  <1>3. /\ stack = <<>> /\ replies[k] # <<>> /\ replies' = [replies EXCEPT ![k] = Tail(@)]
        /\ Call(<<ReplyFrame(k, r), g>>)
        /\ UNCHANGED <<timer_pending, slot_pending_, reply_list_, cmd_st>>
    BY <1>1 DEF ByHiredis, ReplyArrives, InLoop, cmdVars, connVars, clusterVars, tableVars, timerVars
  <1> QED
    BY <1>2, <1>3, CallbackOnce

LEMMA FreeContextOnce == ASSUME IndInv, OncePart, ByHiredis(FreeContext) PROVE OncePart'
  <1>0. PICK k : k = Top.k
    OBVIOUS
  <1>1. stack # <<>> /\ Alien(Top) /\ k \in ConnIds
    <2>1. At("h_free") /\ "h_free" \in ConnOps
      BY DEF ByHiredis, FreeContext, ConnOps
    <2>2. stack # <<>> /\ k \in ConnIds
      BY <1>0, <2>1, TopCmd DEF IndInv
    <2> QED
      BY <2>1, <2>2, TopAlien, AlienNames
  <1>2. UNCHANGED <<timer_pending, slot_pending_, reply_list_, cmd_st>>
    BY DEF ByHiredis, cmdVars, connVars, clusterVars, tableVars, timerVars
  <1>3. CASE replies[k] # <<>>
    <2>1. replies' = [replies EXCEPT ![k] = Tail(@)] /\ Continue(<<ReplyFrame(k, "null"), Top>>)
      BY <1>0, <1>3 DEF ByHiredis, FreeContext
    <2>2. PICK r : r = "null"
      OBVIOUS
    <2>3. Continue(<<ReplyFrame(k, r), Top>>)
      BY <2>1, <2>2
    <2> QED
      BY <1>1, <1>2, <1>3, <2>1, <2>3, CallbackOnce
  <1>4. CASE replies[k] = <<>>
    <2>1. PICK f : f = F("on_disconnected", 0, k, ctx_err[k])
      OBVIOUS
    <2>2. PICK g : g = F("h_free_end", 0, k, "none")
      OBVIOUS
    <2>3. Alien(f) /\ Alien(g)
      BY <2>1, <2>2, AlienFrame, AlienNames
    <2>4. PICK fs : (fs = <<f>> \/ fs = <<>>) /\ Continue(fs \o <<g>>)
      BY <1>0, <1>4, <2>1, <2>2 DEF ByHiredis, FreeContext
    <2>5. Aliens(fs) /\ Aliens(<<g>>)
      BY <2>3, <2>4, AlienSeqs
    <2>6. Aliens(fs \o <<g>>)
      BY <2>5, AlienSeqs
    <2>7. UNCHANGED replies
      BY <1>0, <1>4 DEF ByHiredis, FreeContext
    <2> QED
      BY <1>1, <1>2, <2>4, <2>6, <2>7, QueuesSame, StaysOn
  <1> QED
    BY <1>3, <1>4

-----------------------------------------------------------------------------
(* The other steps                                                         *)

\* The frame on top holds no command, and goes on with one or two such frames.
LEMMA MovesOn ==
  ASSUME IndInv, OncePart, NEW op \in AlienOps, At(op),
         UNCHANGED <<timer_pending, slot_pending_, reply_list_, replies, cmd_st>>,
         NEW fs, Aliens(fs), Return \/ Continue(fs)
  PROVE  OncePart'
  BY TopAlien, QueuesSame, StaysOn

LEMMA EnterOnce ==
  ASSUME IndInv, OncePart,
         UNCHANGED <<timer_pending, slot_pending_, reply_list_, replies, cmd_st>>,
         NEW fs, Aliens(fs), Call(fs)
  PROVE  OncePart'
  BY QueuesSame, StaysIn

LEMMA AlienOne == \A op \in AlienOps : \A c, k, a : Aliens(<<F(op, c, k, a)>>)
  BY AlienFrame, AlienSeqs

LEMMA AlienTwo ==
  \A op1, op2 \in AlienOps :
    \A c, k, a, d, l, b : Aliens(<<F(op1, c, k, a), F(op2, d, l, b)>>)
  BY AlienFrame, AlienSeqs

\* What the application and the event loop call.
LEMMA UserOnce ==
  ASSUME IndInv, OncePart, NEW s, NEW t,
         UserStart \/ UserReset \/ UserRelease(s) \/ UserProc(t) \/ UserReturn
  PROVE  OncePart'
  <1>1. UNCHANGED <<timer_pending, slot_pending_, reply_list_, replies, cmd_st>>
    BY DEF UserStart, UserReset, UserRelease, UserProc, UserReturn, cmdVars, hiredisVars, connVars,
       clusterVars, tableVars, timerVars
  <1>2. CASE UserReturn
    BY <1>1, <1>2, MovesOn, AlienNames, AlienSeqs DEF UserReturn
  <1>3. CASE ~UserReturn
    <2>1. PICK op \in {"reload_slots", "reset_begin", "release_connection", "proc"} :
            \E c, k, a : Call(<<F(op, c, k, a)>>)
      BY <1>3 DEF UserStart, UserReset, UserRelease, UserProc
    <2>2. op \in AlienOps
      BY AlienNames
    <2>3. PICK fs : Aliens(fs) /\ Call(fs)
      BY <2>1, <2>2, AlienOne
    <2> QED
      BY <1>1, <2>3, EnterOnce
  <1> QED
    BY <1>2, <1>3

\* Hiredis ends a callback or a context, or reports an event.
LEMMA HiredisOnce ==
  ASSUME IndInv, OncePart,
         \/ ByHiredis(redisAsyncDisconnect) \/ ByHiredis(ConnectEnd)
         \/ ByHiredis(ConnectFailedEnd) \/ ByHiredis(ReplyEnd) \/ ByHiredis(FreeContextEnd)
  PROVE  OncePart'
  <1>1. UNCHANGED <<timer_pending, slot_pending_, reply_list_, replies, cmd_st>>
    BY DEF ByHiredis, redisAsyncDisconnect, ConnectEnd, ConnectFailedEnd, ReplyEnd, FreeContextEnd,
       cmdVars, connVars, clusterVars, tableVars, timerVars
  <1>2. PICK op \in {"redisAsyncDisconnect", "h_connect_end", "h_connect_failed", "h_reply_end",
                     "h_free_end"} : At(op)
    BY DEF ByHiredis, redisAsyncDisconnect, ConnectEnd, ConnectFailedEnd, ReplyEnd, FreeContextEnd
  <1>3. op \in AlienOps
    BY AlienNames
  <1>4. PICK f : f = F("h_free", 0, Top.k, "none")
    OBVIOUS
  <1>5. PICK fs : (fs = <<>> \/ fs = <<f>>) /\ (Return \/ Continue(fs))
    BY <1>4 DEF ByHiredis, redisAsyncDisconnect, ConnectEnd, ConnectFailedEnd, ReplyEnd,
       FreeContextEnd
  <1>6. Aliens(fs)
    BY <1>4, <1>5, AlienOne, AlienNames, AlienSeqs
  <1> QED
    BY <1>1, <1>2, <1>3, <1>5, <1>6, MovesOn

LEMMA EventOnce ==
  ASSUME IndInv, OncePart, NEW k, NEW e,
         \/ ByHiredis(ConnectDone(k)) \/ ByHiredis(ConnectFailed(k))
         \/ ByHiredis(ConnectionLost(k, e))
  PROVE  OncePart'
  <1>1. UNCHANGED <<timer_pending, slot_pending_, reply_list_, replies, cmd_st>>
    BY DEF ByHiredis, ConnectDone, ConnectFailed, ConnectionLost, cmdVars, connVars, clusterVars,
       tableVars, timerVars
  <1>2. PICK fs : /\ Call(fs)
                  /\ \/ fs = <<F("h_free", 0, k, "none")>>
                     \/ fs = <<F("on_connected", 0, k, "OK"), F("h_connect_end", 0, k, "none")>>
                     \/ fs = <<F("on_connected", 0, k, "IO"), F("h_connect_failed", 0, k, "none")>>
    BY DEF ByHiredis, ConnectDone, ConnectFailed, ConnectionLost
  <1>3. Aliens(fs)
    BY <1>2, AlienOne, AlienTwo, AlienNames
  <1> QED
    BY <1>1, <1>2, <1>3, EnterOnce

LEMMA NetworkOnce == ASSUME IndInv, OncePart, NetworkStep PROVE OncePart'
  BY EventOnce, ReplyOnce DEF NetworkStep, Reply

\* Loading the table.
LEMMA LoadEndOnce ==
  ASSUME IndInv, OncePart, reload_end \/ on_reply_update_slot
  PROVE  OncePart'
  <1>1. UNCHANGED <<timer_pending, slot_pending_, reply_list_, replies, cmd_st>>
    BY DEF reload_end, on_reply_update_slot, cmdVars, hiredisVars, connVars, timerVars
  <1>2. PICK op \in {"reload_end", "on_reply_update_slot"} : At(op)
    BY DEF reload_end, on_reply_update_slot
  <1>3. PICK fs : fs = <<F("run_pending", 0, 0, "none")>>
    OBVIOUS
  <1>4. Aliens(fs) /\ op \in AlienOps
    BY <1>3, AlienOne, AlienNames
  <1>5. Return \/ Continue(fs)
    BY <1>3 DEF reload_end, on_reply_update_slot
  <1> QED
    BY <1>1, <1>2, <1>4, <1>5, MovesOn

\* CLUSTER SLOTS commands are others than the ones that are counted here.
LEMMA LoadFrame ==
  ASSUME NEW f, LoadCmd(f.c)
  PROVE  Aliens(<<f>>)
  <1>1. \A c \in OnceIds : f.c # c
    BY DEF OnceIds
  <1> QED
    BY <1>1, OwnedForeign, Withouts DEF Aliens

LEMMA ReloadExecOnce == ASSUME IndInv, OncePart, reload_exec PROVE OncePart'
  <1>0. PICK c : c = Min(FreeLoads)
    OBVIOUS
  <1>1. stack # <<>> /\ Alien(Top)
    BY TopAlien, AlienNames DEF reload_exec
  <1>2. SameEverywhere
    BY QueuesSame DEF reload_exec, hiredisVars, connVars, timerVars
  <1>3. CASE FreeLoads = {}
    <2>1. Return /\ UNCHANGED cmd_st
      BY <1>3 DEF reload_exec, cmdVars
    <2> QED
      BY <1>1, <1>2, <2>1, NoneTaken
  <1>4. CASE FreeLoads # {}
    <2>1. c \in CmdIds /\ LoadCmd(c)
      <3>1. c \in FreeLoads
        BY <1>0, <1>4, MinIn, BoundsAssumption DEF FreeLoads, CmdIds, BoundsAssumption
      <3> QED
        BY <3>1 DEF FreeLoads
    <2>2. \A d \in OnceIds : cmd_st'[d] = cmd_st[d]
      <3>1. cmd_st' = [cmd_st EXCEPT ![c] = "live"] /\ cmd_st \in [CmdIds -> ObjectStates]
        BY <1>0, <1>4 DEF reload_exec, create, IndInv, CmdPart
      <3> QED
        BY <2>1, <3>1 DEF OnceIds
    <2>3. PICK f : f = F("exec_conn", c, Top.k, "none")
      OBVIOUS
    <2>4. PICK g : g = F("destroy_cmd", c, 0, "none")
      OBVIOUS
    <2>5. PICK e : e = F("reload_end", 0, Top.k, "none")
      OBVIOUS
    <2>6. f.c = c /\ g.c = c
      BY <2>3, <2>4 DEF F
    <2>7. Aliens(<<f>>) /\ Aliens(<<g>>) /\ Aliens(<<e>>) /\ Aliens(<<>>)
      BY <2>1, <2>5, <2>6, LoadFrame, AlienOne, AlienNames, AlienSeqs
    <2>8. PICK fs : (fs = <<e>> \/ fs = <<>>) /\ (Continue(<<f>> \o fs) \/ Continue(<<g>>))
      BY <1>0, <1>4, <2>3, <2>4, <2>5 DEF reload_exec
    <2>9. Aliens(<<f>> \o fs)
      BY <2>7, <2>8, AlienSeqs
    <2> QED
      BY <1>1, <1>2, <2>2, <2>7, <2>8, <2>9, StaysOn
  <1> QED
    BY <1>3, <1>4

LEMMA LoadFailedOnce == ASSUME IndInv, OrderInv, OncePart, on_reply_update_slot_failed PROVE OncePart'
  <1>0. PICK c : c = Top.c
    OBVIOUS
  <1>1. /\ stack # <<>> /\ Alien(Top) /\ LoadCmd(c) /\ c \in Created
    <2>1. At("on_reply_update_slot") /\ "on_reply_update_slot" \in CmdOps
      BY DEF on_reply_update_slot_failed, CmdOps
    <2>2. stack # <<>> /\ Top.op = "on_reply_update_slot" /\ c \in Created
      BY <1>0, <2>1, TopCmd DEF IndInv
    <2>3. Len(stack) - 1 \in Heights /\ Pile[Len(stack) - 1] = Top
      BY <2>2, StackFrames, HeightOf
    <2>4. LoadCmd(c)
      BY <1>0, <2>2, <2>3 DEF OrderInv, FormPart, FormAt
    <2> QED
      BY <2>1, <2>2, <2>4, TopAlien, AlienNames
  <1>2. UNCHANGED <<slot_pending_, reply_list_, replies, cmd_st>>
    BY DEF on_reply_update_slot_failed, cmdVars, hiredisVars, connVars
  <1>3. SameEverywhere
    <2>1. CASE UNCHANGED timer_pending
      BY <1>2, <2>1, QueuesSame
    <2>2. CASE timer_pending' = Delayed(c)
      <3>1. PICK e : e = [at |-> last_update + Interval, cmd |-> c]
        OBVIOUS
      <3>2. e \in [at : Nat, cmd : Created] /\ e.cmd = c /\ timer_pending' = Append(timer_pending, e)
        BY <1>1, <2>2, <3>1, ClusterAssumption DEF Delayed, ClusterAssumption, IndInv, TimePart
      <3>3. PICK y : y = <<"timer", 0>>
        OBVIOUS
      <3>4. y \in Queues /\ Grows(y, e) /\ \A d : e \in Marks(y, d) <=> d = c
        BY <1>2, <3>2, <3>3, TimerQueue
      <3>5. \A d \in OnceIds : e \notin Marks(y, d)
        BY <1>1, <3>4 DEF OnceIds
      <3> QED
        BY <3>4, <3>5, Grown DEF SameEverywhere
    <2> QED
      BY <1>0, <2>1, <2>2 DEF on_reply_update_slot_failed
  <1>4. PICK f : f = F("destroy_cmd", c, 0, "none")
    OBVIOUS
  <1>5. PICK g : g = F("exec", c, 0, "none")
    OBVIOUS
  <1>6. Aliens(<<f>>) /\ Aliens(<<g>>)
    <2>1. f.c = c /\ g.c = c
      BY <1>4, <1>5 DEF F
    <2> QED
      BY <1>1, <2>1, LoadFrame
  <1>7. Return \/ Continue(<<f>>) \/ Continue(<<g>>)
    BY <1>0, <1>4, <1>5 DEF on_reply_update_slot_failed
  <1> QED
    BY <1>1, <1>2, <1>3, <1>6, <1>7, StaysOn

\* Releasing connections, the end of reset() and proc(), and the events of a
\* connection.
LEMMA ReleaseOnce ==
  ASSUME IndInv, OncePart, release_connection \/ release_event \/ release_end
  PROVE  OncePart'
  <1>1. UNCHANGED <<timer_pending, slot_pending_, reply_list_, replies, cmd_st>>
    BY DEF release_connection, release_event, release_end, set_disconnected, cmdVars, hiredisVars,
       connVars, clusterVars, tableVars, timerVars
  <1>2. CASE release_end
    BY <1>1, <1>2, MovesOn, AlienNames, AlienSeqs DEF release_end
  <1>3. CASE release_event
    <2>1. PICK a : Continue(<<F("user", 0, Top.k, a), F("release_end", 0, Top.k, "none")>>)
      BY <1>3 DEF release_event
    <2>2. PICK fs : fs = <<F("user", 0, Top.k, a), F("release_end", 0, Top.k, "none")>>
      OBVIOUS
    <2>3. Aliens(fs) /\ Continue(fs)
      BY <2>1, <2>2, AlienTwo, AlienNames
    <2> QED
      BY <1>1, <1>3, <2>3, MovesOn, AlienNames DEF release_event
  <1>4. CASE release_connection
    <2>1. PICK close : close = IF context_[Top.k] /\ Top.a = "close"
                               THEN <<F("redisAsyncDisconnect", 0, Top.k, "none")>> ELSE <<>>
      OBVIOUS
    <2>2. PICK rel : rel = <<F("connection_release", 0, Top.k, "none")>>
      OBVIOUS
    <2>3. PICK tell : tell = <<F("release_event", 0, Top.k, conn_status_[Top.k])>>
      OBVIOUS
    <2>4. Aliens(<<F("redisAsyncDisconnect", 0, Top.k, "none")>>) /\ Aliens(rel) /\ Aliens(tell)
      BY <2>2, <2>3, AlienOne, AlienNames
    <2>5. Aliens(close)
      BY <2>1, <2>4, AlienSeqs
    <2>6. Aliens(close \o rel)
      BY <2>4, <2>5, AlienSeqs
    <2>7. Aliens((close \o rel) \o tell)
      BY <2>4, <2>6, AlienSeqs
    <2>8. Return \/ Continue((close \o rel) \o tell)
      BY <1>4, <2>1, <2>2, <2>3 DEF release_connection, ReleaseFrames
    <2> QED
      BY <1>1, <1>4, <2>7, <2>8, MovesOn, AlienNames DEF release_connection
  <1> QED
    BY <1>2, <1>3, <1>4

LEMMA ResetBeginOnce == ASSUME IndInv, OncePart, reset_begin PROVE OncePart'
  <1>1. UNCHANGED <<timer_pending, slot_pending_, reply_list_, replies, cmd_st>>
    BY DEF reset_begin, cmdVars, hiredisVars, connVars, timerVars
  <1>2. PICK S : S = {k \in {connections_[s] : s \in Servers} \ {0} : context_[k]}
    OBVIOUS
  <1>3. PICK q \in SetToSeqs(S) :
          Continue([i \in DOMAIN q |-> F("redisAsyncDisconnect", 0, q[i], "none")]
                   \o <<F("reset_slots", 0, 0, "none")>>)
    BY <1>2 DEF reset_begin
  <1>4. S \in SUBSET ConnIds
    BY <1>2 DEF IndInv, MapPart
  <1>5. q \in Seq(S) /\ DOMAIN q = 1 .. Len(q) /\ Len(q) \in Nat
    BY <1>3, <1>4, OrderedConns
  <1>6. PICK D : D = {F("redisAsyncDisconnect", 0, k, "none") : k \in S}
    OBVIOUS
  <1>7. PICK close : close = [i \in DOMAIN q |-> F("redisAsyncDisconnect", 0, q[i], "none")]
    OBVIOUS
  <1>8. close \in Seq(D)
    BY <1>5, <1>6, <1>7
  <1>9. \A f \in D : Alien(f)
    BY <1>6, AlienFrame, AlienNames
  <1>10. Aliens(close)
    BY <1>8, <1>9, AlienSeqs
  <1>11. PICK fs : fs = <<F("reset_slots", 0, 0, "none")>>
    OBVIOUS
  <1>12. Aliens(fs)
    BY <1>11, AlienOne, AlienNames
  <1>13. Aliens(close \o fs)
    BY <1>10, <1>12, AlienSeqs
  <1>14. Continue(close \o fs)
    BY <1>3, <1>7, <1>11
  <1> QED
    BY <1>1, <1>13, <1>14, MovesOn, AlienNames DEF reset_begin

LEMMA ProcConnOnce == ASSUME IndInv, OncePart, proc_conn \/ proc_clear PROVE OncePart'
  <1>1. UNCHANGED <<timer_pending, slot_pending_, reply_list_, replies, cmd_st>>
    BY DEF proc_conn, proc_clear, cmdVars, hiredisVars, connVars, clusterVars, tableVars, timerVars
  <1>2. CASE proc_clear
    <2>1. PICK fs : fs = <<F("proc_conn", 0, 0, "none")>>
      OBVIOUS
    <2>2. Aliens(fs) /\ At("proc_clear") /\ (Continue(fs) \/ UNCHANGED stack)
      BY <1>2, <2>1, AlienOne, AlienNames DEF proc_clear
    <2> QED
      BY <1>1, <2>2, MovesOn, SameOnce, AlienNames
  <1>3. CASE proc_conn
    <2>1. PICK k : k = connections_[Head(timer_conns).server]
      OBVIOUS
    <2>2. PICK end : end = IF Expired(k) THEN <<F("release_connection", 0, k, "close")>> ELSE <<>>
      OBVIOUS
    <2>3. PICK more : more = <<F("proc_clear", 0, 0, "none")>>
      OBVIOUS
    <2>4. Aliens(more) /\ Aliens(<<F("release_connection", 0, k, "close")>>)
      BY <2>3, AlienOne, AlienNames
    <2>5. Aliens(end)
      BY <2>2, <2>4, AlienSeqs
    <2>6. Aliens(end \o more)
      BY <2>4, <2>5, AlienSeqs
    <2>7. Continue(<<>>) \/ Continue(end \o more)
      BY <1>3, <2>1, <2>2, <2>3 DEF proc_conn
    <2>8. At("proc_conn") /\ "proc_conn" \in AlienOps
      BY <1>3, AlienNames DEF proc_conn
    <2>9. PICK no : no = <<>>
      OBVIOUS
    <2>10. Aliens(no) /\ (Continue(no) \/ Continue(end \o more))
      BY <2>7, <2>9, AlienSeqs
    <2> QED
      BY <1>1, <2>6, <2>8, <2>10, MovesOn
  <1> QED
    BY <1>2, <1>3

LEMMA ConnectedOnce ==
  ASSUME IndInv, OncePart, on_connected_wrapper \/ on_connected_end \/ on_disconnected_wrapper
  PROVE  OncePart'
  <1>1. UNCHANGED <<timer_pending, slot_pending_, reply_list_, replies, cmd_st>>
    BY DEF on_connected_wrapper, on_connected_end, on_disconnected_wrapper, set_connected, cmdVars,
       hiredisVars, connVars, clusterVars, tableVars, timerVars
  <1>2. PICK op \in {"on_connected", "on_connected_end", "on_disconnected"} : At(op)
    BY DEF on_connected_wrapper, on_connected_end, on_disconnected_wrapper
  <1>3. op \in AlienOps
    BY AlienNames
  <1>4. CASE on_connected_wrapper
    <2>1. PICK a : Continue(<<F("user", 0, Top.k, "on_connected"), F("on_connected_end", 0, Top.k, a)>>)
      BY <1>4 DEF on_connected_wrapper
    <2>2. PICK fs : fs = <<F("user", 0, Top.k, "on_connected"), F("on_connected_end", 0, Top.k, a)>>
      OBVIOUS
    <2>3. Aliens(fs) /\ Continue(fs)
      BY <2>1, <2>2, AlienTwo, AlienNames
    <2> QED
      BY <1>1, <1>2, <1>3, <2>3, MovesOn
  <1>5. CASE on_connected_end \/ on_disconnected_wrapper
    <2>1. PICK load : load = <<F("reload_slots", 0, 0, "none")>>
      OBVIOUS
    <2>2. PICK rel : rel = <<F("release_connection", 0, Top.k, "keep")>>
      OBVIOUS
    <2>3. PICK no : no = <<>>
      OBVIOUS
    <2>4. Aliens(load) /\ Aliens(rel) /\ Aliens(no)
      BY <2>1, <2>2, <2>3, AlienOne, AlienNames, AlienSeqs
    <2>5. Continue(no) \/ Continue(load) \/ Continue(rel) \/ Continue(rel \o load)
      BY <1>5, <2>1, <2>2, <2>3 DEF on_connected_end, on_disconnected_wrapper
    <2>6. Aliens(rel \o load)
      BY <2>4, AlienSeqs
    <2> QED
      BY <1>1, <1>2, <1>3, <2>4, <2>5, <2>6, MovesOn
  <1> QED
    BY <1>4, <1>5

\* A reply is handed on, and its command stays in the list meanwhile.
LEMMA HandsOnOnce ==
  ASSUME IndInv, FlowInv, OrderInv, OncePart,
         \/ on_reply_wrapper \/ on_reply_retry \/ on_reply_clusterdown \/ CallReply
         \/ \E i, s : on_reply_moved(i, s)
  PROVE  OncePart'
  <1>3. PICK op \in {"on_reply", "call_reply"} : At(op)
    BY DEF on_reply_wrapper, on_reply_retry, on_reply_clusterdown, CallReply, call_reply, on_reply_moved
  <1>4. op \in DeliverOps /\ op \in AlienOps
    BY AlienNames DEF DeliverOps, HandedOps
  <1>5. Top.c \in Elems(reply_list_[Top.k]) /\ context_[Top.k] /\ Top.op = op
    BY <1>3, <1>4, DeliverTop
  <1>1. UNCHANGED <<timer_pending, slot_pending_, reply_list_, replies, cmd_st>>
    <2>1. UNCHANGED <<timer_pending, slot_pending_, reply_list_, replies>>
      BY DEF on_reply_wrapper, on_reply_retry, on_reply_clusterdown, CallReply, call_reply,
         on_reply_moved, hiredisVars, connVars, clusterVars, tableVars, timerVars
    <2>2. UNCHANGED cmd_st
      BY <1>5 DEF on_reply_wrapper, on_reply_retry, on_reply_clusterdown, CallReply, call_reply,
         on_reply_moved, cmdVars
    <2> QED
      BY <2>1, <2>2
  <1>6. PopAndRetry(Top.c, Top.k) = <<F("pop_reply", Top.c, Top.k, "retry")>>
    BY <1>5 DEF PopAndRetry
  <1>7. Top.a # "ask"
    <2>1. Top.a \in Replies
      BY <1>3, <1>5, TopReply
    <2> QED
      BY <2>1 DEF Replies, Redirections
  <1>8. \A fop \in {"call_reply", "pop_reply"} : \A a : a # "ask" => Alien(F(fop, Top.c, Top.k, a))
    BY DEF Alien, OwnerOps, Leaves, F
  <1>9. \A gop \in {"reset_begin", "reload_slots"} : Alien(F(gop, 0, 0, "none"))
    BY AlienFrame, AlienNames
  <1>10. \/ \E f : Alien(f) /\ Continue(<<f>>)
         \/ \E f, g : Alien(f) /\ Alien(g) /\ Continue(<<f, g>>)
    <2>1. CASE on_reply_wrapper
      BY <1>7, <1>8, <2>1 DEF on_reply_wrapper
    <2>2. CASE on_reply_retry
      BY <1>6, <1>8, <2>2 DEF on_reply_retry
    <2>3. CASE on_reply_clusterdown
      BY <1>7, <1>8, <1>9, <2>3 DEF on_reply_clusterdown
    <2>4. CASE CallReply
      BY <1>5, <1>7, <1>8, <2>4 DEF CallReply, call_reply
    <2>5. ASSUME NEW i, NEW s, on_reply_moved(i, s)
          PROVE  \/ \E f : Alien(f) /\ Continue(<<f>>)
                 \/ \E f, g : Alien(f) /\ Alien(g) /\ Continue(<<f, g>>)
      <3>1. PICK f : f = F("pop_reply", Top.c, Top.k, "retry")
        OBVIOUS
      <3>2. PICK g : g = F("reload_slots", 0, 0, "none")
        OBVIOUS
      <3>3. <<f>> \o <<g>> = <<f, g>> /\ Alien(f) /\ Alien(g)
        BY <1>8, <1>9, <3>1, <3>2, Pair
      <3>4. Continue(<<f, g>>) \/ Continue(<<F("call_reply", Top.c, Top.k, Top.a)>>)
        BY <1>6, <2>5, <3>1, <3>2, <3>3 DEF on_reply_moved
      <3> QED
        BY <1>7, <1>8, <3>3, <3>4
    <2> QED
      BY <2>1, <2>2, <2>3, <2>4, <2>5
  <1>11. PICK fs : Aliens(fs) /\ Continue(fs)
    BY <1>10, AlienSeqs
  <1> QED
    BY <1>1, <1>3, <1>4, <1>11, MovesOn

-----------------------------------------------------------------------------
(* New commands                                                            *)

\* What is known of command c when the frames gs are added: they have nothing
\* to do with it, or it is created for one of them.
Brings(gs, c) ==
  \/ Without(gs, c) /\ cmd_st'[c] = cmd_st[c]
  \/ c \notin Created /\ \E f : Owner(f, c) /\ Only(gs, f, c)

LEMMA BringsOne ==
  ASSUME IndInv, NEW f, f.op \in OwnerOps, f.c \notin Created, f.c \in CmdIds,
         cmd_st' = [cmd_st EXCEPT ![f.c] = "live"], NEW c \in OnceIds
  PROVE  Brings(<<f>>, c)
  <1>1. c \in CmdIds /\ cmd_st \in [CmdIds -> ObjectStates]
    BY DEF OnceIds, IndInv, CmdPart
  <1>2. CASE c = f.c
    BY <1>2, Onlys DEF Brings, Owner
  <1>3. CASE c # f.c
    <2>1. cmd_st'[c] = cmd_st[c] /\ Without(<<f>>, c)
      BY <1>1, <1>3, OwnedForeign, Withouts
    <2> QED
      BY <2>1 DEF Brings
  <1> QED
    BY <1>2, <1>3

\* A new command is created by the application.
LEMMA UserExecOnce == ASSUME IndInv, OncePart, NEW i, UserExec(i) PROVE OncePart'
  <1>s. StackSeq
    BY StackFrames
  <1>0. PICK e : e = ncmd + 1
    OBVIOUS
  <1>1. e \in CmdIds /\ e \notin Created
    <2>1. e \in 1 .. MaxCmds /\ ncmd \in Nat /\ e > ncmd
      BY <1>0, BoundsAssumption DEF UserExec, IndInv, MapPart, BoundsAssumption
    <2>2. e \in CmdIds
      BY <2>1, BoundsAssumption DEF CmdIds, BoundsAssumption
    <2>3. cmd_st[e] = "none"
      BY <2>1, <2>2 DEF IndInv, FreshPart
    <2> QED
      BY <2>2, <2>3 DEF Created
  <1>2. cmd_st' = [cmd_st EXCEPT ![e] = "live"]
    BY <1>0 DEF UserExec, create
  <1>3. SameEverywhere
    BY QueuesSame DEF UserExec, hiredisVars, connVars, timerVars
  <1>4. PICK op \in {"exec", "destroy_cmd"} : Call(<<F(op, e, 0, "none")>>)
    BY <1>0 DEF UserExec
  <1>5. PICK f : f = F(op, e, 0, "none")
    OBVIOUS
  <1>6. f.op \in OwnerOps /\ f.c = e /\ Call(<<f>>)
    BY <1>4, <1>5, OwnerFrame, OwnerNames
  <1>7. PICK h : h = Len(stack)
    OBVIOUS
  <1> SUFFICES ASSUME NEW c \in OnceIds PROVE OnceAt(c)'
    BY DEF OncePart
  <1>8. OnceAt(c) /\ \A x \in Queues : Still(x, c)
    BY <1>3 DEF OncePart, SameEverywhere
  <1>9. Brings(<<f>>, c)
    BY <1>1, <1>2, <1>6, BringsOne
  <1>10. \A d : /\ Without(<<f>>, d) => NoNew(h, d)
                /\ \A g : Only(<<f>>, g, d) => OneNew(h, g, d)
    BY <1>s, <1>6, <1>7, CallNew
  <1>11. CASE Without(<<f>>, c) /\ cmd_st'[c] = cmd_st[c]
    BY <1>s, <1>7, <1>8, <1>10, <1>11, Stays
  <1>12. CASE c \notin Created /\ \E g : Owner(g, c) /\ Only(<<f>>, g, c)
    BY <1>8, <1>10, <1>12, Born
  <1> QED
    BY <1>9, <1>11, <1>12 DEF Brings

\* Making a connection creates its AUTH command.
LEMMA MakesOnce ==
  ASSUME IndInv, nconn < MaxConns, NEW s, NEW k, k = nconn + 1, make_connection(k, s)
  PROVE  /\ SameEverywhere
         /\ \A c \in OnceIds :
              /\ Brings(ConnectFrames(k), c)
              /\ Auth => Brings(<<F("destroy_cmd", AuthCmd(k), 0, "none")>>, c)
  <1>1. AuthCmd(k) \in CmdIds /\ cmd_st[AuthCmd(k)] = "none"
    BY BoundsAssumption DEF IndInv, MapPart, FreshPart, CmdIds, AuthCmd, LoadCmd, BoundsAssumption
  <1>2. SameEverywhere
    BY QueuesSame DEF make_connection, redisAsyncConnect, set_connecting, tableVars
  <1>3. PICK told : told = <<F("user", 0, k, "on_connect")>>
    OBVIOUS
  <1>4. \A c : Without(told, c)
    BY <1>3, AlienFrame, AlienNames, AlienForeign, Withouts
  <1>5. CASE ~Auth
    <2>1. UNCHANGED cmd_st
      BY <1>5 DEF make_connection, cmdVars
    <2>2. PICK no : no = <<>>
      OBVIOUS
    <2>3. ConnectFrames(k) = no \o told
      BY <1>3, <1>5, <2>2 DEF ConnectFrames
    <2>4. \A c : Without(no \o told, c)
      BY <1>4, <2>2, Withouts
    <2> QED
      BY <1>2, <1>5, <2>1, <2>3, <2>4 DEF Brings
  <1>6. CASE Auth
    <2>1. cmd_st' = [cmd_st EXCEPT ![AuthCmd(k)] = "live"] /\ AuthCmd(k) \notin Created
      BY <1>1, <1>6 DEF make_connection, create, Created
    <2>2. PICK f : f = F("exec_conn", AuthCmd(k), k, "none")
      OBVIOUS
    <2>3. PICK g : g = F("destroy_cmd", AuthCmd(k), 0, "none")
      OBVIOUS
    <2>4. f.op \in OwnerOps /\ f.c = AuthCmd(k) /\ g.op \in OwnerOps /\ g.c = AuthCmd(k)
      BY <2>2, <2>3, OwnerFrame, OwnerNames
    <2>5. \A c \in OnceIds : Brings(<<f>>, c) /\ Brings(<<g>>, c)
      BY <1>1, <2>1, <2>4, BringsOne
    <2>6. ConnectFrames(k) = <<f>> \o told
      BY <1>3, <1>6, <2>2 DEF ConnectFrames
    <2>7. PICK fs : fs = <<f>>
      OBVIOUS
    <2>8. ASSUME NEW c \in OnceIds PROVE Brings(fs \o told, c)
      <3>1. Brings(fs, c)
        BY <2>5, <2>7
      <3>2. CASE Without(fs, c) /\ cmd_st'[c] = cmd_st[c]
        BY <1>4, <3>2, Withouts DEF Brings
      <3>3. CASE c \notin Created /\ \E l : Owner(l, c) /\ Only(fs, l, c)
        BY <1>4, <3>3, OnlyAbove DEF Brings
      <3> QED
        BY <3>1, <3>2, <3>3 DEF Brings
    <2> QED
      BY <1>2, <2>3, <2>5, <2>6, <2>7, <2>8
  <1> QED
    BY <1>5, <1>6

LEMMA UserConnectOnce == ASSUME IndInv, OncePart, NEW s, UserConnect(s) PROVE OncePart'
  <1>s. StackSeq
    BY StackFrames
  <1>0. PICK k : k = nconn + 1
    OBVIOUS
  <1>1. nconn < MaxConns /\ make_connection(k, s)
    BY <1>0 DEF UserConnect
  <1>2. /\ SameEverywhere
        /\ \A c \in OnceIds :
             /\ Brings(ConnectFrames(k), c)
             /\ Auth => Brings(<<F("destroy_cmd", AuthCmd(k), 0, "none")>>, c)
    BY <1>0, <1>1, MakesOnce
  <1>3. PICK fs : Call(fs) /\ \A c \in OnceIds : Brings(fs, c)
    BY <1>0, <1>2 DEF UserConnect
  <1>7. PICK h : h = Len(stack)
    OBVIOUS
  <1> SUFFICES ASSUME NEW c \in OnceIds PROVE OnceAt(c)'
    BY DEF OncePart
  <1>8. OnceAt(c) /\ (\A x \in Queues : Still(x, c)) /\ Brings(fs, c)
    BY <1>2, <1>3 DEF OncePart, SameEverywhere
  <1>10. \A d : /\ Without(fs, d) => NoNew(h, d)
                /\ \A g : Only(fs, g, d) => OneNew(h, g, d)
    BY <1>s, <1>3, <1>7, CallNew
  <1>11. CASE Without(fs, c) /\ cmd_st'[c] = cmd_st[c]
    BY <1>s, <1>7, <1>8, <1>10, <1>11, Stays
  <1>12. CASE c \notin Created /\ \E g : Owner(g, c) /\ Only(fs, g, c)
    BY <1>8, <1>10, <1>12, Born
  <1> QED
    BY <1>8, <1>11, <1>12 DEF Brings

\* Getting a connection, or making one: the frames gs, then `found' or `failed'.
LEMMA ConnectParts ==
  ASSUME IndInv, NEW s, NEW found, NEW failed, WithConnection(s, found, failed)
  PROVE  /\ SameEverywhere
         /\ \E gs, rest : /\ rest = failed \/ \E j : rest = On(j, found)
                          /\ (gs = <<>> /\ Continue(rest)) \/ Continue(gs \o rest)
                          /\ \A c \in OnceIds : Brings(gs, c)
  <1>0. PICK k : k = nconn + 1
    OBVIOUS
  <1>1. PICK no : no = <<>>
    OBVIOUS
  <1>2. UNCHANGED <<cmdVars, hiredisVars, connVars, clusterVars>> =>
          SameEverywhere /\ \A c \in OnceIds : Brings(no, c)
    BY <1>1, QueuesQuiet, Withouts DEF Brings, cmdVars
  <1>3. CASE connections_[s] # 0
    BY <1>1, <1>2, <1>3 DEF WithConnection
  <1>4. CASE /\ connections_[s] = 0 /\ nconn < MaxConns
             /\ make_connection(k, s)
             /\ \/ Continue(ConnectFrames(k) \o On(k, found))
                \/ /\ Auth
                   /\ Continue(<<F("destroy_cmd", AuthCmd(k), 0, "none")>> \o failed)
    <2>1. /\ SameEverywhere
          /\ \A c \in OnceIds :
               /\ Brings(ConnectFrames(k), c)
               /\ Auth => Brings(<<F("destroy_cmd", AuthCmd(k), 0, "none")>>, c)
      BY <1>0, <1>4, MakesOnce
    <2> QED
      BY <1>4, <2>1
  <1>5. CASE Continue(failed) /\ UNCHANGED <<cmdVars, hiredisVars, connVars, clusterVars>>
    BY <1>1, <1>2, <1>5
  <1> QED
    BY <1>0, <1>3, <1>4, <1>5 DEF WithConnection

\* The commands that only the frames before `rest' may concern.
LEMMA ConnectOthers ==
  ASSUME IndInv, OncePart, SameEverywhere, stack # <<>>, NEW gs, NEW rest,
         (gs = <<>> /\ Continue(rest)) \/ Continue(gs \o rest),
         NEW c \in OnceIds, Brings(gs, c), Without(rest, c), Foreign(Top, c)
  PROVE  OnceAt(c)'
  <1>s. StackSeq
    BY StackFrames
  <1>1. OnceAt(c) /\ \A x \in Queues : Still(x, c)
    BY DEF OncePart, SameEverywhere
  <1>2. PICK h : h = Len(stack) - 1
    OBVIOUS
  <1>3. CASE Without(gs, c) /\ cmd_st'[c] = cmd_st[c]
    <2>1. Without(gs \o rest, c)
      BY <1>3, Withouts
    <2>2. NoNew(h, c)
      BY <1>s, <1>2, <2>1, ContinueNew
    <2> QED
      BY <1>s, <1>1, <1>3, <2>2, Stays
  <1>4. ASSUME c \notin Created, NEW f, Owner(f, c), Only(gs, f, c) PROVE OnceAt(c)'
    <2>1. gs # <<>>
      BY <1>4 DEF Only
    <2>2. Continue(gs \o rest) /\ Only(gs \o rest, f, c)
      BY <1>4, <2>1, OnlyAbove
    <2>3. OneNew(h, f, c)
      BY <1>s, <1>2, <2>2, ContinueNew
    <2> QED
      BY <1>1, <1>4, <2>3, Born
  <1> QED
    BY <1>3, <1>4 DEF Brings

LEMMA ReloadSlotsOnce == ASSUME IndInv, OncePart, reload_slots PROVE OncePart'
  <1>1. stack # <<>> /\ Alien(Top) /\ At("reload_slots") /\ "reload_slots" \in AlienOps
    BY TopAlien, AlienNames DEF reload_slots
  <1>2. CASE slot_flag_ = "UPDATING"
    <2>1. SameEverywhere /\ Return /\ UNCHANGED cmd_st
      BY <1>2, QueuesQuiet DEF reload_slots, cmdVars
    <2> QED
      BY <1>1, <2>1, NoneTaken
  <1>3. CASE slot_flag_ # "UPDATING"
    <2>1. PICK g : g = F("reload_exec", 0, 0, "none")
      OBVIOUS
    <2>2. PICK s : WithConnection(s, <<g>>, <<>>)
      BY <1>3, <2>1 DEF reload_slots
    <2>3. PICK found : found = <<g>>
      OBVIOUS
    <2>4. PICK no : no = <<>>
      OBVIOUS
    <2>5. WithConnection(s, found, no)
      BY <2>2, <2>3, <2>4
    <2>6. PICK gs, rest : /\ rest = no \/ \E j : rest = On(j, found)
                          /\ (gs = <<>> /\ Continue(rest)) \/ Continue(gs \o rest)
                          /\ \A c \in OnceIds : Brings(gs, c)
      BY <2>5, ConnectParts
    <2>7. SameEverywhere
      BY <2>5, ConnectParts
    <2>8. \A j : [g EXCEPT !.k = j] = F("reload_exec", 0, j, "none") /\ g.k = 0
      BY <2>1 DEF F
    <2>9. \A j : On(j, found) = <<F("reload_exec", 0, j, "none")>>
      BY <2>3, <2>8 DEF On
    <2>10. Aliens(rest)
      BY <2>4, <2>6, <2>9, AlienOne, AlienNames, AlienSeqs
    <2>11. ASSUME NEW c \in OnceIds PROVE OnceAt(c)'
      <3>1. Brings(gs, c) /\ Without(rest, c) /\ Foreign(Top, c)
        BY <1>1, <2>6, <2>10, AlienForeign DEF Aliens
      <3> QED
        BY <1>1, <2>6, <2>7, <3>1, ConnectOthers
    <2> QED
      BY <2>11 DEF OncePart
  <1> QED
    BY <1>2, <1>3

LEMMA ExecOnce == ASSUME IndInv, OncePart, exec PROVE OncePart'
  <1>s. StackSeq
    BY StackFrames
  <1>0. PICK e : e = Top.c
    OBVIOUS
  <1>1. stack # <<>> /\ Top.op \in OwnerOps /\ Top.op # "destroy" /\ e \in Created
    <2>1. At("exec") /\ "exec" \in CmdOps
      BY DEF exec, CmdOps
    <2>2. stack # <<>> /\ Top.op = "exec" /\ e \in Created
      BY <1>0, <2>1, TopCmd DEF IndInv
    <2> QED
      BY <2>2, OwnerNames
  <1>2. PICK g : g = F("exec_conn", e, 0, "none")
    OBVIOUS
  <1>3. PICK l : l = F("exec_failed", e, 0, "none")
    OBVIOUS
  <1>4. PICK s : WithConnection(s, <<g>>, <<l>>)
    BY <1>0, <1>2, <1>3 DEF exec
  <1>5. PICK found : found = <<g>>
    OBVIOUS
  <1>6. PICK failed : failed = <<l>>
    OBVIOUS
  <1>7. WithConnection(s, found, failed)
    BY <1>4, <1>5, <1>6
  <1>8. PICK gs, rest : /\ rest = failed \/ \E j : rest = On(j, found)
                        /\ (gs = <<>> /\ Continue(rest)) \/ Continue(gs \o rest)
                        /\ \A c \in OnceIds : Brings(gs, c)
    BY <1>7, ConnectParts
  <1>9. SameEverywhere
    BY <1>7, ConnectParts
  <1>10. \A j : [g EXCEPT !.k = j] = F("exec_conn", e, j, "none") /\ g.k = 0
    BY <1>2 DEF F
  <1>11. \A j : On(j, found) = <<F("exec_conn", e, j, "none")>>
    BY <1>5, <1>10 DEF On
  <1>12. PICK f : rest = <<f>> /\ f.op \in OwnerOps /\ f.c = e
    BY <1>3, <1>6, <1>8, <1>11, OwnerFrame, OwnerNames
  <1> SUFFICES ASSUME NEW c \in OnceIds PROVE OnceAt(c)'
    BY DEF OncePart
  <1>13. Brings(gs, c) /\ OnceAt(c) /\ \A x \in Queues : Still(x, c)
    BY <1>8, <1>9 DEF OncePart, SameEverywhere
  <1>14. CASE c # e
    <2>1. Foreign(Top, c) /\ Without(rest, c)
      BY <1>0, <1>12, <1>14, OwnedForeign, Withouts
    <2> QED
      BY <1>1, <1>8, <1>9, <1>13, <2>1, ConnectOthers
  <1>15. CASE c = e
    <2>1. Without(gs, c) /\ cmd_st'[c] = cmd_st[c]
      BY <1>1, <1>13, <1>15 DEF Brings
    <2>2. Only(rest, f, c) /\ Owner(f, c) /\ Owner(Top, c)
      BY <1>0, <1>1, <1>12, <1>15, Onlys DEF Owner
    <2>3. Only(gs \o rest, f, c)
      BY <2>1, <2>2, OnlyBelow
    <2>4. OneNew(Len(stack) - 1, f, c)
      BY <1>s, <1>1, <1>8, <2>2, <2>3, ContinueNew
    <2> QED
      BY <1>s, <1>1, <1>13, <2>1, <2>2, <2>4, Passes
  <1> QED
    BY <1>14, <1>15

-----------------------------------------------------------------------------
(* ASK                                                                     *)

\* Two frames are put in place of the top one, and others above them.
Above(fs, up, f, g) == fs = up \o <<f, g>>

LEMMA BelowTwo ==
  ASSUME StackSeq, stack # <<>>, NEW f, NEW g, NEW S, NEW up \in Seq(S),
         NEW fs, Above(fs, up, f, g), Continue(fs), NEW h, h = Len(stack) - 1
  PROVE  /\ Keep(h) /\ h \in Nat /\ Len(stack') \in Nat /\ h + 1 < Len(stack')
         /\ Pile'[h] = g /\ Pile'[h + 1] = f
         /\ \A d \in h .. Len(stack') - 1 :
              d # h /\ d # h + 1 => \E i \in 1 .. Len(up) : Pile'[d] = up[i]
  <1>1. h \in Nat
    BY HeightOf
  <1>2. PICK low : low = <<f, g>>
    OBVIOUS
  <1>3. fs = up \o low
    BY <1>2 DEF Above
  <1>4. PICK m : m = Len(up)
    OBVIOUS
  <1>5. low \in Seq({f, g}) /\ Len(low) = 2 /\ low[1] = f /\ low[2] = g
    BY <1>2, TwoType
  <1>6. PICK T : T = S \cup {f, g}
    OBVIOUS
  <1>7. up \in Seq(T) /\ low \in Seq(T) /\ m \in Nat
    BY <1>4, <1>5, <1>6, SeqMono
  <1>8. /\ fs \in Seq(T) /\ Len(fs) = m + Len(low)
        /\ \A i \in 1 .. m : fs[i] = up[i]
        /\ \A i \in 1 .. Len(low) : fs[m + i] = low[i]
    BY <1>3, <1>4, <1>7, ConcatAt
  <1>9. \A n : n = 2 => 1 \in 1 .. n /\ 2 \in 1 .. n
    OBVIOUS
  <1>10. PICK z : z = m + 2
    OBVIOUS
  <1>11. fs[m + 1] = f /\ fs[m + 2] = g /\ Len(fs) = z
    BY <1>5, <1>8, <1>9, <1>10
  <1>12. /\ Keep(h) /\ Len(stack') = h + z
         /\ \A i \in 1 .. z : Pile'[h + z - i] = fs[i]
    <2>1. /\ Keep(Len(stack) - 1) /\ Len(stack') = Len(stack) - 1 + Len(fs)
          /\ \A i \in 1 .. Len(fs) : Pile'[Len(stack) - 1 + Len(fs) - i] = fs[i]
      BY <1>8, ContinueMany
    <2> QED
      BY <1>11, <2>1
  <1>13. /\ m + 1 \in 1 .. z /\ m + 2 \in 1 .. z /\ h + z - (m + 1) = h + 1 /\ h + z - (m + 2) = h
         /\ h + z \in Nat /\ h + 1 < h + z
    BY <1>1, <1>7, <1>10
  <1>14. Pile'[h + 1] = f /\ Pile'[h] = g
    BY <1>11, <1>12, <1>13
  <1>15. ASSUME NEW d \in h .. Len(stack') - 1, d # h, d # h + 1
         PROVE  \E i \in 1 .. Len(up) : Pile'[d] = up[i]
    <2>a. ASSUME NEW a \in Nat, NEW b \in Nat, NEW n \in a .. a + (b + 2) - 1, n # a, n # a + 1
          PROVE  /\ a + (b + 2) - n \in 1 .. b /\ a + (b + 2) - n \in 1 .. b + 2
                 /\ a + (b + 2) - (a + (b + 2) - n) = n
      BY <2>a
    <2>1. h + z - d \in 1 .. m /\ h + z - d \in 1 .. z /\ h + z - (h + z - d) = d
      BY <1>1, <1>7, <1>10, <1>12, <1>15, <2>a
    <2>2. PICK i \in 1 .. m : i \in 1 .. z /\ h + z - i = d
      BY <2>1
    <2>3. Pile'[d] = up[i]
      BY <1>8, <1>12, <2>2
    <2> QED
      BY <1>4, <2>3
  <1> QED
    BY <1>1, <1>12, <1>13, <1>14, <1>15

\* The command stays in its list, and what will ask for it does not hold it yet.
LEMMA Shielded ==
  ASSUME StackSeq, stack # <<>>, NEW c, OnceAt(c), Foreign(Top, c), InCalls(c) = {},
         \A x \in InQueues(c) : x[1] = "list",
         NEW h, h = Len(stack) - 1, Keep(h), Len(stack') \in Nat, h + 1 < Len(stack'),
         Leaver(Pile'[h + 1], c), ~Leaver(Pile'[h], c),
         \A d \in h .. Len(stack') - 1 : d # h /\ d # h + 1 => Foreign(Pile'[d], c),
         \A x \in Queues : Still(x, c), cmd_st'[c] = cmd_st[c]
  PROVE  OnceAt(c)'
  <1>0. SUFFICES ASSUME cmd_st[c] = "live" PROVE OnceAt(c)'
    BY DEF OnceAt
  <1>1. h \in Nat /\ Len(stack) <= h + 1
    BY HeightOf
  <1>2. /\ \A d \in 0 .. h - 1 : /\ d \in Heights /\ d \in Heights' /\ Pile'[d] = Pile[d]
                                 /\ OwnsAt(d, c)' <=> OwnsAt(d, c)
    BY <1>1, OwnsKept, OwnerNotLeaver
  <1>3. h + 1 \in Heights' /\ \A d \in Heights' : d \in 0 .. h - 1 \/ d \in h .. Len(stack') - 1
    BY <1>1 DEF Heights
  <1>4. ASSUME NEW d \in Heights' PROVE ~OwnsAt(d, c)'
    <2>1. CASE d \in 0 .. h - 1
      BY <1>2, <2>1 DEF InCalls
    <2>2. CASE d = h
      BY <1>3, <2>2 DEF OwnsAt
    <2>3. CASE d = h + 1
      BY <2>3, OwnerNotLeaver DEF OwnsAt
    <2>4. CASE d \in h .. Len(stack') - 1 /\ d # h /\ d # h + 1
      BY <2>4, OwnerNotLeaver DEF OwnsAt
    <2> QED
      BY <1>3, <2>1, <2>2, <2>3, <2>4
  <1>5. InCalls(c)' = {}
    BY <1>4 DEF InCalls
  <1>6. InQueues(c)' = InQueues(c)
    BY DEF InQueues, Still
  <1>7. (\E x \in Queues : InQueues(c)' = {x}) /\ \A x \in Queues : ~Twice(x, c)'
    BY <1>0, <1>6 DEF OnceAt, Still
  <1> QED
    BY <1>5, <1>6, <1>7 DEF OnceAt

\* The command being delivered is at the head of its list, and nowhere else.
LEMMA DeliveredOnce ==
  ASSUME IndInv, FlowInv, OrderInv, OncePart, NEW op \in DeliverOps, At(op), NEW y,
         y = <<"list", Top.k>>
  PROVE  /\ y \in Queues /\ y[1] = "list"
         /\ Top.c \in OnceIds /\ cmd_st[Top.c] = "live" => InCalls(Top.c) = {} /\ InQueues(Top.c) = {y}
  <1>1. PICK c : c = Top.c
    OBVIOUS
  <1>2. PICK k : k = Top.k
    OBVIOUS
  <1>3. k \in ConnIds /\ reply_list_[k] # <<>> /\ Head(reply_list_[k]) = c
    BY <1>1, <1>2, DeliverTop
  <1>4. y \in Queues /\ y[1] = "list" /\ QueueAt(y) = reply_list_[k] /\ Marks(y, c) = {c}
    BY <1>2, <1>3, QueueNames, QueueValues, MarkValues
  <1>5. Has(y, c)
    <2>1. reply_list_[k] \in Seq(Created)
      BY <1>3 DEF IndInv, QueuePart
    <2>2. 1 \in DOMAIN reply_list_[k] /\ Head(reply_list_[k]) = reply_list_[k][1]
      BY <1>3, <2>1
    <2> QED
      BY <1>3, <1>4, <2>2 DEF Has, HasOf
  <1>6. y \in InQueues(c)
    BY <1>4, <1>5 DEF InQueues
  <1>7. c \in OnceIds /\ cmd_st[c] = "live" => InCalls(c) = {} /\ InQueues(c) = {y}
    BY <1>6 DEF OncePart, OnceAt
  <1> QED
    BY <1>1, <1>4, <1>7

LEMMA AskOnce ==
  ASSUME IndInv, FlowInv, OrderInv, OncePart, NEW s, on_reply_ask(s)
  PROVE  OncePart'
  <1>1. PICK e : e = Top.c
    OBVIOUS
  <1>2. PICK k : k = Top.k
    OBVIOUS
  <1>3. PICK pop : pop = F("ask_pop", e, k, "none")
    OBVIOUS
  <1>4. PICK ask : ask = F("asking", e, 0, "none")
    OBVIOUS
  <1>5. PICK again : again = F("retry", e, 0, "none")
    OBVIOUS
  <1>6. WithConnection(s, <<pop, ask>>, <<pop, again>>) /\ At("on_reply") /\ "on_reply" \in DeliverOps
    BY <1>1, <1>2, <1>3, <1>4, <1>5 DEF on_reply_ask, DeliverOps, HandedOps
  <1>7. stack # <<>> /\ StackSeq /\ Alien(Top) /\ e \in Created /\ k \in ConnIds /\ k # 0
    <2>1. StackSeq /\ k \in ConnIds
      BY <1>2, <1>6, DeliverTop
    <2>2. k # 0
      BY <2>1, BoundsAssumption DEF ConnIds, BoundsAssumption
    <2>3. e \in Created
      BY <1>1, <1>6, TopCmd DEF IndInv, CmdOps
    <2> QED
      BY <1>6, <2>1, <2>2, <2>3, TopAlien, AlienNames
  <1>8. PICK found : found = <<pop, ask>>
    OBVIOUS
  <1>9. PICK failed : failed = <<pop, again>>
    OBVIOUS
  <1>10. WithConnection(s, found, failed)
    BY <1>6, <1>8, <1>9
  <1>11. PICK gs, rest : /\ rest = failed \/ \E j : rest = On(j, found)
                         /\ (gs = <<>> /\ Continue(rest)) \/ Continue(gs \o rest)
                         /\ \A c \in OnceIds : Brings(gs, c)
    BY <1>10, ConnectParts
  <1>12. SameEverywhere
    BY <1>10, ConnectParts
  <1>13. /\ pop.k # 0 /\ ask.k = 0 /\ pop.c = e /\ Leaver(pop, e)
         /\ again.op = "retry" /\ again.c = e
         /\ \A j : [ask EXCEPT !.k = j] = F("asking", e, j, "none")
         /\ \A j : F("asking", e, j, "none").op = "asking" /\ F("asking", e, j, "none").c = e
    BY <1>3, <1>4, <1>5, <1>7 DEF F, Leaver, Leaves
  <1>14. \A j : On(j, found) = <<pop, F("asking", e, j, "none")>>
    BY <1>8, <1>13, OnPair
  <1>15. PICK g : rest = <<pop, g>> /\ g.op \in {"asking", "retry"} /\ g.c = e
    BY <1>9, <1>11, <1>13, <1>14
  <1> SUFFICES ASSUME NEW c \in OnceIds PROVE OnceAt(c)'
    BY DEF OncePart
  <1>16. Brings(gs, c) /\ OnceAt(c) /\ (\A x \in Queues : Still(x, c)) /\ Foreign(Top, c)
    BY <1>7, <1>11, <1>12, AlienForeign DEF OncePart, SameEverywhere
  <1>17. CASE c # e
    <2>1. Without(rest, c)
      BY <1>13, <1>15, <1>17, OwnedForeign, Withouts
    <2> QED
      BY <1>7, <1>11, <1>12, <1>16, <2>1, ConnectOthers
  <1>18. CASE c = e
    <2>1. Without(gs, c) /\ cmd_st'[c] = cmd_st[c]
      BY <1>7, <1>16, <1>18 DEF Brings
    <2>2. CASE cmd_st[c] # "live"
      BY <2>1, <2>2 DEF OnceAt
    <2>3. CASE cmd_st[c] = "live"
      <3>1. PICK y : y = <<"list", Top.k>>
        OBVIOUS
      <3>2. InCalls(c) = {} /\ \A x \in InQueues(c) : x[1] = "list"
        BY <1>1, <1>6, <1>18, <2>3, <3>1, DeliveredOnce
      <3>3. PICK S : gs \in Seq(S) /\ \A f \in S : Foreign(f, c)
        BY <2>1 DEF Without
      <3>4. PICK fs : Above(fs, gs, pop, g) /\ Continue(fs)
        <4>1. gs = <<>> => gs \o rest = rest
          BY <1>15
        <4> QED
          BY <1>11, <1>15, <4>1 DEF Above
      <3>5. PICK h : h = Len(stack) - 1
        OBVIOUS
      <3>6. /\ Keep(h) /\ h \in Nat /\ Len(stack') \in Nat /\ h + 1 < Len(stack')
            /\ Pile'[h] = g /\ Pile'[h + 1] = pop
            /\ \A d \in h .. Len(stack') - 1 :
                 d # h /\ d # h + 1 => \E i \in 1 .. Len(gs) : Pile'[d] = gs[i]
        <4>1. StackSeq /\ stack # <<>> /\ gs \in Seq(S)
          BY <1>7, <3>3
        <4> QED
          BY <3>4, <3>5, <4>1, BelowTwo
      <3>7. \A i \in 1 .. Len(gs) : Foreign(gs[i], c)
        BY <3>3
      <3>8. ~Leaver(g, c) /\ Leaver(pop, c)
        BY <1>13, <1>15, <1>18 DEF Leaver, Leaves
      <3>9. \A d \in h .. Len(stack') - 1 : d # h /\ d # h + 1 => Foreign(Pile'[d], c)
        BY <3>6, <3>7
      <3> QED
        BY <1>7, <1>16, <2>1, <3>2, <3>5, <3>6, <3>8, <3>9, Shielded
    <2> QED
      BY <2>2, <2>3
  <1> QED
    BY <1>17, <1>18

LEMMA AskPopOnce == ASSUME IndInv, FlowInv, OrderInv, OncePart, ask_pop PROVE OncePart'
  <1>1. PICK e : e = Top.c
    OBVIOUS
  <1>2. PICK f : f = F("pop_reply", e, Top.k, "ask")
    OBVIOUS
  <1>3. At("ask_pop") /\ "ask_pop" \in DeliverOps
    BY DEF ask_pop, DeliverOps, HandedOps
  <1>4. PICK h : h = Len(stack) - 1
    OBVIOUS
  <1>5. /\ StackSeq /\ stack # <<>> /\ Top.op = "ask_pop" /\ e \in Elems(reply_list_[Top.k])
        /\ h \in Nat /\ h \in Heights /\ Pile[h] = Top /\ Len(stack) \in Nat
    BY <1>1, <1>3, <1>4, DeliverTop
  <1>6. Continue(<<f>>)
    BY <1>1, <1>2, <1>5 DEF ask_pop
  <1>7. UNCHANGED cmd_st /\ SameEverywhere
    BY QueuesQuiet DEF ask_pop, cmdVars
  <1>8. /\ \A c : Leaver(Top, c) <=> Leaver(f, c)
        /\ \A c : ~Owner(Top, c) /\ ~Owner(f, c)
    BY <1>1, <1>2, <1>5 DEF Leaver, Leaves, Owner, OwnerOps, F
  <1>9. Keep(h) /\ Len(stack') = Len(stack) /\ Pile'[h] = f
    BY <1>4, <1>5, <1>6, ContinueOne
  <1>10. Heights' = Heights /\ \A d \in Heights : d # h => Pile'[d] = Pile[d]
    <2>1. \A d \in Heights : d # h => d \in 0 .. h - 1
      BY <1>4, <1>5 DEF Heights
    <2> QED
      BY <1>9, <2>1 DEF Heights, Keep
  <1> SUFFICES ASSUME NEW c \in OnceIds PROVE OnceAt(c)'
    BY DEF OncePart
  <1>11. OnceAt(c) /\ \A x \in Queues : Still(x, c)
    BY <1>7 DEF OncePart, SameEverywhere
  <1>12. \A d \in Heights : /\ Owner(Pile'[d], c) <=> Owner(Pile[d], c)
                            /\ Leaver(Pile'[d], c) <=> Leaver(Pile[d], c)
    BY <1>5, <1>8, <1>9, <1>10
  <1>13. \A d \in Heights : OwnsAt(d, c)' <=> OwnsAt(d, c)
    BY <1>10, <1>12 DEF OwnsAt
  <1>14. InCalls(c)' = InCalls(c)
    BY <1>10, <1>13 DEF InCalls
  <1>15. \A d \in InCalls(c) : d \in Heights /\ Pile'[d] = Pile[d]
    BY <1>5, <1>8, <1>10 DEF InCalls, OwnsAt
  <1>16. InQueues(c)' = InQueues(c)
    BY <1>11 DEF InQueues, Still
  <1>17. \A x \in Queues : Twice(x, c)' => Twice(x, c)
    BY <1>11 DEF Still
  <1> QED
    BY <1>7, <1>10, <1>11, <1>12, <1>14, <1>15, <1>16, <1>17 DEF OnceAt

\* pop_reply is done: the frame below holds the command from now on.
LEMMA Unshielded ==
  ASSUME StackSeq, stack # <<>>, NEW c, NEW h, h = Len(stack) - 1, Continue(<<>>), h > 0,
         InCalls(c) = {}, Owner(Pile[h - 1], c),
         \A d \in Heights : Leaves(Pile[d]) => d = h,
         \A x \in Queues : ~Has(x, c)' /\ ~Twice(x, c)'
  PROVE  OnceAt(c)'
  <1>1. PICK no : no = <<>>
    OBVIOUS
  <1>2. no \in Seq({}) /\ Len(no) = 0 /\ Continue(no) /\ h \in Nat /\ Len(stack) \in Nat
    BY <1>1, EmptyType, HeightOf
  <1>3. Keep(h) /\ Len(stack') = h
    <2>1. Keep(Len(stack) - 1) /\ Len(stack') = Len(stack) - 1 + Len(no)
      BY <1>2, ContinueMany
    <2> QED
      BY <1>2, <2>1
  <1>4. /\ Heights' = 0 .. h - 1 /\ Heights = 0 .. h /\ h - 1 \in 0 .. h - 1 /\ (h - 1) + 1 = h
        /\ h \notin 0 .. h - 1 /\ h \in 0 .. h
        /\ \A d \in 0 .. h - 1 : d \in 0 .. h /\ (d # h - 1 => d + 1 \in 0 .. h - 1) /\ d # h
    BY <1>2, <1>3 DEF Heights
  <1>5. \A d \in 0 .. h - 1 : Pile'[d] = Pile[d]
    BY <1>3 DEF Keep
  <1>6. OwnsAt(h - 1, c)'
    BY <1>4, <1>5 DEF OwnsAt
  <1>7. ASSUME NEW d \in 0 .. h - 1, d # h - 1 PROVE ~OwnsAt(d, c)'
    <2>1. ~OwnsAt(d, c)
      BY <1>4, <1>7 DEF InCalls
    <2>2. d + 1 \in 0 .. h - 1 /\ d + 1 \in 0 .. h
      BY <1>4, <1>7
    <2>3. Pile'[d] = Pile[d] /\ Pile'[d + 1] = Pile[d + 1]
      BY <1>5, <2>2
    <2> QED
      BY <1>4, <2>1, <2>2, <2>3 DEF OwnsAt
  <1>8. InCalls(c)' = {h - 1}
    BY <1>4, <1>6, <1>7 DEF InCalls
  <1>9. InQueues(c)' = {}
    BY DEF InQueues
  <1>10. \A d \in Heights' : ~Leaver(Pile'[d], c)
    BY <1>4, <1>5 DEF Leaver
  <1> QED
    BY <1>4, <1>8, <1>9, <1>10 DEF OnceAt

LEMMA PopOnce == ASSUME IndInv, FlowInv, OrderInv, OncePart, PopReply PROVE OncePart'
  <1>1. PICK k : k = Top.k
    OBVIOUS
  <1>2. PICK e : e = Top.c
    OBVIOUS
  <1>3. PICK h : h = Len(stack) - 1
    OBVIOUS
  <1>4. At("pop_reply") /\ "pop_reply" \in DeliverOps
    BY DEF PopReply, pop_reply, DeliverOps, HandedOps
  <1>5. /\ StackSeq /\ stack # <<>> /\ Top.op = "pop_reply" /\ k \in ConnIds
        /\ h \in Nat /\ h \in Heights /\ Pile[h] = Top
        /\ reply_list_[k] # <<>> /\ Head(reply_list_[k]) = e
        /\ \A d \in Heights : Pile[d].op \in DeliverOps => d = h
    BY <1>1, <1>2, <1>3, <1>4, DeliverTop
  <1>6. /\ reply_list_' = [reply_list_ EXCEPT ![k] = Tail(@)]
        /\ UNCHANGED <<timer_pending, slot_pending_, replies, cmd_st>>
    BY <1>1, <1>2, <1>5 DEF PopReply, pop_reply, hiredisVars, clusterVars, tableVars, timerVars,
       cmdVars, CallBack
  <1>7. PICK y : y = <<"list", k>>
    OBVIOUS
  <1>8. /\ y \in Queues /\ Shrinks(y) /\ QueueAt(y) = reply_list_[k]
        /\ \A c, m : m \in Marks(y, c) <=> c = m
    BY <1>5, <1>6, <1>7, ListQueue
  <1>9. \A c : Head(QueueAt(y)) \in Marks(y, c) <=> c = e
    BY <1>5, <1>8
  <1>10. \A d \in Heights : Leaves(Pile[d]) => d = h
    BY <1>5 DEF Leaves, DeliverOps, HandedOps
  <1>11. CASE Top.a # "ask"
    <2>1. Alien(Top) /\ \A d \in Heights : ~Leaves(Pile[d])
      BY <1>5, <1>10, <1>11 DEF Alien, OwnerOps, Leaves
    <2>2. CASE Top.a = "retry"
      <3>1. PICK f : f = F("retry", e, 0, "none")
        OBVIOUS
      <3>2. f.op \in OwnerOps /\ f.c = e
        BY <3>1, OwnerFrame, OwnerNames
      <3>3. Continue(<<f>>) /\ Carries(<<f>>, f)
        BY <1>1, <1>2, <1>5, <2>2, <3>1, <3>2, CarrySeqs DEF PopReply, pop_reply
      <3>4. PICK fs : Continue(fs) /\ Carries(fs, f)
        BY <3>3
      <3> QED
        BY <1>5, <1>6, <1>8, <1>9, <2>1, <3>2, <3>4, ComesUp
    <2>3. CASE Top.a # "retry"
      <3>1. PICK f : f = F("destroy", e, 0, "none")
        OBVIOUS
      <3>2. f.op \in OwnerOps /\ f.c = e
        BY <3>1, OwnerFrame, OwnerNames
      <3>3. PICK fs : fs = CallbackFrames(e, Top.a) \o <<f>>
        OBVIOUS
      <3>4. Continue(fs)
        BY <1>1, <1>2, <1>5, <1>11, <2>3, <3>1, <3>3 DEF PopReply, pop_reply, CallBack
      <3>5. Carries(fs, f)
        BY <3>2, <3>3, CarrySeqs
      <3> QED
        BY <1>5, <1>6, <1>8, <1>9, <2>1, <3>2, <3>4, <3>5, ComesUp
    <2> QED
      BY <2>2, <2>3
  <1>12. CASE Top.a = "ask"
    <2>1. Continue(<<>>)
      BY <1>1, <1>2, <1>5, <1>12 DEF PopReply, pop_reply
    <2>2. h > 0 /\ Pile[h - 1].op \in {"asking", "retry"} /\ Pile[h - 1].c = e
      BY <1>2, <1>5, <1>12 DEF OrderInv, FormPart, FormAt, Leaves
    <2>3. Owner(Pile[h - 1], e)
      BY <2>2 DEF Owner, OwnerOps
    <2>4. PICK no : no = <<>>
      OBVIOUS
    <2>5. Continue(no) /\ \A c : Without(no, c)
      BY <2>1, <2>4, Withouts
    <2>6. ASSUME NEW c \in OnceIds PROVE OnceAt(c)'
      <3>0. OnceAt(c)
        BY DEF OncePart
      <3>1. CASE c # e
        <4>1. Foreign(Top, c) /\ \A x \in Queues : Still(x, c)
          BY <1>2, <1>8, <1>9, <3>1, OwnedForeign, Shrunk
        <4>2. NoNew(h, c)
          BY <1>3, <1>5, <2>5, ContinueNew
        <4> QED
          BY <1>5, <1>6, <3>0, <4>1, <4>2, Stays
      <3>2. CASE c = e /\ cmd_st[c] # "live"
        BY <1>6, <3>2 DEF OnceAt
      <3>3. CASE c = e /\ cmd_st[c] = "live"
        <4>1. InCalls(c) = {} /\ InQueues(c) = {y}
          BY <1>1, <1>2, <1>4, <1>7, <2>6, <3>3, DeliveredOnce
        <4>2. \A x \in Queues : ~Twice(x, c)
          BY <3>0, <3>3 DEF OnceAt
        <4>3. \A x \in Queues : ~Has(x, c)' /\ ~Twice(x, c)'
          BY <1>8, <1>9, <3>3, <4>1, <4>2, Shrunk
        <4> QED
          BY <1>3, <1>5, <1>10, <2>1, <2>2, <2>3, <3>3, <4>1, <4>3, Unshielded
      <3> QED
        BY <3>1, <3>2, <3>3
    <2> QED
      BY <2>6 DEF OncePart
  <1> QED
    BY <1>11, <1>12

LEMMA NextOnce == ASSUME IndInv, FlowInv, OrderInv, OncePart, [Next]_vars PROVE OncePart'
  <1>1. CASE LibraryStep
    BY <1>1, FailOnce, ConnFailedOnce, ConnClosingOnce, ExecConnOnce, ExecPendingOnce, ExecOnce,
       RetryOnce, AskingOnce, OnReplyAskingOnce, DestroyOnce, RunPendingOnce, ResetSlotsOnce,
       ResetOnce, ProcOnce, ConnectionReleaseOnce, FreeContextOnce, HiredisOnce, LoadEndOnce,
       ReloadSlotsOnce, ReloadExecOnce, LoadFailedOnce, ReleaseOnce, ResetBeginOnce, ProcConnOnce,
       ConnectedOnce, HandsOnOnce, AskOnce, AskPopOnce, PopOnce
    DEF LibraryStep
  <1>2. CASE NetworkStep
    BY <1>2, NetworkOnce
  <1>3. CASE UserReturn \/ Proc \/ UserStep
    BY <1>3, UserOnce, UserExecOnce, UserConnectOnce DEF Proc, UserStep
  <1>4. CASE Crash \/ Idle \/ UNCHANGED vars
    <2>1. UNCHANGED <<stack, timer_pending, slot_pending_, reply_list_, replies>>
      BY <1>4 DEF Crash, UseAfterFree, Idle, vars, stackVars, hiredisVars, connVars, clusterVars,
         tableVars, timerVars
    <2> QED
      BY <1>4, <2>1, SameOnce DEF Crash, UseAfterFree, Idle, vars, cmdVars
  <1> QED
    BY <1>1, <1>2, <1>3, <1>4 DEF Next

-----------------------------------------------------------------------------
(* How many hold a command                                                 *)

LEMMA PlacesOf ==
  ASSUME NEW s, NEW v, NEW P, P = {j \in DOMAIN s : s[j] \in v}, ~TwiceOf(s, v)
  PROVE  /\ HasOf(s, v) => \E i : P = {i}
         /\ ~HasOf(s, v) => P = {}
  BY DEF HasOf, TwiceOf

\* The frames that hold c are those Owns names.
LEMMA CallsAreOwners ==
  ASSUME IndInv, OrderInv, NEW c, OnceAt(c), cmd_st[c] = "live", NEW d \in Heights
  PROVE  Owns(Pile[d], c) <=> OwnsAt(d, c)
  <1>1. Len(stack) \in Nat /\ DOMAIN stack = 1 .. Len(stack)
    BY StackFrames DEF StackSeq
  <1>2. \A e \in Heights : Len(stack) - e \in DOMAIN stack /\ Pile[e] = stack[Len(stack) - e]
    BY <1>1 DEF Heights, Pile
  <1>3. \A i \in DOMAIN stack : Len(stack) - i \in Heights /\ Pile[Len(stack) - i] = stack[i]
    <2>1. ASSUME NEW i \in DOMAIN stack
          PROVE  Len(stack) - i \in Heights /\ Len(stack) - (Len(stack) - i) = i
      BY <1>1 DEF Heights
    <2> QED
      BY <1>2, <2>1
  <1>4. Leaving(c) <=> \E e \in Heights : Leaver(Pile[e], c)
    BY <1>2, <1>3 DEF Leaving, Leaver
  <1>5. ASSUME d + 1 \in Heights, Leaver(Pile[d + 1], c) PROVE Pile[d].op \in {"asking", "retry"} /\ Leaving(c)
    <2>1. (d + 1) - 1 = d
      BY <1>1 DEF Heights
    <2>2. FormAt(d + 1)
      BY <1>5 DEF OrderInv, FormPart
    <2> QED
      BY <1>4, <1>5, <2>1, <2>2 DEF FormAt, Leaver
  <1>6. ASSUME Owns(Pile[d], c) PROVE OwnsAt(d, c)
    BY <1>5, <1>6 DEF Owns, OwnsAt, Owner, OwnerOps
  <1>7. ASSUME OwnsAt(d, c) PROVE Owns(Pile[d], c)
    <2>1. d \in InCalls(c)
      BY <1>7 DEF InCalls
    <2>2. Leaving(c) => Pile[d].op = "destroy"
      BY <1>4, <2>1 DEF OnceAt
    <2> QED
      BY <1>7, <2>2 DEF Owns, OwnsAt, Owner, OwnerOps
  <1> QED
    BY <1>6, <1>7

LEMMA CountCalls ==
  ASSUME IndInv, OrderInv, NEW c, OnceAt(c), cmd_st[c] = "live"
  PROVE  /\ InCalls(c) = {} => InStack(c) = {}
         /\ \A d \in Heights : InCalls(c) = {d} => \E i : InStack(c) = {i}
  <1>1. Len(stack) \in Nat /\ DOMAIN stack = 1 .. Len(stack)
    BY StackFrames DEF StackSeq
  <1>2. \A e \in Heights : Len(stack) - e \in DOMAIN stack /\ Pile[e] = stack[Len(stack) - e]
    BY <1>1 DEF Heights, Pile
  <1>3. \A i \in DOMAIN stack : Len(stack) - i \in Heights /\ Len(stack) - (Len(stack) - i) = i
    BY <1>1 DEF Heights
  <1>4. \A e \in Heights : Owns(Pile[e], c) <=> e \in InCalls(c)
    BY CallsAreOwners DEF InCalls
  <1>5. \A i \in DOMAIN stack : i \in InStack(c) <=> Len(stack) - i \in InCalls(c)
    BY <1>2, <1>3, <1>4 DEF InStack
  <1>6. \A i \in InStack(c) : i \in DOMAIN stack
    BY DEF InStack
  <1>7. InCalls(c) = {} => InStack(c) = {}
    BY <1>5, <1>6
  <1>8. ASSUME NEW d \in Heights, InCalls(c) = {d} PROVE \E i : InStack(c) = {i}
    <2>1. PICK n : n = Len(stack) - d
      OBVIOUS
    <2>2. n \in DOMAIN stack /\ Len(stack) - n = d
      BY <1>1, <1>2, <2>1 DEF Heights
    <2>3. n \in InStack(c)
      BY <1>5, <1>8, <2>2
    <2>4. ASSUME NEW i \in InStack(c) PROVE i = n
      <3>1. Len(stack) - i = d
        BY <1>5, <1>6, <1>8, <2>4
      <3> QED
        BY <1>3, <1>6, <2>1, <2>4, <3>1
    <2>5. InStack(c) = {n}
      BY <2>3, <2>4
    <2> QED
      BY <2>5
  <1> QED
    BY <1>7, <1>8

LEMMA CountQueues ==
  ASSUME IndInv, NEW c, \A x \in Queues : ~Twice(x, c)
  PROVE  /\ <<"timer", 0>> \notin InQueues(c) => InTimer(c) = {}
         /\ <<"timer", 0>> \in InQueues(c) => \E i : InTimer(c) = {i}
         /\ <<"pending", 0>> \notin InQueues(c) => InPending(c) = {}
         /\ <<"pending", 0>> \in InQueues(c) => \E i : InPending(c) = {i}
         /\ InAsking(c) = {k \in ConnIds : <<"asking", k>> \in InQueues(c)}
         /\ (\A k \in ConnIds : <<"list", k>> \notin InQueues(c)) => InReplyList(c) = {}
         /\ \A k \in ConnIds : InQueues(c) = {<<"list", k>>} => \E p : InReplyList(c) = {p}
  <1>1. \A x \in Queues : x \in InQueues(c) <=> HasOf(QueueAt(x), Marks(x, c))
    BY DEF InQueues, Has
  <1>2. \A x \in Queues : ~TwiceOf(QueueAt(x), Marks(x, c))
    BY DEF Twice
  <1>3. /\ <<"timer", 0>> \notin InQueues(c) => InTimer(c) = {}
        /\ <<"timer", 0>> \in InQueues(c) => \E i : InTimer(c) = {i}
    <2>1. PICK x : x = <<"timer", 0>>
      OBVIOUS
    <2>2. x \in Queues /\ QueueAt(x) = timer_pending /\ Marks(x, c) = [at : Nat, cmd : {c}]
      BY <2>1, QueueNames, QueueValues, MarkValues
    <2>3. timer_pending \in Seq([at : Nat, cmd : Created])
      BY DEF IndInv, QueuePart
    <2>4. \A e \in [at : Nat, cmd : Created] : e \in [at : Nat, cmd : {c}] <=> e.cmd = c
      OBVIOUS
    <2>5. \A i \in DOMAIN timer_pending : timer_pending[i] \in [at : Nat, cmd : Created]
      <3>1. PICK S : S = [at : Nat, cmd : Created]
        OBVIOUS
      <3>2. timer_pending \in Seq(S)
        BY <2>3, <3>1
      <3>3. \A i \in DOMAIN timer_pending : timer_pending[i] \in S
        BY <3>2
      <3> QED
        BY <3>1, <3>3
    <2>6. InTimer(c) = {i \in DOMAIN timer_pending : timer_pending[i] \in Marks(x, c)}
      BY <2>2, <2>4, <2>5 DEF InTimer
    <2>7. x \in InQueues(c) <=> HasOf(timer_pending, Marks(x, c))
      BY <1>1, <2>2
    <2>8. ~TwiceOf(timer_pending, Marks(x, c))
      BY <1>2, <2>2
    <2>9. PICK P, v : P = InTimer(c) /\ v = Marks(x, c)
      OBVIOUS
    <2>10. (HasOf(timer_pending, v) => \E i : P = {i}) /\ (~HasOf(timer_pending, v) => P = {})
      <3>1. P = {j \in DOMAIN timer_pending : timer_pending[j] \in v} /\ ~TwiceOf(timer_pending, v)
        BY <2>6, <2>8, <2>9
      <3> QED
        BY <3>1, PlacesOf
    <2> QED
      BY <2>1, <2>7, <2>9, <2>10
  <1>4. /\ <<"pending", 0>> \notin InQueues(c) => InPending(c) = {}
        /\ <<"pending", 0>> \in InQueues(c) => \E i : InPending(c) = {i}
    <2>1. PICK x : x = <<"pending", 0>>
      OBVIOUS
    <2>2. x \in Queues /\ QueueAt(x) = slot_pending_ /\ Marks(x, c) = {c}
      BY <2>1, QueueNames, QueueValues, MarkValues
    <2>3. InPending(c) = {i \in DOMAIN slot_pending_ : slot_pending_[i] \in Marks(x, c)}
      BY <2>2 DEF InPending
    <2>7. x \in InQueues(c) <=> HasOf(slot_pending_, Marks(x, c))
      BY <1>1, <2>2
    <2>8. ~TwiceOf(slot_pending_, Marks(x, c))
      BY <1>2, <2>2
    <2>9. PICK P, v : P = InPending(c) /\ v = Marks(x, c)
      OBVIOUS
    <2>10. (HasOf(slot_pending_, v) => \E i : P = {i}) /\ (~HasOf(slot_pending_, v) => P = {})
      <3>1. P = {j \in DOMAIN slot_pending_ : slot_pending_[j] \in v} /\ ~TwiceOf(slot_pending_, v)
        BY <2>3, <2>8, <2>9
      <3> QED
        BY <3>1, PlacesOf
    <2> QED
      BY <2>1, <2>7, <2>9, <2>10
  <1>5. InAsking(c) = {k \in ConnIds : <<"asking", k>> \in InQueues(c)}
    <2>1. ASSUME NEW k \in ConnIds
          PROVE  [fn |-> "on_reply_asking", c |-> c] \in Elems(replies[k]) <=> <<"asking", k>> \in InQueues(c)
      <3>1. PICK x : x = <<"asking", k>>
        OBVIOUS
      <3>2. /\ x \in Queues /\ QueueAt(x) = replies[k]
            /\ Marks(x, c) = {[fn |-> "on_reply_asking", c |-> c]}
        BY <3>1, QueueNames, QueueValues, MarkValues
      <3>3. HasOf(replies[k], {[fn |-> "on_reply_asking", c |-> c]}) <=>
              [fn |-> "on_reply_asking", c |-> c] \in Elems(replies[k])
        BY DEF HasOf, Elems
      <3> QED
        BY <1>1, <3>1, <3>2, <3>3
    <2> QED
      BY <2>1 DEF InAsking
  <1> DEFINE at(j) == {j} \X {n \in DOMAIN reply_list_[j] : reply_list_[j][n] = c}
  <1>6. InReplyList(c) = UNION {at(j) : j \in ConnIds}
    BY DEF InReplyList
  <1>7. \A p : p \in InReplyList(c) <=> \E j \in ConnIds : \E n \in DOMAIN reply_list_[j] :
                                          reply_list_[j][n] = c /\ p = <<j, n>>
    BY <1>6
  <1> HIDE DEF at
  <1>8. ASSUME NEW k \in ConnIds
        PROVE  /\ <<"list", k>> \in Queues /\ QueueAt(<<"list", k>>) = reply_list_[k]
               /\ Marks(<<"list", k>>, c) = {c}
    BY QueueNames, QueueValues, MarkValues
  <1>9. ASSUME NEW k \in ConnIds, NEW n \in DOMAIN reply_list_[k], reply_list_[k][n] = c
        PROVE  <<"list", k>> \in InQueues(c)
    BY <1>1, <1>8, <1>9 DEF HasOf
  <1>10. (\A k \in ConnIds : <<"list", k>> \notin InQueues(c)) => InReplyList(c) = {}
    BY <1>7, <1>9
  <1>11. ASSUME NEW k \in ConnIds, InQueues(c) = {<<"list", k>>} PROVE \E p : InReplyList(c) = {p}
    <2>1. PICK x : x = <<"list", k>>
      OBVIOUS
    <2>2. HasOf(reply_list_[k], {c}) /\ ~TwiceOf(reply_list_[k], {c})
      BY <1>1, <1>2, <1>8, <1>11
    <2>3. PICK i \in DOMAIN reply_list_[k] : reply_list_[k][i] = c
      BY <2>2 DEF HasOf
    <2>4. \A n \in DOMAIN reply_list_[k] : reply_list_[k][n] = c => n = i
      BY <2>2, <2>3 DEF TwiceOf
    <2>5. ASSUME NEW j \in ConnIds, NEW n \in DOMAIN reply_list_[j], reply_list_[j][n] = c
          PROVE  j = k
      <3>1. <<"list", j>> \in InQueues(c)
        BY <1>9, <2>5
      <3> QED
        BY <1>11, <3>1
    <2>6. InReplyList(c) = {<<k, i>>}
      BY <1>7, <2>3, <2>4, <2>5
    <2> QED
      BY <2>6
  <1> QED
    BY <1>3, <1>4, <1>5, <1>10, <1>11

LEMMA HoldersCount == ASSUME IndInv, OrderInv, OncePart PROVE EachCommandHeldOnce
  <1> SUFFICES ASSUME NEW c \in CmdIds, cmd_st[c] = "live", ~LoadCmd(c) PROVE Holders(c) = 1
    BY DEF EachCommandHeldOnce
  <1>1. Cardinality({}) = 0 /\ \A y : Cardinality({y}) = 1
    BY FS_EmptySet, FS_Singleton
  <1>2. OnceAt(c)
    BY DEF OncePart, OnceIds
  <1>3. /\ \/ InQueues(c) = {} /\ \E d \in Heights : InCalls(c) = {d}
           \/ InCalls(c) = {} /\ \E x \in Queues : InQueues(c) = {x}
        /\ \A x \in Queues : ~Twice(x, c)
    BY <1>2 DEF OnceAt
  <1>4. /\ InCalls(c) = {} => InStack(c) = {}
        /\ \A d \in Heights : InCalls(c) = {d} => \E i : InStack(c) = {i}
    BY <1>2, CountCalls
  <1>5. /\ <<"timer", 0>> \notin InQueues(c) => InTimer(c) = {}
        /\ <<"timer", 0>> \in InQueues(c) => \E i : InTimer(c) = {i}
        /\ <<"pending", 0>> \notin InQueues(c) => InPending(c) = {}
        /\ <<"pending", 0>> \in InQueues(c) => \E i : InPending(c) = {i}
        /\ InAsking(c) = {k \in ConnIds : <<"asking", k>> \in InQueues(c)}
        /\ (\A k \in ConnIds : <<"list", k>> \notin InQueues(c)) => InReplyList(c) = {}
        /\ \A k \in ConnIds : InQueues(c) = {<<"list", k>>} => \E p : InReplyList(c) = {p}
    BY <1>3, CountQueues
  <1>6. \A a, b : /\ <<"timer", 0>> # <<"pending", 0>> /\ <<"timer", 0>> # <<"list", a>>
                  /\ <<"timer", 0>> # <<"asking", a>> /\ <<"pending", 0>> # <<"list", a>>
                  /\ <<"pending", 0>> # <<"asking", a>> /\ <<"list", a>> # <<"asking", b>>
                  /\ <<"asking", a>> = <<"asking", b>> => a = b
    OBVIOUS
  <1>7. CASE InQueues(c) = {} /\ \E d \in Heights : InCalls(c) = {d}
    <2>1. InTimer(c) = {} /\ InPending(c) = {} /\ InAsking(c) = {} /\ InReplyList(c) = {}
      BY <1>5, <1>7
    <2>2. Cardinality(InStack(c)) = 1
      BY <1>1, <1>4, <1>7
    <2> QED
      BY <1>1, <2>1, <2>2 DEF Holders
  <1>8. ASSUME NEW x \in Queues, InCalls(c) = {}, InQueues(c) = {x} PROVE Holders(c) = 1
    <2>1. InStack(c) = {}
      BY <1>4, <1>8
    <2>2. CASE x = <<"timer", 0>>
      <3>1. InPending(c) = {} /\ InAsking(c) = {} /\ InReplyList(c) = {}
        BY <1>5, <1>6, <1>8, <2>2
      <3>2. Cardinality(InTimer(c)) = 1
        BY <1>1, <1>5, <1>8, <2>2
      <3> QED
        BY <1>1, <2>1, <3>1, <3>2 DEF Holders
    <2>3. CASE x = <<"pending", 0>>
      <3>1. InTimer(c) = {} /\ InAsking(c) = {} /\ InReplyList(c) = {}
        BY <1>5, <1>6, <1>8, <2>3
      <3>2. Cardinality(InPending(c)) = 1
        BY <1>1, <1>5, <1>8, <2>3
      <3> QED
        BY <1>1, <2>1, <3>1, <3>2 DEF Holders
    <2>4. ASSUME NEW k \in ConnIds, x = <<"list", k>> PROVE Holders(c) = 1
      <3>1. InTimer(c) = {} /\ InPending(c) = {} /\ InAsking(c) = {}
        BY <1>5, <1>6, <1>8, <2>4
      <3>2. Cardinality(InReplyList(c)) = 1
        BY <1>1, <1>5, <1>8, <2>4
      <3> QED
        BY <1>1, <2>1, <3>1, <3>2 DEF Holders
    <2>5. ASSUME NEW k \in ConnIds, x = <<"asking", k>> PROVE Holders(c) = 1
      <3>1. InTimer(c) = {} /\ InPending(c) = {} /\ InReplyList(c) = {}
        BY <1>5, <1>6, <1>8, <2>5
      <3>2. InAsking(c) = {k}
        BY <1>5, <1>6, <1>8, <2>5
      <3>3. Cardinality(InAsking(c)) = 1
        BY <1>1, <3>2
      <3> QED
        BY <1>1, <2>1, <3>1, <3>3 DEF Holders
    <2> QED
      BY <2>2, <2>3, <2>4, <2>5, QueueNames
  <1> QED
    BY <1>3, <1>7, <1>8

\* No path through redirections, reloads, resets and nested calls takes a
\* command that another one still holds, or lets go of one without handing it
\* on: the calls and queues that hold a live command are always one.
THEOREM OnceInvariance == Spec => [](IndInv /\ FlowInv /\ OrderInv /\ OncePart)
  <1>1. Init => OncePart
    <2>1. ASSUME Init, NEW c \in OnceIds PROVE OnceAt(c)
      <3>1. c \in CmdIds /\ cmd_st[c] # "live"
        BY <2>1 DEF Init, RuntimeInit, OnceIds
      <3> QED
        BY <3>1 DEF OnceAt
    <2> QED
      BY <2>1 DEF OncePart
  <1>2. IndInv /\ FlowInv /\ OrderInv /\ OncePart /\ [Next]_vars => OncePart'
    BY NextOnce
  <1> QED
    BY <1>1, <1>2, OrderInvariance, PTL DEF Spec

\* Every live command of the application, and every AUTH, is in exactly one
\* place: a reply list, the retry queue, the list that waits for the slot table,
\* an outstanding ASKING, or a call under way.  None is lost without an answer,
\* and none is sent or destroyed twice.
THEOREM CommandsHeldOnce == Spec => []EachCommandHeldOnce
  <1>1. IndInv /\ OrderInv /\ OncePart => EachCommandHeldOnce
    BY HoldersCount
  <1> QED
    BY <1>1, OnceInvariance, PTL

-----------------------------------------------------------------------------
(***************************************************************************)
(* With a password set, no command overtakes the AUTH command of its       *)
(* connection, as long as hiredis marks a broken context as disconnecting  *)
(* before it calls the outstanding callbacks (ErrSetsDisconnecting):       *)
(* otherwise AUTH itself may be retried, on another connection.            *)
(*                                                                         *)
(* As in RawFlowProofs the AUTH command of one connection is followed from *)
(* its creation on: it is on top of the stack until it is sent, or fails;  *)
(* then it is the first of the queue; then it is being answered, which     *)
(* nothing interrupts; then it has been called back for good.              *)
(***************************************************************************)

\* hiredis is in the connect callback of a context that could not connect.
FailedConnect(k) == 0 \in Heights /\ Pile[0].op = "h_connect_failed" /\ Pile[0].k = k

\* A broken context is marked, unless its connect callback is still running.
MarkedPart == \A k \in ConnIds : ctx_err[k] # "OK" => disconnecting[k] \/ FailedConnect(k)

\* Where the AUTH command of connection k is.
AuthOnTop(k) ==
  /\ stack # <<>> /\ replies[k] = <<>>
  /\ Top.c = AuthCmd(k)
  /\ \/ Top.op = "destroy_cmd"
     \/ /\ Top.op = "exec_conn" /\ Top.k = k
        /\ conn_status_[k] # "DISCONNECTED" /\ ~disconnecting[k] /\ ttl_[AuthCmd(k)] > 0
AuthFirst(k) ==
  replies[k] # <<>> /\ Head(replies[k]).fn = "on_reply" /\ Head(replies[k]).c = AuthCmd(k)
AuthAnswered(k) ==
  /\ stack # <<>> /\ Top.op \in HandedOps
  /\ Top.k = k /\ Top.c = AuthCmd(k) /\ Top.a \in {"ok", "error", "null"}
AuthCalled(k) == calls[AuthCmd(k)] = 1

AuthSeen(k) == AuthOnTop(k) \/ AuthFirst(k) \/ AuthAnswered(k) \/ AuthCalled(k)

AuthPart == \A k \in ConnIds : k <= nconn => AuthSeen(k)

-----------------------------------------------------------------------------
(* Broken contexts are marked                                              *)

\* The lowest frame stays when another one runs.
LEMMA FailedKept ==
  ASSUME StackSeq, NEW k, FailedConnect(k), NEW h, Keep(h), Len(stack) <= h + 1,
         Top.op = "h_connect_failed" => h = Len(stack)
  PROVE  FailedConnect(k)'
  <1>1. Len(stack) \in Nat /\ h \in Nat /\ Len(stack') \in Nat /\ Len(stack') >= h /\ h <= Len(stack)
    BY PileFrames DEF Keep
  <1>2. Len(stack) >= 1
    BY <1>1 DEF FailedConnect, Heights
  <1>3. stack # <<>>
    BY <1>2
  <1>4. h >= 1
    <2>1. SUFFICES ASSUME h = 0 PROVE FALSE
      BY <1>1
    <2>2. Len(stack) - 1 = 0 /\ h # Len(stack)
      <3>1. \A n \in Nat : n >= 1 /\ n <= 0 + 1 => n - 1 = 0 /\ 0 # n
        OBVIOUS
      <3> QED
        BY <1>1, <1>2, <2>1, <3>1
    <2>3. Pile[0] = Top
      BY <1>3, <2>2, PileFrames
    <2> QED
      BY <2>2, <2>3 DEF FailedConnect
  <1>5. 0 \in 0 .. h - 1 /\ 0 \in 0 .. Len(stack') - 1
    BY <1>1, <1>4
  <1>6. Pile'[0] = Pile[0]
    BY <1>5 DEF Keep
  <1> QED
    BY <1>5, <1>6 DEF FailedConnect, Heights

LEMMA MarkedKept ==
  ASSUME StackSeq, MarkedPart, UNCHANGED ctx_err,
         \A k \in ConnIds : disconnecting[k] => disconnecting'[k],
         NEW h, Keep(h), Len(stack) <= h + 1,
         Top.op = "h_connect_failed" => h = Len(stack)
  PROVE  MarkedPart'
  BY FailedKept DEF MarkedPart

LEMMA SideMarked ==
  ASSUME StackSeq, MarkedPart, UNCHANGED ctx_err,
         \A k \in ConnIds : disconnecting[k] => disconnecting'[k],
         SideMove, stack # <<>> => Top.op \notin DeliverOps \cup {"h_connect_failed"}
  PROVE  MarkedPart'
  <1>1. PICK h : SideStack(h)
    BY SideKeeps
  <1>2. Keep(h) /\ Len(stack) <= h + 1
    BY <1>1 DEF SideStack
  <1>3. CASE stack = <<>>
    <2>1. \A k \in ConnIds : ~FailedConnect(k)
      BY <1>3, PileFrames DEF FailedConnect, Heights
    <2> QED
      BY <2>1 DEF MarkedPart
  <1> QED
    BY <1>2, <1>3, MarkedKept

\* While a reply is delivered, no connect callback is running.
LEMMA DeliverMarked ==
  ASSUME IndInv, FlowInv, OrderInv, MarkedPart, NEW op \in DeliverOps, At(op)
  PROVE  \A k \in ConnIds : ctx_err[k] # "OK" => disconnecting[k]
  <1>1. /\ Len(stack) \in Nat /\ Len(stack) - 1 \in Nat /\ Pile[Len(stack) - 1] = Top /\ Top.op = op
        /\ \A e \in 0 .. Len(stack) - 2 : Pile[e].op \in BelowOps
    BY DeliverTop
  <1>2. Pile[0].op \in DeliverOps \cup BelowOps
    <2>1. CASE Len(stack) - 1 = 0
      BY <1>1, <2>1
    <2>2. CASE Len(stack) - 1 > 0
      <3>1. 0 \in 0 .. Len(stack) - 2
        BY <1>1, <2>2
      <3> QED
        BY <1>1, <3>1
    <2> QED
      BY <1>1, <2>1, <2>2
  <1>3. \A k \in ConnIds : ~FailedConnect(k)
    BY <1>2 DEF FailedConnect, DeliverOps, HandedOps, BelowOps
  <1> QED
    BY <1>3 DEF MarkedPart

LEMMA HiredisMarked ==
  ASSUME IndInv, OrderInv, MarkedPart, ErrSetsDisconnecting,
         \/ ByHiredis(redisAsyncDisconnect) \/ ByHiredis(ConnectEnd)
         \/ ByHiredis(ConnectFailedEnd) \/ ByHiredis(ReplyEnd) \/ ByHiredis(FreeContextEnd)
  PROVE  MarkedPart'
  <1>0. StackSeq
    BY StackFrames
  <1>1. PICK k : k = Top.k
    OBVIOUS
  <1>2. PICK f : f = F("h_free", 0, k, "none")
    OBVIOUS
  <1>3. PICK op \in BottomOps \cup {"redisAsyncDisconnect", "h_free_end"} : At(op)
    BY DEF ByHiredis, redisAsyncDisconnect, ConnectEnd, ConnectFailedEnd, ReplyEnd, FreeContextEnd,
       BottomOps
  <1>4. stack # <<>> /\ Top.op = op /\ k \in ConnIds
    <2>1. op \in ConnOps
      BY DEF ConnOps, BottomOps
    <2> QED
      BY <1>1, <1>3, <2>1, TopCmd DEF IndInv
  <1>5. disconnecting \in [ConnIds -> BOOLEAN]
    BY DEF IndInv, ContextPart
  <1>6. UNCHANGED ctx_err /\ \A j \in ConnIds : disconnecting[j] => disconnecting'[j]
    BY <1>5 DEF ByHiredis, redisAsyncDisconnect, ConnectEnd, ConnectFailedEnd, ReplyEnd, FreeContextEnd
  <1>7. Len(stack) \in Nat /\ Len(stack) - 1 \in Heights /\ Pile[Len(stack) - 1] = Top
        /\ Len(stack) <= (Len(stack) - 1) + 1
    BY <1>0, <1>4, HeightOf
  <1>8. CASE Top.op = "h_connect_failed"
    <2>1. disconnecting'[k]
      BY <1>1, <1>4, <1>5, <1>8 DEF ByHiredis, redisAsyncDisconnect, ConnectEnd, ConnectFailedEnd,
         ReplyEnd, FreeContextEnd, At
    <2>2. Len(stack) - 1 = 0
      BY <1>7, <1>8 DEF OrderInv, FormPart, FormAt, BottomOps
    <2>3. \A j \in ConnIds : FailedConnect(j) => j = k
      BY <1>1, <1>7, <2>2 DEF FailedConnect
    <2> QED
      BY <1>6, <2>1, <2>3 DEF MarkedPart
  <1>9. CASE Top.op # "h_connect_failed"
    <2>1. Return \/ Continue(<<>>) \/ Continue(<<f>>)
      BY <1>1, <1>2 DEF ByHiredis, redisAsyncDisconnect, ConnectEnd, ConnectFailedEnd,
         ReplyEnd, FreeContextEnd
    <2>2. PICK h : h = Len(stack) - 1
      OBVIOUS
    <2>3. Keep(h)
      <3>1. PICK no : no = <<>>
        OBVIOUS
      <3>2. no \in Seq({})
        BY <3>1
      <3>3. Return => Continue(no)
        BY <1>4, <3>1 DEF Return, Continue, Rest
      <3>4. Continue(no) => Keep(Len(stack) - 1)
        BY <1>0, <1>4, <3>2, ContinueMany
      <3>5. Continue(<<f>>) => Keep(Len(stack) - 1)
        BY <1>0, <1>4, ContinueOne
      <3> QED
        BY <2>1, <2>2, <3>1, <3>3, <3>4, <3>5
    <2>4. Len(stack) <= h + 1
      BY <1>7, <2>2
    <2> QED
      BY <1>0, <1>6, <1>9, <2>3, <2>4, MarkedKept
  <1> QED
    BY <1>8, <1>9

LEMMA FreeMarked ==
  ASSUME IndInv, MarkedPart, ByHiredis(FreeContext)
  PROVE  MarkedPart'
  <1>0. StackSeq
    BY StackFrames
  <1>1. PICK k : k = Top.k
    OBVIOUS
  <1>2. stack # <<>> /\ Top.op = "h_free"
    BY DEF ByHiredis, FreeContext, At, Running
  <1>3. UNCHANGED <<ctx_err, disconnecting>>
    BY DEF ByHiredis, FreeContext
  <1>4. Len(stack) \in Nat /\ Len(stack) <= (Len(stack) - 1) + 1
    BY <1>0, <1>2, HeightOf
  <1>5. Keep(Len(stack) - 1)
    <2>1. CASE replies[k] # <<>>
      <3>1. PICK f : f = ReplyFrame(k, "null")
        OBVIOUS
      <3>2. PICK g : g = Top
        OBVIOUS
      <3>3. Continue(<<f, g>>)
        BY <1>1, <2>1, <3>1, <3>2 DEF ByHiredis, FreeContext
      <3> QED
        BY <1>0, <1>2, <3>3, ContinueTwo
    <2>2. CASE replies[k] = <<>>
      <3>1. PICK f, g : f = F("on_disconnected", 0, k, ctx_err[k]) /\ g = F("h_free_end", 0, k, "none")
        OBVIOUS
      <3>2. PICK fs : fs = (IF ctx_st[k] = "connected" THEN <<f>> ELSE <<>>) \o <<g>>
        OBVIOUS
      <3>3. fs \in Seq({f, g})
        BY <3>2
      <3>4. Continue(fs)
        BY <1>1, <2>2, <3>1, <3>2 DEF ByHiredis, FreeContext
      <3> QED
        BY <1>0, <1>2, <3>3, <3>4, ContinueMany
    <2> QED
      BY <2>1, <2>2
  <1> QED
    BY <1>0, <1>2, <1>3, <1>4, <1>5, MarkedKept

LEMMA NetworkMarked ==
  ASSUME IndInv, MarkedPart, ErrSetsDisconnecting, NetworkStep
  PROVE  MarkedPart'
  <1>1. StackSeq /\ Len(stack) = 0
    BY StackFrames DEF NetworkStep, Reply, ByHiredis, ConnectDone, ConnectFailed, ReplyArrives,
       ConnectionLost, InLoop
  <1>2. \A k \in ConnIds : ctx_err[k] # "OK" => disconnecting[k]
    BY <1>1 DEF MarkedPart, FailedConnect, Heights
  <1>3. disconnecting \in [ConnIds -> BOOLEAN] /\ ctx_err \in [ConnIds -> {"OK", "IO", "OTHER"}]
    BY DEF IndInv, ContextPart
  <1>4. ASSUME NEW k \in ConnIds, ByHiredis(ConnectFailed(k)) PROVE MarkedPart'
    <2>1. PICK f, g : f = F("on_connected", 0, k, "IO") /\ g = F("h_connect_failed", 0, k, "none")
      OBVIOUS
    <2>2. Call(<<f, g>>) /\ UNCHANGED disconnecting /\ ctx_err' = [ctx_err EXCEPT ![k] = "IO"]
      BY <1>4, <2>1 DEF ByHiredis, ConnectFailed
    <2>3. Len(stack') = 2 /\ Pile'[0] = g
      BY <1>1, <2>2, CallTwo
    <2>4. FailedConnect(k)'
      BY <2>1, <2>3 DEF FailedConnect, Heights, F
    <2>5. \A j \in ConnIds : j # k => ctx_err'[j] = ctx_err[j]
      BY <1>3, <2>2
    <2> QED
      BY <1>2, <2>2, <2>4, <2>5 DEF MarkedPart
  <1>5. ASSUME NEW k \in ConnIds, NEW e, ByHiredis(ConnectionLost(k, e)) PROVE MarkedPart'
    <2>1. \A j \in ConnIds : ctx_err'[j] # "OK" => disconnecting'[j]
      BY <1>2, <1>3, <1>5 DEF ByHiredis, ConnectionLost
    <2> QED
      BY <2>1 DEF MarkedPart
  <1>6. CASE UNCHANGED <<ctx_err, disconnecting>>
    BY <1>2, <1>6 DEF MarkedPart
  <1>7. PICK k \in ConnIds : \/ ByHiredis(ConnectDone(k)) \/ ByHiredis(ConnectFailed(k)) \/ Reply(k)
                             \/ \E e : ByHiredis(ConnectionLost(k, e))
    BY DEF NetworkStep
  <1>8. ByHiredis(ConnectDone(k)) \/ Reply(k) => UNCHANGED <<ctx_err, disconnecting>>
    BY DEF ByHiredis, ConnectDone, Reply, ReplyArrives
  <1> QED
    BY <1>4, <1>5, <1>6, <1>7, <1>8

\* The other calls leave the contexts as they are.
LEMMA CommandMarked ==
  ASSUME IndInv, MarkedPart,
         \/ exec_ttl \/ exec_failed \/ exec_pending \/ exec_conn \/ exec_conn_closing
         \/ exec_conn_failed \/ retry \/ destroy_cmd \/ Destroy \/ reload_exec \/ reload_end
         \/ exec \/ reload_slots \/ asking
  PROVE  MarkedPart'
  <1>1. stack # <<>> /\ Top.op \notin DeliverOps \cup {"h_connect_failed"}
    BY DEF exec_ttl, exec_failed, exec_pending, exec_conn, exec_conn_closing, exec_conn_failed, retry,
       destroy_cmd, Destroy, destroy, reload_exec, reload_end, exec, reload_slots, asking, At, Running,
       DeliverOps, HandedOps
  <1>2. UNCHANGED <<ctx_err, disconnecting>>
    <2>1. CASE exec \/ reload_slots
      BY <2>1 DEF exec, reload_slots, WithConnection, make_connection, redisAsyncConnect, hiredisVars
    <2>2. CASE exec_conn \/ asking
      BY <2>2 DEF exec_conn, asking, redis_cmd, redisAsyncFormattedCommand, hiredisVars
    <2>3. CASE \/ exec_ttl \/ exec_failed \/ exec_pending \/ exec_conn_closing \/ exec_conn_failed
               \/ retry \/ destroy_cmd \/ Destroy \/ reload_exec \/ reload_end
      BY <2>3 DEF exec_ttl, exec_failed, exec_pending, exec_conn_closing, exec_conn_failed, retry,
         destroy_cmd, Destroy, reload_exec, reload_end, hiredisVars
    <2> QED
      BY <2>1, <2>2, <2>3
  <1>3. SideMove
    BY CommandSide, ConnectSide, WrapperSide
  <1> QED
    BY <1>1, <1>2, <1>3, StackFrames, SideMarked

LEMMA LoopMarked ==
  ASSUME IndInv, MarkedPart,
         \/ on_reply_update_slot \/ run_pending \/ on_reply_update_slot_failed
         \/ release_connection \/ release_event \/ release_end \/ ConnectionRelease
         \/ reset_begin \/ reset_slots \/ reset \/ proc \/ proc_conn \/ proc_clear
         \/ on_reply_asking \/ on_connected_wrapper \/ on_connected_end \/ on_disconnected_wrapper
  PROVE  MarkedPart'
  <1>1. stack # <<>> /\ Top.op \notin DeliverOps \cup {"h_connect_failed"}
    BY DEF on_reply_update_slot, run_pending, on_reply_update_slot_failed, release_connection,
       release_event, release_end, ConnectionRelease, connection_release, reset_begin, reset_slots,
       reset, proc, proc_conn, proc_clear, on_reply_asking, on_connected_wrapper, on_connected_end,
       on_disconnected_wrapper, At, Running, DeliverOps, HandedOps
  <1>2. UNCHANGED <<ctx_err, disconnecting>>
    BY DEF on_reply_update_slot, run_pending, on_reply_update_slot_failed, release_connection,
       release_event, release_end, ConnectionRelease, reset_begin, reset_slots, reset, proc,
       proc_conn, proc_clear, on_reply_asking, on_connected_wrapper, on_connected_end,
       on_disconnected_wrapper, hiredisVars
  <1>3. SideMove
    BY LoopSide, WrapperSide
  <1> QED
    BY <1>1, <1>2, <1>3, StackFrames, SideMarked

LEMMA UserMarked ==
  ASSUME IndInv, MarkedPart, UserReturn \/ UserStep \/ Proc
  PROVE  MarkedPart'
  <1>1. stack # <<>> => Top.op \notin DeliverOps \cup {"h_connect_failed"}
    BY DEF UserReturn, UserStep, UserExec, UserConnect, UserRelease, UserStart, UserReset, Proc,
       UserProc, InUser, InLoop, At, Running, DeliverOps, HandedOps
  <1>2. UNCHANGED <<ctx_err, disconnecting>>
    BY DEF UserReturn, UserStep, UserExec, UserConnect, UserRelease, UserStart, UserReset, Proc,
       UserProc, make_connection, redisAsyncConnect, hiredisVars
  <1>3. SideMove
    BY UserSide
  <1> QED
    BY <1>1, <1>2, <1>3, StackFrames, SideMarked

LEMMA HandedMarked ==
  ASSUME IndInv, FlowInv, OrderInv, MarkedPart,
         \/ on_reply_wrapper \/ on_reply_retry \/ on_reply_clusterdown
         \/ (\E s \in Servers : on_reply_ask(s) \/ \E i \in Slots : on_reply_moved(i, s))
         \/ ask_pop \/ CallReply \/ PopReply
  PROVE  MarkedPart'
  <1>1. \E op \in DeliverOps : At(op)
    BY DEF on_reply_wrapper, on_reply_retry, on_reply_clusterdown, on_reply_ask, on_reply_moved,
       ask_pop, CallReply, call_reply, PopReply, pop_reply, DeliverOps, HandedOps
  <1>2. UNCHANGED <<ctx_err, disconnecting>>
    <2>1. CASE \E s \in Servers : on_reply_ask(s)
      BY <2>1 DEF on_reply_ask, WithConnection, make_connection, redisAsyncConnect, hiredisVars
    <2>2. CASE \/ on_reply_wrapper \/ on_reply_retry \/ on_reply_clusterdown
               \/ (\E s \in Servers : \E i \in Slots : on_reply_moved(i, s))
               \/ ask_pop \/ CallReply \/ PopReply
      BY <2>2 DEF on_reply_wrapper, on_reply_retry, on_reply_clusterdown, on_reply_moved, ask_pop,
         CallReply, PopReply, hiredisVars
    <2> QED
      BY <2>1, <2>2
  <1> QED
    BY <1>1, <1>2, DeliverMarked DEF MarkedPart

LEMMA NextMarked ==
  ASSUME IndInv, FlowInv, OrderInv, ErrSetsDisconnecting, MarkedPart, [Next]_vars
  PROVE  MarkedPart'
  <1>1. CASE LibraryStep
    BY <1>1, CommandMarked, LoopMarked, HandedMarked, HiredisMarked, FreeMarked DEF LibraryStep
  <1>2. CASE NetworkStep
    BY <1>2, NetworkMarked
  <1>3. CASE UserReturn \/ UserStep \/ Proc
    BY <1>3, UserMarked
  <1>4. CASE Crash \/ Idle \/ UNCHANGED vars
    <2>1. UNCHANGED <<stack, ctx_err, disconnecting>>
      BY <1>4 DEF Crash, UseAfterFree, Idle, vars, stackVars, hiredisVars
    <2>2. Heights' = Heights /\ Pile' = Pile
      BY <2>1 DEF Heights, Pile
    <2> QED
      BY <2>1, <2>2 DEF MarkedPart, FailedConnect
  <1> QED
    BY <1>1, <1>2, <1>3, <1>4 DEF Next

-----------------------------------------------------------------------------
(* Steps that have nothing to do with AUTH                                 *)

LEMMA AuthIds ==
  \A k \in ConnIds : /\ AuthCmd(k) \in CmdIds /\ ~LoadCmd(AuthCmd(k)) /\ ~UserCmd(AuthCmd(k))
                     /\ \A j \in ConnIds : AuthCmd(j) = AuthCmd(k) => j = k
  BY BoundsAssumption DEF AuthCmd, CmdIds, ConnIds, LoadCmd, UserCmd, BoundsAssumption

\* An AUTH command that has been called back stays so.
LEMMA CalledStays ==
  ASSUME IndInv, [Next]_vars
  PROVE  \A k \in ConnIds : AuthCalled(k) => AuthCalled(k)'
  <1> SUFFICES ASSUME NEW k \in ConnIds, AuthCalled(k) PROVE AuthCalled(k)'
    OBVIOUS
  <1>0. PICK c : c = AuthCmd(k)
    OBVIOUS
  <1>1. c \in CmdIds /\ ~LoadCmd(c) /\ calls[c] = 1
    BY <1>0, AuthIds DEF AuthCalled
  <1>2. cmd_st[c] # "none" /\ ~callback_[c]
    BY <1>1 DEF IndInv, CmdPart
  <1>3. CmdStep
    BY NextCmdStep
  <1>4. calls'[c] = 1
    BY <1>1, <1>2, <1>3 DEF CmdStep, create, cmd_call_reply, IndInv, CmdPart, CmdTypeOK
  <1> QED
    BY <1>0, <1>4 DEF AuthCalled, AuthCmd

\* No command is put before another one, and the first one stays.
HeadsKept ==
  \A k \in ConnIds : replies[k] # <<>> => replies'[k] # <<>> /\ Head(replies'[k]) = Head(replies[k])

LEMMA FirstKept == ASSUME HeadsKept PROVE \A k \in ConnIds : AuthFirst(k) => AuthFirst(k)'
  BY DEF HeadsKept, AuthFirst, AuthCmd

\* Only AUTH commands that have not been called back need attention.
LEMMA AuthMoves ==
  ASSUME IndInv, AuthPart, [Next]_vars, UNCHANGED nconn,
         \A k \in ConnIds : AuthOnTop(k) \/ AuthFirst(k) \/ AuthAnswered(k) => AuthSeen(k)'
  PROVE  AuthPart'
  BY CalledStays DEF AuthPart, AuthSeen

\* The calls an AUTH command may be on top of the stack with.
AuthOps == HandedOps \cup {"exec_conn", "destroy_cmd"}

LEMMA QuietAuth ==
  ASSUME IndInv, AuthPart, [Next]_vars, UNCHANGED nconn, HeadsKept,
         stack # <<>> => Top.op \notin AuthOps
  PROVE  AuthPart'
  <1>1. \A k : ~AuthOnTop(k) /\ ~AuthAnswered(k)
    BY DEF AuthOnTop, AuthAnswered, AuthOps
  <1> QED
    BY <1>1, FirstKept, AuthMoves DEF AuthSeen

LEMMA SameHeads == ASSUME UNCHANGED replies PROVE HeadsKept
  BY DEF HeadsKept

LEMMA CommandAuth ==
  ASSUME IndInv, AuthPart, [Next]_vars,
         \/ exec_ttl \/ exec_failed \/ exec_pending \/ retry \/ Destroy \/ reload_exec \/ reload_end
         \/ on_reply_update_slot \/ run_pending \/ on_reply_update_slot_failed
  PROVE  AuthPart'
  <1>1. SameQueues
    BY QuietCommand
  <1>2. Top.op \notin AuthOps
    BY DEF exec_ttl, exec_failed, exec_pending, retry, Destroy, destroy, reload_exec, reload_end,
       on_reply_update_slot, run_pending, on_reply_update_slot_failed, At, Running, AuthOps, HandedOps
  <1> QED
    BY <1>1, <1>2, SameHeads, QuietAuth DEF SameQueues

LEMMA LoopAuth ==
  ASSUME IndInv, AuthPart, [Next]_vars,
         \/ release_connection \/ release_event \/ release_end
         \/ reset_begin \/ reset_slots \/ reset \/ proc \/ proc_conn \/ proc_clear
         \/ on_reply_asking \/ on_connected_wrapper \/ on_connected_end \/ on_disconnected_wrapper
  PROVE  AuthPart'
  <1>1. SameQueues
    BY QuietLoop
  <1>2. Top.op \notin AuthOps
    BY DEF release_connection, release_event, release_end, reset_begin, reset_slots, reset, proc,
       proc_conn, proc_clear, on_reply_asking, on_connected_wrapper, on_connected_end,
       on_disconnected_wrapper, At, Running, AuthOps, HandedOps
  <1> QED
    BY <1>1, <1>2, SameHeads, QuietAuth DEF SameQueues

LEMMA UserAuth ==
  ASSUME IndInv, AuthPart, [Next]_vars,
         \/ UserReturn \/ Proc \/ UserStart \/ UserReset \/ (\E s \in Servers : UserRelease(s))
         \/ (\E i \in Slots \cup {-1} : UserExec(i))
  PROVE  AuthPart'
  <1>1. SameQueues
    BY QuietUser
  <1>2. stack # <<>> => Top.op \notin AuthOps
    BY DEF UserReturn, Proc, UserProc, UserStart, UserReset, UserRelease, UserExec, InUser, InLoop,
       At, Running, AuthOps, HandedOps
  <1> QED
    BY <1>1, <1>2, SameHeads, QuietAuth DEF SameQueues

LEMMA OtherAuth ==
  ASSUME IndInv, AuthPart, [Next]_vars,
         \/ ConnectionRelease \/ ask_pop
         \/ ByHiredis(redisAsyncDisconnect) \/ ByHiredis(ConnectEnd)
         \/ ByHiredis(ConnectFailedEnd) \/ ByHiredis(ReplyEnd) \/ ByHiredis(FreeContextEnd)
         \/ (\E k \in ConnIds : \/ ByHiredis(ConnectDone(k)) \/ ByHiredis(ConnectFailed(k))
                                \/ \E e : ByHiredis(ConnectionLost(k, e)))
  PROVE  AuthPart'
  <1>1. UNCHANGED <<replies, nconn>>
    BY DEF ConnectionRelease, ask_pop, ByHiredis, redisAsyncDisconnect, ConnectEnd, ConnectFailedEnd,
       ReplyEnd, FreeContextEnd, ConnectDone, ConnectFailed, ConnectionLost, hiredisVars, clusterVars,
       mapVars
  <1>2. stack # <<>> => Top.op \notin AuthOps
    BY DEF ConnectionRelease, connection_release, ask_pop, ByHiredis, redisAsyncDisconnect, ConnectEnd,
       ConnectFailedEnd, ReplyEnd, FreeContextEnd, ConnectDone, ConnectFailed, ConnectionLost, InLoop,
       At, Running, AuthOps, HandedOps
  <1> QED
    BY <1>1, <1>2, SameHeads, QuietAuth

\* A command goes to the end of a queue.
LEMMA AppendHeads ==
  ASSUME IndInv, NEW k \in ConnIds, NEW e, replies' = [replies EXCEPT ![k] = Append(@, e)]
  PROVE  /\ HeadsKept
         /\ replies[k] = <<>> => replies'[k] # <<>> /\ Head(replies'[k]) = e
  <1>1. replies \in [ConnIds -> Seq(Entries)]
    BY DEF IndInv, QueuePart
  <1>2. PICK q \in Seq(Entries) : q = replies[k]
    BY <1>1
  <1>3. replies'[k] = Append(q, e) /\ \A j \in ConnIds : j # k => replies'[j] = replies[j]
    BY <1>1, <1>2
  <1>4. PICK T : q \in Seq(T) /\ e \in T
    <2>1. q \in Seq(Entries \cup {e})
      BY SeqMono
    <2> QED
      BY <2>1
  <1>5. /\ Append(q, e) # <<>>
        /\ q # <<>> => Head(Append(q, e)) = Head(q)
        /\ q = <<>> => Head(Append(q, e)) = e
    <2>1. PICK s : s = Append(q, e)
      OBVIOUS
    <2>2. s \in Seq(T) /\ Len(s) = Len(q) + 1 /\ Len(q) \in Nat
      BY <1>4, <2>1
    <2>3. s # <<>> /\ Head(s) = s[1]
      BY <2>2
    <2>4. ASSUME q # <<>> PROVE s[1] = q[1] /\ Head(q) = q[1]
      <3>1. Len(q) >= 1
        BY <1>4, <2>4
      <3> QED
        BY <1>4, <2>1, <3>1
    <2>5. ASSUME q = <<>> PROVE s[1] = e
      BY <2>1, <2>5
    <2> QED
      BY <2>1, <2>3, <2>4, <2>5
  <1> QED
    BY <1>2, <1>3, <1>5 DEF HeadsKept

LEMMA AskingAuth == ASSUME IndInv, AuthPart, [Next]_vars, asking PROVE AuthPart'
  <1>1. Top.op \notin AuthOps /\ Top.k \in ConnIds
    BY TopCmd DEF asking, At, AuthOps, HandedOps, IndInv, ConnOps
  <1>2. UNCHANGED nconn
    BY DEF asking, clusterVars, mapVars
  <1>3. HeadsKept
    <2>1. \/ UNCHANGED replies
          \/ \E e : replies' = [replies EXCEPT ![Top.k] = Append(@, e)]
      BY DEF asking, redisAsyncFormattedCommand, hiredisVars
    <2> QED
      BY <1>1, <2>1, SameHeads, AppendHeads
  <1> QED
    BY <1>1, <1>2, <1>3, QuietAuth

LEMMA SameAuth == ASSUME AuthPart, Crash \/ Idle \/ UNCHANGED vars PROVE AuthPart'
  <1>1. UNCHANGED <<stack, replies, disconnecting, conn_status_, ttl_, calls, nconn>>
    BY DEF Crash, UseAfterFree, Idle, vars, stackVars, hiredisVars, connVars, cmdVars, clusterVars, mapVars
  <1> QED
    BY <1>1 DEF AuthPart, AuthSeen, AuthOnTop, AuthFirst, AuthAnswered, AuthCalled, AuthCmd, Top

-----------------------------------------------------------------------------
(* AUTH is sent, or fails                                                  *)

\* What runs first after a call or a continuation.
LEMMA FirstOf ==
  ASSUME NEW S, NEW s \in Seq(S), NEW T, NEW fs \in Seq(T), fs # <<>>
  PROVE  fs \o s # <<>> /\ Head(fs \o s) = fs[1]
  <1>1. s \in Seq(S \cup T) /\ fs \in Seq(S \cup T) /\ Len(fs) >= 1
    BY SeqMono
  <1>2. Len(fs \o s) >= 1 /\ (fs \o s)[1] = fs[1] /\ fs \o s \in Seq(S \cup T)
    BY <1>1
  <1> QED
    BY <1>2

LEMMA FirstFrame ==
  ASSUME IndInv, NEW T, NEW fs \in Seq(T), fs # <<>>,
         Call(fs) \/ (stack # <<>> /\ Continue(fs))
  PROVE  stack' # <<>> /\ Top' = fs[1]
  <1>1. PICK s \in Seq(GoodFrame) : stack' = fs \o s
    <2>1. stack \in Seq(GoodFrame) /\ (stack # <<>> => Rest \in Seq(GoodFrame))
      BY TailType DEF IndInv, StackPart, Rest
    <2> QED
      BY <2>1 DEF Call, Continue
  <1> QED
    BY <1>1, FirstOf DEF Top

LEMMA OneFirst ==
  ASSUME IndInv, NEW f, Call(<<f>>) \/ (stack # <<>> /\ Continue(<<f>>))
  PROVE  stack' # <<>> /\ Top' = f
  <1>1. PICK fs : fs = <<f>>
    OBVIOUS
  <1>2. fs \in Seq({f}) /\ fs # <<>> /\ fs[1] = f
    BY <1>1
  <1> QED
    BY <1>1, <1>2, FirstFrame

LEMMA TwoFirst ==
  ASSUME IndInv, NEW f, NEW g, Call(<<f, g>>) \/ (stack # <<>> /\ Continue(<<f, g>>))
  PROVE  stack' # <<>> /\ Top' = f
  <1>1. PICK fs : fs = <<f, g>>
    OBVIOUS
  <1>2. fs \in Seq({f, g}) /\ fs # <<>> /\ fs[1] = f
    BY <1>1
  <1> QED
    BY <1>1, <1>2, FirstFrame

\* AUTH is the first command of its connection.
LEMMA SendAuth == ASSUME IndInv, AuthPart, [Next]_vars, exec_conn PROVE AuthPart'
  <1>1. PICK k, c : k = Top.k /\ c = Top.c
    OBVIOUS
  <1>2. stack # <<>> /\ Top.op = "exec_conn" /\ k \in ConnIds
    BY <1>1, TopCmd DEF exec_conn, IndInv, ConnOps
  <1>3. UNCHANGED nconn
    BY DEF exec_conn, clusterVars, mapVars
  <1>4. PICK e : e = [fn |-> "on_reply", c |-> c]
    OBVIOUS
  <1>5. replies' = [replies EXCEPT ![k] = Append(@, e)]
    BY <1>1, <1>4 DEF exec_conn, redis_cmd, redisAsyncFormattedCommand
  <1>6. HeadsKept /\ (replies[k] = <<>> => replies'[k] # <<>> /\ Head(replies'[k]) = e)
    BY <1>2, <1>5, AppendHeads
  <1>7. ASSUME NEW j \in ConnIds, AuthOnTop(j) \/ AuthFirst(j) \/ AuthAnswered(j)
        PROVE  AuthFirst(j)'
    <2>1. ~AuthAnswered(j)
      BY <1>2 DEF AuthAnswered, HandedOps
    <2>2. ASSUME AuthOnTop(j) PROVE AuthFirst(j)'
      <3>1. j = k /\ replies[k] = <<>> /\ c = AuthCmd(k)
        BY <1>1, <1>2, <2>2 DEF AuthOnTop
      <3>2. e.fn = "on_reply" /\ e.c = AuthCmd(k)
        BY <1>4, <3>1
      <3> QED
        BY <1>6, <3>1, <3>2 DEF AuthFirst, AuthCmd
    <2> QED
      BY <1>6, <1>7, <2>1, <2>2, FirstKept
  <1> QED
    BY <1>3, <1>7, AuthMoves DEF AuthSeen

\* A new connection takes it.
LEMMA NotSentAuth ==
  ASSUME IndInv, FlowInv, AuthPart, [Next]_vars, exec_conn_closing \/ exec_conn_failed
  PROVE  AuthPart'
  <1>1. Top.op = "exec_conn"
    BY DEF exec_conn_closing, exec_conn_failed, At, Running
  <1>2. UNCHANGED <<nconn, replies>>
    BY DEF exec_conn_closing, exec_conn_failed, clusterVars, mapVars, hiredisVars
  <1>3. ASSUME NEW j \in ConnIds PROVE ~AuthOnTop(j) /\ ~AuthAnswered(j)
    <2>1. ~AuthAnswered(j)
      BY <1>1 DEF AuthAnswered, HandedOps
    <2>2. SUFFICES ASSUME AuthOnTop(j) PROVE FALSE
      BY <2>1
    <2>3. /\ Top.k = j /\ Top.c = AuthCmd(j) /\ conn_status_[j] # "DISCONNECTED"
          /\ ~disconnecting[j] /\ ttl_[AuthCmd(j)] > 0
      BY <1>1, <2>2 DEF AuthOnTop
    <2>4. context_[j]
      BY <2>3 DEF FlowInv, LinkPart
    <2>5. redis_cmd_result(j) = "OK"
      BY <2>3, <2>4 DEF redis_cmd_result, Accepts
    <2>6. ttl_[AuthCmd(j)] # 0
      BY <2>3
    <2> QED
      BY <2>3, <2>5, <2>6 DEF exec_conn_closing, exec_conn_failed, Closing
  <1> QED
    BY <1>2, <1>3, SameHeads, FirstKept, AuthMoves DEF AuthSeen

\* If AUTH cannot be formatted, its callback is called.
LEMMA DestroyAuth == ASSUME IndInv, AuthPart, [Next]_vars, destroy_cmd PROVE AuthPart'
  <1>1. Top.op = "destroy_cmd" /\ Top.c \in Created
    BY TopCmd DEF destroy_cmd, IndInv, CmdOps
  <1>2. UNCHANGED <<nconn, replies>>
    BY DEF destroy_cmd, clusterVars, mapVars, hiredisVars
  <1>3. calls'[Top.c] = 1
    <2>1. cmd_call_reply(Top.c, "UNKNOWD", "null")
      BY DEF destroy_cmd, CallBack
    <2> QED
      BY <1>1, <2>1 DEF cmd_call_reply, IndInv, CmdPart, CmdTypeOK, Created
  <1>4. ASSUME NEW j \in ConnIds PROVE ~AuthAnswered(j) /\ (AuthOnTop(j) => AuthCalled(j)')
    BY <1>1, <1>3 DEF AuthAnswered, HandedOps, AuthOnTop, AuthCalled, AuthCmd
  <1> QED
    BY <1>2, <1>4, SameHeads, FirstKept, AuthMoves DEF AuthSeen

-----------------------------------------------------------------------------
(* AUTH is answered                                                        *)

LEMMA AnswerAuth ==
  ASSUME NEW k, NEW r \in {"ok", "error", "null"}, AuthFirst(k), stack' # <<>>, Top' = ReplyFrame(k, r)
  PROVE  AuthAnswered(k)'
  <1>1. ReplyFrame(k, r) = F("on_reply", AuthCmd(k), k, r)
    BY DEF AuthFirst, ReplyFrame
  <1> QED
    BY <1>1 DEF AuthAnswered, F, AuthCmd, HandedOps

\* The queues after the first reply of one has been taken.
LEMMA TakenFirst ==
  ASSUME IndInv, NEW k \in ConnIds, replies' = [replies EXCEPT ![k] = Tail(@)]
  PROVE  \A j \in ConnIds : j # k /\ AuthFirst(j) => AuthFirst(j)'
  BY DEF AuthFirst, AuthCmd, IndInv, QueuePart

LEMMA ReplyAuth ==
  ASSUME IndInv, AuthPart, [Next]_vars, NEW k \in ConnIds, Reply(k)
  PROVE  AuthPart'
  <1>1. PICK r \in Answers(Head(replies[k])) : ByHiredis(ReplyArrives(k, r))
    BY DEF Reply
  <1>2. PICK f, g : f = ReplyFrame(k, r) /\ g = F("h_reply_end", 0, k, "none")
    OBVIOUS
  <1>3. /\ InLoop /\ Call(<<f, g>>) /\ UNCHANGED nconn
        /\ replies' = [replies EXCEPT ![k] = Tail(@)]
    BY <1>1, <1>2 DEF ByHiredis, ReplyArrives, clusterVars, mapVars
  <1>4. stack' # <<>> /\ Top' = f
    BY <1>3, TwoFirst
  <1>5. ASSUME AuthFirst(k) PROVE AuthAnswered(k)'
    <2>1. ~UserCmd(Head(replies[k]).c)
      BY <1>5, AuthIds DEF AuthFirst
    <2>2. r \in {"ok", "error", "null"}
      BY <2>1 DEF Answers
    <2> QED
      BY <1>2, <1>4, <1>5, <2>2, AnswerAuth
  <1>6. \A j : ~AuthOnTop(j) /\ ~AuthAnswered(j)
    BY <1>3 DEF InLoop, AuthOnTop, AuthAnswered
  <1> QED
    BY <1>3, <1>5, <1>6, TakenFirst, AuthMoves DEF AuthSeen

\* If the context is freed before that, AUTH is answered with nullptr.
LEMMA FreeContextAuth ==
  ASSUME IndInv, AuthPart, [Next]_vars, ByHiredis(FreeContext)
  PROVE  AuthPart'
  <1>1. PICK k : k = Top.k
    OBVIOUS
  <1>2. stack # <<>> /\ Top.op = "h_free" /\ k \in ConnIds
    BY <1>1, TopCmd DEF ByHiredis, FreeContext, IndInv, ConnOps
  <1>3. UNCHANGED nconn /\ Top.op \notin AuthOps
    BY <1>2 DEF ByHiredis, FreeContext, clusterVars, mapVars, AuthOps, HandedOps
  <1>4. CASE replies[k] = <<>>
    <2>1. UNCHANGED replies
      BY <1>1, <1>4 DEF ByHiredis, FreeContext
    <2> QED
      BY <1>3, <2>1, SameHeads, QuietAuth
  <1>5. CASE replies[k] # <<>>
    <2>1. PICK f, g : f = ReplyFrame(k, "null") /\ g = Top
      OBVIOUS
    <2>2. Continue(<<f, g>>) /\ replies' = [replies EXCEPT ![k] = Tail(@)]
      BY <1>1, <1>5, <2>1 DEF ByHiredis, FreeContext
    <2>3. stack' # <<>> /\ Top' = f
      BY <1>2, <2>2, TwoFirst
    <2>4. AuthFirst(k) => AuthAnswered(k)'
      BY <2>1, <2>3, AnswerAuth
    <2>5. \A j : ~AuthOnTop(j) /\ ~AuthAnswered(j)
      BY <1>3 DEF AuthOnTop, AuthAnswered, AuthOps
    <2> QED
      BY <1>2, <1>3, <2>2, <2>4, <2>5, TakenFirst, AuthMoves DEF AuthSeen
  <1> QED
    BY <1>4, <1>5

\* Nothing interrupts the way of the answer to the callback.
LEMMA HandOnAuth ==
  ASSUME IndInv, AuthPart, [Next]_vars, UNCHANGED <<nconn, replies>>, Top.op \in HandedOps,
         \A k \in ConnIds : AuthAnswered(k) => AuthSeen(k)'
  PROVE  AuthPart'
  <1>1. \A k : ~AuthOnTop(k)
    BY DEF AuthOnTop, HandedOps
  <1> QED
    BY <1>1, SameHeads, FirstKept, AuthMoves DEF AuthSeen

LEMMA WrapperAuth == ASSUME IndInv, AuthPart, [Next]_vars, on_reply_wrapper PROVE AuthPart'
  <1>1. PICK f : f = F("call_reply", Top.c, Top.k, Top.a)
    OBVIOUS
  <1>2. Top.op \in HandedOps /\ stack # <<>> /\ Continue(<<f>>) /\ UNCHANGED <<nconn, replies>>
    BY <1>1 DEF on_reply_wrapper, At, Running, HandedOps, clusterVars, mapVars, hiredisVars
  <1>3. stack' # <<>> /\ Top' = f
    BY <1>2, OneFirst
  <1>4. \A k : AuthAnswered(k) => AuthAnswered(k)'
    BY <1>1, <1>3 DEF AuthAnswered, HandedOps, F, AuthCmd
  <1> QED
    BY <1>2, <1>4, HandOnAuth DEF AuthSeen

LEMMA CallReplyAuth ==
  ASSUME IndInv, FlowInv, OrderInv, AuthPart, [Next]_vars, CallReply
  PROVE  AuthPart'
  <1>1. PICK f : f = F("pop_reply", Top.c, Top.k, Top.a)
    OBVIOUS
  <1>2. At("call_reply") /\ "call_reply" \in DeliverOps /\ UNCHANGED <<nconn, replies>>
    BY DEF CallReply, call_reply, DeliverOps, HandedOps, clusterVars, mapVars, hiredisVars
  <1>3. stack # <<>> /\ Top.op \in HandedOps /\ context_[Top.k] /\ Top.c \in Elems(reply_list_[Top.k])
    BY <1>2, DeliverTop DEF HandedOps
  <1>4. Continue(<<f>>)
    BY <1>1, <1>3 DEF CallReply, call_reply
  <1>5. stack' # <<>> /\ Top' = f
    BY <1>3, <1>4, OneFirst
  <1>6. \A k : AuthAnswered(k) => AuthAnswered(k)'
    BY <1>1, <1>5 DEF AuthAnswered, HandedOps, F, AuthCmd
  <1> QED
    BY <1>2, <1>3, <1>6, HandOnAuth DEF AuthSeen

LEMMA PopReplyAuth ==
  ASSUME IndInv, FlowInv, OrderInv, AuthPart, [Next]_vars, PopReply
  PROVE  AuthPart'
  <1>1. At("pop_reply") /\ "pop_reply" \in DeliverOps /\ UNCHANGED <<nconn, replies>>
    BY DEF PopReply, pop_reply, DeliverOps, HandedOps, clusterVars, mapVars, hiredisVars
  <1>2. /\ Top.op \in HandedOps /\ reply_list_[Top.k] # <<>> /\ Head(reply_list_[Top.k]) = Top.c
        /\ Top.c \in Created
    BY <1>1, DeliverTop, TopCmd DEF HandedOps, IndInv, CmdOps
  <1>3. ASSUME NEW k \in ConnIds, AuthAnswered(k) PROVE AuthCalled(k)'
    <2>1. Top.c = AuthCmd(k) /\ Top.a \notin {"retry", "ask"}
      BY <1>3 DEF AuthAnswered
    <2>2. \E code : cmd_call_reply(Top.c, code, Top.a)
      BY <1>2, <2>1 DEF PopReply, pop_reply, CallBack
    <2>3. calls'[Top.c] = 1
      BY <1>2, <2>2 DEF cmd_call_reply, IndInv, CmdPart, CmdTypeOK, Created
    <2> QED
      BY <2>1, <2>3 DEF AuthCalled, AuthCmd
  <1> QED
    BY <1>1, <1>2, <1>3, HandOnAuth DEF AuthSeen

\* AUTH is neither retried nor redirected.
LEMMA RedirectAuth ==
  ASSUME IndInv, FlowInv, OrderInv, MarkedPart,
         \/ on_reply_retry \/ on_reply_clusterdown
         \/ \E s \in Servers : on_reply_ask(s) \/ \E i \in Slots : on_reply_moved(i, s)
  PROVE  \A k \in ConnIds : ~AuthOnTop(k) /\ ~AuthAnswered(k)
  <1> SUFFICES ASSUME NEW k \in ConnIds PROVE ~AuthOnTop(k) /\ ~AuthAnswered(k)
    OBVIOUS
  <1>1. At("on_reply") /\ "on_reply" \in DeliverOps
    BY DEF on_reply_retry, on_reply_clusterdown, on_reply_ask, on_reply_moved, DeliverOps, HandedOps
  <1>2. Top.op = "on_reply" /\ Top.k \in ConnIds
    BY <1>1, DeliverTop
  <1>3. ~AuthOnTop(k)
    BY <1>2 DEF AuthOnTop
  <1>4. ctx_err[Top.k] # "OK" => disconnecting[Top.k]
    BY <1>1, <1>2, DeliverMarked
  <1>5. Top.a \in Redirections
    BY <1>4 DEF on_reply_retry, on_reply_clusterdown, on_reply_ask, on_reply_moved, Redirects,
       Redirections
  <1>6. ~AuthAnswered(k)
    BY <1>5 DEF AuthAnswered, Redirections
  <1> QED
    BY <1>3, <1>6

LEMMA SameServerAuth ==
  ASSUME IndInv, FlowInv, OrderInv, MarkedPart, AuthPart, [Next]_vars,
         \/ on_reply_retry \/ on_reply_clusterdown
         \/ \E s \in Servers : \E i \in Slots : on_reply_moved(i, s)
  PROVE  AuthPart'
  <1>1. UNCHANGED <<nconn, replies>>
    BY DEF on_reply_retry, on_reply_clusterdown, on_reply_moved, clusterVars, mapVars, hiredisVars
  <1> QED
    BY <1>1, RedirectAuth, SameHeads, FirstKept, AuthMoves DEF AuthSeen

-----------------------------------------------------------------------------
(* New connections                                                         *)

AuthFrame(k, f) == f = F("exec_conn", AuthCmd(k), k, "none") \/ f = F("destroy_cmd", AuthCmd(k), 0, "none")

\* A new connection begins with its AUTH command.
LEMMA MadeAuth ==
  ASSUME IndInv, OrderInv, Auth, AuthPart, [Next]_vars, NEW k, k = nconn + 1, nconn < MaxConns,
         NEW s, make_connection(k, s), stack' # <<>>, AuthFrame(k, Top'),
         \A j \in ConnIds : ~AuthOnTop(j) /\ ~AuthAnswered(j)
  PROVE  AuthPart'
  <1>1. /\ UNCHANGED <<disconnecting, replies>> /\ nconn' = k
        /\ create(AuthCmd(k)) /\ set_connecting(k)
    BY DEF make_connection, redisAsyncConnect
  <1>2. /\ k \in ConnIds /\ k > nconn
        /\ \A j \in ConnIds : j <= k => j <= nconn \/ j = k
    BY BoundsAssumption DEF IndInv, MapPart, ConnIds, BoundsAssumption
  <1>3. AuthCmd(k) \in CmdIds /\ \A j \in ConnIds : AuthCmd(j)' = AuthCmd(j)
    BY <1>2, AuthIds DEF AuthCmd
  <1>4. replies[k] = <<>> /\ ~disconnecting[k]
    BY <1>2, AwaitedMade DEF Silent
  <1>5. conn_status_'[k] # "DISCONNECTED"
    BY <1>1, <1>2 DEF set_connecting, IndInv, ConnPart
  <1>6. ttl_'[AuthCmd(k)] > 0
    BY <1>1, <1>3, TTLAssumption DEF create, IndInv, CmdPart, CmdTypeOK, TTLAssumption
  <1>7. Top'.c = AuthCmd(k) /\ (Top'.op = "destroy_cmd" \/ (Top'.op = "exec_conn" /\ Top'.k = k))
    BY DEF AuthFrame, F
  <1>8. AuthOnTop(k)'
    BY <1>1, <1>2, <1>3, <1>4, <1>5, <1>6, <1>7 DEF AuthOnTop
  <1>9. ASSUME NEW j \in ConnIds, j <= nconn PROVE AuthSeen(j)'
    BY <1>1, <1>9, SameHeads, FirstKept, CalledStays DEF AuthPart, AuthSeen
  <1> QED
    BY <1>1, <1>2, <1>8, <1>9 DEF AuthPart, AuthSeen

IsSeq(fs) == \E S : fs \in Seq(S)

LEMMA SideIsSeq == ASSUME NEW fs, SideSeq(fs) PROVE IsSeq(fs)
  BY DEF SideSeq, IsSeq

\* It runs first, whatever comes after it.
LEMMA ContinueFirst ==
  ASSUME IndInv, stack # <<>>, NEW T, NEW fs \in Seq(T), fs # <<>>, NEW gs, IsSeq(gs),
         Continue(fs \o gs)
  PROVE  stack' # <<>> /\ Top' = fs[1]
  <1>1. PICK S : gs \in Seq(S)
    BY DEF IsSeq
  <1>2. fs \in Seq(S \cup T) /\ gs \in Seq(S \cup T)
    BY <1>1, SeqMono
  <1>3. PICK all : all = fs \o gs
    OBVIOUS
  <1>4. all \in Seq(S \cup T)
    BY <1>2, <1>3, ConcatType
  <1>5. all # <<>> /\ Head(all) = fs[1]
    BY <1>1, <1>3, FirstOf
  <1>6. Head(all) = all[1]
    BY <1>4, <1>5
  <1>7. Continue(all)
    BY <1>3
  <1> QED
    BY <1>4, <1>5, <1>6, <1>7, FirstFrame

LEMMA ConnectFramesPair ==
  ASSUME Auth, NEW k
  PROVE  ConnectFrames(k) = <<F("exec_conn", AuthCmd(k), k, "none"), F("user", 0, k, "on_connect")>>
  BY Pair DEF ConnectFrames

LEMMA WithConnectionAuth ==
  ASSUME IndInv, OrderInv, Auth, AuthPart, [Next]_vars, NEW s, NEW found, NEW failed,
         stack # <<>>, WithConnection(s, found, failed),
         IsSeq(failed), \A k : IsSeq(On(k, found)),
         \A j \in ConnIds : ~AuthOnTop(j) /\ ~AuthAnswered(j)
  PROVE  AuthPart'
  <1>1. PICK k : k = nconn + 1
    OBVIOUS
  <1>2. PICK a, u, b : /\ a = F("exec_conn", AuthCmd(k), k, "none")
                       /\ u = F("user", 0, k, "on_connect")
                       /\ b = F("destroy_cmd", AuthCmd(k), 0, "none")
    OBVIOUS
  <1>3. \/ UNCHANGED <<nconn, replies>>
        \/ /\ nconn < MaxConns /\ make_connection(k, s)
           /\ Continue(<<a, u>> \o On(k, found)) \/ Continue(<<b>> \o failed)
    BY <1>1, <1>2, ConnectFramesPair DEF WithConnection, clusterVars, mapVars, hiredisVars
  <1>4. CASE UNCHANGED <<nconn, replies>>
    BY <1>4, SameHeads, FirstKept, AuthMoves DEF AuthSeen
  <1>5. PICK two, one : two = <<a, u>> /\ one = <<b>>
    OBVIOUS
  <1>6. /\ two \in Seq({a, u}) /\ two # <<>> /\ two[1] = a
        /\ one \in Seq({b}) /\ one # <<>> /\ one[1] = b
    BY <1>5
  <1>7. ASSUME nconn < MaxConns, make_connection(k, s),
               Continue(two \o On(k, found)) \/ Continue(one \o failed)
        PROVE  AuthPart'
    <2>1. Continue(two \o On(k, found)) => stack' # <<>> /\ Top' = a
      BY <1>6, ContinueFirst
    <2>2. Continue(one \o failed) => stack' # <<>> /\ Top' = b
      BY <1>6, ContinueFirst
    <2>3. stack' # <<>> /\ AuthFrame(k, Top')
      BY <1>2, <1>7, <2>1, <2>2 DEF AuthFrame
    <2> QED
      BY <1>1, <1>7, <2>3, MadeAuth
  <1> QED
    BY <1>3, <1>4, <1>5, <1>7

LEMMA ConnectAuth ==
  ASSUME IndInv, FlowInv, OrderInv, Auth, AuthPart, [Next]_vars, exec \/ reload_slots
  PROVE  AuthPart'
  <1>1. stack # <<>> /\ Top.op \notin AuthOps
    BY DEF exec, reload_slots, At, Running, AuthOps, HandedOps
  <1>2. \A j : ~AuthOnTop(j) /\ ~AuthAnswered(j)
    BY <1>1 DEF AuthOnTop, AuthAnswered, AuthOps
  <1>3. CASE UNCHANGED <<nconn, replies>>
    BY <1>1, <1>3, SameHeads, QuietAuth
  <1>4. PICK found, failed, none :
               /\ found = <<F("exec_conn", Top.c, 0, "none")>>
               /\ failed = <<F("exec_failed", Top.c, 0, "none")>>
               /\ none = <<>>
    OBVIOUS
  <1>5. PICK load : load = <<F("reload_exec", 0, 0, "none")>>
    OBVIOUS
  <1>6. /\ IsSeq(failed) /\ \A k : IsSeq(On(k, found))
        /\ IsSeq(none) /\ \A k : IsSeq(On(k, load))
    <2>1. SideSeq(failed) /\ \A k : SideSeq(On(k, found))
      BY <1>4, SideOne, OnSide, SideNames
    <2>2. SideSeq(none) /\ \A k : SideSeq(On(k, load))
      BY <1>4, <1>5, SideSeqs, OnSide, SideNames
    <2> QED
      BY <2>1, <2>2, SideIsSeq
  <1>7. CASE exec
    <2>1. \E s : WithConnection(s, found, failed)
      BY <1>4, <1>7 DEF exec
    <2> QED
      BY <1>1, <1>2, <1>6, <2>1, WithConnectionAuth
  <1>8. CASE reload_slots
    <2>1. UNCHANGED <<nconn, replies>> \/ \E s : WithConnection(s, load, none)
      BY <1>4, <1>5, <1>8 DEF reload_slots, clusterVars, mapVars, hiredisVars
    <2> QED
      BY <1>1, <1>2, <1>3, <1>6, <2>1, WithConnectionAuth
  <1> QED
    BY <1>7, <1>8

LEMMA AskAuth ==
  ASSUME IndInv, FlowInv, OrderInv, MarkedPart, Auth, AuthPart, [Next]_vars,
         NEW s \in Servers, on_reply_ask(s)
  PROVE  AuthPart'
  <1>1. PICK pop, ask, again : /\ pop = F("ask_pop", Top.c, Top.k, "none")
                               /\ ask = F("asking", Top.c, 0, "none")
                               /\ again = F("retry", Top.c, 0, "none")
    OBVIOUS
  <1>2. PICK found, failed : found = <<pop, ask>> /\ failed = <<pop, again>>
    OBVIOUS
  <1>3. stack # <<>> /\ WithConnection(s, found, failed)
    BY <1>1, <1>2 DEF on_reply_ask, At, Running
  <1>4. IsSeq(failed)
    <2>1. failed \in Seq({pop, again})
      BY <1>2
    <2> QED
      BY <2>1 DEF IsSeq
  <1>5. ASSUME NEW k PROVE IsSeq(On(k, found))
    <2>1. PICK S : S = {pop, ask, [pop EXCEPT !.k = k], [ask EXCEPT !.k = k]}
      OBVIOUS
    <2>2. pop \in S /\ ask \in S /\ [pop EXCEPT !.k = k] \in S /\ [ask EXCEPT !.k = k] \in S
      BY <2>1
    <2>3. On(k, found) \in Seq(S)
      BY <1>2, <2>2, OnTwo
    <2> QED
      BY <2>3 DEF IsSeq
  <1>6. \A k \in ConnIds : ~AuthOnTop(k) /\ ~AuthAnswered(k)
    BY RedirectAuth
  <1> QED
    BY <1>3, <1>4, <1>5, <1>6, WithConnectionAuth

LEMMA UserConnectAuth ==
  ASSUME IndInv, OrderInv, Auth, AuthPart, [Next]_vars, NEW s \in Servers, UserConnect(s)
  PROVE  AuthPart'
  <1>1. PICK k : k = nconn + 1
    OBVIOUS
  <1>2. PICK a, u, b : /\ a = F("exec_conn", AuthCmd(k), k, "none")
                       /\ u = F("user", 0, k, "on_connect")
                       /\ b = F("destroy_cmd", AuthCmd(k), 0, "none")
    OBVIOUS
  <1>3. /\ InUser /\ nconn < MaxConns /\ make_connection(k, s)
        /\ Call(<<a, u>>) \/ Call(<<b>>)
    BY <1>1, <1>2, ConnectFramesPair DEF UserConnect
  <1>4. stack' # <<>> /\ AuthFrame(k, Top')
    BY <1>2, <1>3, OneFirst, TwoFirst DEF AuthFrame
  <1>5. \A j \in ConnIds : ~AuthOnTop(j) /\ ~AuthAnswered(j)
    BY <1>3 DEF InUser, InLoop, At, AuthOnTop, AuthAnswered, HandedOps
  <1> QED
    BY <1>1, <1>3, <1>4, <1>5, MadeAuth

-----------------------------------------------------------------------------
(* All steps                                                               *)

LEMMA LibraryAuth ==
  ASSUME IndInv, FlowInv, OrderInv, MarkedPart, Auth, AuthPart, [Next]_vars, LibraryStep
  PROVE  AuthPart'
  <1>1. CASE \/ exec_ttl \/ exec_failed \/ exec_pending \/ retry \/ Destroy \/ reload_exec \/ reload_end
             \/ on_reply_update_slot \/ run_pending \/ on_reply_update_slot_failed
    BY <1>1, CommandAuth
  <1>2. CASE \/ release_connection \/ release_event \/ release_end
             \/ reset_begin \/ reset_slots \/ reset \/ proc \/ proc_conn \/ proc_clear
             \/ on_reply_asking \/ on_connected_wrapper \/ on_connected_end \/ on_disconnected_wrapper
    BY <1>2, LoopAuth
  <1>3. CASE \/ ConnectionRelease \/ ask_pop
             \/ ByHiredis(redisAsyncDisconnect) \/ ByHiredis(ConnectEnd)
             \/ ByHiredis(ConnectFailedEnd) \/ ByHiredis(ReplyEnd) \/ ByHiredis(FreeContextEnd)
    BY <1>3, OtherAuth
  <1>4. CASE exec \/ reload_slots \/ \E s \in Servers : on_reply_ask(s)
    BY <1>4, ConnectAuth, AskAuth
  <1>5. CASE exec_conn \/ exec_conn_closing \/ exec_conn_failed \/ destroy_cmd \/ asking
    BY <1>5, SendAuth, NotSentAuth, DestroyAuth, AskingAuth
  <1>6. CASE \/ on_reply_retry \/ on_reply_clusterdown
             \/ \E s \in Servers : \E i \in Slots : on_reply_moved(i, s)
    BY <1>6, SameServerAuth
  <1>7. CASE on_reply_wrapper \/ CallReply \/ PopReply \/ ByHiredis(FreeContext)
    BY <1>7, WrapperAuth, CallReplyAuth, PopReplyAuth, FreeContextAuth
  <1> QED
    BY <1>1, <1>2, <1>3, <1>4, <1>5, <1>6, <1>7 DEF LibraryStep

LEMMA NextAuth ==
  ASSUME IndInv, FlowInv, OrderInv, MarkedPart, Auth, AuthPart, [Next]_vars
  PROVE  AuthPart'
  <1>1. CASE LibraryStep
    BY <1>1, LibraryAuth
  <1>2. CASE NetworkStep
    BY <1>2, ReplyAuth, OtherAuth DEF NetworkStep
  <1>3. CASE UserStep
    BY <1>3, UserAuth, UserConnectAuth DEF UserStep
  <1>4. CASE UserReturn \/ Proc
    BY <1>4, UserAuth
  <1>5. CASE Crash \/ Idle \/ UNCHANGED vars
    BY <1>5, SameAuth
  <1> QED
    BY <1>1, <1>2, <1>3, <1>4, <1>5 DEF Next

AuthInv == Auth /\ ErrSetsDisconnecting => MarkedPart /\ AuthPart

\* With a hiredis that marks a broken context before it calls the outstanding
\* callbacks, the AUTH command of every connection is on its way to the callback
\* (on top of the stack, first in the queue of hiredis, or being answered), or has
\* been called back (make_connection, on_reply_wrapper, connection::pop_reply).
THEOREM AuthInvariance == Spec => [](IndInv /\ FlowInv /\ OrderInv /\ AuthInv)
  <1>1. Init => AuthInv
    BY BoundsAssumption DEF Init, HiredisInit, AuthInv, MarkedPart, AuthPart, ConnIds, BoundsAssumption
  <1>2. IndInv /\ FlowInv /\ OrderInv /\ AuthInv /\ [Next]_vars => AuthInv'
    BY NextMarked, NextAuth DEF AuthInv
  <1>3. Spec => [](IndInv /\ FlowInv /\ OrderInv)
    BY OrderInvariance
  <1> QED
    BY <1>1, <1>2, <1>3, PTL DEF Spec

\* No command overtakes the AUTH command of its connection, whatever the
\* callbacks of the application send and however the connection ends, if hiredis
\* marks broken contexts (an older one lets AUTH itself be retried elsewhere).
THEOREM AuthNotOvertaken == Spec => [](ErrSetsDisconnecting => NothingOvertakesAuth)
  <1>1. IndInv /\ OrderInv /\ AuthInv => (ErrSetsDisconnecting => NothingOvertakesAuth)
    <2> SUFFICES ASSUME IndInv, OrderInv, AuthInv, ErrSetsDisconnecting, NEW k \in ConnIds, Auth,
                        replies[k] # <<>>
                 PROVE  \/ Head(replies[k]).c = AuthCmd(k) \/ AuthCmd(k) \in Delivering(k)
                        \/ calls[AuthCmd(k)] = 1
      BY DEF NothingOvertakesAuth
    <2>1. AuthSeen(k)
      <3>1. ~(k > nconn)
        BY AwaitedMade
      <3>2. k <= nconn
        BY <3>1, BoundsAssumption DEF ConnIds, BoundsAssumption, IndInv, MapPart
      <3> QED
        BY <3>2 DEF AuthInv, AuthPart
    <2>2. ~AuthOnTop(k)
      BY DEF AuthOnTop
    <2>3. AuthAnswered(k) => AuthCmd(k) \in Delivering(k)
      <3>1. SUFFICES ASSUME AuthAnswered(k) PROVE AuthCmd(k) \in Delivering(k)
        OBVIOUS
      <3>2. stack \in Seq(GoodFrame) /\ stack # <<>> /\ stack[1] = Top
        BY <3>1 DEF AuthAnswered, IndInv, StackPart, Top
      <3>3. 1 \in DOMAIN stack
        BY <3>2
      <3> QED
        BY <3>1, <3>2, <3>3 DEF AuthAnswered, Delivering, HandedOps
    <2> QED
      BY <2>1, <2>2, <2>3 DEF AuthSeen, AuthFirst, AuthCalled
  <1> QED
    BY <1>1, AuthInvariance, PTL

=============================================================================
