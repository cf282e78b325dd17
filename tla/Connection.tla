----------------------------- MODULE Connection -----------------------------
(***************************************************************************)
(* connection (happ_connection.cpp): the wrapper of one hiredis context.   *)
(* It keeps its own list of the commands it has handed to hiredis, so that *)
(* it can fail them when the connection is released.                       *)
(***************************************************************************)
EXTENDS Hiredis

VARIABLES
  conn_status_,       \* connection::status
  reply_list_,
  sequence_,
  seq_alloc           \* the static counter behind make_sequence

connVars == <<conn_st, context_, conn_status_, reply_list_, sequence_, seq_alloc>>

Statuses == {"DISCONNECTED", "CONNECTING", "CONNECTED"}

ConnTypeOK ==
  /\ conn_status_ \in [ConnIds -> Statuses]
  /\ reply_list_ \in [ConnIds -> Seq(CmdIds)]
  /\ sequence_ \in [ConnIds -> Nat]
  /\ seq_alloc \in Nat

ConnInit ==
  /\ conn_status_ = [k \in ConnIds |-> "DISCONNECTED"]
  /\ reply_list_ = [k \in ConnIds |-> <<>>]
  /\ sequence_ = [k \in ConnIds |-> 0]
  /\ seq_alloc = 0

Elems(s) == {s[i] : i \in DOMAIN s}

\* The constructor, init() and set_connecting(c): a new connection on a new
\* context.  Two numbers are drawn, one by the constructor.
set_connecting(k) ==
  /\ conn_st' = [conn_st EXCEPT ![k] = "live"]
  /\ context_' = [context_ EXCEPT ![k] = TRUE]
  /\ conn_status_' = [conn_status_ EXCEPT ![k] = "CONNECTING"]
  /\ sequence_' = [sequence_ EXCEPT ![k] = seq_alloc + 2]
  /\ seq_alloc' = seq_alloc + 2
  /\ UNCHANGED reply_list_

\* Mutant: set_connected draws no new sequence number.
set_connected_same_sequence(k) ==
  /\ conn_status_' = [conn_status_ EXCEPT ![k] =
       IF @ = "CONNECTING" /\ context_[k] THEN "CONNECTED" ELSE @]
  /\ UNCHANGED <<conn_st, context_, reply_list_, sequence_, seq_alloc>>

\* connection::set_connected
set_connected(k) ==
  /\ IF conn_status_[k] = "CONNECTING" /\ context_[k]
     THEN /\ conn_status_' = [conn_status_ EXCEPT ![k] = "CONNECTED"]
          /\ sequence_' = [sequence_ EXCEPT ![k] = seq_alloc + 1]
          /\ seq_alloc' = seq_alloc + 1
     ELSE UNCHANGED <<conn_status_, sequence_, seq_alloc>>
  /\ UNCHANGED <<conn_st, context_, reply_list_>>

\* connection::set_disconnected, entered when the status is not DISCONNECTED:
\* the status is set before anything else, against re-entry.  The frames are
\* those of release(close_fd).
set_disconnected(k) ==
  /\ conn_status_' = [conn_status_ EXCEPT ![k] = "DISCONNECTED"]
  /\ UNCHANGED <<conn_st, context_, reply_list_, sequence_, seq_alloc>>

\* Mutant: close_fd is ignored.
ReleaseFramesKeepOpen(k, close_fd) == <<F("connection_release", 0, k, "none")>>

ReleaseFrames(k, close_fd) ==
  (IF context_[k] /\ close_fd = "close"
   THEN <<F("redisAsyncDisconnect", 0, k, "none")>> ELSE <<>>)
  \o <<F("connection_release", 0, k, "none")>>

\* connection::release after redisAsyncDisconnect: every command still in
\* reply_list_ fails; when none is left the context is dropped, and
\* set_disconnected draws a new sequence number.
connection_release ==
  LET k == Top.k IN
  /\ At("connection_release")
  /\ IF reply_list_[k] # <<>>
     THEN LET c == Head(reply_list_[k]) IN
          /\ reply_list_' = [reply_list_ EXCEPT ![k] = Tail(@)]
          /\ CallBack(c, "CONNECTION", "null", <<F("destroy", c, 0, "none"), Top>>)
          /\ UNCHANGED <<conn_st, context_, conn_status_, sequence_, seq_alloc>>
     ELSE /\ context_' = [context_ EXCEPT ![k] = FALSE]
          /\ conn_status_' = [conn_status_ EXCEPT ![k] = "DISCONNECTED"]
          /\ sequence_' = [sequence_ EXCEPT ![k] = seq_alloc + 1]
          /\ seq_alloc' = seq_alloc + 1
          /\ Return
          /\ UNCHANGED <<conn_st, reply_list_, cmdVars>>

\* connection::redis_cmd: its result, and its effect when that is OK.
redis_cmd_result(k) ==
  IF ~context_[k] THEN "CREATE"
  ELSE IF conn_status_[k] = "DISCONNECTED" THEN "CONNECTION"
  ELSE IF Accepts(k) THEN "OK" ELSE "ERR"

\* Mutant: the command is put in front of the list.
redis_cmd_push_front(k, c) ==
  /\ redisAsyncFormattedCommand(k, "on_reply", c)
  /\ reply_list_' = [reply_list_ EXCEPT ![k] = <<c>> \o @]
  /\ UNCHANGED <<conn_st, context_, conn_status_, sequence_, seq_alloc>>

redis_cmd(k, c) ==
  /\ redisAsyncFormattedCommand(k, "on_reply", c)
  /\ reply_list_' = [reply_list_ EXCEPT ![k] = Append(@, c)]
  /\ UNCHANGED <<conn_st, context_, conn_status_, sequence_, seq_alloc>>

\* connection::call_reply, up to pop_reply: a command that is not in
\* reply_list_ is answered with NOT_FOUND.
call_reply ==
  LET k == Top.k
      c == Top.c
  IN
  /\ At("call_reply")
  /\ IF context_[k] /\ c \in Elems(reply_list_[k])
     THEN Continue(<<F("pop_reply", c, k, Top.a)>>) /\ UNCHANGED cmdVars
     ELSE CallBack(c, "NOT_FOUND", Top.a, <<F("destroy", c, 0, "none")>>)
  /\ UNCHANGED connVars

\* Mutant: an error reply is not told from a good one.
TranslateNoReplyType(k, c, r) ==
  IF ctx_err[k] # "OK" THEN "HIREDIS" ELSE error_code_[c]

\* The error code call_reply passes on.
Translate(k, c, r) ==
  IF ctx_err[k] # "OK" \/ r \notin {"ok", "null"} THEN "HIREDIS" ELSE error_code_[c]

\* connection::pop_reply for a command in reply_list_: every command before
\* it has expired.  Then call_reply calls it back and destroys it, or
\* on_reply_wrapper retries it or asks for it elsewhere.  Should a callback of
\* an expired command empty the list, front() is undefined.
pop_reply ==
  LET k == Top.k
      c == Top.c
      e == Head(reply_list_[k])
      rest == [reply_list_ EXCEPT ![k] = Tail(@)]
  IN
  /\ At("pop_reply")
  /\ IF reply_list_[k] = <<>>
     THEN ub' = TRUE /\ UNCHANGED <<stack, cmdVars, reply_list_>>
     ELSE IF e # c
     THEN /\ reply_list_' = rest
          /\ CallBack(e, "TIMEOUT", "null", <<F("destroy", e, 0, "none"), Top>>)
     ELSE IF Top.a \in {"retry", "ask"}
     THEN /\ reply_list_' = rest
          /\ Continue(IF Top.a = "retry" THEN <<F("retry", c, 0, "none")>> ELSE <<>>)
          /\ UNCHANGED cmdVars
     ELSE /\ reply_list_' = rest
          /\ CallBack(c, Translate(k, c, Top.a), Top.a, <<F("destroy", c, 0, "none")>>)
  /\ UNCHANGED <<conn_st, context_, conn_status_, sequence_, seq_alloc>>

-----------------------------------------------------------------------------
(* What every connector built on this module has to keep up                *)

\* The places of c in the reply lists.
InReplyList(c) ==
  UNION {{k} \X {i \in DOMAIN reply_list_[k] : reply_list_[k][i] = c} : k \in ConnIds}

\* A callback that reports OK was given the answer of the server: no failure
\* path lets a command without a reply pass for a success.
OkMeansAnswered ==
  \A c \in CmdIds : calls[c] = 1 /\ error_code_[c] = "OK" => got[c] = "ok"

\* The command whose reply is being delivered on connection k.
Delivering(k) ==
  {f.c : f \in {stack[i] : i \in {j \in DOMAIN stack :
     stack[j].k = k /\ stack[j].op \in {"on_reply", "call_reply", "ask_pop", "pop_reply"}}}}

\* The commands of some callbacks hiredis holds.
CmdsOf(q) == [i \in DOMAIN q |-> q[i].c]

\* The reply list of connection k is `sent', preceded by the command whose
\* reply is being delivered.
ListMatches(k, sent) ==
  \/ Delivering(k) = {} /\ reply_list_[k] = sent
  \/ \E c \in CmdIds : Delivering(k) = {c} /\ reply_list_[k] = <<c>> \o sent

\* Whenever the event loop waits, all that hiredis may still call back exists:
\* the connection object behind c->data and the commands behind privdata.
NoDanglingPrivdata ==
  stack = <<>> =>
    \A k \in ConnIds : ctx_st[k] \in {"connecting", "connected"} =>
      /\ conn_st[k] = "live"
      /\ \A e \in Elems(replies[k]) : cmd_st[e.c] = "live"

\* No freed command, connection or context is ever used.
NoUseAfterFree == ~ub

\* The stage of its life a command is in: its object's state, and how often it
\* has been called back.
Stage(st, n) ==
  CASE st = "none"  -> "none"
    [] st = "freed" -> "destroyed"
    [] st = "live" /\ n = 0 -> "pending"
    [] st = "live" /\ n = 1 -> "called"
    [] OTHER -> "called again"

lifeOf == [c \in CmdIds |-> Stage(cmd_st[c], calls[c])]

=============================================================================
