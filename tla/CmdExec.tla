------------------------------ MODULE CmdExec ------------------------------
(***************************************************************************)
(* cmd_exec (happ_cmd.cpp): one request.  It is created with a callback    *)
(* and a time-to-live, its callback is called at most once (callback_ is   *)
(* cleared before the call), and destroy() frees it.                       *)
(*                                                                         *)
(* The formatted text of the command is left out: a command is its         *)
(* identity.  It is always a request-response command; the subscribe       *)
(* family may not be passed to exec() (README.md, "Subscribe-family and    *)
(* monitor commands").                                                     *)
(***************************************************************************)
EXTENDS Runtime

CONSTANT TTL          \* HIREDIS_HAPP_TTL

ASSUME TTLAssumption == TTL \in Nat \ {0}

VARIABLES
  callback_,          \* callback_ is not null
  ttl_,
  error_code_,
  calls,              \* ghost: how often the callback has been called
  got                 \* ghost: the reply the callback was called with

cmdVars == <<cmd_st, callback_, ttl_, error_code_, calls, got>>

ErrorCodes ==
  {"OK", "UNKNOWD", "HIREDIS", "CONNECTION", "NOT_FOUND", "TIMEOUT", "TTL",
   "SLOT_UNAVAILABLE", "TIMER_NOT_AVAILABLE"}

\* A reply: a good one, an error (the cluster's four told apart), or nullptr.
Replies == {"ok", "error", "MOVED", "ASK", "TRYAGAIN", "CLUSTERDOWN", "null"}

CmdTypeOK ==
  /\ callback_ \in [CmdIds -> BOOLEAN]
  /\ ttl_ \in [CmdIds -> 0 .. TTL]
  /\ error_code_ \in [CmdIds -> ErrorCodes]
  /\ calls \in [CmdIds -> Nat]
  /\ got \in [CmdIds -> Replies]

CmdInit ==
  /\ callback_ = [c \in CmdIds |-> FALSE]
  /\ ttl_ = [c \in CmdIds |-> 0]
  /\ error_code_ = [c \in CmdIds |-> "OK"]
  /\ calls = [c \in CmdIds |-> 0]
  /\ got = [c \in CmdIds |-> "null"]

\* cmd_exec::create
create(c) ==
  /\ cmd_st' = [cmd_st EXCEPT ![c] = "live"]
  /\ callback_' = [callback_ EXCEPT ![c] = TRUE]
  /\ ttl_' = [ttl_ EXCEPT ![c] = TTL]
  /\ error_code_' = [error_code_ EXCEPT ![c] = "OK"]
  /\ calls' = [calls EXCEPT ![c] = 0]
  /\ got' = [got EXCEPT ![c] = "null"]

\* Mutant: callback_ is not cleared.
cmd_call_reply_again(c, code, r) ==
  /\ UNCHANGED callback_
  /\ error_code_' = IF callback_[c] THEN [error_code_ EXCEPT ![c] = code]
                                    ELSE error_code_
  /\ calls' = IF callback_[c] THEN [calls EXCEPT ![c] = @ + 1] ELSE calls
  /\ got' = IF callback_[c] THEN [got EXCEPT ![c] = r] ELSE got

\* cmd_exec::call_reply: nothing happens once the callback has been called.
cmd_call_reply(c, code, r) ==
  /\ callback_' = [callback_ EXCEPT ![c] = FALSE]
  /\ error_code_' = IF callback_[c] THEN [error_code_ EXCEPT ![c] = code]
                                    ELSE error_code_
  /\ calls' = IF callback_[c] THEN [calls EXCEPT ![c] = @ + 1] ELSE calls
  /\ got' = IF callback_[c] THEN [got EXCEPT ![c] = r] ELSE got

\* The frame in which that callback runs: application code, on_reply_auth,
\* which only logs, or on_reply_update_slot.
CallbackFrames(c, r) ==
  IF ~callback_[c] THEN <<>>
  ELSE IF UserCmd(c) THEN <<F("user", c, 0, "none")>>
  ELSE IF LoadCmd(c) THEN <<F("on_reply_update_slot", c, 0, r)>> ELSE <<>>

\* Call the callback of c, then go on with `frames'.
CallBack(c, code, r, frames) ==
  /\ cmd_call_reply(c, code, r)
  /\ Continue(CallbackFrames(c, r) \o frames)
  /\ UNCHANGED <<cmd_st, ttl_>>

\* cmd_exec::destroy
destroy ==
  /\ At("destroy")
  /\ cmd_st' = [cmd_st EXCEPT ![Top.c] = "freed"]
  /\ Return
  /\ UNCHANGED <<callback_, ttl_, error_code_, calls, got>>

=============================================================================
