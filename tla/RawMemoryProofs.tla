-------------------------- MODULE RawMemoryProofs --------------------------
(***************************************************************************)
(* No freed command, connection or context is used, and none is left       *)
(* behind for hiredis to use, in every environment that keeps to what the  *)
(* connector can stand: connects do not fail asynchronously, there is no   *)
(* connect timeout, and the application resets and releases only while     *)
(* nothing is outstanding.  Without these restrictions the statements are  *)
(* false, as raw_connect_failed shows for the first of them.               *)
(*                                                                         *)
(* The argument follows the end of a connection.  It always begins at the  *)
(* bottom of the stack, in the event loop or right above reset(), and what *)
(* is under way above it is known frame by frame, so the context outlives  *)
(* every call that may still use it, and the object outlives the context.  *)
(***************************************************************************)
EXTENDS RawFlowProofs

-----------------------------------------------------------------------------
(* The invariant                                                           *)

Benign ==
  /\ Env \cap {"connect_failed", "reset_busy", "release_busy"} = {}
  /\ ConnTimeout = 0

InUse(k) == conn_status_[k] # "DISCONNECTED"
CtxLive(k) == ctx_st[k] \in {"connecting", "connected"}

\* The calls that work on conn_, those of them that need it in use, and calls
\* that are never made.
OnConn == {"exec_conn", "on_reply", "call_reply", "pop_reply", "on_connected",
           "on_connected_end", "on_disconnected", "connection_release", "h_connect_end",
           "h_reply_end", "h_free", "redisAsyncDisconnect", "release_connection",
           "release_event", "release_end"}
OnUse  == {"on_reply", "call_reply", "pop_reply", "on_connected", "on_connected_end",
           "h_connect_end", "h_reply_end"}
Never  == {"h_connect_failed", "proc_clear", "on_reply_asking", "on_reply_update_slot",
           "ask_pop", "asking", "reload_exec"}

\* The calls a connection ends with.
EndOps  == {"redisAsyncDisconnect", "h_free", "h_free_end", "on_disconnected",
            "release_connection", "connection_release", "release_event", "release_end"}
Freeing == {"redisAsyncDisconnect", "h_free", "h_free_end"}
Leaving == {"on_disconnected", "release_connection"}

\* A frame at height d lies at the bottom, or right above reset(); it is what
\* release_connection(close) calls; it is what hiredis calls before it
\* returns the memory of a context.
AtBase(d)    == d = 0 \/ (d = 1 /\ Pile[0].op = "reset")
AtClosing(d) == d = 2 /\ Pile[0].op = "release_event" /\ Pile[1].op = "connection_release"
AtFree(d)    == d > 0 /\ Pile[d - 1].op = "h_free_end"
AtTop(d)     == d = Len(stack) - 1

\* A context is freed while its connection is in use, or as part of a release.
\* The connection is released before the context's memory is returned.
FreeAt(d) ==
  LET f == Pile[d] IN
  /\ f.op = "redisAsyncDisconnect" =>
       /\ AtTop(d) /\ replies[f.k] = <<>> /\ ~in_callback[f.k] /\ CtxLive(f.k)
       /\ \/ AtBase(d) /\ InUse(f.k) /\ ctx_st[f.k] = "connected"
          \/ AtClosing(d) /\ ~InUse(f.k)
  /\ f.op = "h_free" =>
       \/ AtBase(d) /\ InUse(f.k) /\ ctx_st[f.k] = "connected"
       \/ AtClosing(d) /\ ~InUse(f.k) /\ AtTop(d)
  /\ f.op = "h_free_end" =>
       /\ AtBase(d) \/ AtClosing(d)
       /\ f.k = conn_ \/ (conn_ = 0 /\ AtTop(d))
       /\ ~InUse(f.k) \/ (Len(stack) = d + 2 /\ Pile[d + 1].op \in Leaving)

\* No reply is outstanding when a connection is released, so no command is
\* called back by the release itself.
ReleaseAt(d) ==
  LET f == Pile[d] IN
  /\ f.op \in Leaving => AtTop(d) /\ replies[f.k] = <<>>
  /\ f.op = "on_disconnected" => AtFree(d)
  /\ f.op = "release_connection" =>
       \/ f.a = "close" /\ d = 0 /\ ~in_callback[f.k] /\ InUse(f.k)
       \/ f.a = "keep" /\ AtFree(d)
  /\ f.op = "connection_release" =>
       /\ d > 0 /\ Pile[d - 1].op = "release_event" /\ reply_list_[f.k] = <<>>
       /\ \/ AtTop(d)
          \/ /\ d = 1 /\ Pile[2].op \in Freeing
             /\ Len(stack) = 3 \/ (Len(stack) = 4 /\ Pile[3].op \in Leaving)
  /\ f.op \in ReleaseOps => d = 0 \/ AtFree(d)
  /\ f.op = "release_event" => AtTop(d) \/ Pile[d + 1].op = "connection_release"

\* What a call works on.
WorksAt(d) ==
  LET f == Pile[d] IN
  /\ f.op \notin Never
  /\ f.op \in OnConn => f.k = conn_ /\ conn_ # 0
  /\ f.op \in OnUse => InUse(f.k)
  /\ f.op \in {"on_connected", "on_connected_end"} => f.a = "OK"

EndPart == \A d \in 0 .. Len(stack) - 1 : WorksAt(d) /\ FreeAt(d) /\ ReleaseAt(d)

\* A context lives as long as the connection in use, or is being freed; a
\* connection without a status has dropped its context, or is about to; and a
\* context that is going away while the connection is in use is being freed,
\* in a callback or before the next call.
Under(ops, k) == \E d \in 0 .. Len(stack) - 1 : Pile[d].op \in ops /\ Pile[d].k = k
GoingAway(k) ==
  \E d \in 0 .. Len(stack) - 1 : /\ Pile[d].op \in {"h_free", "h_free_end"} /\ Pile[d].k = k
                                 /\ in_callback[k] \/ AtTop(d)

OwnPart ==
  \A k \in ConnIds :
    /\ CtxLive(k) => (conn_ = k /\ InUse(k)) \/ Under(Freeing, k)
    /\ InUse(k) => CtxLive(k)
    /\ context_[k] /\ ~InUse(k) => Under({"connection_release"}, k)
    /\ disconnecting[k] /\ InUse(k) => GoingAway(k)

MemInv == EndPart /\ OwnPart /\ ~ub /\ timer_conn.timeout = 0

-----------------------------------------------------------------------------
(* Steps of calls that have nothing to do with the end of a connection     *)

\* The frames such a step may add.
Plain ==
  {f \in Frame :
     /\ f.op \notin EndOps \cup Never
     /\ f.op \in OnConn => f.k = conn_ /\ conn_ # 0
     /\ f.op \in OnUse => InUse(f.k)
     /\ f.op \in {"on_connected", "on_connected_end"} => f.a = "OK"}

\* While such a call is running, a connection that is ending is being freed, or
\* its end is being reported.
LEMMA PlainTop ==
  ASSUME IndInv, MemInv, stack # <<>> => Top.op \notin EndOps,
         NEW d \in 0 .. Len(stack) - 1
  PROVE  /\ ~AtTop(d) \/ Pile[d].op \notin EndOps
         /\ Pile[d].op \in EndOps => Pile[d].op \in {"h_free", "h_free_end", "release_end"}
         /\ Pile[d].op = "h_free" => AtBase(d) /\ InUse(Pile[d].k) /\ ctx_st[Pile[d].k] = "connected"
         /\ Pile[d].op = "h_free_end" => Pile[d].k = conn_ /\ ~InUse(Pile[d].k)
  <1>0. /\ Len(stack) \in Nat /\ stack # <<>> /\ Len(stack) >= 1
        /\ Pile[Len(stack) - 1] = Top /\ Top.op \notin EndOps
    BY PileType DEF IndInv
  <1>1. WorksAt(d) /\ FreeAt(d) /\ ReleaseAt(d)
    BY DEF MemInv, EndPart
  <1>2. AtTop(d) => Pile[d].op \notin EndOps
    BY <1>0 DEF AtTop
  <1>3. Pile[d].op \notin {"redisAsyncDisconnect", "on_disconnected", "release_connection"}
    BY <1>1, <1>2 DEF FreeAt, ReleaseAt, Leaving, EndOps
  <1>4. ASSUME NEW e \in 0 .. Len(stack) - 1, Pile[e].op = "connection_release" PROVE FALSE
    <2>1. ReleaseAt(e)
      BY DEF MemInv, EndPart
    <2>2. CASE AtTop(e)
      BY <1>0, <1>4, <2>2 DEF AtTop, EndOps
    <2>3. CASE Len(stack) = 3 /\ Pile[2].op \in Freeing
      BY <1>0, <2>3 DEF EndOps, Freeing
    <2>4. CASE Len(stack) = 4 /\ Pile[3].op \in Leaving
      BY <1>0, <2>4 DEF EndOps, Leaving
    <2> QED
      BY <1>4, <2>1, <2>2, <2>3, <2>4 DEF ReleaseAt
  <1>5. Pile[d].op # "release_event"
    <2> SUFFICES ASSUME Pile[d].op = "release_event" PROVE FALSE
      OBVIOUS
    <2>1. ~AtTop(d) /\ Pile[d + 1].op = "connection_release"
      BY <1>1, <1>2 DEF ReleaseAt, EndOps
    <2>2. d + 1 \in 0 .. Len(stack) - 1
      BY <1>0, <2>1 DEF AtTop
    <2> QED
      BY <1>4, <2>1, <2>2
  <1>6. ASSUME Pile[d].op = "h_free_end" PROVE Pile[d].k = conn_ /\ ~InUse(Pile[d].k)
    <2>1. ~AtTop(d)
      BY <1>2, <1>6 DEF EndOps
    <2>2. ~(Len(stack) = d + 2 /\ Pile[d + 1].op \in Leaving)
      BY <1>0 DEF Leaving, EndOps
    <2> QED
      BY <1>1, <1>6, <2>1, <2>2 DEF FreeAt
  <1> QED
    BY <1>1, <1>2, <1>3, <1>4, <1>5, <1>6 DEF FreeAt, EndOps

\* Where a frame lies depends on the frames below it.
LEMMA PlacesKept ==
  ASSUME NEW h, Keep(h), NEW d \in 0 .. h
  PROVE  /\ AtBase(d)' = AtBase(d) /\ AtClosing(d)' = AtClosing(d) /\ AtFree(d)' = AtFree(d)
         /\ h <= Len(stack) /\ h <= Len(stack') /\ h \in Nat
  <1>1. h \in Nat /\ \A e \in 0 .. h - 1 : Pile'[e] = Pile[e]
    BY DEF Keep
  <1>2. AtBase(d)' = AtBase(d)
    <2>1. d = 1 => 0 \in 0 .. h - 1
      BY <1>1
    <2> QED
      BY <1>1, <2>1 DEF AtBase
  <1>3. AtClosing(d)' = AtClosing(d)
    <2>1. d = 2 => 0 \in 0 .. h - 1 /\ 1 \in 0 .. h - 1
      BY <1>1
    <2> QED
      BY <1>1, <2>1 DEF AtClosing
  <1>4. AtFree(d)' = AtFree(d)
    <2>1. d > 0 => d - 1 \in 0 .. h - 1
      BY <1>1
    <2> QED
      BY <1>1, <2>1 DEF AtFree
  <1> QED
    BY <1>2, <1>3, <1>4 DEF Keep

\* A step of such a call: the connection and the contexts stay as they are.
LEMMA PlainStep ==
  ASSUME IndInv, MemInv, NEW h, Keep(h), Len(stack) <= h + 1,
         stack # <<>> => Top.op \notin EndOps,
         \A d \in h .. Len(stack') - 1 : Pile'[d] \in Plain',
         UNCHANGED <<ctx_st, disconnecting, in_callback, conn_, context_, ub>>,
         timer_conn'.timeout = 0,
         \A k \in ConnIds : InUse(k)' = InUse(k)
  PROVE  MemInv'
  <1>1. /\ h \in Nat /\ Len(stack) \in Nat /\ Len(stack') \in Nat
        /\ h <= Len(stack) /\ h <= Len(stack')
        /\ \A d \in 0 .. Len(stack') - 1 :
             \/ d < h /\ d \in 0 .. Len(stack) - 1 /\ Pile'[d] = Pile[d]
             \/ d >= h /\ d \in h .. Len(stack') - 1
        /\ \A d \in 0 .. Len(stack) - 1 :
             \/ d < h /\ d \in 0 .. Len(stack') - 1 /\ Pile'[d] = Pile[d]
             \/ d = h /\ d = Len(stack) - 1 /\ Pile[d] = Top
    BY KeptFrames DEF IndInv
  <1>2. \A d \in 0 .. Len(stack) - 1 : /\ Pile[d].k \in ConnIds \cup {0}
                                       /\ Pile[d].op = "h_free_end" => Pile[d].k \in ConnIds
    BY PileType DEF IndInv, GoodFrame, Good, Frame, ConnOps
  <1>3. ASSUME NEW d \in 0 .. Len(stack') - 1 PROVE WorksAt(d)' /\ FreeAt(d)' /\ ReleaseAt(d)'
    <2>1. CASE Pile'[d] = Pile[d] /\ d < h /\ d \in 0 .. Len(stack) - 1
      <3>1. /\ WorksAt(d) /\ FreeAt(d) /\ ReleaseAt(d) /\ Pile[d].k \in ConnIds \cup {0}
            /\ Pile[d].op = "h_free_end" => Pile[d].k \in ConnIds
        BY <1>2, <2>1 DEF MemInv, EndPart
      <3>2. /\ Pile[d].op \in EndOps => Pile[d].op \in {"h_free", "h_free_end", "release_end"}
            /\ Pile[d].op = "h_free" => AtBase(d) /\ InUse(Pile[d].k) /\ ctx_st[Pile[d].k] = "connected"
            /\ Pile[d].op = "h_free_end" => Pile[d].k = conn_ /\ ~InUse(Pile[d].k)
        BY <2>1, PlainTop
      <3>3. AtBase(d)' = AtBase(d) /\ AtClosing(d)' = AtClosing(d) /\ AtFree(d)' = AtFree(d)
        BY <1>1, <2>1, PlacesKept
      <3>4. Pile[d].op \in OnConn \cup {"h_free_end"} => InUse(Pile[d].k)' = InUse(Pile[d].k)
        BY <2>1, <3>1 DEF WorksAt
      <3>5. WorksAt(d)'
        BY <2>1, <3>1, <3>4 DEF WorksAt, InUse, OnConn, OnUse
      <3>6. FreeAt(d)'
        BY <2>1, <3>1, <3>2, <3>3, <3>4 DEF FreeAt, InUse, EndOps, OnConn
      <3>7. ReleaseAt(d)'
        BY <2>1, <3>1, <3>2, <3>3 DEF ReleaseAt, ReleaseOps, EndOps, Leaving
      <3> QED
        BY <3>5, <3>6, <3>7
    <2>2. CASE d \in h .. Len(stack') - 1
      <3>1. Pile'[d] \in Plain'
        BY <2>2
      <3> QED
        BY <3>1 DEF Plain, WorksAt, FreeAt, ReleaseAt, EndOps, ReleaseOps, Leaving, InUse
    <2> QED
      BY <1>1, <2>1, <2>2
  <1>4. ASSUME NEW k \in ConnIds, NEW ops \in SUBSET EndOps, Under(ops, k) PROVE Under(ops, k)'
    <2>1. PICK d \in 0 .. Len(stack) - 1 : Pile[d].op \in ops /\ Pile[d].k = k
      BY <1>4 DEF Under
    <2>2. ~AtTop(d)
      BY <2>1, PlainTop
    <2>3. d \in 0 .. Len(stack') - 1 /\ Pile'[d] = Pile[d]
      BY <1>1, <2>2 DEF AtTop
    <2> QED
      BY <2>1, <2>3 DEF Under
  <1>5. ASSUME NEW k \in ConnIds, GoingAway(k) PROVE GoingAway(k)'
    <2>1. PICK d \in 0 .. Len(stack) - 1 : /\ Pile[d].op \in {"h_free", "h_free_end"} /\ Pile[d].k = k
                                           /\ in_callback[k] \/ AtTop(d)
      BY <1>5 DEF GoingAway
    <2>2. ~AtTop(d)
      BY <2>1, PlainTop DEF EndOps
    <2>3. d \in 0 .. Len(stack') - 1 /\ Pile'[d] = Pile[d]
      BY <1>1, <2>2 DEF AtTop
    <2> QED
      BY <2>1, <2>2, <2>3 DEF GoingAway
  <1>6. Freeing \in SUBSET EndOps /\ {"connection_release"} \in SUBSET EndOps
    BY DEF Freeing, EndOps
  <1>7. OwnPart'
    <2> SUFFICES ASSUME NEW k \in ConnIds
                 PROVE  /\ CtxLive(k)' => (conn_ = k /\ InUse(k))' \/ Under(Freeing, k)'
                        /\ InUse(k)' => CtxLive(k)'
                        /\ (context_[k] /\ ~InUse(k))' => Under({"connection_release"}, k)'
                        /\ (disconnecting[k] /\ InUse(k))' => GoingAway(k)'
      BY DEF OwnPart
    <2>1. CtxLive(k)' = CtxLive(k) /\ InUse(k)' = InUse(k)
      BY DEF CtxLive
    <2>2. /\ CtxLive(k) => (conn_ = k /\ InUse(k)) \/ Under(Freeing, k)
          /\ InUse(k) => CtxLive(k)
          /\ context_[k] /\ ~InUse(k) => Under({"connection_release"}, k)
          /\ disconnecting[k] /\ InUse(k) => GoingAway(k)
      BY DEF MemInv, OwnPart
    <2> QED
      BY <1>4, <1>5, <1>6, <2>1, <2>2
  <1> QED
    BY <1>3, <1>7 DEF MemInv, EndPart

\* The frames a step adds: the running call goes on, or the application or the
\* event loop calls.
LEMMA ContinuedWith ==
  ASSUME StackPart, stack # <<>>, NEW S, NEW fs \in Seq(S), Continue(fs)
  PROVE  /\ Keep(Len(stack) - 1) /\ Len(stack) <= (Len(stack) - 1) + 1
         /\ \A d \in Len(stack) - 1 .. Len(stack') - 1 : Pile'[d] \in S
  <1>1. /\ Keep(Len(stack) - 1) /\ Len(stack') = Len(stack) - 1 + Len(fs)
        /\ \A i \in 1 .. Len(fs) : Pile'[Len(stack) - 1 + Len(fs) - i] = fs[i]
        /\ Len(stack) \in Nat /\ Len(fs) \in Nat
    BY PileContinue, PileType
  <1>2. ASSUME NEW d \in Len(stack) - 1 .. Len(stack') - 1 PROVE Pile'[d] \in S
    <2>1. /\ Len(stack) - 1 + Len(fs) - d \in 1 .. Len(fs)
          /\ Len(stack) - 1 + Len(fs) - (Len(stack) - 1 + Len(fs) - d) = d
      BY <1>1
    <2>2. Pile'[d] = fs[Len(stack) - 1 + Len(fs) - d]
      BY <1>1, <2>1
    <2> QED
      BY <2>1, <2>2
  <1>3. Len(stack) <= (Len(stack) - 1) + 1
    BY <1>1
  <1> QED
    BY <1>1, <1>2, <1>3

LEMMA CalledWith ==
  ASSUME StackPart, NEW S, NEW fs \in Seq(S), Call(fs)
  PROVE  /\ Keep(Len(stack)) /\ Len(stack) <= (Len(stack)) + 1
         /\ \A d \in Len(stack) .. Len(stack') - 1 : Pile'[d] \in S
  <1>1. /\ Keep(Len(stack)) /\ Len(stack') = Len(stack) + Len(fs)
        /\ \A i \in 1 .. Len(fs) : Pile'[Len(stack) + Len(fs) - i] = fs[i]
        /\ Len(stack) \in Nat /\ Len(fs) \in Nat
    BY PileCall, PileType
  <1>2. ASSUME NEW d \in Len(stack) .. Len(stack') - 1 PROVE Pile'[d] \in S
    <2>1. /\ Len(stack) + Len(fs) - d \in 1 .. Len(fs)
          /\ Len(stack) + Len(fs) - (Len(stack) + Len(fs) - d) = d
      BY <1>1
    <2>2. Pile'[d] = fs[Len(stack) + Len(fs) - d]
      BY <1>1, <2>1
    <2> QED
      BY <2>1, <2>2
  <1>3. Len(stack) <= (Len(stack)) + 1
    BY <1>1
  <1> QED
    BY <1>1, <1>2, <1>3

\* So a step may add any plain frames.
Undisturbed ==
  /\ UNCHANGED <<ctx_st, disconnecting, in_callback, conn_, context_, conn_status_, ub>>
  /\ timer_conn' \in {timer_conn, NoTimer}

LEMMA PlainContinue ==
  ASSUME IndInv, MemInv, stack # <<>>, Top.op \notin EndOps, Undisturbed,
         NEW fs \in Seq(Plain), Continue(fs)
  PROVE  MemInv'
  <1>1. /\ Keep(Len(stack) - 1) /\ Len(stack) <= (Len(stack) - 1) + 1
        /\ \A d \in Len(stack) - 1 .. Len(stack') - 1 : Pile'[d] \in Plain
    BY ContinuedWith DEF IndInv
  <1>2. Plain' = Plain
    BY DEF Plain, InUse, Undisturbed
  <1>3. timer_conn'.timeout = 0 /\ \A k \in ConnIds : InUse(k)' = InUse(k)
    BY DEF Undisturbed, MemInv, InUse, NoTimer
  <1> QED
    BY <1>1, <1>2, <1>3, PlainStep DEF Undisturbed

LEMMA PlainReturn ==
  ASSUME IndInv, MemInv, stack # <<>>, Top.op \notin EndOps, Undisturbed, Return
  PROVE  MemInv'
  <1> DEFINE fs == <<>>
  <1>1. Continue(fs) /\ fs \in Seq(Plain)
    BY DEF Return, Continue, IndInv, StackPart, Rest
  <1> HIDE DEF fs
  <1> QED
    BY <1>1, PlainContinue

LEMMA PlainCall ==
  ASSUME IndInv, MemInv, stack # <<>> => Top.op \notin EndOps, Undisturbed,
         NEW fs \in Seq(Plain), Call(fs)
  PROVE  MemInv'
  <1>1. /\ Keep(Len(stack)) /\ Len(stack) <= (Len(stack)) + 1
        /\ \A d \in Len(stack) .. Len(stack') - 1 : Pile'[d] \in Plain
    BY CalledWith DEF IndInv
  <1>2. Plain' = Plain
    BY DEF Plain, InUse, Undisturbed
  <1>3. timer_conn'.timeout = 0 /\ \A k \in ConnIds : InUse(k)' = InUse(k)
    BY DEF Undisturbed, MemInv, InUse, NoTimer
  <1> QED
    BY <1>1, <1>2, <1>3, PlainStep DEF Undisturbed

\* What the running call works on.
LEMMA TopWorks ==
  ASSUME IndInv, MemInv, NEW op, At(op)
  PROVE  /\ stack # <<>> /\ Top.op = op /\ Top \in GoodFrame
         /\ Len(stack) \in Nat /\ Len(stack) >= 1 /\ Pile[Len(stack) - 1] = Top
         /\ Len(stack) - 1 \in 0 .. Len(stack) - 1
         /\ op \in OnConn => Top.k = conn_ /\ conn_ # 0 /\ conn_ \in ConnIds
         /\ op \in OnUse => InUse(Top.k)
         /\ op \in {"on_connected", "on_connected_end"} => Top.a = "OK"
         /\ WorksAt(Len(stack) - 1) /\ FreeAt(Len(stack) - 1) /\ ReleaseAt(Len(stack) - 1)
  <1>1. stack # <<>> /\ Top \in GoodFrame /\ Top.op = op
    BY TopGood DEF IndInv
  <1>2. Len(stack) \in Nat /\ Len(stack) >= 1 /\ Pile[Len(stack) - 1] = Top
    BY <1>1, PileType DEF IndInv
  <1>3. Len(stack) - 1 \in 0 .. Len(stack) - 1
    BY <1>2
  <1>4. WorksAt(Len(stack) - 1) /\ FreeAt(Len(stack) - 1) /\ ReleaseAt(Len(stack) - 1)
    BY <1>3 DEF MemInv, EndPart
  <1>5. conn_ \in ConnIds \cup {0}
    BY DEF IndInv, RawPart
  <1> QED
    BY <1>1, <1>2, <1>3, <1>4, <1>5 DEF WorksAt

\* The frames the actions push.
LEMMA PlainFrames ==
  ASSUME IndInv, NEW c \in CmdIds
  PROVE  /\ F("exec", c, 0, "none") \in Plain /\ F("exec_failed", c, 0, "none") \in Plain
         /\ F("retry", c, 0, "none") \in Plain /\ F("destroy_cmd", c, 0, "none") \in Plain
         /\ F("destroy", c, 0, "none") \in Plain /\ F("user", c, 0, "none") \in Plain
         /\ conn_ # 0 => F("exec_conn", c, conn_, "none") \in Plain
         /\ conn_ # 0 /\ InUse(conn_) => \A r \in Replies :
              /\ F("on_reply", c, conn_, r) \in Plain
              /\ F("call_reply", c, conn_, r) \in Plain
              /\ F("pop_reply", c, conn_, r) \in Plain
              /\ F("pop_reply", c, conn_, "retry") \in Plain
  <1>1. conn_ \in ConnIds \cup {0}
    BY DEF IndInv, RawPart
  <1> QED
    BY <1>1 DEF F, Plain, Frame, Ops, Args, EndOps, Never, OnConn, OnUse, Replies

LEMMA PlainOthers ==
  /\ F("reset", 0, 0, "none") \in Plain
  /\ F("proc", 0, 0, "none") \in Plain
  /\ F("proc_conn", 0, 0, "none") \in Plain
  /\ \A k \in ConnIds : \A a \in {"on_connect", "on_connected", "on_disconnected"} :
       F("user", 0, k, a) \in Plain
  /\ \A k \in ConnIds : conn_ = k /\ conn_ # 0 /\ InUse(k) =>
       /\ F("on_connected", 0, k, "OK") \in Plain
       /\ F("on_connected_end", 0, k, "OK") \in Plain
       /\ F("h_connect_end", 0, k, "none") \in Plain
       /\ F("h_reply_end", 0, k, "none") \in Plain
  BY DEF F, Plain, Frame, Ops, Args, EndOps, Never, OnConn, OnUse

\* A call that goes on after a callback stays what it is.
LEMMA TopPlain ==
  ASSUME IndInv, MemInv, NEW op, At(op), op \notin EndOps
  PROVE  Top \in Plain
  BY TopWorks DEF WorksAt, Plain, GoodFrame, Good

\* A callback runs in application code, or does nothing: no CLUSTER SLOTS
\* command is ever created.
LEMMA PlainCallback ==
  ASSUME IndInv, NEW c \in CmdIds, NEW r
  PROVE  CallbackFrames(c, r) \in Seq(Plain)
  <1>1. LoadCmd(c) => ~callback_[c]
    <2>1. ASSUME LoadCmd(c) PROVE c > MaxCmds + nconn
      BY <2>1, BoundsAssumption DEF LoadCmd, IndInv, RawPart, BoundsAssumption, CmdIds
    <2> QED
      BY <2>1 DEF IndInv, FreshPart, CmdPart
  <1>2. F("user", c, 0, "none") \in Plain
    BY PlainFrames
  <1> QED
    BY <1>1, <1>2, OneType, EmptyType DEF CallbackFrames

LEMMA PlainCalledBack ==
  ASSUME IndInv, MemInv, stack # <<>>, Top.op \notin EndOps, Undisturbed,
         NEW c \in CmdIds, NEW r, NEW fs \in Seq(Plain), Continue(CallbackFrames(c, r) \o fs)
  PROVE  MemInv'
  <1>1. CallbackFrames(c, r) \o fs \in Seq(Plain)
    BY PlainCallback, ConcatType
  <1> QED
    BY <1>1, PlainContinue

\* Steps that change neither contexts nor connections.
LEMMA NothingDisturbed ==
  ASSUME UNCHANGED <<ub, conn_, timer_conn>>, UNCHANGED <<ctx_st, disconnecting, in_callback>>,
         UNCHANGED <<context_, conn_status_>>
  PROVE  Undisturbed
  BY DEF Undisturbed

LEMMA ExecMem == ASSUME IndInv, MemInv, exec \/ exec_connect_failed PROVE MemInv'
  <1>1. /\ stack # <<>> /\ Top.op \in {"exec", "exec_failed"} /\ Top.c \in CmdIds
    BY TopGood DEF exec, exec_connect_failed, IndInv, GoodFrame, Good, Created, CmdOps
  <1>2. UNCHANGED <<ub, conn_, timer_conn>> /\ UNCHANGED <<ctx_st, disconnecting, in_callback>>
        /\ UNCHANGED <<context_, conn_status_>>
    BY DEF exec, exec_connect_failed, hiredisVars, connVars, rawVars, Fail, CallBack, Continue
  <1>3. Undisturbed /\ Top.op \notin EndOps
    BY <1>1, <1>2, NothingDisturbed DEF EndOps
  <1>4. ASSUME NEW code, Fail(Top.c, code) PROVE MemInv'
    <2>1. <<F("destroy_cmd", Top.c, 0, "none")>> \in Seq(Plain)
      BY <1>1, PlainFrames, OneType
    <2> QED
      BY <1>1, <1>3, <1>4, <2>1, PlainCalledBack DEF Fail, CallBack
  <1>5. ASSUME conn_ # 0, Continue(<<F("exec_conn", Top.c, conn_, "none")>>) PROVE MemInv'
    <2>1. <<F("exec_conn", Top.c, conn_, "none")>> \in Seq(Plain)
      BY <1>1, <1>5, PlainFrames, OneType
    <2> QED
      BY <1>1, <1>3, <1>5, <2>1, PlainContinue
  <1> QED
    BY <1>4, <1>5 DEF exec, exec_connect_failed

LEMMA ExecConnMem == ASSUME IndInv, MemInv, exec_conn PROVE MemInv'
  <1>1. stack # <<>> /\ Top.op = "exec_conn"
    BY TopWorks DEF exec_conn
  <1>2. Return /\ UNCHANGED <<ub, conn_, timer_conn>> /\ UNCHANGED <<ctx_st, disconnecting, in_callback>>
        /\ UNCHANGED <<context_, conn_status_>>
    BY DEF exec_conn, redis_cmd, redisAsyncFormattedCommand, rawVars, Return
  <1> QED
    BY <1>1, <1>2, NothingDisturbed, PlainReturn DEF EndOps

\* A context that refuses commands is in one of its callbacks, so exec() does
\* not release the connection.
LEMMA ExecConnClosingMem == ASSUME IndInv, MemInv, exec_conn_closing PROVE MemInv'
  <1>1. /\ stack # <<>> /\ Top.op = "exec_conn" /\ Top.c \in CmdIds /\ Top.k = conn_ /\ Top.k \in ConnIds
        /\ Top.op \notin EndOps
    BY TopWorks DEF exec_conn_closing, OnConn, EndOps, GoodFrame, Good, Created, CmdOps
  <1>2. UNCHANGED <<ub, conn_, timer_conn>> /\ UNCHANGED <<ctx_st, disconnecting, in_callback>>
        /\ UNCHANGED <<context_, conn_status_>> /\ context_[Top.k] /\ disconnecting[Top.k]
    BY DEF exec_conn_closing, hiredisVars, connVars, rawVars, Continue
  <1>3. InUse(Top.k)
    <2> SUFFICES ASSUME ~InUse(Top.k) PROVE FALSE
      OBVIOUS
    <2>1. Under({"connection_release"}, Top.k)
      BY <1>1, <1>2 DEF MemInv, OwnPart
    <2>2. PICK d \in 0 .. Len(stack) - 1 : Pile[d].op = "connection_release"
      BY <2>1 DEF Under
    <2> QED
      BY <1>1, <2>2, PlainTop DEF EndOps
  <1>4. in_callback[Top.k]
    <2>1. GoingAway(Top.k)
      BY <1>1, <1>2, <1>3 DEF MemInv, OwnPart
    <2>2. PICK d \in 0 .. Len(stack) - 1 : /\ Pile[d].op \in {"h_free", "h_free_end"}
                                           /\ in_callback[Top.k] \/ AtTop(d)
      BY <2>1 DEF GoingAway
    <2> QED
      BY <1>1, <2>2, PlainTop DEF EndOps
  <1> DEFINE g == F("retry", Top.c, 0, "none")
  <1>5. Continue(<<>> \o <<g>>)
    BY <1>4 DEF exec_conn_closing
  <1>6. g \in Plain
    BY <1>1, PlainFrames
  <1> HIDE DEF g
  <1>7. <<>> \o <<g>> \in Seq(Plain)
    BY <1>6
  <1> QED
    BY <1>1, <1>2, <1>5, <1>7, NothingDisturbed, PlainContinue

LEMMA FailMem == ASSUME IndInv, MemInv, exec_conn_failed \/ destroy_cmd PROVE MemInv'
  <1>1. stack # <<>> /\ Top.op \in {"exec_conn", "destroy_cmd"} /\ Top.c \in CmdIds /\ Top.op \notin EndOps
    BY TopGood DEF exec_conn_failed, destroy_cmd, IndInv, EndOps, GoodFrame, Good, Created, CmdOps
  <1>2. Undisturbed
    BY DEF Undisturbed, exec_conn_failed, destroy_cmd, CallBack, hiredisVars, connVars, rawVars, Continue
  <1>3. <<F("destroy", Top.c, 0, "none")>> \in Seq(Plain) /\ <<F("destroy_cmd", Top.c, 0, "none")>> \in Seq(Plain)
    BY <1>1, PlainFrames, OneType
  <1>4. \/ Continue(CallbackFrames(Top.c, "null") \o <<F("destroy", Top.c, 0, "none")>>)
        \/ Continue(CallbackFrames(Top.c, "null") \o <<F("destroy_cmd", Top.c, 0, "none")>>)
    BY DEF exec_conn_failed, destroy_cmd, CallBack
  <1> QED
    BY <1>1, <1>2, <1>3, <1>4, PlainCalledBack

LEMMA RetryMem == ASSUME IndInv, MemInv, retry PROVE MemInv'
  <1>1. stack # <<>> /\ Top.op = "retry" /\ Top.c \in CmdIds /\ Top.op \notin EndOps
    BY TopGood DEF retry, IndInv, EndOps, GoodFrame, Good, Created, CmdOps
  <1>2. Undisturbed
    BY DEF Undisturbed, retry, hiredisVars, connVars, Continue, Return
  <1>3. <<F("exec", Top.c, 0, "none")>> \in Seq(Plain)
    BY <1>1, PlainFrames, OneType
  <1> QED
    BY <1>1, <1>2, <1>3, PlainContinue, PlainReturn DEF retry

LEMMA ReturnMem == ASSUME IndInv, MemInv, Destroy \/ UserReturn PROVE MemInv'
  <1>1. stack # <<>> /\ Top.op \in {"destroy", "user"} /\ Return
    BY TopGood DEF Destroy, destroy, UserReturn, IndInv
  <1>2. Undisturbed
    BY DEF Undisturbed, Destroy, destroy, UserReturn, hiredisVars, connVars, rawVars, Return
  <1> QED
    BY <1>1, <1>2, PlainReturn DEF EndOps

LEMMA UserExecMem == ASSUME IndInv, MemInv, UserExec PROVE MemInv'
  <1>1. stack # <<>> => Top.op \notin EndOps
    BY DEF UserExec, InUser, InLoop, At, EndOps
  <1>2. ncmd + 1 \in CmdIds
    BY BoundsAssumption DEF UserExec, BoundsAssumption, CmdIds, IndInv, RawPart
  <1>3. Undisturbed
    BY DEF Undisturbed, UserExec, hiredisVars, connVars, Call
  <1>4. /\ <<F("exec", ncmd + 1, 0, "none")>> \in Seq(Plain)
        /\ <<F("destroy_cmd", ncmd + 1, 0, "none")>> \in Seq(Plain)
    BY <1>2, PlainFrames, OneType
  <1> QED
    BY <1>1, <1>3, <1>4, PlainCall DEF UserExec

LEMMA ResetMem == ASSUME IndInv, MemInv, reset PROVE MemInv'
  <1>1. stack # <<>> /\ Top.op \notin EndOps /\ Top \in Plain
    BY TopWorks, TopPlain DEF reset, EndOps
  <1>2. Undisturbed
    BY DEF Undisturbed, reset, hiredisVars, connVars, CallBack, Continue, Return
  <1>3. ASSUME timer_pending # <<>> PROVE MemInv'
    <2> DEFINE c == Head(timer_pending).cmd
    <2>1. c \in CmdIds
      BY <1>3, TailType DEF IndInv, QueuePart, Created
    <2>2. Continue(CallbackFrames(c, "null") \o <<F("destroy_cmd", c, 0, "none"), Top>>)
      BY <1>3 DEF reset, CallBack
    <2> HIDE DEF c
    <2>3. <<F("destroy_cmd", c, 0, "none"), Top>> \in Seq(Plain)
      BY <1>1, <2>1, PlainFrames, TwoType
    <2> QED
      BY <1>1, <1>2, <2>1, <2>2, <2>3, PlainCalledBack
  <1> QED
    BY <1>1, <1>2, <1>3, PlainReturn DEF reset

LEMMA UserProcMem == ASSUME IndInv, MemInv, NEW t, UserProc(t) PROVE MemInv'
  <1>1. stack = <<>>
    BY DEF UserProc, InLoop
  <1>2. Undisturbed
    BY DEF Undisturbed, UserProc, hiredisVars, connVars, Call
  <1>3. <<F("proc", 0, 0, "none")>> \in Seq(Plain)
    BY PlainOthers, OneType
  <1> QED
    BY <1>1, <1>2, <1>3, PlainCall DEF UserProc

LEMMA ProcMem == ASSUME IndInv, MemInv, proc PROVE MemInv'
  <1>1. stack # <<>> /\ Top.op \notin EndOps /\ Top \in Plain
    BY TopWorks, TopPlain DEF proc, EndOps
  <1>2. Undisturbed
    BY DEF Undisturbed, proc, hiredisVars, connVars, Continue
  <1>3. CASE timer_pending # <<>> /\ Head(timer_pending).at <= now
    <2> DEFINE c == Head(timer_pending).cmd
    <2>1. c \in CmdIds
      BY <1>3, TailType DEF IndInv, QueuePart, Created
    <2>2. Continue(<<F("exec", c, 0, "none"), Top>>)
      BY <1>3 DEF proc
    <2> HIDE DEF c
    <2>3. <<F("exec", c, 0, "none"), Top>> \in Seq(Plain)
      BY <1>1, <2>1, PlainFrames, TwoType
    <2> QED
      BY <1>1, <1>2, <2>2, <2>3, PlainContinue
  <1>4. CASE ~(timer_pending # <<>> /\ Head(timer_pending).at <= now)
    <2>1. <<F("proc_conn", 0, 0, "none")>> \in Seq(Plain)
      BY PlainOthers, OneType
    <2>2. Continue(<<F("proc_conn", 0, 0, "none")>>)
      BY <1>4 DEF proc
    <2> QED
      BY <1>1, <1>2, <2>1, <2>2, PlainContinue
  <1> QED
    BY <1>3, <1>4

\* The connect timeout is not set.
LEMMA ProcConnMem == ASSUME IndInv, MemInv, proc_conn PROVE MemInv'
  <1>1. stack # <<>> /\ Top.op \notin EndOps
    BY TopWorks DEF proc_conn, EndOps
  <1>2. Undisturbed /\ Continue(<<>>)
    BY DEF Undisturbed, proc_conn, hiredisVars, connVars, rawVars, Continue, MemInv
  <1>3. <<>> \in Seq(Plain)
    BY EmptyType
  <1> QED
    BY <1>1, <1>2, <1>3, PlainContinue

LEMMA OnConnectedMem == ASSUME IndInv, MemInv, on_connected_wrapper PROVE MemInv'
  <1>1. /\ stack # <<>> /\ Top.op = "on_connected" /\ Top.op \notin EndOps /\ Top.a = "OK"
        /\ Top.k \in ConnIds /\ conn_ = Top.k /\ conn_ # 0 /\ InUse(Top.k)
    BY TopWorks DEF on_connected_wrapper, EndOps, OnConn, OnUse
  <1>2. Undisturbed
    BY DEF Undisturbed, on_connected_wrapper, hiredisVars, connVars, Continue
  <1>3. Continue(<<F("user", 0, Top.k, "on_connected"), F("on_connected_end", 0, Top.k, "OK")>>)
    BY <1>1 DEF on_connected_wrapper, InUse
  <1>4. <<F("user", 0, Top.k, "on_connected"), F("on_connected_end", 0, Top.k, "OK")>> \in Seq(Plain)
    BY <1>1, PlainOthers, TwoType
  <1> QED
    BY <1>1, <1>2, <1>3, <1>4, PlainContinue

LEMMA OnConnectedEndMem == ASSUME IndInv, MemInv, on_connected_end PROVE MemInv'
  <1>1. /\ stack # <<>> /\ Top.op \notin EndOps /\ Top.a = "OK" /\ Top.k \in ConnIds
        /\ Len(stack) \in Nat
    BY TopWorks DEF on_connected_end, EndOps, OnConn, OnUse
  <1>2. set_connected(Top.k) /\ Return
    BY <1>1 DEF on_connected_end
  <1>3. UNCHANGED <<ctx_st, disconnecting, in_callback, conn_, context_, ub>> /\ timer_conn'.timeout = 0
    BY <1>2 DEF on_connected_end, set_connected, hiredisVars, rawVars, Return, MemInv
  <1>4. \A k \in ConnIds : InUse(k)' = InUse(k)
    BY <1>1, <1>2 DEF set_connected, InUse, IndInv, ConnPart
  <1>5. Keep(Len(stack) - 1) /\ Len(stack') = Len(stack) - 1
    BY <1>1, <1>2, PileReturn DEF IndInv
  <1>6. Len(stack) <= (Len(stack) - 1) + 1 /\ \A d \in Len(stack) - 1 .. Len(stack') - 1 : FALSE
    BY <1>1, <1>5
  <1> QED
    BY <1>1, <1>3, <1>4, <1>5, <1>6, PlainStep

-----------------------------------------------------------------------------
(* The delivery of a reply                                                 *)

LEMMA OnReplyMem == ASSUME IndInv, FlowInv, MemInv, on_reply_wrapper PROVE MemInv'
  <1>1. /\ stack # <<>> /\ Top.op = "on_reply" /\ Top.op \notin EndOps /\ Top.c \in CmdIds
        /\ Top.k = conn_ /\ conn_ # 0 /\ InUse(conn_) /\ Top.a \in Replies
    BY TopWorks DEF on_reply_wrapper, EndOps, OnConn, OnUse, GoodFrame, Good, CmdOps, Created
  <1>2. Undisturbed
    BY DEF Undisturbed, on_reply_wrapper, hiredisVars, connVars, rawVars, Continue
  <1>3. /\ <<F("call_reply", Top.c, Top.k, Top.a)>> \in Seq(Plain)
        /\ <<F("pop_reply", Top.c, Top.k, "retry")>> \in Seq(Plain)
        /\ <<F("retry", Top.c, 0, "none")>> \in Seq(Plain)
    BY <1>1, PlainFrames, OneType
  <1>4. \/ Continue(<<F("call_reply", Top.c, Top.k, Top.a)>>)
        \/ Continue(<<F("pop_reply", Top.c, Top.k, "retry")>>)
        \/ Continue(<<F("retry", Top.c, 0, "none")>>)
    BY DEF on_reply_wrapper
  <1> QED
    BY <1>1, <1>2, <1>3, <1>4, PlainContinue

LEMMA CallReplyMem == ASSUME IndInv, FlowInv, MemInv, CallReply PROVE MemInv'
  <1>1. /\ stack # <<>> /\ Top.op = "call_reply" /\ Top.op \notin EndOps /\ Top.c \in CmdIds
        /\ Top.k = conn_ /\ conn_ # 0 /\ InUse(conn_) /\ Top.a \in Replies
    BY TopWorks DEF CallReply, call_reply, EndOps, OnConn, OnUse, GoodFrame, Good, CmdOps, Created
  <1>2. Undisturbed
    BY DEF Undisturbed, CallReply, call_reply, hiredisVars, connVars, rawVars, Continue, CallBack
  <1>3. /\ <<F("pop_reply", Top.c, Top.k, Top.a)>> \in Seq(Plain)
        /\ <<F("destroy", Top.c, 0, "none")>> \in Seq(Plain)
    BY <1>1, PlainFrames, OneType
  <1>4. \/ Continue(<<F("pop_reply", Top.c, Top.k, Top.a)>>)
        \/ Continue(CallbackFrames(Top.c, Top.a) \o <<F("destroy", Top.c, 0, "none")>>)
    BY DEF CallReply, call_reply, CallBack
  <1> QED
    BY <1>1, <1>2, <1>3, <1>4, PlainContinue, PlainCalledBack

\* The list is not empty, and the command is the first one in it.
LEMMA PopReplyMem == ASSUME IndInv, FlowInv, MemInv, PopReply PROVE MemInv'
  <1>1. /\ stack # <<>> /\ Top.op = "pop_reply" /\ Top.op \notin EndOps /\ Top.c \in CmdIds
    BY TopGood DEF PopReply, pop_reply, IndInv, EndOps, GoodFrame, Good, CmdOps, Created
  <1>2. reply_list_[Top.k] # <<>> /\ Head(reply_list_[Top.k]) = Top.c
    BY DeliveryLive DEF PopReply, pop_reply, Deliver
  <1>3. Undisturbed
    BY <1>2 DEF Undisturbed, PopReply, pop_reply, hiredisVars, rawVars, Continue, CallBack
  <1>4. /\ <<F("retry", Top.c, 0, "none")>> \in Seq(Plain) /\ <<>> \in Seq(Plain)
        /\ <<F("destroy", Top.c, 0, "none")>> \in Seq(Plain)
    BY <1>1, PlainFrames, OneType, EmptyType
  <1>5. \/ Continue(<<F("retry", Top.c, 0, "none")>>) \/ Continue(<<>>)
        \/ Continue(CallbackFrames(Top.c, Top.a) \o <<F("destroy", Top.c, 0, "none")>>)
    BY <1>2 DEF PopReply, pop_reply, CallBack
  <1> QED
    BY <1>1, <1>3, <1>4, <1>5, PlainContinue, PlainCalledBack

-----------------------------------------------------------------------------
(* New connections                                                         *)

\* Without conn_ no connection is in use or ends, and no context is alive.
LEMMA NoConnection ==
  ASSUME IndInv, FlowInv, MemInv, conn_ = 0, stack # <<>> => Top.op \notin EndOps
  PROVE  /\ \A d \in 0 .. Len(stack) - 1 : Pile[d].op \notin OnConn \cup EndOps
         /\ \A k \in ConnIds : ~InUse(k) /\ ~CtxLive(k) /\ ~context_[k]
  <1>1. ASSUME NEW d \in 0 .. Len(stack) - 1 PROVE Pile[d].op \notin OnConn \cup EndOps
    <2>1. Pile[d].op \notin OnConn
      BY DEF MemInv, EndPart, WorksAt
    <2>2. Pile[d].op # "h_free_end"
      <3>1. Pile[d].op = "h_free_end" => Pile[d].k \in ConnIds
        BY PileType DEF IndInv, GoodFrame, Good, ConnOps
      <3>2. Pile[d].op = "h_free_end" => Pile[d].k = conn_
        BY PlainTop
      <3> QED
        BY <3>1, <3>2 DEF ConnIds
    <2> QED
      BY <2>1, <2>2 DEF OnConn, EndOps
  <1>2. ASSUME NEW k \in ConnIds PROVE ~InUse(k) /\ ~CtxLive(k) /\ ~context_[k]
    <2>1. ~InUse(k)
      BY DEF FlowInv, ConnsPart, InUse, ConnIds
    <2>2. ~Under(Freeing, k) /\ ~Under({"connection_release"}, k)
      BY <1>1 DEF Under, Freeing, EndOps
    <2> QED
      BY <2>1, <2>2 DEF MemInv, OwnPart, IndInv, ConnPart
  <1> QED
    BY <1>1, <1>2

\* make_connection goes on with plain calls.
LEMMA ConnectMem ==
  ASSUME Benign, IndInv, FlowInv, MemInv, conn_ = 0, stack # <<>> => Top.op \notin EndOps,
         NEW k, k = nconn + 1, nconn < MaxConns, make_connection(k), UNCHANGED ub,
         NEW h, Keep(h), Len(stack) <= h + 1,
         \A d \in h .. Len(stack') - 1 : Pile'[d] \in Plain'
  PROVE  MemInv'
  <1>1. k \in ConnIds /\ conn_' = k /\ k # 0
    BY NewConnection DEF make_connection, ConnIds
  <1>2. /\ ctx_st' = [ctx_st EXCEPT ![k] = "connecting"]
        /\ context_' = [context_ EXCEPT ![k] = TRUE]
        /\ conn_status_' = [conn_status_ EXCEPT ![k] = "CONNECTING"]
        /\ UNCHANGED <<disconnecting, in_callback>>
    BY DEF make_connection, redisAsyncConnect, set_connecting
  <1>3. timer_conn'.timeout = 0
    BY DEF make_connection, Benign, MemInv
  <1>4. ~disconnecting[k]
    BY <1>1, ConnNumber DEF IndInv, FlowInv, ConnsPart, ConnIds
  <1>5. /\ \A d \in 0 .. Len(stack) - 1 : Pile[d].op \notin OnConn \cup EndOps
        /\ \A j \in ConnIds : ~InUse(j) /\ ~CtxLive(j) /\ ~context_[j]
    BY NoConnection
  <1>6. ASSUME NEW d \in 0 .. Len(stack') - 1 PROVE WorksAt(d)' /\ FreeAt(d)' /\ ReleaseAt(d)'
    <2>1. \/ d < h /\ d \in 0 .. Len(stack) - 1 /\ Pile'[d] = Pile[d]
          \/ d >= h /\ d \in h .. Len(stack') - 1
      BY KeptFrames DEF IndInv
    <2>2. CASE d \in 0 .. Len(stack) - 1 /\ Pile'[d] = Pile[d]
      <3>1. Pile'[d].op \notin OnConn \cup EndOps \cup Never
        BY <1>5, <2>2 DEF MemInv, EndPart, WorksAt
      <3> QED
        BY <3>1 DEF WorksAt, FreeAt, ReleaseAt, EndOps, ReleaseOps, Leaving, OnConn, OnUse
    <2>3. CASE d \in h .. Len(stack') - 1
      <3>1. Pile'[d] \in Plain'
        BY <2>3
      <3> QED
        BY <3>1 DEF Plain, WorksAt, FreeAt, ReleaseAt, EndOps, ReleaseOps, Leaving, InUse
    <2> QED
      BY <2>1, <2>2, <2>3
  <1>7. OwnPart'
    <2> SUFFICES ASSUME NEW j \in ConnIds
                 PROVE  /\ CtxLive(j)' => (conn_ = j /\ InUse(j))' \/ Under(Freeing, j)'
                        /\ InUse(j)' => CtxLive(j)'
                        /\ (context_[j] /\ ~InUse(j))' => Under({"connection_release"}, j)'
                        /\ (disconnecting[j] /\ InUse(j))' => GoingAway(j)'
      BY DEF OwnPart
    <2>1. CASE j = k
      BY <1>1, <1>2, <1>4, <2>1 DEF CtxLive, InUse, IndInv, ContextPart, ConnPart
    <2>2. CASE j # k
      BY <1>1, <1>2, <1>5, <2>2 DEF CtxLive, InUse, IndInv, ContextPart, ConnPart
    <2> QED
      BY <2>1, <2>2
  <1> QED
    BY <1>3, <1>6, <1>7 DEF MemInv, EndPart

\* The frames of make_connection, as the new connection sees them.
LEMMA ConnectPlain ==
  ASSUME IndInv, NEW k \in ConnIds, conn_' = k, conn_status_' = [conn_status_ EXCEPT ![k] = "CONNECTING"]
  PROVE  /\ F("user", 0, k, "on_connect") \in Plain'
         /\ \A c \in CmdIds : /\ F("exec_conn", c, k, "none") \in Plain'
                              /\ F("destroy_cmd", c, 0, "none") \in Plain'
                              /\ F("exec_failed", c, 0, "none") \in Plain'
  BY DEF F, Plain, Frame, Ops, Args, EndOps, Never, OnConn, OnUse, ConnIds

LEMMA UserConnectMem == ASSUME Benign, IndInv, FlowInv, MemInv, UserConnect PROVE MemInv'
  <1>1. PICK k : k = nconn + 1
    OBVIOUS
  <1> DEFINE a == F("exec_conn", AuthCmd(k), k, "none")
             b == F("destroy_cmd", AuthCmd(k), 0, "none")
             u == F("user", 0, k, "on_connect")
  <1>2. /\ conn_ = 0 /\ nconn < MaxConns /\ make_connection(k) /\ UNCHANGED ub
        /\ \/ Auth /\ Call(<<a, u>>)
           \/ Auth /\ Call(<<b>>)
           \/ ~Auth /\ Call(<<u>>)
    BY <1>1, ConnectFramesAre DEF UserConnect, Call
  <1>3. stack # <<>> => Top.op \notin EndOps
    BY DEF UserConnect, InUser, InLoop, At, EndOps
  <1>4. k \in ConnIds /\ (Auth => AuthCmd(k) \in CmdIds)
    BY <1>1, <1>2, NewConnection
  <1>5. u \in Plain' /\ (Auth => a \in Plain' /\ b \in Plain')
    BY <1>2, <1>4, ConnectPlain DEF make_connection, set_connecting
  <1> HIDE DEF a, b, u
  <1>6. \E fs \in Seq(Plain') : Call(fs)
    BY <1>2, <1>5, OneType, TwoType
  <1>7. PICK fs \in Seq(Plain') : Call(fs)
    BY <1>6
  <1>8. /\ Keep(Len(stack)) /\ Len(stack) <= Len(stack) + 1
        /\ \A d \in Len(stack) .. Len(stack') - 1 : Pile'[d] \in Plain'
    BY <1>7, CalledWith DEF IndInv
  <1> QED
    BY <1>1, <1>2, <1>3, <1>8, ConnectMem

LEMMA ExecConnectMem ==
  ASSUME Benign, IndInv, FlowInv, MemInv, exec_connect \/ exec_auth_format_failed
  PROVE  MemInv'
  <1>1. PICK k : k = nconn + 1
    OBVIOUS
  <1> DEFINE a == F("exec_conn", AuthCmd(k), k, "none")
             b == F("destroy_cmd", AuthCmd(k), 0, "none")
             u == F("user", 0, k, "on_connect")
             e == F("exec_conn", Top.c, k, "none")
             x == F("exec_failed", Top.c, 0, "none")
  <1>2. stack # <<>> /\ Top.op = "exec" /\ Top.op \notin EndOps /\ Top.c \in CmdIds
    BY TopGood DEF exec_connect, exec_auth_format_failed, IndInv, EndOps, GoodFrame, Good,
       Created, CmdOps
  <1>3. /\ conn_ = 0 /\ nconn < MaxConns /\ make_connection(k) /\ UNCHANGED ub
        /\ \/ Auth /\ Continue(<<a, u, e>>)
           \/ Auth /\ Continue(<<b, x>>)
           \/ ~Auth /\ Continue(<<u, e>>)
    BY <1>1, ConnectFramesAre DEF exec_connect, exec_auth_format_failed, Continue
  <1>4. k \in ConnIds /\ (Auth => AuthCmd(k) \in CmdIds)
    BY <1>1, <1>3, NewConnection
  <1>5. u \in Plain' /\ e \in Plain' /\ x \in Plain' /\ (Auth => a \in Plain' /\ b \in Plain')
    BY <1>2, <1>3, <1>4, ConnectPlain DEF make_connection, set_connecting
  <1> HIDE DEF a, b, u, e, x
  <1>6. \E fs \in Seq(Plain') : Continue(fs)
    <2>1. Auth => <<a, u, e>> \in Seq(Plain')
      BY <1>5
    <2> QED
      BY <1>3, <1>5, <2>1, TwoType
  <1>7. PICK fs \in Seq(Plain') : Continue(fs)
    BY <1>6
  <1>8. /\ Keep(Len(stack) - 1) /\ Len(stack) <= (Len(stack) - 1) + 1
        /\ \A d \in Len(stack) - 1 .. Len(stack') - 1 : Pile'[d] \in Plain'
    BY <1>2, <1>7, ContinuedWith DEF IndInv
  <1> QED
    BY <1>1, <1>2, <1>3, <1>8, ConnectMem

-----------------------------------------------------------------------------
(* What the event loop calls                                               *)

\* While the event loop waits, the only context alive is that of conn_.
LEMMA LoopWaits ==
  ASSUME IndInv, FlowInv, MemInv, stack = <<>>
  PROVE  /\ Len(stack) = 0
         /\ \A k \in ConnIds : /\ CtxLive(k) => conn_ = k /\ conn_ # 0 /\ InUse(k)
                               /\ InUse(k) => ~disconnecting[k]
                               /\ context_[k] => InUse(k)
                               /\ ~in_callback[k]
  <1>1. Len(stack) = 0 /\ \A d \in 0 .. Len(stack) - 1 : FALSE
    BY PileType DEF IndInv
  <1>2. \A k \in ConnIds : k # 0
    BY DEF ConnIds
  <1> QED
    BY <1>1, <1>2 DEF MemInv, OwnPart, Under, GoingAway, FlowInv, CallbackPart

\* It calls something for the context of conn_.
LEMMA LoopStep ==
  ASSUME IndInv, FlowInv, MemInv, stack = <<>>, NEW k \in ConnIds, CtxLive(k), CtxLive(k)',
         \A j \in ConnIds \ {k} : ctx_st'[j] = ctx_st[j],
         UNCHANGED <<conn_, context_, conn_status_, ub, timer_conn>>,
         \A d \in 0 .. Len(stack') - 1 : WorksAt(d)' /\ FreeAt(d)' /\ ReleaseAt(d)',
         disconnecting'[k] => GoingAway(k)'
  PROVE  MemInv'
  <1>1. /\ conn_ = k /\ InUse(k)
        /\ \A j \in ConnIds : CtxLive(j) => conn_ = j
        /\ \A j \in ConnIds : context_[j] => InUse(j)
    BY LoopWaits
  <1>2. \A j \in ConnIds : InUse(j)' = InUse(j) /\ (InUse(j) => j = k)
    BY <1>1 DEF InUse, FlowInv, ConnsPart
  <1>3. \A j \in ConnIds : CtxLive(j)' => j = k
    BY <1>1 DEF CtxLive
  <1>4. OwnPart'
    BY <1>1, <1>2, <1>3 DEF OwnPart
  <1> QED
    BY <1>4 DEF MemInv, EndPart

\* It calls back with plain calls.
LEMMA LoopPlain ==
  ASSUME IndInv, FlowInv, MemInv, stack = <<>>, NEW k \in ConnIds, CtxLive(k), CtxLive(k)',
         \A j \in ConnIds \ {k} : ctx_st'[j] = ctx_st[j],
         UNCHANGED <<conn_, context_, conn_status_, ub, timer_conn, disconnecting>>,
         NEW f \in Plain, NEW g \in Plain, Call(<<f, g>>)
  PROVE  MemInv'
  <1>1. ~disconnecting[k]
    BY LoopWaits
  <1>2. Plain' = Plain
    BY DEF Plain, InUse
  <1>3. /\ Len(stack) = 0
        /\ \A d \in Len(stack) .. Len(stack') - 1 : Pile'[d] \in Plain
    <2>1. <<f, g>> \in Seq(Plain)
      BY TwoType
    <2> QED
      BY <2>1, CalledWith, LoopWaits DEF IndInv
  <1>4. ASSUME NEW d \in 0 .. Len(stack') - 1 PROVE WorksAt(d)' /\ FreeAt(d)' /\ ReleaseAt(d)'
    <2>1. Pile'[d] \in Plain'
      BY <1>2, <1>3
    <2> QED
      BY <2>1 DEF Plain, WorksAt, FreeAt, ReleaseAt, EndOps, ReleaseOps, Leaving, InUse
  <1> QED
    BY <1>1, <1>4, LoopStep

LEMMA ConnectDoneMem ==
  ASSUME IndInv, FlowInv, MemInv, NEW k \in ConnIds, ByHiredis(ConnectDone(k))
  PROVE  MemInv'
  <1>1. stack = <<>> /\ CtxLive(k) /\ Call(<<F("on_connected", 0, k, "OK"), F("h_connect_end", 0, k, "none")>>)
    BY DEF ByHiredis, ConnectDone, InLoop, CtxLive
  <1>2. /\ CtxLive(k)' /\ \A j \in ConnIds \ {k} : ctx_st'[j] = ctx_st[j]
        /\ UNCHANGED <<conn_, context_, conn_status_, ub, timer_conn, disconnecting>>
    BY DEF ByHiredis, ConnectDone, CtxLive, connVars, rawVars, Call, IndInv, ContextPart
  <1>3. conn_ = k /\ conn_ # 0 /\ InUse(k)
    BY <1>1, LoopWaits
  <1>4. F("on_connected", 0, k, "OK") \in Plain /\ F("h_connect_end", 0, k, "none") \in Plain
    BY <1>3, PlainOthers
  <1> QED
    BY <1>1, <1>2, <1>4, LoopPlain

LEMMA ReplyArrivesMem ==
  ASSUME IndInv, FlowInv, MemInv, NEW k \in ConnIds, NEW r \in Replies, ByHiredis(ReplyArrives(k, r))
  PROVE  MemInv'
  <1>1. stack = <<>> /\ CtxLive(k) /\ Call(<<ReplyFrame(k, r), F("h_reply_end", 0, k, "none")>>)
    BY DEF ByHiredis, ReplyArrives, InLoop, CtxLive
  <1>2. /\ CtxLive(k)' /\ UNCHANGED ctx_st
        /\ UNCHANGED <<conn_, context_, conn_status_, ub, timer_conn, disconnecting>>
    BY <1>1 DEF ByHiredis, ReplyArrives, CtxLive, connVars, rawVars, Call
  <1>3. conn_ = k /\ conn_ # 0 /\ InUse(conn_)
    BY <1>1, LoopWaits
  <1>4. Head(replies[k]) \in Entries
    BY TailType DEF ByHiredis, ReplyArrives, IndInv, QueuePart
  <1>5. Head(replies[k]).fn = "on_reply" /\ Head(replies[k]).c \in CmdIds
    BY <1>4 DEF Entries, Created
  <1>6. ReplyFrame(k, r) \in Plain /\ F("h_reply_end", 0, k, "none") \in Plain
    BY <1>3, <1>5, PlainFrames, PlainOthers DEF ReplyFrame
  <1> QED
    BY <1>1, <1>2, <1>6, LoopPlain

LEMMA ConnectionLostMem ==
  ASSUME IndInv, FlowInv, MemInv, NEW k \in ConnIds, NEW e, ByHiredis(ConnectionLost(k, e))
  PROVE  MemInv'
  <1> DEFINE f == F("h_free", 0, k, "none")
  <1>1. stack = <<>> /\ CtxLive(k) /\ ctx_st[k] = "connected" /\ Call(<<f>>)
    BY DEF ByHiredis, ConnectionLost, InLoop, CtxLive
  <1>2. /\ CtxLive(k)' /\ UNCHANGED ctx_st
        /\ UNCHANGED <<conn_, context_, conn_status_, ub, timer_conn>>
    BY <1>1 DEF ByHiredis, ConnectionLost, CtxLive, connVars, rawVars, Call
  <1>3. conn_ = k /\ conn_ # 0 /\ InUse(k) /\ Len(stack) = 0
    BY <1>1, LoopWaits
  <1>4. f.op = "h_free" /\ f.k = k
    BY DEF F
  <1> HIDE DEF f
  <1>5. Len(stack') = 1 /\ Pile'[0] = f
    <2>1. Len(stack') = Len(stack) + 1 /\ Pile'[Len(stack)] = f
      BY <1>1, PileCallOne DEF IndInv
    <2> QED
      BY <1>3, <2>1
  <1>6. ASSUME NEW d \in 0 .. Len(stack') - 1 PROVE WorksAt(d)' /\ FreeAt(d)' /\ ReleaseAt(d)'
    <2>1. d = 0
      BY <1>5
    <2> QED
      BY <1>1, <1>2, <1>3, <1>4, <1>5, <2>1 DEF WorksAt, FreeAt, ReleaseAt, Never, OnConn, OnUse, Leaving,
         ReleaseOps, InUse, AtBase
  <1>7. GoingAway(k)'
    <2>1. 0 \in 0 .. Len(stack') - 1 /\ 0 = Len(stack') - 1
      BY <1>5
    <2> QED
      BY <1>4, <1>5, <2>1 DEF GoingAway, AtTop
  <1> QED
    BY <1>1, <1>2, <1>6, <1>7, LoopStep

\* After a callback the event loop waits again: no disconnect was asked for.
LEMMA CallbackEndMem ==
  ASSUME IndInv, FlowInv, MemInv, ByHiredis(ConnectEnd) \/ ByHiredis(ReplyEnd)
  PROVE  MemInv'
  <1>1. PICK op \in {"h_connect_end", "h_reply_end"} : At(op)
    BY DEF ByHiredis, ConnectEnd, ReplyEnd
  <1>2. /\ stack # <<>> /\ Top.op = op /\ Len(stack) \in Nat /\ Len(stack) >= 1
        /\ Pile[Len(stack) - 1] = Top /\ Len(stack) - 1 \in 0 .. Len(stack) - 1
        /\ Top.k = conn_ /\ conn_ \in ConnIds /\ InUse(Top.k)
    BY <1>1, TopWorks DEF OnConn, OnUse
  <1>3. Len(stack) = 1
    <2>1. Len(stack) - 1 = 0
      BY <1>1, <1>2 DEF FlowInv, ShapePart, ShapeAt, BottomOps
    <2> QED
      BY <1>2, <2>1
  <1>4. \A d \in 0 .. Len(stack) - 1 : Pile[d].op \in {"h_connect_end", "h_reply_end"}
    <2>1. \A d \in 0 .. Len(stack) - 1 : d = Len(stack) - 1
      BY <1>3
    <2> QED
      BY <1>1, <1>2, <2>1
  <1>5. \A k \in ConnIds : ~GoingAway(k) /\ ~Under(Freeing, k) /\ ~Under({"connection_release"}, k)
    BY <1>4 DEF GoingAway, Under, Freeing
  <1>6. ~disconnecting[Top.k]
    BY <1>2, <1>5 DEF MemInv, OwnPart
  <1>7. Continue(<<>>)
    BY <1>6 DEF ByHiredis, ConnectEnd, ReplyEnd
  <1>8. Len(stack') = 0
    <2> DEFINE fs == <<>>
    <2>1. fs \in Seq({}) /\ Len(fs) = 0 /\ Continue(fs)
      BY <1>7
    <2> HIDE DEF fs
    <2>2. Len(stack') = Len(stack) - 1 + Len(fs)
      BY <1>2, <2>1, PileContinue DEF IndInv
    <2> QED
      BY <1>3, <2>1, <2>2
  <1>9. UNCHANGED <<ctx_st, disconnecting, conn_, context_, conn_status_, ub, timer_conn>>
    BY <1>7 DEF ByHiredis, ConnectEnd, ReplyEnd, connVars, rawVars, Continue
  <1>10. OwnPart'
    BY <1>5, <1>9 DEF MemInv, OwnPart, CtxLive, InUse
  <1>11. EndPart'
    BY <1>8 DEF EndPart
  <1> QED
    BY <1>9, <1>10, <1>11 DEF MemInv

\* The application releases the connection, or resets the connector, while
\* nothing is outstanding.
LEMMA IdleConnection ==
  ASSUME IndInv, FlowInv, MemInv, stack = <<>>, conn_ # 0
  PROVE  /\ conn_ \in ConnIds /\ InUse(conn_) /\ CtxLive(conn_) /\ context_[conn_]
         /\ ~disconnecting[conn_] /\ ~in_callback[conn_] /\ Len(stack) = 0
  <1>1. conn_ \in ConnIds
    BY DEF IndInv, RawPart
  <1>2. Len(stack) = 0 /\ \A d \in 0 .. Len(stack) - 1 : FALSE
    BY PileType DEF IndInv
  <1>3. InUse(conn_)
    BY <1>2 DEF FlowInv, ReleasePart, InUse
  <1>4. CtxLive(conn_) /\ context_[conn_]
    BY <1>1, <1>3 DEF MemInv, OwnPart, FlowInv, ConnsPart, InUse
  <1> QED
    BY <1>1, <1>2, <1>3, <1>4, LoopWaits

LEMMA UserReleaseMem == ASSUME Benign, IndInv, FlowInv, MemInv, UserRelease PROVE MemInv'
  <1> DEFINE f == F("release_connection", 0, conn_, "close")
  <1>1. stack = <<>> /\ conn_ # 0 /\ replies[conn_] = <<>> /\ Call(<<f>>)
    BY DEF UserRelease, Benign, InLoop, Outstanding
  <1>2. /\ conn_ \in ConnIds /\ InUse(conn_) /\ CtxLive(conn_) /\ ~disconnecting[conn_]
        /\ ~in_callback[conn_] /\ Len(stack) = 0
    BY <1>1, IdleConnection
  <1>3. /\ UNCHANGED <<ctx_st, disconnecting, in_callback, replies>>
        /\ UNCHANGED <<conn_, context_, conn_status_, ub, timer_conn>>
    BY DEF UserRelease, hiredisVars, connVars, rawVars, Call
  <1>4. f.op = "release_connection" /\ f.k = conn_ /\ f.a = "close"
    BY DEF F
  <1> HIDE DEF f
  <1>5. Len(stack') = 1 /\ Pile'[0] = f
    <2>1. Len(stack') = Len(stack) + 1 /\ Pile'[Len(stack)] = f
      BY <1>1, PileCallOne DEF IndInv
    <2> QED
      BY <1>2, <2>1
  <1>6. ASSUME NEW d \in 0 .. Len(stack') - 1 PROVE WorksAt(d)' /\ FreeAt(d)' /\ ReleaseAt(d)'
    <2>1. d = 0 /\ d = Len(stack') - 1
      BY <1>5
    <2> QED
      BY <1>1, <1>2, <1>3, <1>4, <1>5, <2>1 DEF WorksAt, FreeAt, ReleaseAt, Never, OnConn, OnUse, Leaving,
         ReleaseOps, InUse, AtTop
  <1>7. CtxLive(conn_)'
    BY <1>2, <1>3 DEF CtxLive
  <1> QED
    BY <1>1, <1>2, <1>3, <1>6, <1>7, LoopStep

LEMMA UserResetMem == ASSUME Benign, IndInv, FlowInv, MemInv, UserReset PROVE MemInv'
  <1> DEFINE f == F("redisAsyncDisconnect", 0, conn_, "none")
             g == F("reset", 0, 0, "none")
  <1>1. /\ stack = <<>> /\ Call((IF conn_ # 0 /\ context_[conn_] THEN <<f>> ELSE <<>>) \o <<g>>)
        /\ conn_ # 0 => replies[conn_] = <<>> /\ ctx_st[conn_] = "connected"
    BY DEF UserReset, Benign, InLoop, Outstanding
  <1>2. /\ UNCHANGED <<ctx_st, disconnecting, in_callback, replies>>
        /\ UNCHANGED <<conn_, context_, conn_status_, ub, timer_conn>>
    BY DEF UserReset, hiredisVars, connVars, rawVars, Call
  <1>3. f.op = "redisAsyncDisconnect" /\ f.k = conn_ /\ g.op = "reset" /\ g \in Plain
    BY PlainOthers DEF F
  <1> HIDE DEF f, g
  <1>4. ASSUME conn_ = 0 PROVE MemInv'
    <2>1. Call(<<>> \o <<g>>)
      BY <1>1, <1>4
    <2>2. <<>> \o <<g>> \in Seq(Plain)
      BY <1>3
    <2> QED
      BY <1>1, <1>2, <2>1, <2>2, PlainCall DEF Undisturbed
  <1>5. ASSUME conn_ # 0 PROVE MemInv'
    <2>1. /\ conn_ \in ConnIds /\ InUse(conn_) /\ CtxLive(conn_) /\ ~disconnecting[conn_]
          /\ ~in_callback[conn_] /\ Len(stack) = 0 /\ context_[conn_]
      BY <1>1, <1>5, IdleConnection
    <2>2. Call(<<f, g>>)
      BY <1>1, <1>5, <2>1, Pair
    <2>3. Len(stack') = 2 /\ Pile'[1] = f /\ Pile'[0] = g
      <3>1. Len(stack') = Len(stack) + 2 /\ Pile'[Len(stack) + 1] = f /\ Pile'[Len(stack)] = g
        BY <2>2, PileCallTwo DEF IndInv
      <3> QED
        BY <2>1, <3>1
    <2>4. CtxLive(conn_)' /\ InUse(conn_)'
      BY <1>2, <2>1 DEF CtxLive, InUse
    <2>5. ASSUME NEW d \in 0 .. Len(stack') - 1 PROVE WorksAt(d)' /\ FreeAt(d)' /\ ReleaseAt(d)'
      <3>1. d = 0 \/ (d = 1 /\ d = Len(stack') - 1)
        BY <2>3
      <3>2. CASE d = 0
        BY <1>3, <2>3, <3>2 DEF WorksAt, FreeAt, ReleaseAt, Never, OnConn, OnUse, Leaving, ReleaseOps
      <3>3. CASE d = 1 /\ d = Len(stack') - 1
        <4>1. WorksAt(d)' /\ ReleaseAt(d)'
          BY <1>2, <1>3, <1>5, <2>3, <3>3 DEF WorksAt, ReleaseAt, Never, OnConn, OnUse, Leaving, ReleaseOps
        <4>2. AtTop(d)' /\ AtBase(d)'
          BY <1>3, <2>3, <3>3 DEF AtTop, AtBase
        <4>3. FreeAt(d)'
          BY <1>1, <1>2, <1>3, <1>5, <2>1, <2>3, <2>4, <3>3, <4>2 DEF FreeAt, InUse, CtxLive
        <4> QED
          BY <4>1, <4>3
      <3> QED
        BY <3>1, <3>2, <3>3
    <2> QED
      BY <1>1, <1>2, <2>1, <2>4, <2>5, LoopStep
  <1> QED
    BY <1>4, <1>5

-----------------------------------------------------------------------------
(* Freeing a context                                                       *)

\* A call stays under way unless it is the running one.
LEMMA UnderKept ==
  ASSUME StackPart, NEW h, Keep(h), Len(stack) <= h + 1, NEW ops, NEW k, Under(ops, k),
         stack # <<>> => Top.op \notin ops \/ Top.k # k
  PROVE  Under(ops, k)'
  <1>1. PICK d \in 0 .. Len(stack) - 1 : Pile[d].op \in ops /\ Pile[d].k = k
    BY DEF Under
  <1>2. \/ d < h /\ d \in 0 .. Len(stack') - 1 /\ Pile'[d] = Pile[d]
        \/ d = h /\ d = Len(stack) - 1 /\ Pile[d] = Top
    BY KeptFrames
  <1>3. stack # <<>>
    BY PileType
  <1>4. d \in 0 .. Len(stack') - 1 /\ Pile'[d] = Pile[d]
    BY <1>1, <1>2, <1>3
  <1> QED
    BY <1>1, <1>4 DEF Under

\* What lies below a context that is being freed: reset(), or the release that
\* asked for it.
LEMMA BelowFree ==
  ASSUME NEW b \in Nat, AtBase(b) \/ AtClosing(b), NEW e \in 0 .. b - 1
  PROVE  \/ Pile[e].op = "reset"
         \/ AtClosing(b) /\ e = 0 /\ Pile[e].op = "release_event"
         \/ AtClosing(b) /\ e = 1 /\ Pile[e].op = "connection_release"
  <1>1. CASE AtBase(b)
    <2>1. b = 1 /\ e = 0
      BY <1>1 DEF AtBase
    <2> QED
      BY <1>1, <2>1 DEF AtBase
  <1>2. CASE AtClosing(b)
    <2>1. b = 2 /\ (e = 0 \/ e = 1)
      BY <1>2 DEF AtClosing
    <2> QED
      BY <1>2, <2>1 DEF AtClosing
  <1> QED
    BY <1>1, <1>2

LEMMA LowFrames ==
  ASSUME IndInv, MemInv, NEW b \in 0 .. Len(stack) - 1, AtBase(b) \/ AtClosing(b), Keep(b),
         UNCHANGED <<conn_, conn_status_, reply_list_>>,
         AtClosing(b) => \/ Len(stack') = 2
                         \/ /\ Pile'[2].op \in Freeing
                            /\ Len(stack') = 3 \/ (Len(stack') = 4 /\ Pile'[3].op \in Leaving)
  PROVE  \A e \in 0 .. b - 1 : WorksAt(e)' /\ FreeAt(e)' /\ ReleaseAt(e)'
  <1>1. b \in Nat /\ Len(stack) \in Nat /\ \A e \in 0 .. b - 1 : Pile'[e] = Pile[e] /\ e \in 0 .. Len(stack) - 1
    BY PileType DEF IndInv, Keep
  <1> SUFFICES ASSUME NEW e \in 0 .. b - 1 PROVE WorksAt(e)' /\ FreeAt(e)' /\ ReleaseAt(e)'
    OBVIOUS
  <1>2. Pile'[e] = Pile[e] /\ WorksAt(e) /\ ReleaseAt(e)
    BY <1>1 DEF MemInv, EndPart
  <1>3. WorksAt(e)'
    BY <1>2 DEF WorksAt, InUse
  <1>4. \/ Pile[e].op = "reset"
        \/ AtClosing(b) /\ e = 0 /\ Pile[e].op = "release_event"
        \/ AtClosing(b) /\ e = 1 /\ Pile[e].op = "connection_release"
    BY <1>1, BelowFree
  <1>5. CASE Pile[e].op = "reset"
    BY <1>2, <1>3, <1>5 DEF FreeAt, ReleaseAt, Leaving, ReleaseOps
  <1>6. CASE AtClosing(b) /\ e = 0 /\ Pile[e].op = "release_event"
    <2>1. 1 \in 0 .. b - 1
      BY <1>6 DEF AtClosing
    <2>2. Pile'[e + 1].op = "connection_release"
      BY <1>1, <1>6, <2>1 DEF AtClosing
    <2> QED
      BY <1>2, <1>3, <1>6, <2>2 DEF FreeAt, ReleaseAt, Leaving, ReleaseOps
  <1>7. CASE AtClosing(b) /\ e = 1 /\ Pile[e].op = "connection_release"
    <2>1. 0 \in 0 .. b - 1 /\ e - 1 = 0
      BY <1>7 DEF AtClosing
    <2>2. Pile'[e - 1].op = "release_event" /\ reply_list_'[Pile'[e].k] = <<>>
      BY <1>1, <1>2, <1>7, <2>1 DEF AtClosing, ReleaseAt
    <2>3. Len(stack') = 2 => AtTop(e)'
      BY <1>7 DEF AtTop
    <2> QED
      BY <1>2, <1>3, <1>7, <2>1, <2>2, <2>3 DEF FreeAt, ReleaseAt, Leaving, ReleaseOps
  <1> QED
    BY <1>4, <1>5, <1>6, <1>7

\* No reply is outstanding and hiredis is in no callback: the context is freed
\* at once.
LEMMA DisconnectMem == ASSUME IndInv, FlowInv, MemInv, ByHiredis(redisAsyncDisconnect) PROVE MemInv'
  <1>a. PICK k : k = Top.k
    OBVIOUS
  <1>b. PICK d : d = Len(stack) - 1
    OBVIOUS
  <1> DEFINE f == F("h_free", 0, k, "none")
  <1>1. /\ stack # <<>> /\ Top.op = "redisAsyncDisconnect" /\ Len(stack) \in Nat /\ Len(stack) >= 1
        /\ Pile[d] = Top /\ d \in 0 .. Len(stack) - 1 /\ d \in Nat
        /\ k = conn_ /\ conn_ # 0 /\ conn_ \in ConnIds /\ FreeAt(d)
    BY <1>a, <1>b, TopWorks DEF ByHiredis, redisAsyncDisconnect, OnConn
  <1>2. /\ replies[k] = <<>> /\ ~in_callback[k] /\ CtxLive(k)
        /\ \/ AtBase(d) /\ InUse(k) /\ ctx_st[k] = "connected"
           \/ AtClosing(d) /\ ~InUse(k)
    BY <1>a, <1>1 DEF FreeAt
  <1>3. Continue(<<f>>) /\ f.op = "h_free" /\ f.k = k
    BY <1>a, <1>2 DEF ByHiredis, redisAsyncDisconnect, F
  <1>4. /\ UNCHANGED <<ctx_st, in_callback, replies, conn_, timer_conn, ub>>
        /\ UNCHANGED <<context_, conn_status_, reply_list_>>
        /\ disconnecting' = [disconnecting EXCEPT ![k] = TRUE]
    BY <1>a, <1>3 DEF ByHiredis, redisAsyncDisconnect, connVars, rawVars, Continue
  <1> HIDE DEF f
  <1>5. Keep(d) /\ Len(stack') = Len(stack) /\ Pile'[d] = f
    BY <1>b, <1>1, <1>3, PileContinueOne DEF IndInv
  <1>6. AtBase(d)' = AtBase(d) /\ AtClosing(d)' = AtClosing(d) /\ AtTop(d)'
    BY <1>b, <1>1, <1>5, PlacesKept DEF AtTop
  <1>7. WorksAt(d)' /\ FreeAt(d)' /\ ReleaseAt(d)'
    BY <1>1, <1>2, <1>3, <1>4, <1>5, <1>6 DEF WorksAt, FreeAt, ReleaseAt, Never, OnConn, OnUse,
       Leaving, ReleaseOps, InUse
  <1>8. \A e \in 0 .. d - 1 : WorksAt(e)' /\ FreeAt(e)' /\ ReleaseAt(e)'
    <2>1. AtClosing(d) => Pile'[2].op \in Freeing /\ Len(stack') = 3
      BY <1>b, <1>1, <1>3, <1>5 DEF AtClosing, Freeing
    <2> QED
      BY <1>1, <1>2, <1>4, <1>5, <2>1, LowFrames
  <1>9. EndPart'
    <2>1. \A e \in 0 .. Len(stack') - 1 : e = d \/ e \in 0 .. d - 1
      BY <1>b, <1>1, <1>5
    <2> QED
      BY <1>7, <1>8, <2>1 DEF EndPart
  <1>10. OwnPart'
    <2> SUFFICES ASSUME NEW j \in ConnIds
                 PROVE  /\ CtxLive(j)' => (conn_ = j /\ InUse(j))' \/ Under(Freeing, j)'
                        /\ InUse(j)' => CtxLive(j)'
                        /\ (context_[j] /\ ~InUse(j))' => Under({"connection_release"}, j)'
                        /\ (disconnecting[j] /\ InUse(j))' => GoingAway(j)'
      BY DEF OwnPart
    <2>1. CtxLive(j)' = CtxLive(j) /\ InUse(j)' = InUse(j)
      BY <1>4 DEF CtxLive, InUse
    <2>2. d \in 0 .. Len(stack') - 1 /\ Len(stack) <= d + 1
      BY <1>b, <1>1, <1>5
    <2>3. Under(Freeing, k)' /\ GoingAway(k)'
      BY <1>3, <1>5, <1>6, <2>2 DEF Under, GoingAway, Freeing
    <2>4. j # k /\ Under(Freeing, j) => Under(Freeing, j)'
      BY <1>a, <1>5, <2>2, UnderKept DEF IndInv
    <2>5. Under({"connection_release"}, j) => Under({"connection_release"}, j)'
      BY <1>1, <1>5, <2>2, UnderKept DEF IndInv
    <2>6. InUse(j) => j = k
      BY <1>1 DEF FlowInv, ConnsPart, InUse
    <2> QED
      BY <1>4, <2>1, <2>3, <2>4, <2>5, <2>6 DEF MemInv, OwnPart
  <1> QED
    BY <1>4, <1>9, <1>10 DEF MemInv

\* What has to be shown while a context is being freed, or its connection has
\* nothing to release.
LEMMA OwnKept ==
  ASSUME IndInv, MemInv, stack # <<>>, Top.op # "connection_release",
         NEW h, Keep(h), Len(stack) <= h + 1,
         UNCHANGED <<conn_, context_, conn_status_, disconnecting>>,
         \A j \in ConnIds : CtxLive(j)' => CtxLive(j),
         \A j \in ConnIds : InUse(j) => CtxLive(j)' /\ (GoingAway(j) => GoingAway(j)'),
         NEW k, k = Top.k, Top.op \in Freeing /\ CtxLive(k)' => Under(Freeing, k)'
  PROVE  OwnPart'
  <1> SUFFICES ASSUME NEW j \in ConnIds
               PROVE  /\ CtxLive(j)' => (conn_ = j /\ InUse(j))' \/ Under(Freeing, j)'
                      /\ InUse(j)' => CtxLive(j)'
                      /\ (context_[j] /\ ~InUse(j))' => Under({"connection_release"}, j)'
                      /\ (disconnecting[j] /\ InUse(j))' => GoingAway(j)'
    BY DEF OwnPart
  <1>1. InUse(j)' = InUse(j)
    BY DEF InUse
  <1>2. /\ CtxLive(j) => (conn_ = j /\ InUse(j)) \/ Under(Freeing, j)
        /\ context_[j] /\ ~InUse(j) => Under({"connection_release"}, j)
        /\ disconnecting[j] /\ InUse(j) => GoingAway(j)
    BY DEF MemInv, OwnPart
  <1>3. ASSUME Under(Freeing, j), CtxLive(j)' PROVE Under(Freeing, j)'
    <2>1. CASE Top.op \notin Freeing \/ k # j
      BY <1>3, <2>1, UnderKept DEF IndInv
    <2>2. CASE Top.op \in Freeing /\ k = j
      BY <1>3, <2>2
    <2> QED
      BY <2>1, <2>2
  <1>4. Under({"connection_release"}, j) => Under({"connection_release"}, j)'
    BY UnderKept DEF IndInv
  <1> QED
    BY <1>1, <1>2, <1>3, <1>4

\* The next outstanding callback is called with nullptr: the context was lost,
\* so this is at the bottom of the stack.
LEMMA FreeCallsBack ==
  ASSUME IndInv, FlowInv, MemInv, ByHiredis(FreeContext), replies[Top.k] # <<>>
  PROVE  MemInv'
  <1>a. PICK k : k = Top.k
    OBVIOUS
  <1>b. PICK t : t = Top
    OBVIOUS
  <1> DEFINE f == ReplyFrame(k, "null")
  <1>1. /\ stack # <<>> /\ t.op = "h_free" /\ Len(stack) \in Nat /\ Len(stack) >= 1
        /\ Pile[Len(stack) - 1] = t /\ Len(stack) - 1 \in 0 .. Len(stack) - 1
        /\ t.k = k /\ k = conn_ /\ conn_ # 0 /\ k \in ConnIds
        /\ FreeAt(Len(stack) - 1)
    BY <1>a, <1>b, TopWorks DEF ByHiredis, FreeContext, OnConn
  <1>2. Len(stack) = 1 /\ Pile[0] = t
    <2>1. Len(stack) - 1 = 0
      BY <1>1, <1>a DEF FlowInv, ShapePart, ShapeAt
    <2>2. \A n \in Nat : n - 1 = 0 => n = 1
      OBVIOUS
    <2>3. Pile[0] = t
      BY <1>1, <2>1
    <2> QED
      BY <1>1, <2>1, <2>2, <2>3
  <1>3. InUse(k) /\ ctx_st[k] = "connected"
    <2>1. FreeAt(0)
      BY <1>1, <1>2
    <2> QED
      BY <1>1, <1>2, <2>1 DEF FreeAt, AtClosing
  <1>4. f \in Plain
    <2>1. Head(replies[k]) \in Entries
      BY <1>1, <1>a, TailType DEF IndInv, QueuePart
    <2>2. Head(replies[k]).fn = "on_reply" /\ Head(replies[k]).c \in CmdIds
      BY <2>1 DEF Entries, Created
    <2> QED
      BY <1>1, <1>3, <2>2, PlainFrames DEF ReplyFrame, Replies
  <1>5. /\ Continue(<<f, t>>)
        /\ UNCHANGED <<ctx_st, disconnecting, conn_, timer_conn, ub>>
        /\ UNCHANGED <<context_, conn_status_, reply_list_>>
        /\ in_callback' = [in_callback EXCEPT ![k] = TRUE]
    BY <1>a, <1>b DEF ByHiredis, FreeContext, connVars, rawVars, Continue
  <1>6. f \in Plain'
    BY <1>4, <1>5 DEF Plain, InUse
  <1> HIDE DEF f
  <1>7. Keep(0) /\ Len(stack') = 2 /\ Pile'[1] = f /\ Pile'[0] = t
    <2>1. Keep(Len(stack) - 1) /\ Len(stack') = Len(stack) + 1 /\ Pile'[Len(stack)] = f /\ Pile'[Len(stack) - 1] = t
      BY <1>1, <1>5, PileContinueTwo DEF IndInv
    <2> QED
      BY <1>2, <2>1
  <1>8. ASSUME NEW d \in 0 .. Len(stack') - 1 PROVE WorksAt(d)' /\ FreeAt(d)' /\ ReleaseAt(d)'
    <2>1. d = 0 \/ d = 1
      BY <1>7
    <2>2. CASE d = 0
      BY <1>1, <1>3, <1>5, <1>7, <2>2 DEF WorksAt, FreeAt, ReleaseAt, Never, OnConn, OnUse, Leaving,
         ReleaseOps, InUse, AtBase
    <2>3. CASE d = 1
      BY <1>6, <1>7, <2>3 DEF Plain, WorksAt, FreeAt, ReleaseAt, EndOps, ReleaseOps, Leaving, InUse
    <2> QED
      BY <2>1, <2>2, <2>3
  <1>9. 0 \in 0 .. Len(stack') - 1 /\ in_callback'[k]
    BY <1>1, <1>5, <1>7 DEF IndInv, ContextPart
  <1>10. Under(Freeing, k)' /\ GoingAway(k)'
    BY <1>1, <1>7, <1>9 DEF Under, GoingAway, Freeing
  <1>11. \A j \in ConnIds : CtxLive(j)' = CtxLive(j) /\ (InUse(j) => CtxLive(j) /\ j = k)
    BY <1>1, <1>5 DEF CtxLive, InUse, MemInv, OwnPart, FlowInv, ConnsPart
  <1>12. OwnPart'
    <2>1. Len(stack) <= 0 + 1 /\ Top.op # "connection_release"
      BY <1>b, <1>1, <1>2
    <2>2. \A j \in ConnIds : InUse(j) => CtxLive(j)' /\ (GoingAway(j) => GoingAway(j)')
      BY <1>10, <1>11
    <2>3. \A j \in ConnIds : CtxLive(j)' => CtxLive(j)
      BY <1>11
    <2> QED
      BY <1>a, <1>1, <1>5, <1>7, <1>10, <2>1, <2>2, <2>3, OwnKept
  <1> QED
    BY <1>5, <1>8, <1>12 DEF MemInv, EndPart

\* No callback is outstanding: the connection is told, and the context is about
\* to go.
LEMMA FreeEnds ==
  ASSUME IndInv, FlowInv, MemInv, ByHiredis(FreeContext), replies[Top.k] = <<>>
  PROVE  MemInv'
  <1>a. PICK k : k = Top.k
    OBVIOUS
  <1>b. PICK d : d = Len(stack) - 1
    OBVIOUS
  <1> DEFINE f == F("h_free_end", 0, k, "none")
             g == F("on_disconnected", 0, k, ctx_err[k])
  <1>1. /\ stack # <<>> /\ Top.op = "h_free" /\ Len(stack) \in Nat /\ Len(stack) >= 1
        /\ Pile[d] = Top /\ d \in 0 .. Len(stack) - 1 /\ d \in Nat
        /\ k = conn_ /\ conn_ # 0 /\ k \in ConnIds /\ FreeAt(d)
    BY <1>a, <1>b, TopWorks DEF ByHiredis, FreeContext, OnConn
  <1>2. \/ AtBase(d) /\ InUse(k) /\ ctx_st[k] = "connected"
        \/ AtClosing(d) /\ ~InUse(k)
    BY <1>a, <1>1 DEF FreeAt
  <1>3. /\ f.op = "h_free_end" /\ f.k = k /\ g.op = "on_disconnected" /\ g.k = k
    BY DEF F
  <1>4. /\ Continue((IF ctx_st[k] = "connected" THEN <<g>> ELSE <<>>) \o <<f>>)
        /\ UNCHANGED <<ctx_st, disconnecting, replies, conn_, timer_conn, ub>>
        /\ UNCHANGED <<context_, conn_status_, reply_list_>>
        /\ in_callback' = [in_callback EXCEPT ![k] = TRUE]
    BY <1>a DEF ByHiredis, FreeContext, connVars, rawVars, Continue
  <1>5. \E x, y : x = f /\ y = g
    OBVIOUS
  <1>6. PICK x, y : x = f /\ y = g
    BY <1>5, Zenon
  <1> HIDE DEF f, g
  <1>7. /\ Keep(d) /\ Pile'[d] = x
        /\ \/ Len(stack') = d + 2 /\ Pile'[d + 1] = y
           \/ Len(stack') = d + 1 /\ ctx_st[k] # "connected"
    <2>1. CASE ctx_st[k] = "connected"
      <3>1. Continue(<<y, x>>)
        BY <1>4, <1>6, <2>1, Pair
      <3>2. /\ Keep(Len(stack) - 1) /\ Len(stack') = Len(stack) + 1 /\ Pile'[Len(stack)] = y
            /\ Pile'[Len(stack) - 1] = x
        BY <1>1, <3>1, PileContinueTwo DEF IndInv
      <3>3. Len(stack) = d + 1
        BY <1>b, <1>1
      <3> QED
        BY <1>b, <1>1, <3>2, <3>3
    <2>2. CASE ctx_st[k] # "connected"
      <3>1. <<>> \o <<x>> = <<x>>
        OBVIOUS
      <3>2. Continue(<<x>>)
        BY <1>4, <1>6, <2>2, <3>1
      <3>3. Keep(Len(stack) - 1) /\ Len(stack') = Len(stack) /\ Pile'[Len(stack) - 1] = x
        BY <1>1, <3>2, PileContinueOne DEF IndInv
      <3> QED
        BY <1>b, <1>1, <2>2, <3>3
    <2> QED
      BY <2>1, <2>2
  <1>8. x.op = "h_free_end" /\ x.k = k /\ y.op = "on_disconnected" /\ y.k = k
    BY <1>3, <1>6
  <1>9. AtBase(d)' = AtBase(d) /\ AtClosing(d)' = AtClosing(d) /\ Len(stack') \in Nat
    BY <1>1, <1>7, PlacesKept DEF Keep
  <1>10. WorksAt(d)' /\ FreeAt(d)' /\ ReleaseAt(d)'
    BY <1>1, <1>2, <1>4, <1>7, <1>8, <1>9 DEF WorksAt, FreeAt, ReleaseAt, Never, OnConn, OnUse,
       Leaving, ReleaseOps, InUse
  <1>11. ASSUME Len(stack') = d + 2, Pile'[d + 1] = y
         PROVE  WorksAt(d + 1)' /\ FreeAt(d + 1)' /\ ReleaseAt(d + 1)'
    <2>1. AtTop(d + 1)' /\ AtFree(d + 1)' /\ replies'[k] = <<>>
      BY <1>a, <1>1, <1>4, <1>7, <1>8, <1>11 DEF AtTop, AtFree
    <2> QED
      BY <1>1, <1>4, <1>8, <1>11, <2>1 DEF WorksAt, FreeAt, ReleaseAt, Never, OnConn, OnUse,
         Leaving, ReleaseOps
  <1>12. \A e \in 0 .. d - 1 : WorksAt(e)' /\ FreeAt(e)' /\ ReleaseAt(e)'
    <2>1. AtClosing(d) => /\ Pile'[2].op \in Freeing
                          /\ Len(stack') = 3 \/ (Len(stack') = 4 /\ Pile'[3].op \in Leaving)
      BY <1>7, <1>8 DEF AtClosing, Freeing, Leaving
    <2> QED
      BY <1>1, <1>2, <1>4, <1>7, <2>1, LowFrames
  <1>13. EndPart'
    <2>1. \A e \in 0 .. Len(stack') - 1 : e = d \/ e \in 0 .. d - 1 \/ (e = d + 1 /\ Len(stack') = d + 2 /\ Pile'[d + 1] = y)
      BY <1>1, <1>7
    <2> QED
      BY <1>10, <1>11, <1>12, <2>1 DEF EndPart
  <1>14. d \in 0 .. Len(stack') - 1 /\ in_callback'[k] /\ Len(stack) <= d + 1
    BY <1>b, <1>1, <1>4, <1>7 DEF IndInv, ContextPart
  <1>15. Under(Freeing, k)' /\ GoingAway(k)'
    BY <1>7, <1>8, <1>14 DEF Under, GoingAway, Freeing
  <1>16. \A j \in ConnIds : CtxLive(j)' = CtxLive(j) /\ (InUse(j) => CtxLive(j) /\ j = k)
    BY <1>1, <1>4 DEF CtxLive, InUse, MemInv, OwnPart, FlowInv, ConnsPart
  <1>17. OwnPart'
    <2>2. \A j \in ConnIds : InUse(j) => CtxLive(j)' /\ (GoingAway(j) => GoingAway(j)')
      BY <1>15, <1>16
    <2>3. \A j \in ConnIds : CtxLive(j)' => CtxLive(j)
      BY <1>16
    <2> QED
      BY <1>a, <1>1, <1>4, <1>7, <1>14, <1>15, <2>2, <2>3, OwnKept
  <1> QED
    BY <1>4, <1>13, <1>17 DEF MemInv

\* The memory of a context is returned: its connection has been released.
LEMMA FreeContextEndMem == ASSUME IndInv, FlowInv, MemInv, ByHiredis(FreeContextEnd) PROVE MemInv'
  <1>a. PICK k : k = Top.k
    OBVIOUS
  <1>b. PICK d : d = Len(stack) - 1
    OBVIOUS
  <1>1. /\ stack # <<>> /\ Top.op = "h_free_end" /\ Len(stack) \in Nat /\ Len(stack) = d + 1
        /\ Pile[d] = Top /\ d \in 0 .. Len(stack) - 1 /\ d \in Nat /\ k \in ConnIds
        /\ FreeAt(d) /\ Return
    <2>1. At("h_free_end") /\ Return
      BY DEF ByHiredis, FreeContextEnd
    <2>2. /\ stack # <<>> /\ Top.op = "h_free_end" /\ Len(stack) \in Nat /\ Len(stack) >= 1
          /\ Pile[d] = Top /\ d \in 0 .. Len(stack) - 1 /\ Top \in GoodFrame /\ FreeAt(d)
      BY <1>b, <2>1, TopWorks
    <2>3. k \in ConnIds
      BY <1>a, <2>2 DEF GoodFrame, Good, ConnOps
    <2> QED
      BY <1>b, <2>1, <2>2, <2>3
  <1>2. (AtBase(d) \/ AtClosing(d)) /\ ~InUse(k)
    BY <1>a, <1>1 DEF FreeAt
  <1>3. /\ UNCHANGED <<disconnecting, conn_, timer_conn, ub>>
        /\ UNCHANGED <<context_, conn_status_, reply_list_>>
        /\ ctx_st' = [ctx_st EXCEPT ![k] = "freed"]
        /\ in_callback' = [in_callback EXCEPT ![k] = FALSE]
    BY <1>a, <1>1 DEF ByHiredis, FreeContextEnd, connVars, rawVars, Return
  <1>4. Keep(d) /\ Len(stack') = d
    BY <1>b, <1>1, PileReturn DEF IndInv
  <1>5. EndPart'
    <2>1. AtClosing(d) => Len(stack') = 2
      BY <1>4 DEF AtClosing
    <2> QED
      BY <1>1, <1>2, <1>3, <1>4, <2>1, LowFrames DEF EndPart
  <1>6. \A j \in ConnIds : CtxLive(j)' => CtxLive(j) /\ j # k
    BY <1>1, <1>3 DEF CtxLive, IndInv, ContextPart
  <1>7. ASSUME NEW j \in ConnIds, InUse(j) PROVE CtxLive(j)' /\ (GoingAway(j) => GoingAway(j)')
    <2>1. j # k /\ CtxLive(j)
      BY <1>2, <1>7 DEF MemInv, OwnPart
    <2>2. CtxLive(j)' /\ in_callback'[j] = in_callback[j]
      BY <1>3, <2>1 DEF CtxLive
    <2>3. ASSUME GoingAway(j) PROVE GoingAway(j)'
      <3>1. PICK e \in 0 .. Len(stack) - 1 : /\ Pile[e].op \in {"h_free", "h_free_end"} /\ Pile[e].k = j
                                             /\ in_callback[j] \/ AtTop(e)
        BY <2>3 DEF GoingAway
      <3>2. e # d
        BY <1>a, <1>1, <2>1, <3>1
      <3>3. e \in 0 .. d - 1 /\ ~AtTop(e)
        BY <1>1, <3>2 DEF AtTop
      <3>4. Pile'[e] = Pile[e] /\ e \in 0 .. Len(stack') - 1
        BY <1>4, <3>3 DEF Keep
      <3> QED
        BY <2>2, <3>1, <3>3, <3>4 DEF GoingAway
    <2> QED
      BY <2>2, <2>3
  <1>8. OwnPart'
    <2>1. Len(stack) <= d + 1 /\ ~CtxLive(k)'
      BY <1>1, <1>6
    <2> QED
      BY <1>a, <1>1, <1>3, <1>4, <1>6, <1>7, <2>1, OwnKept
  <1> QED
    BY <1>3, <1>5, <1>8 DEF MemInv

-----------------------------------------------------------------------------
(* Releasing the connection                                                *)

\* The disconnect callback, and a release that has nothing to do: hiredis goes
\* on to free the context.
LEMMA LeavingStep ==
  ASSUME IndInv, FlowInv, MemInv, stack # <<>>, Top.op \in Leaving,
         NEW d \in Nat, Len(stack) = d + 1, AtFree(d), conn_ # 0, Keep(d),
         UNCHANGED <<ctx_st, disconnecting, in_callback, conn_, timer_conn, ub>>,
         UNCHANGED <<context_, conn_status_, reply_list_>>,
         \/ Len(stack') = d /\ ~InUse(conn_)
         \/ /\ Len(stack') = d + 1 /\ Pile'[d].op \in Leaving
            /\ WorksAt(d)' /\ FreeAt(d)' /\ ReleaseAt(d)'
  PROVE  MemInv'
  <1>1. d \in 0 .. Len(stack) - 1 /\ Pile[d] = Top
    <2>1. Len(stack) - 1 = d
      OBVIOUS
    <2> QED
      BY <2>1, PileType DEF IndInv
  <1>b. PICK b \in Nat : d = b + 1 /\ Pile[b].op = "h_free_end"
    <2>1. d - 1 \in Nat /\ d = (d - 1) + 1
      BY DEF AtFree
    <2> QED
      BY <2>1 DEF AtFree
  <1>2. b \in Nat /\ b + 1 = d /\ b \in 0 .. Len(stack) - 1 /\ Pile[b].op = "h_free_end"
    BY <1>b
  <1>3. FreeAt(b) /\ ~AtTop(b)
    BY <1>1, <1>2 DEF MemInv, EndPart, AtTop
  <1>4. (AtBase(b) \/ AtClosing(b)) /\ Pile[b].k = conn_
    BY <1>2, <1>3 DEF FreeAt
  <1>5. Pile'[b] = Pile[b] /\ Keep(b) /\ \A e \in 0 .. b - 1 : Pile'[e] = Pile[e]
    BY <1>1, <1>2 DEF Keep
  <1>6. AtBase(b)' = AtBase(b) /\ AtClosing(b)' = AtClosing(b)
    BY <1>2, <1>5, PlacesKept
  <1>7. WorksAt(b)' /\ FreeAt(b)' /\ ReleaseAt(b)'
    <2>1. ~InUse(conn_) \/ (Len(stack') = b + 2 /\ Pile'[b + 1].op \in Leaving)
      BY <1>2
    <2> QED
      BY <1>2, <1>4, <1>5, <1>6, <2>1 DEF WorksAt, FreeAt, ReleaseAt, Never, OnConn, OnUse,
         Leaving, ReleaseOps, InUse
  <1>8. \A e \in 0 .. b - 1 : WorksAt(e)' /\ FreeAt(e)' /\ ReleaseAt(e)'
    <2>1. AtClosing(b) => /\ Pile'[2].op \in Freeing
                          /\ Len(stack') = 3 \/ (Len(stack') = 4 /\ Pile'[3].op \in Leaving)
      <3> SUFFICES ASSUME AtClosing(b)
                   PROVE  /\ Pile'[2].op \in Freeing
                          /\ Len(stack') = 3 \/ (Len(stack') = 4 /\ Pile'[3].op \in Leaving)
        OBVIOUS
      <3>1. b = 2 /\ d = 3
        BY <1>2 DEF AtClosing
      <3>2. Pile'[2].op \in Freeing
        BY <1>2, <1>5, <3>1 DEF Freeing
      <3> QED
        BY <3>1, <3>2
    <2> QED
      BY <1>2, <1>4, <1>5, <2>1, LowFrames
  <1>9. EndPart'
    <2>1. \A e \in 0 .. Len(stack') - 1 : e = b \/ e \in 0 .. b - 1 \/ (e = d /\ Len(stack') = d + 1)
      BY <1>1, <1>2
    <2> QED
      BY <1>1, <1>7, <1>8, <2>1 DEF EndPart
  <1>10. ASSUME NEW j \in ConnIds, GoingAway(j) PROVE GoingAway(j)'
    <2>1. PICK e \in 0 .. Len(stack) - 1 : /\ Pile[e].op \in {"h_free", "h_free_end"} /\ Pile[e].k = j
                                           /\ in_callback[j] \/ AtTop(e)
      BY <1>10 DEF GoingAway
    <2>2. e # d
      BY <1>1, <2>1 DEF Leaving
    <2>3. e \in 0 .. d - 1 /\ ~AtTop(e)
      BY <1>1, <2>2 DEF AtTop
    <2>4. Pile'[e] = Pile[e] /\ e \in 0 .. Len(stack') - 1
      BY <1>1, <2>3 DEF Keep
    <2> QED
      BY <2>1, <2>3, <2>4 DEF GoingAway
  <1>11. OwnPart'
    <2>1. \A j \in ConnIds : CtxLive(j)' = CtxLive(j) /\ (InUse(j) => CtxLive(j))
      BY DEF CtxLive, MemInv, OwnPart
    <2>2. Len(stack) <= d + 1 /\ Top.op \notin Freeing /\ Top.op # "connection_release"
      BY <1>1 DEF Leaving, Freeing
    <2> QED
      BY <1>10, <2>1, <2>2, OwnKept
  <1> QED
    BY <1>9, <1>11 DEF MemInv

LEMMA OnDisconnectedMem == ASSUME IndInv, FlowInv, MemInv, on_disconnected_wrapper PROVE MemInv'
  <1>b. PICK d : d = Len(stack) - 1
    OBVIOUS
  <1>c. PICK f : f = F("release_connection", 0, conn_, "keep")
    OBVIOUS
  <1>1. /\ stack # <<>> /\ Top.op = "on_disconnected" /\ Len(stack) \in Nat /\ Len(stack) = d + 1
        /\ Pile[d] = Top /\ d \in Nat /\ d \in 0 .. Len(stack) - 1
        /\ Top.k = conn_ /\ conn_ # 0 /\ ReleaseAt(d)
    BY <1>b, TopWorks DEF on_disconnected_wrapper, OnConn
  <1>2. AtFree(d) /\ replies[conn_] = <<>>
    BY <1>1 DEF ReleaseAt, Leaving
  <1>3. f.op = "release_connection" /\ f.k = conn_ /\ f.a = "keep" /\ Continue(<<f>>)
    BY <1>c DEF F, on_disconnected_wrapper
  <1>4. /\ UNCHANGED <<ctx_st, disconnecting, in_callback, conn_, timer_conn, ub>>
        /\ UNCHANGED <<context_, conn_status_, reply_list_>> /\ UNCHANGED replies
    BY DEF on_disconnected_wrapper, hiredisVars, connVars, rawVars, Continue
  <1>5. Keep(d) /\ Len(stack') = d + 1 /\ Pile'[d] = f
    BY <1>b, <1>1, <1>3, PileContinueOne DEF IndInv
  <1>6. AtFree(d)' /\ AtTop(d)'
    BY <1>1, <1>2, <1>5, PlacesKept DEF AtTop
  <1>7. WorksAt(d)' /\ FreeAt(d)' /\ ReleaseAt(d)'
    BY <1>1, <1>2, <1>3, <1>4, <1>5, <1>6 DEF WorksAt, FreeAt, ReleaseAt, Never, OnConn, OnUse,
       Leaving, ReleaseOps
  <1> QED
    BY <1>1, <1>2, <1>3, <1>4, <1>5, <1>7, LeavingStep DEF Leaving

LEMMA FreeContextMem == ASSUME IndInv, FlowInv, MemInv, ByHiredis(FreeContext) PROVE MemInv'
  BY FreeCallsBack, FreeEnds

\* No reply is outstanding, so none is in the list of the connection.
LEMMA EmptyList ==
  ASSUME IndInv, FlowInv, stack # <<>>, Top.op \notin Deliver,
         NEW k \in ConnIds, InUse(k), replies[k] = <<>>
  PROVE  reply_list_[k] = <<>>
  <1>1. ~Delivers(k)
    <2> SUFFICES ASSUME Delivers(k) PROVE FALSE
      OBVIOUS
    <2>1. 1 \in 0 .. Len(stack) - 1 /\ Pile[1].op \in Deliver
      BY DEF Delivers
    <2> QED
      BY <2>1, DeliverIsTop DEF IndInv, FlowInv
  <1>2. Len(reply_list_[k]) = 0 + Len(replies[k])
    BY <1>1 DEF FlowInv, MatchPart, Shifted, InUse
  <1>3. reply_list_[k] \in Seq(Created)
    BY DEF IndInv, QueuePart
  <1> QED
    BY <1>2, <1>3

\* What lies below a release: the application, or hiredis freeing the context,
\* perhaps in a reset().
LEMMA BelowRelease ==
  ASSUME IndInv, FlowInv, MemInv, NEW r \in 0 .. Len(stack) - 1, Pile[r].op \in ReleaseOps
  PROVE  /\ conn_ # 0 /\ conn_ = Pile[r].k /\ conn_ \in ConnIds
         /\ \A j \in ConnIds : ~InUse(j)
         /\ r = 0 \/ AtFree(r)
         /\ \A e \in 0 .. r - 1 :
              \/ Pile[e].op = "reset"
              \/ Pile[e].op = "h_free_end" /\ AtBase(e) /\ Pile[e].k = conn_ /\ e + 1 = r
  <1>1. /\ conn_ # 0 /\ conn_ = Pile[r].k /\ conn_status_[conn_] = "DISCONNECTED"
        /\ \A e \in 0 .. Len(stack) - 1 : Pile[e].op \in ReleaseOps => e = r
    BY DEF FlowInv, ReleasePart
  <1>2. conn_ \in ConnIds
    BY <1>1 DEF IndInv, RawPart
  <1>3. \A j \in ConnIds : ~InUse(j)
    BY <1>1 DEF FlowInv, ConnsPart, InUse
  <1>4. r = 0 \/ AtFree(r)
    BY DEF MemInv, EndPart, ReleaseAt
  <1>5. ASSUME NEW e \in 0 .. r - 1
        PROVE  \/ Pile[e].op = "reset"
               \/ Pile[e].op = "h_free_end" /\ AtBase(e) /\ Pile[e].k = conn_ /\ e + 1 = r
    <2>0. Len(stack) \in Nat
      BY PileType DEF IndInv
    <2>1. PICK b \in Nat : r = b + 1
      <3>1. r - 1 \in Nat /\ r = (r - 1) + 1
        BY <2>0
      <3> QED
        BY <3>1
    <2>2. b \in 0 .. Len(stack) - 1 /\ Pile[b].op = "h_free_end" /\ ~AtTop(b)
      BY <1>4, <2>0, <2>1 DEF AtFree, AtTop
    <2>3. (AtBase(b) \/ AtClosing(b)) /\ Pile[b].k = conn_
      BY <2>2 DEF MemInv, EndPart, FreeAt
    <2>4. ~AtClosing(b)
      <3> SUFFICES ASSUME AtClosing(b) PROVE FALSE
        OBVIOUS
      <3>1. 0 \in 0 .. Len(stack) - 1 /\ Pile[0].op \in ReleaseOps
        BY <2>0 DEF AtClosing, ReleaseOps
      <3> QED
        BY <1>1, <2>1, <3>1
    <2>5. CASE e = b
      BY <2>1, <2>2, <2>3, <2>4, <2>5
    <2>6. CASE e # b
      <3>1. e \in 0 .. b - 1
        BY <2>0, <2>1, <2>6
      <3> QED
        BY <2>3, <2>4, <3>1, BelowFree
    <2> QED
      BY <2>5, <2>6
  <1> QED
    BY <1>1, <1>2, <1>3, <1>4, <1>5

\* They stay as they are while the release goes on.
LEMMA BelowReleaseKept ==
  ASSUME NEW r \in Nat, Keep(r), conn_ \in ConnIds,
         \A e \in 0 .. r - 1 :
            \/ Pile[e].op = "reset"
            \/ Pile[e].op = "h_free_end" /\ AtBase(e) /\ Pile[e].k = conn_ /\ e + 1 = r,
         \A j \in ConnIds : ~InUse(j)',
         conn_' = conn_ \/ (conn_' = 0 /\ Len(stack') = r)
  PROVE  \A e \in 0 .. r - 1 : WorksAt(e)' /\ FreeAt(e)' /\ ReleaseAt(e)'
  <1> SUFFICES ASSUME NEW e \in 0 .. r - 1 PROVE WorksAt(e)' /\ FreeAt(e)' /\ ReleaseAt(e)'
    OBVIOUS
  <1>1. Pile'[e] = Pile[e] /\ AtBase(e)' = AtBase(e)
    <2>1. e \in 0 .. r
      OBVIOUS
    <2> QED
      BY <2>1, PlacesKept DEF Keep
  <1>2. CASE Pile[e].op = "reset"
    BY <1>1, <1>2 DEF WorksAt, FreeAt, ReleaseAt, Never, OnConn, OnUse, Leaving, ReleaseOps
  <1>3. CASE Pile[e].op = "h_free_end" /\ AtBase(e) /\ Pile[e].k = conn_ /\ e + 1 = r
    <2>1. conn_status_'[Pile'[e].k] = "DISCONNECTED"
      BY <1>1, <1>3 DEF InUse
    <2>2. Pile'[e].k = conn_' \/ (conn_' = 0 /\ AtTop(e)')
      <3>1. Len(stack') = r => AtTop(e)'
        BY <1>3 DEF AtTop
      <3> QED
        BY <1>1, <1>3, <3>1
    <2> QED
      BY <1>1, <1>3, <2>1, <2>2 DEF WorksAt, FreeAt, ReleaseAt, Never, OnConn, OnUse, Leaving, ReleaseOps,
         InUse
  <1> QED
    BY <1>2, <1>3

\* No connection is in use: the contexts that live are being freed.
LEMMA OwnReleased ==
  ASSUME IndInv, MemInv, stack # <<>>, Top.op \notin Freeing,
         NEW h, Keep(h), Len(stack) <= h + 1, UNCHANGED ctx_st,
         \A j \in ConnIds : ~InUse(j) /\ ~InUse(j)',
         NEW k, k = Top.k,
         \A j \in ConnIds : context_'[j] => context_[j] /\ (Top.op # "connection_release" \/ k # j)
  PROVE  OwnPart'
  <1> SUFFICES ASSUME NEW j \in ConnIds
               PROVE  /\ CtxLive(j)' => (conn_ = j /\ InUse(j))' \/ Under(Freeing, j)'
                      /\ InUse(j)' => CtxLive(j)'
                      /\ (context_[j] /\ ~InUse(j))' => Under({"connection_release"}, j)'
                      /\ (disconnecting[j] /\ InUse(j))' => GoingAway(j)'
    BY DEF OwnPart
  <1>1. /\ CtxLive(j) => (conn_ = j /\ InUse(j)) \/ Under(Freeing, j)
        /\ context_[j] /\ ~InUse(j) => Under({"connection_release"}, j)
    BY DEF MemInv, OwnPart
  <1>2. Under(Freeing, j) => Under(Freeing, j)'
    BY UnderKept DEF IndInv
  <1>3. CtxLive(j)' = CtxLive(j)
    BY DEF CtxLive
  <1>4. ASSUME Under({"connection_release"}, j), Top.op # "connection_release" \/ k # j
        PROVE  Under({"connection_release"}, j)'
    BY <1>4, UnderKept DEF IndInv
  <1> QED
    BY <1>1, <1>2, <1>3, <1>4

\* Every command of the connection has been answered: the release only drops
\* the context,
LEMMA ConnectionReleaseMem == ASSUME IndInv, FlowInv, MemInv, ConnectionRelease PROVE MemInv'
  <1>a. PICK k : k = Top.k
    OBVIOUS
  <1>b. PICK d : d = Len(stack) - 1
    OBVIOUS
  <1>1. /\ stack # <<>> /\ Top.op = "connection_release" /\ Len(stack) \in Nat /\ Len(stack) = d + 1
        /\ Pile[d] = Top /\ d \in Nat /\ d \in 0 .. Len(stack) - 1 /\ k \in ConnIds /\ ReleaseAt(d)
    BY <1>a, <1>b, TopWorks DEF ConnectionRelease, connection_release, OnConn
  <1>2. d > 0 /\ Pile[d - 1].op = "release_event" /\ reply_list_[k] = <<>>
    BY <1>a, <1>1 DEF ReleaseAt
  <1>3. PICK r \in Nat : d = r + 1
    <2>1. d - 1 \in Nat /\ d = (d - 1) + 1
      BY <1>1, <1>2
    <2> QED
      BY <2>1
  <1>4. r \in 0 .. Len(stack) - 1 /\ Pile[r].op = "release_event" /\ r \in 0 .. d
    <2>1. d - 1 = r
      BY <1>3
    <2> QED
      BY <1>1, <1>2, <1>3, <2>1
  <1>5. /\ conn_ # 0 /\ conn_ = Pile[r].k /\ conn_ \in ConnIds
        /\ \A j \in ConnIds : ~InUse(j)
        /\ r = 0 \/ AtFree(r)
        /\ \A e \in 0 .. r - 1 :
              \/ Pile[e].op = "reset"
              \/ Pile[e].op = "h_free_end" /\ AtBase(e) /\ Pile[e].k = conn_ /\ e + 1 = r
    BY <1>4, BelowRelease DEF ReleaseOps
  <1>6. /\ Return /\ UNCHANGED <<ctx_st, conn_, timer_conn, ub>>
        /\ context_' = [context_ EXCEPT ![k] = FALSE]
        /\ conn_status_' = [conn_status_ EXCEPT ![k] = "DISCONNECTED"]
    BY <1>a, <1>2 DEF ConnectionRelease, connection_release, hiredisVars, rawVars, Return
  <1>7. Keep(d) /\ Len(stack') = d
    BY <1>b, <1>1, <1>6, PileReturn DEF IndInv
  <1>8. Keep(r) /\ Pile'[r] = Pile[r] /\ AtFree(r)' = AtFree(r) /\ AtTop(r)'
    <2>1. r \in 0 .. d - 1
      BY <1>3
    <2>2. Keep(r) /\ Pile'[r] = Pile[r]
      BY <1>3, <1>7, <2>1 DEF Keep
    <2>3. AtFree(r)' = AtFree(r)
      BY <1>4, <1>7, PlacesKept
    <2>4. AtTop(r)'
      BY <1>3, <1>7 DEF AtTop
    <2> QED
      BY <2>2, <2>3, <2>4
  <1>9. \A j \in ConnIds : ~InUse(j)'
    BY <1>5, <1>6 DEF InUse
  <1>10. \A e \in 0 .. r - 1 : WorksAt(e)' /\ FreeAt(e)' /\ ReleaseAt(e)'
    BY <1>5, <1>6, <1>8, <1>9, BelowReleaseKept
  <1>11. WorksAt(r)' /\ FreeAt(r)' /\ ReleaseAt(r)'
    BY <1>4, <1>5, <1>6, <1>8 DEF WorksAt, FreeAt, ReleaseAt, Never, OnConn, OnUse, Leaving
  <1>12. EndPart'
    <2>1. \A e \in 0 .. Len(stack') - 1 : e = r \/ e \in 0 .. r - 1
      BY <1>3, <1>7
    <2> QED
      BY <1>10, <1>11, <2>1 DEF EndPart
  <1>13. OwnPart'
    <2>1. Len(stack) <= d + 1 /\ Top.op \notin Freeing
      BY <1>1 DEF Freeing
    <2>2. \A j \in ConnIds : context_'[j] => context_[j] /\ k # j
      BY <1>1, <1>6 DEF IndInv, ConnPart
    <2> QED
      BY <1>a, <1>1, <1>5, <1>6, <1>7, <1>9, <2>1, <2>2, OwnReleased
  <1> QED
    BY <1>6, <1>12, <1>13 DEF MemInv

\* then the end is reported,
LEMMA ReleaseEventMem == ASSUME IndInv, FlowInv, MemInv, release_event PROVE MemInv'
  <1>a. PICK k : k = Top.k
    OBVIOUS
  <1>b. PICK d : d = Len(stack) - 1
    OBVIOUS
  <1> DEFINE f == F("user", 0, Top.k, IF Top.a = "CONNECTING" THEN "on_connected" ELSE "on_disconnected")
             g == F("release_end", 0, Top.k, "none")
  <1>1. /\ stack # <<>> /\ Top.op = "release_event" /\ Len(stack) \in Nat /\ Len(stack) = d + 1
        /\ Pile[d] = Top /\ d \in Nat /\ d \in 0 .. Len(stack) - 1 /\ d \in 0 .. d /\ k \in ConnIds
    BY <1>a, <1>b, TopWorks DEF release_event, OnConn
  <1>2. /\ conn_ # 0 /\ conn_ = k /\ conn_ \in ConnIds
        /\ \A j \in ConnIds : ~InUse(j)
        /\ d = 0 \/ AtFree(d)
        /\ \A e \in 0 .. d - 1 :
              \/ Pile[e].op = "reset"
              \/ Pile[e].op = "h_free_end" /\ AtBase(e) /\ Pile[e].k = conn_ /\ e + 1 = d
    BY <1>a, <1>1, BelowRelease DEF ReleaseOps
  <1>3. \E x, y : x = f /\ y = g
    OBVIOUS
  <1>4. PICK x, y : x = f /\ y = g
    BY <1>3, Zenon
  <1>5. /\ Continue(<<f, g>>) /\ UNCHANGED <<ctx_st, context_, conn_status_, conn_, timer_conn, ub>>
    BY DEF release_event, hiredisVars, connVars, Continue
  <1>6. x.op = "user" /\ y.op = "release_end" /\ y.k = k
    BY <1>a, <1>4 DEF F
  <1> HIDE DEF f, g
  <1>7. Keep(d) /\ Len(stack') = d + 2 /\ Pile'[d + 1] = x /\ Pile'[d] = y
    <2>1. /\ Keep(Len(stack) - 1) /\ Len(stack') = Len(stack) + 1 /\ Pile'[Len(stack)] = x
          /\ Pile'[Len(stack) - 1] = y
      BY <1>1, <1>4, <1>5, PileContinueTwo DEF IndInv
    <2> QED
      BY <1>b, <1>1, <2>1
  <1>8. AtFree(d)' = AtFree(d)
    BY <1>1, <1>7, PlacesKept
  <1>9. \A j \in ConnIds : ~InUse(j)'
    BY <1>2, <1>5 DEF InUse
  <1>10. \A e \in 0 .. d - 1 : WorksAt(e)' /\ FreeAt(e)' /\ ReleaseAt(e)'
    BY <1>1, <1>2, <1>5, <1>7, <1>9, BelowReleaseKept
  <1>11. WorksAt(d)' /\ FreeAt(d)' /\ ReleaseAt(d)'
    BY <1>2, <1>5, <1>6, <1>7, <1>8 DEF WorksAt, FreeAt, ReleaseAt, Never, OnConn, OnUse, Leaving
  <1>12. WorksAt(d + 1)' /\ FreeAt(d + 1)' /\ ReleaseAt(d + 1)'
    BY <1>6, <1>7 DEF WorksAt, FreeAt, ReleaseAt, Never, OnConn, OnUse, Leaving, ReleaseOps
  <1>13. EndPart'
    <2>1. \A e \in 0 .. Len(stack') - 1 : e = d \/ e = d + 1 \/ e \in 0 .. d - 1
      BY <1>1, <1>7
    <2> QED
      BY <1>10, <1>11, <1>12, <2>1 DEF EndPart
  <1>14. OwnPart'
    <2>1. Len(stack) <= d + 1 /\ Top.op \notin Freeing /\ Top.op # "connection_release"
      BY <1>1 DEF Freeing
    <2> QED
      BY <1>a, <1>1, <1>2, <1>5, <1>7, <1>9, <2>1, OwnReleased
  <1> QED
    BY <1>5, <1>13, <1>14 DEF MemInv

\* and the object is destroyed.
LEMMA ReleaseEndMem == ASSUME IndInv, FlowInv, MemInv, release_end PROVE MemInv'
  <1>a. PICK k : k = Top.k
    OBVIOUS
  <1>b. PICK d : d = Len(stack) - 1
    OBVIOUS
  <1>1. /\ stack # <<>> /\ Top.op = "release_end" /\ Len(stack) \in Nat /\ Len(stack) = d + 1
        /\ Pile[d] = Top /\ d \in Nat /\ d \in 0 .. Len(stack) - 1
    BY <1>b, TopWorks DEF release_end
  <1>2. /\ conn_ \in ConnIds
        /\ \A j \in ConnIds : ~InUse(j)
        /\ \A e \in 0 .. d - 1 :
              \/ Pile[e].op = "reset"
              \/ Pile[e].op = "h_free_end" /\ AtBase(e) /\ Pile[e].k = conn_ /\ e + 1 = d
    BY <1>1, BelowRelease DEF ReleaseOps
  <1>3. /\ Return /\ UNCHANGED <<ctx_st, context_, conn_status_, ub>>
        /\ conn_' = 0 /\ timer_conn'.timeout = 0
    BY DEF release_end, hiredisVars, Return, NoTimer
  <1>4. Keep(d) /\ Len(stack') = d
    BY <1>b, <1>1, <1>3, PileReturn DEF IndInv
  <1>5. \A j \in ConnIds : ~InUse(j)'
    BY <1>2, <1>3 DEF InUse
  <1>6. EndPart'
    BY <1>1, <1>2, <1>3, <1>4, <1>5, BelowReleaseKept DEF EndPart
  <1>7. OwnPart'
    <2>1. Len(stack) <= d + 1 /\ Top.op \notin Freeing /\ Top.op # "connection_release"
      BY <1>1 DEF Freeing
    <2> QED
      BY <1>a, <1>1, <1>2, <1>3, <1>4, <1>5, <2>1, OwnReleased
  <1> QED
    BY <1>3, <1>6, <1>7 DEF MemInv

\* A release that begins.  The application closes the connection from the event
\* loop: the context is asked to disconnect first.
LEMMA ReleaseCloseMem ==
  ASSUME IndInv, FlowInv, MemInv, release_connection, NEW k, k = Top.k,
         InUse(k), Top.a = "close"
  PROVE  MemInv'
  <1> DEFINE f == F("redisAsyncDisconnect", 0, k, "none")
             g == F("connection_release", 0, k, "none")
             l == F("release_event", 0, k, conn_status_[k])
  <1>1. /\ stack # <<>> /\ Top.op = "release_connection" /\ Len(stack) \in Nat
        /\ Pile[Len(stack) - 1] = Top /\ Len(stack) - 1 \in 0 .. Len(stack) - 1
        /\ k = conn_ /\ k # 0 /\ k \in ConnIds /\ ReleaseAt(Len(stack) - 1)
    BY TopWorks DEF release_connection, OnConn
  <1>2. Len(stack) = 1 /\ ~in_callback[k] /\ replies[k] = <<>>
    <2>1. Len(stack) - 1 = 0 /\ ~in_callback[k] /\ replies[k] = <<>>
      BY <1>1 DEF ReleaseAt, Leaving
    <2> QED
      BY <1>1, <2>1
  <1>3. reply_list_[k] = <<>> /\ context_[k] /\ CtxLive(k)
    BY <1>1, <1>2, EmptyList DEF Deliver, FlowInv, ConnsPart, MemInv, OwnPart, InUse
  <1>4. /\ Continue((<<f>> \o <<g>>) \o <<l>>) /\ set_disconnected(k)
        /\ UNCHANGED <<hiredisVars, rawVars>>
    BY <1>1, <1>3 DEF release_connection, ReleaseFrames, InUse
  <1>5. /\ UNCHANGED <<ctx_st, disconnecting, in_callback, replies, conn_, timer_conn, ub>>
        /\ UNCHANGED <<context_, reply_list_>>
        /\ conn_status_' = [conn_status_ EXCEPT ![k] = "DISCONNECTED"]
    BY <1>4 DEF set_disconnected, hiredisVars, rawVars, Continue
  <1>6. \E x, y : x = f /\ y = g
    OBVIOUS
  <1>7. PICK x, y : x = f /\ y = g
    BY <1>6, Zenon
  <1>8. PICK z : z = l
    OBVIOUS
  <1>9. /\ x.op = "redisAsyncDisconnect" /\ x.k = k /\ y.op = "connection_release" /\ y.k = k
        /\ z.op = "release_event" /\ z.k = k
    BY <1>7, <1>8 DEF F
  <1> HIDE DEF f, g, l
  <1>10. Len(stack') = 3 /\ Pile'[2] = x /\ Pile'[1] = y /\ Pile'[0] = z
    <2>0. (<<x>> \o <<y>>) \o <<z>> = <<x, y, z>>
      <3>1. <<x>> \o <<y>> = <<x, y>>
        BY Pair
      <3>2. <<x, y>> \o <<z>> = <<x, y, z>>
        BY Triple
      <3> QED
        BY <3>1, <3>2, Zenon
    <2>1. Continue(<<x, y, z>>)
      BY <1>4, <1>7, <1>8, <2>0
    <2>2. /\ Len(stack') = Len(stack) + 2
          /\ Pile'[Len(stack) + 1] = x /\ Pile'[Len(stack)] = y /\ Pile'[Len(stack) - 1] = z
      BY <1>1, <2>1, PileContinueThree DEF IndInv
    <2> QED
      BY <1>2, <2>2
  <1>11. conn_status_'[k] = "DISCONNECTED" /\ \A j \in ConnIds : ~InUse(j)'
    BY <1>1, <1>5 DEF InUse, IndInv, ConnPart, FlowInv, ConnsPart
  <1>12. WorksAt(0)' /\ FreeAt(0)' /\ ReleaseAt(0)'
    <2>1. 0 + 1 = 1
      OBVIOUS
    <2> QED
      BY <1>1, <1>5, <1>9, <1>10, <2>1 DEF WorksAt, FreeAt, ReleaseAt, Never, OnConn, OnUse, Leaving
  <1>13. WorksAt(1)' /\ FreeAt(1)' /\ ReleaseAt(1)'
    <2>1. 1 > 0 /\ 1 - 1 = 0
      OBVIOUS
    <2> QED
      BY <1>1, <1>3, <1>5, <1>9, <1>10, <2>1 DEF WorksAt, FreeAt, ReleaseAt, Never, OnConn, OnUse,
         Leaving, ReleaseOps, Freeing
  <1>14. WorksAt(2)' /\ FreeAt(2)' /\ ReleaseAt(2)'
    <2>1. AtTop(2)' /\ AtClosing(2)'
      BY <1>9, <1>10 DEF AtTop, AtClosing
    <2>2. FreeAt(2)'
      BY <1>2, <1>3, <1>5, <1>9, <1>10, <1>11, <2>1 DEF FreeAt, CtxLive, InUse
    <2> QED
      BY <1>1, <1>5, <1>9, <1>10, <2>2 DEF WorksAt, ReleaseAt, Never, OnConn, OnUse, Leaving, ReleaseOps
  <1>15. EndPart'
    <2>1. \A e \in 0 .. Len(stack') - 1 : e = 0 \/ e = 1 \/ e = 2
      BY <1>10
    <2> QED
      BY <1>12, <1>13, <1>14, <2>1 DEF EndPart
  <1>16. OwnPart'
    <2> SUFFICES ASSUME NEW j \in ConnIds
                 PROVE  /\ CtxLive(j)' => (conn_ = j /\ InUse(j))' \/ Under(Freeing, j)'
                        /\ InUse(j)' => CtxLive(j)'
                        /\ (context_[j] /\ ~InUse(j))' => Under({"connection_release"}, j)'
                        /\ (disconnecting[j] /\ InUse(j))' => GoingAway(j)'
      BY DEF OwnPart
    <2>1. 1 \in 0 .. Len(stack') - 1 /\ 2 \in 0 .. Len(stack') - 1
      BY <1>10
    <2>2. Under(Freeing, k)' /\ Under({"connection_release"}, k)'
      BY <1>9, <1>10, <2>1 DEF Under, Freeing
    <2>3. ~Under(Freeing, j) /\ ~Under({"connection_release"}, j)
      <3>1. \A e \in 0 .. Len(stack) - 1 : Pile[e] = Top
        <4>1. \A e \in 0 .. Len(stack) - 1 : e = Len(stack) - 1
          BY <1>2
        <4> QED
          BY <1>1, <4>1
      <3> QED
        BY <1>1, <3>1 DEF Under, Freeing
    <2>4. /\ CtxLive(j) => (conn_ = j /\ InUse(j)) \/ Under(Freeing, j)
          /\ context_[j] /\ ~InUse(j) => Under({"connection_release"}, j)
          /\ InUse(j) => conn_ = j
      BY DEF MemInv, OwnPart, FlowInv, ConnsPart, InUse
    <2>5. CtxLive(j)' = CtxLive(j)
      BY <1>5 DEF CtxLive
    <2> QED
      BY <1>1, <1>5, <1>11, <2>2, <2>3, <2>4, <2>5
  <1> QED
    BY <1>5, <1>15, <1>16 DEF MemInv

\* hiredis has called on_disconnected: the context goes away by itself.
LEMMA ReleaseKeepMem ==
  ASSUME IndInv, FlowInv, MemInv, release_connection, NEW k, k = Top.k,
         InUse(k), Top.a # "close"
  PROVE  MemInv'
  <1>b. PICK d : d = Len(stack) - 1
    OBVIOUS
  <1> DEFINE f == F("connection_release", 0, k, "none")
             g == F("release_event", 0, k, conn_status_[k])
  <1>1. /\ stack # <<>> /\ Top.op = "release_connection" /\ Len(stack) \in Nat /\ Len(stack) = d + 1
        /\ Pile[d] = Top /\ d \in Nat /\ d \in 0 .. Len(stack) - 1 /\ d \in 0 .. d
        /\ k = conn_ /\ k # 0 /\ k \in ConnIds /\ ReleaseAt(d)
    BY <1>b, TopWorks DEF release_connection, OnConn
  <1>2. AtFree(d) /\ replies[k] = <<>>
    BY <1>1 DEF ReleaseAt, Leaving
  <1>3. reply_list_[k] = <<>>
    BY <1>1, <1>2, EmptyList DEF Deliver
  <1>4. /\ Continue((<<>> \o <<f>>) \o <<g>>) /\ set_disconnected(k)
        /\ UNCHANGED <<hiredisVars, rawVars>>
    BY <1>1 DEF release_connection, ReleaseFrames, InUse
  <1>5. /\ UNCHANGED <<ctx_st, disconnecting, in_callback, conn_, timer_conn, ub>>
        /\ UNCHANGED <<context_, reply_list_>>
        /\ conn_status_' = [conn_status_ EXCEPT ![k] = "DISCONNECTED"]
    BY <1>4 DEF set_disconnected, hiredisVars, rawVars, Continue
  <1>6. \E x, y : x = f /\ y = g
    OBVIOUS
  <1>7. PICK x, y : x = f /\ y = g
    BY <1>6, Zenon
  <1>8. x.op = "connection_release" /\ x.k = k /\ y.op = "release_event" /\ y.k = k
    BY <1>7 DEF F
  <1> HIDE DEF f, g
  <1>9. Keep(d) /\ Len(stack') = d + 2 /\ Pile'[d + 1] = x /\ Pile'[d] = y
    <2>1. <<>> \o <<x>> = <<x>>
      OBVIOUS
    <2>2. Continue(<<x, y>>)
      BY <1>4, <1>7, <2>1, Pair
    <2>3. /\ Keep(Len(stack) - 1) /\ Len(stack') = Len(stack) + 1 /\ Pile'[Len(stack)] = x
          /\ Pile'[Len(stack) - 1] = y
      BY <1>1, <2>2, PileContinueTwo DEF IndInv
    <2> QED
      BY <1>b, <1>1, <2>3
  <1>10. conn_status_'[k] = "DISCONNECTED" /\ \A j \in ConnIds : ~InUse(j)'
    BY <1>1, <1>5 DEF InUse, IndInv, ConnPart, FlowInv, ConnsPart
  <1>11. PICK b \in Nat : d = b + 1 /\ Pile[b].op = "h_free_end"
    <2>1. d - 1 \in Nat /\ d = (d - 1) + 1
      BY <1>1, <1>2 DEF AtFree
    <2> QED
      BY <1>2, <2>1 DEF AtFree
  <1>12. b \in 0 .. Len(stack) - 1 /\ ~AtTop(b)
    BY <1>1, <1>11 DEF AtTop
  <1>13. AtBase(b) /\ Pile[b].k = conn_
    <2>1. (AtBase(b) \/ AtClosing(b)) /\ Pile[b].k = conn_
      BY <1>11, <1>12 DEF MemInv, EndPart, FreeAt
    <2>2. ASSUME AtClosing(b) PROVE FALSE
      <3>1. 0 \in 0 .. Len(stack) - 1 /\ Pile[0].op \in ReleaseOps
        BY <1>1, <2>2 DEF AtClosing, ReleaseOps
      <3> QED
        BY <1>1, <3>1 DEF FlowInv, ReleasePart, InUse
    <2> QED
      BY <2>1, <2>2
  <1>14. ASSUME NEW e \in 0 .. d - 1
         PROVE  \/ Pile[e].op = "reset"
                \/ Pile[e].op = "h_free_end" /\ AtBase(e) /\ Pile[e].k = conn_ /\ e + 1 = d
    <2>1. e = b \/ e \in 0 .. b - 1
      BY <1>11
    <2>2. CASE e \in 0 .. b - 1
      <3>1. ~AtClosing(b)
        BY <1>13 DEF AtBase, AtClosing
      <3> QED
        BY <1>13, <2>2, <3>1, BelowFree
    <2> QED
      BY <1>11, <1>13, <2>1, <2>2
  <1>15. \A e \in 0 .. d - 1 : WorksAt(e)' /\ FreeAt(e)' /\ ReleaseAt(e)'
    BY <1>1, <1>5, <1>9, <1>10, <1>14, BelowReleaseKept
  <1>16. WorksAt(d)' /\ FreeAt(d)' /\ ReleaseAt(d)'
    <2>1. AtFree(d)'
      BY <1>1, <1>2, <1>9, PlacesKept
    <2> QED
      BY <1>1, <1>5, <1>8, <1>9, <2>1 DEF WorksAt, FreeAt, ReleaseAt, Never, OnConn, OnUse, Leaving
  <1>17. WorksAt(d + 1)' /\ FreeAt(d + 1)' /\ ReleaseAt(d + 1)'
    <2>1. AtTop(d + 1)' /\ d + 1 > 0 /\ (d + 1) - 1 = d
      BY <1>1, <1>9 DEF AtTop
    <2> QED
      BY <1>1, <1>3, <1>5, <1>8, <1>9, <2>1 DEF WorksAt, FreeAt, ReleaseAt, Never, OnConn, OnUse,
         Leaving, ReleaseOps
  <1>18. EndPart'
    <2>1. \A e \in 0 .. Len(stack') - 1 : e = d \/ e = d + 1 \/ e \in 0 .. d - 1
      BY <1>1, <1>9
    <2> QED
      BY <1>15, <1>16, <1>17, <2>1 DEF EndPart
  <1>19. OwnPart'
    <2> SUFFICES ASSUME NEW j \in ConnIds
                 PROVE  /\ CtxLive(j)' => (conn_ = j /\ InUse(j))' \/ Under(Freeing, j)'
                        /\ InUse(j)' => CtxLive(j)'
                        /\ (context_[j] /\ ~InUse(j))' => Under({"connection_release"}, j)'
                        /\ (disconnecting[j] /\ InUse(j))' => GoingAway(j)'
      BY DEF OwnPart
    <2>1. b \in 0 .. Len(stack') - 1 /\ d + 1 \in 0 .. Len(stack') - 1 /\ Pile'[b] = Pile[b]
      BY <1>9, <1>11 DEF Keep
    <2>2. Under(Freeing, k)'
      BY <1>1, <1>11, <1>13, <2>1 DEF Under, Freeing
    <2>3. Under({"connection_release"}, k)'
      BY <1>8, <1>9, <2>1 DEF Under
    <2>4. Len(stack) <= d + 1 /\ Top.op \notin Freeing /\ Top.op \notin {"connection_release"}
      BY <1>1 DEF Freeing
    <2>5. /\ Under(Freeing, j) => Under(Freeing, j)'
          /\ Under({"connection_release"}, j) => Under({"connection_release"}, j)'
      BY <1>9, <2>4, UnderKept DEF IndInv
    <2>6. /\ CtxLive(j) => (conn_ = j /\ InUse(j)) \/ Under(Freeing, j)
          /\ context_[j] /\ ~InUse(j) => Under({"connection_release"}, j)
          /\ InUse(j) => conn_ = j
      BY DEF MemInv, OwnPart, FlowInv, ConnsPart, InUse
    <2>7. CtxLive(j)' = CtxLive(j)
      BY <1>5 DEF CtxLive
    <2> QED
      BY <1>1, <1>5, <1>10, <2>2, <2>3, <2>5, <2>6, <2>7
  <1> QED
    BY <1>5, <1>18, <1>19 DEF MemInv

LEMMA ReleaseConnectionMem == ASSUME IndInv, FlowInv, MemInv, release_connection PROVE MemInv'
  <1>a. PICK k : k = Top.k
    OBVIOUS
  <1>b. PICK d : d = Len(stack) - 1
    OBVIOUS
  <1>1. CASE InUse(k)
    BY <1>a, <1>1, ReleaseCloseMem, ReleaseKeepMem
  <1>2. CASE ~InUse(k)
    <2>1. /\ stack # <<>> /\ Top.op = "release_connection" /\ Len(stack) \in Nat /\ Len(stack) = d + 1
          /\ Pile[d] = Top /\ d \in Nat
          /\ k = conn_ /\ k # 0 /\ k \in ConnIds /\ ReleaseAt(d)
      BY <1>a, <1>b, TopWorks DEF release_connection, OnConn
    <2>2. AtFree(d)
      BY <1>a, <1>2, <2>1 DEF ReleaseAt, Leaving
    <2>3. /\ Return
          /\ UNCHANGED <<ctx_st, disconnecting, in_callback, conn_, timer_conn, ub>>
          /\ UNCHANGED <<context_, conn_status_, reply_list_>>
      BY <1>a, <1>2, <2>1 DEF release_connection, InUse, hiredisVars, connVars, rawVars, Return
    <2>4. Keep(d) /\ Len(stack') = d
      BY <1>b, <2>1, <2>3, PileReturn DEF IndInv
    <2> QED
      BY <1>2, <2>1, <2>2, <2>3, <2>4, LeavingStep DEF Leaving
  <1> QED
    BY <1>1, <1>2

-----------------------------------------------------------------------------
(* All steps                                                               *)

\* Whatever the running call works on is alive.
LEMMA NothingDangles ==
  ASSUME IndInv, FlowInv, MemInv, stack # <<>>
  PROVE  ~Dangling(Top)
  <1> DEFINE k == Top.k
             c == Top.c
             op == Top.op
  <1>1. /\ Top \in GoodFrame /\ Len(stack) \in Nat /\ Len(stack) >= 1 /\ Pile[Len(stack) - 1] = Top
        /\ Len(stack) - 1 \in 0 .. Len(stack) - 1
    <2>1. Len(stack) \in Nat /\ Len(stack) >= 1 /\ Pile[Len(stack) - 1] = Top
      BY PileType DEF IndInv
    <2>2. Len(stack) - 1 \in 0 .. Len(stack) - 1
      BY <2>1
    <2> QED
      BY <2>1, <2>2, PileType DEF IndInv
  <1>2. WorksAt(Len(stack) - 1) /\ FreeAt(Len(stack) - 1)
    BY <1>1 DEF MemInv, EndPart
  <1>3. /\ op \notin Never /\ (op \in OnConn => k = conn_ /\ k \in ConnIds)
        /\ (op \in OnUse => InUse(k))
    BY <1>1, <1>2 DEF WorksAt, IndInv, RawPart
  <1>4. op \in CmdOps => c \in CmdIds
    BY <1>1 DEF GoodFrame, Good, Created
  <1>5. ASSUME op \in UsesCmd PROVE cmd_st[c] # "freed"
    <2>1. CASE op \in OwnerOps
      <3>1. Owner(Top, c) /\ c \in CmdIds
        BY <1>4, <2>1 DEF Owner, OwnerOps, CmdOps
      <3> QED
        BY <3>1, HeldByTop DEF IndInv, FlowInv
    <2>2. CASE op = "on_reply"
      <3>1. Len(stack) = 2 /\ Pile[1] = Top /\ op \in Deliver
        <4>1. Len(stack) = 2
          BY <1>1, <2>2, DeliverIsTop DEF Deliver, IndInv, FlowInv
        <4>2. Len(stack) - 1 = 1
          BY <4>1
        <4> QED
          BY <1>1, <2>2, <4>1, <4>2 DEF Deliver
      <3>2. k \in ConnIds /\ conn_status_[k] # "DISCONNECTED" /\ Delivers(k)
        BY <1>3, <2>2, <3>1 DEF OnConn, OnUse, InUse, Delivers
      <3>3. Shifted(k, 1) /\ reply_list_[k][1] = c
        BY <3>1, <3>2 DEF FlowInv, MatchPart
      <3>4. reply_list_[k] \in Seq(Created) /\ replies[k] \in Seq(Entries)
        BY <3>2 DEF IndInv, QueuePart
      <3>5. 1 \in DOMAIN reply_list_[k]
        <4>1. Len(reply_list_[k]) = 1 + Len(replies[k]) /\ Len(replies[k]) \in Nat
          BY <3>3, <3>4 DEF Shifted
        <4> HIDE DEF k
        <4> QED
          BY <3>4, <4>1
      <3>6. c \in Elems(reply_list_[k]) /\ c \in CmdIds
        BY <1>4, <2>2, <3>3, <3>5 DEF Elems, CmdOps
      <3>7. cmd_st[c] = "live"
        BY <3>2, <3>6, HeldByList DEF IndInv, FlowInv
      <3> QED
        BY <3>7
    <2> QED
      BY <1>3, <1>5, <2>1, <2>2 DEF UsesCmd, OwnerOps, Never
  <1>6. ASSUME op \in UsesConn PROVE conn_st[k] # "freed"
    <2>1. op \in OnConn
      BY <1>3, <1>6 DEF UsesConn, OnConn, Never
    <2> QED
      BY <1>3, <2>1 DEF FlowInv, ConnsPart
  <1>7. ASSUME op = "exec_conn", context_[k] PROVE ctx_st[k] # "freed"
    <2>1. k \in ConnIds
      BY <1>3, <1>7 DEF OnConn
    <2>2. InUse(k)
      <3> SUFFICES ASSUME ~InUse(k) PROVE FALSE
        OBVIOUS
      <3>1. Under({"connection_release"}, k)
        BY <1>7, <2>1 DEF MemInv, OwnPart
      <3>2. PICK d \in 0 .. Len(stack) - 1 : Pile[d].op = "connection_release"
        BY <3>1 DEF Under
      <3> QED
        BY <1>7, <3>2, PlainTop DEF EndOps
    <2>3. CtxLive(k)
      BY <2>1, <2>2 DEF MemInv, OwnPart
    <2> QED
      BY <2>3 DEF CtxLive
  <1>8. ASSUME op = "pop_reply" PROVE context_[k]
    BY <1>3, <1>8 DEF OnConn, OnUse, InUse, FlowInv, ConnsPart
  <1>9. ASSUME op = "redisAsyncDisconnect" PROVE ctx_st[k] # "freed"
    BY <1>1, <1>2, <1>9 DEF FreeAt, CtxLive
  <1>10. op # "asking"
    BY <1>3 DEF Never
  <1> QED
    BY <1>5, <1>6, <1>7, <1>8, <1>9, <1>10 DEF Dangling

\* What cannot happen in such an environment.
LEMMA NeverMem ==
  ASSUME IndInv, FlowInv, MemInv, Benign
  PROVE  /\ ~Crash /\ ~proc_clear /\ ~ByHiredis(ConnectFailedEnd)
         /\ "connect_failed" \notin Env
  <1>1. ~Crash
    BY NothingDangles DEF Crash, UseAfterFree, Running
  <1>2. ~proc_clear /\ ~ByHiredis(ConnectFailedEnd)
    <2>1. ASSUME NEW op \in Never, At(op) PROVE FALSE
      BY <2>1, TopWorks DEF WorksAt
    <2> QED
      BY <2>1 DEF proc_clear, ByHiredis, ConnectFailedEnd, Never
  <1> QED
    BY <1>1, <1>2 DEF Benign

LEMMA InitMem == Init => MemInv
  <1> SUFFICES ASSUME Init PROVE MemInv
    OBVIOUS
  <1>1. Len(stack) = 0 /\ ~ub /\ timer_conn.timeout = 0
    BY DEF Init, RuntimeInit, NoTimer
  <1>2. \A d \in 0 .. Len(stack) - 1 : FALSE
    BY <1>1
  <1>3. \A k \in ConnIds : /\ conn_status_[k] = "DISCONNECTED" /\ ctx_st[k] = "none" /\ ~context_[k]
    BY DEF Init, RuntimeInit, ConnInit
  <1>4. OwnPart
    BY <1>3 DEF OwnPart, InUse, CtxLive
  <1> QED
    BY <1>1, <1>2, <1>4 DEF MemInv, EndPart

LEMMA SameMem ==
  ASSUME MemInv, UNCHANGED vars
  PROVE  MemInv'
  <1>1. Pile' = Pile /\ stack' = stack
    BY DEF Pile, vars, stackVars
  <1>2. UNCHANGED <<ctx_st, disconnecting, in_callback, replies, ub>>
    BY DEF vars, stackVars, hiredisVars
  <1>3. UNCHANGED <<context_, conn_status_, reply_list_, conn_, timer_conn>>
    BY DEF vars, connVars, rawVars
  <1>4. EndPart'
    BY <1>1, <1>2, <1>3 DEF MemInv, EndPart, WorksAt, FreeAt, ReleaseAt, InUse, CtxLive, AtBase,
       AtClosing, AtFree, AtTop
  <1>5. OwnPart'
    BY <1>1, <1>2, <1>3 DEF MemInv, OwnPart, InUse, CtxLive, Under, GoingAway, AtTop
  <1> QED
    BY <1>2, <1>3, <1>4, <1>5 DEF MemInv

LEMMA LibraryStepMem == ASSUME Benign, IndInv, FlowInv, MemInv, LibraryStep PROVE MemInv'
  <1>1. CASE exec \/ exec_connect \/ exec_auth_format_failed \/ exec_connect_failed
             \/ exec_conn \/ exec_conn_closing \/ exec_conn_failed \/ retry \/ destroy_cmd \/ Destroy
    BY <1>1, ExecMem, ExecConnectMem, ExecConnMem, ExecConnClosingMem, FailMem, RetryMem, ReturnMem
  <1>2. CASE release_connection \/ release_event \/ release_end \/ ConnectionRelease
             \/ reset \/ proc \/ proc_conn \/ proc_clear
    BY <1>2, ReleaseConnectionMem, ReleaseEventMem, ReleaseEndMem, ConnectionReleaseMem, ResetMem,
       ProcMem, ProcConnMem, NeverMem
  <1>3. CASE on_reply_wrapper \/ on_connected_wrapper \/ on_connected_end
             \/ on_disconnected_wrapper \/ CallReply \/ PopReply
    BY <1>3, OnReplyMem, OnConnectedMem, OnConnectedEndMem, OnDisconnectedMem, CallReplyMem, PopReplyMem
  <1>4. CASE ByHiredis(redisAsyncDisconnect)
             \/ ByHiredis(ConnectEnd) \/ ByHiredis(ConnectFailedEnd) \/ ByHiredis(ReplyEnd)
             \/ ByHiredis(FreeContext) \/ ByHiredis(FreeContextEnd)
    BY <1>4, DisconnectMem, CallbackEndMem, NeverMem, FreeContextMem, FreeContextEndMem
  <1> QED
    BY <1>1, <1>2, <1>3, <1>4 DEF LibraryStep

LEMMA NextMem == ASSUME Benign, IndInv, FlowInv, MemInv, [Next]_vars PROVE MemInv'
  <1>1. CASE LibraryStep
    BY <1>1, LibraryStepMem
  <1>2. CASE NetworkStep
    <2>1. {"ok", "error"} \subseteq Replies
      BY DEF Replies
    <2> QED
      BY <1>2, <2>1, NeverMem, ConnectDoneMem, ReplyArrivesMem, ConnectionLostMem DEF NetworkStep
  <1>3. CASE Proc
    BY <1>3, UserProcMem DEF Proc
  <1>4. CASE UserReturn \/ UserExec \/ UserConnect \/ UserRelease \/ UserReset
    BY <1>4, ReturnMem, UserExecMem, UserConnectMem, UserReleaseMem, UserResetMem
  <1>5. CASE Crash \/ Idle \/ UNCHANGED vars
    BY <1>5, NeverMem, SameMem DEF Idle
  <1> QED
    BY <1>1, <1>2, <1>3, <1>4, <1>5 DEF Next

\* As long as the environment keeps to the restrictions of Benign, the end of a
\* connection happens in the order MemInv describes.
THEOREM MemoryInvariance == Spec => [](IndInv /\ FlowInv /\ (Benign => MemInv))
  <1>1. Init => (Benign => MemInv)
    BY InitMem
  <1>2. IndInv /\ FlowInv /\ (Benign => MemInv) /\ [Next]_vars => (Benign => MemInv)'
    BY NextMem DEF Benign
  <1> QED
    BY <1>1, <1>2, FlowInvariance, PTL DEF Spec

-----------------------------------------------------------------------------
(* What follows                                                            *)

\* No freed command, connection or context is ever used: neither by the code of
\* a handler that goes on after a callback of the application, nor by hiredis
\* when it calls back with its privdata, nor by a reset() or a release.
THEOREM MemorySafe == Spec => [](Benign => NoUseAfterFree)
  <1>1. (Benign => MemInv) => (Benign => NoUseAfterFree)
    BY DEF MemInv, NoUseAfterFree
  <1> QED
    BY <1>1, MemoryInvariance, PTL

\* When the event loop waits, a context that lives belongs to conn_, and every
\* command in its queue is in the list of the connection, so it is alive.
LEMMA PrivdataLive == ASSUME IndInv, FlowInv, MemInv PROVE NoDanglingPrivdata
  <1> SUFFICES ASSUME stack = <<>>, NEW k \in ConnIds, CtxLive(k)
               PROVE  /\ conn_st[k] = "live"
                      /\ \A e \in Elems(replies[k]) : cmd_st[e.c] = "live"
    BY DEF NoDanglingPrivdata, CtxLive
  <1>1. Len(stack) = 0 /\ \A d \in 0 .. Len(stack) - 1 : FALSE
    BY PileType DEF IndInv
  <1>2. conn_ = k /\ InUse(k)
    BY <1>1 DEF MemInv, OwnPart, Under
  <1>3. conn_st[k] = "live"
    BY <1>2 DEF FlowInv, ConnsPart
  <1>4. Shifted(k, 0)
    BY <1>1, <1>2 DEF FlowInv, MatchPart, InUse, Delivers
  <1>5. ASSUME NEW e \in Elems(replies[k]) PROVE cmd_st[e.c] = "live"
    <2>1. replies[k] \in Seq(Entries) /\ reply_list_[k] \in Seq(Created)
      BY DEF IndInv, QueuePart
    <2>2. PICK i \in DOMAIN replies[k] : e = replies[k][i]
      BY <1>5 DEF Elems
    <2>3. i \in 1 .. Len(replies[k]) /\ i \in Nat /\ 0 + i = i
      BY <2>1, <2>2
    <2>4. Len(reply_list_[k]) = 0 + Len(replies[k]) /\ reply_list_[k][0 + i] = e.c
      BY <1>4, <2>2, <2>3 DEF Shifted
    <2>5. i \in DOMAIN reply_list_[k] /\ reply_list_[k][i] = e.c
      BY <2>1, <2>3, <2>4
    <2>6. e.c \in Elems(reply_list_[k]) /\ e.c \in CmdIds
      BY <2>1, <2>5 DEF Elems, Created
    <2> QED
      BY <2>6, HeldByList DEF IndInv, FlowInv
  <1> QED
    BY <1>3, <1>5

\* Whenever the event loop waits, the connection object behind c->data and the
\* commands behind the privdata of all outstanding callbacks exist: a release
\* or a reset() leaves nothing behind for hiredis to call.
THEOREM PrivdataValid == Spec => [](Benign => NoDanglingPrivdata)
  <1>1. IndInv /\ FlowInv /\ (Benign => MemInv) => (Benign => NoDanglingPrivdata)
    BY PrivdataLive
  <1> QED
    BY <1>1, MemoryInvariance, PTL

\* When the event loop waits, conn_ refers to a context that exists: reset() and
\* release_connection() drop the connection with the context they free at once
\* (the comment in raw::reset).
THEOREM ContextValid == Spec => [](Benign => NoDeadContext)
  <1>1. ASSUME IndInv, FlowInv, MemInv, stack = <<>>, conn_ # 0, context_[conn_]
        PROVE  ctx_st[conn_] # "freed"
    <2>1. Len(stack) = 0 /\ conn_ \in ConnIds /\ \A d \in 0 .. Len(stack) - 1 : FALSE
      BY <1>1, PileType DEF IndInv, RawPart
    <2>2. CtxLive(conn_)
      BY <1>1, <2>1 DEF MemInv, OwnPart, Under
    <2> QED
      BY <2>2 DEF CtxLive
  <1>2. IndInv /\ FlowInv /\ (Benign => MemInv) => (Benign => NoDeadContext)
    BY <1>1 DEF NoDeadContext
  <1> QED
    BY <1>2, MemoryInvariance, PTL

=============================================================================
