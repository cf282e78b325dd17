--------------------------- MODULE RawFlowProofs ---------------------------
(***************************************************************************)
(* What the connector does with commands and connections across nested     *)
(* calls, for any number of them and every environment.                    *)
(*                                                                         *)
(* These proofs need to know which calls can be under way together.  So    *)
(* the stack is looked at from the bottom: a frame keeps its height when   *)
(* others come and go above it, and what the event loop has entered lies   *)
(* at height 0.                                                            *)
(***************************************************************************)
EXTENDS RawProofs, Integers, FiniteSetTheorems

-----------------------------------------------------------------------------
(* The stack from the bottom                                               *)

Pile   == [d \in 0 .. Len(stack) - 1 |-> stack[Len(stack) - d]]

\* A step keeps the h lowest frames.
Keep(h) == /\ h \in Nat /\ h <= Len(stack) /\ Len(stack') >= h /\ Len(stack') \in Nat
           /\ \A d \in 0 .. h - 1 : Pile'[d] = Pile[d]

\* Frames and their heights.
LEMMA PileType ==
  ASSUME StackPart
  PROVE  /\ Len(stack) \in Nat
         /\ \A d \in 0 .. Len(stack) - 1 : Pile[d] \in GoodFrame /\ Pile[d] = stack[Len(stack) - d]
         /\ stack # <<>> => Len(stack) >= 1 /\ Pile[Len(stack) - 1] = Top
         /\ stack = <<>> => Len(stack) = 0
  BY DEF StackPart, Pile, Top

\* The frames of a concatenation.
LEMMA PileConcat ==
  ASSUME NEW S, NEW fs \in Seq(S), NEW T, NEW low \in Seq(T), stack' = fs \o low
  PROVE  /\ Len(stack') = Len(low) + Len(fs)
         /\ \A d \in 0 .. Len(low) - 1 : Pile'[d] = low[Len(low) - d]
         /\ \A i \in 1 .. Len(fs) : Pile'[Len(low) + Len(fs) - i] = fs[i]
  <1>1. /\ fs \in Seq(S \cup T) /\ low \in Seq(S \cup T)
    BY SeqMono
  <1>2. /\ Len(stack') = Len(fs) + Len(low)
        /\ \A i \in 1 .. Len(fs) : stack'[i] = fs[i]
        /\ \A i \in 1 .. Len(low) : stack'[Len(fs) + i] = low[i]
    BY <1>1
  <1>3. Len(fs) \in Nat /\ Len(low) \in Nat
    OBVIOUS
  <1>4. ASSUME NEW d \in 0 .. Len(low) - 1 PROVE Pile'[d] = low[Len(low) - d]
    <2>1. Len(low) - d \in 1 .. Len(low) /\ Len(fs) + (Len(low) - d) = Len(stack') - d
          /\ d \in 0 .. Len(stack') - 1
      BY <1>2, <1>3
    <2> QED
      BY <1>2, <2>1 DEF Pile
  <1>5. ASSUME NEW i \in 1 .. Len(fs) PROVE Pile'[Len(low) + Len(fs) - i] = fs[i]
    <2>1. Len(low) + Len(fs) - i \in 0 .. Len(stack') - 1
          /\ Len(stack') - (Len(low) + Len(fs) - i) = i
      BY <1>2, <1>3
    <2> QED
      BY <1>2, <2>1 DEF Pile
  <1> QED
    BY <1>2, <1>3, <1>4, <1>5

\* Going on with the frames fs in place of the top frame.
LEMMA PileContinue ==
  ASSUME StackPart, stack # <<>>, NEW S, NEW fs \in Seq(S), Continue(fs)
  PROVE  /\ Keep(Len(stack) - 1)
         /\ Len(stack') = Len(stack) - 1 + Len(fs)
         /\ \A i \in 1 .. Len(fs) : Pile'[Len(stack) - 1 + Len(fs) - i] = fs[i]
  <1>1. /\ Rest \in Seq(GoodFrame) /\ Len(Rest) = Len(stack) - 1 /\ Len(stack) \in Nat /\ Len(stack) >= 1
        /\ \A i \in 1 .. Len(Rest) : Rest[i] = stack[i + 1]
    BY DEF StackPart, Rest
  <1>2. /\ Len(stack') = Len(Rest) + Len(fs)
        /\ \A d \in 0 .. Len(Rest) - 1 : Pile'[d] = Rest[Len(Rest) - d]
        /\ \A i \in 1 .. Len(fs) : Pile'[Len(Rest) + Len(fs) - i] = fs[i]
    BY <1>1, PileConcat DEF Continue
  <1>3. \A d \in 0 .. Len(stack) - 2 : Pile'[d] = Pile[d]
    <2> TAKE d \in 0 .. Len(stack) - 2
    <2>1. Pile'[d] = Rest[Len(Rest) - d] /\ Len(Rest) - d \in 1 .. Len(Rest)
      BY <1>1, <1>2
    <2>2. Rest[Len(Rest) - d] = stack[Len(stack) - d]
      BY <1>1, <2>1
    <2> QED
      BY <1>1, <2>1, <2>2, PileType
  <1>4. Len(fs) \in Nat
    OBVIOUS
  <1> QED
    BY <1>1, <1>2, <1>3, <1>4 DEF Keep

LEMMA PileReturn ==
  ASSUME StackPart, stack # <<>>, Return
  PROVE  Keep(Len(stack) - 1) /\ Len(stack') = Len(stack) - 1
  <1> DEFINE fs == <<>>
  <1>1. Continue(fs)
    BY DEF Return, Continue, StackPart, Rest
  <1>2. fs \in Seq({}) /\ Len(fs) = 0
    OBVIOUS
  <1> HIDE DEF fs
  <1>3. Keep(Len(stack) - 1) /\ Len(stack') = Len(stack) - 1 + Len(fs)
    BY <1>1, <1>2, PileContinue
  <1> QED
    BY <1>2, <1>3, PileType

\* Calling fs.
LEMMA PileCall ==
  ASSUME StackPart, NEW S, NEW fs \in Seq(S), Call(fs)
  PROVE  /\ Keep(Len(stack))
         /\ Len(stack') = Len(stack) + Len(fs)
         /\ \A i \in 1 .. Len(fs) : Pile'[Len(stack) + Len(fs) - i] = fs[i]
  <1>1. stack \in Seq(GoodFrame) /\ Len(stack) = Len(stack) /\ Len(stack) \in Nat /\ Len(fs) \in Nat
    BY DEF StackPart
  <1>2. stack' = fs \o stack
    BY DEF Call
  <1>3. /\ Len(stack') = Len(stack) + Len(fs)
        /\ \A d \in 0 .. Len(stack) - 1 : Pile'[d] = stack[Len(stack) - d]
        /\ \A i \in 1 .. Len(fs) : Pile'[Len(stack) + Len(fs) - i] = fs[i]
    BY <1>1, <1>2, PileConcat
  <1> QED
    BY <1>1, <1>3, PileType DEF Keep

\* The same for one and two frames.
LEMMA PileContinueOne ==
  ASSUME StackPart, stack # <<>>, NEW f, Continue(<<f>>)
  PROVE  Keep(Len(stack) - 1) /\ Len(stack') = Len(stack) /\ Pile'[Len(stack) - 1] = f
  <1> DEFINE fs == <<f>>
  <1>1. fs \in Seq({f}) /\ Len(fs) = 1 /\ fs[1] = f
    OBVIOUS
  <1>2. Continue(fs)
    OBVIOUS
  <1> HIDE DEF fs
  <1>3. /\ Keep(Len(stack) - 1) /\ Len(stack') = Len(stack) - 1 + Len(fs)
        /\ \A i \in 1 .. Len(fs) : Pile'[Len(stack) - 1 + Len(fs) - i] = fs[i]
    BY <1>1, <1>2, PileContinue
  <1> QED
    BY <1>1, <1>3, PileType

LEMMA PileContinueTwo ==
  ASSUME StackPart, stack # <<>>, NEW f, NEW g, Continue(<<f, g>>)
  PROVE  /\ Keep(Len(stack) - 1) /\ Len(stack') = Len(stack) + 1
         /\ Pile'[Len(stack)] = f /\ Pile'[Len(stack) - 1] = g
  <1> DEFINE fs == <<f, g>>
  <1>1. fs \in Seq({f, g}) /\ Len(fs) = 2 /\ fs[1] = f /\ fs[2] = g
    OBVIOUS
  <1>2. Continue(fs)
    OBVIOUS
  <1> HIDE DEF fs
  <1>3. /\ Keep(Len(stack) - 1) /\ Len(stack') = Len(stack) - 1 + Len(fs)
        /\ \A i \in 1 .. Len(fs) : Pile'[Len(stack) - 1 + Len(fs) - i] = fs[i]
    BY <1>1, <1>2, PileContinue
  <1> QED
    BY <1>1, <1>3, PileType

LEMMA PileCallOne ==
  ASSUME StackPart, NEW f, Call(<<f>>)
  PROVE  Keep(Len(stack)) /\ Len(stack') = Len(stack) + 1 /\ Pile'[Len(stack)] = f
  <1> DEFINE fs == <<f>>
  <1>1. fs \in Seq({f}) /\ Len(fs) = 1 /\ fs[1] = f
    OBVIOUS
  <1>2. Call(fs)
    OBVIOUS
  <1> HIDE DEF fs
  <1>3. /\ Keep(Len(stack)) /\ Len(stack') = Len(stack) + Len(fs)
        /\ \A i \in 1 .. Len(fs) : Pile'[Len(stack) + Len(fs) - i] = fs[i]
    BY <1>1, <1>2, PileCall
  <1> QED
    BY <1>1, <1>3, PileType

LEMMA PileCallTwo ==
  ASSUME StackPart, NEW f, NEW g, Call(<<f, g>>)
  PROVE  Keep(Len(stack)) /\ Len(stack') = Len(stack) + 2 /\ Pile'[Len(stack) + 1] = f /\ Pile'[Len(stack)] = g
  <1> DEFINE fs == <<f, g>>
  <1>1. fs \in Seq({f, g}) /\ Len(fs) = 2 /\ fs[1] = f /\ fs[2] = g
    OBVIOUS
  <1>2. Call(fs)
    OBVIOUS
  <1> HIDE DEF fs
  <1>3. /\ Keep(Len(stack)) /\ Len(stack') = Len(stack) + Len(fs)
        /\ \A i \in 1 .. Len(fs) : Pile'[Len(stack) + Len(fs) - i] = fs[i]
    BY <1>1, <1>2, PileCall
  <1> QED
    BY <1>1, <1>3, PileType

\* The frame a callback runs in lies on top of what its caller does next.
CallbackFrame(c, r) == {F("user", c, 0, "none"), F("on_reply_update_slot", c, 0, r)}

LEMMA PileCallback ==
  ASSUME StackPart, stack # <<>>, NEW c, NEW r, NEW f,
         Continue(CallbackFrames(c, r) \o <<f>>)
  PROVE  /\ Keep(Len(stack) - 1) /\ Pile'[Len(stack) - 1] = f
         /\ \/ Len(stack') = Len(stack)
            \/ Len(stack') = Len(stack) + 1 /\ Pile'[Len(stack)] \in CallbackFrame(c, r)
  <1>1. CASE CallbackFrames(c, r) = <<>>
    <2>1. Continue(<<f>>)
      BY <1>1
    <2> QED
      BY <2>1, PileContinueOne
  <1>2. ASSUME NEW g \in CallbackFrame(c, r), CallbackFrames(c, r) = <<g>>
        PROVE  Keep(Len(stack) - 1) /\ Len(stack') = Len(stack) + 1 /\ Pile'[Len(stack)] = g /\ Pile'[Len(stack) - 1] = f
    <2> DEFINE fs == <<g>> \o <<f>>
    <2>1. fs \in Seq({g, f}) /\ Len(fs) = 2 /\ fs[1] = g /\ fs[2] = f
      OBVIOUS
    <2>2. Continue(fs)
      BY <1>2
    <2> HIDE DEF fs
    <2>3. /\ Keep(Len(stack) - 1) /\ Len(stack') = Len(stack) - 1 + Len(fs)
          /\ \A i \in 1 .. Len(fs) : Pile'[Len(stack) - 1 + Len(fs) - i] = fs[i]
      BY <2>1, <2>2, PileContinue
    <2> QED
      BY <2>1, <2>3, PileType
  <1>3. CallbackFrames(c, r) = <<>> \/ \E g \in CallbackFrame(c, r) : CallbackFrames(c, r) = <<g>>
    BY DEF CallbackFrames, CallbackFrame
  <1> QED
    BY <1>1, <1>2, <1>3

\* The same when the calling loop goes on after that.
LEMMA PileCallbackLoop ==
  ASSUME StackPart, stack # <<>>, NEW c, NEW r, NEW f,
         Continue(CallbackFrames(c, r) \o <<f, Top>>)
  PROVE  /\ Keep(Len(stack)) /\ Pile'[Len(stack)] = f
         /\ \/ Len(stack') = Len(stack) + 1
            \/ Len(stack') = Len(stack) + 2 /\ Pile'[Len(stack) + 1] \in CallbackFrame(c, r)
  <1>0. Len(stack) \in Nat /\ Len(stack) >= 1 /\ Pile[Len(stack) - 1] = Top
    BY PileType
  <1>1. ASSUME Keep(Len(stack) - 1), Pile'[Len(stack) - 1] = Top,
               Len(stack') >= Len(stack), Len(stack') \in Nat
        PROVE  Keep(Len(stack))
    <2>1. \A d \in 0 .. Len(stack) - 1 : d = Len(stack) - 1 \/ d \in 0 .. (Len(stack) - 1) - 1
      BY <1>0
    <2>2. \A d \in 0 .. Len(stack) - 1 : Pile'[d] = Pile[d]
      BY <1>0, <1>1, <2>1 DEF Keep
    <2> QED
      BY <1>0, <1>1, <2>2 DEF Keep
  <1>2. CASE CallbackFrames(c, r) = <<>>
    <2>1. Continue(<<f, Top>>)
      BY <1>2
    <2>2. Keep(Len(stack) - 1) /\ Len(stack') = Len(stack) + 1 /\ Pile'[Len(stack)] = f /\ Pile'[Len(stack) - 1] = Top
      BY <2>1, PileContinueTwo
    <2> QED
      BY <1>0, <1>1, <2>2
  <1>3. ASSUME NEW g \in CallbackFrame(c, r), CallbackFrames(c, r) = <<g>>
        PROVE  /\ Keep(Len(stack)) /\ Len(stack') = Len(stack) + 2
               /\ Pile'[Len(stack) + 1] = g /\ Pile'[Len(stack)] = f
    <2> DEFINE fs == <<g>> \o <<f, Top>>
    <2>1. fs \in Seq({g, f, Top}) /\ Len(fs) = 3 /\ fs[1] = g /\ fs[2] = f /\ fs[3] = Top
      OBVIOUS
    <2>2. Continue(fs)
      BY <1>3
    <2> HIDE DEF fs
    <2>3. /\ Keep(Len(stack) - 1) /\ Len(stack') = Len(stack) - 1 + Len(fs)
          /\ \A i \in 1 .. Len(fs) : Pile'[Len(stack) - 1 + Len(fs) - i] = fs[i]
      BY <2>1, <2>2, PileContinue
    <2>4. Len(stack') = Len(stack) + 2 /\ Pile'[Len(stack) + 1] = g /\ Pile'[Len(stack)] = f
          /\ Pile'[Len(stack) - 1] = Top
      BY <1>0, <2>1, <2>3
    <2> QED
      BY <1>0, <1>1, <2>3, <2>4
  <1>4. CallbackFrames(c, r) = <<>> \/ \E g \in CallbackFrame(c, r) : CallbackFrames(c, r) = <<g>>
    BY DEF CallbackFrames, CallbackFrame
  <1> QED
    BY <1>2, <1>3, <1>4

-----------------------------------------------------------------------------
(* The invariant                                                           *)

Deliver    == {"on_reply", "call_reply", "pop_reply"}
HiredisOps == {"h_connect_end", "h_connect_failed", "h_reply_end", "h_free", "h_free_end"}
ReleaseOps == {"release_event", "release_end"}
OwnerOps   == {"exec", "exec_failed", "exec_conn", "retry", "destroy_cmd", "destroy"}
BottomOps  == {"h_connect_end", "h_connect_failed", "h_reply_end", "proc", "proc_conn"}

\* What the event loop calls lies at the bottom.  Replies are delivered right
\* above it, and nothing comes in between; a context that is freed anywhere
\* else has no outstanding reply.  A null reply comes from a broken context.
ShapeAt(d) ==
  LET f == Pile[d] IN
  /\ f.op \in BottomOps => d = 0
  /\ f.op = "h_connect_failed" => ctx_err[f.k] # "OK"
  /\ f.op = "h_free" => \/ d = 0 /\ ctx_err[f.k] # "OK"
                        \/ replies[f.k] = <<>> /\ disconnecting[f.k]
  /\ f.op \in Deliver => /\ d = 1 /\ Len(stack) = 2
                         /\ Pile[0].op \in {"h_reply_end", "h_free"}
                         /\ f.a = "null" => ctx_err[f.k] # "OK"

ShapePart == \A d \in 0 .. Len(stack) - 1 : ShapeAt(d)

\* hiredis is in a callback of a context only while one of its calls is under way.
CallbackPart ==
  \A k \in ConnIds : in_callback[k] =>
    \E d \in 0 .. Len(stack) - 1 : Pile[d].op \in HiredisOps /\ Pile[d].k = k

\* conn_ is the one connection object that is alive; it is the only one that
\* may have a status, and while it has one it has its context.
ConnsPart ==
  /\ \A k \in ConnIds :
       /\ conn_st[k] = "live" <=> conn_ = k
       /\ conn_status_[k] # "DISCONNECTED" => conn_ = k /\ context_[k]
       /\ k > nconn <=> conn_st[k] = "none"
       /\ k > nconn => /\ replies[k] = <<>> /\ reply_list_[k] = <<>>
                       /\ ~disconnecting[k] /\ ~in_callback[k]
                       /\ ctx_st[k] = "none"
       /\ ctx_st[k] = "none" => k > nconn
  /\ \A d \in 0 .. Len(stack) - 1 : Pile[d].k <= nconn

\* A connection is being released exactly when conn_ has lost its status, and
\* only once; its end has been reported before it is destroyed.
ReleasePart ==
  /\ conn_ # 0 /\ conn_status_[conn_] = "DISCONNECTED" =>
       \E d \in 0 .. Len(stack) - 1 : Pile[d].op \in ReleaseOps
  /\ \A d \in 0 .. Len(stack) - 1 :
       /\ Pile[d].op \in ReleaseOps => /\ conn_ # 0 /\ conn_ = Pile[d].k
                                       /\ conn_status_[conn_] = "DISCONNECTED"
       /\ Pile[d].op = "connection_release" => conn_status_[Pile[d].k] = "DISCONNECTED"
       /\ Pile[d].op = "release_end" => notified[Pile[d].k] \cap {"failed", "disconnected"} # {}
  /\ \A d, e \in 0 .. Len(stack) - 1 :
       Pile[d].op \in ReleaseOps /\ Pile[e].op \in ReleaseOps => d = e
  /\ EndIsReported

\* The reply list is the queue of hiredis after the command being delivered.
Delivers(k) == Len(stack) = 2 /\ Pile[1].op \in Deliver /\ Pile[1].k = k
Shifted(k, n) ==
  /\ Len(reply_list_[k]) = n + Len(replies[k])
  /\ \A i \in 1 .. Len(replies[k]) : reply_list_[k][n + i] = replies[k][i].c

MatchPart ==
  \A k \in ConnIds : conn_status_[k] # "DISCONNECTED" =>
    IF Delivers(k) THEN Shifted(k, 1) /\ reply_list_[k][1] = Pile[1].c
                   ELSE Shifted(k, 0)

\* Where a command is held: x > 0 is the call at height x - 1, x < 0 the reply
\* list of connection -x, and 0 the retry queue.
TimerCmds == {timer_pending[i].cmd : i \in DOMAIN timer_pending}

Held == [c \in CmdIds |->
  {x \in -MaxConns .. Len(stack) :
     \/ x > 0 /\ Pile[x - 1].op \in OwnerOps /\ Pile[x - 1].c = c
     \/ x = 0 /\ c \in TimerCmds
     \/ x < 0 /\ c \in Elems(reply_list_[-x])}]

\* Every live command is held once, in whatever place, and no other is held.
OncePart ==
  \A c \in CmdIds : IF cmd_st[c] = "live" THEN \E x \in Held[c] : Held[c] = {x}
                                          ELSE Held[c] = {}

DistinctPart ==
  /\ \A k \in ConnIds : \A i, j \in DOMAIN reply_list_[k] :
       reply_list_[k][i] = reply_list_[k][j] => i = j
  /\ \A i, j \in DOMAIN timer_pending : timer_pending[i].cmd = timer_pending[j].cmd => i = j

FlowInv ==
  /\ ShapePart /\ CallbackPart /\ ConnsPart /\ ReleasePart /\ MatchPart
  /\ OncePart /\ DistinctPart /\ OkMeansAnswered

-----------------------------------------------------------------------------
(* Steps that keep all frames but the top one                              *)

\* Which frames are there after such a step, and which were there before.
LEMMA KeptFrames ==
  ASSUME StackPart, NEW h, Keep(h), Len(stack) <= h + 1
  PROVE  /\ h \in Nat /\ Len(stack) \in Nat /\ Len(stack') \in Nat
         /\ h <= Len(stack) /\ h <= Len(stack')
         /\ \A d \in 0 .. Len(stack') - 1 :
              \/ d < h /\ d \in 0 .. Len(stack) - 1 /\ Pile'[d] = Pile[d]
              \/ d >= h /\ d \in h .. Len(stack') - 1
         /\ \A d \in 0 .. Len(stack) - 1 :
              \/ d < h /\ d \in 0 .. Len(stack') - 1 /\ Pile'[d] = Pile[d]
              \/ d = h /\ d = Len(stack) - 1 /\ Pile[d] = Top
  <1>1. /\ h \in Nat /\ Len(stack) \in Nat /\ Len(stack') \in Nat
        /\ h <= Len(stack) /\ h <= Len(stack')
    BY PileType DEF Keep
  <1>2. ASSUME NEW d \in 0 .. Len(stack') - 1
        PROVE  \/ d < h /\ d \in 0 .. Len(stack) - 1 /\ Pile'[d] = Pile[d]
               \/ d >= h /\ d \in h .. Len(stack') - 1
    <2>1. CASE d < h
      <3>1. d \in 0 .. h - 1 /\ d \in 0 .. Len(stack) - 1
        BY <1>1, <2>1
      <3> QED
        BY <2>1, <3>1 DEF Keep
    <2>2. CASE d >= h
      BY <1>1, <2>2
    <2> QED
      BY <1>1, <2>1, <2>2
  <1>3. ASSUME NEW d \in 0 .. Len(stack) - 1
        PROVE  \/ d < h /\ d \in 0 .. Len(stack') - 1 /\ Pile'[d] = Pile[d]
               \/ d = h /\ d = Len(stack) - 1 /\ Pile[d] = Top
    <2>1. CASE d < h
      <3>1. d \in 0 .. h - 1 /\ d \in 0 .. Len(stack') - 1
        BY <1>1, <2>1
      <3> QED
        BY <2>1, <3>1 DEF Keep
    <2>2. CASE d >= h
      <3>1. d = h /\ d = Len(stack) - 1 /\ Len(stack) # 0
        BY <1>1, <2>2
      <3> QED
        BY <1>1, <3>1, PileType
    <2> QED
      BY <1>1, <2>1, <2>2
  <1> QED
    BY <1>1, <1>2, <1>3

\* The top frame is the only one that delivers a reply.
LEMMA DeliverIsTop ==
  ASSUME StackPart, ShapePart, NEW d \in 0 .. Len(stack) - 1, Pile[d].op \in Deliver
  PROVE  /\ d = 1 /\ Len(stack) = 2 /\ stack # <<>> /\ Pile[d] = Top
         /\ Pile[0].op \in {"h_reply_end", "h_free"}
  <1>1. d = 1 /\ Len(stack) = 2 /\ Pile[0].op \in {"h_reply_end", "h_free"}
    BY DEF ShapePart, ShapeAt
  <1>2. stack # <<>>
    BY <1>1, PileType
  <1>3. Len(stack) - 1 = 1
    BY <1>1
  <1> QED
    BY <1>1, <1>2, <1>3, PileType

\* Outside of the delivery of a reply, the shape has to be shown for the new
\* frames only: no context recovers from an error, or takes commands again.
LEMMA ShapeKept ==
  ASSUME StackPart, ShapePart, NEW h, Keep(h), Len(stack) <= h + 1,
         stack # <<>> => Top.op \notin Deliver,
         \A k \in ConnIds : ctx_err[k] # "OK" => ctx_err'[k] # "OK",
         \A k \in ConnIds : replies[k] = <<>> /\ disconnecting[k] =>
                             replies'[k] = <<>> /\ disconnecting'[k],
         \A d \in h .. Len(stack') - 1 : ShapeAt(d)'
  PROVE  ShapePart'
  <1> SUFFICES ASSUME NEW d \in 0 .. Len(stack') - 1 PROVE ShapeAt(d)'
    BY DEF ShapePart
  <1>1. CASE d >= h
    BY <1>1, KeptFrames
  <1>2. CASE d < h
    <2>1. d \in 0 .. Len(stack) - 1 /\ Pile'[d] = Pile[d]
      BY <1>2, KeptFrames
    <2>2. Pile[d] \in GoodFrame
      BY <2>1, PileType
    <2>3. Pile[d].op \in {"h_connect_failed", "h_free"} => Pile[d].k \in ConnIds
      BY <2>2 DEF GoodFrame, Good, ConnOps
    <2>4. Pile[d].op \notin Deliver
      BY <2>1, DeliverIsTop
    <2> QED
      BY <2>1, <2>3, <2>4 DEF ShapePart, ShapeAt
  <1> QED
    BY <1>1, <1>2, KeptFrames

\* Then the lists of the connections that keep their status still match.
LEMMA MatchKept ==
  ASSUME StackPart, ShapePart, MatchPart, NEW h, Keep(h), Len(stack) <= h + 1,
         stack # <<>> => Top.op \notin Deliver,
         \A d \in h .. Len(stack') - 1 : Pile'[d].op \notin Deliver,
         UNCHANGED <<reply_list_, replies>>,
         \A k \in ConnIds : conn_status_[k] = "DISCONNECTED" => conn_status_'[k] = "DISCONNECTED"
  PROVE  MatchPart'
  <1>1. \A k \in ConnIds : ~Delivers(k)
    BY DeliverIsTop DEF Delivers
  <1>2. \A k \in ConnIds : ~Delivers(k)'
    <2> SUFFICES ASSUME Len(stack') = 2, Pile'[1].op \in Deliver PROVE FALSE
      BY DEF Delivers
    <2>1. 1 \in 0 .. Len(stack) - 1 /\ Pile'[1] = Pile[1]
      BY KeptFrames
    <2> QED
      BY <2>1, DeliverIsTop
  <1> QED
    BY <1>1, <1>2 DEF MatchPart, Shifted

\* Frames refer to connections that have been made.
LEMMA NumbersKept ==
  ASSUME StackPart, ConnsPart, NEW h, Keep(h), Len(stack) <= h + 1,
         \A d \in h .. Len(stack') - 1 : Pile'[d].k <= nconn
  PROVE  \A d \in 0 .. Len(stack') - 1 : Pile'[d].k <= nconn
  <1> SUFFICES ASSUME NEW d \in 0 .. Len(stack') - 1 PROVE Pile'[d].k <= nconn
    OBVIOUS
  <1>1. \/ d \in 0 .. Len(stack) - 1 /\ Pile'[d] = Pile[d]
        \/ d \in h .. Len(stack') - 1
    BY KeptFrames
  <1> QED
    BY <1>1 DEF ConnsPart

\* hiredis stays in the callbacks it is in unless one of its calls ends.
LEMMA CallbackKept ==
  ASSUME StackPart, CallbackPart, NEW h, Keep(h), Len(stack) <= h + 1,
         Len(stack) # h => Top.op \notin HiredisOps, UNCHANGED in_callback
  PROVE  CallbackPart'
  <1> SUFFICES ASSUME NEW k \in ConnIds, in_callback[k]
               PROVE  \E d \in 0 .. Len(stack') - 1 : Pile'[d].op \in HiredisOps /\ Pile'[d].k = k
    BY DEF CallbackPart
  <1>1. PICK d \in 0 .. Len(stack) - 1 : Pile[d].op \in HiredisOps /\ Pile[d].k = k
    BY DEF CallbackPart
  <1>2. d < h
    BY <1>1, KeptFrames
  <1> QED
    BY <1>1, <1>2, KeptFrames

\* No connection gets or loses its status.
SameLinks ==
  \A k \in ConnIds : conn_status_'[k] = "DISCONNECTED" <=> conn_status_[k] = "DISCONNECTED"

\* Then nothing changes about the release of a connection, unless one of its
\* own calls takes a step.
LEMMA ReleaseKept ==
  ASSUME StackPart, RawPart, ReleasePart, NEW h, Keep(h), Len(stack) <= h + 1,
         Len(stack) # h => Top.op \notin ReleaseOps,
         \A d \in h .. Len(stack') - 1 : Pile'[d].op \notin ReleaseOps \cup {"connection_release"},
         UNCHANGED <<conn_, conn_st>>, SameLinks,
         \A k \in ConnIds : notified[k] \subseteq notified'[k]
  PROVE  ReleasePart'
  <1>1. \A d \in 0 .. Len(stack') - 1 :
          Pile'[d].op \in ReleaseOps \cup {"connection_release"} =>
            d \in 0 .. Len(stack) - 1 /\ Pile'[d] = Pile[d]
    BY KeptFrames
  <1>2. \A d \in 0 .. Len(stack) - 1 :
          Pile[d].op \in ReleaseOps => d \in 0 .. Len(stack') - 1 /\ Pile'[d] = Pile[d]
    BY KeptFrames
  <1>3. \A d \in 0 .. Len(stack) - 1 :
          Pile[d].op \in ReleaseOps \cup {"connection_release"} => Pile[d].k \in ConnIds
    <2> SUFFICES ASSUME NEW d \in 0 .. Len(stack) - 1,
                        Pile[d].op \in ReleaseOps \cup {"connection_release"}
                 PROVE  Pile[d].k \in ConnIds
      OBVIOUS
    <2>1. Pile[d] \in GoodFrame
      BY PileType
    <2>2. Pile[d].k \in ConnIds \cup {0} /\ (Pile[d].op # "release_end" => Pile[d].k \in ConnIds)
      BY <2>1 DEF GoodFrame, Good, ConnOps, ReleaseOps, Frame
    <2> QED
      BY <2>2 DEF ReleasePart, ReleaseOps, RawPart
  <1>4. /\ conn_ # 0 /\ conn_status_'[conn_] = "DISCONNECTED" =>
             \E d \in 0 .. Len(stack') - 1 : Pile'[d].op \in ReleaseOps
        /\ \A d, e \in 0 .. Len(stack') - 1 :
             Pile'[d].op \in ReleaseOps /\ Pile'[e].op \in ReleaseOps => d = e
    BY <1>1, <1>2 DEF ReleasePart, SameLinks, RawPart
  <1>5. ASSUME NEW d \in 0 .. Len(stack') - 1
        PROVE  /\ Pile'[d].op \in ReleaseOps => /\ conn_ # 0 /\ conn_ = Pile'[d].k
                                                /\ conn_status_'[conn_] = "DISCONNECTED"
               /\ Pile'[d].op = "connection_release" => conn_status_'[Pile'[d].k] = "DISCONNECTED"
               /\ Pile'[d].op = "release_end" =>
                    notified'[Pile'[d].k] \cap {"failed", "disconnected"} # {}
    <2>1. CASE Pile'[d].op \notin ReleaseOps \cup {"connection_release"}
      BY <2>1 DEF ReleaseOps
    <2>2. CASE Pile'[d].op \in ReleaseOps \cup {"connection_release"}
      <3>1. d \in 0 .. Len(stack) - 1 /\ Pile'[d] = Pile[d] /\ Pile[d].k \in ConnIds
        BY <1>1, <1>3, <2>2
      <3>2. notified[Pile[d].k] \subseteq notified'[Pile[d].k]
        BY <3>1
      <3> QED
        BY <3>1, <3>2 DEF ReleasePart, SameLinks
    <2> QED
      BY <2>1, <2>2
  <1>6. EndIsReported'
    BY DEF ReleasePart, EndIsReported
  <1> QED
    BY <1>4, <1>5, <1>6 DEF ReleasePart

-----------------------------------------------------------------------------
(* Calm steps                                                              *)

\* Frames that no part of the invariant but OncePart and ConnsPart speaks of.
CalmOps == {"user", "on_reply_update_slot", "exec", "exec_failed", "exec_conn", "retry",
            "destroy_cmd", "destroy", "release_connection", "reset", "proc_clear",
            "on_connected", "on_connected_end", "on_disconnected", "redisAsyncDisconnect"}

\* A step that keeps the h lowest frames, removes at most one frame of no
\* importance, and adds such frames.
Calm(h) ==
  /\ Keep(h)
  /\ \/ h = Len(stack) /\ (Len(stack) > 0 => Pile[Len(stack) - 1].op \notin Deliver)
     \/ /\ h = Len(stack) - 1
        /\ Pile[Len(stack) - 1].op \in CalmOps \cup {"connection_release", "proc", "proc_conn"}
  /\ \A d \in h .. Len(stack') - 1 :
       /\ Pile'[d].op \in CalmOps \cup (IF d = 0 THEN {"proc", "proc_conn"} ELSE {})
       /\ Pile'[d].k <= nconn'

\* What is new after a calm step, and what it has removed.
LEMMA CalmFrames ==
  ASSUME StackPart, NEW h, Calm(h)
  PROVE  /\ h \in Nat /\ Len(stack) \in Nat /\ Len(stack') \in Nat
         /\ h <= Len(stack) /\ h <= Len(stack') /\ Len(stack) <= h + 1
         /\ \A d \in 0 .. Len(stack') - 1 :
              \/ d < h /\ d \in 0 .. Len(stack) - 1 /\ Pile'[d] = Pile[d]
              \/ /\ d >= h /\ Pile'[d].k <= nconn'
                 /\ Pile'[d].op \in CalmOps \/ (d = 0 /\ Pile'[d].op \in {"proc", "proc_conn"})
         /\ \A d \in 0 .. Len(stack) - 1 :
              \/ d < h /\ d \in 0 .. Len(stack') - 1 /\ Pile'[d] = Pile[d]
              \/ /\ d = h /\ d = Len(stack) - 1
                 /\ Pile[d].op \in CalmOps \cup {"connection_release", "proc", "proc_conn"}
  <1>1. Keep(h) /\ Len(stack) \in Nat /\ h \in Nat /\ Len(stack) <= h + 1
    BY PileType DEF Calm, Keep
  <1>2. ASSUME NEW d \in h .. Len(stack') - 1
        PROVE  /\ Pile'[d].k <= nconn'
               /\ Pile'[d].op \in CalmOps \/ (d = 0 /\ Pile'[d].op \in {"proc", "proc_conn"})
    BY DEF Calm
  <1>3. ASSUME NEW d \in 0 .. Len(stack) - 1, d = h, d = Len(stack) - 1
        PROVE  Pile[d].op \in CalmOps \cup {"connection_release", "proc", "proc_conn"}
    BY <1>1, <1>3 DEF Calm
  <1> QED
    BY <1>1, <1>2, <1>3, KeptFrames

LEMMA CalmTopOp ==
  ASSUME StackPart, NEW h, Calm(h)
  PROVE  /\ Keep(h) /\ Len(stack) <= h + 1
         /\ Len(stack) # h => Top.op \in CalmOps \cup {"connection_release", "proc", "proc_conn"}
  <1>1. Keep(h) /\ Len(stack) <= h + 1
    BY CalmFrames DEF Calm
  <1>2. Len(stack) # h => stack # <<>>
    BY PileType, CalmFrames
  <1> QED
    BY <1>1, <1>2, PileType DEF Calm

LEMMA CalmNotDeliver ==
  ASSUME StackPart, NEW h, Calm(h)
  PROVE  /\ Keep(h) /\ Len(stack) <= h + 1 /\ (stack # <<>> => Top.op \notin Deliver)
         /\ \A d \in h .. Len(stack') - 1 :
              Pile'[d].op \notin Deliver \cup {"h_connect_failed", "h_free"}
  <1>1. stack # <<>> => Len(stack) > 0 /\ Pile[Len(stack) - 1] = Top
    BY PileType
  <1> QED
    BY <1>1, CalmFrames DEF Calm, CalmOps, Deliver

LEMMA ShapeCalm ==
  ASSUME StackPart, ShapePart, NEW h, Calm(h),
         \A k \in ConnIds : ctx_err[k] # "OK" => ctx_err'[k] # "OK",
         \A k \in ConnIds : replies[k] = <<>> /\ disconnecting[k] =>
                             replies'[k] = <<>> /\ disconnecting'[k]
  PROVE  ShapePart'
  <1>1. \A d \in h .. Len(stack') - 1 : ShapeAt(d)'
    BY CalmNotDeliver DEF ShapeAt, Calm, CalmOps, BottomOps
  <1> QED
    BY <1>1, CalmNotDeliver, ShapeKept

LEMMA CallbackCalm ==
  ASSUME StackPart, CallbackPart, NEW h, Calm(h), UNCHANGED in_callback
  PROVE  CallbackPart'
  <1>1. Keep(h) /\ Len(stack) <= h + 1 /\ (Len(stack) # h => Top.op \notin HiredisOps)
    BY CalmTopOp DEF CalmOps, HiredisOps
  <1> QED
    BY <1>1, CallbackKept

LEMMA ConnsCalm ==
  ASSUME StackPart, ConnsPart, NEW h, Calm(h),
         UNCHANGED <<conn_st, conn_, context_, nconn, ctx_st, replies, reply_list_,
                     disconnecting, in_callback>>,
         SameLinks
  PROVE  ConnsPart'
  <1>1. ASSUME NEW d \in 0 .. Len(stack') - 1 PROVE Pile'[d].k <= nconn'
    BY CalmFrames DEF ConnsPart
  <1> QED
    BY <1>1 DEF ConnsPart, SameLinks

LEMMA ReleaseCalm ==
  ASSUME StackPart, RawPart, ReleasePart, NEW h, Calm(h), UNCHANGED <<conn_, conn_st>>,
         SameLinks, \A k \in ConnIds : notified[k] \subseteq notified'[k]
  PROVE  ReleasePart'
  <1>1. Len(stack) # h => Top.op \in CalmOps \cup {"connection_release", "proc", "proc_conn"}
    BY CalmTopOp
  <1>2. /\ Keep(h) /\ Len(stack) <= h + 1
        /\ \A d \in h .. Len(stack') - 1 : Pile'[d].op \in CalmOps \cup {"proc", "proc_conn"}
    BY CalmFrames DEF Calm
  <1> QED
    BY <1>1, <1>2, ReleaseKept DEF CalmOps, ReleaseOps

LEMMA MatchCalm ==
  ASSUME StackPart, ShapePart, MatchPart, NEW h, Calm(h),
         UNCHANGED <<reply_list_, replies>>, SameLinks
  PROVE  MatchPart'
  BY CalmNotDeliver, MatchKept DEF SameLinks

-----------------------------------------------------------------------------
(* Who holds a command                                                     *)

Owner(f, c) == f.op \in OwnerOps /\ f.c = c

\* The places of a command, now and after a step.
LEMMA HeldPlaces ==
  ASSUME Len(stack) \in Nat, NEW c \in CmdIds
  PROVE  /\ \A x \in 1 .. Len(stack) : x \in Held[c] <=> Owner(Pile[x - 1], c)
         /\ 0 \in Held[c] <=> c \in TimerCmds
         /\ \A k \in ConnIds : -k \in Held[c] <=> c \in Elems(reply_list_[k])
         /\ \A x \in Held[c] : x \in 1 .. Len(stack) \/ x = 0 \/ \E k \in ConnIds : x = -k
  <1> DEFINE n == Len(stack)
  <1>1. Held[c] = {x \in -MaxConns .. n :
                     \/ x > 0 /\ Owner(Pile[x - 1], c)
                     \/ x = 0 /\ c \in TimerCmds
                     \/ x < 0 /\ c \in Elems(reply_list_[-x])}
    BY DEF Held, Owner
  <1>2. n \in Nat /\ MaxConns \in Nat
    BY BoundsAssumption DEF BoundsAssumption
  <1> HIDE DEF n
  <1>3. /\ \A x \in 1 .. n : x \in Held[c] <=> Owner(Pile[x - 1], c)
        /\ 0 \in Held[c] <=> c \in TimerCmds
        /\ \A k \in ConnIds : -k \in Held[c] <=> c \in Elems(reply_list_[k])
        /\ \A x \in Held[c] : x \in 1 .. n \/ x = 0 \/ \E k \in ConnIds : x = -k
    BY <1>1, <1>2 DEF ConnIds
  <1> QED
    BY <1>3 DEF n

LEMMA HeldPlacesNext ==
  ASSUME Len(stack') \in Nat, NEW c \in CmdIds
  PROVE  /\ \A x \in 1 .. Len(stack') : x \in Held'[c] <=> Owner(Pile'[x - 1], c)
         /\ 0 \in Held'[c] <=> c \in TimerCmds'
         /\ \A k \in ConnIds : -k \in Held'[c] <=> c \in Elems(reply_list_'[k])
         /\ \A x \in Held'[c] : x \in 1 .. Len(stack') \/ x = 0 \/ \E k \in ConnIds : x = -k
  <1> DEFINE n == Len(stack')
  <1>1. Held'[c] = {x \in -MaxConns .. n :
                      \/ x > 0 /\ Owner(Pile'[x - 1], c)
                      \/ x = 0 /\ c \in TimerCmds'
                      \/ x < 0 /\ c \in Elems(reply_list_'[-x])}
    BY DEF Held, Owner
  <1>2. n \in Nat /\ MaxConns \in Nat
    BY BoundsAssumption DEF BoundsAssumption
  <1> HIDE DEF n
  <1>3. /\ \A x \in 1 .. n : x \in Held'[c] <=> Owner(Pile'[x - 1], c)
        /\ 0 \in Held'[c] <=> c \in TimerCmds'
        /\ \A k \in ConnIds : -k \in Held'[c] <=> c \in Elems(reply_list_'[k])
        /\ \A x \in Held'[c] : x \in 1 .. n \/ x = 0 \/ \E k \in ConnIds : x = -k
    BY <1>1, <1>2 DEF ConnIds
  <1> QED
    BY <1>3 DEF n

\* No command changes hands when every frame that goes and held one is
\* replaced by one that holds it in turn.
LEMMA HeldByCalls ==
  ASSUME StackPart, NEW h, Keep(h), NEW c \in CmdIds,
         \A d \in h .. Len(stack) - 1 :
           Owner(Pile[d], c) => d <= Len(stack') - 1 /\ Owner(Pile'[d], c),
         \A d \in h .. Len(stack') - 1 :
           Owner(Pile'[d], c) => d <= Len(stack) - 1 /\ Owner(Pile[d], c),
         c \in TimerCmds <=> c \in TimerCmds',
         \A k \in ConnIds : c \in Elems(reply_list_[k]) <=> c \in Elems(reply_list_'[k])
  PROVE  Held'[c] = Held[c]
  <1>1. Len(stack) \in Nat /\ Len(stack') \in Nat /\ h \in Nat /\ h <= Len(stack) /\ h <= Len(stack')
    BY PileType DEF Keep
  <1>2. ASSUME NEW x \in 1 .. Len(stack), Owner(Pile[x - 1], c)
        PROVE  x \in 1 .. Len(stack') /\ Owner(Pile'[x - 1], c)
    <2>1. CASE x - 1 < h
      <3>1. x - 1 \in 0 .. h - 1 /\ x \in 1 .. Len(stack')
        BY <1>1, <2>1
      <3> QED
        BY <1>2, <3>1 DEF Keep
    <2>2. CASE x - 1 >= h
      <3>1. x - 1 \in h .. Len(stack) - 1
        BY <1>1, <2>2
      <3> QED
        BY <1>1, <1>2, <3>1
    <2> QED
      BY <1>1, <2>1, <2>2
  <1>3. ASSUME NEW x \in 1 .. Len(stack'), Owner(Pile'[x - 1], c)
        PROVE  x \in 1 .. Len(stack) /\ Owner(Pile[x - 1], c)
    <2>1. CASE x - 1 < h
      <3>1. x - 1 \in 0 .. h - 1 /\ x \in 1 .. Len(stack)
        BY <1>1, <2>1
      <3> QED
        BY <1>3, <3>1 DEF Keep
    <2>2. CASE x - 1 >= h
      <3>1. x - 1 \in h .. Len(stack') - 1
        BY <1>1, <2>2
      <3> QED
        BY <1>1, <1>3, <3>1
    <2> QED
      BY <1>1, <2>1, <2>2
  <1>4. \A x \in Held[c] : x \in Held'[c]
    BY <1>1, <1>2, HeldPlaces, HeldPlacesNext
  <1>5. \A x \in Held'[c] : x \in Held[c]
    BY <1>1, <1>3, HeldPlaces, HeldPlacesNext
  <1> QED
    BY <1>4, <1>5

\* OncePart after a step that moves at most one command.
LEMMA OnceSame ==
  ASSUME OncePart, \A c \in CmdIds : Held'[c] = Held[c], UNCHANGED cmd_st
  PROVE  OncePart'
  BY DEF OncePart

LEMMA OnceMoved ==
  ASSUME OncePart, NEW c \in CmdIds, NEW x, Held'[c] = {x}, cmd_st'[c] = "live",
         \A e \in CmdIds \ {c} : Held'[e] = Held[e] /\ cmd_st'[e] = cmd_st[e]
  PROVE  OncePart'
  <1> SUFFICES ASSUME NEW e \in CmdIds
               PROVE  IF cmd_st'[e] = "live" THEN \E y \in Held'[e] : Held'[e] = {y}
                                             ELSE Held'[e] = {}
    BY DEF OncePart
  <1>1. CASE e = c
    BY <1>1
  <1>2. CASE e # c
    BY <1>2 DEF OncePart
  <1> QED
    BY <1>1, <1>2

\* A command held somewhere is held there only, and it is alive.
LEMMA HeldOnly ==
  ASSUME OncePart, NEW c \in CmdIds, NEW x \in Held[c]
  PROVE  cmd_st[c] = "live" /\ Held[c] = {x}
  BY DEF OncePart

\* The elements of a list that grows at its end and loses its head.
LEMMA ElemsAppend ==
  ASSUME NEW S, NEW s \in Seq(S), NEW c
  PROVE  Elems(Append(s, c)) = Elems(s) \cup {c}
  <1>1. /\ Len(s) \in Nat /\ DOMAIN s = 1 .. Len(s)
        /\ DOMAIN Append(s, c) = 1 .. Len(s) + 1
        /\ Append(s, c)[Len(s) + 1] = c
        /\ \A i \in 1 .. Len(s) : Append(s, c)[i] = s[i]
    OBVIOUS
  <1>2. 1 .. Len(s) + 1 = (1 .. Len(s)) \cup {Len(s) + 1}
    BY <1>1
  <1> QED
    BY <1>1, <1>2 DEF Elems

LEMMA ElemsTail ==
  ASSUME NEW S, NEW s \in Seq(S), s # <<>>, \A i, j \in DOMAIN s : s[i] = s[j] => i = j
  PROVE  /\ Head(s) \in Elems(s)
         /\ Elems(Tail(s)) = Elems(s) \ {Head(s)}
         /\ \A i, j \in DOMAIN Tail(s) : Tail(s)[i] = Tail(s)[j] => i = j
  <1>1. /\ Len(s) \in Nat /\ Len(s) >= 1 /\ DOMAIN s = 1 .. Len(s) /\ Head(s) = s[1]
        /\ DOMAIN Tail(s) = 1 .. Len(s) - 1
        /\ \A i \in 1 .. Len(s) - 1 : Tail(s)[i] = s[i + 1]
    OBVIOUS
  <1>2. Head(s) \in Elems(s)
    BY <1>1 DEF Elems
  <1>3. \A e \in Elems(Tail(s)) : e \in Elems(s) /\ e # Head(s)
    BY <1>1 DEF Elems
  <1>4. ASSUME NEW e \in Elems(s), e # Head(s) PROVE e \in Elems(Tail(s))
    <2>1. PICK i \in 1 .. Len(s) : e = s[i]
      BY <1>1 DEF Elems
    <2>2. i - 1 \in 1 .. Len(s) - 1 /\ (i - 1) + 1 = i
      BY <1>1, <1>4, <2>1
    <2>3. Tail(s)[i - 1] = e
      BY <1>1, <2>1, <2>2
    <2> QED
      BY <1>1, <2>2, <2>3 DEF Elems
  <1>5. ASSUME NEW i \in DOMAIN Tail(s), NEW j \in DOMAIN Tail(s), Tail(s)[i] = Tail(s)[j]
        PROVE  i = j
    <2>1. i + 1 \in DOMAIN s /\ j + 1 \in DOMAIN s /\ s[i + 1] = s[j + 1]
      BY <1>1, <1>5
    <2>2. i + 1 = j + 1
      BY <2>1
    <2> QED
      BY <1>1, <2>2
  <1> QED
    BY <1>2, <1>3, <1>4, <1>5

\* The retry queue, likewise.
LEMMA TimerAppend ==
  ASSUME NEW S, timer_pending \in Seq(S), NEW e, timer_pending' = Append(timer_pending, e)
  PROVE  TimerCmds' = TimerCmds \cup {e.cmd}
  <1> DEFINE n == Len(timer_pending)
  <1>1. /\ n \in Nat /\ DOMAIN timer_pending = 1 .. n /\ DOMAIN timer_pending' = 1 .. n + 1
        /\ timer_pending'[n + 1] = e
        /\ \A i \in 1 .. n : timer_pending'[i] = timer_pending[i]
    OBVIOUS
  <1>2. 1 .. n + 1 = (1 .. n) \cup {n + 1}
    BY <1>1
  <1> QED
    BY <1>1, <1>2 DEF TimerCmds

LEMMA TimerTail ==
  ASSUME NEW S, timer_pending \in Seq(S), timer_pending # <<>>, DistinctPart,
         timer_pending' = Tail(timer_pending)
  PROVE  /\ Head(timer_pending).cmd \in TimerCmds
         /\ TimerCmds' = TimerCmds \ {Head(timer_pending).cmd}
         /\ \A i, j \in DOMAIN timer_pending' :
              timer_pending'[i].cmd = timer_pending'[j].cmd => i = j
  <1> DEFINE n == Len(timer_pending)
  <1>1. /\ n \in Nat /\ n >= 1 /\ DOMAIN timer_pending = 1 .. n
        /\ Head(timer_pending) = timer_pending[1]
        /\ DOMAIN timer_pending' = 1 .. n - 1
        /\ \A i \in 1 .. n - 1 : timer_pending'[i] = timer_pending[i + 1]
    OBVIOUS
  <1> HIDE DEF n
  <1>2. Head(timer_pending).cmd \in TimerCmds
    BY <1>1 DEF TimerCmds
  <1>3. \A e \in TimerCmds' : e \in TimerCmds /\ e # Head(timer_pending).cmd
    BY <1>1 DEF TimerCmds, DistinctPart
  <1>4. ASSUME NEW e \in TimerCmds, e # Head(timer_pending).cmd PROVE e \in TimerCmds'
    <2>1. PICK i \in 1 .. n : e = timer_pending[i].cmd
      BY <1>1 DEF TimerCmds
    <2>2. i - 1 \in 1 .. n - 1 /\ (i - 1) + 1 = i
      BY <1>1, <1>4, <2>1
    <2>3. timer_pending'[i - 1] = timer_pending[i]
      BY <1>1, <2>2
    <2> QED
      BY <1>1, <2>1, <2>2, <2>3 DEF TimerCmds
  <1>5. ASSUME NEW i \in DOMAIN timer_pending', NEW j \in DOMAIN timer_pending',
               timer_pending'[i].cmd = timer_pending'[j].cmd
        PROVE  i = j
    <2>1. i + 1 \in DOMAIN timer_pending /\ j + 1 \in DOMAIN timer_pending
          /\ timer_pending[i + 1].cmd = timer_pending[j + 1].cmd
      BY <1>1, <1>5
    <2>2. i + 1 = j + 1
      BY <2>1 DEF DistinctPart
    <2> QED
      BY <1>1, <2>2
  <1> QED
    BY <1>2, <1>3, <1>4, <1>5

-----------------------------------------------------------------------------
(* Steps that move a command                                               *)

\* A step that moves no command from or to a list, and no call that holds one.
LEMMA QuietOnce ==
  ASSUME StackPart, OncePart, NEW h, Keep(h), Len(stack) <= h + 1,
         Len(stack) = h \/ Top.op \notin OwnerOps,
         \A d \in h .. Len(stack') - 1 : Pile'[d].op \notin OwnerOps,
         UNCHANGED <<timer_pending, reply_list_, cmd_st>>
  PROVE  OncePart'
  <1>1. Len(stack) \in Nat /\ h \in Nat /\ (Len(stack) # h => stack # <<>> /\ Pile[Len(stack) - 1] = Top)
    BY PileType DEF Keep
  <1>2. \A d \in h .. Len(stack) - 1 : Pile[d].op \notin OwnerOps
    <2> SUFFICES ASSUME NEW d \in h .. Len(stack) - 1 PROVE Pile[d].op \notin OwnerOps
      OBVIOUS
    <2>1. d = Len(stack) - 1 /\ Len(stack) # h
      BY <1>1
    <2> QED
      BY <1>1, <2>1
  <1>3. TimerCmds' = TimerCmds
    BY DEF TimerCmds
  <1>4. \A c \in CmdIds : Held'[c] = Held[c]
    BY <1>2, <1>3, HeldByCalls DEF Owner
  <1> QED
    BY <1>4, OnceSame

\* The running call hands its command to what replaces it.
LEMMA PassedOnce ==
  ASSUME StackPart, OncePart, stack # <<>>, Keep(Len(stack) - 1), NEW c, Owner(Top, c),
         Len(stack') >= Len(stack), Owner(Pile'[Len(stack) - 1], c),
         \A d \in Len(stack) .. Len(stack') - 1 : Pile'[d].op \notin OwnerOps,
         UNCHANGED <<timer_pending, reply_list_, cmd_st>>
  PROVE  OncePart'
  <1>1. Len(stack) \in Nat /\ Len(stack') \in Nat /\ Len(stack) >= 1 /\ Pile[Len(stack) - 1] = Top
    BY PileType DEF Keep
  <1>2. TimerCmds' = TimerCmds
    BY DEF TimerCmds
  <1>3. ASSUME NEW e \in CmdIds PROVE Held'[e] = Held[e]
    <2>1. \A d \in Len(stack) - 1 .. Len(stack) - 1 :
            Owner(Pile[d], e) => d <= Len(stack') - 1 /\ Owner(Pile'[d], e)
      BY <1>1 DEF Owner
    <2>2. ASSUME NEW d \in Len(stack) - 1 .. Len(stack') - 1, Owner(Pile'[d], e)
          PROVE  d <= Len(stack) - 1 /\ Owner(Pile[d], e)
      <3>1. d = Len(stack) - 1 \/ d \in Len(stack) .. Len(stack') - 1
        BY <1>1
      <3> QED
        BY <1>1, <2>2, <3>1 DEF Owner
    <2> QED
      BY <1>2, <2>1, <2>2, HeldByCalls
  <1> QED
    BY <1>3, OnceSame

\* All commands but c stay where they are.
OthersStay(c) ==
  \A e \in CmdIds \ {c} :
    /\ cmd_st'[e] = cmd_st[e]
    /\ e \in TimerCmds' <=> e \in TimerCmds
    /\ \A k \in ConnIds : e \in Elems(reply_list_'[k]) <=> e \in Elems(reply_list_[k])

\* A step in which only c moves: what it leaves behind and adds on the stack
\* holds no other command.
OnlyMoves(h, c) ==
  /\ Keep(h) /\ Len(stack) <= h + 1
  /\ Len(stack) = h \/ (Top.op \in OwnerOps => Top.c = c)
  /\ \A d \in h .. Len(stack') - 1 : Pile'[d].op \in OwnerOps => Pile'[d].c = c
  /\ OthersStay(c)

LEMMA HeldOthers ==
  ASSUME StackPart, NEW h, NEW c, OnlyMoves(h, c)
  PROVE  \A e \in CmdIds \ {c} : Held'[e] = Held[e] /\ cmd_st'[e] = cmd_st[e]
  <1>1. /\ Len(stack) \in Nat /\ h \in Nat /\ Keep(h) /\ Len(stack) <= h + 1
        /\ Len(stack) # h => stack # <<>> /\ Pile[Len(stack) - 1] = Top
    BY PileType DEF Keep, OnlyMoves
  <1> SUFFICES ASSUME NEW e \in CmdIds, e # c PROVE Held'[e] = Held[e]
    BY DEF OnlyMoves, OthersStay
  <1>2. \A d \in h .. Len(stack) - 1 : ~Owner(Pile[d], e)
    <2> SUFFICES ASSUME NEW d \in h .. Len(stack) - 1 PROVE ~Owner(Pile[d], e)
      OBVIOUS
    <2>1. d = Len(stack) - 1 /\ Len(stack) # h
      BY <1>1
    <2> QED
      BY <1>1, <2>1 DEF Owner, OnlyMoves
  <1>3. \A d \in h .. Len(stack') - 1 : ~Owner(Pile'[d], e)
    BY DEF Owner, OnlyMoves
  <1> QED
    BY <1>1, <1>2, <1>3, HeldByCalls DEF OnlyMoves, OthersStay

\* Where c is after such a step, given that no frame that is kept holds it.
LEMMA HeldNow ==
  ASSUME StackPart, NEW h, NEW c \in CmdIds, OnlyMoves(h, c), NEW y, Held[c] \subseteq {y}, y \notin 1 .. h
  PROVE  \A x \in Held'[c] : \/ x - 1 \in h .. Len(stack') - 1 /\ Owner(Pile'[x - 1], c)
                             \/ x = 0 /\ c \in TimerCmds'
                             \/ \E k \in ConnIds : x = -k /\ c \in Elems(reply_list_'[k])
  <1>1. Len(stack) \in Nat /\ Len(stack') \in Nat /\ h \in Nat /\ Keep(h) /\ h <= Len(stack)
    BY PileType DEF Keep, OnlyMoves
  <1> SUFFICES ASSUME NEW x \in Held'[c], x \in 1 .. Len(stack')
               PROVE  x - 1 \in h .. Len(stack') - 1 /\ Owner(Pile'[x - 1], c)
    BY <1>1, HeldPlacesNext
  <1>2. Owner(Pile'[x - 1], c)
    BY <1>1, HeldPlacesNext
  <1>3. ASSUME x - 1 < h PROVE FALSE
    <2>1. x - 1 \in 0 .. h - 1 /\ x \in 1 .. h /\ x \in 1 .. Len(stack)
      BY <1>1, <1>3
    <2>2. Owner(Pile[x - 1], c)
      BY <1>1, <1>2, <2>1 DEF Keep
    <2>3. x \in Held[c]
      BY <1>1, <2>1, <2>2, HeldPlaces
    <2> QED
      BY <2>1, <2>3
  <1> QED
    BY <1>1, <1>2, <1>3

\* c goes to the call at height p, to the retry queue, to the list of
\* connection k, or away.
LEMMA MovedToCall ==
  ASSUME StackPart, OncePart, NEW h, NEW c \in CmdIds, OnlyMoves(h, c),
         NEW y, Held[c] \subseteq {y}, y \notin 1 .. h,
         NEW p \in h .. Len(stack') - 1, Owner(Pile'[p], c),
         \A d \in h .. Len(stack') - 1 : d # p => Pile'[d].op \notin OwnerOps,
         c \notin TimerCmds', \A k \in ConnIds : c \notin Elems(reply_list_'[k]),
         cmd_st'[c] = "live"
  PROVE  OncePart'
  <1>1. Len(stack') \in Nat /\ h \in Nat
    BY PileType DEF Keep, OnlyMoves
  <1>2. p + 1 \in 1 .. Len(stack') /\ (p + 1) - 1 = p
    BY <1>1
  <1>3. p + 1 \in Held'[c]
    BY <1>1, <1>2, HeldPlacesNext
  <1>4. ASSUME NEW x \in Held'[c] PROVE x = p + 1
    <2>1. x - 1 \in h .. Len(stack') - 1 /\ Owner(Pile'[x - 1], c)
      BY HeldNow
    <2>2. x - 1 = p
      BY <2>1 DEF Owner
    <2>3. x \in Int
      BY <1>1, HeldPlacesNext DEF ConnIds
    <2> QED
      BY <1>1, <2>2, <2>3
  <1>5. Held'[c] = {p + 1}
    BY <1>3, <1>4
  <1> QED
    BY <1>5, HeldOthers, OnceMoved

LEMMA MovedToTimer ==
  ASSUME StackPart, OncePart, NEW h, NEW c \in CmdIds, OnlyMoves(h, c),
         NEW y, Held[c] \subseteq {y}, y \notin 1 .. h, Len(stack') = h,
         c \in TimerCmds', \A k \in ConnIds : c \notin Elems(reply_list_'[k]),
         cmd_st'[c] = "live"
  PROVE  OncePart'
  <1>1. Len(stack') \in Nat /\ h \in Nat
    BY PileType DEF Keep, OnlyMoves
  <1>2. 0 \in Held'[c]
    BY <1>1, HeldPlacesNext
  <1>3. \A x \in Held'[c] : x = 0
    BY <1>1, HeldNow
  <1>4. Held'[c] = {0}
    BY <1>2, <1>3
  <1> QED
    BY <1>4, HeldOthers, OnceMoved

LEMMA MovedToList ==
  ASSUME StackPart, OncePart, NEW h, NEW c \in CmdIds, OnlyMoves(h, c),
         NEW y, Held[c] \subseteq {y}, y \notin 1 .. h, Len(stack') = h,
         NEW k \in ConnIds, c \notin TimerCmds', c \in Elems(reply_list_'[k]),
         \A j \in ConnIds : c \in Elems(reply_list_'[j]) => j = k,
         cmd_st'[c] = "live"
  PROVE  OncePart'
  <1>1. Len(stack') \in Nat /\ h \in Nat
    BY PileType DEF Keep, OnlyMoves
  <1>2. -k \in Held'[c]
    BY <1>1, HeldPlacesNext
  <1>3. \A x \in Held'[c] : x = -k
    BY <1>1, HeldNow
  <1>4. Held'[c] = {-k}
    BY <1>2, <1>3
  <1>5. PICK x : Held'[c] = {x}
    BY <1>4, Zenon
  <1>6. \A e \in CmdIds \ {c} : Held'[e] = Held[e] /\ cmd_st'[e] = cmd_st[e]
    BY HeldOthers
  <1> QED
    BY <1>5, <1>6, OnceMoved

LEMMA MovedAway ==
  ASSUME StackPart, OncePart, NEW h, NEW c \in CmdIds, OnlyMoves(h, c),
         NEW y, Held[c] \subseteq {y}, y \notin 1 .. h, Len(stack') = h,
         c \notin TimerCmds', \A k \in ConnIds : c \notin Elems(reply_list_'[k]),
         cmd_st'[c] # "live"
  PROVE  OncePart'
  <1>1. Len(stack') \in Nat /\ h \in Nat
    BY PileType DEF Keep, OnlyMoves
  <1>2. Held'[c] = {}
    BY <1>1, HeldNow
  <1> SUFFICES ASSUME NEW e \in CmdIds
               PROVE  IF cmd_st'[e] = "live" THEN \E z \in Held'[e] : Held'[e] = {z}
                                             ELSE Held'[e] = {}
    BY DEF OncePart
  <1>3. CASE e = c
    BY <1>2, <1>3
  <1>4. CASE e # c
    BY <1>4, HeldOthers DEF OncePart
  <1> QED
    BY <1>3, <1>4

\* The command of the running call is held by that call only; a command in a
\* list is held there only.
LEMMA HeldByTop ==
  ASSUME StackPart, OncePart, stack # <<>>, NEW c \in CmdIds, Owner(Top, c)
  PROVE  /\ cmd_st[c] = "live" /\ Held[c] = {Len(stack)} /\ c \notin TimerCmds
         /\ \A k \in ConnIds : c \notin Elems(reply_list_[k])
  <1>1. Len(stack) \in Nat /\ Len(stack) \in 1 .. Len(stack) /\ Pile[Len(stack) - 1] = Top
    BY PileType
  <1>2. Len(stack) \in Held[c]
    BY <1>1, HeldPlaces
  <1>3. cmd_st[c] = "live" /\ Held[c] = {Len(stack)}
    BY <1>2, HeldOnly
  <1>4. 0 \notin Held[c] /\ \A k \in ConnIds : -k \notin Held[c]
    BY <1>1, <1>3 DEF ConnIds
  <1> QED
    BY <1>1, <1>3, <1>4, HeldPlaces

LEMMA HeldByList ==
  ASSUME StackPart, OncePart, NEW c \in CmdIds, NEW k \in ConnIds, c \in Elems(reply_list_[k])
  PROVE  /\ cmd_st[c] = "live" /\ Held[c] = {-k} /\ c \notin TimerCmds
         /\ \A j \in ConnIds : c \in Elems(reply_list_[j]) => j = k
  <1>1. Len(stack) \in Nat
    BY PileType
  <1>2. -k \in Held[c]
    BY <1>1, HeldPlaces
  <1>3. cmd_st[c] = "live" /\ Held[c] = {-k}
    BY <1>2, HeldOnly
  <1>4. 0 \notin Held[c] /\ \A j \in ConnIds : -j \in Held[c] => j = k
    BY <1>1, <1>3 DEF ConnIds
  <1> QED
    BY <1>1, <1>3, <1>4, HeldPlaces

LEMMA HeldByTimer ==
  ASSUME StackPart, OncePart, NEW c \in CmdIds, c \in TimerCmds
  PROVE  /\ cmd_st[c] = "live" /\ Held[c] = {0}
         /\ \A k \in ConnIds : c \notin Elems(reply_list_[k])
  <1>1. Len(stack) \in Nat
    BY PileType
  <1>2. 0 \in Held[c]
    BY <1>1, HeldPlaces
  <1>3. cmd_st[c] = "live" /\ Held[c] = {0}
    BY <1>2, HeldOnly
  <1>4. \A k \in ConnIds : -k \notin Held[c]
    BY <1>3 DEF ConnIds
  <1> QED
    BY <1>1, <1>3, <1>4, HeldPlaces

LEMMA HeldNowhere ==
  ASSUME StackPart, OncePart, NEW c \in CmdIds, cmd_st[c] # "live"
  PROVE  Held[c] = {} /\ c \notin TimerCmds /\ \A k \in ConnIds : c \notin Elems(reply_list_[k])
  <1>1. Len(stack) \in Nat
    BY PileType
  <1>2. Held[c] = {}
    BY DEF OncePart
  <1> QED
    BY <1>1, <1>2, HeldPlaces

-----------------------------------------------------------------------------
(* Answers                                                                 *)

\* A callback that reports an error, or the answer of the server.
LEMMA AnsweredCalled ==
  ASSUME CmdPart, OkMeansAnswered, NEW c \in CmdIds, NEW code, NEW r,
         code # "OK" \/ r = "ok", cmd_call_reply(c, code, r)
  PROVE  OkMeansAnswered'
  <1> SUFFICES ASSUME NEW e \in CmdIds, calls'[e] = 1, error_code_'[e] = "OK"
               PROVE  got'[e] = "ok"
    BY DEF OkMeansAnswered
  <1>1. CASE e = c /\ callback_[c]
    BY <1>1 DEF cmd_call_reply, CmdPart, CmdTypeOK
  <1>2. CASE ~(e = c /\ callback_[c])
    <2>1. calls'[e] = calls[e] /\ error_code_'[e] = error_code_[e] /\ got'[e] = got[e]
      BY <1>2 DEF cmd_call_reply, CmdPart, CmdTypeOK
    <2> QED
      BY <2>1 DEF OkMeansAnswered
  <1> QED
    BY <1>1, <1>2

LEMMA AnsweredSame ==
  ASSUME OkMeansAnswered, UNCHANGED <<calls, error_code_, got>>
  PROVE  OkMeansAnswered'
  BY DEF OkMeansAnswered

LEMMA AnsweredCreated ==
  ASSUME CmdPart, OkMeansAnswered, NEW c \in CmdIds, create(c)
  PROVE  OkMeansAnswered'
  BY DEF OkMeansAnswered, create, CmdPart, CmdTypeOK

-----------------------------------------------------------------------------
(* Calm actions                                                            *)

LEMMA DistinctSame ==
  ASSUME DistinctPart, UNCHANGED <<reply_list_, timer_pending>>
  PROVE  DistinctPart'
  BY DEF DistinctPart

\* A calm step that keeps the connections and moves no command but by the stack.
LEMMA CalmFlow ==
  ASSUME IndInv, FlowInv, NEW h, Calm(h),
         UNCHANGED <<hiredisVars, conn_st, context_, reply_list_, conn_, nconn>>, SameLinks,
         \A k \in ConnIds : notified[k] \subseteq notified'[k],
         OncePart', DistinctPart', OkMeansAnswered'
  PROVE  FlowInv'
  <1>1. ShapePart'
    BY ShapeCalm DEF IndInv, FlowInv, hiredisVars
  <1>2. CallbackPart'
    BY CallbackCalm DEF IndInv, FlowInv, hiredisVars
  <1>3. ConnsPart'
    BY ConnsCalm DEF IndInv, FlowInv, hiredisVars
  <1>4. ReleasePart'
    BY ReleaseCalm DEF IndInv, FlowInv
  <1>5. MatchPart'
    BY MatchCalm DEF IndInv, FlowInv, hiredisVars
  <1> QED
    BY <1>1, <1>2, <1>3, <1>4, <1>5 DEF FlowInv

\* What the raw module keeps when its own variables do not change.
LEMMA CalmSame ==
  ASSUME IndInv, FlowInv, NEW h, Calm(h), UNCHANGED <<hiredisVars, connVars, rawVars>>,
         OncePart', OkMeansAnswered'
  PROVE  FlowInv'
  <1>1. SameLinks /\ DistinctPart' /\ \A k \in ConnIds : notified[k] \subseteq notified'[k]
    BY DistinctSame DEF SameLinks, connVars, rawVars, FlowInv
  <1> QED
    BY <1>1, CalmFlow DEF connVars, rawVars

\* The running call is calm and goes on as calm calls.
LEMMA CalmTop ==
  ASSUME StackPart, stack # <<>>, Keep(Len(stack) - 1),
         Top.op \in CalmOps \cup {"connection_release", "proc", "proc_conn"},
         \A d \in Len(stack) - 1 .. Len(stack') - 1 :
           Pile'[d].op \in CalmOps /\ Pile'[d].k <= nconn'
  PROVE  Calm(Len(stack) - 1)
  BY PileType DEF Calm

\* A connection that exists has a number up to nconn.
LEMMA ConnNumber ==
  ASSUME RawPart, ConnsPart
  PROVE  conn_ <= nconn /\ 0 <= nconn /\ nconn \in Nat /\ (conn_ # 0 => conn_ \in ConnIds)
  <1>1. nconn \in Nat
    BY BoundsAssumption DEF RawPart, BoundsAssumption
  <1>2. conn_ # 0 => conn_ \in ConnIds /\ conn_st[conn_] # "none"
    BY DEF RawPart, ConnsPart
  <1>3. conn_ # 0 => conn_ <= nconn
    BY <1>1, <1>2 DEF ConnsPart, ConnIds
  <1> QED
    BY <1>1, <1>2, <1>3

\* The running call fails its command.
LEMMA FailFlow ==
  ASSUME IndInv, FlowInv, stack # <<>>, NEW c \in CmdIds, Owner(Top, c),
         NEW op \in {"destroy_cmd", "destroy"}, NEW code, code # "OK",
         cmd_call_reply(c, code, "null"),
         Continue(CallbackFrames(c, "null") \o <<F(op, c, 0, "none")>>),
         UNCHANGED <<cmd_st, hiredisVars, connVars, rawVars>>
  PROVE  FlowInv'
  <1>1. /\ Keep(Len(stack) - 1) /\ Pile'[Len(stack) - 1] = F(op, c, 0, "none")
        /\ \/ Len(stack') = Len(stack)
           \/ Len(stack') = Len(stack) + 1 /\ Pile'[Len(stack)] \in CallbackFrame(c, "null")
    BY PileCallback DEF IndInv
  <1>2. Len(stack) \in Nat /\ Len(stack) >= 1 /\ nconn' = nconn /\ 0 <= nconn
    BY PileType, ConnNumber DEF IndInv, FlowInv, rawVars
  <1>3. ASSUME NEW d \in Len(stack) - 1 .. Len(stack') - 1
        PROVE  /\ Pile'[d].op \in CalmOps /\ Pile'[d].k = 0
               /\ d # Len(stack) - 1 => Pile'[d].op \notin OwnerOps
    <2>1. d = Len(stack) - 1 \/ (d = Len(stack) /\ Len(stack') = Len(stack) + 1)
      BY <1>1, <1>2
    <2> QED
      BY <1>1, <1>2, <2>1 DEF F, CalmOps, OwnerOps, CallbackFrame
  <1>4. Calm(Len(stack) - 1)
    BY <1>1, <1>2, <1>3, CalmTop DEF IndInv, Owner, OwnerOps, CalmOps
  <1>5. OncePart'
    <2>1. Owner(Pile'[Len(stack) - 1], c)
      BY <1>1 DEF Owner, OwnerOps, F
    <2>2. Len(stack') >= Len(stack) /\ \A d \in Len(stack) .. Len(stack') - 1 : Pile'[d].op \notin OwnerOps
      BY <1>1, <1>2, <1>3
    <2> QED
      BY <1>1, <2>1, <2>2, PassedOnce DEF IndInv, FlowInv, rawVars, connVars
  <1>6. OkMeansAnswered'
    BY AnsweredCalled DEF IndInv, FlowInv
  <1> QED
    BY <1>4, <1>5, <1>6, CalmSame

\* The running call owns its command.
LEMMA TopOwns ==
  ASSUME IndInv, NEW op \in OwnerOps, At(op)
  PROVE  stack # <<>> /\ Top.op = op /\ Owner(Top, Top.c) /\ Top.c \in Created /\ Top.c \in CmdIds
  BY TopGood DEF IndInv, GoodFrame, Good, CmdOps, OwnerOps, Owner, Created

LEMMA DestroyCmdFlow == ASSUME IndInv, FlowInv, destroy_cmd PROVE FlowInv'
  <1>1. stack # <<>> /\ Owner(Top, Top.c) /\ Top.c \in CmdIds
    BY TopOwns DEF destroy_cmd, OwnerOps
  <1> QED
    BY <1>1, FailFlow DEF destroy_cmd, CallBack

LEMMA ExecConnectFailedFlow == ASSUME IndInv, FlowInv, exec_connect_failed PROVE FlowInv'
  <1>1. stack # <<>> /\ Owner(Top, Top.c) /\ Top.c \in CmdIds
    BY TopOwns DEF exec_connect_failed, OwnerOps
  <1> QED
    BY <1>1, FailFlow DEF exec_connect_failed, Fail, CallBack

LEMMA ExecConnFailedFlow == ASSUME IndInv, FlowInv, exec_conn_failed PROVE FlowInv'
  <1> DEFINE code == IF ttl_[Top.c] = 0 THEN "TTL"
                     ELSE IF context_[Top.k] THEN "HIREDIS" ELSE "CONNECTION"
  <1>1. stack # <<>> /\ Owner(Top, Top.c) /\ Top.c \in CmdIds
    BY TopOwns DEF exec_conn_failed, OwnerOps
  <1>2. /\ cmd_call_reply(Top.c, code, "null") /\ code # "OK"
        /\ Continue(CallbackFrames(Top.c, "null") \o <<F("destroy_cmd", Top.c, 0, "none")>>)
        /\ UNCHANGED <<cmd_st, hiredisVars, connVars, rawVars>>
    BY DEF exec_conn_failed
  <1> HIDE DEF code
  <1> QED
    BY <1>1, <1>2, FailFlow

\* The running call passes its command on to one call.
LEMMA PassFlow ==
  ASSUME IndInv, FlowInv, stack # <<>>, NEW c \in CmdIds, Owner(Top, c), NEW f, Continue(<<f>>),
         Owner(f, c), f.k <= nconn, UNCHANGED <<cmdVars, hiredisVars, connVars, rawVars>>
  PROVE  FlowInv'
  <1>1. Keep(Len(stack) - 1) /\ Len(stack') = Len(stack) /\ Pile'[Len(stack) - 1] = f
    BY PileContinueOne DEF IndInv
  <1>2. Len(stack) \in Nat /\ Len(stack) >= 1 /\ nconn' = nconn
    BY PileType DEF IndInv, rawVars
  <1>3. \A d \in Len(stack) - 1 .. Len(stack') - 1 : Pile'[d].op \in CalmOps /\ Pile'[d].k <= nconn'
    BY <1>1, <1>2 DEF Owner, OwnerOps, CalmOps
  <1>4. Calm(Len(stack) - 1)
    BY <1>1, <1>3, CalmTop DEF IndInv, Owner, OwnerOps, CalmOps
  <1>5. OncePart'
    BY <1>1, <1>2, PassedOnce DEF IndInv, FlowInv, cmdVars, connVars, rawVars
  <1>6. OkMeansAnswered'
    BY AnsweredSame DEF FlowInv, cmdVars
  <1> QED
    BY <1>4, <1>5, <1>6, CalmSame

LEMMA ExecFlow == ASSUME IndInv, FlowInv, exec PROVE FlowInv'
  <1>1. stack # <<>> /\ Owner(Top, Top.c) /\ Top.c \in CmdIds
    BY TopOwns DEF exec, OwnerOps
  <1>2. CASE ttl_[Top.c] = 0
    BY <1>1, <1>2, FailFlow DEF exec, Fail, CallBack
  <1>3. CASE ttl_[Top.c] # 0
    <2> DEFINE f == F("exec_conn", Top.c, conn_, "none")
    <2>1. Continue(<<f>>) /\ UNCHANGED <<cmdVars, hiredisVars, connVars, rawVars>>
      BY <1>3 DEF exec
    <2>2. Owner(f, Top.c) /\ f.k <= nconn
      BY ConnNumber DEF Owner, OwnerOps, F, IndInv, FlowInv
    <2> HIDE DEF f
    <2> QED
      BY <1>1, <2>1, <2>2, PassFlow
  <1> QED
    BY <1>2, <1>3

\* A calm step that touches no command.
LEMMA QuietFlow ==
  ASSUME IndInv, FlowInv, NEW h, Calm(h), Len(stack) = h \/ Top.op \notin OwnerOps,
         \A d \in h .. Len(stack') - 1 : Pile'[d].op \notin OwnerOps,
         UNCHANGED <<cmdVars, hiredisVars, conn_st, context_, reply_list_, conn_, nconn,
                     timer_pending>>,
         SameLinks, \A k \in ConnIds : notified[k] \subseteq notified'[k]
  PROVE  FlowInv'
  <1>1. Keep(h) /\ Len(stack) <= h + 1
    BY CalmFrames DEF IndInv, Calm
  <1>2. OncePart'
    BY <1>1, QuietOnce DEF IndInv, FlowInv, cmdVars
  <1>3. OkMeansAnswered' /\ DistinctPart'
    BY AnsweredSame, DistinctSame DEF FlowInv, cmdVars
  <1> QED
    BY <1>2, <1>3, CalmFlow

\* The same when a call without a command returns, or goes on as such calls.
QuietOps == CalmOps \ OwnerOps
QuietFrames == {f \in Frame : f.op \in QuietOps /\ f.k <= nconn}

LEMMA QuietContinue ==
  ASSUME IndInv, FlowInv, stack # <<>>, NEW fs \in Seq(QuietFrames), Continue(fs),
         Top.op \in QuietOps \cup {"connection_release", "proc", "proc_conn"},
         UNCHANGED <<cmdVars, hiredisVars, conn_st, context_, reply_list_, conn_, nconn,
                     timer_pending>>,
         SameLinks, \A k \in ConnIds : notified[k] \subseteq notified'[k]
  PROVE  FlowInv'
  <1>1. /\ Keep(Len(stack) - 1) /\ Len(stack') = Len(stack) - 1 + Len(fs)
        /\ \A i \in 1 .. Len(fs) : Pile'[Len(stack) - 1 + Len(fs) - i] = fs[i]
        /\ Len(stack) \in Nat /\ Len(fs) \in Nat
    BY PileContinue, PileType DEF IndInv
  <1>2. ASSUME NEW d \in Len(stack) - 1 .. Len(stack') - 1 PROVE Pile'[d] \in QuietFrames
    <2> DEFINE i == Len(stack) - 1 + Len(fs) - d
    <2>1. i \in 1 .. Len(fs) /\ Len(stack) - 1 + Len(fs) - i = d
      BY <1>1
    <2>2. fs[i] \in QuietFrames
      BY <2>1
    <2> QED
      BY <1>1, <2>1, <2>2
  <1>3. Calm(Len(stack) - 1)
    BY <1>1, <1>2, CalmTop DEF IndInv, QuietOps, QuietFrames
  <1> QED
    BY <1>2, <1>3, QuietFlow DEF QuietOps, OwnerOps, QuietFrames

LEMMA QuietReturn ==
  ASSUME IndInv, FlowInv, stack # <<>>, Return,
         Top.op \in QuietOps \cup {"connection_release", "proc", "proc_conn"},
         UNCHANGED <<cmdVars, hiredisVars, conn_st, context_, reply_list_, conn_, nconn,
                     timer_pending>>,
         SameLinks, \A k \in ConnIds : notified[k] \subseteq notified'[k]
  PROVE  FlowInv'
  <1>1. Continue(<<>>)
    BY DEF Return, Continue, IndInv, StackPart, Rest
  <1> QED
    BY <1>1, EmptyType, QuietContinue

\* The frames these actions push.
LEMMA QuietFramesType ==
  ASSUME IndInv, FlowInv
  PROVE  /\ \A a \in {"close", "keep"} : F("release_connection", 0, conn_, a) \in QuietFrames
         /\ F("reset", 0, 0, "none") \in QuietFrames
         /\ F("proc_clear", 0, 0, "none") \in QuietFrames
         /\ \A k \in ConnIds : k <= nconn =>
              /\ F("redisAsyncDisconnect", 0, k, "none") \in QuietFrames
              /\ \A a \in {"OK", "IO", "OTHER"} :
                   /\ F("on_connected_end", 0, k, a) \in QuietFrames
                   /\ F("user", 0, k, "on_connected") \in QuietFrames
  <1>1. conn_ <= nconn /\ 0 <= nconn /\ conn_ \in ConnIds \cup {0}
    BY ConnNumber DEF IndInv, FlowInv, RawPart
  <1> QED
    BY <1>1 DEF F, QuietFrames, QuietOps, CalmOps, OwnerOps, Frame, Ops, Args

\* The application calls the library from the event loop or in a callback.
LEMMA UserTop ==
  ASSUME StackPart, InUser
  PROVE  Len(stack) > 0 => Pile[Len(stack) - 1].op \notin Deliver
  <1>1. stack # <<>> => Top.op = "user"
    BY DEF InUser, InLoop, At
  <1>2. Len(stack) > 0 => stack # <<>>
    BY PileType
  <1> QED
    BY <1>1, <1>2, PileType DEF Deliver

LEMMA CalmCall ==
  ASSUME IndInv, InUser, NEW S, NEW fs \in Seq(S), Call(fs),
         \A i \in 1 .. Len(fs) : fs[i].op \in CalmOps /\ fs[i].k <= nconn'
  PROVE  /\ Calm(Len(stack)) /\ Len(stack') = Len(stack) + Len(fs)
         /\ \A d \in Len(stack) .. Len(stack') - 1 : \E i \in 1 .. Len(fs) : Pile'[d] = fs[i]
  <1>1. /\ Keep(Len(stack)) /\ Len(stack') = Len(stack) + Len(fs)
        /\ \A i \in 1 .. Len(fs) : Pile'[Len(stack) + Len(fs) - i] = fs[i]
        /\ Len(stack) \in Nat /\ Len(fs) \in Nat
    <2>1. StackPart
      BY DEF IndInv
    <2>2. /\ Keep(Len(stack)) /\ Len(stack') = Len(stack) + Len(fs)
          /\ \A i \in 1 .. Len(fs) : Pile'[Len(stack) + Len(fs) - i] = fs[i]
      BY <2>1, PileCall
    <2>3. Len(stack) \in Nat
      BY <2>1, PileType
    <2>4. Len(fs) \in Nat
      OBVIOUS
    <2> QED
      BY <2>2, <2>3, <2>4
  <1>2. ASSUME NEW d \in Len(stack) .. Len(stack') - 1
        PROVE  \E i \in 1 .. Len(fs) : Pile'[d] = fs[i]
    <2>1. Len(stack) + Len(fs) - d \in 1 .. Len(fs)
          /\ Len(stack) + Len(fs) - (Len(stack) + Len(fs) - d) = d
      BY <1>1
    <2> QED
      BY <1>1, <2>1
  <1>3. Len(stack) > 0 => Pile[Len(stack) - 1].op \notin Deliver
    BY UserTop DEF IndInv
  <1> QED
    BY <1>1, <1>2, <1>3 DEF Calm

LEMMA QuietCall ==
  ASSUME IndInv, FlowInv, InUser, NEW fs \in Seq(QuietFrames), Call(fs),
         UNCHANGED <<cmdVars, hiredisVars, connVars, rawVars>>
  PROVE  FlowInv'
  <1>1. nconn' = nconn /\ \A i \in 1 .. Len(fs) : fs[i] \in QuietFrames
    BY DEF rawVars
  <1>2. /\ Calm(Len(stack))
        /\ \A d \in Len(stack) .. Len(stack') - 1 : \E i \in 1 .. Len(fs) : Pile'[d] = fs[i]
    BY <1>1, CalmCall DEF QuietOps, QuietFrames
  <1>3. \A d \in Len(stack) .. Len(stack') - 1 : Pile'[d].op \notin OwnerOps
    BY <1>1, <1>2 DEF QuietOps, QuietFrames
  <1> QED
    BY <1>2, <1>3, QuietFlow DEF SameLinks, connVars, rawVars

LEMMA UserReturnFlow == ASSUME IndInv, FlowInv, UserReturn PROVE FlowInv'
  <1>1. stack # <<>> /\ Top.op = "user"
    BY DEF UserReturn, At, Running
  <1> QED
    BY <1>1, QuietReturn DEF UserReturn, QuietOps, CalmOps, OwnerOps, SameLinks, connVars, rawVars

LEMMA UserReleaseFlow == ASSUME IndInv, FlowInv, UserRelease PROVE FlowInv'
  BY QuietFramesType, OneType, QuietCall DEF UserRelease

LEMMA UserResetFlow == ASSUME IndInv, FlowInv, UserReset PROVE FlowInv'
  <1> DEFINE pre == IF conn_ # 0 /\ context_[conn_]
                    THEN <<F("redisAsyncDisconnect", 0, conn_, "none")>> ELSE <<>>
             fs  == pre \o <<F("reset", 0, 0, "none")>>
  <1>1. pre \in Seq(QuietFrames)
    BY QuietFramesType, ConnNumber, OneType, EmptyType DEF IndInv, FlowInv
  <1>2. fs \in Seq(QuietFrames)
    BY <1>1, QuietFramesType, OneType, ConcatType
  <1>3. InUser /\ Call(fs) /\ UNCHANGED <<cmdVars, hiredisVars, connVars, rawVars>>
    BY DEF UserReset
  <1> HIDE DEF fs
  <1> QED
    BY <1>2, <1>3, QuietCall

LEMMA ProcClearFlow == ASSUME IndInv, FlowInv, proc_clear PROVE FlowInv'
  <1>1. stack # <<>> /\ Top.op = "proc_clear"
    BY DEF proc_clear, At, Running
  <1> QED
    BY <1>1, QuietReturn DEF proc_clear, QuietOps, CalmOps, OwnerOps, SameLinks, connVars

LEMMA ProcConnFlow == ASSUME IndInv, FlowInv, proc_conn PROVE FlowInv'
  <1> DEFINE due == timer_conn.timeout # 0 /\ now >= timer_conn.timeout
             rel == IF conn_ # 0 /\ sequence_[conn_] = timer_conn.sequence
                    THEN <<F("release_connection", 0, conn_, "close")>> ELSE <<>>
             fs  == IF ~due THEN <<>> ELSE rel \o <<F("proc_clear", 0, 0, "none")>>
  <1>1. stack # <<>> /\ Top.op = "proc_conn"
    BY DEF proc_conn, At, Running
  <1>2. rel \in Seq(QuietFrames)
    BY QuietFramesType, OneType, EmptyType
  <1>3. fs \in Seq(QuietFrames)
    BY <1>2, QuietFramesType, OneType, ConcatType, EmptyType
  <1>4. /\ Continue(fs) /\ SameLinks /\ \A k \in ConnIds : notified[k] \subseteq notified'[k]
        /\ UNCHANGED <<cmdVars, hiredisVars, conn_st, context_, reply_list_, conn_, nconn,
                       timer_pending>>
    BY DEF proc_conn, connVars, rawVars, SameLinks
  <1> HIDE DEF fs
  <1> QED
    BY <1>1, <1>3, <1>4, QuietContinue

LEMMA OnConnectedFlow == ASSUME IndInv, FlowInv, on_connected_wrapper PROVE FlowInv'
  <1> DEFINE k == Top.k
             status == IF Top.a = "OK" /\ conn_status_[k] = "DISCONNECTED" THEN "OTHER" ELSE Top.a
             fs == <<F("user", 0, k, "on_connected"), F("on_connected_end", 0, k, status)>>
  <1>1. stack # <<>> /\ Top \in GoodFrame /\ Top.op = "on_connected"
    BY TopGood DEF on_connected_wrapper, IndInv
  <1>2. k \in ConnIds /\ status \in {"OK", "IO", "OTHER"}
    BY <1>1 DEF GoodFrame, Good, ConnOps
  <1>3. k <= nconn
    BY <1>1, PileType DEF FlowInv, ConnsPart, IndInv
  <1>4. fs \in Seq(QuietFrames)
    <2> HIDE DEF k, status
    <2> QED
      BY <1>2, <1>3, QuietFramesType, TwoType
  <1>5. /\ Continue(fs) /\ SameLinks /\ \A j \in ConnIds : notified[j] \subseteq notified'[j]
        /\ UNCHANGED <<cmdVars, hiredisVars, conn_st, context_, reply_list_, conn_, nconn,
                       timer_pending>>
    BY DEF on_connected_wrapper, connVars, SameLinks, Notify, IndInv, RawPart
  <1> HIDE DEF fs
  <1> QED
    BY <1>1, <1>4, <1>5, QuietContinue DEF QuietOps, CalmOps, OwnerOps

LEMMA OnConnectedEndFlow == ASSUME IndInv, FlowInv, on_connected_end PROVE FlowInv'
  <1>1. stack # <<>> /\ Top \in GoodFrame /\ Top.op = "on_connected_end"
    BY TopGood DEF on_connected_end, IndInv
  <1>2. Top.op \in QuietOps
    BY <1>1 DEF QuietOps, CalmOps, OwnerOps
  <1>3. CASE Top.a = "OK"
    <2>1. SameLinks
      BY <1>3 DEF on_connected_end, set_connected, SameLinks, IndInv, ConnPart
    <2> QED
      BY <1>1, <1>2, <1>3, <2>1, QuietReturn DEF on_connected_end, set_connected, rawVars
  <1>4. CASE Top.a # "OK"
    <2>1. <<F("release_connection", 0, conn_, "keep")>> \in Seq(QuietFrames)
      BY QuietFramesType, OneType
    <2> QED
      BY <1>1, <1>2, <1>4, <2>1, QuietContinue DEF on_connected_end, SameLinks, connVars, rawVars
  <1> QED
    BY <1>3, <1>4

LEMMA OnDisconnectedFlow == ASSUME IndInv, FlowInv, on_disconnected_wrapper PROVE FlowInv'
  <1>1. stack # <<>> /\ Top.op = "on_disconnected"
    BY DEF on_disconnected_wrapper, At, Running
  <1>2. <<F("release_connection", 0, conn_, "keep")>> \in Seq(QuietFrames)
    BY QuietFramesType, OneType
  <1> QED
    BY <1>1, <1>2, QuietContinue DEF on_disconnected_wrapper, SameLinks, connVars, rawVars,
       QuietOps, CalmOps, OwnerOps

\* exec(conn, cmd) on a context that goes away: the retry keeps the command.
LEMMA ExecConnClosingFlow == ASSUME IndInv, FlowInv, exec_conn_closing PROVE FlowInv'
  <1> DEFINE c   == Top.c
             pre == IF conn_ = Top.k /\ ~in_callback[Top.k]
                    THEN <<F("release_connection", 0, Top.k, "keep")>> ELSE <<>>
             ret == F("retry", c, 0, "none")
             fs  == pre \o <<ret>>
  <1>1. stack # <<>> /\ Top.op = "exec_conn" /\ Owner(Top, c) /\ c \in CmdIds
    BY TopOwns DEF exec_conn_closing, OwnerOps
  <1>2. /\ Continue(fs) /\ UNCHANGED <<cmd_st, callback_, error_code_, calls, got>>
        /\ UNCHANGED <<hiredisVars, connVars, rawVars>>
    BY DEF exec_conn_closing, SpendTtl
  <1>3. pre \in Seq(QuietFrames)
    BY QuietFramesType, OneType, EmptyType
  <1>4. ret.op \in OwnerOps /\ ret.op \in CalmOps /\ ret.c = c /\ ret.k = 0
    BY DEF F, OwnerOps, CalmOps
  <1>5. Len(stack) \in Nat /\ Len(stack) >= 1 /\ nconn' = nconn /\ 0 <= nconn
    BY <1>1, <1>2, PileType, ConnNumber DEF IndInv, FlowInv, rawVars
  <1> HIDE DEF c, ret, pre
  <1>6. /\ fs \in Seq(QuietFrames \cup {ret}) /\ Len(fs) = Len(pre) + 1 /\ fs[Len(fs)] = ret
        /\ \A i \in 1 .. Len(fs) - 1 : fs[i] \in QuietFrames
    <2>1. pre \in Seq(QuietFrames \cup {ret}) /\ <<ret>> \in Seq(QuietFrames \cup {ret})
      BY <1>3, SeqMono, OneType
    <2>2. Len(<<ret>>) = 1 /\ <<ret>>[1] = ret
      OBVIOUS
    <2>3. Len(pre) \in Nat
      BY <1>3
    <2>4. /\ fs \in Seq(QuietFrames \cup {ret}) /\ Len(fs) = Len(pre) + 1
          /\ \A i \in 1 .. Len(pre) : fs[i] = pre[i]
          /\ fs[Len(pre) + 1] = <<ret>>[1]
      BY <2>1, <2>2, <2>3
    <2> QED
      BY <1>3, <2>2, <2>3, <2>4
  <1> HIDE DEF fs
  <1>7. /\ Keep(Len(stack) - 1) /\ Len(stack') = Len(stack) - 1 + Len(fs)
        /\ \A i \in 1 .. Len(fs) : Pile'[Len(stack) - 1 + Len(fs) - i] = fs[i]
    BY <1>1, <1>2, <1>6, PileContinue DEF IndInv
  <1>8. Len(fs) \in Nat /\ Len(fs) >= 1
    BY <1>3, <1>6
  <1>9. Pile'[Len(stack) - 1] = ret
    BY <1>5, <1>6, <1>7, <1>8
  <1>10. ASSUME NEW d \in Len(stack) .. Len(stack') - 1 PROVE Pile'[d] \in QuietFrames
    <2> DEFINE i == Len(stack) - 1 + Len(fs) - d
    <2>1. i \in 1 .. Len(fs) - 1 /\ i \in 1 .. Len(fs) /\ Len(stack) - 1 + Len(fs) - i = d
      BY <1>5, <1>7, <1>8
    <2> HIDE DEF i
    <2> QED
      BY <1>6, <1>7, <2>1
  <1>11. \A d \in Len(stack) - 1 .. Len(stack') - 1 : d = Len(stack) - 1 \/ d \in Len(stack) .. Len(stack') - 1
    BY <1>5, <1>7, <1>8
  <1>12. Calm(Len(stack) - 1)
    BY <1>1, <1>4, <1>5, <1>7, <1>9, <1>10, <1>11, CalmTop DEF IndInv, QuietFrames, QuietOps, CalmOps
  <1>13. OncePart'
    <2>1. Len(stack') >= Len(stack)
      BY <1>5, <1>7, <1>8
    <2>2. \A d \in Len(stack) .. Len(stack') - 1 : Pile'[d].op \notin OwnerOps
      BY <1>10 DEF QuietFrames, QuietOps
    <2> QED
      BY <1>1, <1>2, <1>4, <1>7, <1>9, <2>1, <2>2, PassedOnce
         DEF IndInv, FlowInv, Owner, connVars, rawVars
  <1> QED
    BY <1>2, <1>12, <1>13, CalmSame, AnsweredSame DEF FlowInv

\* The running call gives up its command and returns.
LEMMA GiveUp ==
  ASSUME IndInv, FlowInv, stack # <<>>, NEW c \in CmdIds, Owner(Top, c), Return, OthersStay(c)
  PROVE  /\ OnlyMoves(Len(stack) - 1, c) /\ Held[c] = {Len(stack)}
         /\ Len(stack) \notin 1 .. Len(stack) - 1 /\ Len(stack') = Len(stack) - 1
         /\ cmd_st[c] = "live" /\ c \notin TimerCmds
         /\ \A k \in ConnIds : c \notin Elems(reply_list_[k])
         /\ nconn' = nconn => Calm(Len(stack) - 1)
  <1>1. Keep(Len(stack) - 1) /\ Len(stack') = Len(stack) - 1 /\ Len(stack) \in Nat
    BY PileReturn, PileType DEF IndInv
  <1>2. \A d \in Len(stack) - 1 .. Len(stack') - 1 : FALSE
    BY <1>1
  <1>3. OnlyMoves(Len(stack) - 1, c)
    BY <1>1, <1>2 DEF OnlyMoves, Owner
  <1>4. Calm(Len(stack) - 1)
    BY <1>1, <1>2, CalmTop DEF IndInv, Owner, OwnerOps, CalmOps
  <1> QED
    BY <1>1, <1>3, <1>4, HeldByTop DEF IndInv, FlowInv

LEMMA RetryFlow == ASSUME IndInv, FlowInv, retry PROVE FlowInv'
  <1> DEFINE c == Top.c
             e == [at |-> last_update + Interval, cmd |-> c]
  <1>1. stack # <<>> /\ Owner(Top, c) /\ c \in CmdIds
    BY TopOwns DEF retry, OwnerOps
  <1>2. CASE Continue(<<F("exec", c, 0, "none")>>) /\ UNCHANGED timer_pending
    <2> DEFINE f == F("exec", c, 0, "none")
    <2>1. Owner(f, c) /\ f.k <= nconn
      BY ConnNumber DEF IndInv, FlowInv, Owner, OwnerOps, F
    <2>2. Continue(<<f>>) /\ UNCHANGED <<cmdVars, hiredisVars, connVars, rawVars>>
      BY <1>2 DEF retry, rawVars
    <2> HIDE DEF f
    <2> QED
      BY <1>1, <2>1, <2>2, PassFlow
  <1>3. CASE timer_pending' = Append(timer_pending, e) /\ Return
    <2>1. TimerCmds' = TimerCmds \cup {c}
      BY <1>3, TimerAppend DEF IndInv, QueuePart
    <2>2. UNCHANGED <<cmdVars, hiredisVars, connVars, conn_, nconn, notified>>
      BY DEF retry
    <2>3. OthersStay(c)
      BY <2>1, <2>2 DEF OthersStay, connVars, cmdVars
    <2>4. /\ OnlyMoves(Len(stack) - 1, c) /\ Held[c] = {Len(stack)}
          /\ Len(stack) \notin 1 .. Len(stack) - 1 /\ Len(stack') = Len(stack) - 1
          /\ cmd_st[c] = "live" /\ c \notin TimerCmds
          /\ \A k \in ConnIds : c \notin Elems(reply_list_[k])
          /\ Calm(Len(stack) - 1)
      BY <1>1, <1>3, <2>2, <2>3, GiveUp
    <2>5. OncePart'
      BY <1>1, <2>1, <2>2, <2>4, MovedToTimer DEF IndInv, FlowInv, connVars, cmdVars
    <2>6. DistinctPart'
      <3>1. /\ Len(timer_pending) \in Nat /\ DOMAIN timer_pending = 1 .. Len(timer_pending)
            /\ DOMAIN timer_pending' = 1 .. Len(timer_pending) + 1
            /\ timer_pending'[Len(timer_pending) + 1] = e
            /\ \A i \in 1 .. Len(timer_pending) :
                 timer_pending'[i] = timer_pending[i] /\ timer_pending[i].cmd # c
        BY <1>3, <2>4 DEF IndInv, QueuePart, TimerCmds
      <3>2. \A i, j \in DOMAIN timer_pending' : timer_pending'[i].cmd = timer_pending'[j].cmd => i = j
        <4> SUFFICES ASSUME NEW i \in DOMAIN timer_pending', NEW j \in DOMAIN timer_pending',
                            timer_pending'[i].cmd = timer_pending'[j].cmd
                     PROVE  i = j
          OBVIOUS
        <4>1. i = Len(timer_pending) + 1 \/ i \in 1 .. Len(timer_pending)
          BY <3>1
        <4>2. j = Len(timer_pending) + 1 \/ j \in 1 .. Len(timer_pending)
          BY <3>1
        <4> QED
          BY <3>1, <4>1, <4>2 DEF FlowInv, DistinctPart
      <3> QED
        BY <2>2, <3>2 DEF FlowInv, DistinctPart, connVars
    <2>7. SameLinks /\ OkMeansAnswered' /\ \A k \in ConnIds : notified[k] \subseteq notified'[k]
      BY <2>2, AnsweredSame DEF SameLinks, connVars, cmdVars, FlowInv
    <2> QED
      BY <2>2, <2>4, <2>5, <2>6, <2>7, CalmFlow DEF connVars
  <1> QED
    BY <1>2, <1>3 DEF retry

LEMMA DestroyFlow == ASSUME IndInv, FlowInv, Destroy PROVE FlowInv'
  <1> DEFINE c == Top.c
  <1>1. stack # <<>> /\ Owner(Top, c) /\ c \in CmdIds
    BY TopOwns DEF Destroy, destroy, OwnerOps
  <1>2. UNCHANGED <<hiredisVars, connVars, rawVars>> /\ UNCHANGED <<calls, error_code_, got>>
    BY DEF Destroy, destroy
  <1>3. TimerCmds' = TimerCmds
    BY <1>2 DEF TimerCmds, rawVars
  <1>4. OthersStay(c) /\ cmd_st'[c] = "freed"
    BY <1>1, <1>2, <1>3 DEF OthersStay, Destroy, destroy, connVars, IndInv, CmdPart
  <1>5. /\ OnlyMoves(Len(stack) - 1, c) /\ Held[c] = {Len(stack)}
        /\ Len(stack) \notin 1 .. Len(stack) - 1 /\ Len(stack') = Len(stack) - 1
        /\ c \notin TimerCmds /\ \A k \in ConnIds : c \notin Elems(reply_list_[k])
        /\ Calm(Len(stack) - 1)
    BY <1>1, <1>2, <1>4, GiveUp DEF Destroy, destroy, rawVars
  <1>6. OncePart'
    BY <1>1, <1>2, <1>3, <1>4, <1>5, MovedAway DEF IndInv, FlowInv, connVars
  <1> QED
    BY <1>2, <1>5, <1>6, CalmSame, AnsweredSame DEF FlowInv

\* The frame of a loop stays where it is.
LEMMA KeepTop ==
  ASSUME StackPart, stack # <<>>, Keep(Len(stack) - 1), Pile'[Len(stack) - 1] = Top,
         Len(stack') >= Len(stack)
  PROVE  Keep(Len(stack))
  <1>1. Len(stack) \in Nat /\ Len(stack) >= 1 /\ Pile[Len(stack) - 1] = Top
    BY PileType
  <1>2. \A d \in 0 .. Len(stack) - 1 : d = Len(stack) - 1 \/ d \in 0 .. (Len(stack) - 1) - 1
    BY <1>1
  <1>3. /\ Len(stack') \in Nat
        /\ \A d \in 0 .. (Len(stack) - 1) - 1 : Pile'[d] = Pile[d]
    BY DEF Keep
  <1>4. \A d \in 0 .. Len(stack) - 1 : Pile'[d] = Pile[d]
    BY <1>1, <1>2, <1>3
  <1> QED
    BY <1>1, <1>3, <1>4 DEF Keep

\* The first command of the retry queue goes to the call above a loop.
LEMMA TimerToCall ==
  ASSUME IndInv, FlowInv, stack # <<>>, timer_pending # <<>>,
         timer_pending' = Tail(timer_pending), NEW c, c = Head(timer_pending).cmd,
         Keep(Len(stack)), Len(stack') > Len(stack), Owner(Pile'[Len(stack)], c),
         \A d \in Len(stack) + 1 .. Len(stack') - 1 : Pile'[d].op \notin OwnerOps,
         UNCHANGED <<cmd_st, reply_list_>>
  PROVE  OncePart' /\ DistinctPart'
  <1>1. /\ c \in TimerCmds /\ TimerCmds' = TimerCmds \ {c} /\ c \in CmdIds
        /\ \A i, j \in DOMAIN timer_pending' : timer_pending'[i].cmd = timer_pending'[j].cmd => i = j
    <2>1. timer_pending \in Seq([at : Nat, cmd : Created])
      BY DEF IndInv, QueuePart
    <2>2. Head(timer_pending) \in [at : Nat, cmd : Created]
      BY <2>1, TailType
    <2>3. c \in CmdIds
      BY <2>2 DEF Created
    <2> QED
      BY <2>1, <2>3, TimerTail DEF FlowInv
  <1>2. DistinctPart'
    BY <1>1 DEF FlowInv, DistinctPart
  <1>3. cmd_st[c] = "live" /\ Held[c] = {0} /\ \A k \in ConnIds : c \notin Elems(reply_list_[k])
    BY <1>1, HeldByTimer DEF IndInv, FlowInv
  <1>4. Len(stack) \in Nat /\ Len(stack') \in Nat
    BY PileType DEF IndInv, Keep
  <1>5. \A d \in Len(stack) .. Len(stack') - 1 : d # Len(stack) => Pile'[d].op \notin OwnerOps
    <2> SUFFICES ASSUME NEW d \in Len(stack) .. Len(stack') - 1, d # Len(stack)
                 PROVE  Pile'[d].op \notin OwnerOps
      OBVIOUS
    <2>1. d \in Len(stack) + 1 .. Len(stack') - 1
      BY <1>4
    <2> QED
      BY <2>1
  <1>6. OnlyMoves(Len(stack), c)
    <2>1. OthersStay(c)
      BY <1>1 DEF OthersStay
    <2>2. \A d \in Len(stack) .. Len(stack') - 1 : Pile'[d].op \in OwnerOps => Pile'[d].c = c
      BY <1>5 DEF Owner
    <2> QED
      BY <1>4, <2>1, <2>2 DEF OnlyMoves
  <1>7. Len(stack) \in Len(stack) .. Len(stack') - 1 /\ 0 \notin 1 .. Len(stack)
    BY <1>4
  <1>8. c \notin TimerCmds' /\ \A k \in ConnIds : c \notin Elems(reply_list_'[k])
    BY <1>1, <1>3
  <1>9. OncePart'
    BY <1>1, <1>3, <1>5, <1>6, <1>7, <1>8, MovedToCall DEF IndInv, FlowInv
  <1> QED
    BY <1>2, <1>9

LEMMA ResetFlow == ASSUME IndInv, FlowInv, reset PROVE FlowInv'
  <1>1. stack # <<>> /\ Top.op = "reset"
    BY DEF reset, At, Running
  <1>2. CASE timer_pending = <<>>
    BY <1>1, <1>2, QuietReturn DEF reset, QuietOps, CalmOps, OwnerOps, SameLinks, connVars
  <1>3. CASE timer_pending # <<>>
    <2> DEFINE c == Head(timer_pending).cmd
               f == F("destroy_cmd", c, 0, "none")
    <2>1. /\ timer_pending' = Tail(timer_pending) /\ cmd_call_reply(c, "TIMEOUT", "null")
          /\ Continue(CallbackFrames(c, "null") \o <<f, Top>>)
          /\ UNCHANGED <<cmd_st, hiredisVars, connVars, conn_, nconn, notified>>
      BY <1>3 DEF reset, CallBack
    <2>2. f.op \in CalmOps /\ f.k = 0 /\ Owner(f, c) /\ c \in CmdIds
      BY <1>3, TailType DEF F, CalmOps, OwnerOps, Owner, IndInv, QueuePart, Created
    <2> HIDE DEF f, c
    <2>3. /\ Keep(Len(stack)) /\ Pile'[Len(stack)] = f
          /\ \/ Len(stack') = Len(stack) + 1
             \/ Len(stack') = Len(stack) + 2 /\ Pile'[Len(stack) + 1] \in CallbackFrame(c, "null")
      BY <1>1, <2>1, PileCallbackLoop DEF IndInv
    <2>4. /\ Len(stack) \in Nat /\ Len(stack) >= 1 /\ Pile[Len(stack) - 1] = Top
          /\ nconn' = nconn /\ 0 <= nconn
      BY <1>1, <2>1, PileType, ConnNumber DEF IndInv, FlowInv
    <2>5. \A d \in Len(stack) + 1 .. Len(stack') - 1 : Pile'[d] \in CallbackFrame(c, "null")
      <3> SUFFICES ASSUME NEW d \in Len(stack) + 1 .. Len(stack') - 1
                   PROVE  Pile'[d] \in CallbackFrame(c, "null")
        OBVIOUS
      <3>1. d = Len(stack) + 1 /\ Len(stack') = Len(stack) + 2
        BY <2>3, <2>4
      <3> QED
        BY <2>3, <2>4, <3>1
    <2>6. \A d \in Len(stack) .. Len(stack') - 1 : d = Len(stack) \/ d \in Len(stack) + 1 .. Len(stack') - 1
      BY <2>3, <2>4
    <2>7. \A g \in CallbackFrame(c, "null") : g.op \in CalmOps /\ g.op \notin OwnerOps /\ g.k = 0
      BY DEF CallbackFrame, F, CalmOps, OwnerOps
    <2>8. Calm(Len(stack))
      BY <1>1, <2>2, <2>3, <2>4, <2>5, <2>6, <2>7 DEF Calm, Deliver
    <2>9. OncePart' /\ DistinctPart'
      <3>1. Len(stack') > Len(stack) /\ Owner(Pile'[Len(stack)], c)
        BY <2>2, <2>3, <2>4
      <3> QED
        BY <1>1, <1>3, <2>1, <2>3, <2>5, <2>7, <3>1, TimerToCall DEF connVars, c
    <2>10. OkMeansAnswered'
      BY <2>1, <2>2, AnsweredCalled DEF IndInv, FlowInv
    <2>11. SameLinks /\ \A k \in ConnIds : notified[k] \subseteq notified'[k]
      BY <2>1 DEF SameLinks, connVars
    <2> QED
      BY <2>1, <2>8, <2>9, <2>10, <2>11, CalmFlow DEF connVars
  <1> QED
    BY <1>2, <1>3

LEMMA UserProcFlow == ASSUME IndInv, FlowInv, NEW t, UserProc(t) PROVE FlowInv'
  <1> DEFINE f == F("proc", 0, 0, "none")
  <1>1. stack = <<>> /\ Call(<<f>>)
    BY DEF UserProc, InLoop
  <1>2. f.op = "proc" /\ f.k = 0
    BY DEF F
  <1> HIDE DEF f
  <1>3. Keep(Len(stack)) /\ Len(stack') = Len(stack) + 1 /\ Pile'[Len(stack)] = f /\ Len(stack) = 0
    BY <1>1, PileCallOne, PileType DEF IndInv
  <1>4. \A d \in 0 .. Len(stack') - 1 : d = 0
    BY <1>3
  <1>5. nconn' = nconn /\ 0 <= nconn
    BY ConnNumber DEF UserProc, IndInv, FlowInv
  <1>6. Calm(0)
    BY <1>2, <1>3, <1>4, <1>5 DEF Calm
  <1>7. \A d \in 0 .. Len(stack') - 1 : Pile'[d].op \notin OwnerOps
    BY <1>2, <1>3, <1>4 DEF OwnerOps
  <1> QED
    BY <1>3, <1>6, <1>7, QuietFlow DEF UserProc, SameLinks, connVars

LEMMA ProcFlow == ASSUME IndInv, FlowInv, proc PROVE FlowInv'
  <1>1. stack # <<>> /\ Top.op = "proc"
    BY DEF proc, At, Running
  <1>2. Len(stack) = 1 /\ Pile[0] = Top
    <2>1. Len(stack) \in Nat /\ Len(stack) >= 1 /\ Pile[Len(stack) - 1] = Top
      BY <1>1, PileType DEF IndInv
    <2>2. Len(stack) - 1 \in 0 .. Len(stack) - 1
      BY <2>1
    <2>3. Len(stack) - 1 = 0
      BY <1>1, <2>1, <2>2 DEF FlowInv, ShapePart, ShapeAt, BottomOps
    <2>4. Len(stack) = 1
      BY <2>1, <2>3
    <2> QED
      BY <2>1, <2>4
  <1>3. nconn' = nconn /\ 0 <= nconn /\ SameLinks /\ OkMeansAnswered'
        /\ \A k \in ConnIds : notified[k] \subseteq notified'[k]
    BY ConnNumber, AnsweredSame DEF proc, IndInv, FlowInv, SameLinks, connVars, cmdVars
  <1>4. CASE timer_pending # <<>> /\ Head(timer_pending).at <= now
    <2> DEFINE c == Head(timer_pending).cmd
               f == F("exec", c, 0, "none")
    <2>1. timer_pending' = Tail(timer_pending) /\ Continue(<<f, Top>>)
      BY <1>4 DEF proc
    <2>2. f.op \in CalmOps /\ f.k = 0 /\ Owner(f, c)
      BY DEF F, CalmOps, OwnerOps, Owner
    <2> HIDE DEF f, c
    <2>3. Keep(Len(stack) - 1) /\ Len(stack') = Len(stack) + 1 /\ Pile'[Len(stack)] = f /\ Pile'[Len(stack) - 1] = Top
      BY <1>1, <2>1, PileContinueTwo DEF IndInv
    <2>4. Keep(Len(stack))
      BY <1>1, <1>2, <2>3, KeepTop DEF IndInv
    <2>5. \A d \in Len(stack) .. Len(stack') - 1 : d = Len(stack)
      BY <1>2, <2>3
    <2>6. Calm(Len(stack))
      BY <1>1, <1>2, <1>3, <2>2, <2>3, <2>4, <2>5 DEF Calm, Deliver
    <2>7. OncePart' /\ DistinctPart'
      <3>1. Len(stack') > Len(stack) /\ Owner(Pile'[Len(stack)], c)
            /\ \A d \in Len(stack) + 1 .. Len(stack') - 1 : Pile'[d].op \notin OwnerOps
        BY <1>2, <2>2, <2>3
      <3> QED
        BY <1>1, <1>4, <2>1, <2>4, <3>1, TimerToCall DEF proc, connVars, cmdVars, c
    <2> QED
      BY <1>3, <2>6, <2>7, CalmFlow DEF proc, connVars
  <1>5. CASE ~(timer_pending # <<>> /\ Head(timer_pending).at <= now)
    <2> DEFINE f == F("proc_conn", 0, 0, "none")
    <2>1. UNCHANGED timer_pending /\ Continue(<<f>>)
      BY <1>5 DEF proc
    <2>2. f.op = "proc_conn" /\ f.k = 0
      BY DEF F
    <2> HIDE DEF f
    <2>3. Keep(Len(stack) - 1) /\ Len(stack') = Len(stack) /\ Pile'[Len(stack) - 1] = f
      BY <1>1, <2>1, PileContinueOne DEF IndInv
    <2>4. \A d \in 0 .. Len(stack') - 1 : d = 0
      BY <1>2, <2>3
    <2>5. Calm(0)
      BY <1>1, <1>2, <1>3, <2>2, <2>3, <2>4 DEF Calm
    <2>6. \A d \in 0 .. Len(stack') - 1 : Pile'[d].op \notin OwnerOps
      BY <1>2, <2>2, <2>3, <2>4 DEF OwnerOps
    <2> QED
      BY <1>1, <1>3, <2>1, <2>5, <2>6, QuietFlow DEF proc, connVars, OwnerOps
  <1> QED
    BY <1>4, <1>5

LEMMA UserExecFlow == ASSUME IndInv, FlowInv, UserExec PROVE FlowInv'
  <1> DEFINE c == ncmd + 1
  <1>1. c \in CmdIds /\ cmd_st[c] = "none"
    BY BoundsAssumption DEF UserExec, IndInv, RawPart, FreshPart, CmdIds, BoundsAssumption
  <1>2. \E op \in {"exec", "destroy_cmd"} : Call(<<F(op, c, 0, "none")>>)
    BY DEF UserExec
  <1>3. create(c) /\ InUser
        /\ UNCHANGED <<hiredisVars, connVars, conn_, timer_pending, nconn, notified>>
    BY DEF UserExec
  <1> HIDE DEF c
  <1>4. PICK op \in {"exec", "destroy_cmd"} : Call(<<F(op, c, 0, "none")>>)
    BY <1>2
  <1> DEFINE f == F(op, c, 0, "none")
  <1>5. f.op \in CalmOps /\ f.k = 0 /\ Owner(f, c) /\ Call(<<f>>)
    BY <1>4 DEF F, CalmOps, OwnerOps, Owner
  <1> HIDE DEF f
  <1>6. Keep(Len(stack)) /\ Len(stack') = Len(stack) + 1 /\ Pile'[Len(stack)] = f /\ Len(stack) \in Nat
    BY <1>5, PileCallOne, PileType DEF IndInv
  <1>7. \A d \in Len(stack) .. Len(stack') - 1 : d = Len(stack)
    BY <1>6
  <1>8. nconn' = nconn /\ 0 <= nconn /\ SameLinks /\ OkMeansAnswered' /\ DistinctPart'
        /\ \A k \in ConnIds : notified[k] \subseteq notified'[k]
    BY <1>1, <1>3, ConnNumber, AnsweredCreated, DistinctSame DEF IndInv, FlowInv, SameLinks, connVars
  <1>9. Calm(Len(stack))
    <2>1. Len(stack) > 0 => Pile[Len(stack) - 1].op \notin Deliver
      BY <1>3, UserTop DEF IndInv
    <2> QED
      BY <1>5, <1>6, <1>7, <1>8, <2>1 DEF Calm
  <1>10. OncePart'
    <2>1. Held[c] = {} /\ c \notin TimerCmds /\ \A k \in ConnIds : c \notin Elems(reply_list_[k])
      BY <1>1, HeldNowhere DEF IndInv, FlowInv
    <2>2. TimerCmds' = TimerCmds /\ cmd_st'[c] = "live" /\ reply_list_' = reply_list_
      BY <1>1, <1>3 DEF TimerCmds, create, IndInv, CmdPart, connVars
    <2>3. OthersStay(c)
      BY <1>3, <2>2 DEF OthersStay, connVars, create, IndInv, CmdPart
    <2>4. OnlyMoves(Len(stack), c)
      BY <1>5, <1>6, <1>7, <2>3 DEF OnlyMoves, Owner
    <2>5. Len(stack) \in Len(stack) .. Len(stack') - 1 /\ 0 \notin 1 .. Len(stack) /\ Held[c] \subseteq {0}
      BY <1>6, <2>1
    <2>6. \A d \in Len(stack) .. Len(stack') - 1 : d # Len(stack) => Pile'[d].op \notin OwnerOps
      BY <1>7
    <2> QED
      BY <1>1, <1>5, <1>6, <2>1, <2>2, <2>4, <2>5, <2>6, MovedToCall DEF IndInv, FlowInv
  <1> QED
    BY <1>3, <1>8, <1>9, <1>10, CalmFlow DEF connVars

-----------------------------------------------------------------------------
(* Steps of hiredis                                                        *)

HiredisSteps == HiredisOps \cup {"redisAsyncDisconnect", "on_connected", "on_disconnected", "on_reply"}

\* A step of hiredis on context k, which exists.  It does not touch commands
\* and connection objects, so only what its frames say has to be shown.
LEMMA HiredisFlow ==
  ASSUME IndInv, FlowInv, NEW h, Keep(h), Len(stack) <= h + 1, NEW k \in ConnIds, k <= nconn,
         Len(stack) # h => Top.op \in HiredisSteps /\ Top.k = k,
         stack # <<>> => Top.op \notin Deliver,
         \A d \in h .. Len(stack') - 1 :
           Pile'[d].op \in HiredisSteps /\ Pile'[d].k = k /\ ShapeAt(d)',
         UNCHANGED <<cmdVars, connVars, rawVars>>,
         \A j \in ConnIds \ {k} :
           /\ ctx_st'[j] = ctx_st[j] /\ disconnecting'[j] = disconnecting[j]
           /\ in_callback'[j] = in_callback[j] /\ ctx_err'[j] = ctx_err[j]
           /\ replies'[j] = replies[j],
         ctx_st'[k] # "none", disconnecting[k] => disconnecting'[k],
         ctx_err[k] # "OK" => ctx_err'[k] # "OK", replies[k] = <<>> => replies'[k] = <<>>,
         in_callback'[k] =>
           \E d \in 0 .. Len(stack') - 1 : Pile'[d].op \in HiredisOps /\ Pile'[d].k = k,
         MatchPart'
  PROVE  FlowInv'
  <1>1. ShapePart'
    BY ShapeKept DEF IndInv, FlowInv
  <1>2. CallbackPart'
    <2> SUFFICES ASSUME NEW j \in ConnIds, in_callback'[j]
                 PROVE  \E d \in 0 .. Len(stack') - 1 : Pile'[d].op \in HiredisOps /\ Pile'[d].k = j
      BY DEF CallbackPart
    <2>1. CASE j = k
      BY <2>1
    <2>2. CASE j # k
      <3>1. PICK d \in 0 .. Len(stack) - 1 : Pile[d].op \in HiredisOps /\ Pile[d].k = j
        BY <2>2 DEF FlowInv, CallbackPart
      <3>2. d < h
        BY <2>2, <3>1, KeptFrames DEF IndInv
      <3> QED
        BY <3>1, <3>2, KeptFrames DEF IndInv
    <2> QED
      BY <2>1, <2>2
  <1>3. ConnsPart'
    <2>1. ASSUME NEW d \in 0 .. Len(stack') - 1 PROVE Pile'[d].k <= nconn'
      BY KeptFrames DEF IndInv, FlowInv, ConnsPart, rawVars
    <2>2. ~(k > nconn) /\ nconn' = nconn
      BY ConnNumber DEF IndInv, FlowInv, ConnIds, rawVars
    <2>3. ASSUME NEW j \in ConnIds, j # k
          PROVE  /\ j > nconn => /\ replies'[j] = <<>> /\ ~disconnecting'[j] /\ ~in_callback'[j]
                                 /\ ctx_st'[j] = "none"
                 /\ ctx_st'[j] = "none" => j > nconn
      BY <2>3 DEF FlowInv, ConnsPart
    <2>4. ASSUME NEW j \in ConnIds
          PROVE  /\ j > nconn => /\ replies'[j] = <<>> /\ ~disconnecting'[j] /\ ~in_callback'[j]
                                 /\ ctx_st'[j] = "none"
                 /\ ctx_st'[j] = "none" => j > nconn
      BY <2>2, <2>3
    <2> QED
      BY <2>1, <2>2, <2>4 DEF FlowInv, ConnsPart, connVars, rawVars
  <1>4. ReleasePart'
    BY ReleaseKept DEF IndInv, FlowInv, HiredisSteps, HiredisOps, ReleaseOps, SameLinks,
       connVars, rawVars
  <1>5. OncePart'
    BY QuietOnce DEF IndInv, FlowInv, HiredisSteps, HiredisOps, OwnerOps, cmdVars, connVars, rawVars
  <1>6. DistinctPart' /\ OkMeansAnswered'
    BY DistinctSame, AnsweredSame DEF FlowInv, cmdVars, connVars, rawVars
  <1> QED
    BY <1>1, <1>2, <1>3, <1>4, <1>5, <1>6 DEF FlowInv

\* The context the running call belongs to.
LEMMA TopContext ==
  ASSUME IndInv, FlowInv, NEW op \in ConnOps, At(op)
  PROVE  /\ stack # <<>> /\ Top.op = op /\ Top.k \in ConnIds /\ Top.k <= nconn
         /\ ctx_st[Top.k] # "none" /\ Len(stack) \in Nat /\ Len(stack) >= 1
         /\ Pile[Len(stack) - 1] = Top
  <1>1. stack # <<>> /\ Top \in GoodFrame /\ Top.op = op /\ Top.k \in ConnIds
    BY TopGood DEF IndInv, GoodFrame, Good
  <1>2. Len(stack) \in Nat /\ Len(stack) >= 1 /\ Pile[Len(stack) - 1] = Top
    BY <1>1, PileType DEF IndInv
  <1>3. Len(stack) - 1 \in 0 .. Len(stack) - 1
    BY <1>2
  <1>4. Top.k <= nconn
    BY <1>2, <1>3 DEF FlowInv, ConnsPart
  <1>5. ctx_st[Top.k] # "none"
    BY <1>1, <1>4, ConnNumber DEF IndInv, FlowInv, ConnsPart, ConnIds
  <1> QED
    BY <1>1, <1>2, <1>4, <1>5

\* A context that exists.
LEMMA ContextNumber ==
  ASSUME IndInv, FlowInv, NEW k \in ConnIds, ctx_st[k] # "none"
  PROVE  k <= nconn
  BY ConnNumber DEF IndInv, FlowInv, ConnsPart, ConnIds

\* After a callback: the context is freed if that was asked for.
LEMMA EndFlow ==
  ASSUME IndInv, FlowInv, stack # <<>>, NEW k \in ConnIds, k <= nconn, ctx_st[k] # "none",
         Top.op \in {"h_connect_end", "h_reply_end", "redisAsyncDisconnect"}, Top.k = k,
         Continue(<<>>) \/ (Continue(<<F("h_free", 0, k, "none")>>) /\ disconnecting'[k] /\ replies[k] = <<>>),
         \A j \in ConnIds \ {k} :
           disconnecting'[j] = disconnecting[j] /\ in_callback'[j] = in_callback[j],
         disconnecting[k] => disconnecting'[k],
         IF Top.op = "redisAsyncDisconnect" THEN UNCHANGED in_callback ELSE ~in_callback'[k],
         UNCHANGED <<ctx_st, ctx_err, replies, cmdVars, connVars, rawVars>>
  PROVE  FlowInv'
  <1> DEFINE f == F("h_free", 0, k, "none")
  <1>1. f.op = "h_free" /\ f.k = k
    BY DEF F
  <1>2. Len(stack) \in Nat /\ Len(stack) >= 1 /\ Pile[Len(stack) - 1] = Top
    BY PileType DEF IndInv
  <1>3. Continue(<<>>) => Return
    BY DEF Continue, Return, IndInv, StackPart, Rest
  <1>4. Return \/ (Continue(<<f>>) /\ disconnecting'[k] /\ replies[k] = <<>>)
    BY <1>3
  <1> HIDE DEF f
  <1>5. /\ Keep(Len(stack) - 1)
        /\ \/ Len(stack') = Len(stack) - 1
           \/ /\ Len(stack') = Len(stack) /\ Pile'[Len(stack) - 1] = f
              /\ disconnecting'[k] /\ replies[k] = <<>>
    BY <1>4, PileReturn, PileContinueOne DEF IndInv
  <1>6. ASSUME NEW d \in Len(stack) - 1 .. Len(stack') - 1
        PROVE  Pile'[d] = f /\ disconnecting'[k] /\ replies[k] = <<>>
    <2>1. d = Len(stack) - 1 /\ Len(stack') = Len(stack)
      BY <1>2, <1>5
    <2> QED
      BY <1>2, <1>5, <2>1
  <1>7. \A d \in Len(stack) - 1 .. Len(stack') - 1 :
          /\ Pile'[d].op \in HiredisSteps /\ Pile'[d].k = k /\ ShapeAt(d)'
          /\ Pile'[d].op \notin Deliver
    BY <1>1, <1>6 DEF HiredisSteps, HiredisOps, ShapeAt, BottomOps, Deliver
  <1>8. ASSUME in_callback'[k]
        PROVE  \E d \in 0 .. Len(stack') - 1 : Pile'[d].op \in HiredisOps /\ Pile'[d].k = k
    <2>1. Top.op = "redisAsyncDisconnect" /\ in_callback[k]
      BY <1>8
    <2>2. PICK d \in 0 .. Len(stack) - 1 : Pile[d].op \in HiredisOps /\ Pile[d].k = k
      BY <2>1 DEF FlowInv, CallbackPart
    <2>3. d < Len(stack) - 1
      BY <1>2, <2>1, <2>2 DEF HiredisOps
    <2> QED
      BY <1>2, <1>5, <2>2, <2>3, KeptFrames DEF IndInv
  <1>9. Top.op \notin Deliver /\ Top.op \in HiredisSteps /\ Len(stack) <= (Len(stack) - 1) + 1
    BY <1>2 DEF Deliver, HiredisSteps, HiredisOps
  <1>10. MatchPart'
    BY <1>5, <1>7, <1>9, MatchKept DEF IndInv, FlowInv, connVars
  <1> QED
    BY <1>5, <1>7, <1>8, <1>9, <1>10, HiredisFlow

LEMMA DisconnectFlow == ASSUME IndInv, FlowInv, ByHiredis(redisAsyncDisconnect) PROVE FlowInv'
  <1> DEFINE k == Top.k
  <1>1. stack # <<>> /\ Top.op = "redisAsyncDisconnect" /\ k \in ConnIds /\ k <= nconn /\ ctx_st[k] # "none"
    BY TopContext DEF ByHiredis, redisAsyncDisconnect, ConnOps
  <1>2. disconnecting' = [disconnecting EXCEPT ![k] = TRUE]
    BY DEF ByHiredis, redisAsyncDisconnect
  <1>3. disconnecting'[k] /\ \A j \in ConnIds \ {k} : disconnecting'[j] = disconnecting[j]
    BY <1>1, <1>2 DEF IndInv, ContextPart
  <1>4. /\ Continue(<<>>) \/ (Continue(<<F("h_free", 0, k, "none")>>) /\ replies[k] = <<>>)
        /\ UNCHANGED <<ctx_st, in_callback, ctx_err, replies, cmdVars, connVars, rawVars>>
    BY DEF ByHiredis, redisAsyncDisconnect
  <1> HIDE DEF k
  <1> QED
    BY <1>1, <1>3, <1>4, EndFlow DEF k

LEMMA CallbackEndFlow ==
  ASSUME IndInv, FlowInv, ByHiredis(ConnectEnd) \/ ByHiredis(ReplyEnd)
  PROVE  FlowInv'
  <1> DEFINE k == Top.k
  <1>1. stack # <<>> /\ Top.op \in {"h_connect_end", "h_reply_end"} /\ k \in ConnIds /\ k <= nconn
        /\ ctx_st[k] # "none"
    BY TopContext DEF ByHiredis, ConnectEnd, ReplyEnd, ConnOps
  <1>2. in_callback' = [in_callback EXCEPT ![k] = FALSE]
    BY DEF ByHiredis, ConnectEnd, ReplyEnd
  <1>3. ~in_callback'[k] /\ \A j \in ConnIds \ {k} : in_callback'[j] = in_callback[j]
    BY <1>1, <1>2 DEF IndInv, ContextPart
  <1>4. /\ \/ Continue(<<>>)
           \/ Continue(<<F("h_free", 0, k, "none")>>) /\ disconnecting[k] /\ replies[k] = <<>>
        /\ UNCHANGED <<ctx_st, disconnecting, ctx_err, replies, cmdVars, connVars, rawVars>>
    BY DEF ByHiredis, ConnectEnd, ReplyEnd
  <1> HIDE DEF k
  <1> QED
    BY <1>1, <1>3, <1>4, EndFlow DEF k

\* The connection attempt has failed: the context is freed.
LEMMA ConnectFailedEndFlow == ASSUME IndInv, FlowInv, ByHiredis(ConnectFailedEnd) PROVE FlowInv'
  <1> DEFINE k == Top.k
             f == F("h_free", 0, k, "none")
  <1>1. /\ stack # <<>> /\ Top.op = "h_connect_failed" /\ k \in ConnIds /\ k <= nconn
        /\ ctx_st[k] # "none" /\ Len(stack) \in Nat /\ Len(stack) >= 1 /\ Pile[Len(stack) - 1] = Top
    BY TopContext DEF ByHiredis, ConnectFailedEnd, ConnOps
  <1>2. Len(stack) = 1 /\ ctx_err[k] # "OK"
    <2>1. Len(stack) - 1 \in 0 .. Len(stack) - 1
      BY <1>1
    <2>2. Len(stack) - 1 = 0 /\ ctx_err[k] # "OK"
      BY <1>1, <2>1 DEF FlowInv, ShapePart, ShapeAt, BottomOps
    <2> QED
      BY <1>1, <2>2
  <1>3. /\ Continue(<<f>>) /\ in_callback' = [in_callback EXCEPT ![k] = FALSE]
        /\ disconnecting' = [disconnecting EXCEPT ![k] = @ \/ ErrSetsDisconnecting]
        /\ UNCHANGED <<ctx_st, ctx_err, replies, cmdVars, connVars, rawVars>>
    BY DEF ByHiredis, ConnectFailedEnd
  <1>4. /\ ~in_callback'[k] /\ (disconnecting[k] => disconnecting'[k])
        /\ \A j \in ConnIds \ {k} :
             in_callback'[j] = in_callback[j] /\ disconnecting'[j] = disconnecting[j]
    BY <1>1, <1>3 DEF IndInv, ContextPart
  <1>5. f.op = "h_free" /\ f.k = k
    BY DEF F
  <1> HIDE DEF f
  <1>6. Keep(Len(stack) - 1) /\ Len(stack') = Len(stack) /\ Pile'[Len(stack) - 1] = f
    BY <1>1, <1>3, PileContinueOne DEF IndInv
  <1> HIDE DEF k
  <1>7. \A d \in 0 .. Len(stack') - 1 : d = 0 /\ Pile'[d] = f
    BY <1>2, <1>6
  <1>8. \A d \in 0 .. Len(stack') - 1 :
          Pile'[d].op \in HiredisSteps /\ Pile'[d].k = k /\ ShapeAt(d)' /\ Pile'[d].op \notin Deliver
    BY <1>2, <1>3, <1>5, <1>7 DEF HiredisSteps, HiredisOps, ShapeAt, BottomOps, Deliver
  <1>9. Top.op \notin Deliver /\ Top.op \in HiredisSteps /\ Keep(0) /\ Len(stack) <= 0 + 1
    BY <1>1, <1>2, <1>6 DEF Deliver, HiredisSteps, HiredisOps
  <1>10. MatchPart'
    BY <1>3, <1>8, <1>9, MatchKept DEF IndInv, FlowInv, connVars
  <1>11. ctx_st'[k] # "none" /\ Top.k = k
    BY <1>1, <1>3 DEF k
  <1>12. /\ \A j \in ConnIds \ {k} :
              /\ ctx_st'[j] = ctx_st[j] /\ disconnecting'[j] = disconnecting[j]
              /\ in_callback'[j] = in_callback[j] /\ ctx_err'[j] = ctx_err[j]
              /\ replies'[j] = replies[j]
         /\ (ctx_err[k] # "OK" => ctx_err'[k] # "OK") /\ (replies[k] = <<>> => replies'[k] = <<>>)
         /\ UNCHANGED <<cmdVars, connVars, rawVars>>
    BY <1>3, <1>4
  <1> QED
    BY <1>1, <1>8, <1>9, <1>10, <1>11, <1>4, <1>12, HiredisFlow

\* The connect callback is called.
LEMMA ConnectOutcomeFlow ==
  ASSUME IndInv, FlowInv, NEW k \in ConnIds, ByHiredis(ConnectDone(k)) \/ ByHiredis(ConnectFailed(k))
  PROVE  FlowInv'
  <1>1. k <= nconn /\ stack = <<>>
    BY ContextNumber DEF ByHiredis, ConnectDone, ConnectFailed, InLoop
  <1>2. /\ in_callback'[k] /\ UNCHANGED <<disconnecting, replies, cmdVars, connVars, rawVars>>
        /\ \A j \in ConnIds \ {k} :
             /\ ctx_st'[j] = ctx_st[j] /\ disconnecting'[j] = disconnecting[j]
             /\ in_callback'[j] = in_callback[j] /\ ctx_err'[j] = ctx_err[j]
             /\ replies'[j] = replies[j]
        /\ ctx_st'[k] # "none" /\ (ctx_err[k] # "OK" => ctx_err'[k] # "OK")
    BY DEF ByHiredis, ConnectDone, ConnectFailed, IndInv, ContextPart
  <1>3. \E a \in {"OK", "IO"} : \E op \in {"h_connect_end", "h_connect_failed"} :
          /\ Call(<<F("on_connected", 0, k, a), F(op, 0, k, "none")>>)
          /\ op = "h_connect_failed" => ctx_err'[k] # "OK"
    BY DEF ByHiredis, ConnectDone, ConnectFailed, IndInv, ContextPart
  <1>4. PICK a \in {"OK", "IO"}, op \in {"h_connect_end", "h_connect_failed"} :
          /\ Call(<<F("on_connected", 0, k, a), F(op, 0, k, "none")>>)
          /\ op = "h_connect_failed" => ctx_err'[k] # "OK"
    BY <1>3
  <1> DEFINE f == F("on_connected", 0, k, a)
             g == F(op, 0, k, "none")
  <1>5. f.op = "on_connected" /\ f.k = k /\ g.op = op /\ g.k = k /\ Call(<<f, g>>)
    BY <1>4 DEF F
  <1> HIDE DEF f, g
  <1>6. /\ Keep(Len(stack)) /\ Len(stack') = Len(stack) + 2
        /\ Pile'[Len(stack) + 1] = f /\ Pile'[Len(stack)] = g /\ Len(stack) = 0
    BY <1>1, <1>5, PileCallTwo, PileType DEF IndInv
  <1>7. \A d \in 0 .. Len(stack') - 1 : (d = 0 /\ Pile'[d] = g) \/ (d = 1 /\ Pile'[d] = f)
    BY <1>6
  <1>8. \A d \in 0 .. Len(stack') - 1 :
          Pile'[d].op \in HiredisSteps /\ Pile'[d].k = k /\ ShapeAt(d)' /\ Pile'[d].op \notin Deliver
    BY <1>4, <1>5, <1>7 DEF HiredisSteps, HiredisOps, ShapeAt, BottomOps, Deliver
  <1>9. \E d \in 0 .. Len(stack') - 1 : Pile'[d].op \in HiredisOps /\ Pile'[d].k = k
    <2>1. 0 \in 0 .. Len(stack') - 1 /\ Pile'[0].op \in HiredisOps /\ Pile'[0].k = k
      BY <1>5, <1>6 DEF HiredisOps
    <2> QED
      BY <2>1
  <1>10. MatchPart'
    BY <1>1, <1>2, <1>6, <1>8, MatchKept DEF IndInv, FlowInv, connVars
  <1> QED
    BY <1>1, <1>2, <1>6, <1>8, <1>9, <1>10, HiredisFlow

LEMMA ConnectionLostFlow ==
  ASSUME IndInv, FlowInv, NEW k \in ConnIds, NEW e \in {"IO", "OTHER"}, ByHiredis(ConnectionLost(k, e))
  PROVE  FlowInv'
  <1> DEFINE f == F("h_free", 0, k, "none")
  <1>1. k <= nconn /\ stack = <<>>
    BY ContextNumber DEF ByHiredis, ConnectionLost, InLoop
  <1>2. /\ ctx_err'[k] # "OK" /\ (disconnecting[k] => disconnecting'[k])
        /\ \A j \in ConnIds \ {k} : disconnecting'[j] = disconnecting[j] /\ ctx_err'[j] = ctx_err[j]
        /\ UNCHANGED <<ctx_st, in_callback, replies, cmdVars, connVars, rawVars>>
        /\ ctx_st[k] # "none" /\ Call(<<f>>)
    BY DEF ByHiredis, ConnectionLost, IndInv, ContextPart
  <1>3. f.op = "h_free" /\ f.k = k
    BY DEF F
  <1> HIDE DEF f
  <1>4. Keep(Len(stack)) /\ Len(stack') = Len(stack) + 1 /\ Pile'[Len(stack)] = f /\ Len(stack) = 0
    BY <1>1, <1>2, PileCallOne, PileType DEF IndInv
  <1>5. \A d \in 0 .. Len(stack') - 1 : d = 0 /\ Pile'[d] = f
    BY <1>4
  <1>6. \A d \in 0 .. Len(stack') - 1 :
          Pile'[d].op \in HiredisSteps /\ Pile'[d].k = k /\ ShapeAt(d)' /\ Pile'[d].op \notin Deliver
    BY <1>2, <1>3, <1>5 DEF HiredisSteps, HiredisOps, ShapeAt, BottomOps, Deliver
  <1>7. \E d \in 0 .. Len(stack') - 1 : Pile'[d].op \in HiredisOps /\ Pile'[d].k = k
    <2>1. 0 \in 0 .. Len(stack') - 1 /\ Pile'[0].op \in HiredisOps /\ Pile'[0].k = k
      BY <1>3, <1>4 DEF HiredisOps
    <2> QED
      BY <2>1
  <1>8. MatchPart'
    BY <1>1, <1>2, <1>4, <1>6, MatchKept DEF IndInv, FlowInv, connVars
  <1> QED
    BY <1>1, <1>2, <1>4, <1>6, <1>7, <1>8, HiredisFlow

LEMMA FreeContextEndFlow == ASSUME IndInv, FlowInv, ByHiredis(FreeContextEnd) PROVE FlowInv'
  <1> DEFINE k == Top.k
  <1>1. /\ stack # <<>> /\ Top.op = "h_free_end" /\ k \in ConnIds /\ k <= nconn
        /\ Len(stack) \in Nat /\ Len(stack) >= 1
    BY TopContext DEF ByHiredis, FreeContextEnd, ConnOps
  <1>2. /\ ctx_st'[k] # "none" /\ ~in_callback'[k] /\ Return
        /\ \A j \in ConnIds \ {k} : ctx_st'[j] = ctx_st[j] /\ in_callback'[j] = in_callback[j]
        /\ UNCHANGED <<disconnecting, ctx_err, replies, cmdVars, connVars, rawVars>>
    BY <1>1 DEF ByHiredis, FreeContextEnd, IndInv, ContextPart
  <1>3. Keep(Len(stack) - 1) /\ Len(stack') = Len(stack) - 1
    BY <1>1, <1>2, PileReturn DEF IndInv
  <1>4. \A d \in Len(stack) - 1 .. Len(stack') - 1 : FALSE
    BY <1>1, <1>3
  <1>5. Top.op \notin Deliver /\ Top.op \in HiredisSteps /\ Len(stack) <= (Len(stack) - 1) + 1 /\ Top.k = k
    BY <1>1 DEF Deliver, HiredisSteps, HiredisOps
  <1> HIDE DEF k
  <1>6. MatchPart'
    BY <1>2, <1>3, <1>4, <1>5, MatchKept DEF IndInv, FlowInv, connVars
  <1> QED
    BY <1>1, <1>2, <1>3, <1>4, <1>5, <1>6, HiredisFlow

\* A reply is taken from the queue of k and delivered: the list of k is then
\* the queue after that command.
LEMMA MatchDelivery ==
  ASSUME IndInv, FlowInv, NEW k \in ConnIds, replies[k] # <<>>,
         replies' = [replies EXCEPT ![k] = Tail(@)], UNCHANGED <<reply_list_, conn_status_>>,
         stack # <<>> => Top.op \notin Deliver,
         Len(stack') = 2, Pile'[1].op = "on_reply", Pile'[1].k = k, Pile'[1].c = Head(replies[k]).c
  PROVE  MatchPart'
  <1>1. \A j \in ConnIds : ~Delivers(j)
    <2>1. StackPart /\ ShapePart
      BY DEF IndInv, FlowInv
    <2> SUFFICES ASSUME Len(stack) = 2, Pile[1].op \in Deliver PROVE FALSE
      BY DEF Delivers
    <2>2. 1 \in 0 .. Len(stack) - 1
      OBVIOUS
    <2> QED
      BY <2>1, <2>2, DeliverIsTop
  <1>2. \A j \in ConnIds : Delivers(j)' <=> j = k
    BY DEF Delivers, Deliver
  <1> SUFFICES ASSUME NEW j \in ConnIds, conn_status_[j] # "DISCONNECTED"
               PROVE  IF Delivers(j)' THEN Shifted(j, 1)' /\ reply_list_'[j][1] = Pile'[1].c
                                      ELSE Shifted(j, 0)'
    BY DEF MatchPart
  <1>3. Shifted(j, 0)
    BY <1>1 DEF FlowInv, MatchPart
  <1>4. CASE j # k
    <2>1. replies'[j] = replies[j]
      BY <1>4 DEF IndInv, QueuePart
    <2> QED
      BY <1>2, <1>3, <1>4, <2>1 DEF Shifted
  <1>5. CASE j = k
    <2> DEFINE q == replies[k]
               l == reply_list_[k]
    <2>1. replies'[k] = Tail(q) /\ q \in Seq(Entries) /\ l \in Seq(Created) /\ q # <<>>
      BY DEF IndInv, QueuePart
    <2>2. Len(l) = Len(q) /\ \A i \in 1 .. Len(q) : l[i] = q[i].c
      BY <1>3, <1>5, <2>1 DEF Shifted
    <2>3. /\ Len(q) \in Nat /\ Len(q) >= 1 /\ Head(q) = q[1] /\ Len(Tail(q)) = Len(q) - 1
          /\ \A i \in 1 .. Len(q) - 1 : Tail(q)[i] = q[i + 1]
      BY <2>1
    <2> HIDE DEF q, l
    <2>4. Len(l) = 1 + Len(Tail(q)) /\ l[1] = Head(q).c
      BY <2>2, <2>3
    <2>5. \A i \in 1 .. Len(Tail(q)) : l[1 + i] = Tail(q)[i].c
      BY <2>2, <2>3
    <2>6. Shifted(k, 1)' /\ reply_list_'[k][1] = Pile'[1].c
      BY <2>1, <2>4, <2>5 DEF Shifted, q, l
    <2> QED
      BY <1>2, <1>5, <2>6
  <1> QED
    BY <1>4, <1>5

\* The frame that delivers it.
LEMMA ReplyFrameType ==
  ASSUME IndInv, NEW k \in ConnIds, replies[k] # <<>>, NEW r
  PROVE  /\ ReplyFrame(k, r).op = "on_reply" /\ ReplyFrame(k, r).c = Head(replies[k]).c
         /\ ReplyFrame(k, r).k = k /\ ReplyFrame(k, r).a = r
         /\ \A j \in ConnIds \ {k} : [replies EXCEPT ![k] = Tail(@)][j] = replies[j]
  <1>1. Head(replies[k]) \in Entries
    BY TailType DEF IndInv, QueuePart
  <1> QED
    BY <1>1 DEF ReplyFrame, F, Entries, IndInv, QueuePart

LEMMA ReplyArrivesFlow ==
  ASSUME IndInv, FlowInv, NEW k \in ConnIds, NEW r \in {"ok", "error"}, ByHiredis(ReplyArrives(k, r))
  PROVE  FlowInv'
  <1> DEFINE f == ReplyFrame(k, r)
             g == F("h_reply_end", 0, k, "none")
  <1>1. k <= nconn /\ stack = <<>>
    BY ContextNumber DEF ByHiredis, ReplyArrives, InLoop
  <1>2. /\ replies[k] # <<>> /\ replies' = [replies EXCEPT ![k] = Tail(@)] /\ Call(<<f, g>>)
        /\ \A j \in ConnIds \ {k} : in_callback'[j] = in_callback[j]
        /\ UNCHANGED <<ctx_st, disconnecting, ctx_err, cmdVars, connVars, rawVars>>
        /\ ctx_st'[k] # "none"
    BY DEF ByHiredis, ReplyArrives, IndInv, ContextPart
  <1>3. /\ f.op = "on_reply" /\ f.c = Head(replies[k]).c /\ f.k = k /\ f.a = r
        /\ \A j \in ConnIds \ {k} : replies'[j] = replies[j]
    BY <1>2, ReplyFrameType
  <1>4. g.op = "h_reply_end" /\ g.k = k
    BY DEF F
  <1> HIDE DEF f, g
  <1>5. /\ Keep(Len(stack)) /\ Len(stack') = Len(stack) + 2
        /\ Pile'[Len(stack) + 1] = f /\ Pile'[Len(stack)] = g /\ Len(stack) = 0
    BY <1>1, <1>2, PileCallTwo, PileType DEF IndInv
  <1>6. \A d \in 0 .. Len(stack') - 1 : (d = 0 /\ Pile'[d] = g) \/ (d = 1 /\ Pile'[d] = f)
    BY <1>5
  <1>7. Len(stack') = 2 /\ Pile'[0] = g /\ Pile'[1] = f
    BY <1>5
  <1>8. \A d \in 0 .. Len(stack') - 1 :
          Pile'[d].op \in HiredisSteps /\ Pile'[d].k = k /\ ShapeAt(d)'
    BY <1>3, <1>4, <1>6, <1>7 DEF HiredisSteps, HiredisOps, ShapeAt, BottomOps, Deliver
  <1>9. \E d \in 0 .. Len(stack') - 1 : Pile'[d].op \in HiredisOps /\ Pile'[d].k = k
    <2>1. 0 \in 0 .. Len(stack') - 1 /\ Pile'[0].op \in HiredisOps /\ Pile'[0].k = k
      BY <1>4, <1>7 DEF HiredisOps
    <2> QED
      BY <2>1
  <1>10. MatchPart'
    BY <1>1, <1>2, <1>3, <1>7, MatchDelivery DEF connVars
  <1> QED
    BY <1>1, <1>2, <1>3, <1>5, <1>8, <1>9, <1>10, HiredisFlow

LEMMA FreeContextFlow == ASSUME IndInv, FlowInv, ByHiredis(FreeContext) PROVE FlowInv'
  <1> DEFINE k == Top.k
  <1>1. /\ stack # <<>> /\ Top.op = "h_free" /\ k \in ConnIds /\ k <= nconn
        /\ ctx_st[k] # "none" /\ Len(stack) \in Nat /\ Len(stack) >= 1 /\ Pile[Len(stack) - 1] = Top
    BY TopContext DEF ByHiredis, FreeContext, ConnOps
  <1>2. /\ \A j \in ConnIds \ {k} : in_callback'[j] = in_callback[j]
        /\ UNCHANGED <<ctx_st, disconnecting, ctx_err, cmdVars, connVars, rawVars>>
        /\ ctx_st'[k] # "none"
    BY <1>1 DEF ByHiredis, FreeContext, IndInv, ContextPart
  <1>3. Top.op \notin Deliver /\ Top.op \in HiredisSteps /\ Len(stack) <= (Len(stack) - 1) + 1
    BY <1>1 DEF Deliver, HiredisSteps, HiredisOps
  <1>4. CASE replies[k] # <<>>
    <2> DEFINE f == ReplyFrame(k, "null")
    <2>1. replies' = [replies EXCEPT ![k] = Tail(@)] /\ Continue(<<f, Top>>)
      BY <1>4 DEF ByHiredis, FreeContext
    <2>2. /\ f.op = "on_reply" /\ f.c = Head(replies[k]).c /\ f.k = k /\ f.a = "null"
          /\ \A j \in ConnIds \ {k} : replies'[j] = replies[j]
      BY <1>1, <1>4, <2>1, ReplyFrameType
    <2>3. Len(stack) = 1 /\ ctx_err[k] # "OK"
      <3>1. Len(stack) - 1 \in 0 .. Len(stack) - 1
        BY <1>1
      <3>2. Len(stack) - 1 = 0 /\ ctx_err[k] # "OK"
        BY <1>1, <1>4, <3>1 DEF FlowInv, ShapePart, ShapeAt
      <3> QED
        BY <1>1, <3>2
    <2> HIDE DEF f
    <2>4. /\ Keep(Len(stack) - 1) /\ Len(stack') = Len(stack) + 1 /\ Pile'[Len(stack)] = f
          /\ Pile'[Len(stack) - 1] = Top
      BY <1>1, <2>1, PileContinueTwo DEF IndInv
    <2>5. Keep(0) /\ Len(stack') = 2 /\ Pile'[1] = f /\ Pile'[0] = Top
      BY <2>3, <2>4
    <2>6. \A d \in 0 .. Len(stack') - 1 : (d = 0 /\ Pile'[d] = Top) \/ (d = 1 /\ Pile'[d] = f)
      BY <2>5
    <2>7. \A d \in 0 .. Len(stack') - 1 :
            Pile'[d].op \in HiredisSteps /\ Pile'[d].k = k /\ ShapeAt(d)'
      BY <1>1, <1>2, <2>2, <2>3, <2>5, <2>6 DEF HiredisSteps, HiredisOps, ShapeAt, BottomOps, Deliver
    <2>8. \E d \in 0 .. Len(stack') - 1 : Pile'[d].op \in HiredisOps /\ Pile'[d].k = k
      <3>1. 0 \in 0 .. Len(stack') - 1 /\ Pile'[0].op \in HiredisOps /\ Pile'[0].k = k
        BY <1>1, <2>5 DEF HiredisOps
      <3> QED
        BY <3>1
    <2> HIDE DEF k
    <2>9. MatchPart'
      BY <1>1, <1>2, <1>3, <1>4, <2>1, <2>2, <2>5, MatchDelivery DEF connVars
    <2>10. Len(stack) <= 0 + 1 /\ Top.k = k
      BY <2>3 DEF k
    <2> QED
      BY <1>1, <1>2, <1>3, <1>4, <2>2, <2>5, <2>7, <2>8, <2>9, <2>10, HiredisFlow
  <1>5. CASE replies[k] = <<>>
    <2> DEFINE pre == IF ctx_st[k] = "connected"
                      THEN <<F("on_disconnected", 0, k, ctx_err[k])>> ELSE <<>>
               g  == F("h_free_end", 0, k, "none")
               fs == pre \o <<g>>
               S  == {F("on_disconnected", 0, k, ctx_err[k]), g}
    <2>1. Continue(fs) /\ UNCHANGED replies
      BY <1>5 DEF ByHiredis, FreeContext
    <2>2. \A f \in S : /\ f.op \in HiredisSteps /\ f.k = k
                       /\ f.op \in {"on_disconnected", "h_free_end"}
      BY DEF F, HiredisSteps, HiredisOps
    <2>3. g.op \in HiredisOps /\ g.k = k
      BY DEF F, HiredisOps
    <2>4. pre \in Seq(S) /\ <<g>> \in Seq(S)
      BY OneType, EmptyType
    <2> HIDE DEF pre, g, S
    <2>5. Len(pre) \in Nat /\ Len(<<g>>) = 1 /\ <<g>>[1] = g
      BY <2>4
    <2>6. fs \in Seq(S) /\ Len(fs) = Len(pre) + 1 /\ fs[Len(pre) + 1] = <<g>>[1]
      BY <2>4, <2>5
    <2> HIDE DEF fs
    <2>7. /\ Keep(Len(stack) - 1) /\ Len(stack') = Len(stack) - 1 + Len(fs)
          /\ \A i \in 1 .. Len(fs) : Pile'[Len(stack) - 1 + Len(fs) - i] = fs[i]
      BY <1>1, <2>1, <2>6, PileContinue DEF IndInv
    <2>8. ASSUME NEW d \in Len(stack) - 1 .. Len(stack') - 1 PROVE Pile'[d] \in S
      <3> DEFINE i == Len(stack) - 1 + Len(fs) - d
      <3>1. i \in 1 .. Len(fs) /\ Len(stack) - 1 + Len(fs) - i = d
        BY <1>1, <2>5, <2>6, <2>7
      <3> HIDE DEF i
      <3>2. fs[i] \in S
        BY <2>6, <3>1
      <3> QED
        BY <2>7, <3>1, <3>2
    <2>9. \A d \in Len(stack) - 1 .. Len(stack') - 1 :
            /\ Pile'[d].op \in HiredisSteps /\ Pile'[d].k = k /\ ShapeAt(d)'
            /\ Pile'[d].op \notin Deliver
      BY <2>2, <2>8 DEF ShapeAt, BottomOps, Deliver
    <2>10. \E d \in 0 .. Len(stack') - 1 : Pile'[d].op \in HiredisOps /\ Pile'[d].k = k
      <3>1. Len(pre) + 1 \in 1 .. Len(fs) /\ Len(stack) - 1 + Len(fs) - (Len(pre) + 1) = Len(stack) - 1
            /\ Len(stack) - 1 \in 0 .. Len(stack') - 1
        BY <1>1, <2>5, <2>6, <2>7
      <3>2. Pile'[Len(stack) - 1] = g
        BY <2>5, <2>6, <2>7, <3>1
      <3> QED
        BY <2>3, <3>1, <3>2
    <2>11. MatchPart'
      BY <1>1, <1>2, <1>3, <2>1, <2>7, <2>9, MatchKept DEF IndInv, FlowInv, connVars
    <2>12. Top.k = k
      OBVIOUS
    <2> HIDE DEF k
    <2> QED
      BY <1>1, <1>2, <1>3, <2>1, <2>7, <2>9, <2>10, <2>11, <2>12, HiredisFlow
  <1> QED
    BY <1>4, <1>5

-----------------------------------------------------------------------------
(* The release of a connection                                             *)

\* A step of the release leaves commands, queues and contexts alone.
LEMMA ReleaseFlow ==
  ASSUME IndInv, FlowInv, stack # <<>>, Keep(Len(stack) - 1),
         Top.op \in {"release_connection", "release_event", "release_end", "connection_release"},
         \A d \in Len(stack) - 1 .. Len(stack') - 1 :
           Pile'[d].op \in {"user", "release_event", "release_end", "connection_release",
                            "redisAsyncDisconnect"},
         UNCHANGED <<cmdVars, hiredisVars, reply_list_, timer_pending>>,
         \A k \in ConnIds : conn_status_[k] = "DISCONNECTED" => conn_status_'[k] = "DISCONNECTED",
         ConnsPart', ReleasePart'
  PROVE  FlowInv'
  <1>1. Len(stack) \in Nat /\ Len(stack) <= (Len(stack) - 1) + 1
    BY PileType DEF IndInv
  <1>2. Top.op \notin Deliver \cup HiredisOps \cup OwnerOps
    BY DEF Deliver, HiredisOps, OwnerOps
  <1>3. \A d \in Len(stack) - 1 .. Len(stack') - 1 :
          ShapeAt(d)' /\ Pile'[d].op \notin Deliver \cup OwnerOps
    BY DEF ShapeAt, BottomOps, Deliver, OwnerOps
  <1>4. ShapePart'
    BY <1>1, <1>2, <1>3, ShapeKept DEF IndInv, FlowInv, hiredisVars
  <1>5. CallbackPart'
    BY <1>1, <1>2, CallbackKept DEF IndInv, FlowInv, hiredisVars
  <1>6. MatchPart'
    BY <1>1, <1>2, <1>3, MatchKept DEF IndInv, FlowInv, hiredisVars
  <1>7. OncePart'
    BY <1>1, <1>2, <1>3, QuietOnce DEF IndInv, FlowInv, cmdVars
  <1>8. DistinctPart' /\ OkMeansAnswered'
    BY DistinctSame, AnsweredSame DEF FlowInv, cmdVars
  <1> QED
    BY <1>4, <1>5, <1>6, <1>7, <1>8 DEF FlowInv

\* set_disconnected: the release begins, and no other one is under way.
LEMMA ReleaseConnectionFlow == ASSUME IndInv, FlowInv, release_connection PROVE FlowInv'
  <1> DEFINE k == Top.k
  <1>1. stack # <<>> /\ Top.op = "release_connection" /\ Top \in GoodFrame
    BY TopGood DEF release_connection, IndInv
  <1>2. k \in ConnIds \cup {0} /\ Len(stack) \in Nat /\ Len(stack) >= 1
    BY <1>1, PileType DEF GoodFrame, Good, Frame, IndInv
  <1>3. CASE k = 0 \/ conn_status_[k] = "DISCONNECTED"
    BY <1>1, <1>3, QuietReturn DEF release_connection, QuietOps, CalmOps, OwnerOps, SameLinks,
       connVars, rawVars
  <1>4. CASE k # 0 /\ conn_status_[k] # "DISCONNECTED"
    <2> DEFINE dis == IF context_[k] /\ Top.a = "close"
                      THEN <<F("redisAsyncDisconnect", 0, k, "none")>> ELSE <<>>
               rel == F("connection_release", 0, k, "none")
               ev  == F("release_event", 0, k, conn_status_[k])
               fs  == (dis \o <<rel>>) \o <<ev>>
               S   == {F("redisAsyncDisconnect", 0, k, "none"), rel}
    <2>1. /\ set_disconnected(k) /\ Continue(fs)
          /\ UNCHANGED <<cmdVars, hiredisVars, rawVars>>
      BY <1>4 DEF release_connection, ReleaseFrames
    <2>2. k \in ConnIds /\ conn_ = k /\ k <= nconn
      BY <1>2, <1>4, ConnNumber DEF IndInv, FlowInv, ConnsPart
    <2>3. /\ conn_status_' = [conn_status_ EXCEPT ![k] = "DISCONNECTED"]
          /\ UNCHANGED <<conn_st, context_, reply_list_>>
      BY <2>1 DEF set_disconnected
    <2>4. /\ \A f \in S : f.op \in {"redisAsyncDisconnect", "connection_release"} /\ f.k = k
          /\ ev.op = "release_event" /\ ev.k = k
      BY DEF F
    <2>5. dis \o <<rel>> \in Seq(S)
      <3>1. dis \in Seq(S) /\ <<rel>> \in Seq(S)
        BY OneType, EmptyType
      <3> HIDE DEF dis, rel, S
      <3> QED
        BY <3>1, ConcatType
    <2> DEFINE gs == dis \o <<rel>>
    <2> HIDE DEF gs, ev, S
    <2>6. gs \in Seq(S) /\ Continue(gs \o <<ev>>)
      BY <2>1, <2>5 DEF gs
    <2>7. /\ gs \o <<ev>> \in Seq(S \cup {ev}) /\ Len(gs \o <<ev>>) = Len(gs) + 1
          /\ \A i \in 1 .. Len(gs) : (gs \o <<ev>>)[i] \in S
          /\ (gs \o <<ev>>)[Len(gs) + 1] = ev /\ Len(gs) \in Nat
      <3>1. gs \in Seq(S \cup {ev}) /\ <<ev>> \in Seq(S \cup {ev})
        BY <2>6, SeqMono, OneType
      <3>2. Len(<<ev>>) = 1 /\ <<ev>>[1] = ev /\ Len(gs) \in Nat
        BY <2>6
      <3>3. /\ gs \o <<ev>> \in Seq(S \cup {ev}) /\ Len(gs \o <<ev>>) = Len(gs) + 1
            /\ \A i \in 1 .. Len(gs) : (gs \o <<ev>>)[i] = gs[i]
            /\ (gs \o <<ev>>)[Len(gs) + 1] = <<ev>>[1]
        BY <3>1, <3>2
      <3> QED
        BY <2>6, <3>2, <3>3
    <2> DEFINE hs == gs \o <<ev>>
    <2> HIDE DEF hs
    <2>8. /\ Keep(Len(stack) - 1) /\ Len(stack') = Len(stack) - 1 + Len(hs)
          /\ \A i \in 1 .. Len(hs) : Pile'[Len(stack) - 1 + Len(hs) - i] = hs[i]
      BY <1>1, <2>6, <2>7, PileContinue DEF IndInv, hs
    <2>9. /\ Len(hs) = Len(gs) + 1 /\ hs[Len(hs)] = ev
          /\ \A i \in 1 .. Len(gs) : hs[i] \in S
      BY <2>7 DEF hs
    <2>10. Pile'[Len(stack) - 1] = ev /\ Len(stack') >= Len(stack)
      BY <1>2, <2>7, <2>8, <2>9
    <2>11. ASSUME NEW d \in Len(stack) .. Len(stack') - 1 PROVE Pile'[d] \in S
      <3> DEFINE i == Len(stack) - 1 + Len(hs) - d
      <3>1. i \in 1 .. Len(gs) /\ i \in 1 .. Len(hs) /\ Len(stack) - 1 + Len(hs) - i = d
        BY <1>2, <2>7, <2>8, <2>9
      <3> HIDE DEF i
      <3> QED
        BY <2>8, <2>9, <3>1
    <2>12. \A d \in Len(stack) - 1 .. Len(stack') - 1 :
             /\ Pile'[d].op \in {"release_event", "connection_release", "redisAsyncDisconnect"}
             /\ Pile'[d].k = k /\ (Pile'[d].op = "release_event" => d = Len(stack) - 1)
      <3>1. \A d \in Len(stack) - 1 .. Len(stack') - 1 :
              d = Len(stack) - 1 \/ d \in Len(stack) .. Len(stack') - 1
        BY <1>2, <2>8, <2>7, <2>9
      <3> QED
        BY <2>4, <2>10, <2>11, <3>1
    <2> HIDE DEF k
    <2>13. /\ conn_status_'[k] = "DISCONNECTED"
           /\ \A j \in ConnIds \ {k} : conn_status_'[j] = conn_status_[j]
      BY <2>2, <2>3 DEF IndInv, ConnPart
    <2>14. ConnsPart'
      <3>1. ASSUME NEW d \in 0 .. Len(stack') - 1 PROVE Pile'[d].k <= nconn'
        <4>1. Len(stack) <= (Len(stack) - 1) + 1 /\ nconn' = nconn
          BY <1>2, <2>1 DEF rawVars
        <4>2. \A e \in Len(stack) - 1 .. Len(stack') - 1 : Pile'[e].k <= nconn
          BY <2>2, <2>12
        <4> QED
          BY <2>8, <4>1, <4>2, NumbersKept DEF IndInv, FlowInv
      <3> QED
        BY <2>1, <2>3, <2>13, <3>1 DEF FlowInv, ConnsPart, hiredisVars, rawVars
    <2>15. ReleasePart'
      <3>1. \A d \in 0 .. Len(stack) - 1 : Pile[d].op \notin ReleaseOps
        BY <1>4, <2>2 DEF FlowInv, ReleasePart, k
      <3>2. ASSUME NEW d \in 0 .. Len(stack') - 1
            PROVE  \/ /\ d \in 0 .. Len(stack) - 1 /\ Pile'[d] = Pile[d]
                      /\ Pile[d].op \notin ReleaseOps
                   \/ Pile'[d].op = "release_event" /\ d = Len(stack) - 1 /\ Pile'[d].k = k
                   \/ Pile'[d].op \in {"connection_release", "redisAsyncDisconnect"} /\ Pile'[d].k = k
        BY <1>2, <2>8, <2>12, <3>1, KeptFrames DEF IndInv
      <3>3. Len(stack) - 1 \in 0 .. Len(stack') - 1 /\ Pile'[Len(stack) - 1].op \in ReleaseOps
        BY <1>2, <2>4, <2>8, <2>10 DEF Keep, ReleaseOps
      <3>4. conn_' = k /\ k # 0 /\ UNCHANGED notified /\ EndIsReported'
        BY <1>4, <2>1, <2>2, <2>3 DEF rawVars, FlowInv, ReleasePart, EndIsReported, k
      <3>5. \A d \in 0 .. Len(stack) - 1 : Pile[d].op = "connection_release" =>
              conn_status_'[Pile[d].k] = "DISCONNECTED"
        <4> SUFFICES ASSUME NEW d \in 0 .. Len(stack) - 1, Pile[d].op = "connection_release"
                     PROVE  conn_status_'[Pile[d].k] = "DISCONNECTED"
          OBVIOUS
        <4>1. Pile[d].k \in ConnIds
          BY PileType DEF IndInv, GoodFrame, Good, ConnOps
        <4>2. conn_status_[Pile[d].k] = "DISCONNECTED"
          BY DEF FlowInv, ReleasePart
        <4> QED
          BY <2>13, <4>1, <4>2
      <3>6. ASSUME NEW d \in 0 .. Len(stack') - 1
            PROVE  /\ Pile'[d].op \in ReleaseOps => /\ conn_' # 0 /\ conn_' = Pile'[d].k
                                                    /\ conn_status_'[conn_'] = "DISCONNECTED"
                   /\ Pile'[d].op = "connection_release" => conn_status_'[Pile'[d].k] = "DISCONNECTED"
                   /\ Pile'[d].op # "release_end" /\ (Pile'[d].op \in ReleaseOps => d = Len(stack) - 1)
        BY <2>13, <3>2, <3>4, <3>5 DEF ReleaseOps
      <3> QED
        BY <3>3, <3>4, <3>6 DEF ReleasePart
    <2>16. \A j \in ConnIds : conn_status_[j] = "DISCONNECTED" => conn_status_'[j] = "DISCONNECTED"
      BY <2>13
    <2> QED
      BY <1>1, <2>1, <2>3, <2>8, <2>12, <2>14, <2>15, <2>16, ReleaseFlow DEF rawVars
  <1> QED
    BY <1>3, <1>4

LEMMA ReleaseEventFlow == ASSUME IndInv, FlowInv, release_event PROVE FlowInv'
  <1> DEFINE k == Top.k
             e == IF Top.a = "CONNECTING" THEN "failed" ELSE "disconnected"
             f == F("user", 0, k, IF Top.a = "CONNECTING" THEN "on_connected" ELSE "on_disconnected")
             g == F("release_end", 0, k, "none")
  <1>1. /\ stack # <<>> /\ Top.op = "release_event" /\ k \in ConnIds /\ k <= nconn
        /\ Len(stack) \in Nat /\ Len(stack) >= 1 /\ Pile[Len(stack) - 1] = Top
    BY TopContext DEF release_event, ConnOps
  <1>2. /\ Continue(<<f, g>>) /\ notified' = [notified EXCEPT ![k] = @ \cup {e}]
        /\ UNCHANGED <<cmdVars, hiredisVars, connVars, conn_, timer_pending, nconn>>
    BY DEF release_event, Notify
  <1>3. /\ notified'[k] \cap {"failed", "disconnected"} # {}
        /\ \A j \in ConnIds : notified[j] \subseteq notified'[j]
    <2>1. e \in notified'[k] /\ e \in {"failed", "disconnected"}
      BY <1>1, <1>2 DEF IndInv, RawPart
    <2> QED
      BY <1>1, <1>2, <2>1 DEF IndInv, RawPart
  <1>4. f.op = "user" /\ f.k = k /\ g.op = "release_end" /\ g.k = k
    BY DEF F
  <1> HIDE DEF f, g, e
  <1>5. /\ Keep(Len(stack) - 1) /\ Len(stack') = Len(stack) + 1
        /\ Pile'[Len(stack)] = f /\ Pile'[Len(stack) - 1] = g
    BY <1>1, <1>2, PileContinueTwo DEF IndInv
  <1>6. \A d \in Len(stack) - 1 .. Len(stack') - 1 :
          (d = Len(stack) - 1 /\ Pile'[d] = g) \/ (d = Len(stack) /\ Pile'[d] = f)
    BY <1>1, <1>5
  <1>7. \A d \in Len(stack) - 1 .. Len(stack') - 1 :
          Pile'[d].op \in {"user", "release_end"} /\ Pile'[d].k = k
          /\ (Pile'[d].op = "release_end" => d = Len(stack) - 1)
    BY <1>1, <1>4, <1>6
  <1>8. Len(stack) - 1 \in 0 .. Len(stack) - 1 /\ Len(stack) - 1 \in 0 .. Len(stack') - 1
        /\ Len(stack) <= (Len(stack) - 1) + 1
    BY <1>1, <1>5
  <1>9. conn_ # 0 /\ conn_ = k /\ conn_status_[conn_] = "DISCONNECTED"
        /\ \A d \in 0 .. Len(stack) - 1 : Pile[d].op \in ReleaseOps => d = Len(stack) - 1
    BY <1>1, <1>8 DEF FlowInv, ReleasePart, ReleaseOps
  <1> HIDE DEF k
  <1>10. ConnsPart'
    <2>1. \A d \in 0 .. Len(stack') - 1 : Pile'[d].k <= nconn
      BY <1>1, <1>5, <1>7, <1>8, NumbersKept DEF IndInv, FlowInv
    <2> QED
      BY <1>2, <2>1 DEF FlowInv, ConnsPart, hiredisVars, connVars
  <1>11. ReleasePart'
    <2>1. ASSUME NEW d \in 0 .. Len(stack') - 1
          PROVE  \/ /\ d \in 0 .. Len(stack) - 1 /\ Pile'[d] = Pile[d] /\ Pile[d].op \notin ReleaseOps
                 \/ Pile'[d].op = "release_end" /\ d = Len(stack) - 1 /\ Pile'[d].k = k
                 \/ Pile'[d].op = "user"
      BY <1>5, <1>7, <1>8, <1>9, KeptFrames DEF IndInv
    <2>2. ASSUME NEW d \in 0 .. Len(stack') - 1
          PROVE  /\ Pile'[d].op \in ReleaseOps => /\ conn_' # 0 /\ conn_' = Pile'[d].k
                                                  /\ conn_status_'[conn_'] = "DISCONNECTED"
                                                  /\ d = Len(stack) - 1
                 /\ Pile'[d].op = "connection_release" => conn_status_'[Pile'[d].k] = "DISCONNECTED"
                 /\ Pile'[d].op = "release_end" =>
                      notified'[Pile'[d].k] \cap {"failed", "disconnected"} # {}
      BY <1>2, <1>3, <1>9, <2>1 DEF connVars, ReleaseOps, FlowInv, ReleasePart
    <2>3. Pile'[Len(stack) - 1].op \in ReleaseOps
      BY <1>4, <1>5 DEF ReleaseOps
    <2>4. EndIsReported'
      BY <1>2, <1>3 DEF FlowInv, ReleasePart, EndIsReported, connVars
    <2> QED
      BY <1>8, <2>2, <2>3, <2>4 DEF ReleasePart
  <1> QED
    BY <1>1, <1>2, <1>5, <1>7, <1>10, <1>11, ReleaseFlow DEF connVars

LEMMA ReleaseEndFlow == ASSUME IndInv, FlowInv, release_end PROVE FlowInv'
  <1>1. stack # <<>> /\ Top.op = "release_end"
    BY DEF release_end, At, Running
  <1>2. /\ Len(stack) \in Nat /\ Len(stack) >= 1 /\ Pile[Len(stack) - 1] = Top
    BY <1>1, PileType DEF IndInv
  <1>3. Keep(Len(stack) - 1) /\ Len(stack') = Len(stack) - 1
    BY <1>1, PileReturn DEF release_end, IndInv
  <1>4. Len(stack) - 1 \in 0 .. Len(stack) - 1 /\ Len(stack) <= (Len(stack) - 1) + 1
        /\ \A d \in Len(stack) - 1 .. Len(stack') - 1 : FALSE
    BY <1>2, <1>3
  <1>5. /\ conn_ \in ConnIds /\ conn_status_[conn_] = "DISCONNECTED"
        /\ notified[conn_] \cap {"failed", "disconnected"} # {}
        /\ \A d \in 0 .. Len(stack) - 1 : Pile[d].op \in ReleaseOps => d = Len(stack) - 1
    BY <1>1, <1>2, <1>4, ConnNumber DEF IndInv, FlowInv, ReleasePart, ReleaseOps
  <1>6. /\ conn_' = 0 /\ conn_st' = [k \in ConnIds |-> IF k = conn_ THEN "freed" ELSE conn_st[k]]
        /\ UNCHANGED <<cmdVars, hiredisVars, context_, conn_status_, reply_list_, timer_pending,
                       nconn, notified>>
    BY DEF release_end
  <1>7. \A k \in ConnIds : conn_status_[k] = "DISCONNECTED"
    BY <1>5 DEF FlowInv, ConnsPart
  <1>8. ConnsPart'
    <2>1. \A d \in 0 .. Len(stack') - 1 : Pile'[d].k <= nconn
      BY <1>3, <1>4, NumbersKept DEF IndInv, FlowInv
    <2>2. ASSUME NEW k \in ConnIds
          PROVE  /\ conn_st'[k] # "live" /\ conn_' # k
                 /\ conn_st'[k] = "none" <=> conn_st[k] = "none"
      <3>1. conn_st[k] = "live" <=> conn_ = k
        BY DEF FlowInv, ConnsPart
      <3>2. k # 0
        BY DEF ConnIds
      <3> QED
        BY <1>6, <3>1, <3>2
    <2> QED
      BY <1>6, <1>7, <2>1, <2>2 DEF FlowInv, ConnsPart, hiredisVars
  <1>9. ReleasePart'
    <2>1. ASSUME NEW d \in 0 .. Len(stack') - 1
          PROVE  /\ Pile'[d].op \notin ReleaseOps
                 /\ Pile'[d].op = "connection_release" => conn_status_'[Pile'[d].k] = "DISCONNECTED"
      <3>1. d \in 0 .. Len(stack) - 1 /\ Pile'[d] = Pile[d] /\ d # Len(stack) - 1
        BY <1>2, <1>3, <1>4, KeptFrames DEF IndInv
      <3> QED
        BY <1>5, <1>6, <3>1 DEF FlowInv, ReleasePart
    <2>2. EndIsReported'
      BY <1>5, <1>6 DEF FlowInv, ReleasePart, EndIsReported
    <2> QED
      BY <1>6, <2>1, <2>2 DEF ReleasePart, ReleaseOps
  <1> QED
    BY <1>1, <1>3, <1>4, <1>6, <1>8, <1>9, ReleaseFlow

\* The first command of a reply list goes to a call.
LEMMA ListToCall ==
  ASSUME IndInv, FlowInv, NEW k \in ConnIds, reply_list_[k] # <<>>,
         NEW c, c = Head(reply_list_[k]), reply_list_' = [reply_list_ EXCEPT ![k] = Tail(@)],
         UNCHANGED <<timer_pending, cmd_st>>,
         NEW h, Keep(h), Len(stack) <= h + 1, Len(stack) = h \/ Top.op \notin OwnerOps,
         NEW p \in h .. Len(stack') - 1, Owner(Pile'[p], c),
         \A d \in h .. Len(stack') - 1 : d # p => Pile'[d].op \notin OwnerOps
  PROVE  OncePart' /\ DistinctPart'
  <1>1. /\ c \in CmdIds /\ c \in Elems(reply_list_[k])
        /\ Elems(reply_list_'[k]) = Elems(reply_list_[k]) \ {c}
        /\ \A i, j \in DOMAIN reply_list_'[k] : reply_list_'[k][i] = reply_list_'[k][j] => i = j
        /\ \A j \in ConnIds \ {k} : reply_list_'[j] = reply_list_[j]
    <2>1. reply_list_[k] \in Seq(Created) /\ reply_list_ \in [ConnIds -> Seq(Created)]
      BY DEF IndInv, QueuePart
    <2>2. \A i, j \in DOMAIN reply_list_[k] : reply_list_[k][i] = reply_list_[k][j] => i = j
      BY DEF FlowInv, DistinctPart
    <2>3. c \in Created
      BY <2>1, TailType
    <2>4. reply_list_'[k] = Tail(reply_list_[k]) /\ \A j \in ConnIds \ {k} : reply_list_'[j] = reply_list_[j]
      BY <2>1
    <2> QED
      BY <2>1, <2>2, <2>3, <2>4, ElemsTail DEF Created
  <1>2. DistinctPart'
    <2>1. ASSUME NEW n \in ConnIds
          PROVE  \A i, j \in DOMAIN reply_list_'[n] : reply_list_'[n][i] = reply_list_'[n][j] => i = j
      <3>1. CASE n = k
        BY <1>1, <3>1
      <3>2. CASE n # k
        BY <1>1, <3>2 DEF FlowInv, DistinctPart
      <3> QED
        BY <3>1, <3>2
    <2> QED
      BY <2>1 DEF FlowInv, DistinctPart
  <1>3. /\ cmd_st[c] = "live" /\ Held[c] = {-k} /\ c \notin TimerCmds
        /\ \A j \in ConnIds : c \in Elems(reply_list_[j]) => j = k
    BY <1>1, HeldByList DEF IndInv, FlowInv
  <1>4. TimerCmds' = TimerCmds
    BY DEF TimerCmds
  <1>5. \A j \in ConnIds : c \notin Elems(reply_list_'[j])
    BY <1>1, <1>3
  <1>6. OthersStay(c)
    <2>1. ASSUME NEW e \in CmdIds \ {c}, NEW j \in ConnIds
          PROVE  e \in Elems(reply_list_'[j]) <=> e \in Elems(reply_list_[j])
      <3>1. CASE j = k
        BY <1>1, <3>1
      <3>2. CASE j # k
        BY <1>1, <3>2
      <3> QED
        BY <3>1, <3>2
    <2> QED
      BY <1>4, <2>1 DEF OthersStay
  <1>7. \A d \in h .. Len(stack') - 1 : Pile'[d].op \in OwnerOps => Pile'[d].c = c
    BY DEF Owner
  <1>8. OnlyMoves(h, c)
    BY <1>6, <1>7 DEF OnlyMoves
  <1>9. -k \notin 1 .. h
    BY DEF ConnIds, Keep
  <1>10. OncePart'
    BY <1>1, <1>3, <1>4, <1>5, <1>8, <1>9, MovedToCall DEF IndInv, FlowInv
  <1> QED
    BY <1>2, <1>10

\* connection::release fails the commands of the connection, one by one.
LEMMA ConnectionReleaseFlow == ASSUME IndInv, FlowInv, ConnectionRelease PROVE FlowInv'
  <1> DEFINE k == Top.k
  <1>1. /\ stack # <<>> /\ Top.op = "connection_release" /\ k \in ConnIds /\ k <= nconn
        /\ Len(stack) \in Nat /\ Len(stack) >= 1 /\ Pile[Len(stack) - 1] = Top
    BY TopContext DEF ConnectionRelease, connection_release, ConnOps
  <1>2. conn_status_[k] = "DISCONNECTED"
    <2>1. Len(stack) - 1 \in 0 .. Len(stack) - 1
      BY <1>1
    <2> QED
      BY <1>1, <2>1 DEF FlowInv, ReleasePart
  <1>3. UNCHANGED <<hiredisVars, rawVars>>
    BY DEF ConnectionRelease
  <1>4. CASE reply_list_[k] = <<>>
    <2>1. /\ context_' = [context_ EXCEPT ![k] = FALSE]
          /\ conn_status_' = [conn_status_ EXCEPT ![k] = "DISCONNECTED"]
          /\ Return /\ UNCHANGED <<conn_st, reply_list_, cmdVars>>
      BY <1>4 DEF ConnectionRelease, connection_release
    <2>2. SameLinks /\ \A j \in ConnIds \ {k} : context_'[j] = context_[j]
      BY <1>1, <1>2, <2>1 DEF SameLinks, IndInv, ConnPart
    <2>3. Keep(Len(stack) - 1) /\ Len(stack') = Len(stack) - 1
      BY <1>1, <2>1, PileReturn DEF IndInv
    <2>4. Len(stack) <= (Len(stack) - 1) + 1 /\ \A d \in Len(stack) - 1 .. Len(stack') - 1 : FALSE
      BY <1>1, <2>3
    <2> HIDE DEF k
    <2>5. ConnsPart'
      <3>1. \A d \in 0 .. Len(stack') - 1 : Pile'[d].k <= nconn
        BY <2>3, <2>4, NumbersKept DEF IndInv, FlowInv
      <3>2. \A j \in ConnIds : conn_status_'[j] # "DISCONNECTED" => conn_ = j /\ context_'[j]
        BY <1>2, <2>2 DEF SameLinks, FlowInv, ConnsPart
      <3> QED
        BY <1>3, <2>1, <3>1, <3>2 DEF FlowInv, ConnsPart, hiredisVars, rawVars
    <2>6. ReleasePart'
      BY <1>1, <1>3, <2>1, <2>2, <2>3, <2>4, ReleaseKept DEF IndInv, FlowInv, rawVars, ReleaseOps
    <2> QED
      BY <1>1, <1>3, <2>1, <2>2, <2>3, <2>4, <2>5, <2>6, ReleaseFlow DEF rawVars, SameLinks
  <1>5. CASE reply_list_[k] # <<>>
    <2> DEFINE c == Head(reply_list_[k])
               f == F("destroy", c, 0, "none")
    <2>1. /\ reply_list_' = [reply_list_ EXCEPT ![k] = Tail(@)]
          /\ cmd_call_reply(c, "CONNECTION", "null")
          /\ Continue(CallbackFrames(c, "null") \o <<f, Top>>)
          /\ UNCHANGED <<cmd_st, conn_st, context_, conn_status_>>
      BY <1>5 DEF ConnectionRelease, connection_release, CallBack
    <2>2. f.op \in CalmOps /\ f.k = 0 /\ Owner(f, c) /\ c \in CmdIds
      BY <1>1, <1>5, TailType DEF F, CalmOps, OwnerOps, Owner, IndInv, QueuePart, Created
    <2>3. \A j \in ConnIds \ {k} : reply_list_'[j] = reply_list_[j]
      BY <2>1 DEF IndInv, QueuePart
    <2> HIDE DEF f, c
    <2>4. /\ Keep(Len(stack)) /\ Pile'[Len(stack)] = f
          /\ \/ Len(stack') = Len(stack) + 1
             \/ Len(stack') = Len(stack) + 2 /\ Pile'[Len(stack) + 1] \in CallbackFrame(c, "null")
      BY <1>1, <2>1, PileCallbackLoop DEF IndInv
    <2>5. nconn' = nconn /\ 0 <= nconn
      BY <1>3, ConnNumber DEF IndInv, FlowInv, rawVars
    <2>6. \A d \in Len(stack) .. Len(stack') - 1 : d # Len(stack) => Pile'[d] \in CallbackFrame(c, "null")
      <3> SUFFICES ASSUME NEW d \in Len(stack) .. Len(stack') - 1, d # Len(stack)
                   PROVE  Pile'[d] \in CallbackFrame(c, "null")
        OBVIOUS
      <3>1. d = Len(stack) + 1 /\ Len(stack') = Len(stack) + 2
        BY <1>1, <2>4
      <3> QED
        BY <1>1, <2>4, <3>1
    <2>7. \A g \in CallbackFrame(c, "null") : g.op \in CalmOps /\ g.op \notin OwnerOps /\ g.k = 0
      BY DEF CallbackFrame, F, CalmOps, OwnerOps
    <2>8. Calm(Len(stack))
      BY <1>1, <2>2, <2>4, <2>5, <2>6, <2>7 DEF Calm, Deliver
    <2>9. OncePart' /\ DistinctPart'
      <3>1. Len(stack) \in Len(stack) .. Len(stack') - 1 /\ Len(stack) <= Len(stack) + 1
        BY <1>1, <2>4
      <3>2. Owner(Pile'[Len(stack)], c)
            /\ \A d \in Len(stack) .. Len(stack') - 1 : d # Len(stack) => Pile'[d].op \notin OwnerOps
        BY <2>2, <2>4, <2>6, <2>7
      <3> QED
        BY <1>1, <1>3, <1>5, <2>1, <2>4, <3>1, <3>2, ListToCall DEF rawVars, c
    <2>10. OkMeansAnswered'
      BY <2>1, <2>2, AnsweredCalled DEF IndInv, FlowInv
    <2>11. SameLinks
      BY <2>1 DEF SameLinks
    <2>12. ShapePart' /\ CallbackPart' /\ ReleasePart'
      BY <1>3, <2>1, <2>8, <2>11, ShapeCalm, CallbackCalm, ReleaseCalm
         DEF IndInv, FlowInv, hiredisVars, rawVars
    <2>13. ConnsPart'
      <3>1. \A d \in Len(stack) .. Len(stack') - 1 : Pile'[d].k <= nconn
        BY <2>2, <2>4, <2>5, <2>6, <2>7
      <3>2. \A d \in 0 .. Len(stack') - 1 : Pile'[d].k <= nconn
        <4>1. Len(stack) <= Len(stack) + 1
          BY <1>1
        <4> QED
          BY <2>4, <3>1, <4>1, NumbersKept DEF IndInv, FlowInv
      <3>3. \A j \in ConnIds : j > nconn => reply_list_'[j] = <<>>
        BY <1>1, <2>3, ConnNumber DEF IndInv, FlowInv, ConnsPart, ConnIds
      <3> QED
        BY <1>3, <2>1, <3>2, <3>3 DEF FlowInv, ConnsPart, hiredisVars, rawVars
    <2>14. MatchPart'
      <3>1. Top.op \notin Deliver
        BY <1>1 DEF Deliver
      <3>2. \A j \in ConnIds : ~Delivers(j) /\ ~Delivers(j)'
        <4>1. StackPart /\ ShapePart
          BY DEF IndInv, FlowInv
        <4>2. ~(Len(stack) = 2 /\ Pile[1].op \in Deliver)
          <5> SUFFICES ASSUME Len(stack) = 2, Pile[1].op \in Deliver PROVE FALSE
            OBVIOUS
          <5>1. 1 \in 0 .. Len(stack) - 1
            OBVIOUS
          <5> QED
            BY <3>1, <4>1, <5>1, DeliverIsTop
        <4>3. ~(Len(stack') = 2 /\ Pile'[1].op \in Deliver)
          <5> SUFFICES ASSUME Len(stack') = 2, Pile'[1].op \in Deliver PROVE FALSE
            OBVIOUS
          <5>1. Len(stack) \in Nat /\ Len(stack) >= 1
            BY <1>1
          <5>2. 2 = Len(stack) + 1 \/ 2 = Len(stack) + 2
            BY <2>4
          <5>3. Len(stack) = 1
            <6>1. \A n \in Nat : n >= 1 /\ (2 = n + 1 \/ 2 = n + 2) => n = 1
              OBVIOUS
            <6> QED
              BY <5>1, <5>2, <6>1
          <5>4. Pile'[1] = f
            BY <2>4, <5>3
          <5> QED
            BY <2>2, <5>4 DEF CalmOps, Deliver
        <4> QED
          BY <4>2, <4>3 DEF Delivers
      <3>3. ASSUME NEW j \in ConnIds, conn_status_'[j] # "DISCONNECTED" PROVE Shifted(j, 0)'
        <4>1. j # k /\ conn_status_[j] # "DISCONNECTED"
          BY <1>2, <2>1, <3>3
        <4>2. reply_list_'[j] = reply_list_[j] /\ replies' = replies
          BY <1>3, <2>3, <4>1 DEF hiredisVars
        <4> QED
          BY <3>2, <4>1, <4>2 DEF FlowInv, MatchPart, Shifted
      <3> QED
        BY <3>2, <3>3 DEF MatchPart
    <2> QED
      BY <2>9, <2>10, <2>12, <2>13, <2>14 DEF FlowInv
  <1> QED
    BY <1>4, <1>5

-----------------------------------------------------------------------------
(* The delivery of a reply                                                 *)

\* A reply that is delivered without touching a freed object belongs to conn_,
\* which is not being released, and is that of the first command in its list.
LEMMA DeliveryLive ==
  ASSUME IndInv, FlowInv, NEW op \in Deliver, At(op)
  PROVE  /\ stack # <<>> /\ Top.op = op /\ Top.c \in Created /\ Top.k \in ConnIds
         /\ conn_ = Top.k /\ Top.k <= nconn
         /\ conn_status_[Top.k] # "DISCONNECTED" /\ context_[Top.k]
         /\ Len(stack) = 2 /\ Pile[1] = Top /\ Pile[0].op \in {"h_reply_end", "h_free"}
         /\ Top.a = "null" => ctx_err[Top.k] # "OK"
         /\ Delivers(Top.k) /\ Shifted(Top.k, 1) /\ reply_list_[Top.k][1] = Top.c
         /\ reply_list_[Top.k] # <<>> /\ Head(reply_list_[Top.k]) = Top.c
         /\ Top.c \in Elems(reply_list_[Top.k])
  <1>1. /\ stack # <<>> /\ Top.op = op /\ Top.k \in ConnIds /\ Top.k <= nconn
        /\ Len(stack) \in Nat /\ Len(stack) >= 1 /\ Pile[Len(stack) - 1] = Top
    BY TopContext DEF Deliver, ConnOps
  <1>2. Top.c \in Created
    BY TopGood DEF IndInv, GoodFrame, Good, CmdOps, Deliver
  <1>3. Len(stack) - 1 \in 0 .. Len(stack) - 1
    BY <1>1
  <1>4. /\ Len(stack) = 2 /\ Pile[0].op \in {"h_reply_end", "h_free"}
        /\ Top.a = "null" => ctx_err[Top.k] # "OK"
    BY <1>1, <1>3 DEF FlowInv, ShapePart, ShapeAt
  <1>5. Pile[1] = Top
    <2>1. Len(stack) - 1 = 1
      BY <1>4
    <2> QED
      BY <1>1, <2>1
  <1>6. conn_ = Top.k
    <2>1. conn_st[Top.k] # "freed"
      BY <1>1 DEF At, Dangling, UsesConn, Deliver
    <2>2. conn_st[Top.k] # "none"
      BY <1>1, ConnNumber DEF IndInv, FlowInv, ConnsPart, ConnIds
    <2>3. conn_st[Top.k] = "live"
      BY <1>1, <2>1, <2>2 DEF IndInv, ConnPart, ObjectStates
    <2> QED
      BY <1>1, <2>3 DEF FlowInv, ConnsPart
  <1>7. conn_status_[Top.k] # "DISCONNECTED"
    <2> SUFFICES ASSUME conn_status_[Top.k] = "DISCONNECTED" PROVE FALSE
      OBVIOUS
    <2>1. conn_ # 0
      BY <1>1, <1>6 DEF ConnIds
    <2>2. PICK d \in 0 .. Len(stack) - 1 : Pile[d].op \in ReleaseOps
      BY <1>6, <2>1 DEF FlowInv, ReleasePart
    <2>3. d = 0 \/ d = 1
      BY <1>4
    <2> QED
      BY <1>1, <1>4, <1>5, <2>2, <2>3 DEF ReleaseOps, Deliver
  <1>8. context_[Top.k]
    BY <1>1, <1>7 DEF FlowInv, ConnsPart
  <1>9. Delivers(Top.k) /\ Shifted(Top.k, 1) /\ reply_list_[Top.k][1] = Top.c
    <2>1. Delivers(Top.k)
      BY <1>1, <1>4, <1>5 DEF Delivers
    <2> QED
      BY <1>1, <1>5, <1>7, <2>1 DEF FlowInv, MatchPart
  <1>10. /\ reply_list_[Top.k] # <<>> /\ Head(reply_list_[Top.k]) = Top.c
         /\ Top.c \in Elems(reply_list_[Top.k])
    <2> DEFINE l == reply_list_[Top.k]
    <2>1. l \in Seq(Created) /\ replies[Top.k] \in Seq(Entries)
      BY <1>1 DEF IndInv, QueuePart
    <2>2. Len(l) = 1 + Len(replies[Top.k]) /\ Len(replies[Top.k]) \in Nat
      BY <1>9, <2>1 DEF Shifted
    <2> HIDE DEF l
    <2>3. l # <<>> /\ 1 \in DOMAIN l /\ Head(l) = l[1]
      BY <2>1, <2>2
    <2>4. l[1] = Top.c
      BY <1>9 DEF l
    <2>5. l # <<>> /\ Head(l) = Top.c /\ Top.c \in Elems(l)
      BY <2>3, <2>4 DEF Elems
    <2> QED
      BY <2>5 DEF l
  <1> QED
    BY <1>1, <1>2, <1>4, <1>5, <1>6, <1>7, <1>8, <1>9, <1>10

\* The reply is handed from one call to the next.
LEMMA HandedFlow ==
  ASSUME IndInv, FlowInv, NEW op \in Deliver, At(op), NEW f, Continue(<<f>>),
         f.op \in Deliver, f.c = Top.c, f.k = Top.k, f.a = Top.a \/ f.a # "null",
         UNCHANGED <<cmd_st, hiredisVars, connVars, rawVars>>, OkMeansAnswered'
  PROVE  FlowInv'
  <1>1. /\ stack # <<>> /\ Top.op = op /\ Top.k \in ConnIds /\ Top.k <= nconn
        /\ Len(stack) = 2 /\ Pile[1] = Top /\ Pile[0].op \in {"h_reply_end", "h_free"}
        /\ Top.a = "null" => ctx_err[Top.k] # "OK"
    BY DeliveryLive
  <1>2. /\ Keep(Len(stack) - 1) /\ Len(stack') = Len(stack) /\ Pile'[Len(stack) - 1] = f
    BY <1>1, PileContinueOne DEF IndInv
  <1>3. Keep(1) /\ Len(stack') = 2 /\ Pile'[1] = f /\ Len(stack) <= 1 + 1
    BY <1>1, <1>2
  <1>4. Pile'[0] = Pile[0]
    BY <1>3 DEF Keep
  <1>5. \A d \in 0 .. Len(stack') - 1 : d = 0 \/ d = 1
    BY <1>3
  <1>6. \A d \in 1 .. Len(stack') - 1 : d = 1
    BY <1>3
  <1>7. ShapePart'
    <2>1. ShapeAt(0)
      BY <1>1 DEF FlowInv, ShapePart
    <2>2. ShapeAt(0)'
      BY <1>1, <1>4, <2>1 DEF ShapeAt, hiredisVars, Deliver
    <2>3. ShapeAt(1)'
      BY <1>1, <1>3, <1>4 DEF ShapeAt, hiredisVars, Deliver, BottomOps
    <2> QED
      BY <1>5, <2>2, <2>3 DEF ShapePart
  <1>8. CallbackPart'
    BY <1>1, <1>3, CallbackKept DEF IndInv, FlowInv, hiredisVars, Deliver, HiredisOps
  <1>9. ConnsPart'
    <2>1. \A d \in 0 .. Len(stack') - 1 : Pile'[d].k <= nconn
      BY <1>1, <1>3, <1>6, NumbersKept DEF IndInv, FlowInv
    <2> QED
      BY <2>1 DEF FlowInv, ConnsPart, hiredisVars, connVars, rawVars
  <1>10. ReleasePart'
    BY <1>1, <1>3, <1>6, ReleaseKept DEF IndInv, FlowInv, Deliver, ReleaseOps, SameLinks, connVars, rawVars
  <1>11. MatchPart'
    <2>1. \A k \in ConnIds : (Delivers(k)' <=> Delivers(k)) /\ (Shifted(k, 0)' <=> Shifted(k, 0))
                             /\ (Shifted(k, 1)' <=> Shifted(k, 1))
      BY <1>1, <1>3 DEF Delivers, Shifted, hiredisVars, connVars
    <2>2. Pile'[1].c = Pile[1].c
      BY <1>1, <1>3
    <2> QED
      BY <2>1, <2>2 DEF FlowInv, MatchPart, connVars
  <1>12. OncePart'
    BY <1>1, <1>3, <1>6, QuietOnce DEF IndInv, FlowInv, Deliver, OwnerOps, connVars, rawVars
  <1>13. DistinctPart'
    BY DistinctSame DEF FlowInv, connVars, rawVars
  <1> QED
    BY <1>7, <1>8, <1>9, <1>10, <1>11, <1>12, <1>13 DEF FlowInv

LEMMA OnReplyFlow == ASSUME IndInv, FlowInv, on_reply_wrapper PROVE FlowInv'
  <1>1. At("on_reply") /\ "on_reply" \in Deliver
    BY DEF on_reply_wrapper, Deliver
  <1>2. Top.c \in Created /\ Top.k \in ConnIds /\ Top.c \in Elems(reply_list_[Top.k])
    BY <1>1, DeliveryLive
  <1>3. UNCHANGED <<cmd_st, calls, got, hiredisVars, connVars, rawVars>>
    BY DEF on_reply_wrapper
  <1>4. OkMeansAnswered'
    <2>1. Top.c \in CmdIds
      BY <1>2 DEF Created
    <2>2. \A c \in CmdIds : error_code_'[c] = error_code_[c] \/ error_code_'[c] = "CONNECTION"
      BY <2>1 DEF on_reply_wrapper, IndInv, CmdPart, CmdTypeOK
    <2> QED
      BY <1>3, <2>2 DEF FlowInv, OkMeansAnswered
  <1>5. \/ Continue(<<F("call_reply", Top.c, Top.k, Top.a)>>)
        \/ Continue(<<F("pop_reply", Top.c, Top.k, "retry")>>)
    BY <1>2 DEF on_reply_wrapper
  <1>6. ASSUME NEW o \in {"call_reply", "pop_reply"}, NEW a, a = Top.a \/ a = "retry",
               Continue(<<F(o, Top.c, Top.k, a)>>)
        PROVE  FlowInv'
    <2> DEFINE f == F(o, Top.c, Top.k, a)
    <2>1. f.op \in Deliver /\ f.c = Top.c /\ f.k = Top.k /\ (f.a = Top.a \/ f.a # "null") /\ Continue(<<f>>)
      BY <1>6 DEF F, Deliver
    <2> HIDE DEF f
    <2> QED
      BY <1>1, <1>3, <1>4, <2>1, HandedFlow
  <1> QED
    BY <1>5, <1>6

LEMMA CallReplyFlow == ASSUME IndInv, FlowInv, CallReply PROVE FlowInv'
  <1> DEFINE f == F("pop_reply", Top.c, Top.k, Top.a)
  <1>1. At("call_reply") /\ "call_reply" \in Deliver
    BY DEF CallReply, call_reply, Deliver
  <1>2. Top.c \in Elems(reply_list_[Top.k]) /\ context_[Top.k]
    BY <1>1, DeliveryLive
  <1>3. Continue(<<f>>) /\ UNCHANGED <<cmdVars, hiredisVars, connVars, rawVars>>
    BY <1>2 DEF CallReply, call_reply
  <1>4. f.op \in Deliver /\ f.c = Top.c /\ f.k = Top.k /\ f.a = Top.a
    BY DEF F, Deliver
  <1>5. OkMeansAnswered'
    BY <1>3, AnsweredSame DEF FlowInv, cmdVars
  <1> HIDE DEF f
  <1> QED
    BY <1>1, <1>3, <1>4, <1>5, HandedFlow DEF cmdVars

\* The command is taken from the list and goes to what its answer leads to.
LEMMA TakenFlow ==
  ASSUME IndInv, FlowInv, At("pop_reply"), NEW c, c = Top.c, NEW k, k = Top.k,
         reply_list_' = [reply_list_ EXCEPT ![k] = Tail(@)],
         UNCHANGED <<cmd_st, hiredisVars, conn_st, context_, conn_status_, rawVars>>,
         Keep(1), Len(stack') = 2 \/ Len(stack') = 3,
         Pile'[1].op \in {"retry", "destroy"}, Pile'[1].c = c, Pile'[1].k = 0,
         Len(stack') = 3 => \E r : Pile'[2] \in CallbackFrame(c, r),
         OkMeansAnswered'
  PROVE  FlowInv'
  <1>1. /\ stack # <<>> /\ Top.op = "pop_reply" /\ k \in ConnIds /\ k <= nconn
        /\ Len(stack) = 2 /\ Pile[1] = Top /\ Pile[0].op \in {"h_reply_end", "h_free"}
        /\ Delivers(k) /\ Shifted(k, 1) /\ conn_ = k
        /\ reply_list_[k] # <<>> /\ Head(reply_list_[k]) = c
    BY DeliveryLive DEF Deliver
  <1>2. \A d \in 1 .. Len(stack') - 1 : d = 1 \/ (d = 2 /\ Len(stack') = 3)
    <2>1. \A n \in {2, 3} : \A d \in 1 .. n - 1 : d = 1 \/ (d = 2 /\ n = 3)
      OBVIOUS
    <2> QED
      BY <2>1
  <1>3. \A d \in 1 .. Len(stack') - 1 :
          /\ Pile'[d].op \in CalmOps /\ Pile'[d].k = 0
          /\ d # 1 => Pile'[d].op \notin OwnerOps
    BY <1>2 DEF CalmOps, OwnerOps, CallbackFrame, F
  <1>4. Len(stack) <= 1 + 1 /\ Pile'[0] = Pile[0]
    BY <1>1 DEF Keep
  <1>5. \A d \in 0 .. Len(stack') - 1 : d = 0 \/ d \in 1 .. Len(stack') - 1
    OBVIOUS
  <1>6. ShapePart'
    <2>1. ShapeAt(0)
      BY <1>1 DEF FlowInv, ShapePart
    <2>2. ShapeAt(0)'
      BY <1>1, <1>4, <2>1 DEF ShapeAt, hiredisVars, Deliver
    <2>3. \A d \in 1 .. Len(stack') - 1 : ShapeAt(d)'
      BY <1>3 DEF ShapeAt, CalmOps, BottomOps, Deliver
    <2> QED
      BY <1>5, <2>2, <2>3 DEF ShapePart
  <1>7. CallbackPart'
    BY <1>1, <1>4, CallbackKept DEF IndInv, FlowInv, hiredisVars, HiredisOps
  <1>8. \A j \in ConnIds \ {k} : reply_list_'[j] = reply_list_[j]
    BY DEF IndInv, QueuePart
  <1>9. ConnsPart'
    <2>1. \A d \in 0 .. Len(stack') - 1 : Pile'[d].k <= nconn
      BY <1>1, <1>3, <1>4, ConnNumber, NumbersKept DEF IndInv, FlowInv
    <2>2. \A j \in ConnIds : j > nconn => reply_list_'[j] = <<>>
      BY <1>1, <1>8, ConnNumber DEF IndInv, FlowInv, ConnsPart, ConnIds
    <2> QED
      BY <2>1, <2>2 DEF FlowInv, ConnsPart, hiredisVars, rawVars
  <1>10. ReleasePart'
    <2>1. \A d \in 1 .. Len(stack') - 1 : Pile'[d].op \notin ReleaseOps \cup {"connection_release"}
      BY <1>3 DEF CalmOps, ReleaseOps
    <2> QED
      BY <1>1, <1>4, <2>1, ReleaseKept DEF IndInv, FlowInv, ReleaseOps, SameLinks, rawVars
  <1>11. MatchPart'
    <2>1. \A j \in ConnIds : ~Delivers(j)'
      BY DEF Delivers, Deliver
    <2>2. \A j \in ConnIds \ {k} : ~Delivers(j)
      BY <1>1 DEF Delivers
    <2>3. Shifted(k, 0)'
      <3> DEFINE l == reply_list_[k]
                 q == replies[k]
      <3>1. l \in Seq(Created) /\ q \in Seq(Entries) /\ l # <<>>
        BY <1>1 DEF IndInv, QueuePart
      <3>2. Len(l) = 1 + Len(q) /\ Len(q) \in Nat /\ \A i \in 1 .. Len(q) : l[1 + i] = q[i].c
        BY <1>1, <3>1 DEF Shifted
      <3>3. reply_list_'[k] = Tail(l) /\ replies'[k] = q
        BY <1>1 DEF IndInv, QueuePart, hiredisVars
      <3> HIDE DEF l, q
      <3>4. Len(Tail(l)) = Len(q) /\ \A i \in 1 .. Len(Tail(l)) : Tail(l)[i] = l[i + 1]
        BY <3>1, <3>2
      <3>5. \A i \in 1 .. Len(q) : i + 1 = 1 + i /\ 0 + i = i
        BY <3>2
      <3>6. Len(Tail(l)) = 0 + Len(q) /\ \A i \in 1 .. Len(q) : Tail(l)[0 + i] = q[i].c
        BY <3>2, <3>4, <3>5
      <3> QED
        BY <3>3, <3>6 DEF Shifted
    <2>4. ASSUME NEW j \in ConnIds, j # k, conn_status_'[j] # "DISCONNECTED" PROVE Shifted(j, 0)'
      BY <1>8, <2>2, <2>4 DEF FlowInv, MatchPart, Shifted, hiredisVars
    <2> QED
      BY <2>1, <2>3, <2>4 DEF MatchPart
  <1>12. OncePart' /\ DistinctPart'
    <2>1. 1 \in 1 .. Len(stack') - 1
      <3>1. \A n \in {2, 3} : 1 \in 1 .. n - 1
        OBVIOUS
      <3> QED
        BY <3>1
    <2>2. Owner(Pile'[1], c)
      BY DEF Owner, OwnerOps
    <2> QED
      BY <1>1, <1>3, <1>4, <2>1, <2>2, ListToCall DEF rawVars, OwnerOps
  <1> QED
    BY <1>6, <1>7, <1>9, <1>10, <1>11, <1>12 DEF FlowInv

LEMMA PopReplyFlow == ASSUME IndInv, FlowInv, PopReply PROVE FlowInv'
  <1> DEFINE k == Top.k
             c == Top.c
  <1>1. At("pop_reply") /\ UNCHANGED <<hiredisVars, rawVars, conn_st, context_, conn_status_>>
    BY DEF PopReply, pop_reply
  <1>2. /\ stack # <<>> /\ c \in CmdIds /\ Len(stack) = 2
        /\ reply_list_[k] # <<>> /\ Head(reply_list_[k]) = c
        /\ Top.a = "null" => ctx_err[k] # "OK"
    BY <1>1, DeliveryLive DEF Deliver, Created
  <1>3. Top.a # "ask" /\ (Top.a = "retry" \/ Top.a \in Replies)
    BY <1>1, TopGood DEF IndInv, GoodFrame, Good, Replies
  <1>4. reply_list_' = [reply_list_ EXCEPT ![k] = Tail(@)]
    BY <1>2 DEF PopReply, pop_reply
  <1>5. CASE Top.a = "retry"
    <2> DEFINE f == F("retry", c, 0, "none")
    <2>1. Continue(<<f>>) /\ UNCHANGED cmdVars
      BY <1>2, <1>5 DEF PopReply, pop_reply
    <2>2. f.op = "retry" /\ f.c = c /\ f.k = 0
      BY DEF F
    <2> HIDE DEF f
    <2>3. Keep(Len(stack) - 1) /\ Len(stack') = Len(stack) /\ Pile'[Len(stack) - 1] = f
      BY <1>2, <2>1, PileContinueOne DEF IndInv
    <2>4. Keep(1) /\ Len(stack') = 2 /\ Pile'[1] = f
      BY <1>2, <2>3
    <2>5. OkMeansAnswered'
      BY <2>1, AnsweredSame DEF FlowInv, cmdVars
    <2>6. /\ Len(stack') # 3 /\ cmd_st' = cmd_st
          /\ Pile'[1].op \in {"retry", "destroy"} /\ Pile'[1].c = c /\ Pile'[1].k = 0
      BY <2>1, <2>2, <2>4 DEF cmdVars
    <2> QED
      BY <1>1, <1>4, <2>4, <2>5, <2>6, TakenFlow
  <1>6. CASE Top.a \in Replies /\ Top.a # "retry"
    <2> DEFINE f == F("destroy", c, 0, "none")
               code == Translate(k, c, Top.a)
    <2>1. /\ cmd_call_reply(c, code, Top.a) /\ UNCHANGED <<cmd_st, ttl_>>
          /\ Continue(CallbackFrames(c, Top.a) \o <<f>>)
      BY <1>2, <1>3, <1>6 DEF PopReply, pop_reply, CallBack
    <2>2. f.op = "destroy" /\ f.c = c /\ f.k = 0
      BY DEF F
    <2>3. code # "OK" \/ Top.a = "ok"
      BY <1>2, <1>6 DEF Translate
    <2> HIDE DEF f, code
    <2>4. /\ Keep(Len(stack) - 1) /\ Pile'[Len(stack) - 1] = f
          /\ \/ Len(stack') = Len(stack)
             \/ Len(stack') = Len(stack) + 1 /\ Pile'[Len(stack)] \in CallbackFrame(c, Top.a)
      BY <1>2, <2>1, PileCallback DEF IndInv
    <2>5. /\ Keep(1) /\ Pile'[1] = f /\ (Len(stack') = 2 \/ Len(stack') = 3)
          /\ Len(stack') = 3 => Pile'[2] \in CallbackFrame(c, Top.a)
      <3>1. Len(stack) - 1 = 1 /\ Len(stack) + 1 = 3
        BY <1>2
      <3>2. Keep(1) /\ Pile'[1] = f
        BY <2>4, <3>1
      <3>3. Len(stack') = 2 \/ (Len(stack') = 3 /\ Pile'[2] \in CallbackFrame(c, Top.a))
        BY <1>2, <2>4, <3>1
      <3>4. 2 # 3
        OBVIOUS
      <3> QED
        BY <3>2, <3>3, <3>4
    <2>6. OkMeansAnswered'
      BY <1>2, <2>1, <2>3, AnsweredCalled DEF IndInv, FlowInv
    <2> QED
      BY <1>1, <1>4, <2>1, <2>2, <2>5, <2>6, TakenFlow
  <1> QED
    BY <1>3, <1>5, <1>6 DEF Replies

\* No reply is being delivered before or after a calm step.
LEMMA NoDelivery ==
  ASSUME StackPart, ShapePart, NEW h, Calm(h)
  PROVE  \A k \in ConnIds : ~Delivers(k) /\ ~Delivers(k)'
  <1>1. /\ Keep(h) /\ Len(stack) <= h + 1 /\ (stack # <<>> => Top.op \notin Deliver)
        /\ \A d \in h .. Len(stack') - 1 : Pile'[d].op \notin Deliver
    BY CalmNotDeliver
  <1>2. \A d \in 0 .. Len(stack) - 1 : Pile[d].op \notin Deliver
    BY <1>1, DeliverIsTop
  <1>3. \A d \in 0 .. Len(stack') - 1 :
          \/ d < h /\ d \in 0 .. Len(stack) - 1 /\ Pile'[d] = Pile[d]
          \/ d >= h /\ d \in h .. Len(stack') - 1
    BY <1>1, KeptFrames
  <1>4. \A d \in 0 .. Len(stack') - 1 : Pile'[d].op \notin Deliver
    BY <1>1, <1>2, <1>3
  <1>5. \A n : n = 2 => 1 \in 0 .. n - 1
    OBVIOUS
  <1> QED
    BY <1>2, <1>4, <1>5 DEF Delivers

\* exec(conn, cmd): the command goes to the end of both queues.
LEMMA ExecConnFlow == ASSUME IndInv, FlowInv, exec_conn PROVE FlowInv'
  <1> DEFINE k == Top.k
             c == Top.c
             l == reply_list_[k]
             q == replies[k]
             e == [fn |-> "on_reply", c |-> c]
  <1>1. stack # <<>> /\ Owner(Top, c) /\ c \in CmdIds /\ c \in Created
    BY TopOwns DEF exec_conn, OwnerOps
  <1>2. k \in ConnIds /\ k <= nconn /\ Top.op = "exec_conn" /\ Len(stack) \in Nat
    BY TopContext DEF exec_conn, ConnOps
  <1>3. conn_status_[k] # "DISCONNECTED" /\ ~disconnecting[k]
    BY DEF exec_conn, redis_cmd_result, Accepts
  <1>4. /\ reply_list_' = [reply_list_ EXCEPT ![k] = Append(@, c)]
        /\ replies' = [replies EXCEPT ![k] = Append(@, e)]
        /\ UNCHANGED <<ctx_st, disconnecting, in_callback, ctx_err, conn_st, context_,
                       conn_status_, rawVars, cmd_st, calls, error_code_, got>>
        /\ Return
    BY DEF exec_conn, redis_cmd, redisAsyncFormattedCommand, SpendTtl
  <1>5. l \in Seq(Created) /\ q \in Seq(Entries) /\ e.c = c
    BY <1>2 DEF IndInv, QueuePart
  <1>6. /\ reply_list_'[k] = Append(l, c) /\ replies'[k] = Append(q, e)
        /\ \A j \in ConnIds \ {k} : reply_list_'[j] = reply_list_[j] /\ replies'[j] = replies[j]
    BY <1>2, <1>4 DEF IndInv, QueuePart
  <1> HIDE DEF c, k, l, q, e
  <1>7. Elems(reply_list_'[k]) = Elems(reply_list_[k]) \cup {c}
    BY <1>5, <1>6, ElemsAppend DEF l
  <1>8. OthersStay(c) /\ TimerCmds' = TimerCmds
    BY <1>4, <1>6, <1>7 DEF OthersStay, TimerCmds, rawVars
  <1>9. /\ OnlyMoves(Len(stack) - 1, c) /\ Held[c] = {Len(stack)}
        /\ Len(stack) \notin 1 .. Len(stack) - 1 /\ Len(stack') = Len(stack) - 1
        /\ cmd_st[c] = "live" /\ c \notin TimerCmds
        /\ \A j \in ConnIds : c \notin Elems(reply_list_[j])
        /\ Calm(Len(stack) - 1)
    BY <1>1, <1>4, <1>8, GiveUp DEF rawVars
  <1>10. OncePart'
    <2>1. c \in Elems(reply_list_'[k]) /\ \A j \in ConnIds : c \in Elems(reply_list_'[j]) => j = k
      BY <1>6, <1>7, <1>9
    <2> QED
      BY <1>1, <1>2, <1>4, <1>8, <1>9, <2>1, MovedToList DEF IndInv, FlowInv
  <1>11. DistinctPart'
    <2>1. \A i \in 1 .. Len(l) : l[i] # c
      BY <1>2, <1>5, <1>9 DEF Elems, l
    <2>2. \A i, j \in DOMAIN l : l[i] = l[j] => i = j
      BY <1>2 DEF FlowInv, DistinctPart, l
    <2>3. /\ DOMAIN l = 1 .. Len(l) /\ DOMAIN Append(l, c) = 1 .. Len(l) + 1 /\ Len(l) \in Nat
          /\ Append(l, c)[Len(l) + 1] = c /\ \A i \in 1 .. Len(l) : Append(l, c)[i] = l[i]
      BY <1>5
    <2>4. \A i \in 1 .. Len(l) + 1 : i = Len(l) + 1 \/ i \in 1 .. Len(l)
      BY <2>3
    <2>5. \A i, j \in DOMAIN Append(l, c) : Append(l, c)[i] = Append(l, c)[j] => i = j
      BY <2>1, <2>2, <2>3, <2>4
    <2>6. timer_pending' = timer_pending
      BY <1>4 DEF rawVars
    <2> QED
      BY <1>6, <2>5, <2>6 DEF FlowInv, DistinctPart
  <1>12. SameLinks
    BY <1>4 DEF SameLinks
  <1>13. ShapePart'
    <2>1. \A j \in ConnIds : replies[j] = <<>> /\ disconnecting[j] => replies'[j] = <<>> /\ disconnecting'[j]
      BY <1>3, <1>4, <1>6 DEF k
    <2> QED
      BY <1>4, <1>9, <2>1, ShapeCalm DEF IndInv, FlowInv
  <1>14. CallbackPart' /\ ReleasePart'
    BY <1>4, <1>9, <1>12, CallbackCalm, ReleaseCalm DEF IndInv, FlowInv, rawVars
  <1>15. ConnsPart'
    <2>1. \A d \in Len(stack) - 1 .. Len(stack') - 1 : FALSE
      BY <1>2, <1>9
    <2>2. \A d \in 0 .. Len(stack') - 1 : Pile'[d].k <= nconn
      BY <1>9, <2>1, CalmTopOp, NumbersKept DEF IndInv, FlowInv
    <2>3. \A j \in ConnIds : j > nconn => reply_list_'[j] = reply_list_[j] /\ replies'[j] = replies[j]
      BY <1>2, <1>6, ConnNumber DEF IndInv, FlowInv, ConnIds
    <2> QED
      BY <1>4, <2>2, <2>3 DEF FlowInv, ConnsPart, rawVars
  <1>16. MatchPart'
    <2>1. \A j \in ConnIds : ~Delivers(j) /\ ~Delivers(j)'
      BY <1>9, NoDelivery DEF IndInv, FlowInv
    <2>2. Len(l) = 0 + Len(q) /\ \A i \in 1 .. Len(q) : l[0 + i] = q[i].c
      BY <1>2, <1>3, <2>1 DEF FlowInv, MatchPart, Shifted, l, q, k
    <2>3. /\ Len(l) = Len(q) /\ Len(q) \in Nat /\ \A i \in 1 .. Len(q) : l[i] = q[i].c
      BY <1>5, <2>2
    <2>4. /\ Len(Append(l, c)) = Len(q) + 1 /\ Len(Append(q, e)) = Len(q) + 1
          /\ Append(l, c)[Len(q) + 1] = c /\ Append(q, e)[Len(q) + 1] = e
          /\ \A i \in 1 .. Len(q) : Append(l, c)[i] = l[i] /\ Append(q, e)[i] = q[i]
      BY <1>5, <2>3
    <2>5. \A i \in 1 .. Len(q) + 1 : 0 + i = i /\ (i = Len(q) + 1 \/ i \in 1 .. Len(q))
      BY <2>3
    <2>6. \A i \in 1 .. Len(q) + 1 : Append(l, c)[0 + i] = Append(q, e)[i].c
      BY <1>5, <2>3, <2>4, <2>5
    <2>7. Len(Append(l, c)) = 0 + Len(Append(q, e))
      BY <2>3, <2>4
    <2>8. \A j \in ConnIds : j = k => Shifted(j, 0)'
      BY <1>6, <2>4, <2>6, <2>7 DEF Shifted
    <2>9. \A j \in ConnIds \ {k} : conn_status_'[j] # "DISCONNECTED" => Shifted(j, 0)'
      BY <1>4, <1>6, <2>1 DEF FlowInv, MatchPart, Shifted
    <2> QED
      BY <2>1, <2>8, <2>9 DEF MatchPart
  <1>17. OkMeansAnswered'
    BY <1>4, AnsweredSame DEF FlowInv
  <1> QED
    BY <1>10, <1>11, <1>13, <1>14, <1>15, <1>16, <1>17 DEF FlowInv

-----------------------------------------------------------------------------
(* New connections                                                         *)

\* A command is created for the call at height p; the running call, if it goes
\* on, keeps its own command.
LEMMA CreatedOnce ==
  ASSUME StackPart, OncePart, NEW h, Keep(h), Len(stack) <= h + 1,
         NEW a \in CmdIds, cmd_st[a] # "live", cmd_st'[a] = "live",
         \A e \in CmdIds \ {a} : cmd_st'[e] = cmd_st[e], UNCHANGED <<timer_pending, reply_list_>>,
         NEW p \in h .. Len(stack') - 1, Owner(Pile'[p], a),
         Len(stack) # h => /\ p # h /\ Top.op \in OwnerOps
                           /\ Pile'[h].op \in OwnerOps /\ Pile'[h].c = Top.c,
         \A d \in h .. Len(stack') - 1 :
           d = p \/ (d = h /\ Len(stack) # h) \/ Pile'[d].op \notin OwnerOps
  PROVE  OncePart'
  <1>1. /\ h \in Nat /\ Len(stack) \in Nat /\ Len(stack') \in Nat
        /\ \A d \in 0 .. Len(stack') - 1 :
             \/ d < h /\ d \in 0 .. Len(stack) - 1 /\ Pile'[d] = Pile[d]
             \/ d >= h /\ d \in h .. Len(stack') - 1
        /\ \A d \in 0 .. Len(stack) - 1 :
             \/ d < h /\ d \in 0 .. Len(stack') - 1 /\ Pile'[d] = Pile[d]
             \/ d = h /\ d = Len(stack) - 1 /\ Pile[d] = Top
    BY KeptFrames
  <1>2. TimerCmds' = TimerCmds
    BY DEF TimerCmds
  <1>3. Held[a] = {} /\ a \notin TimerCmds /\ \A k \in ConnIds : a \notin Elems(reply_list_[k])
    BY HeldNowhere
  <1>4. Len(stack) # h => h \in 0 .. Len(stack) - 1 /\ Pile[h] = Top /\ h <= Len(stack') - 1
    <2> SUFFICES ASSUME Len(stack) # h PROVE h \in 0 .. Len(stack) - 1 /\ Pile[h] = Top /\ h <= Len(stack') - 1
      OBVIOUS
    <2>1. h \in 0 .. Len(stack) - 1 /\ ~(h < h) /\ h <= Len(stack') - 1
      BY <1>1 DEF Keep
    <2> QED
      BY <1>1, <2>1
  <1>5. ASSUME NEW d \in 0 .. Len(stack) - 1 PROVE ~Owner(Pile[d], a)
    <2>1. d + 1 \in 1 .. Len(stack) /\ (d + 1) - 1 = d
      BY <1>1
    <2> QED
      BY <1>1, <1>3, <2>1, HeldPlaces
  <1>6. ASSUME NEW e \in CmdIds \ {a} PROVE Held'[e] = Held[e]
    <2>1. ASSUME NEW d \in h .. Len(stack) - 1, Owner(Pile[d], e)
          PROVE  d <= Len(stack') - 1 /\ Owner(Pile'[d], e)
      <3>0. \A m, n \in Nat : \A i \in m .. n - 1 : n <= m + 1 => i = m /\ n # m
        OBVIOUS
      <3>1. d = h /\ Len(stack) # h
        BY <1>1, <3>0
      <3> QED
        BY <1>4, <2>1, <3>1 DEF Owner
    <2>2. ASSUME NEW d \in h .. Len(stack') - 1, Owner(Pile'[d], e)
          PROVE  d <= Len(stack) - 1 /\ Owner(Pile[d], e)
      <3>1. d = h /\ Len(stack) # h
        BY <2>2 DEF Owner
      <3>2. h <= Len(stack) - 1
        BY <1>1, <1>4, <3>1
      <3> QED
        BY <1>4, <2>2, <3>1, <3>2 DEF Owner
    <2> QED
      BY <1>2, <2>1, <2>2, HeldByCalls
  <1>7. Held'[a] = {p + 1}
    <2>1. p + 1 \in 1 .. Len(stack') /\ (p + 1) - 1 = p
      BY <1>1
    <2>2. p + 1 \in Held'[a]
      BY <1>1, <2>1, HeldPlacesNext
    <2>3. ASSUME NEW x \in Held'[a] PROVE x = p + 1
      <3>1. x \in 1 .. Len(stack') /\ Owner(Pile'[x - 1], a)
        BY <1>1, <1>2, <1>3, HeldPlacesNext
      <3>2. x - 1 \in 0 .. Len(stack') - 1 /\ x \in Int
        BY <1>1, <3>1
      <3>3. x - 1 \in h .. Len(stack') - 1
        BY <1>1, <1>5, <3>1, <3>2
      <3>4. ~(x - 1 = h /\ Len(stack) # h)
        BY <1>4, <1>5, <3>1 DEF Owner
      <3>5. x - 1 = p
        BY <3>1, <3>3, <3>4 DEF Owner
      <3> QED
        BY <1>1, <3>2, <3>5
    <2> QED
      BY <2>2, <2>3
  <1> QED
    BY <1>6, <1>7, OnceMoved

\* A connection is made: it is the only one with a status, and the frames
\* that follow are calm.
LEMMA ConnectFlow ==
  ASSUME IndInv, FlowInv, NEW k, k = nconn + 1, conn_ = 0, nconn < MaxConns,
         make_connection(k), UNCHANGED timer_pending, NEW h, Calm(h),
         \A j \in ConnIds : notified[j] \subseteq notified'[j], OncePart'
  PROVE  FlowInv'
  <1>1. k \in ConnIds /\ nconn \in Nat /\ nconn' = k /\ conn_' = k /\ k # 0 /\ k > nconn
    BY BoundsAssumption DEF IndInv, RawPart, ConnIds, BoundsAssumption, make_connection
  <1>2. /\ UNCHANGED <<disconnecting, in_callback, ctx_err, replies, reply_list_>>
        /\ ctx_st' = [ctx_st EXCEPT ![k] = "connecting"]
        /\ conn_st' = [conn_st EXCEPT ![k] = "live"]
        /\ context_' = [context_ EXCEPT ![k] = TRUE]
        /\ conn_status_' = [conn_status_ EXCEPT ![k] = "CONNECTING"]
    BY DEF make_connection, redisAsyncConnect, set_connecting
  <1>3. /\ ctx_st'[k] = "connecting" /\ conn_st'[k] = "live" /\ context_'[k]
        /\ conn_status_'[k] = "CONNECTING"
        /\ \A j \in ConnIds \ {k} :
             /\ ctx_st'[j] = ctx_st[j] /\ conn_st'[j] = conn_st[j]
             /\ context_'[j] = context_[j] /\ conn_status_'[j] = conn_status_[j]
    BY <1>1, <1>2 DEF IndInv, ContextPart, ConnPart
  <1>4. \A j \in ConnIds : conn_status_[j] = "DISCONNECTED" /\ conn_st[j] # "live" /\ j # 0
    BY DEF FlowInv, ConnsPart, ConnIds
  <1>5. replies[k] = <<>> /\ reply_list_[k] = <<>>
    BY <1>1 DEF FlowInv, ConnsPart
  <1>6. ShapePart' /\ CallbackPart'
    BY <1>2, ShapeCalm, CallbackCalm DEF IndInv, FlowInv
  <1>7. /\ \A d \in 0 .. Len(stack') - 1 :
             \/ d \in 0 .. Len(stack) - 1 /\ Pile'[d] = Pile[d]
             \/ /\ Pile'[d].k <= nconn'
                /\ Pile'[d].op \in CalmOps \/ Pile'[d].op \in {"proc", "proc_conn"}
    BY CalmFrames DEF IndInv
  <1>8. \A d \in 0 .. Len(stack) - 1 :
          Pile[d].k \in Nat /\ Pile[d].k <= nconn /\ Pile[d].op \notin ReleaseOps
    <2>1. \A d \in 0 .. Len(stack) - 1 : Pile[d].k \in Nat
      BY PileType DEF IndInv, GoodFrame, Good, Frame, ConnIds
    <2> QED
      BY <2>1 DEF FlowInv, ConnsPart, ReleasePart
  <1>9. ConnsPart'
    <2>1. \A d \in 0 .. Len(stack') - 1 : Pile'[d].k <= nconn'
      BY <1>1, <1>7, <1>8
    <2>2. \A j \in ConnIds : (j > k <=> j > nconn /\ j # k)
      BY <1>1 DEF ConnIds
    <2> QED
      BY <1>1, <1>2, <1>3, <1>4, <2>1, <2>2 DEF FlowInv, ConnsPart
  <1>10. ReleasePart'
    <2>1. \A d \in 0 .. Len(stack') - 1 : Pile'[d].op \notin ReleaseOps
      BY <1>7, <1>8 DEF CalmOps, ReleaseOps
    <2>2. ASSUME NEW d \in 0 .. Len(stack') - 1, Pile'[d].op = "connection_release"
          PROVE  conn_status_'[Pile'[d].k] = "DISCONNECTED"
      <3>1. d \in 0 .. Len(stack) - 1 /\ Pile'[d] = Pile[d]
        BY <1>7, <2>2 DEF CalmOps
      <3>2. Pile[d].k \in ConnIds /\ Pile[d].k # k
        BY <1>1, <1>8, <2>2, <3>1, PileType DEF IndInv, GoodFrame, Good, ConnOps
      <3> QED
        BY <1>3, <1>4, <3>1, <3>2
    <2>3. EndIsReported'
      <3> SUFFICES ASSUME NEW j \in ConnIds, conn_st'[j] = "freed"
                   PROVE  notified'[j] \cap {"failed", "disconnected"} # {}
        BY DEF EndIsReported
      <3>1. conn_st[j] = "freed"
        BY <1>3
      <3> QED
        BY <3>1 DEF FlowInv, ReleasePart, EndIsReported
    <2>4. \A d \in 0 .. Len(stack') - 1 : Pile'[d].op # "release_end"
      BY <2>1 DEF ReleaseOps
    <2> QED
      BY <1>1, <1>3, <2>1, <2>2, <2>3, <2>4 DEF ReleasePart
  <1>11. MatchPart'
    <2>1. \A j \in ConnIds : ~Delivers(j)'
      BY NoDelivery DEF IndInv, FlowInv
    <2>2. \A j \in ConnIds : conn_status_'[j] # "DISCONNECTED" => j = k
      BY <1>3, <1>4
    <2>3. Shifted(k, 0)'
      BY <1>2, <1>5 DEF Shifted
    <2> QED
      BY <2>1, <2>2, <2>3 DEF MatchPart
  <1>12. DistinctPart'
    BY <1>2, DistinctSame DEF FlowInv
  <1>13. OkMeansAnswered'
    <2>1. AuthCmd(k) \in CmdIds
      BY <1>1, BoundsAssumption DEF AuthCmd, CmdIds, ConnIds, BoundsAssumption
    <2>2. CASE Auth
      BY <2>1, <2>2, AnsweredCreated DEF make_connection, IndInv, FlowInv
    <2>3. CASE ~Auth
      BY <2>3, AnsweredSame DEF make_connection, FlowInv, cmdVars
    <2> QED
      BY <2>2, <2>3
  <1> QED
    BY <1>6, <1>9, <1>10, <1>11, <1>12, <1>13 DEF FlowInv

\* The frames of make_connection, and what comes after them.
LEMMA SameElements ==
  ASSUME NEW S, NEW s \in Seq(S), NEW t \in Seq(S), Len(s) = Len(t),
         \A i \in 1 .. Len(s) : s[i] = t[i]
  PROVE  s = t
  OBVIOUS

LEMMA Pair == ASSUME NEW x, NEW y PROVE <<x>> \o <<y>> = <<x, y>>
  <1> DEFINE s == <<x>> \o <<y>>
             t == <<x, y>>
  <1>1. s \in Seq({x, y}) /\ Len(s) = 2 /\ s[1] = x /\ s[2] = y
    OBVIOUS
  <1>2. t \in Seq({x, y}) /\ Len(t) = 2 /\ t[1] = x /\ t[2] = y
    OBVIOUS
  <1> HIDE DEF s, t
  <1>3. \A i \in 1 .. Len(s) : i = 1 \/ i = 2
    BY <1>1
  <1>4. s = t
    BY <1>1, <1>2, <1>3, SameElements
  <1> QED
    BY <1>4 DEF s, t

LEMMA Triple == ASSUME NEW x, NEW y, NEW z PROVE <<x, y>> \o <<z>> = <<x, y, z>>
  <1> DEFINE s == <<x, y>> \o <<z>>
             t == <<x, y, z>>
  <1>1. s \in Seq({x, y, z}) /\ Len(s) = 3 /\ s[1] = x /\ s[2] = y /\ s[3] = z
    OBVIOUS
  <1>2. t \in Seq({x, y, z}) /\ Len(t) = 3 /\ t[1] = x /\ t[2] = y /\ t[3] = z
    OBVIOUS
  <1> HIDE DEF s, t
  <1>3. \A i \in 1 .. Len(s) : i = 1 \/ i = 2 \/ i = 3
    BY <1>1
  <1>4. s = t
    BY <1>1, <1>2, <1>3, SameElements
  <1> QED
    BY <1>4 DEF s, t

LEMMA ConnectFramesAre ==
  ASSUME NEW k, NEW f
  PROVE  LET a == F("exec_conn", AuthCmd(k), k, "none")
             u == F("user", 0, k, "on_connect")
         IN  /\ ConnectFrames(k) = IF Auth THEN <<a, u>> ELSE <<u>>
             /\ ConnectFrames(k) \o <<f>> = IF Auth THEN <<a, u, f>> ELSE <<u, f>>
  <1> DEFINE a == F("exec_conn", AuthCmd(k), k, "none")
             u == F("user", 0, k, "on_connect")
  <1>1. ConnectFrames(k) = (IF Auth THEN <<a>> ELSE <<>>) \o <<u>>
    BY DEF ConnectFrames
  <1> HIDE DEF a, u
  <1>2. <<>> \o <<u>> = <<u>>
    OBVIOUS
  <1>3. ConnectFrames(k) = IF Auth THEN <<a, u>> ELSE <<u>>
    BY <1>1, <1>2, Pair
  <1>4. ConnectFrames(k) \o <<f>> = IF Auth THEN <<a, u, f>> ELSE <<u, f>>
    BY <1>3, Pair, Triple
  <1> QED
    BY <1>3, <1>4 DEF a, u

LEMMA PileContinueThree ==
  ASSUME StackPart, stack # <<>>, NEW f, NEW g, NEW l, Continue(<<f, g, l>>)
  PROVE  /\ Keep(Len(stack) - 1) /\ Len(stack') = Len(stack) + 2
         /\ Pile'[Len(stack) + 1] = f /\ Pile'[Len(stack)] = g /\ Pile'[Len(stack) - 1] = l
  <1> DEFINE fs == <<f, g, l>>
  <1>1. fs \in Seq({f, g, l}) /\ Len(fs) = 3 /\ fs[1] = f /\ fs[2] = g /\ fs[3] = l
    OBVIOUS
  <1>2. Continue(fs)
    OBVIOUS
  <1> HIDE DEF fs
  <1>3. /\ Keep(Len(stack) - 1) /\ Len(stack') = Len(stack) - 1 + Len(fs)
        /\ \A i \in 1 .. Len(fs) : Pile'[Len(stack) - 1 + Len(fs) - i] = fs[i]
    BY <1>1, <1>2, PileContinue
  <1> QED
    BY <1>1, <1>3, PileType

\* The number of a new connection and its AUTH command.
LEMMA NewConnection ==
  ASSUME IndInv, NEW k, k = nconn + 1, nconn < MaxConns, make_connection(k)
  PROVE  /\ k \in ConnIds /\ nconn' = k /\ 0 <= k
         /\ UNCHANGED reply_list_
         /\ ~Auth => UNCHANGED cmd_st
         /\ Auth => /\ AuthCmd(k) \in CmdIds /\ cmd_st[AuthCmd(k)] # "live"
                    /\ cmd_st'[AuthCmd(k)] = "live"
                    /\ \A e \in CmdIds \ {AuthCmd(k)} : cmd_st'[e] = cmd_st[e]
  <1>1. k \in ConnIds /\ 0 <= k /\ nconn' = k
    BY BoundsAssumption DEF IndInv, RawPart, ConnIds, BoundsAssumption, make_connection
  <1>2. AuthCmd(k) \in CmdIds /\ cmd_st[AuthCmd(k)] = "none"
    BY BoundsAssumption DEF IndInv, RawPart, FreshPart, ConnIds, CmdIds, AuthCmd,
       BoundsAssumption
  <1> QED
    BY <1>1, <1>2 DEF make_connection, set_connecting, create, cmdVars, IndInv, CmdPart

\* The application connects.
LEMMA UserConnectFlow == ASSUME IndInv, FlowInv, UserConnect PROVE FlowInv'
  <1>0. \E k : k = nconn + 1
    OBVIOUS
  <1>1. PICK k : k = nconn + 1
    BY <1>0
  <1> DEFINE a == F("exec_conn", AuthCmd(k), k, "none")
             b == F("destroy_cmd", AuthCmd(k), 0, "none")
             u == F("user", 0, k, "on_connect")
  <1>2. /\ InUser /\ conn_ = 0 /\ nconn < MaxConns /\ make_connection(k) /\ UNCHANGED timer_pending
        /\ \/ Auth /\ Call(<<a, u>>)
           \/ Auth /\ Call(<<b>>)
           \/ ~Auth /\ Call(<<u>>)
    BY <1>1, ConnectFramesAre DEF UserConnect
  <1>3. /\ k \in ConnIds /\ nconn' = k /\ 0 <= k /\ UNCHANGED reply_list_
        /\ ~Auth => UNCHANGED cmd_st
        /\ Auth => /\ AuthCmd(k) \in CmdIds /\ cmd_st[AuthCmd(k)] # "live"
                   /\ cmd_st'[AuthCmd(k)] = "live"
                   /\ \A e \in CmdIds \ {AuthCmd(k)} : cmd_st'[e] = cmd_st[e]
    BY <1>1, <1>2, NewConnection
  <1>4. \A j \in ConnIds : notified[j] \subseteq notified'[j]
    BY <1>1, <1>3 DEF UserConnect, Notify, IndInv, RawPart
  <1>5. k <= k /\ 0 <= k /\ Len(stack) \in Nat /\ StackPart /\ OncePart
    BY <1>3, PileType DEF ConnIds, IndInv, FlowInv
  <1>6. /\ a.op \in CalmOps /\ a.k <= k /\ Owner(a, AuthCmd(k))
        /\ b.op \in CalmOps /\ b.k <= k /\ Owner(b, AuthCmd(k))
        /\ u.op \in CalmOps /\ u.k <= k /\ u.op \notin OwnerOps
    BY <1>5 DEF F, CalmOps, OwnerOps, Owner
  <1> HIDE DEF a, b, u
  <1>7. Len(stack) > 0 => Pile[Len(stack) - 1].op \notin Deliver
    BY <1>2, UserTop DEF IndInv
  <1>8. CASE Auth /\ Call(<<a, u>>)
    <2>1. Keep(Len(stack)) /\ Len(stack') = Len(stack) + 2 /\ Pile'[Len(stack) + 1] = a /\ Pile'[Len(stack)] = u
      BY <1>5, <1>8, PileCallTwo
    <2>2. \A d \in Len(stack) .. Len(stack') - 1 : d = Len(stack) \/ d = Len(stack) + 1
      BY <1>5, <2>1
    <2>3. Calm(Len(stack))
      BY <1>3, <1>6, <1>7, <2>1, <2>2 DEF Calm
    <2>4. Len(stack) + 1 \in Len(stack) .. Len(stack') - 1 /\ Len(stack) <= Len(stack) + 1
      BY <1>5, <2>1
    <2>5. OncePart'
      BY <1>2, <1>3, <1>5, <1>6, <1>8, <2>1, <2>2, <2>4, CreatedOnce
    <2> QED
      BY <1>1, <1>2, <1>4, <2>3, <2>5, ConnectFlow
  <1>9. CASE Auth /\ Call(<<b>>)
    <2>1. Keep(Len(stack)) /\ Len(stack') = Len(stack) + 1 /\ Pile'[Len(stack)] = b
      BY <1>5, <1>9, PileCallOne
    <2>2. \A d \in Len(stack) .. Len(stack') - 1 : d = Len(stack)
      BY <1>5, <2>1
    <2>3. Calm(Len(stack))
      BY <1>3, <1>6, <1>7, <2>1, <2>2 DEF Calm
    <2>4. Len(stack) \in Len(stack) .. Len(stack') - 1 /\ Len(stack) <= Len(stack) + 1
      BY <1>5, <2>1
    <2>5. OncePart'
      BY <1>2, <1>3, <1>5, <1>6, <1>9, <2>1, <2>2, <2>4, CreatedOnce
    <2> QED
      BY <1>1, <1>2, <1>4, <2>3, <2>5, ConnectFlow
  <1>10. CASE ~Auth /\ Call(<<u>>)
    <2>1. Keep(Len(stack)) /\ Len(stack') = Len(stack) + 1 /\ Pile'[Len(stack)] = u
      BY <1>5, <1>10, PileCallOne
    <2>2. \A d \in Len(stack) .. Len(stack') - 1 : d = Len(stack)
      BY <1>5, <2>1
    <2>3. Calm(Len(stack)) /\ Len(stack) <= Len(stack) + 1
      BY <1>3, <1>5, <1>6, <1>7, <2>1, <2>2 DEF Calm
    <2>4. OncePart'
      BY <1>2, <1>3, <1>5, <1>6, <1>10, <2>1, <2>2, <2>3, QuietOnce
    <2> QED
      BY <1>1, <1>2, <1>4, <2>3, <2>4, ConnectFlow
  <1> QED
    BY <1>2, <1>8, <1>9, <1>10

\* exec() without a connection.
LEMMA ExecConnectFlow == ASSUME IndInv, FlowInv, exec_connect PROVE FlowInv'
  <1>0. \E k : k = nconn + 1
    OBVIOUS
  <1>1. PICK k : k = nconn + 1
    BY <1>0
  <1> DEFINE a == F("exec_conn", AuthCmd(k), k, "none")
             u == F("user", 0, k, "on_connect")
             f == F("exec_conn", Top.c, k, "none")
  <1>2. /\ conn_ = 0 /\ nconn < MaxConns /\ make_connection(k) /\ UNCHANGED timer_pending
        /\ \/ Auth /\ Continue(<<a, u, f>>)
           \/ ~Auth /\ Continue(<<u, f>>)
    BY <1>1, ConnectFramesAre DEF exec_connect
  <1>3. /\ k \in ConnIds /\ nconn' = k /\ 0 <= k /\ UNCHANGED reply_list_
        /\ ~Auth => UNCHANGED cmd_st
        /\ Auth => /\ AuthCmd(k) \in CmdIds /\ cmd_st[AuthCmd(k)] # "live"
                   /\ cmd_st'[AuthCmd(k)] = "live"
                   /\ \A e \in CmdIds \ {AuthCmd(k)} : cmd_st'[e] = cmd_st[e]
    BY <1>1, <1>2, NewConnection
  <1>4. \A j \in ConnIds : notified[j] \subseteq notified'[j]
    BY <1>1, <1>3 DEF exec_connect, Notify, IndInv, RawPart
  <1>5. /\ k <= k /\ 0 <= k /\ Len(stack) \in Nat /\ Len(stack) >= 1 /\ StackPart /\ OncePart
        /\ stack # <<>> /\ Owner(Top, Top.c)
    BY <1>3, TopOwns, PileType DEF ConnIds, IndInv, FlowInv, exec_connect, OwnerOps
  <1>6. /\ a.op \in CalmOps /\ a.k <= k /\ Owner(a, AuthCmd(k))
        /\ f.op \in CalmOps /\ f.k <= k /\ Owner(f, Top.c)
        /\ u.op \in CalmOps /\ u.k <= k /\ u.op \notin OwnerOps
    BY <1>5 DEF F, CalmOps, OwnerOps, Owner
  <1> HIDE DEF a, u, f
  <1>7. Top.op \in CalmOps /\ Top.op \in OwnerOps
    BY <1>5 DEF Owner, OwnerOps, CalmOps
  <1>8. CASE Auth /\ Continue(<<a, u, f>>)
    <2>1. /\ Keep(Len(stack) - 1) /\ Len(stack') = Len(stack) + 2
          /\ Pile'[Len(stack) + 1] = a /\ Pile'[Len(stack)] = u /\ Pile'[Len(stack) - 1] = f
      BY <1>5, <1>8, PileContinueThree
    <2>2. \A d \in Len(stack) - 1 .. Len(stack') - 1 :
            d = Len(stack) - 1 \/ d = Len(stack) \/ d = Len(stack) + 1
      BY <1>5, <2>1
    <2>3. Calm(Len(stack) - 1)
      BY <1>3, <1>5, <1>6, <1>7, <2>1, <2>2, CalmTop
    <2>4. /\ Len(stack) + 1 \in Len(stack) - 1 .. Len(stack') - 1 /\ Len(stack) <= (Len(stack) - 1) + 1
          /\ Len(stack) + 1 # Len(stack) - 1 /\ Len(stack) # Len(stack) - 1
      BY <1>5, <2>1
    <2>5. \A d \in Len(stack) - 1 .. Len(stack') - 1 :
            \/ d = Len(stack) + 1
            \/ d = Len(stack) - 1 /\ Len(stack) # Len(stack) - 1
            \/ Pile'[d].op \notin OwnerOps
      BY <1>6, <2>1, <2>2, <2>4
    <2>6. /\ Owner(Pile'[Len(stack) + 1], AuthCmd(k))
          /\ Pile'[Len(stack) - 1].op \in OwnerOps /\ Pile'[Len(stack) - 1].c = Top.c
      BY <1>6, <2>1 DEF Owner
    <2>7. OncePart'
      BY <1>2, <1>3, <1>5, <1>7, <1>8, <2>1, <2>4, <2>5, <2>6, CreatedOnce
    <2> QED
      BY <1>1, <1>2, <1>4, <2>3, <2>7, ConnectFlow
  <1>9. CASE ~Auth /\ Continue(<<u, f>>)
    <2>1. /\ Keep(Len(stack) - 1) /\ Len(stack') = Len(stack) + 1
          /\ Pile'[Len(stack)] = u /\ Pile'[Len(stack) - 1] = f
      BY <1>5, <1>9, PileContinueTwo
    <2>2. /\ \A d \in Len(stack) - 1 .. Len(stack') - 1 : d = Len(stack) - 1 \/ d = Len(stack)
          /\ \A d \in Len(stack) .. Len(stack') - 1 : d = Len(stack)
          /\ Len(stack') >= Len(stack)
      BY <1>5, <2>1
    <2>3. Calm(Len(stack) - 1)
      BY <1>3, <1>5, <1>6, <1>7, <2>1, <2>2, CalmTop
    <2>4. OncePart'
      BY <1>2, <1>3, <1>5, <1>6, <1>9, <2>1, <2>2, PassedOnce
    <2> QED
      BY <1>1, <1>2, <1>4, <2>3, <2>4, ConnectFlow
  <1> QED
    BY <1>2, <1>8, <1>9

LEMMA ExecAuthFormatFailedFlow == ASSUME IndInv, FlowInv, exec_auth_format_failed PROVE FlowInv'
  <1>0. \E k : k = nconn + 1
    OBVIOUS
  <1>1. PICK k : k = nconn + 1
    BY <1>0
  <1> DEFINE a == F("destroy_cmd", AuthCmd(k), 0, "none")
             f == F("exec_failed", Top.c, 0, "none")
  <1>2. /\ conn_ = 0 /\ nconn < MaxConns /\ make_connection(k) /\ UNCHANGED timer_pending
        /\ Auth /\ Continue(<<a, f>>)
    BY <1>1 DEF exec_auth_format_failed
  <1>3. /\ k \in ConnIds /\ nconn' = k /\ 0 <= k /\ UNCHANGED reply_list_
        /\ AuthCmd(k) \in CmdIds /\ cmd_st[AuthCmd(k)] # "live"
        /\ cmd_st'[AuthCmd(k)] = "live"
        /\ \A e \in CmdIds \ {AuthCmd(k)} : cmd_st'[e] = cmd_st[e]
    BY <1>1, <1>2, NewConnection
  <1>4. \A j \in ConnIds : notified[j] \subseteq notified'[j]
    BY DEF exec_auth_format_failed
  <1>5. /\ Len(stack) \in Nat /\ Len(stack) >= 1 /\ StackPart /\ OncePart
        /\ stack # <<>> /\ Owner(Top, Top.c)
    BY <1>3, TopOwns, PileType DEF IndInv, FlowInv, exec_auth_format_failed, OwnerOps
  <1>6. /\ a.op \in CalmOps /\ a.k <= k /\ Owner(a, AuthCmd(k))
        /\ f.op \in CalmOps /\ f.k <= k /\ Owner(f, Top.c)
    BY <1>3 DEF F, CalmOps, OwnerOps, Owner
  <1> HIDE DEF a, f
  <1>7. Top.op \in CalmOps /\ Top.op \in OwnerOps
    BY <1>5 DEF Owner, OwnerOps, CalmOps
  <1>8. /\ Keep(Len(stack) - 1) /\ Len(stack') = Len(stack) + 1
        /\ Pile'[Len(stack)] = a /\ Pile'[Len(stack) - 1] = f
    BY <1>2, <1>5, PileContinueTwo
  <1>9. \A d \in Len(stack) - 1 .. Len(stack') - 1 : d = Len(stack) - 1 \/ d = Len(stack)
    BY <1>5, <1>8
  <1>10. Calm(Len(stack) - 1)
    BY <1>3, <1>5, <1>6, <1>7, <1>8, <1>9, CalmTop
  <1>11. /\ Len(stack) \in Len(stack) - 1 .. Len(stack') - 1 /\ Len(stack) <= (Len(stack) - 1) + 1
         /\ Len(stack) # Len(stack) - 1
    BY <1>5, <1>8
  <1>12. OncePart'
    BY <1>2, <1>3, <1>5, <1>6, <1>7, <1>8, <1>9, <1>11, CreatedOnce DEF Owner
  <1> QED
    BY <1>1, <1>2, <1>4, <1>10, <1>12, ConnectFlow

-----------------------------------------------------------------------------
(* All steps                                                               *)

\* The invariant says nothing about ub.
LEMMA SameFlow ==
  ASSUME IndInv, FlowInv, UNCHANGED <<stack, cmdVars, hiredisVars, connVars, rawVars>>
  PROVE  FlowInv'
  <1>1. Pile' = Pile /\ Held' = Held /\ TimerCmds' = TimerCmds
    BY DEF Pile, Held, TimerCmds, connVars, rawVars
  <1>2. ShapePart' /\ CallbackPart' /\ ConnsPart' /\ ReleasePart'
    BY <1>1 DEF FlowInv, ShapePart, ShapeAt, CallbackPart, ConnsPart, ReleasePart, EndIsReported,
       hiredisVars, connVars, rawVars
  <1>3. MatchPart' /\ OncePart' /\ DistinctPart' /\ OkMeansAnswered'
    BY <1>1 DEF FlowInv, MatchPart, Delivers, Shifted, OncePart, DistinctPart, OkMeansAnswered,
       cmdVars, hiredisVars, connVars, rawVars
  <1> QED
    BY <1>2, <1>3 DEF FlowInv

LEMMA CrashFlow == ASSUME IndInv, FlowInv, Crash PROVE FlowInv'
  <1>1. UNCHANGED <<stack, cmdVars, hiredisVars, connVars, rawVars>>
    BY DEF Crash, UseAfterFree, cmdVars, hiredisVars, connVars, rawVars
  <1> QED
    BY <1>1, SameFlow

LEMMA InitFlow == Init => FlowInv
  <1> SUFFICES ASSUME Init PROVE FlowInv
    OBVIOUS
  <1>1. Len(stack) = 0 /\ conn_ = 0 /\ nconn = 0 /\ timer_pending = <<>>
    BY DEF Init, RuntimeInit
  <1>2. \A d \in 0 .. Len(stack) - 1 : FALSE
    BY <1>1
  <1>3. \A k \in ConnIds :
          /\ reply_list_[k] = <<>> /\ replies[k] = <<>> /\ conn_status_[k] = "DISCONNECTED"
          /\ conn_st[k] = "none" /\ ctx_st[k] = "none" /\ ~disconnecting[k] /\ ~in_callback[k]
          /\ k > 0 /\ k # 0
    BY DEF Init, RuntimeInit, HiredisInit, ConnInit, ConnIds
  <1>4. ShapePart /\ CallbackPart /\ ConnsPart /\ ReleasePart /\ MatchPart
    BY <1>1, <1>2, <1>3 DEF ShapePart, CallbackPart, ConnsPart, ReleasePart, EndIsReported, MatchPart
  <1>5. DOMAIN timer_pending = {} /\ \A k \in ConnIds : DOMAIN reply_list_[k] = {}
    BY <1>1, <1>3
  <1>6. OncePart
    <2> SUFFICES ASSUME NEW c \in CmdIds PROVE cmd_st[c] # "live" /\ Held[c] = {}
      BY DEF OncePart
    <2>1. cmd_st[c] = "none"
      BY DEF Init, RuntimeInit
    <2>2. c \notin TimerCmds /\ \A k \in ConnIds : c \notin Elems(reply_list_[k])
      BY <1>5 DEF TimerCmds, Elems
    <2>3. Len(stack) \in Nat /\ \A x \in 1 .. Len(stack) : FALSE
      BY <1>1
    <2>4. \A x \in Held[c] : FALSE
      BY <2>2, <2>3, HeldPlaces
    <2> QED
      BY <2>1, <2>4
  <1>7. DistinctPart
    BY <1>5 DEF DistinctPart
  <1>8. OkMeansAnswered
    BY DEF OkMeansAnswered, Init, CmdInit
  <1> QED
    BY <1>4, <1>6, <1>7, <1>8 DEF FlowInv

LEMMA LibraryStepFlow == ASSUME IndInv, FlowInv, LibraryStep PROVE FlowInv'
  BY ExecFlow, ExecConnectFlow, ExecAuthFormatFailedFlow, ExecConnectFailedFlow, ExecConnFlow,
     ExecConnClosingFlow, ExecConnFailedFlow, RetryFlow, DestroyCmdFlow, DestroyFlow,
     ReleaseConnectionFlow, ReleaseEventFlow, ReleaseEndFlow, ConnectionReleaseFlow, ResetFlow,
     ProcFlow, ProcConnFlow, ProcClearFlow, OnReplyFlow, OnConnectedFlow, OnConnectedEndFlow,
     OnDisconnectedFlow, CallReplyFlow, PopReplyFlow, DisconnectFlow, CallbackEndFlow,
     ConnectFailedEndFlow, FreeContextFlow, FreeContextEndFlow
  DEF LibraryStep

LEMMA NextFlow == ASSUME IndInv, FlowInv, [Next]_vars PROVE FlowInv'
  <1>1. CASE LibraryStep
    BY <1>1, LibraryStepFlow
  <1>2. CASE NetworkStep
    BY <1>2, ConnectOutcomeFlow, ReplyArrivesFlow, ConnectionLostFlow DEF NetworkStep
  <1>3. CASE Proc
    BY <1>3, UserProcFlow DEF Proc
  <1>4. CASE UserReturn \/ UserExec \/ UserConnect \/ UserRelease \/ UserReset
    BY <1>4, UserReturnFlow, UserExecFlow, UserConnectFlow, UserReleaseFlow, UserResetFlow
  <1>5. CASE Crash \/ Idle \/ UNCHANGED vars
    BY <1>5, CrashFlow, SameFlow DEF Idle, vars, stackVars
  <1> QED
    BY <1>1, <1>2, <1>3, <1>4, <1>5 DEF Next

\* Whatever the application, the network and the timers do, the calls that are
\* under way, the connection and the queues stay in step.
THEOREM FlowInvariance == Spec => [](IndInv /\ FlowInv)
  <1>1. Init => FlowInv
    BY InitFlow
  <1>2. IndInv /\ FlowInv /\ [Next]_vars => FlowInv'
    BY NextFlow
  <1> QED
    BY <1>1, <1>2, Invariance, PTL DEF Spec

-----------------------------------------------------------------------------
(* What follows                                                            *)

\* No callback ever reports OK for a command the server has not answered:
\* Translate hands the command's code on only when the context has no error,
\* and a null reply comes from a broken context only.
THEOREM OkIsAnswered == Spec => []OkMeansAnswered
  <1>1. FlowInv => OkMeansAnswered
    BY DEF FlowInv
  <1> QED
    BY <1>1, FlowInvariance, PTL

\* Every connection object that has been destroyed was reported to the
\* application as failed or disconnected before.
THEOREM EndReported == Spec => []EndIsReported
  <1>1. FlowInv => EndIsReported
    BY DEF FlowInv, ReleasePart
  <1> QED
    BY <1>1, FlowInvariance, PTL

\* The assertion in raw::proc and what it takes for granted: a connection that
\* times out has its context, is not in one of hiredis's callbacks, and is
\* still connecting.
LEMMA ProcAsserts == ASSUME IndInv, FlowInv PROVE ProcAssertion
  <1> SUFFICES ASSUME At("proc_conn"), timer_conn.timeout # 0, conn_ # 0,
                      sequence_[conn_] = timer_conn.sequence
               PROVE  context_[conn_] /\ ~in_callback[conn_] /\ conn_status_[conn_] = "CONNECTING"
    BY DEF ProcAssertion
  <1>1. stack # <<>> /\ Top.op = "proc_conn" /\ conn_ \in ConnIds
    BY DEF At, Running, IndInv, RawPart
  <1>2. Len(stack) \in Nat /\ Len(stack) >= 1 /\ Pile[Len(stack) - 1] = Top
    BY <1>1, PileType DEF IndInv
  <1>3. Len(stack) - 1 \in 0 .. Len(stack) - 1
    BY <1>2
  <1>4. Len(stack) - 1 = 0
    BY <1>1, <1>2, <1>3 DEF FlowInv, ShapePart, ShapeAt, BottomOps
  <1>5. \A d \in 0 .. Len(stack) - 1 : d = 0 /\ Pile[d].op = "proc_conn"
    <2>0. \A n \in Nat : n - 1 = 0 => \A d \in 0 .. n - 1 : d = n - 1
      OBVIOUS
    <2>1. \A d \in 0 .. Len(stack) - 1 : d = Len(stack) - 1
      BY <1>2, <1>4, <2>0
    <2> QED
      BY <1>1, <1>2, <1>4, <2>1
  <1>6. ~in_callback[conn_]
    BY <1>1, <1>5 DEF FlowInv, CallbackPart, HiredisOps
  <1>7. conn_status_[conn_] # "DISCONNECTED"
    BY <1>5 DEF FlowInv, ReleasePart, ReleaseOps
  <1>8. conn_status_[conn_] # "CONNECTED"
    BY DEF IndInv, SequencePart, TimeoutSparesEstablished
  <1> QED
    BY <1>1, <1>6, <1>7, <1>8 DEF FlowInv, ConnsPart, IndInv, ConnPart, Statuses

\* So the assertion never fails, and the timeout never frees a context that
\* hiredis is working on.
THEOREM ProcAssertionHolds == Spec => []ProcAssertion
  <1>1. IndInv /\ FlowInv => ProcAssertion
    BY ProcAsserts
  <1> QED
    BY <1>1, FlowInvariance, PTL

\* The calls that deliver a reply on connection k.
LEMMA DeliveringIs ==
  ASSUME IndInv, FlowInv, NEW k \in ConnIds
  PROVE  Delivering(k) = IF Delivers(k) THEN {Pile[1].c} ELSE {}
  <1> DEFINE ops == {"on_reply", "call_reply", "ask_pop", "pop_reply"}
  <1>1. /\ Len(stack) \in Nat /\ DOMAIN stack = 1 .. Len(stack)
        /\ \A i \in DOMAIN stack : stack[i] \in GoodFrame
    BY PileType DEF IndInv, StackPart
  <1>2. \A i \in DOMAIN stack : stack[i].op \in ops <=> stack[i].op \in Deliver
    BY <1>1 DEF GoodFrame, Good, Deliver
  <1>3. ASSUME NEW i \in DOMAIN stack, stack[i].op \in Deliver
        PROVE  i = 1 /\ Len(stack) = 2
    <2>1. Len(stack) - i \in 0 .. Len(stack) - 1 /\ Len(stack) - (Len(stack) - i) = i
      BY <1>1
    <2>2. Pile[Len(stack) - i] = stack[i]
      BY <2>1, PileType DEF IndInv
    <2>3. Len(stack) - i = 1 /\ Len(stack) = 2
      BY <1>3, <2>1, <2>2 DEF FlowInv, ShapePart, ShapeAt
    <2> QED
      BY <1>1, <2>3
  <1>4. Len(stack) = 2 => 1 \in DOMAIN stack /\ Pile[1] = stack[1]
    <2> SUFFICES ASSUME Len(stack) = 2 PROVE 1 \in DOMAIN stack /\ Pile[1] = stack[1]
      OBVIOUS
    <2>1. 1 \in 0 .. Len(stack) - 1 /\ Len(stack) - 1 = 1 /\ 1 \in 1 .. Len(stack)
      OBVIOUS
    <2>2. Pile[1] = stack[Len(stack) - 1]
      BY <2>1, PileType DEF IndInv
    <2> QED
      BY <1>1, <2>1, <2>2
  <1>5. Delivering(k) = {f.c : f \in {stack[i] : i \in {j \in DOMAIN stack : stack[j].k = k /\ stack[j].op \in ops}}}
    BY DEF Delivering
  <1>6. \A i \in DOMAIN stack : stack[i].k = k /\ stack[i].op \in ops
          => Delivers(k) /\ stack[i] = Pile[1]
    BY <1>2, <1>3, <1>4 DEF Delivers
  <1>7. Delivers(k) => 1 \in DOMAIN stack /\ stack[1] = Pile[1] /\ stack[1].k = k /\ stack[1].op \in ops
    BY <1>2, <1>4 DEF Delivers
  <1> HIDE DEF ops
  <1>8. \A x : x \in Delivering(k) <=> \E i \in DOMAIN stack : stack[i].k = k /\ stack[i].op \in ops /\ x = stack[i].c
    BY <1>5
  <1>9. \A x : x \in Delivering(k) <=> Delivers(k) /\ x = Pile[1].c
    BY <1>6, <1>7, <1>8
  <1> QED
    BY <1>9

\* While a connection is in use its reply list is the queue of hiredis,
\* preceded by the command that is being answered.
LEMMA ListsMatch == ASSUME IndInv, FlowInv PROVE ReplyListMatchesHiredis
  <1> SUFFICES ASSUME NEW k \in ConnIds, conn_status_[k] # "DISCONNECTED"
               PROVE  ListMatches(k, CmdsOf(replies[k]))
    BY DEF ReplyListMatchesHiredis
  <1> DEFINE l == reply_list_[k]
             q == replies[k]
             m == CmdsOf(q)
  <1>1. l \in Seq(Created) /\ q \in Seq(Entries)
    BY DEF IndInv, QueuePart
  <1>2. Len(q) \in Nat /\ DOMAIN q = 1 .. Len(q) /\ \A i \in 1 .. Len(q) : q[i].c \in Created
    <2> HIDE DEF q
    <2>1. Len(q) \in Nat /\ DOMAIN q = 1 .. Len(q) /\ \A i \in 1 .. Len(q) : q[i] \in Entries
      BY <1>1
    <2> QED
      BY <2>1 DEF Entries
  <1>3. m = [i \in 1 .. Len(q) |-> q[i].c]
    BY <1>2 DEF CmdsOf
  <1>4. m \in Seq(Created) /\ Len(m) = Len(q) /\ \A i \in 1 .. Len(q) : m[i] = q[i].c
    BY <1>2, <1>3
  <1>5. CASE ~Delivers(k)
    <2>1. Len(l) = 0 + Len(q) /\ \A i \in 1 .. Len(q) : l[0 + i] = q[i].c
      BY <1>5 DEF FlowInv, MatchPart, Shifted
    <2>2. \A i \in 1 .. Len(q) : 0 + i = i
      BY <1>2
    <2> HIDE DEF l, q, m
    <2>3. l = m
      BY <1>1, <1>2, <1>4, <2>1, <2>2, SameElements
    <2> QED
      BY <1>5, <2>3, DeliveringIs DEF ListMatches, l, q, m
  <1>6. CASE Delivers(k)
    <2> DEFINE c == Pile[1].c
               n == <<c>> \o m
    <2>1. /\ Len(l) = 1 + Len(q) /\ \A i \in 1 .. Len(q) : l[1 + i] = q[i].c
          /\ l[1] = c
      BY <1>6 DEF FlowInv, MatchPart, Shifted
    <2> HIDE DEF l, q, m, c
    <2>2. c \in Created
      BY <1>1, <1>2, <2>1
    <2>3. n \in Seq(Created) /\ Len(n) = 1 + Len(q) /\ n[1] = c
          /\ \A i \in 1 .. Len(q) : n[1 + i] = m[i]
      BY <1>2, <1>4, <2>2
    <2> HIDE DEF n
    <2>4. ASSUME NEW i \in 1 .. Len(l) PROVE l[i] = n[i]
      <3>1. i = 1 \/ (i - 1 \in 1 .. Len(q) /\ 1 + (i - 1) = i)
        BY <1>2, <2>1
      <3> QED
        BY <1>4, <2>1, <2>3, <3>1
    <2>5. l = n
      BY <1>1, <1>2, <2>1, <2>3, <2>4, SameElements
    <2>6. c \in CmdIds
      BY <2>2 DEF Created
    <2> QED
      BY <1>6, <2>5, <2>6, DeliveringIs DEF ListMatches, l, q, m, n, c
  <1> QED
    BY <1>5, <1>6

\* So a reply is always that of the first command in the list: no command is
\* given up as timed out by pop_reply while its own answer is on the way.
THEOREM ReplyListMatches == Spec => []ReplyListMatchesHiredis
  <1>1. IndInv /\ FlowInv => ReplyListMatchesHiredis
    BY ListsMatch
  <1> QED
    BY <1>1, FlowInvariance, PTL

\* The places of a command that EachCommandHeldOnce counts.
LEMMA PlacesEmpty ==
  ASSUME IndInv, FlowInv, NEW c \in CmdIds
  PROVE  /\ (\A x \in 1 .. Len(stack) : x \notin Held[c]) => InStack(c) = {}
         /\ 0 \notin Held[c] => InTimer(c) = {}
         /\ (\A k \in ConnIds : -k \notin Held[c]) => InReplyList(c) = {}
  <1>1. /\ Len(stack) \in Nat /\ DOMAIN stack = 1 .. Len(stack)
    BY PileType DEF IndInv, StackPart
  <1>2. ASSUME NEW i \in InStack(c) PROVE Len(stack) - i + 1 \in 1 .. Len(stack) /\ Len(stack) - i + 1 \in Held[c]
    <2>1. i \in 1 .. Len(stack) /\ Owner(stack[i], c)
      BY <1>1, <1>2 DEF InStack, Owns, Owner, OwnerOps
    <2>2. /\ Len(stack) - i \in 0 .. Len(stack) - 1 /\ Len(stack) - (Len(stack) - i) = i
          /\ Len(stack) - i + 1 \in 1 .. Len(stack) /\ (Len(stack) - i + 1) - 1 = Len(stack) - i
      BY <1>1, <2>1
    <2>3. Pile[Len(stack) - i] = stack[i]
      BY <2>2, PileType DEF IndInv
    <2> QED
      BY <1>1, <2>1, <2>2, <2>3, HeldPlaces
  <1>3. ASSUME NEW i \in InTimer(c) PROVE 0 \in Held[c]
    <2>1. c \in TimerCmds
      BY <1>3 DEF InTimer, TimerCmds
    <2> QED
      BY <1>1, <2>1, HeldPlaces
  <1>4. ASSUME NEW p \in InReplyList(c) PROVE \E k \in ConnIds : -k \in Held[c]
    <2>1. PICK k \in ConnIds : \E i \in DOMAIN reply_list_[k] : reply_list_[k][i] = c
      BY <1>4 DEF InReplyList
    <2>2. c \in Elems(reply_list_[k])
      BY <2>1 DEF Elems
    <2> QED
      BY <1>1, <2>2, HeldPlaces
  <1> QED
    BY <1>2, <1>3, <1>4

LEMMA PlaceSingle ==
  ASSUME IndInv, FlowInv, NEW c \in CmdIds, NEW x, Held[c] = {x}
  PROVE  /\ x \in 1 .. Len(stack) => InStack(c) = {Len(stack) - x + 1}
         /\ x = 0 => \E i : InTimer(c) = {i}
         /\ \A k \in ConnIds : x = -k => \E p : InReplyList(c) = {p}
  <1>1. /\ Len(stack) \in Nat /\ DOMAIN stack = 1 .. Len(stack)
    BY PileType DEF IndInv, StackPart
  <1>2. ASSUME x \in 1 .. Len(stack) PROVE InStack(c) = {Len(stack) - x + 1}
    <2> DEFINE i == Len(stack) - x + 1
    <2>1. /\ i \in 1 .. Len(stack) /\ x - 1 \in 0 .. Len(stack) - 1 /\ Len(stack) - (x - 1) = i
      BY <1>1, <1>2
    <2>2. Pile[x - 1] = stack[i] /\ Owner(Pile[x - 1], c)
      BY <1>1, <1>2, <2>1, PileType, HeldPlaces DEF IndInv
    <2>3. i \in InStack(c)
      BY <1>1, <2>1, <2>2 DEF InStack, Owns, Owner, OwnerOps
    <2>4. ASSUME NEW j \in InStack(c) PROVE j = i
      <3>1. j \in 1 .. Len(stack) /\ Owner(stack[j], c)
        BY <1>1, <2>4 DEF InStack, Owns, Owner, OwnerOps
      <3>2. /\ Len(stack) - j \in 0 .. Len(stack) - 1 /\ Len(stack) - (Len(stack) - j) = j
            /\ Len(stack) - j + 1 \in 1 .. Len(stack) /\ (Len(stack) - j + 1) - 1 = Len(stack) - j
        BY <1>1, <3>1
      <3>3. Pile[Len(stack) - j] = stack[j]
        BY <3>2, PileType DEF IndInv
      <3>4. Len(stack) - j + 1 \in Held[c]
        BY <1>1, <3>1, <3>2, <3>3, HeldPlaces
      <3>5. Len(stack) - j + 1 = x
        BY <3>4
      <3> QED
        BY <1>1, <1>2, <3>1, <3>5
    <2> QED
      BY <2>3, <2>4
  <1>3. ASSUME x = 0 PROVE \E i : InTimer(c) = {i}
    <2>1. c \in TimerCmds
      BY <1>1, <1>3, HeldPlaces
    <2>2. PICK i \in DOMAIN timer_pending : timer_pending[i].cmd = c
      BY <2>1 DEF TimerCmds
    <2>3. InTimer(c) = {i}
      BY <2>2 DEF InTimer, FlowInv, DistinctPart
    <2> QED
      BY <2>3
  <1>4. ASSUME NEW k \in ConnIds, x = -k PROVE \E p : InReplyList(c) = {p}
    <2>1. c \in Elems(reply_list_[k])
      BY <1>1, <1>4, HeldPlaces
    <2>2. PICK i \in DOMAIN reply_list_[k] : reply_list_[k][i] = c
      BY <2>1 DEF Elems
    <2>3. ASSUME NEW j \in ConnIds, NEW n \in DOMAIN reply_list_[j], reply_list_[j][n] = c
          PROVE  j = k /\ n = i
      <3>1. c \in Elems(reply_list_[j])
        BY <2>3 DEF Elems
      <3>2. -j = -k
        BY <1>1, <1>4, <3>1, HeldPlaces
      <3>3. j = k
        BY <3>2 DEF ConnIds
      <3> QED
        BY <2>2, <2>3, <3>3 DEF FlowInv, DistinctPart
    <2> DEFINE at(j) == {j} \X {n \in DOMAIN reply_list_[j] : reply_list_[j][n] = c}
    <2>4. InReplyList(c) = UNION {at(j) : j \in ConnIds}
      BY DEF InReplyList
    <2>5. \A p : p \in InReplyList(c) <=> \E j \in ConnIds : \E n \in DOMAIN reply_list_[j] :
                                            reply_list_[j][n] = c /\ p = <<j, n>>
      BY <2>4
    <2>6. InReplyList(c) = {<<k, i>>}
      BY <2>2, <2>3, <2>5
    <2> QED
      BY <2>6
  <1> QED
    BY <1>2, <1>3, <1>4

LEMMA HoldersCount == ASSUME IndInv, FlowInv PROVE EachCommandHeldOnce
  <1> SUFFICES ASSUME NEW c \in CmdIds PROVE Holders(c) = IF cmd_st[c] = "live" THEN 1 ELSE 0
    BY DEF EachCommandHeldOnce
  <1>1. Cardinality({}) = 0 /\ \A y : Cardinality({y}) = 1
    BY FS_EmptySet, FS_Singleton
  <1>2. CASE cmd_st[c] # "live"
    <2>1. Held[c] = {}
      BY <1>2 DEF FlowInv, OncePart
    <2>2. InStack(c) = {} /\ InTimer(c) = {} /\ InReplyList(c) = {}
      BY <2>1, PlacesEmpty
    <2> QED
      BY <1>1, <1>2, <2>2 DEF Holders
  <1>3. CASE cmd_st[c] = "live"
    <2>1. PICK x \in Held[c] : Held[c] = {x}
      BY <1>3 DEF FlowInv, OncePart
    <2>2. Len(stack) \in Nat
      BY PileType DEF IndInv
    <2>3. x \in 1 .. Len(stack) \/ x = 0 \/ \E k \in ConnIds : x = -k
      BY <2>2, HeldPlaces
    <2>4. CASE x \in 1 .. Len(stack)
      <3>1. InTimer(c) = {} /\ InReplyList(c) = {}
        BY <2>1, <2>2, <2>4, PlacesEmpty DEF ConnIds
      <3>2. Cardinality(InStack(c)) = 1
        BY <1>1, <2>1, <2>4, PlaceSingle
      <3> QED
        BY <1>1, <1>3, <3>1, <3>2 DEF Holders
    <2>5. CASE x = 0
      <3>1. InStack(c) = {} /\ InReplyList(c) = {}
        BY <2>1, <2>2, <2>5, PlacesEmpty DEF ConnIds
      <3>2. Cardinality(InTimer(c)) = 1
        BY <1>1, <2>1, <2>5, PlaceSingle
      <3> QED
        BY <1>1, <1>3, <3>1, <3>2 DEF Holders
    <2>6. CASE \E k \in ConnIds : x = -k
      <3>1. InStack(c) = {} /\ InTimer(c) = {}
        BY <2>1, <2>2, <2>6, PlacesEmpty DEF ConnIds
      <3>2. Cardinality(InReplyList(c)) = 1
        BY <1>1, <2>1, <2>6, PlaceSingle
      <3> QED
        BY <1>1, <1>3, <3>1, <3>2 DEF Holders
    <2> QED
      BY <2>3, <2>4, <2>5, <2>6
  <1> QED
    BY <1>2, <1>3

\* Every live command is in exactly one place that will see to its end, and
\* no other command is in any: none is lost, none is destroyed twice.
THEOREM CommandsHeldOnce == Spec => []EachCommandHeldOnce
  <1>1. IndInv /\ FlowInv => EachCommandHeldOnce
    BY HoldersCount
  <1> QED
    BY <1>1, FlowInvariance, PTL

-----------------------------------------------------------------------------
(***************************************************************************)
(* With a password set, no command overtakes the AUTH command of its       *)
(* connection, as long as hiredis marks a broken context as disconnecting  *)
(* before it calls the outstanding callbacks (ErrSetsDisconnecting):       *)
(* otherwise AUTH itself may be retried, on another connection.            *)
(*                                                                         *)
(* The argument follows the AUTH command of one connection from its        *)
(* creation on: it is on top of the stack until it is sent, or fails; then *)
(* it is the first of the queue; then it is being answered; then it has    *)
(* been called back for good.                                              *)
(***************************************************************************)

\* hiredis is in the connect callback of a context that could not connect.
FailedConnect(k) == Len(stack) > 0 /\ Pile[0].op = "h_connect_failed" /\ Pile[0].k = k

\* Where the AUTH command of connection k is.
AuthOnTop(k) ==
  /\ stack # <<>> /\ replies[k] = <<>>
  /\ Top.c = AuthCmd(k)
  /\ \/ Top.op = "destroy_cmd"
     \/ /\ Top.op = "exec_conn" /\ Top.k = k
        /\ conn_status_[k] # "DISCONNECTED" /\ ~disconnecting[k] /\ ttl_[AuthCmd(k)] > 0
AuthFirst(k)    == replies[k] # <<>> /\ Head(replies[k]).c = AuthCmd(k)
AuthAnswered(k) == Delivers(k) /\ Pile[1].c = AuthCmd(k) /\ Pile[1].a # "retry"
AuthCalled(k)   == calls[AuthCmd(k)] = 1

AuthPart ==
  Auth /\ ErrSetsDisconnecting =>
    \A k \in ConnIds :
      /\ ctx_err[k] # "OK" => disconnecting[k] \/ FailedConnect(k)
      /\ k <= nconn => AuthOnTop(k) \/ AuthFirst(k) \/ AuthAnswered(k) \/ AuthCalled(k)

-----------------------------------------------------------------------------
(* How the stack goes on                                                   *)

IsSeq(s) == \E S : s \in Seq(S)

LEMMA SeqForms ==
  /\ IsSeq(<<>>)
  /\ \A x : IsSeq(<<x>>)
  /\ \A x, y : IsSeq(<<x, y>>)
  <1>1. <<>> \in Seq({})
    OBVIOUS
  <1>2. \A x : <<x>> \in Seq({x})
    OBVIOUS
  <1>3. \A x, y : <<x, y>> \in Seq({x, y})
    OBVIOUS
  <1> QED
    BY <1>1, <1>2, <1>3 DEF IsSeq

LEMMA SeqConcat == ASSUME NEW s, NEW t, IsSeq(s), IsSeq(t) PROVE IsSeq(s \o t)
  <1>1. PICK S : s \in Seq(S)
    BY DEF IsSeq
  <1>2. PICK T : t \in Seq(T)
    BY DEF IsSeq
  <1>3. s \in Seq(S \cup T) /\ t \in Seq(S \cup T)
    BY <1>1, <1>2, SeqMono
  <1>4. s \o t \in Seq(S \cup T)
    BY <1>3, ConcatType
  <1> QED
    BY <1>4 DEF IsSeq

LEMMA SeqCallback == ASSUME NEW c, NEW r PROVE IsSeq(CallbackFrames(c, r))
  BY SeqForms DEF CallbackFrames

\* The running call goes on, or the application or the event loop calls.
GoesOn == stack # <<>> /\ (Return \/ \E fs : IsSeq(fs) /\ Continue(fs))
Enters == \E fs : IsSeq(fs) /\ Call(fs)

\* Only the running call may leave the stack.
LEMMA StepKeeps ==
  ASSUME StackPart, NEW k, GoesOn \/ Enters \/ UNCHANGED stack,
         FailedConnect(k), Enters \/ UNCHANGED stack \/ Top.op # "h_connect_failed"
  PROVE  FailedConnect(k)'
  <1>1. Len(stack) \in Nat /\ Len(stack) >= 1 /\ Pile[Len(stack) - 1] = Top
    BY PileType DEF FailedConnect
  <1>2. CASE UNCHANGED stack
    BY <1>2 DEF FailedConnect, Pile
  <1>3. CASE Enters
    <2>1. PICK fs : IsSeq(fs) /\ Call(fs)
      BY <1>3 DEF Enters
    <2>2. PICK S : fs \in Seq(S)
      BY <2>1 DEF IsSeq
    <2>3. Keep(Len(stack))
      BY <2>1, <2>2, PileCall
    <2>4. 0 \in 0 .. Len(stack) - 1
      BY <1>1
    <2> QED
      BY <1>1, <2>3, <2>4 DEF Keep, FailedConnect
  <1>4. CASE GoesOn /\ Top.op # "h_connect_failed"
    <2>1. Keep(Len(stack) - 1)
      <3>1. CASE Return
        BY <1>4, <3>1, PileReturn DEF GoesOn
      <3>2. ASSUME NEW fs, IsSeq(fs), Continue(fs) PROVE Keep(Len(stack) - 1)
        <4>1. PICK S : fs \in Seq(S)
          BY <3>2 DEF IsSeq
        <4> QED
          BY <1>4, <3>2, <4>1, PileContinue DEF GoesOn
      <3> QED
        BY <1>4, <3>1, <3>2 DEF GoesOn
    <2>2. Len(stack) - 1 # 0
      BY <1>1, <1>4 DEF FailedConnect
    <2>3. 0 \in 0 .. (Len(stack) - 1) - 1 /\ Len(stack) - 1 > 0
      <3>1. \A n \in Nat : n >= 1 /\ n - 1 # 0 => 0 \in 0 .. (n - 1) - 1 /\ n - 1 > 0
        OBVIOUS
      <3> QED
        BY <1>1, <2>2, <3>1
    <2> QED
      BY <1>1, <2>1, <2>3 DEF Keep, FailedConnect
  <1> QED
    BY <1>2, <1>3, <1>4

\* A command that has been called back stays so.
LEMMA CalledStays ==
  ASSUME IndInv, [Next]_vars
  PROVE  \A c \in CmdIds : calls[c] = 1 => calls'[c] = 1
  <1> SUFFICES ASSUME NEW c \in CmdIds, calls[c] = 1 PROVE calls'[c] = 1
    OBVIOUS
  <1>1. cmd_st[c] # "none" /\ ~callback_[c]
    BY DEF IndInv, CmdPart
  <1>2. CmdStep
    BY NextCmdStep
  <1> QED
    BY <1>1, <1>2 DEF CmdStep, create, cmd_call_reply, IndInv, CmdPart, CmdTypeOK

\* What a step has to do to keep the invariant when the running call is none of
\* those that have to do with AUTH.
LEMMA AuthKept ==
  ASSUME IndInv, FlowInv, AuthPart, [Next]_vars, GoesOn \/ Enters,
         Enters \/ Top.op # "h_connect_failed",
         stack # <<>> => Top.op \notin Deliver \cup {"exec_conn", "destroy_cmd"},
         UNCHANGED <<ctx_err, nconn>>,
         \A k \in ConnIds : disconnecting[k] => disconnecting'[k],
         \A k \in ConnIds : replies[k] # <<>> =>
           replies'[k] # <<>> /\ Head(replies'[k]) = Head(replies[k])
  PROVE  AuthPart'
  <1> SUFFICES ASSUME Auth, ErrSetsDisconnecting, NEW k \in ConnIds
               PROVE  /\ ctx_err'[k] # "OK" => disconnecting'[k] \/ FailedConnect(k)'
                      /\ k <= nconn => AuthFirst(k)' \/ AuthCalled(k)'
    BY DEF AuthPart
  <1>1. ctx_err'[k] # "OK" => disconnecting'[k] \/ FailedConnect(k)'
    BY StepKeeps DEF AuthPart, IndInv
  <1>2. ~AuthOnTop(k)
    BY DEF AuthOnTop
  <1>3. ~AuthAnswered(k)
    <2>1. ASSUME Delivers(k) PROVE FALSE
      <3>1. 1 \in 0 .. Len(stack) - 1 /\ Pile[1].op \in Deliver
        BY <2>1 DEF Delivers
      <3> QED
        BY <3>1, DeliverIsTop DEF IndInv, FlowInv
    <2> QED
      BY <2>1 DEF AuthAnswered
  <1>4. AuthCmd(k) \in CmdIds
    BY BoundsAssumption DEF AuthCmd, CmdIds, ConnIds, BoundsAssumption
  <1>5. k <= nconn => AuthFirst(k)' \/ AuthCalled(k)'
    <2>1. AuthCalled(k) => AuthCalled(k)'
      BY <1>4, CalledStays DEF AuthCalled, AuthCmd
    <2>2. AuthFirst(k) => AuthFirst(k)'
      BY DEF AuthFirst, AuthCmd
    <2> QED
      BY <1>2, <1>3, <2>1, <2>2 DEF AuthPart
  <1> QED
    BY <1>1, <1>5

-----------------------------------------------------------------------------
(* Steps that have nothing to do with AUTH                                 *)

\* A step of the library that goes on with some frames.
LEMMA QuietAuth ==
  ASSUME IndInv, FlowInv, AuthPart, [Next]_vars, GoesOn \/ Enters,
         Enters \/ Top.op # "h_connect_failed",
         stack # <<>> => Top.op \notin Deliver \cup {"exec_conn", "destroy_cmd"},
         UNCHANGED <<hiredisVars, nconn>>
  PROVE  AuthPart'
  BY AuthKept DEF hiredisVars

LEMMA ExecAuth == ASSUME IndInv, FlowInv, AuthPart, [Next]_vars, exec \/ exec_connect_failed PROVE AuthPart'
  <1>1. stack # <<>> /\ Top.op \in {"exec", "exec_failed"}
    BY DEF exec, exec_connect_failed, At, Running
  <1>2. \E fs : IsSeq(fs) /\ Continue(fs)
    <2>1. \A c, code : Fail(c, code) => \E fs : IsSeq(fs) /\ Continue(fs)
      BY SeqForms, SeqConcat, SeqCallback DEF Fail, CallBack
    <2>2. \A f : Continue(<<f>>) => \E fs : IsSeq(fs) /\ Continue(fs)
      BY SeqForms
    <2> QED
      BY <2>1, <2>2 DEF exec, exec_connect_failed
  <1>3. UNCHANGED <<hiredisVars, nconn>>
    BY DEF exec, exec_connect_failed, rawVars
  <1> QED
    BY <1>1, <1>2, <1>3, QuietAuth DEF GoesOn, Deliver

LEMMA RetryAuth == ASSUME IndInv, FlowInv, AuthPart, [Next]_vars, retry \/ Destroy PROVE AuthPart'
  <1>1. stack # <<>> /\ Top.op \in {"retry", "destroy"}
    BY DEF retry, Destroy, destroy, At, Running
  <1>2. Return \/ \E fs : IsSeq(fs) /\ Continue(fs)
    <2>1. \A f : Continue(<<f>>) => \E fs : IsSeq(fs) /\ Continue(fs)
      BY SeqForms
    <2> QED
      BY <2>1 DEF retry, Destroy, destroy
  <1>3. UNCHANGED <<hiredisVars, nconn>>
    BY DEF retry, Destroy, rawVars
  <1> QED
    BY <1>1, <1>2, <1>3, QuietAuth DEF GoesOn, Deliver

LEMMA ReleaseAuth ==
  ASSUME IndInv, FlowInv, AuthPart, [Next]_vars,
         release_connection \/ release_event \/ release_end \/ ConnectionRelease
  PROVE  AuthPart'
  <1>1. stack # <<>> /\ Top.op \in {"release_connection", "release_event", "release_end", "connection_release"}
    BY DEF release_connection, release_event, release_end, ConnectionRelease, connection_release, At, Running
  <1>2. Return \/ \E fs : IsSeq(fs) /\ Continue(fs)
    <2>1. CASE release_connection
      <3>1. \A k, a, f : IsSeq(ReleaseFrames(k, a) \o <<f>>)
        BY SeqForms, SeqConcat DEF ReleaseFrames
      <3> QED
        BY <2>1, <3>1 DEF release_connection
    <2>2. CASE release_event
      BY <2>2, SeqForms DEF release_event
    <2>3. CASE release_end
      BY <2>3 DEF release_end
    <2>4. CASE ConnectionRelease
      <3>1. \A c, code, f : CallBack(c, code, "null", <<f, Top>>) => \E fs : IsSeq(fs) /\ Continue(fs)
        BY SeqForms, SeqConcat, SeqCallback DEF CallBack
      <3> QED
        BY <2>4, <3>1 DEF ConnectionRelease, connection_release
    <2> QED
      BY <2>1, <2>2, <2>3, <2>4
  <1>3. UNCHANGED <<hiredisVars, nconn>>
    BY DEF release_connection, release_event, release_end, ConnectionRelease, rawVars
  <1> QED
    BY <1>1, <1>2, <1>3, QuietAuth DEF GoesOn, Deliver

LEMMA ResetAuth == ASSUME IndInv, FlowInv, AuthPart, [Next]_vars, reset PROVE AuthPart'
  <1>1. stack # <<>> /\ Top.op = "reset"
    BY DEF reset, At, Running
  <1>2. Return \/ \E fs : IsSeq(fs) /\ Continue(fs)
    <2>1. \A c, code, f : CallBack(c, code, "null", <<f, Top>>) => \E fs : IsSeq(fs) /\ Continue(fs)
      BY SeqForms, SeqConcat, SeqCallback DEF CallBack
    <2> QED
      BY <2>1 DEF reset
  <1>3. UNCHANGED <<hiredisVars, nconn>>
    BY DEF reset
  <1> QED
    BY <1>1, <1>2, <1>3, QuietAuth DEF GoesOn, Deliver

LEMMA ProcAuth == ASSUME IndInv, FlowInv, AuthPart, [Next]_vars, proc \/ proc_conn \/ proc_clear PROVE AuthPart'
  <1>1. stack # <<>> /\ Top.op \in {"proc", "proc_conn", "proc_clear"}
    BY DEF proc, proc_conn, proc_clear, At, Running
  <1>2. Return \/ \E fs : IsSeq(fs) /\ Continue(fs)
    <2>1. CASE proc
      BY <2>1, SeqForms DEF proc
    <2>2. CASE proc_conn
      <3>1. \A p : \A f, g : IsSeq((IF p THEN <<f>> ELSE <<>>) \o <<g>>)
        BY SeqForms, SeqConcat
      <3> QED
        BY <2>2, <3>1, SeqForms DEF proc_conn
    <2>3. CASE proc_clear
      BY <2>3 DEF proc_clear
    <2> QED
      BY <2>1, <2>2, <2>3
  <1>3. UNCHANGED <<hiredisVars, nconn>>
    BY DEF proc, proc_conn, proc_clear, rawVars
  <1> QED
    BY <1>1, <1>2, <1>3, QuietAuth DEF GoesOn, Deliver

LEMMA ConnectedAuth ==
  ASSUME IndInv, FlowInv, AuthPart, [Next]_vars,
         on_connected_wrapper \/ on_connected_end \/ on_disconnected_wrapper \/ UserReturn
  PROVE  AuthPart'
  <1>1. stack # <<>> /\ Top.op \in {"on_connected", "on_connected_end", "on_disconnected", "user"}
    BY DEF on_connected_wrapper, on_connected_end, on_disconnected_wrapper, UserReturn, At, Running
  <1>2. Return \/ \E fs : IsSeq(fs) /\ Continue(fs)
    BY SeqForms DEF on_connected_wrapper, on_connected_end, on_disconnected_wrapper, UserReturn
  <1>3. UNCHANGED <<hiredisVars, nconn>>
    BY DEF on_connected_wrapper, on_connected_end, on_disconnected_wrapper, UserReturn, rawVars
  <1> QED
    BY <1>1, <1>2, <1>3, QuietAuth DEF GoesOn, Deliver

LEMMA UserAuth ==
  ASSUME IndInv, FlowInv, AuthPart, [Next]_vars, UserExec \/ UserRelease \/ UserReset \/ Proc
  PROVE  AuthPart'
  <1>1. stack # <<>> => Top.op = "user"
    BY DEF UserExec, UserRelease, UserReset, Proc, UserProc, InUser, InLoop, At
  <1>2. Enters
    <2>1. CASE UserExec
      BY <2>1, SeqForms DEF UserExec, Enters
    <2>2. CASE UserRelease
      BY <2>2, SeqForms DEF UserRelease, Enters
    <2>3. CASE UserReset
      <3>1. \A p : \A f, g : IsSeq((IF p THEN <<f>> ELSE <<>>) \o <<g>>)
        BY SeqForms, SeqConcat
      <3> QED
        BY <2>3, <3>1 DEF UserReset, Enters
    <2>4. CASE Proc
      BY <2>4, SeqForms DEF Proc, UserProc, Enters
    <2> QED
      BY <2>1, <2>2, <2>3, <2>4
  <1>3. UNCHANGED <<hiredisVars, nconn>>
    BY DEF UserExec, UserRelease, UserReset, Proc, UserProc, rawVars
  <1> QED
    BY <1>1, <1>2, <1>3, QuietAuth DEF Deliver

\* hiredis disconnects, ends a callback, connects, or frees a context.
LEMMA HiredisAuth ==
  ASSUME IndInv, FlowInv, AuthPart, [Next]_vars,
         \/ ByHiredis(redisAsyncDisconnect) \/ ByHiredis(ConnectEnd)
         \/ ByHiredis(ReplyEnd) \/ ByHiredis(FreeContextEnd)
  PROVE  AuthPart'
  <1>1. stack # <<>> /\ Top.op \in {"redisAsyncDisconnect", "h_connect_end", "h_reply_end", "h_free_end"}
    BY DEF ByHiredis, redisAsyncDisconnect, ConnectEnd, ReplyEnd, FreeContextEnd, At, Running
  <1>2. Return \/ \E fs : IsSeq(fs) /\ Continue(fs)
    BY SeqForms DEF ByHiredis, redisAsyncDisconnect, ConnectEnd, ReplyEnd, FreeContextEnd
  <1>3. UNCHANGED <<ctx_err, replies, nconn>> /\ \A k \in ConnIds : disconnecting[k] => disconnecting'[k]
    BY DEF ByHiredis, redisAsyncDisconnect, ConnectEnd, ReplyEnd, FreeContextEnd, rawVars,
       IndInv, ContextPart
  <1> QED
    BY <1>1, <1>2, <1>3, AuthKept DEF GoesOn, Deliver

LEMMA ConnectDoneAuth ==
  ASSUME IndInv, FlowInv, AuthPart, [Next]_vars, NEW k \in ConnIds, ByHiredis(ConnectDone(k))
  PROVE  AuthPart'
  <1>1. stack = <<>>
    BY DEF ByHiredis, ConnectDone, InLoop
  <1>2. Enters
    BY SeqForms DEF ByHiredis, ConnectDone, Enters
  <1>3. UNCHANGED <<ctx_err, disconnecting, replies, nconn>>
    BY DEF ByHiredis, ConnectDone, rawVars
  <1> QED
    BY <1>1, <1>2, <1>3, AuthKept

-----------------------------------------------------------------------------
(* Steps that move an AUTH command on                                      *)

\* Only a call that delivers a reply can be answering AUTH.
LEMMA NotAnswering ==
  ASSUME IndInv, FlowInv, stack # <<>> => Top.op \notin Deliver
  PROVE  \A k \in ConnIds : ~AuthAnswered(k)
  <1> SUFFICES ASSUME NEW k \in ConnIds, Delivers(k) PROVE FALSE
    BY DEF AuthAnswered
  <1>1. 1 \in 0 .. Len(stack) - 1 /\ Pile[1].op \in Deliver
    BY DEF Delivers
  <1> QED
    BY <1>1, DeliverIsTop DEF IndInv, FlowInv

\* An AUTH command that has been called back needs no more attention, and no
\* connection is made by most steps.
LEMMA AuthMoves ==
  ASSUME IndInv, AuthPart, [Next]_vars, UNCHANGED nconn,
         Auth /\ ErrSetsDisconnecting =>
           \A k \in ConnIds :
             /\ ctx_err'[k] # "OK" => disconnecting'[k] \/ FailedConnect(k)'
             /\ AuthOnTop(k) \/ AuthFirst(k) \/ AuthAnswered(k) =>
                  AuthOnTop(k)' \/ AuthFirst(k)' \/ AuthAnswered(k)' \/ AuthCalled(k)'
  PROVE  AuthPart'
  <1> SUFFICES ASSUME Auth, ErrSetsDisconnecting, NEW k \in ConnIds, k <= nconn
               PROVE  AuthOnTop(k)' \/ AuthFirst(k)' \/ AuthAnswered(k)' \/ AuthCalled(k)'
    BY DEF AuthPart
  <1>1. AuthCmd(k) \in CmdIds
    BY BoundsAssumption DEF AuthCmd, CmdIds, ConnIds, BoundsAssumption
  <1>2. AuthCalled(k) => AuthCalled(k)'
    BY <1>1, CalledStays DEF AuthCalled, AuthCmd
  <1> QED
    BY <1>2 DEF AuthPart

\* exec(conn, cmd): if it is AUTH, it is the first command of the queue.
LEMMA ExecConnAuth == ASSUME IndInv, FlowInv, AuthPart, [Next]_vars, exec_conn PROVE AuthPart'
  <1>1. stack # <<>> /\ Top.op = "exec_conn" /\ Top.k \in ConnIds
    BY TopContext DEF exec_conn, ConnOps
  <1>2. Return /\ UNCHANGED <<ctx_err, disconnecting, nconn>>
        /\ replies' = [replies EXCEPT ![Top.k] = Append(@, [fn |-> "on_reply", c |-> Top.c])]
    BY DEF exec_conn, redis_cmd, redisAsyncFormattedCommand, rawVars
  <1>3. \A k \in ConnIds : ctx_err'[k] # "OK" => FailedConnect(k)' \/ ~(Auth /\ ErrSetsDisconnecting) \/ disconnecting'[k]
    BY <1>1, <1>2, StepKeeps DEF AuthPart, IndInv, GoesOn
  <1>4. \A k \in ConnIds : ~AuthAnswered(k)
    BY <1>1, NotAnswering DEF Deliver
  <1>5. \A k \in ConnIds : replies[k] \in Seq(Entries)
    BY DEF IndInv, QueuePart
  <1>6. ASSUME NEW k \in ConnIds, AuthOnTop(k) PROVE AuthFirst(k)'
    <2>1. Top.k = k /\ Top.c = AuthCmd(k) /\ replies[k] = <<>>
      BY <1>1, <1>6 DEF AuthOnTop
    <2>2. replies'[k] = <<[fn |-> "on_reply", c |-> AuthCmd(k)]>>
      BY <1>2, <2>1 DEF IndInv, QueuePart
    <2> QED
      BY <2>2 DEF AuthFirst, AuthCmd
  <1>7. ASSUME NEW k \in ConnIds, AuthFirst(k) PROVE AuthFirst(k)'
    <2> DEFINE e == [fn |-> "on_reply", c |-> Top.c]
    <2> HIDE DEF e
    <2>1. replies'[k] = replies[k] \/ replies'[k] = Append(replies[k], e)
      BY <1>2 DEF IndInv, QueuePart, e
    <2>2. \A s \in Seq(Entries) : s # <<>> => Append(s, e) # <<>> /\ Head(Append(s, e)) = Head(s)
      <3> TAKE s \in Seq(Entries)
      <3> HAVE s # <<>>
      <3>1. s \in Seq(Entries \cup {e}) /\ Len(s) >= 1
        BY SeqMono
      <3>2. Len(Append(s, e)) = Len(s) + 1 /\ Append(s, e)[1] = s[1] /\ Append(s, e) \in Seq(Entries \cup {e})
        BY <3>1
      <3> QED
        BY <3>1, <3>2
    <2> QED
      BY <1>5, <1>7, <2>1, <2>2 DEF AuthFirst, AuthCmd
  <1> QED
    BY <1>2, <1>3, <1>4, <1>6, <1>7, AuthMoves

\* A new connection takes its AUTH command: exec_conn fails for others only.
LEMMA ExecConnOtherAuth ==
  ASSUME IndInv, FlowInv, AuthPart, [Next]_vars, exec_conn_closing \/ exec_conn_failed
  PROVE  AuthPart'
  <1>1. stack # <<>> /\ Top.op = "exec_conn" /\ Top.k \in ConnIds
    BY TopContext DEF exec_conn_closing, exec_conn_failed, ConnOps
  <1>2. \E fs : IsSeq(fs) /\ Continue(fs)
    <2>1. CASE exec_conn_closing
      <3>1. \A p : \A f, g : IsSeq((IF p THEN <<f>> ELSE <<>>) \o <<g>>)
        BY SeqForms, SeqConcat
      <3> QED
        BY <2>1, <3>1 DEF exec_conn_closing
    <2>2. CASE exec_conn_failed
      BY <2>2, SeqForms, SeqConcat, SeqCallback DEF exec_conn_failed
    <2> QED
      BY <2>1, <2>2
  <1>3. UNCHANGED <<ctx_err, disconnecting, replies, nconn>>
    BY DEF exec_conn_closing, exec_conn_failed, hiredisVars, rawVars
  <1>4. \A k \in ConnIds : ctx_err'[k] # "OK" => FailedConnect(k)' \/ ~(Auth /\ ErrSetsDisconnecting) \/ disconnecting'[k]
    BY <1>1, <1>2, <1>3, StepKeeps DEF AuthPart, IndInv, GoesOn
  <1>5. \A k \in ConnIds : ~AuthAnswered(k)
    BY <1>1, NotAnswering DEF Deliver
  <1>6. ASSUME NEW k \in ConnIds, AuthOnTop(k) PROVE FALSE
    <2>1. /\ Top.k = k /\ Top.c = AuthCmd(k) /\ conn_status_[k] # "DISCONNECTED" /\ ~disconnecting[k]
          /\ ttl_[Top.c] > 0
      BY <1>1, <1>6 DEF AuthOnTop
    <2>2. context_[k]
      BY <2>1 DEF FlowInv, ConnsPart
    <2>3. redis_cmd_result(k) = "OK"
      BY <2>1, <2>2 DEF redis_cmd_result, Accepts
    <2> QED
      BY <2>1, <2>3 DEF exec_conn_closing, exec_conn_failed
  <1>7. \A k \in ConnIds : AuthFirst(k) => AuthFirst(k)'
    BY <1>3 DEF AuthFirst, AuthCmd
  <1> QED
    BY <1>3, <1>4, <1>5, <1>6, <1>7, AuthMoves

\* destroy_cmd calls the command back.
LEMMA DestroyCmdAuth == ASSUME IndInv, FlowInv, AuthPart, [Next]_vars, destroy_cmd PROVE AuthPart'
  <1>1. stack # <<>> /\ Top.op = "destroy_cmd" /\ Top.c \in Created
    BY TopOwns DEF destroy_cmd, OwnerOps
  <1>2. \E fs : IsSeq(fs) /\ Continue(fs)
    BY SeqForms, SeqConcat, SeqCallback DEF destroy_cmd, CallBack
  <1>3. UNCHANGED <<ctx_err, disconnecting, replies, nconn>>
    BY DEF destroy_cmd, hiredisVars, rawVars
  <1>4. \A k \in ConnIds : ctx_err'[k] # "OK" => FailedConnect(k)' \/ ~(Auth /\ ErrSetsDisconnecting) \/ disconnecting'[k]
    BY <1>1, <1>2, <1>3, StepKeeps DEF AuthPart, IndInv, GoesOn
  <1>5. \A k \in ConnIds : ~AuthAnswered(k)
    BY <1>1, NotAnswering DEF Deliver
  <1>6. calls'[Top.c] = 1
    BY <1>1 DEF destroy_cmd, CallBack, cmd_call_reply, IndInv, CmdPart, CmdTypeOK, Created
  <1>7. \A k \in ConnIds : AuthOnTop(k) => AuthCalled(k)'
    BY <1>6 DEF AuthOnTop, AuthCalled, AuthCmd
  <1>8. \A k \in ConnIds : AuthFirst(k) => AuthFirst(k)'
    BY <1>3 DEF AuthFirst, AuthCmd
  <1> QED
    BY <1>3, <1>4, <1>5, <1>7, <1>8, AuthMoves

\* While a reply is delivered, no connect callback is under way.
LEMMA DeliveryAuth ==
  ASSUME IndInv, FlowInv, AuthPart, [Next]_vars, NEW op \in Deliver, At(op),
         UNCHANGED <<ctx_err, disconnecting, replies, nconn>>,
         Auth /\ ErrSetsDisconnecting =>
           \A k \in ConnIds : k = Top.k /\ AuthAnswered(k) => AuthAnswered(k)' \/ AuthCalled(k)'
  PROVE  AuthPart'
  <1>1. /\ stack # <<>> /\ Top.op = op /\ Len(stack) = 2 /\ Pile[1] = Top
        /\ Pile[0].op \in {"h_reply_end", "h_free"}
    BY DeliveryLive
  <1>2. \A k \in ConnIds : ~FailedConnect(k) /\ ~AuthOnTop(k)
    BY <1>1 DEF FailedConnect, AuthOnTop, Deliver
  <1>3. \A k \in ConnIds : AuthAnswered(k) => k = Top.k
    BY <1>1 DEF AuthAnswered, Delivers
  <1>4. \A k \in ConnIds : AuthFirst(k) => AuthFirst(k)'
    BY DEF AuthFirst, AuthCmd
  <1>5. \A k \in ConnIds : ctx_err'[k] # "OK" => ~(Auth /\ ErrSetsDisconnecting) \/ disconnecting'[k]
    BY <1>2 DEF AuthPart
  <1> QED
    BY <1>2, <1>3, <1>4, <1>5, AuthMoves

\* A delivery that is handed on is still one of the same command.
LEMMA HandedAuth ==
  ASSUME IndInv, FlowInv, AuthPart, [Next]_vars, NEW op \in Deliver, At(op),
         NEW f, Continue(<<f>>), f.op \in Deliver, f.c = Top.c, f.k = Top.k,
         Auth /\ ErrSetsDisconnecting /\ Top.a # "retry" => f.a # "retry",
         UNCHANGED <<ctx_err, disconnecting, replies, nconn>>
  PROVE  AuthPart'
  <1>1. stack # <<>> /\ Len(stack) = 2 /\ Pile[1] = Top
    BY DeliveryLive
  <1>2. Len(stack') = Len(stack) /\ Pile'[Len(stack) - 1] = f
    BY <1>1, PileContinueOne DEF IndInv
  <1>3. Len(stack') = 2 /\ Pile'[1] = f
    BY <1>1, <1>2
  <1>4. ASSUME NEW k \in ConnIds, AuthAnswered(k), Auth, ErrSetsDisconnecting PROVE AuthAnswered(k)'
    BY <1>1, <1>3, <1>4 DEF AuthAnswered, Delivers, AuthCmd
  <1> QED
    BY <1>4, DeliveryAuth

\* AUTH is not retried: a context with an error is disconnecting.
LEMMA OnReplyAuth == ASSUME IndInv, FlowInv, AuthPart, [Next]_vars, on_reply_wrapper PROVE AuthPart'
  <1> DEFINE f == F("call_reply", Top.c, Top.k, Top.a)
             g == F("pop_reply", Top.c, Top.k, "retry")
  <1>1. /\ At("on_reply") /\ "on_reply" \in Deliver
    BY DEF on_reply_wrapper, Deliver
  <1>2. /\ stack # <<>> /\ Top.k \in ConnIds /\ Len(stack) = 2 /\ Pile[0].op \in {"h_reply_end", "h_free"}
        /\ Top.c \in Elems(reply_list_[Top.k])
    BY <1>1, DeliveryLive
  <1>3. UNCHANGED <<ctx_err, disconnecting, replies, nconn>>
    BY DEF on_reply_wrapper, hiredisVars, rawVars
  <1>4. Auth /\ ErrSetsDisconnecting => ctx_err[Top.k] = "OK" \/ disconnecting[Top.k]
    BY <1>2 DEF AuthPart, FailedConnect
  <1>5. \/ Continue(<<f>>)
        \/ Continue(<<g>>) /\ ctx_err[Top.k] = "IO" /\ ~disconnecting[Top.k]
    <2>1. CASE disconnecting[Top.k]
      BY <2>1 DEF on_reply_wrapper
    <2>2. CASE ~disconnecting[Top.k] /\ ctx_err[Top.k] # "IO"
      BY <2>2 DEF on_reply_wrapper
    <2>3. CASE ~disconnecting[Top.k] /\ ctx_err[Top.k] = "IO"
      BY <1>2, <2>3 DEF on_reply_wrapper
    <2> QED
      BY <2>1, <2>2, <2>3
  <1>6. /\ f.op \in Deliver /\ f.c = Top.c /\ f.k = Top.k /\ f.a = Top.a
        /\ g.op \in Deliver /\ g.c = Top.c /\ g.k = Top.k
    BY DEF F, Deliver
  <1> HIDE DEF f, g
  <1>7. CASE Continue(<<f>>)
    BY <1>1, <1>3, <1>6, <1>7, HandedAuth
  <1>8. CASE Continue(<<g>>) /\ ctx_err[Top.k] = "IO" /\ ~disconnecting[Top.k]
    BY <1>1, <1>3, <1>4, <1>6, <1>8, HandedAuth
  <1> QED
    BY <1>5, <1>7, <1>8

LEMMA CallReplyAuth == ASSUME IndInv, FlowInv, AuthPart, [Next]_vars, CallReply PROVE AuthPart'
  <1> DEFINE f == F("pop_reply", Top.c, Top.k, Top.a)
  <1>1. /\ At("call_reply") /\ "call_reply" \in Deliver
    BY DEF CallReply, call_reply, Deliver
  <1>2. context_[Top.k] /\ Top.c \in Elems(reply_list_[Top.k])
    BY <1>1, DeliveryLive
  <1>3. UNCHANGED <<ctx_err, disconnecting, replies, nconn>> /\ Continue(<<f>>)
    BY <1>2 DEF CallReply, call_reply, hiredisVars, rawVars
  <1>4. f.op \in Deliver /\ f.c = Top.c /\ f.k = Top.k /\ f.a = Top.a
    BY DEF F, Deliver
  <1> HIDE DEF f
  <1> QED
    BY <1>1, <1>3, <1>4, HandedAuth

\* The answer to AUTH calls it back.
LEMMA PopReplyAuth == ASSUME IndInv, FlowInv, AuthPart, [Next]_vars, PopReply PROVE AuthPart'
  <1>1. /\ At("pop_reply") /\ "pop_reply" \in Deliver
    BY DEF PopReply, pop_reply, Deliver
  <1>2. /\ stack # <<>> /\ Top.c \in Created /\ Pile[1] = Top
        /\ reply_list_[Top.k] # <<>> /\ Head(reply_list_[Top.k]) = Top.c
        /\ Top.a \in Replies \cup {"retry"}
    BY <1>1, DeliveryLive, TopGood DEF IndInv, GoodFrame, Good
  <1>3. UNCHANGED <<ctx_err, disconnecting, replies, nconn>>
    BY DEF PopReply, hiredisVars, rawVars
  <1>4. ASSUME NEW k \in ConnIds, AuthAnswered(k) PROVE AuthCalled(k)'
    <2>1. Top.c = AuthCmd(k) /\ Top.a # "retry"
      BY <1>2, <1>4 DEF AuthAnswered
    <2>2. Top.a \notin {"retry", "ask"}
      BY <1>2, <2>1 DEF Replies
    <2>3. cmd_call_reply(Top.c, Translate(Top.k, Top.c, Top.a), Top.a)
      BY <1>2, <2>2 DEF PopReply, pop_reply, CallBack
    <2>4. calls'[Top.c] = 1
      BY <1>2, <2>3 DEF cmd_call_reply, IndInv, CmdPart, CmdTypeOK, Created
    <2> QED
      BY <2>1, <2>4 DEF AuthCalled, AuthCmd
  <1> QED
    BY <1>1, <1>3, <1>4, DeliveryAuth

-----------------------------------------------------------------------------
(* The network                                                             *)

\* Nothing is under way when the network has news.
LEMMA LoopAuth ==
  ASSUME InLoop
  PROVE  \A k \in ConnIds : ~FailedConnect(k) /\ ~AuthOnTop(k) /\ ~AuthAnswered(k)
  <1>1. stack = <<>> /\ Len(stack) = 0
    BY DEF InLoop
  <1> QED
    BY <1>1 DEF FailedConnect, AuthOnTop, AuthAnswered, Delivers

LEMMA ConnectFailedAuth ==
  ASSUME IndInv, FlowInv, AuthPart, [Next]_vars, NEW k \in ConnIds, ByHiredis(ConnectFailed(k))
  PROVE  AuthPart'
  <1> DEFINE f == F("on_connected", 0, k, "IO")
             g == F("h_connect_failed", 0, k, "none")
  <1>1. /\ InLoop /\ Call(<<f, g>>) /\ UNCHANGED <<disconnecting, replies, nconn>>
        /\ ctx_err' = [ctx_err EXCEPT ![k] = "IO"]
    BY DEF ByHiredis, ConnectFailed, rawVars
  <1>2. g.op = "h_connect_failed" /\ g.k = k
    BY DEF F
  <1> HIDE DEF f, g
  <1>3. Len(stack) = 0
    BY <1>1 DEF InLoop
  <1>4. Len(stack') = Len(stack) + 2 /\ Pile'[Len(stack)] = g
    BY <1>1, PileCallTwo DEF IndInv
  <1>5. FailedConnect(k)'
    BY <1>2, <1>3, <1>4 DEF FailedConnect
  <1>6. \A j \in ConnIds : j # k => ctx_err'[j] = ctx_err[j]
    BY <1>1 DEF IndInv, ContextPart
  <1>7. \A j \in ConnIds : ctx_err'[j] # "OK" => FailedConnect(j)' \/ ~(Auth /\ ErrSetsDisconnecting) \/ disconnecting'[j]
    BY <1>1, <1>5, <1>6, LoopAuth DEF AuthPart
  <1>8. \A j \in ConnIds : AuthFirst(j) => AuthFirst(j)'
    BY <1>1 DEF AuthFirst, AuthCmd
  <1> QED
    BY <1>1, <1>7, <1>8, LoopAuth, AuthMoves

\* After the connect callback the failed context is disconnecting.
LEMMA ConnectFailedEndAuth ==
  ASSUME IndInv, FlowInv, AuthPart, [Next]_vars, ByHiredis(ConnectFailedEnd)
  PROVE  AuthPart'
  <1>1. /\ stack # <<>> /\ Top.op = "h_connect_failed" /\ Top.k \in ConnIds
        /\ Len(stack) \in Nat /\ Len(stack) >= 1 /\ Pile[Len(stack) - 1] = Top
    BY TopContext DEF ByHiredis, ConnectFailedEnd, ConnOps
  <1>2. /\ UNCHANGED <<ctx_err, replies, nconn>>
        /\ disconnecting' = [disconnecting EXCEPT ![Top.k] = @ \/ ErrSetsDisconnecting]
    BY DEF ByHiredis, ConnectFailedEnd, rawVars
  <1>3. Len(stack) - 1 \in 0 .. Len(stack) - 1
    BY <1>1
  <1>4. Len(stack) - 1 = 0
    BY <1>1, <1>3 DEF FlowInv, ShapePart, ShapeAt, BottomOps
  <1>5. \A k \in ConnIds : FailedConnect(k) => k = Top.k
    BY <1>1, <1>4 DEF FailedConnect
  <1>6. \A k \in ConnIds : /\ ErrSetsDisconnecting /\ k = Top.k => disconnecting'[k]
                           /\ disconnecting[k] => disconnecting'[k]
    BY <1>2 DEF IndInv, ContextPart
  <1>7. \A k \in ConnIds : ctx_err'[k] # "OK" => ~(Auth /\ ErrSetsDisconnecting) \/ disconnecting'[k]
    BY <1>2, <1>5, <1>6 DEF AuthPart
  <1>8. \A k \in ConnIds : ~AuthAnswered(k) /\ ~AuthOnTop(k)
    BY <1>1, NotAnswering DEF Deliver, AuthOnTop
  <1>9. \A k \in ConnIds : AuthFirst(k) => AuthFirst(k)'
    BY <1>2 DEF AuthFirst, AuthCmd
  <1> QED
    BY <1>2, <1>7, <1>8, <1>9, AuthMoves

\* A context that breaks is marked at once.
LEMMA ConnectionLostAuth ==
  ASSUME IndInv, FlowInv, AuthPart, [Next]_vars, NEW k \in ConnIds, NEW e, ByHiredis(ConnectionLost(k, e))
  PROVE  AuthPart'
  <1>1. /\ InLoop /\ UNCHANGED <<replies, nconn>>
        /\ ctx_err' = [ctx_err EXCEPT ![k] = e]
        /\ disconnecting' = [disconnecting EXCEPT ![k] = @ \/ ErrSetsDisconnecting]
    BY DEF ByHiredis, ConnectionLost, rawVars
  <1>2. \A j \in ConnIds : /\ ErrSetsDisconnecting /\ j = k => disconnecting'[j]
                           /\ disconnecting[j] => disconnecting'[j]
                           /\ j # k => ctx_err'[j] = ctx_err[j]
    BY <1>1 DEF IndInv, ContextPart
  <1>3. \A j \in ConnIds : ctx_err'[j] # "OK" => ~(Auth /\ ErrSetsDisconnecting) \/ disconnecting'[j]
    BY <1>1, <1>2, LoopAuth DEF AuthPart
  <1>4. \A j \in ConnIds : AuthFirst(j) => AuthFirst(j)'
    BY <1>1 DEF AuthFirst, AuthCmd
  <1> QED
    BY <1>1, <1>3, <1>4, LoopAuth, AuthMoves

\* The first reply of a connection is the answer to AUTH.
LEMMA AnswerAuth ==
  ASSUME IndInv, NEW k \in ConnIds, NEW r, r # "retry", AuthFirst(k),
         Len(stack') = 2, Pile'[1] = ReplyFrame(k, r)
  PROVE  AuthAnswered(k)'
  <1>1. Head(replies[k]) \in Entries /\ Head(replies[k]).c = AuthCmd(k)
    BY DEF AuthFirst, IndInv, QueuePart
  <1>2. Head(replies[k]).fn = "on_reply"
    BY <1>1 DEF Entries
  <1>3. /\ ReplyFrame(k, r).op \in Deliver /\ ReplyFrame(k, r).k = k
        /\ ReplyFrame(k, r).c = AuthCmd(k) /\ ReplyFrame(k, r).a # "retry"
    BY <1>1, <1>2 DEF ReplyFrame, F, Deliver
  <1> QED
    BY <1>3 DEF AuthAnswered, Delivers, AuthCmd

LEMMA ReplyArrivesAuth ==
  ASSUME IndInv, FlowInv, AuthPart, [Next]_vars, NEW k \in ConnIds, NEW r, r # "retry", ByHiredis(ReplyArrives(k, r))
  PROVE  AuthPart'
  <1> DEFINE f == ReplyFrame(k, r)
             g == F("h_reply_end", 0, k, "none")
  <1>1. /\ InLoop /\ Call(<<f, g>>) /\ UNCHANGED <<ctx_err, disconnecting, nconn>>
        /\ replies' = [replies EXCEPT ![k] = Tail(@)]
    BY DEF ByHiredis, ReplyArrives, rawVars
  <1>2. Len(stack) = 0
    BY <1>1 DEF InLoop
  <1> HIDE DEF g
  <1>3. Len(stack') = Len(stack) + 2 /\ Pile'[Len(stack) + 1] = f
    <2> HIDE DEF f
    <2> QED
      BY <1>1, PileCallTwo DEF IndInv
  <1>4. Len(stack') = 2 /\ Pile'[1] = ReplyFrame(k, r)
    BY <1>2, <1>3
  <1>5. \A j \in ConnIds : ctx_err'[j] # "OK" => ~(Auth /\ ErrSetsDisconnecting) \/ disconnecting'[j]
    BY <1>1, LoopAuth DEF AuthPart
  <1>6. AuthFirst(k) => AuthAnswered(k)'
    BY <1>4, AnswerAuth
  <1>7. \A j \in ConnIds : AuthFirst(j) /\ j # k => AuthFirst(j)'
    BY <1>1 DEF AuthFirst, AuthCmd, IndInv, QueuePart
  <1> QED
    BY <1>1, <1>5, <1>6, <1>7, LoopAuth, AuthMoves

\* If the context is freed before that, AUTH is answered with nullptr.
LEMMA FreeContextAuth ==
  ASSUME IndInv, FlowInv, AuthPart, [Next]_vars, ByHiredis(FreeContext)
  PROVE  AuthPart'
  <1>1. /\ stack # <<>> /\ Top.op = "h_free" /\ Top.k \in ConnIds
        /\ Len(stack) \in Nat /\ Len(stack) >= 1 /\ Pile[Len(stack) - 1] = Top
    BY TopContext DEF ByHiredis, FreeContext, ConnOps
  <1>2. UNCHANGED <<ctx_err, disconnecting, nconn>>
    BY DEF ByHiredis, FreeContext, rawVars
  <1>3. CASE replies[Top.k] = <<>>
    <2>1. \E fs : IsSeq(fs) /\ Continue(fs)
      <3>1. \A p : \A f, g : IsSeq((IF p THEN <<f>> ELSE <<>>) \o <<g>>)
        BY SeqForms, SeqConcat
      <3> QED
        BY <1>3, <3>1 DEF ByHiredis, FreeContext
    <2>2. UNCHANGED replies
      BY <1>3 DEF ByHiredis, FreeContext
    <2> QED
      BY <1>1, <1>2, <2>1, <2>2, AuthKept DEF GoesOn, Deliver
  <1>4. CASE replies[Top.k] # <<>>
    <2> DEFINE f == ReplyFrame(Top.k, "null")
    <2>1. Continue(<<f, Top>>) /\ replies' = [replies EXCEPT ![Top.k] = Tail(@)]
      BY <1>4 DEF ByHiredis, FreeContext
    <2>2. Len(stack) - 1 \in 0 .. Len(stack) - 1
      BY <1>1
    <2>3. Len(stack) - 1 = 0
      BY <1>1, <1>4, <2>2 DEF FlowInv, ShapePart, ShapeAt
    <2>4. Len(stack') = Len(stack) + 1 /\ Pile'[Len(stack)] = f
      <3> HIDE DEF f
      <3> QED
        BY <1>1, <2>1, PileContinueTwo DEF IndInv
    <2>5. Len(stack) = 1
      BY <1>1, <2>3
    <2>6. Len(stack') = 2 /\ Pile'[1] = ReplyFrame(Top.k, "null")
      BY <2>4, <2>5
    <2>7. \A k \in ConnIds : ~FailedConnect(k)
      BY <1>1, <2>3 DEF FailedConnect
    <2>8. \A k \in ConnIds : ctx_err'[k] # "OK" => ~(Auth /\ ErrSetsDisconnecting) \/ disconnecting'[k]
      BY <1>2, <2>7 DEF AuthPart
    <2>9. \A k \in ConnIds : ~AuthAnswered(k) /\ ~AuthOnTop(k)
      BY <1>1, NotAnswering DEF Deliver, AuthOnTop
    <2>10. ASSUME NEW k \in ConnIds, AuthFirst(k) PROVE AuthFirst(k)' \/ AuthAnswered(k)'
      <3>1. CASE k = Top.k
        BY <2>6, <2>10, <3>1, AnswerAuth
      <3>2. CASE k # Top.k
        BY <2>1, <2>10, <3>2 DEF AuthFirst, AuthCmd, IndInv, QueuePart
      <3> QED
        BY <3>1, <3>2
    <2> QED
      BY <1>2, <2>8, <2>9, <2>10, AuthMoves
  <1> QED
    BY <1>3, <1>4

-----------------------------------------------------------------------------
(* New connections                                                         *)

LEMMA FirstOf ==
  ASSUME NEW S, NEW s \in Seq(S), NEW T, NEW fs \in Seq(T), fs # <<>>
  PROVE  fs \o s # <<>> /\ Head(fs \o s) = fs[1]
  <1>1. s \in Seq(S \cup T) /\ fs \in Seq(S \cup T) /\ Len(fs) >= 1
    BY SeqMono
  <1>2. Len(fs \o s) >= 1 /\ (fs \o s)[1] = fs[1] /\ fs \o s \in Seq(S \cup T)
    BY <1>1
  <1> QED
    BY <1>2

\* What runs first after a call or a continuation.
LEMMA FirstFrame ==
  ASSUME StackPart, NEW T, NEW fs \in Seq(T), fs # <<>>,
         Call(fs) \/ (stack # <<>> /\ Continue(fs))
  PROVE  stack' # <<>> /\ Top' = fs[1]
  <1>1. PICK s \in Seq(GoodFrame) : stack' = fs \o s
    <2>1. stack \in Seq(GoodFrame) /\ (stack # <<>> => Rest \in Seq(GoodFrame))
      BY TailType DEF StackPart, Rest
    <2> QED
      BY <2>1 DEF Call, Continue
  <1> QED
    BY <1>1, FirstOf DEF Top

\* A new connection begins with its AUTH command.
LEMMA ConnectAuth ==
  ASSUME IndInv, FlowInv, AuthPart, [Next]_vars, NEW k, k = nconn + 1, nconn < MaxConns,
         make_connection(k), GoesOn \/ Enters,
         stack # <<>> => Top.op \in {"user", "exec"},
         Auth => /\ stack' # <<>>
                 /\ Top' \in {F("exec_conn", AuthCmd(k), k, "none"), F("destroy_cmd", AuthCmd(k), 0, "none")}
  PROVE  AuthPart'
  <1> SUFFICES ASSUME Auth, ErrSetsDisconnecting, NEW j \in ConnIds
               PROVE  /\ ctx_err'[j] # "OK" => disconnecting'[j] \/ FailedConnect(j)'
                      /\ j <= nconn' => AuthOnTop(j)' \/ AuthFirst(j)' \/ AuthCalled(j)'
    BY DEF AuthPart
  <1>1. /\ UNCHANGED <<disconnecting, ctx_err, replies>> /\ nconn' = k /\ k \in ConnIds
        /\ create(AuthCmd(k)) /\ set_connecting(k) /\ AuthCmd(k) \in CmdIds
    BY NewConnection DEF make_connection, redisAsyncConnect
  <1>2. ctx_err'[j] # "OK" => disconnecting'[j] \/ FailedConnect(j)'
    <2>1. FailedConnect(j) => stack # <<>>
      BY DEF FailedConnect
    <2>2. FailedConnect(j) => FailedConnect(j)'
      BY <2>1, StepKeeps DEF IndInv
    <2> QED
      BY <1>1, <2>2 DEF AuthPart
  <1>3. CASE j <= nconn
    <2>1. ~AuthOnTop(j) /\ ~AuthAnswered(j)
      BY NotAnswering DEF AuthOnTop, Deliver
    <2>2. AuthFirst(j) => AuthFirst(j)'
      BY <1>1 DEF AuthFirst, AuthCmd
    <2>3. AuthCmd(j) \in CmdIds
      BY BoundsAssumption DEF AuthCmd, CmdIds, ConnIds, BoundsAssumption
    <2>4. AuthCalled(j) => AuthCalled(j)'
      BY <2>3, CalledStays DEF AuthCalled, AuthCmd
    <2> QED
      BY <1>2, <1>3, <2>1, <2>2, <2>4 DEF AuthPart
  <1>4. CASE j = k
    <2>1. k > nconn
      BY DEF IndInv, RawPart
    <2>2. replies[k] = <<>> /\ ~disconnecting[k]
      BY <1>1, <2>1 DEF FlowInv, ConnsPart
    <2>3. conn_status_'[k] = "CONNECTING"
      BY <1>1 DEF set_connecting, IndInv, ConnPart
    <2>4. ttl_'[AuthCmd(k)] > 0
      BY <1>1, TTLAssumption DEF create, IndInv, CmdPart, CmdTypeOK, TTLAssumption
    <2>5. stack' # <<>> /\ Top'.c = AuthCmd(k)
          /\ (Top'.op = "destroy_cmd" \/ (Top'.op = "exec_conn" /\ Top'.k = k))
      BY DEF F
    <2>6. AuthOnTop(j)'
      BY <1>1, <1>4, <2>2, <2>3, <2>4, <2>5 DEF AuthOnTop, AuthCmd
    <2> QED
      BY <1>2, <2>6
  <1>5. j <= nconn' => j <= nconn \/ j = k
    BY <1>1 DEF IndInv, RawPart, ConnIds
  <1> QED
    BY <1>2, <1>3, <1>4, <1>5

LEMMA UserConnectAuth == ASSUME IndInv, FlowInv, AuthPart, [Next]_vars, UserConnect PROVE AuthPart'
  <1>0. \E k : k = nconn + 1
    OBVIOUS
  <1>1. PICK k : k = nconn + 1
    BY <1>0
  <1> DEFINE a == F("exec_conn", AuthCmd(k), k, "none")
             b == F("destroy_cmd", AuthCmd(k), 0, "none")
             u == F("user", 0, k, "on_connect")
  <1>2. /\ InUser /\ nconn < MaxConns /\ make_connection(k)
        /\ \/ Auth /\ Call(<<a, u>>)
           \/ Auth /\ Call(<<b>>)
           \/ ~Auth /\ Call(<<u>>)
    BY <1>1, ConnectFramesAre DEF UserConnect
  <1>3. stack # <<>> => Top.op \in {"user", "exec"}
    BY <1>2 DEF InUser, InLoop, At
  <1> HIDE DEF a, b, u
  <1>4. Enters
    BY <1>2, SeqForms DEF Enters
  <1>5. Auth => stack' # <<>> /\ Top' \in {a, b}
    <2>1. <<a, u>> \in Seq({a, u}) /\ <<a, u>> # <<>> /\ <<a, u>>[1] = a
      OBVIOUS
    <2>2. <<b>> \in Seq({b}) /\ <<b>> # <<>> /\ <<b>>[1] = b
      OBVIOUS
    <2>3. Auth /\ Call(<<a, u>>) => stack' # <<>> /\ Top' = a
      BY <2>1, FirstFrame DEF IndInv
    <2>4. Auth /\ Call(<<b>>) => stack' # <<>> /\ Top' = b
      BY <2>2, FirstFrame DEF IndInv
    <2> QED
      BY <1>2, <2>3, <2>4
  <1> QED
    BY <1>1, <1>2, <1>3, <1>4, <1>5, ConnectAuth DEF a, b

LEMMA ExecConnectAuth ==
  ASSUME IndInv, FlowInv, AuthPart, [Next]_vars, exec_connect \/ exec_auth_format_failed
  PROVE  AuthPart'
  <1>0. \E k : k = nconn + 1
    OBVIOUS
  <1>1. PICK k : k = nconn + 1
    BY <1>0
  <1> DEFINE a == F("exec_conn", AuthCmd(k), k, "none")
             b == F("destroy_cmd", AuthCmd(k), 0, "none")
             u == F("user", 0, k, "on_connect")
             f == F("exec_conn", Top.c, k, "none")
             g == F("exec_failed", Top.c, 0, "none")
  <1>2. /\ At("exec") /\ nconn < MaxConns /\ make_connection(k)
        /\ \/ Auth /\ Continue(<<a, u, f>>)
           \/ Auth /\ Continue(<<b, g>>)
           \/ ~Auth /\ Continue(<<u, f>>)
    BY <1>1, ConnectFramesAre DEF exec_connect, exec_auth_format_failed
  <1>3. stack # <<>> /\ Top.op \in {"user", "exec"}
    BY <1>2 DEF At, Running
  <1> HIDE DEF a, b, u, f, g
  <1>4. GoesOn
    <2>1. <<a, u, f>> \in Seq({a, u, f})
      OBVIOUS
    <2> QED
      BY <1>2, <1>3, <2>1, SeqForms DEF GoesOn, IsSeq
  <1>5. Auth => stack' # <<>> /\ Top' \in {a, b}
    <2>1. <<a, u, f>> \in Seq({a, u, f}) /\ <<a, u, f>> # <<>> /\ <<a, u, f>>[1] = a
      OBVIOUS
    <2>2. <<b, g>> \in Seq({b, g}) /\ <<b, g>> # <<>> /\ <<b, g>>[1] = b
      OBVIOUS
    <2>3. Auth /\ Continue(<<a, u, f>>) => stack' # <<>> /\ Top' = a
      BY <1>3, <2>1, FirstFrame DEF IndInv
    <2>4. Auth /\ Continue(<<b, g>>) => stack' # <<>> /\ Top' = b
      BY <1>3, <2>2, FirstFrame DEF IndInv
    <2> QED
      BY <1>2, <2>3, <2>4
  <1> QED
    BY <1>1, <1>2, <1>3, <1>4, <1>5, ConnectAuth DEF a, b

-----------------------------------------------------------------------------
(* All steps                                                               *)

LEMMA SameAuth ==
  ASSUME AuthPart, UNCHANGED <<stack, cmdVars, hiredisVars, connVars, rawVars>>
  PROVE  AuthPart'
  BY DEF AuthPart, FailedConnect, AuthOnTop, AuthFirst, AuthAnswered, AuthCalled, AuthCmd, Delivers,
     Pile, Top, cmdVars, hiredisVars, connVars, rawVars

LEMMA CrashAuth == ASSUME AuthPart, Crash PROVE AuthPart'
  <1>1. UNCHANGED <<stack, cmdVars, hiredisVars, connVars, rawVars>>
    BY DEF Crash, UseAfterFree, cmdVars, hiredisVars, connVars, rawVars
  <1> QED
    BY <1>1, SameAuth

LEMMA InitAuth == Init => AuthPart
  <1> SUFFICES ASSUME Init, NEW k \in ConnIds PROVE ctx_err[k] = "OK" /\ ~(k <= nconn)
    BY DEF AuthPart
  <1> QED
    BY DEF Init, HiredisInit, ConnIds

LEMMA LibraryStepAuth ==
  ASSUME IndInv, FlowInv, AuthPart, [Next]_vars, LibraryStep PROVE AuthPart'
  BY ExecAuth, ExecConnectAuth, ExecConnAuth, ExecConnOtherAuth, RetryAuth, DestroyCmdAuth,
     ReleaseAuth, ResetAuth, ProcAuth, OnReplyAuth, ConnectedAuth, CallReplyAuth, PopReplyAuth,
     HiredisAuth, ConnectFailedEndAuth, FreeContextAuth
  DEF LibraryStep

LEMMA NextAuth == ASSUME IndInv, FlowInv, AuthPart, [Next]_vars PROVE AuthPart'
  <1>1. CASE LibraryStep
    BY <1>1, LibraryStepAuth
  <1>2. CASE NetworkStep
    <2>1. \A r \in {"ok", "error"} : r # "retry"
      OBVIOUS
    <2> QED
      BY <1>2, <2>1, ConnectDoneAuth, ConnectFailedAuth, ReplyArrivesAuth, ConnectionLostAuth DEF NetworkStep
  <1>3. CASE UserReturn \/ Proc \/ UserExec \/ UserConnect \/ UserRelease \/ UserReset
    BY <1>3, ConnectedAuth, UserAuth, UserConnectAuth
  <1>4. CASE Crash \/ Idle \/ UNCHANGED vars
    BY <1>4, CrashAuth, SameAuth DEF Idle, vars, stackVars
  <1> QED
    BY <1>1, <1>2, <1>3, <1>4 DEF Next

\* The AUTH command of every connection is about to be sent, first in the
\* queue, being answered or answered; and a broken context is disconnecting.
THEOREM AuthInvariance == Spec => [](IndInv /\ FlowInv /\ AuthPart)
  <1>1. Init => AuthPart
    BY InitAuth
  <1>2. IndInv /\ FlowInv /\ AuthPart /\ [Next]_vars => AuthPart'
    BY NextAuth
  <1> QED
    BY <1>1, <1>2, FlowInvariance, PTL DEF Spec

LEMMA AuthComesFirst ==
  ASSUME IndInv, FlowInv, AuthPart, ErrSetsDisconnecting
  PROVE  NothingOvertakesAuth
  <1> SUFFICES ASSUME NEW k \in ConnIds, Auth, replies[k] # <<>>
               PROVE  \/ Head(replies[k]).c = AuthCmd(k)
                      \/ AuthCmd(k) \in Delivering(k)
                      \/ calls[AuthCmd(k)] = 1
    BY DEF NothingOvertakesAuth
  <1>1. k <= nconn
    BY DEF FlowInv, ConnsPart, IndInv, RawPart, ConnIds
  <1>2. ~AuthOnTop(k)
    BY DEF AuthOnTop
  <1>3. AuthAnswered(k) => AuthCmd(k) \in Delivering(k)
    BY DeliveringIs DEF AuthAnswered
  <1> QED
    BY <1>1, <1>2, <1>3 DEF AuthPart, AuthFirst, AuthCalled

\* With a password set, no command overtakes AUTH on its connection, whatever
\* on_connect and the other callbacks send and however the connection ends, if
\* hiredis marks a broken context as disconnecting before on_reply_wrapper
\* sees it; without that a lost AUTH is retried like any other command.
THEOREM AuthNotOvertaken == Spec => [](ErrSetsDisconnecting => NothingOvertakesAuth)
  <1>1. IndInv /\ FlowInv /\ AuthPart => (ErrSetsDisconnecting => NothingOvertakesAuth)
    BY AuthComesFirst
  <1> QED
    BY <1>1, AuthInvariance, PTL

=============================================================================
