-------------------------- MODULE ConnectionProofs --------------------------
(***************************************************************************)
(* What the proofs about both connectors rest on: sequences, the life of a *)
(* command, and the call stack seen from the bottom.                       *)
(***************************************************************************)
EXTENDS Connection, Integers, TLAPS

-----------------------------------------------------------------------------
(* Sequences                                                               *)

\* A sequence over a set is one over every larger set.
LEMMA SeqMono ==
  ASSUME NEW S, NEW T, S \subseteq T, NEW s \in Seq(S)
  PROVE  s \in Seq(T)
  OBVIOUS

\* Concatenation, sequences of no, one and two elements, and the tail stay within the set.
LEMMA ConcatType ==
  ASSUME NEW S, NEW s \in Seq(S), NEW t \in Seq(S)
  PROVE  s \o t \in Seq(S)
  OBVIOUS

LEMMA EmptyType ==
  ASSUME NEW S
  PROVE  <<>> \in Seq(S)
  OBVIOUS

LEMMA OneType ==
  ASSUME NEW S, NEW x \in S
  PROVE  <<x>> \in Seq(S)
  OBVIOUS

LEMMA TwoType ==
  ASSUME NEW S, NEW x \in S, NEW y \in S
  PROVE  <<x, y>> \in Seq(S)
  OBVIOUS

LEMMA TailType ==
  ASSUME NEW S, NEW s \in Seq(S), s # <<>>
  PROVE  Head(s) \in S /\ Tail(s) \in Seq(S)
  OBVIOUS

\* Sequences are equal when their elements are; short concatenations.
LEMMA SameElements ==
  ASSUME NEW S, NEW s \in Seq(S), NEW t \in Seq(S), Len(s) = Len(t),
         \A i \in 1 .. Len(s) : s[i] = t[i]
  PROVE  s = t
  OBVIOUS

LEMMA Pair == ASSUME NEW x, NEW y PROVE <<x>> \o <<y>> = <<x, y>>
  <1> DEFINE s == <<x>> \o <<y>>
             t == <<x, y>>
  <1>1. s \in Seq({x, y}) /\ Len(s) = 2 /\ s[1] = x /\ s[2] = y
    OBVIOUS
  <1>2. t \in Seq({x, y}) /\ Len(t) = 2 /\ t[1] = x /\ t[2] = y
    OBVIOUS
  <1> HIDE DEF s, t
  <1>3. \A i \in 1 .. Len(s) : i = 1 \/ i = 2
    BY <1>1
  <1>4. s = t
    BY <1>1, <1>2, <1>3, SameElements
  <1> QED
    BY <1>4 DEF s, t

LEMMA Triple == ASSUME NEW x, NEW y, NEW z PROVE <<x, y>> \o <<z>> = <<x, y, z>>
  <1> DEFINE s == <<x, y>> \o <<z>>
             t == <<x, y, z>>
  <1>1. s \in Seq({x, y, z}) /\ Len(s) = 3 /\ s[1] = x /\ s[2] = y /\ s[3] = z
    OBVIOUS
  <1>2. t \in Seq({x, y, z}) /\ Len(t) = 3 /\ t[1] = x /\ t[2] = y /\ t[3] = z
    OBVIOUS
  <1> HIDE DEF s, t
  <1>3. \A i \in 1 .. Len(s) : i = 1 \/ i = 2 \/ i = 3
    BY <1>1
  <1>4. s = t
    BY <1>1, <1>2, <1>3, SameElements
  <1> QED
    BY <1>4 DEF s, t

-----------------------------------------------------------------------------
(* Commands                                                                *)

Created == {c \in CmdIds : cmd_st[c] # "none"}

\* The callback is called once, and before the command is freed.
CmdPart ==
  /\ CmdTypeOK
  /\ cmd_st \in [CmdIds -> ObjectStates]
  /\ \A c \in CmdIds :
       /\ cmd_st[c] = "none" => ~callback_[c] /\ calls[c] = 0
       /\ cmd_st[c] # "none" => calls[c] = IF callback_[c] THEN 0 ELSE 1
       /\ cmd_st[c] = "freed" => ~callback_[c]

\* A command is called back.
LEMMA CalledBack ==
  ASSUME CmdPart, NEW c \in Created, NEW code \in ErrorCodes, NEW r \in Replies,
         cmd_call_reply(c, code, r), UNCHANGED cmd_st, ttl_' \in [CmdIds -> 0 .. TTL]
  PROVE  /\ CmdPart' /\ Created' = Created /\ ~callback_'[c]
         /\ \A d \in CmdIds : callback_'[d] => callback_[d]
  <1>a. callback_' \in [CmdIds -> BOOLEAN] /\ error_code_' \in [CmdIds -> ErrorCodes]
          /\ got' \in [CmdIds -> Replies]
    BY DEF CmdPart, CmdTypeOK, cmd_call_reply, Created
  <1>b. calls' \in [CmdIds -> Nat]
    BY DEF CmdPart, CmdTypeOK, cmd_call_reply, Created
  <1>c. ASSUME NEW d \in CmdIds
        PROVE  /\ cmd_st'[d] = "none" => ~callback_'[d] /\ calls'[d] = 0
               /\ cmd_st'[d] # "none" => calls'[d] = IF callback_'[d] THEN 0 ELSE 1
               /\ cmd_st'[d] = "freed" => ~callback_'[d]
    <2>1. CASE d = c
      BY <2>1 DEF CmdPart, CmdTypeOK, cmd_call_reply, Created
    <2>2. CASE d # c
      <3>1. callback_'[d] = callback_[d] /\ calls'[d] = calls[d]
        BY <2>2 DEF CmdPart, CmdTypeOK, cmd_call_reply, Created
      <3> QED
        BY <3>1 DEF CmdPart
    <2> QED
      BY <2>1, <2>2
  <1>1. CmdPart'
    BY <1>a, <1>b, <1>c DEF CmdPart, CmdTypeOK
  <1>2. Created' = Created
    BY DEF Created
  <1>3. ~callback_'[c] /\ \A d \in CmdIds : callback_'[d] => callback_[d]
    BY DEF CmdPart, CmdTypeOK, cmd_call_reply, Created
  <1> QED
    BY <1>1, <1>2, <1>3

\* A command is created, for the first time or again.
LEMMA NewCommand ==
  ASSUME CmdPart, NEW c \in CmdIds, create(c)
  PROVE  /\ CmdPart' /\ Created' = Created \cup {c}
         /\ \A d \in CmdIds \ {c} : callback_'[d] = callback_[d]
  <1>1. CmdPart'
    BY TTLAssumption DEF CmdPart, CmdTypeOK, create, TTLAssumption, ObjectStates, ErrorCodes,
       Replies
  <1>2. Created' = Created \cup {c}
    BY DEF Created, create, CmdPart
  <1>3. \A d \in CmdIds \ {c} : callback_'[d] = callback_[d]
    BY DEF CmdPart, CmdTypeOK, create
  <1> QED
    BY <1>1, <1>2, <1>3

\* A command that has been called back is destroyed.
LEMMA Destroyed ==
  ASSUME CmdPart, NEW c \in Created, ~callback_[c],
         cmd_st' = [cmd_st EXCEPT ![c] = "freed"],
         UNCHANGED <<callback_, ttl_, error_code_, calls, got>>
  PROVE  CmdPart' /\ Created' = Created
  <1>1. CmdPart'
    BY DEF CmdPart, CmdTypeOK, Created, ObjectStates
  <1>2. Created' = Created
    BY DEF Created, CmdPart
  <1> QED
    BY <1>1, <1>2

\* Nothing that its callback depends on changes.
LEMMA SameCommands ==
  ASSUME CmdPart, UNCHANGED <<cmd_st, callback_, calls, got>>,
         ttl_' \in [CmdIds -> 0 .. TTL], error_code_' \in [CmdIds -> ErrorCodes]
  PROVE  CmdPart' /\ Created' = Created
  BY DEF CmdPart, CmdTypeOK, Created

\* The stages of a life.
LEMMA Stages ==
  /\ \A n \in Nat : Stage("none", n) = "none" /\ Stage("freed", n) = "destroyed"
  /\ Stage("live", 0) = "pending" /\ Stage("live", 1) = "called"
  BY DEF Stage

\* The life of one command changes when no other command does.
LEMMA OneLife ==
  ASSUME NEW c \in CmdIds, NEW v, lifeOf'[c] = v,
         \A d \in CmdIds \ {c} : cmd_st'[d] = cmd_st[d] /\ calls'[d] = calls[d]
  PROVE  lifeOf' = [lifeOf EXCEPT ![c] = v]
  <1>1. \A d \in CmdIds \ {c} : lifeOf'[d] = lifeOf[d]
    BY DEF lifeOf
  <1>2. lifeOf = [d \in CmdIds |-> lifeOf[d]] /\ lifeOf' = [d \in CmdIds |-> lifeOf'[d]]
    BY DEF lifeOf
  <1> QED
    BY <1>1, <1>2

-----------------------------------------------------------------------------
(* The stack from the bottom                                               *)

StackSeq == stack \in Seq(Frame)

Pile   == [d \in 0 .. Len(stack) - 1 |-> stack[Len(stack) - d]]

\* A step keeps the h lowest frames.
Keep(h) == /\ h \in Nat /\ h <= Len(stack) /\ Len(stack') >= h /\ Len(stack') \in Nat
           /\ \A d \in 0 .. h - 1 : Pile'[d] = Pile[d]

\* Frames and their heights.
LEMMA PileFrames ==
  ASSUME StackSeq
  PROVE  /\ Len(stack) \in Nat
         /\ \A d \in 0 .. Len(stack) - 1 : Pile[d] \in Frame /\ Pile[d] = stack[Len(stack) - d]
         /\ stack # <<>> => Len(stack) >= 1 /\ Pile[Len(stack) - 1] = Top
         /\ stack = <<>> => Len(stack) = 0
  BY DEF StackSeq, Pile, Top

\* The frames of a concatenation.
LEMMA ConcatPile ==
  ASSUME NEW S, NEW fs \in Seq(S), NEW T, NEW low \in Seq(T), stack' = fs \o low
  PROVE  /\ Len(stack') = Len(low) + Len(fs)
         /\ \A d \in 0 .. Len(low) - 1 : Pile'[d] = low[Len(low) - d]
         /\ \A i \in 1 .. Len(fs) : Pile'[Len(low) + Len(fs) - i] = fs[i]
  <1>1. /\ fs \in Seq(S \cup T) /\ low \in Seq(S \cup T)
    BY SeqMono
  <1>2. /\ Len(stack') = Len(fs) + Len(low)
        /\ \A i \in 1 .. Len(fs) : stack'[i] = fs[i]
        /\ \A i \in 1 .. Len(low) : stack'[Len(fs) + i] = low[i]
    BY <1>1
  <1>3. Len(fs) \in Nat /\ Len(low) \in Nat
    OBVIOUS
  <1>4. ASSUME NEW d \in 0 .. Len(low) - 1 PROVE Pile'[d] = low[Len(low) - d]
    <2>1. Len(low) - d \in 1 .. Len(low) /\ Len(fs) + (Len(low) - d) = Len(stack') - d
          /\ d \in 0 .. Len(stack') - 1
      BY <1>2, <1>3
    <2> QED
      BY <1>2, <2>1 DEF Pile
  <1>5. ASSUME NEW i \in 1 .. Len(fs) PROVE Pile'[Len(low) + Len(fs) - i] = fs[i]
    <2>1. Len(low) + Len(fs) - i \in 0 .. Len(stack') - 1
          /\ Len(stack') - (Len(low) + Len(fs) - i) = i
      BY <1>2, <1>3
    <2> QED
      BY <1>2, <2>1 DEF Pile
  <1>6. Len(stack') = Len(low) + Len(fs)
    BY <1>2, <1>3
  <1> QED
    BY <1>4, <1>5, <1>6

\* Going on with the frames fs in place of the top frame.
LEMMA ContinueMany ==
  ASSUME StackSeq, stack # <<>>, NEW S, NEW fs \in Seq(S), Continue(fs)
  PROVE  /\ Keep(Len(stack) - 1)
         /\ Len(stack') = Len(stack) - 1 + Len(fs)
         /\ \A i \in 1 .. Len(fs) : Pile'[Len(stack) - 1 + Len(fs) - i] = fs[i]
  <1>1. /\ Rest \in Seq(Frame) /\ Len(Rest) = Len(stack) - 1 /\ Len(stack) \in Nat /\ Len(stack) >= 1
        /\ \A i \in 1 .. Len(Rest) : Rest[i] = stack[i + 1]
    BY DEF StackSeq, Rest
  <1>2. /\ Len(stack') = Len(Rest) + Len(fs)
        /\ \A d \in 0 .. Len(Rest) - 1 : Pile'[d] = Rest[Len(Rest) - d]
        /\ \A i \in 1 .. Len(fs) : Pile'[Len(Rest) + Len(fs) - i] = fs[i]
    BY <1>1, ConcatPile DEF Continue
  <1>3. \A d \in 0 .. Len(stack) - 2 : Pile'[d] = Pile[d]
    <2> TAKE d \in 0 .. Len(stack) - 2
    <2>0. d \in 0 .. Len(Rest) - 1 /\ Len(Rest) - d \in 1 .. Len(Rest)
      BY <1>1
    <2>1. Pile'[d] = Rest[Len(Rest) - d] /\ Len(Rest) - d \in 1 .. Len(Rest)
      BY <1>2, <2>0
    <2>2. Rest[Len(Rest) - d] = stack[Len(stack) - d]
      BY <1>1, <2>1
    <2> QED
      BY <1>1, <2>1, <2>2, PileFrames
  <1>4. Len(fs) \in Nat
    OBVIOUS
  <1> QED
    BY <1>1, <1>2, <1>3, <1>4 DEF Keep

LEMMA ReturnOne ==
  ASSUME StackSeq, stack # <<>>, Return
  PROVE  Keep(Len(stack) - 1) /\ Len(stack') = Len(stack) - 1
  <1> DEFINE fs == <<>>
  <1>1. Continue(fs)
    BY DEF Return, Continue, StackSeq, Rest
  <1>2. fs \in Seq({}) /\ Len(fs) = 0
    OBVIOUS
  <1> HIDE DEF fs
  <1>3. Keep(Len(stack) - 1) /\ Len(stack') = Len(stack) - 1 + Len(fs)
    BY <1>1, <1>2, ContinueMany
  <1> QED
    BY <1>2, <1>3, PileFrames

\* Calling fs.
LEMMA CallMany ==
  ASSUME StackSeq, NEW S, NEW fs \in Seq(S), Call(fs)
  PROVE  /\ Keep(Len(stack))
         /\ Len(stack') = Len(stack) + Len(fs)
         /\ \A i \in 1 .. Len(fs) : Pile'[Len(stack) + Len(fs) - i] = fs[i]
  <1>1. stack \in Seq(Frame) /\ Len(stack) = Len(stack) /\ Len(stack) \in Nat /\ Len(fs) \in Nat
    BY DEF StackSeq
  <1>2. stack' = fs \o stack
    BY DEF Call
  <1>3. /\ Len(stack') = Len(stack) + Len(fs)
        /\ \A d \in 0 .. Len(stack) - 1 : Pile'[d] = stack[Len(stack) - d]
        /\ \A i \in 1 .. Len(fs) : Pile'[Len(stack) + Len(fs) - i] = fs[i]
    BY <1>1, <1>2, ConcatPile
  <1> QED
    BY <1>1, <1>3, PileFrames DEF Keep

\* The same for one, two and three frames.
LEMMA ContinueOne ==
  ASSUME StackSeq, stack # <<>>, NEW f, Continue(<<f>>)
  PROVE  Keep(Len(stack) - 1) /\ Len(stack') = Len(stack) /\ Pile'[Len(stack) - 1] = f
  <1> DEFINE fs == <<f>>
  <1>1. fs \in Seq({f}) /\ Len(fs) = 1 /\ fs[1] = f
    OBVIOUS
  <1>2. Continue(fs)
    OBVIOUS
  <1> HIDE DEF fs
  <1>3. /\ Keep(Len(stack) - 1) /\ Len(stack') = Len(stack) - 1 + Len(fs)
        /\ \A i \in 1 .. Len(fs) : Pile'[Len(stack) - 1 + Len(fs) - i] = fs[i]
    BY <1>1, <1>2, ContinueMany
  <1> QED
    BY <1>1, <1>3, PileFrames

LEMMA ContinueTwo ==
  ASSUME StackSeq, stack # <<>>, NEW f, NEW g, Continue(<<f, g>>)
  PROVE  /\ Keep(Len(stack) - 1) /\ Len(stack') = Len(stack) + 1
         /\ Pile'[Len(stack)] = f /\ Pile'[Len(stack) - 1] = g
  <1> DEFINE fs == <<f, g>>
  <1>1. fs \in Seq({f, g}) /\ Len(fs) = 2 /\ fs[1] = f /\ fs[2] = g
    OBVIOUS
  <1>2. Continue(fs)
    OBVIOUS
  <1> HIDE DEF fs
  <1>3. /\ Keep(Len(stack) - 1) /\ Len(stack') = Len(stack) - 1 + Len(fs)
        /\ \A i \in 1 .. Len(fs) : Pile'[Len(stack) - 1 + Len(fs) - i] = fs[i]
    BY <1>1, <1>2, ContinueMany
  <1> QED
    BY <1>1, <1>3, PileFrames

LEMMA ContinueThree ==
  ASSUME StackSeq, stack # <<>>, NEW f, NEW g, NEW l, Continue(<<f, g, l>>)
  PROVE  /\ Keep(Len(stack) - 1) /\ Len(stack') = Len(stack) + 2
         /\ Pile'[Len(stack) + 1] = f /\ Pile'[Len(stack)] = g /\ Pile'[Len(stack) - 1] = l
  <1> DEFINE fs == <<f, g, l>>
  <1>1. fs \in Seq({f, g, l}) /\ Len(fs) = 3 /\ fs[1] = f /\ fs[2] = g /\ fs[3] = l
    OBVIOUS
  <1>2. Continue(fs)
    OBVIOUS
  <1> HIDE DEF fs
  <1>3. /\ Keep(Len(stack) - 1) /\ Len(stack') = Len(stack) - 1 + Len(fs)
        /\ \A i \in 1 .. Len(fs) : Pile'[Len(stack) - 1 + Len(fs) - i] = fs[i]
    BY <1>1, <1>2, ContinueMany
  <1> QED
    BY <1>1, <1>3, PileFrames

LEMMA CallOne ==
  ASSUME StackSeq, NEW f, Call(<<f>>)
  PROVE  Keep(Len(stack)) /\ Len(stack') = Len(stack) + 1 /\ Pile'[Len(stack)] = f
  <1> DEFINE fs == <<f>>
  <1>1. fs \in Seq({f}) /\ Len(fs) = 1 /\ fs[1] = f
    OBVIOUS
  <1>2. Call(fs)
    OBVIOUS
  <1> HIDE DEF fs
  <1>3. /\ Keep(Len(stack)) /\ Len(stack') = Len(stack) + Len(fs)
        /\ \A i \in 1 .. Len(fs) : Pile'[Len(stack) + Len(fs) - i] = fs[i]
    BY <1>1, <1>2, CallMany
  <1> QED
    BY <1>1, <1>3, PileFrames

LEMMA CallTwo ==
  ASSUME StackSeq, NEW f, NEW g, Call(<<f, g>>)
  PROVE  Keep(Len(stack)) /\ Len(stack') = Len(stack) + 2 /\ Pile'[Len(stack) + 1] = f /\ Pile'[Len(stack)] = g
  <1> DEFINE fs == <<f, g>>
  <1>1. fs \in Seq({f, g}) /\ Len(fs) = 2 /\ fs[1] = f /\ fs[2] = g
    OBVIOUS
  <1>2. Call(fs)
    OBVIOUS
  <1> HIDE DEF fs
  <1>3. /\ Keep(Len(stack)) /\ Len(stack') = Len(stack) + Len(fs)
        /\ \A i \in 1 .. Len(fs) : Pile'[Len(stack) + Len(fs) - i] = fs[i]
    BY <1>1, <1>2, CallMany
  <1> QED
    BY <1>1, <1>3, PileFrames

\* The frame a callback runs in lies on top of what its caller does next.
CallbackFrame(c, r) == {F("user", c, 0, "none"), F("on_reply_update_slot", c, 0, r)}

LEMMA CallbackOne ==
  ASSUME StackSeq, stack # <<>>, NEW c, NEW r, NEW f,
         Continue(CallbackFrames(c, r) \o <<f>>)
  PROVE  /\ Keep(Len(stack) - 1) /\ Pile'[Len(stack) - 1] = f
         /\ \/ Len(stack') = Len(stack)
            \/ Len(stack') = Len(stack) + 1 /\ Pile'[Len(stack)] \in CallbackFrame(c, r)
  <1>1. CASE CallbackFrames(c, r) = <<>>
    <2>1. Continue(<<f>>)
      BY <1>1
    <2> QED
      BY <2>1, ContinueOne
  <1>2. ASSUME NEW g \in CallbackFrame(c, r), CallbackFrames(c, r) = <<g>>
        PROVE  Keep(Len(stack) - 1) /\ Len(stack') = Len(stack) + 1 /\ Pile'[Len(stack)] = g /\ Pile'[Len(stack) - 1] = f
    <2> DEFINE fs == <<g>> \o <<f>>
    <2>1. fs \in Seq({g, f}) /\ Len(fs) = 2 /\ fs[1] = g /\ fs[2] = f
      OBVIOUS
    <2>2. Continue(fs)
      BY <1>2
    <2> HIDE DEF fs
    <2>3. /\ Keep(Len(stack) - 1) /\ Len(stack') = Len(stack) - 1 + Len(fs)
          /\ \A i \in 1 .. Len(fs) : Pile'[Len(stack) - 1 + Len(fs) - i] = fs[i]
      BY <2>1, <2>2, ContinueMany
    <2> QED
      BY <2>1, <2>3, PileFrames
  <1>3. CallbackFrames(c, r) = <<>> \/ \E g \in CallbackFrame(c, r) : CallbackFrames(c, r) = <<g>>
    BY DEF CallbackFrames, CallbackFrame
  <1> QED
    BY <1>1, <1>2, <1>3

\* The same when the calling loop goes on after that.
LEMMA CallbackLoop ==
  ASSUME StackSeq, stack # <<>>, NEW c, NEW r, NEW f,
         Continue(CallbackFrames(c, r) \o <<f, Top>>)
  PROVE  /\ Keep(Len(stack)) /\ Pile'[Len(stack)] = f
         /\ \/ Len(stack') = Len(stack) + 1
            \/ Len(stack') = Len(stack) + 2 /\ Pile'[Len(stack) + 1] \in CallbackFrame(c, r)
  <1>0. Len(stack) \in Nat /\ Len(stack) >= 1 /\ Pile[Len(stack) - 1] = Top
    BY PileFrames
  <1>1. ASSUME Keep(Len(stack) - 1), Pile'[Len(stack) - 1] = Top,
               Len(stack') >= Len(stack), Len(stack') \in Nat
        PROVE  Keep(Len(stack))
    <2>1. \A d \in 0 .. Len(stack) - 1 : d = Len(stack) - 1 \/ d \in 0 .. (Len(stack) - 1) - 1
      BY <1>0
    <2>2. \A d \in 0 .. Len(stack) - 1 : Pile'[d] = Pile[d]
      BY <1>0, <1>1, <2>1 DEF Keep
    <2> QED
      BY <1>0, <1>1, <2>2 DEF Keep
  <1>2. CASE CallbackFrames(c, r) = <<>>
    <2>1. Continue(<<f, Top>>)
      BY <1>2
    <2>2. Keep(Len(stack) - 1) /\ Len(stack') = Len(stack) + 1 /\ Pile'[Len(stack)] = f /\ Pile'[Len(stack) - 1] = Top
      BY <2>1, ContinueTwo
    <2> QED
      BY <1>0, <1>1, <2>2
  <1>3. ASSUME NEW g \in CallbackFrame(c, r), CallbackFrames(c, r) = <<g>>
        PROVE  /\ Keep(Len(stack)) /\ Len(stack') = Len(stack) + 2
               /\ Pile'[Len(stack) + 1] = g /\ Pile'[Len(stack)] = f
    <2> DEFINE fs == <<g>> \o <<f, Top>>
    <2>1. fs \in Seq({g, f, Top}) /\ Len(fs) = 3 /\ fs[1] = g /\ fs[2] = f /\ fs[3] = Top
      OBVIOUS
    <2>2. Continue(fs)
      BY <1>3
    <2> HIDE DEF fs
    <2>3. /\ Keep(Len(stack) - 1) /\ Len(stack') = Len(stack) - 1 + Len(fs)
          /\ \A i \in 1 .. Len(fs) : Pile'[Len(stack) - 1 + Len(fs) - i] = fs[i]
      BY <2>1, <2>2, ContinueMany
    <2>4. Len(stack') = Len(stack) + 2 /\ Pile'[Len(stack) + 1] = g /\ Pile'[Len(stack)] = f
          /\ Pile'[Len(stack) - 1] = Top
      BY <1>0, <2>1, <2>3
    <2> QED
      BY <1>0, <1>1, <2>3, <2>4
  <1>4. CallbackFrames(c, r) = <<>> \/ \E g \in CallbackFrame(c, r) : CallbackFrames(c, r) = <<g>>
    BY DEF CallbackFrames, CallbackFrame
  <1> QED
    BY <1>2, <1>3, <1>4

=============================================================================
