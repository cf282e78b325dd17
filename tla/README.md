# hiredis-happ in TLA+

hiredis-happ is an asynchronous Redis client on top of hiredis.  It runs on one
event-loop thread, so there are no data races; what makes it hard is that a
handler calls the application back in the middle of its work, that the callback
calls the library again, and that every object (command, connection, hiredis
context) is freed by hand while hiredis still holds pointers to it.  The
specifications below model exactly that: the nested calls, the lifetimes, and
what the network does in between.

## 1. Inventory

| Part | State | Operations | Interacts with |
|---|---|---|---|
| `cmd_exec` (happ_cmd.cpp) | `callback_`, `ttl_`, `error_code_`, the formatted text | create, format/vformat, call_reply, destroy, pick_argument, dump | owned by a connection's reply list, a retry queue, or a running call; its address is hiredis's `privdata` |
| `connection` (happ_connection.cpp) | `context_`, `conn_status_`, `reply_list_`, `sequence_` | set_connecting / set_connected / set_disconnected, redis_cmd, call_reply, pop_reply, release, redis_raw_cmd, name codec | wraps one `redisAsyncContext`, which points back through `c->data` |
| `raw` (happ_raw.cpp) | `conn_`, `timer_pending`, `timer_conn`, `last_update` | exec, retry, make_connection, release_connection, reset, proc, and the callbacks registered with hiredis | calls the application: command callbacks, on_connect, on_connected, on_disconnected, auth_fn |
| `cluster` (happ_cluster.cpp) | `slots_`, `slot_flag_`, `slot_pending_`, `connections_`, the timers of `raw` | those of `raw` per server, reload_slots, MOVED / ASK / TRYAGAIN / CLUSTERDOWN handling | as `raw` |
| key placement (crc16.cpp, `hash_slot`) | none | crc16, hash_slot | used by cluster::exec and get_slot_by_key |
| hiredis (external) | contexts with flags, error and a FIFO of callbacks | connect, send, disconnect, free | calls the wrappers registered by `raw` and `cluster` |
| configuration, logging, samples | settings, log buffer | setters | none that matters here |

What is hard, and where:

* **Re-entrancy.**  `release`, `reset`, `pop_reply` and `proc` are loops that call
  the application in the middle; `exec` and `retry` call each other.
* **Lifetime.**  `connection::release` destroys commands that hiredis may still
  call back; `raw` frees the connection behind `c->data`.
* **Order.**  hiredis's callback FIFO and `reply_list_` are two copies of one queue.
* **Time.**  The connect timer names a connection by a sequence number only.
* **Retries.**  The TTL is all that bounds the recursion and the delayed retries.
* **Redirections** (cluster): a command changes hands in the middle of a reply, and while
  ASKING is outstanding it is in no list at all.
* **The slot table** (cluster): commands wait for a reload that itself travels as a command
  and may fail, be redirected, or be lost with its connection.

What makes each part correct: a command is called back exactly once and then
destroyed, is never lost and never used after it is freed; replies go to their
commands; the connect timer hits only connections that are still connecting; the
end of a connection is reported; AUTH comes first; every command ends; keys are
placed as the servers place them.  For `cluster` also: the map and the connections agree;
no command waits for a table that is there, or for one nobody is loading; every call returns.

## 2. Modules

```
Runtime <- CmdExec <- Hiredis <- Connection <- Raw <- MCRaw
           Connection, SlotTable <- Cluster <- MCCluster
                       SlotTable <- SlotMap
SlotHash, NameCodec, SlotMap <- MCData
Lifecycle: an INSTANCE of it in Raw and in Cluster

Raw <- RawProofs <- RawFlowProofs <- RawMemoryProofs
Connection <- ConnectionProofs          SlotTable <- SlotTableProofs
SlotMap, SlotTableProofs <- SlotMapProofs
Cluster, ConnectionProofs, SlotTableProofs <- ClusterProofs <- ClusterFlowProofs
```

* **Runtime** is what C++ contributes: the call stack and the lifetime of heap
  objects.  A *frame* names the code that runs next; a function that makes a call
  replaces its frame by the callee's frame followed by one for what comes after
  the call.  Only the top frame moves, so the interleavings are those of nested
  callbacks; an empty stack is the event loop waiting.  `Dangling(f)` lists what
  the code of a frame dereferences; when that is freed, `UseAfterFree` sets `ub`,
  and nothing happens after that.  A connection object and its context share an
  identity, for `make_connection` makes both and `c->data` never changes.
* **CmdExec**, **Connection**, **Raw** have one definition per function, under the
  function's name.  A function that calls the application (or hiredis) is split at
  the call: `exec`/`exec_conn`, `release_connection`/`release_event`/`release_end`,
  `proc`/`proc_conn`/`proc_clear`, `on_connected_wrapper`/`on_connected_end`.  The
  alternatives of `exec` are actions of their own (`exec_connect`,
  `exec_connect_failed`, `exec_auth_format_failed`; `exec_conn`, `exec_conn_closing`,
  `exec_conn_failed`).  `User...` actions are the calls of the application, from the
  event loop or from inside any of its callbacks (frame `user`); `proc()` only from
  the event loop, as its comment demands (happ_raw.cpp:480).
* **Hiredis** is external, modelled from what the repository's code, comments and
  documents rely on; its header lists the assumptions.  `ErrSetsDisconnecting` is the
  difference between hiredis versions the code handles ("some version of hiredis will
  miss onDisconnect", happ_raw.cpp:225): whether a broken context is marked as
  disconnecting before its outstanding callbacks are called.
* **Lifecycle** is the abstract specification of a connector, the stages that step 3
  of the P0 playbook in doc/ROADMAP.md names: none, pending, called, destroyed.  Raw and
  Cluster are both shown to implement it.
* **Cluster** is the connector to a cluster, on the same four modules: a connection per
  server (`connections_`), the slot table with its status `slot_flag_`, the commands that
  wait for it (`slot_pending_`), the retry queue and the list of connect timers.  Handlers
  are split at the calls they make, as in Raw: `exec` and `exec(conn)`, `retry`,
  `reload_slots`/`reload_exec`/`reload_end`, `on_reply_update_slot`/`run_pending`,
  `release_connection`/`release_event`/`release_end`, `reset_begin`/`reset_slots`/`reset`,
  `proc`/`proc_conn`/`proc_clear`, and one action for each thing a reply can ask for:
  `on_reply_retry` (network errors, TRYAGAIN), `on_reply_ask`/`ask_pop`/`asking`/
  `on_reply_asking`, `on_reply_moved`, `on_reply_clusterdown`.  `WithConnection` is the
  "get_connection, else make_connection" that exec, reload_slots and ASK share.  What a
  CLUSTER SLOTS reply makes of the table is a choice from `Tables`; the random slot of
  get_slot_master and the order of the connection map are choices too.
* **SlotTable** has the table as a value, with remove_connection_key and get_slot_master,
  used by Cluster and by SlotMap.
* **SlotMap** is what changes the table: one step per range of a CLUSTER SLOTS reply (each
  prefix of a reply is a reply), MOVED, remove_connection_key, reset.  `SlotCount` and
  `PortMax` stand for 16384 and 65535; an address is an endpoint that is known, empty,
  NIL, `?` or of another type, and a port that may be out of range.
* **SlotHash** has the crc16 table and loop and `hash_slot`, next to definitions that
  share nothing with them: division of polynomials over GF(2) as sets of exponents,
  and the splittings `p{t}s` of a key.
* **NameCodec** has make_name (decimal digits of a 16-bit port) and pick_name (first
  colon, leading blanks, sscanf, cast to 16 bits) on sequences of character codes.
* The **...Proofs** modules hold the theorems, each beside the module it is about (section 4).
  ConnectionProofs and SlotTableProofs hold only lemmas, about the call stack, the life of a
  command, and the table.

Abstractions: a command is its identity (the text matters only in that formatting can
fail); identities of CLUSTER SLOTS commands are used again once nothing refers to the old
one.  A server is the key of its connection.  A reply is `ok`, `error`, a redirection or
`null`; `IO` stands for REDIS_ERR_IO and REDIS_ERR_EOF, `OTHER` for the rest; time is in
whole seconds (`set_timer_interval(Interval, 0)`).  `calls`, `got` and `notified` are
ghosts: no action reads them.  Definitions marked "Mutant" are broken variants, used only
to show that a property depends on the code it speaks about.

`Env` restricts what the environment does, so that a run can say under which use of the
library a property holds: failing connects, failing formatting, failing CLUSTER SLOTS,
which redirections servers send, start() and make_connection called by the application,
reset() and release_connection(true) when idle or at any time, callbacks included.

## 3. Runs

| Run | Distinct states | Shows |
|---|---|---|
| raw_hostile | 715k | everything allowed (reset and release at any time, failing connects, connect timeout), up to the first use of a freed object: `TypeOK`, `EachCommandHeldOnce`, `OkMeansAnswered`, `ReplyListMatchesHiredis`, `TimeoutSparesEstablished`, `ProcAssertion`, `EndIsReported`, `ImplementsLifecycle` |
| raw_benign | 3.5M | nothing freed is used, or left with hiredis (`NoUseAfterFree`, `NoDanglingPrivdata`, `NoDeadContext`), and AUTH comes first (`NothingOvertakesAuth`), if reset and release are called on idle connections only, connects do not fail asynchronously and no connect timeout is set |
| raw_old_hiredis | 191k | with older hiredis, where the commands of a broken connection are popped and retried inside the loop that frees the context: `NoUseAfterFree`, `EachCommandHeldOnce`, `ReplyListMatchesHiredis`, and `EveryCommandEnds` under `FairSpec` |
| cluster_hostile | 1.8M | the same for Cluster, with every redirection (malformed ones too), CLUSTERDOWN, failing CLUSTER SLOTS and connect timers: `TypeOK`, `EachCommandHeldOnce`, `OkMeansAnswered`, `ReplyListMatchesHiredis`, `MapMatchesConnections`, `TimeoutHitsConnecting`, `EndIsReported`, `NobodyWaitsForTable`, `ImplementsLifecycle` |
| cluster_startup | 3.7M | two commands, start(), make_connection, AUTH (which may fail to format), MOVED and lost connections while the table is being loaded: `EachCommandHeldOnce`, `NobodyWaitsForTable`, `NoUseAfterFree`, `NothingOvertakesAuth` |
| cluster_live | 134k | with older hiredis, MOVED, ASK, TRYAGAIN, lost connections, idle resets and releases: `NoUseAfterFree`, `NoDanglingPrivdata`, `UpdatingHasLoad`, and under `FairSpec` `EveryCommandEnds` and `EveryCallReturns` |
| data | 165k | SlotHash (`Crc16IsRemainder`, `TagDecidesSlot`) for all keys of at most two bytes, and of at most six over `a`, `b`, `{`, `}`; NameCodec (`NameIdentifiesServer`, `PickInvertsMake`) for all addresses of at most five characters over `1`, `.`, blank and `:`; SlotMap (`SlotsFollowReply`, `RemovedIsNotSelected`) for three slots and replies of up to two ranges |

Five runs show a disagreement between the code and what the repository says of it
(the findings of PROJECT.json):

| Run | Violated | By |
|---|---|---|
| raw_connect_failed | `NoUseAfterFree` | exec; the connect fails: the command is destroyed in the connect callback, then hiredis calls it back with NULL (doc/code-review-2026-05-26.md:9) |
| cluster_load_failed | `NoUseAfterFree` | CLUSTER SLOTS fails while a command waits: its command is put into the retry queue, then destroyed by connection::call_reply (happ_cluster.cpp:972, comment at 964) |
| cluster_reload_loop | `NoReloadLoop` | a connection is lost with CLUSTER SLOTS outstanding and no active timer: the reload asks the same closing connection with a new command each time (happ_cluster.cpp:408, comment at 802) |
| cluster_ask | `AskingComesFirst` | another command is sent while ASKING waits for its reply (happ_cluster.cpp:868, doc/code-review-2026-05-26.md:10) |
| cluster_hang | `EveryCallReturns` | CLUSTERDOWN leaves a closing connection in the map; the loop over `slot_pending_` puts its command back for ever (happ_cluster.cpp:1040, comment at 1034) |

The passing runs are the complement: raw_benign, cluster_startup and cluster_live leave
out these situations and three more in which the lifetimes are wrong for the
same reason, that commands are destroyed while hiredis holds them: a connect timeout
with commands queued (happ_raw.cpp:485), reset() or release_connection(true) with replies
outstanding (happ_raw.cpp:229), and reset() of a context that is still connecting
(happ_raw.cpp:107-110).  In Cluster, a command sent from a callback of a connection that
is ending belongs to cluster_load_failed (`Ending`).

**Bounds.**  `MaxCmds` commands are created by the application (Raw: 2 or 3, one being
answered, one behind it in the queue, one sent from a callback; Cluster: 1 or 2 besides
the CLUSTER SLOTS command, of which `MaxLoads` exist at a time, and an AUTH per
connection), `MaxConns` connections (2 or 3: one being released while, or after which, the
next is made; when the bound is reached `redisAsyncConnect` fails), `TTL` 2 or 3 (16 in the
code; both the immediate and the delayed retry happen, the border being `TTL \div 2`),
`MaxTime` 2 to 5 seconds with an interval and a connect timeout of 1 (a timer is set,
becomes due, and is overtaken by a newer connection).  `QuietAfter` ends the sending, the
redirecting and the breaking of connections before the clock stops, so that the liveness runs
leave time for the retries.  In the liveness run of Cluster no connection is given up that
the bound would not allow to make again (`Spare`), since a refused connect really leaves
commands waiting (see the hazards).  Cluster has two servers and one slot: its actions look
at the table through get_slot_master only, whose answer ranges over both servers, the seed
and, with -1 and random slots, all of them again (cluster_startup leaves out the table that
names the second server alone, which differs from the one with both only after a loss); that MOVED changes one slot among several is
checked on SlotMap.  cluster_live also passes with two slots (430k states, four minutes).
Keys of two bytes reach every entry of the table with every value of the high byte of
the remainder; six bytes hold every arrangement of two tags, empty, nested or unclosed.
Two ranges are enough for one to override a part of the other; a third adds no new
relation between a slot and the ranges that hold it.  The three components of MCData share
nothing, so each behaviour explores one; they are not checked for deadlock: keys simply
reach their full length.  In Raw and Cluster, `Idle` is the event loop waiting, and it is
not enabled in the middle of a call: a call that cannot go on is a deadlock TLC reports.

**Fairness** (raw_old_hiredis, cluster_live, cluster_hang).  The call that is running goes on
(weak fairness): it is one thread.  A callback of the application returns; strong fairness in
Cluster, because a callback that calls the library again and again is disabled in between.  The
event loop serves what keeps becoming ready, and the server answers: strong fairness of
connecting and replying, strong because they are disabled while a call runs.  The
application's timer calls `proc()` with an advancing clock, as the README of the
repository asks.  Nothing is assumed of connection losses or redirections.  That
cluster_hang is violated under this fairness means that the library itself, not the
environment, keeps the call from ending.

## 4. Proofs

All theorems hold for every value of the constants: any number of commands, connections,
servers and slots, any TTL, any timers, both versions of hiredis unless said otherwise, and
any `Env`.  They use `BoundsAssumption`, `TTLAssumption`, `VersionAssumption`, and
`RawAssumption`, or `ClusterAssumption` and `SlotTableAssumption`, or `SlotTableAssumption`
and `SlotMapAssumption`, and nothing else; a theorem that needs more has it as a hypothesis.

| Module | Theorem | States |
|---|---|---|
| RawProofs | `Invariance` | `Spec => []IndInv` |
| | `TypeCorrect` | `Spec => []TypeOK` |
| | `TimerSafe` | `Spec => []TimeoutSparesEstablished` |
| | `Refinement` | `Spec => ImplementsLifecycle` |
| RawFlowProofs | `FlowInvariance` | `Spec => [](IndInv /\ FlowInv)` |
| | `CommandsHeldOnce` | `Spec => []EachCommandHeldOnce` |
| | `ReplyListMatches` | `Spec => []ReplyListMatchesHiredis` |
| | `EndReported` | `Spec => []EndIsReported` |
| | `ProcAssertionHolds` | `Spec => []ProcAssertion` |
| | `OkIsAnswered` | `Spec => []OkMeansAnswered` |
| | `AuthInvariance` | `Spec => [](IndInv /\ FlowInv /\ AuthPart)` |
| | `AuthNotOvertaken` | `Spec => [](ErrSetsDisconnecting => NothingOvertakesAuth)` |
| RawMemoryProofs | `MemoryInvariance` | `Spec => [](IndInv /\ FlowInv /\ (Benign => MemInv))` |
| | `MemorySafe` | `Spec => [](Benign => NoUseAfterFree)` |
| | `PrivdataValid` | `Spec => [](Benign => NoDanglingPrivdata)` |
| | `ContextValid` | `Spec => [](Benign => NoDeadContext)` |
| SlotMapProofs | `SlotsFollow` | `MapSpec => []SlotsFollowReply` |
| | `RemovedNotSelected` | `NamesOnce => (MapSpec => []RemovedIsNotSelected)` |
| ClusterProofs | `Invariance` | `Spec => []IndInv` |
| | `TypeCorrect` | `Spec => []TypeOK` |
| | `Refinement` | `Spec => ImplementsLifecycle` |
| | `FlowInvariance` | `Spec => [](IndInv /\ FlowInv)` |
| | `MapMatches` | `Spec => []MapMatchesConnections` |
| | `TimeoutConnecting` | `Spec => []TimeoutHitsConnecting` |
| | `EndReported` | `Spec => []EndIsReported` |
| | `NobodyWaits` | `Spec => []NobodyWaitsForTable` |
| ClusterFlowProofs | `AnswerInvariance` | `Spec => [](IndInv /\ AnswerInv)` |
| | `OkIsAnswered` | `Spec => []OkMeansAnswered` |
| | `OrderInvariance` | `Spec => [](IndInv /\ FlowInv /\ OrderInv)` |
| | `ListMatchesQueue` | `Spec => []ReplyListMatchesHiredis` |
| | `OnceInvariance` | `Spec => [](IndInv /\ FlowInv /\ OrderInv /\ OncePart)` |
| | `CommandsHeldOnce` | `Spec => []EachCommandHeldOnce` |
| | `AuthInvariance` | `Spec => [](IndInv /\ FlowInv /\ OrderInv /\ AuthInv)` |
| | `AuthNotOvertaken` | `Spec => [](ErrSetsDisconnecting => NothingOvertakesAuth)` |

### Raw: types, timer, refinement

`IndInv` is a conjunction of named parts, one for each component, each with the typing
of the component's variables:

* `StackPart`: every frame is well formed.  A frame that will destroy a command refers to
  one that has been created; a `destroy` frame refers to one whose callback has been
  called.  This is what typing alone does not give: a frame deep in the stack must
  stay valid whatever is done above it, so the facts about frames are chosen to be
  *stable* (a created command stays created, a called one stays called), and the proofs rest on
  monotonicity lemmas for those.
* `CmdPart`: `callback_`, `calls` and the state of the object agree: a live command has
  been called back once if and only if `callback_` is clear.
* `QueuePart`: commands in the queues have been created.  `FreshPart`: those beyond
  `ncmd` and `nconn` have not.  `ContextPart`, `ConnPart`, `RawPart`: typing.
* `SequencePart`: every number in use, the one noted in `timer_conn` included, is at most
  `seq_alloc`, so a new one was never seen; and `TimeoutSparesEstablished` itself.

`TimeoutSparesEstablished` is not inductive alone: that a new connection does not hit upon
the number noted in the timer needs the bound by `seq_alloc`.  The refinement maps
a command to the stage its object and its ghost `calls` are in; a step that is not a
stutter is `create` (UserExec, make_connection), a callback, or `destroy`, and the
frame conditions of `StackPart` give the guards of the abstract actions.

### Raw: where the commands are

The other invariants relate frames to each other and to the queues, so `FlowInv` looks at
the stack from the bottom: `Pile[d]` is the frame at height `d`, which keeps its height while
calls come and go above it, and `Keep(h)` says that a step keeps the `h` lowest frames.
Each action is then shown to keep all frames but the top one, and every part has to be
shown for the new frames only.

* `ShapePart`: what the event loop calls is at height 0, replies are delivered at height 1
  right above it with nothing on top, a context freed anywhere else has nothing outstanding,
  and a null reply comes from a broken context.  Without it nothing excludes two deliveries
  at once, in which `pop_reply` of the inner one would take the command of the outer one.
* `CallbackPart`: hiredis is in a callback of a context only while one of its frames for that
  context is on the stack; so there is none when `proc` runs, which `ProcAssertion` needs.
* `ConnsPart`: `conn_` is the one live connection, the only one with a status.
* `ReleasePart`: a connection is being released, by one call only, exactly when `conn_` has
  lost its status, and `release_end` finds its end reported; this makes `EndIsReported`
  inductive when on_disconnected or a callback of a pending command releases again.
* `MatchPart`: the reply list is hiredis's queue, after the command being delivered.  It is
  `ReplyListMatchesHiredis` told by indices, and says also what a delivery under way has
  taken from one queue and not yet from the other.
* `OncePart`: `Held[c]`, the set of places that hold `c`, has one element if `c` is live and
  none otherwise; a place is a frame, a reply list or the retry queue.  That two frames are
  two places is what makes it stronger than a statement about the set of held commands.
  `DistinctPart`: no queue holds a command twice.  `OkMeansAnswered` is inductive with these.

`AuthPart` follows the AUTH command of a connection: on top of the stack about to be sent
(or to fail), first in hiredis's queue, being answered, or called back.  It is proved for
`ErrSetsDisconnecting`; for the other hiredis versions `NothingOvertakesAuth` is false, as
TLC shows: AUTH lost with its connection is retried on the next one, behind that one's own.

### Raw: memory

That nothing freed is used is false in general (the findings), so RawMemoryProofs proves it
under `Benign`, a condition on the constants that the values of raw_benign and
raw_old_hiredis satisfy: connects do not fail asynchronously, there is no connect timeout, and
the application resets or releases only when nothing is outstanding (reset() also only when
connected).  Both versions of hiredis are covered, and so are lost connections, retries, and
commands and make_connection calls from inside every callback.  The invariant `MemInv`:

* `EndPart` says where each call that ends a connection can be on the stack.  A context is
  freed at the bottom, or right above reset(), while its connection is in use; or as the
  third frame of a release that closes it (`AtClosing`).  The disconnect callback and the
  release it makes are the topmost calls, right above `h_free_end`.  A release finds the reply list empty,
  so `connection::release` calls nobody back: this is where `MatchPart` is used.
* `OwnPart` ties contexts to connections: a living context is that of the connection in use or
  is being freed, a connection in use has a living context, one that is not in use keeps
  `context_` only until `connection_release`, and a context that is disconnecting while its
  connection is in use is inside one of hiredis's callbacks, or about to be freed.  So
  exec(conn, cmd) never takes the branch that releases the connection outside of a callback.

`NoUseAfterFree` (`~ub`) is a part of `MemInv`: in each state the running call has nothing to
crash on (`NothingDangles`).  Commands are alive because they are held (`OncePart`), objects because
`conn_` points to them, contexts by `OwnPart`.

### SlotMap

`SlotsFollowReply` is inductive as it stands, given the types: a range appended to the reply is
the last one for the slots it holds, after clamping too, and changes nothing for the others; that the new list of servers is what `Lists` says of the addresses is a lemma about
`FlattenSeq` of sequences of length at most one: the position of a server is the number of
addresses up to its own that name one (`Rank`).  Where one would use induction the proofs take
the least counterexample (`Least`), since no theorem with an operator as a parameter can be
used.  `RemovedNotSelected` needs `NamesOnce`, that no range names a server twice, which a
cluster guarantees and the client does not check: remove_connection_key puts the last
server of a slot in the place of the removed master, which could be its second mention.  The values of MCData
satisfy it.  The invariant is that the servers of each slot are distinct and none begins with
the removed one.

### Cluster: types and refinement

`IndInv` has the parts of Raw's: `GoodFrame` is the set of frames that are well formed in the
current state, `StackPart` says that the stack is a sequence of these.  What is different:

* CLUSTER SLOTS commands are created again under an old identity, so "a destroyed command
  stays destroyed" does not hold.  reload_slots takes an identity only if nothing refers to
  the old command, so frames and queues keep referring to created ones.
* reset() copies the keys of the connection map in any order and puts a release of each on
  the stack: the frames are good for every order because they are for every server.
* `FreshPart` leaves the CLUSTER SLOTS commands out.

The refinement is about the commands of the application, whose identities are never used
again; the re-creation of CLUSTER SLOTS commands is a stuttering step.  The lemmas of
SlotTableProofs give that get_slot_master answers a server for every table, slot and choice.

### Cluster: connections, timers, and the table

`FlowInv` uses the same view of the stack as in Raw.  In Cluster a connection may
be released while those to other servers go on, so all is said for each connection:

* `ShapePart`: frames of `proc` are at the bottom only.  `CallbackPart`: as in Raw.  Together
  they give that nothing of hiredis is under way when a timer is looked at.
* `LinkPart`: the map leads to live connections, from their own server, and to all of them;
  only live ones have a status, and these have their context.
* `ReleasePart`: a live connection without a status is being released by exactly one call,
  which has reported its end before it destroys it.  This is what the callbacks made during a
  release could break: they may find the dying connection in the map, since
  release_connection takes it out only at the end.  A second release returns early because the
  status is already gone, and no new connection takes its place because the map is not empty.
  `MapMatchesConnections` and `EndIsReported` rest on it.
* `SequencePart`: sequence numbers never come again, and the number in no timer is that of an
  established connection.
* `PendingPart`: if commands wait although the table is there, the loop that sends them is on
  the stack: the reply handler sets the status before it empties the list, and the callbacks
  in between may add to it.  With an empty stack this is `NobodyWaitsForTable`.

### Cluster: answers

`AnswerInv` is `OkMeansAnswered` with `NullPart`, which says what is known of every frame that
carries a nullptr or will make one:

* a context is being freed, or its connect has failed, only if it is disconnecting or has an
  error, and neither is ever taken back;
* the nullptr that hiredis then passes to on_reply_wrapper comes from such a context;
* behind on_reply_wrapper there is an error still: it writes CONNECTION into the command when
  the context is disconnecting, and otherwise connection::call_reply finds the context's error.
  The command keeps its error until the identity is used again, which happens to CLUSTER SLOTS
  commands only, and only when no frame and no queue refers to the old one (`FreeLoads`).

Raw needed `FlowInv` for this because its frames are looked at from the bottom; here a frame is
*plain* if it carries no nullptr and leads to none, and one lemma for each action says that it
adds plain frames only.  The seven actions that add others are treated one by one.

### Cluster: reply lists

hiredis answers in the order of its queue, and the connection takes its own list from the
front: one command too many or too few and every later reply goes to the wrong caller.
`OrderInv` has three parts:

* `FormPart`: the event loop enters hiredis at the bottom of the stack only; a reply is
  delivered right above such a call, or above the frames that wait for it (the loop of a reset,
  a reload, a redirection), and none of these releases a connection.  The frame that delivers is
  the top one, except when ASK has to make a new connection before the command is taken off the
  list of the old one.  A context that is freed further up has an empty queue.
* `UnusedPart`: connections not yet made are empty, hiredis has no news about them and none
  is marked as disconnecting, so what makes one begins from nothing.
* `MatchPart`: while a connection has a status its list is the queue, after the command being
  delivered.

`FormPart` is what `MatchPart` needs: since no release lies below a delivery, the connection
still has its status, and so its list, when the command is taken off.  `InOrder` states the same
order by the positions the commands have in the queue, not by filtering the queue, since the
filter is recursive; four lemmas say what appending a command or an ASKING to the queue, and
taking either from it, do to those positions.

### Cluster: where the commands are

A redirected command leaves one reply list for another connection, perhaps a new one, and may
wait for the slot table, for a retry or for the reply to its ASKING in between; every hand-over is a
place to lose it or to keep it twice.  `OncePart` says for every live command but CLUSTER
SLOTS (whose identities are used again) that it is in one call or in one queue, that no
queue has it twice, and what holds it while it leaves:

* `InCalls(c)` are the heights of the frames that hold `c`.  A `retry` or `asking` frame does
  not hold it yet while the frame right above still has to take it off its reply list.
* `InQueues(c)` are the queues that have it: a reply list, `timer_pending`, `slot_pending_`,
  or the queue of hiredis with an ASKING for it.
* While it leaves, it is in a reply list, or in a `destroy` frame further up, when the
  on_connect callback of the new connection releases the old one.  This conjunct is not part
  of `EachCommandHeldOnce`, but needed for it: if something else held the command when it is
  off its list, the frame below would become a second holder.

The proof uses `FormPart` and `MatchPart` of `OrderInv` (a command that is delivered is the
first of its list) and `FlowInv`.  A few lemmas say what a step does to `InCalls` and
`InQueues`: one that calls a function passes the command of the top frame on, one that
appends to or takes from a queue moves it between a frame and that queue, and all
others leave both alone; each action is one of these.  `Holders` of `EachCommandHeldOnce` counts
positions, so `HoldersCount` shows at the end that the sets it counts have one element between them.

### Cluster: AUTH

A connection is in the map before its AUTH command has been sent, and from then on exec,
reload_slots and ASK find it there, as do the callbacks of the application.  `AuthInv`
(with a password, and `ErrSetsDisconnecting`) follows the AUTH command of each connection, as `AuthPart` of
Raw does for its one connection:

* `MarkedPart`: a context with an error is disconnecting, unless its connect callback is still
  running.  No reply is delivered during one (`FormPart`), so on_reply_wrapper never takes the branch that
  retries a command because of an error for AUTH, which could go to any connection.
* `AuthPart`: AUTH is the running call, about to be sent on a connection with an empty queue or
  to fail; or first in the queue of hiredis; or being answered by the top frame; or has
  been called back.  make_connection continues with AUTH, and nothing runs between the two; that
  exec_conn then takes it needs `LinkPart` (the connection has its context) and `UnusedPart` (its
  context is not disconnecting).  That the delivery ends with the callback needs `MatchPart`:
  the command is the first of the reply list, so pop_reply does not give up another one first.

It is false for the other hiredis versions: TLC finds a connection lost with AUTH and a
redirected command outstanding, where AUTH is retried behind that command.

### Only model-checked

* Of Cluster: `NoUseAfterFree` and `NoDanglingPrivdata`, in the environments of its runs;
  `UpdatingHasLoad`, which holds under the restrictions of its run only.
* Liveness: fairness and ENABLED are outside of the prover.
* SlotHash and NameCodec: what a fold computes for every input needs induction over data,
  and Bitwise is recursive.

## 5. Not modelled

* What sscanf does with numbers beyond an int, which is undefined.
* `connection::redis_raw_cmd`, and the subscribe and monitor branch of `redis_cmd`:
  the repository's README forbids passing such commands to `exec()`, and raw commands
  never enter the reply list.  (ASKING, which cluster sends around the reply list itself,
  is modelled.)
* The text of commands (format, vformat, pick_argument) and of replies (dump).
* `raw::~raw`, `cluster::~cluster` (they call `reset()`; hiredis may call back into a
  destroyed object later), and `exec(conn, cmd)`, `retry(cmd)` and `release_connection(...,
  false)` called by the application, the last of which claims that the context has been
  closed already.
* Microseconds of the timers (`usec` is added without a carry, happ_raw.cpp:452, so a retry may
  come early), and whether an iterator survives a rehash of the connection map
  (happ_cluster.cpp:620).
* `auth_fn` calling back into the library; on_reply_auth only logs.
* Allocation failure; keep-alive settings; configuration setters; logging; the samples.

## 6. Plan

Done: the single-server connector and the cluster connector with their runs; the pure parts;
for Raw, proofs of every invariant that holds in all environments, and of memory safety in
the benign ones; for Cluster, the inductive invariant, the refinement, and the invariants
about connections, timers, the table, the answers, the reply lists, the commands and AUTH.
Left:

1. For Cluster, memory safety in benign environments, as for Raw: `MemInv` for each connection.
