# Agent Interaction Runtime: TLA+ verification

TLA+ models of the a2uid daemon, its semantic engine and its terminal clients,
checked with TLC on small instances, with proofs checked by TLAPS. Paths below
are relative to the repository root.

## 1. The system

An *agent* describes a user interface with numbered operations. A long-lived
*daemon* owns the resulting document and runtime state. A *terminal client*
attaches over a Unix socket, draws snapshots and sends the user's interaction
back; it may leave or die at any time and another may attach. The agent learns
what happened from a queue of events. A `commit` operation is a *publication
barrier*: its `committed` event promises that everything up to it has been made
visible.

| Component | State | Operations | Interacts with |
|---|---|---|---|
| Event broker `runtime/events.go` | three bounded queues, two counters | `Enqueue`, `EnqueueCriticalBatch`, `Next` | filled by the engine, drained by agent requests |
| Engine `engine/engine.go`, `runtime/publication.go`, `runtime/state.go` | document, projection, waiting commits, generations | `Apply`, `PublishGeneration`, `Publish`, `PresentationSnapshot`, interactions | called by agent requests, `handleClient` and the in-process view, under one mutex |
| Session `session/session.go` | state, next mutation number | `Negotiate`, `AcceptMutation` | called under `agentMu` |
| Daemon `daemon/*.go` | lease, active connection, two one-slot wake-up channels | `HandleEnvelope`, `WaitEvents`, `handleClient`, `ackPublication` | HTTP/MCP requests on one side, sockets on the other |
| IPC client `ipc/client.go` | snapshot cache, outstanding requests, their channels | `Dial`, `readLoop`, `requestMessage`, `AcknowledgePublication`, `Close` | daemon, Bubble Tea model |
| Bubble Tea model `adapter/bubbletea` | last acknowledged token; caret, scroll and table windows; one animation chain | `Update`, `View`, `handleKey`, `reconcileLocalState` | engine in process, or the IPC client |
| Document reducer `document/` | the tree of nodes, revision | `Apply` | engine |
| Runtime projection `runtime/state.go`, `bindings.go`, `table_selection.go` | focus, inputs, selections, bindings | `Reconcile`, local setters | engine |
| Action registry `runtime/actions.go` | handlers, in-flight slots | `Dispatch` | engine's `HandleKey` |
| External actor `external/actor.go` | health, request queue | `Call`, `Close` | an executor of native commands; nothing in the repository calls it |
| Socket lifecycle `ipc/socket.go`, `cmd/a2uid` | a path in the file system | `ListenUnix` | other daemons |
| Wire, protocol, transports, CLI | none that survives a record | decode, validate, frame | all of the above |
| Layout and rendering `layout/`, `adapter/bubbletea` | none | row allocation, table plans and windows, viewport geometry, styling | Bubble Tea model |

What is hard: agent requests, event waiters, connection handlers and terminals
run concurrently and share the engine only through short critical sections, so
almost everything a terminal knows is stale when it is used; wake-ups are
coalesced in one-slot channels; the event queue may be full at any moment;
terminals die; and an acknowledgement crosses a socket while mutations go on.

Properties that make each part correct:

* broker: nothing reliable is lost, split, repeated or reordered; the capacity
  holds for all classes together; the newest state of a key survives;
* engine and view: a `committed` event never precedes the frame it speaks of;
  commits are acknowledged once and in order; a refused publication is retried;
* session: each mutation is applied at most once and in order;
* daemon: one terminal at a time, recovered when it dies; no wake-up lost; a
  stale acknowledgement opens nothing; an attached terminal sees every change;
* document and projection: an operation applies completely or not at all; the
  tree stays a tree; focus, inputs, selections and bindings always refer to
  nodes that exist and qualify;
* actions: handlers never outnumber the slots, a hung handler blocks nobody for
  good, and the agent is told what happened to the action;
* client: a request gets the answer to it and returns;
* external actor: after an abandoned command none that has not been admitted yet
  is started, and nobody is answered twice;
* terminal: what it keeps for itself settles on the document it shows and moves
  only when the user moves it; the widths it hands out fit the cell they are for.

## 2. Modules

| Module | Stands for |
|---|---|
| `EventBroker` | the broker's operations, one per Go method and outcome |
| `EventBrokerSpec` | producers of all classes, one consumer, the broker's promises |
| `PublicationBarrier` | abstract specification: what a commit promises |
| `Engine` | `Apply`, publication, snapshots and interaction on top of `EventBroker` |
| `LocalView` | agent goroutine and UI goroutine over an in-process engine |
| `Session` | the agent session |
| `EventWait` | `WaitEvents` and the `eventCh` slot, for any number of requests |
| `EventDelivery` | producers and waiters alone, for the wake-up protocol |
| `Daemon` | all of it: agents, handlers, sockets, terminals |
| `MCDaemon` | `Daemon` with symmetric connections and waiters |
| `Document` | the reducer: properties, tree, operations, limits, as operators |
| `Projection` | focus, inputs, selections and bindings derived from a document |
| `ContentVersions` | abstract specification: how the counters follow the content |
| `SemanticState` | `Engine.Apply` and the local setters over both |
| `MCSemanticState` | operations for model checking `SemanticState` |
| `ActionRegistry` | `Register` and `Dispatch`: slots, deadline, handler goroutines |
| `IpcClient` | `requestMessage`, `readLoop` and `Close` with several requests |
| `KeyActions` | both, composed with `handleClient`, `HandleKey` and the broker |
| `ExternalActor` | the actor for native commands |
| `RowLayout`, `TableLayout` | widths of a row's children; plan and row window of a table |
| `Terminal` | the Bubble Tea model's `Update` over a changing document |
| `MCTerminal` | boxes, columns and sizes for model checking `Terminal` |
| `EngineProofs` | what each operation of `Engine` preserves, for the next three |
| `LocalViewProofs`, `DaemonProofs` | theorems about the module of that name |
| `EventProofs` | theorems about `EventBrokerSpec` and `EventDelivery` |
| `SemanticStateProofs`, `KeyActionsProofs`, `ExternalActorProofs` | theorems about the module of that name |
| `TerminalProofs` | theorems about `RowLayout`, `TableLayout` and `Terminal` |

State and actions correspond to the code as follows.

**Engine.** `revision`, `dirtyRevision`, `publishedRevision`, `renderGeneration`,
`statePublication`, `publishedGeneration` and `publicationGeneration` are the
counters of `document.Document`, `runtime.State` and `Engine`. The document and
the projection themselves are abstracted to whether an operation changed the
document (`ApplyChanged`), only the projection (`ApplyProjected`), neither
(`ApplyUnchanged`), was a commit, or was rejected. Each method holds
`Engine.mu`, so each is one step. `lastSeq`, `acknowledged`, `accepted`,
`delivered`, `latest` and `shown` are history variables: they record what was
applied, announced and drawn and are read by no guard.

**LocalView.** `View` is three steps (read the snapshot, render, acknowledge),
because the agent goroutine runs in between. Key handling runs on the same
goroutine as `View`.

**Daemon.** `handler[c]` is the program counter of the `handleClient` goroutine
of connection `c`: a step ends where the code takes or releases a lock, sends
to a channel or writes to the socket. `HandleEnvelope` is two steps, the
operation and `signalSnapshot`, because a handler may run in between while
`agentMu` keeps other requests out. `ackPublication` is two steps, its two
looks at the engine. Acquiring the lease and setting the active connection are
separate steps, and so are their opposites. A connection is a pair of FIFO
queues of at most `SocketBuffer` messages; a write to a dead or clogged peer
fails as it does after the write deadline. `Quit` kills a terminal anywhere; what it
wrote before remains readable, as on a Unix socket. The terminal's UI goroutine
blocks while a request is outstanding, so `View` and keys wait for the answer
or the timeout. The first frame a Bubble Tea program draws is the redraw that
`ReceiveInitialSnapshot` leaves due.

**EventWait.** `DrainEvents` is a loop of single `Next` calls that interleave
with producers and other requests; deciding to sleep and sleeping are two
steps. `eventCh` is the one-slot channel.

**Document, Projection.** A document is a function from node ids to records, as
in `document.Document`; an operation is a guard (`UpsertOk`), a candidate
(`Replaced`, `Created`, `Patched`, `Extended`, `Swept`) and the check of the
candidate as a whole (`Structural`, `WithinLimits`). Property maps are partial
functions restricted to the names the runtime interprets, rows are counted,
text is its length, and `force` is taken out before anything is retained.
`Reconcile` derives the next projection from both documents and the operation.

**SemanticState.** `doc`, `state` and `token` are the engine's document,
`runtime.State` and publication generation; one step is one engine call. It
complements `Engine`, which keeps the same counters with queue and commits and
leaves the content out: `VersionsImplemented` shows that the counters follow
the content the way `Engine` assumes (`ApplyChanged`, `ApplyProjected`,
`ApplyUnchanged`, `ApplyCommit`, `InteractLocally`).

**ActionRegistry, IpcClient, KeyActions.** A call is one `Dispatch`; its
goroutine (`dispatch`) and the handler's (`worker`) are separate, and a step
ends where the code blocks. The semaphore is the set of calls that hold a slot.
A request of the client goes from the map of pending requests through the hands
of `readLoop` (`inHand`: taken out under the lock, sent after it) into its
channel. `KeyActions` gives both a daemon with one connection: `TakeKey` reads
the binding, `Dispatch` runs without any lock, `QueueOutcome` puts its event in
the queue or is refused, `AnswerRequest` answers. `Shutdown` cancels the context
of everything, and closing the connection is a step of its own. An action
handler returns, fails or panics at any time, or never. Answers of the daemon
carry a verdict instead of a snapshot (`Daemon` has the snapshots), and the lease
plays no part with one connection.

**ExternalActor.** `loop` is the program counter of the actor's goroutine, `call`
that of each `Call`, `closer` that of `Close`. `reply` tells a caller that gave
up after it had submitted its command ("abandoned") from one that never did
("context"). The goroutine loads the health (`Check`) and calls the executor
(`StartExecutor`) in two steps, between which a caller may give up. The executor
ends in any way, or never.

**RowLayout, TableLayout.** The loops of `AllocateRow` that give or take single
cells are one definition per pass (`ShrinkRound`, `GrowPass`); the outer loops
are recursive functions on the widths. A column of a table is its declared width
and its title's width, because the plan looks at nothing else. `RecordLine` and
`DetailLine` are the widths of lines with values as long as they may be. Numbers
are mathematical integers: validation sets no upper bound on flex properties and
column widths (`protocol/props.go:140-171`, `295-299`), so for values near the end
of a Go int the sum of minima (`flex.go:50-54`), `spare*Grow` (`flex.go:103`) or the
total of preferred widths (`table_layout.go:73`) wraps, and nothing here speaks of
what happens then.

**Terminal.** The screen is a row of a widget, which the agent replaces by
another of any type under the same id, and a progress node. `caret`, `viewport`
and `table` are that id's entries in `InteractionState`. A key is two steps: the
snapshot `handleKey` reads, and everything after it, which looks at the current
snapshot again. A change of the document and its signal are one step: without
the signal the terminal could not know of it. `Published` is what the runtime
makes of the change, which `SemanticState` has in detail: a selection may go to
any row, because it follows the row's id when rows are reordered, and an input may
have any length, because the agent may force a value; both are also what a call
that timed out looks like when it takes effect late. The agent may focus the
widget. After Ctrl-C `Update` goes on with what arrives until the program ends.
Text is a number of logical lines of equal length, wrapped to the cell. With one
focusable node Tab has one place to go to. The cursor's blinking and the spinner's phase are left out. After a
refused `SetInput` the caret may be past the value until it is clamped; the
renderer clamps it too.

Definitions with a suffix (`Publishable_AnyToken`) are faults: what a plausible
mistake in that code would look like. Each property is shown to notice one.

## 3. What is checked

| Run | Instance | Shows |
|---|---|---|
| `broker` | capacity 3, two ids, batches of 2, 5 events accepted | every mix of classes at a full queue: `DepthWithinCap`, `CriticalExactlyOnce`, `BatchesWhole`, `NewestUpdateKept`, `CoalescedOldestFirst` |
| `local_view` | capacity 2, 3 pending allowed, 4 operations | the commit barrier in process, with backpressure: `CommittedWasVisible`, `PublishedWasVisible`, `CommittedEventsMatch`, `BacklogFitsQueue`, `PendingIsRetried`, `FrameMatchesToken`, and `LocalView` refines `PublicationBarrier` |
| `daemon_attach` | two connections, two dials, 2 operations | terminals that come, go and die: `LeaseExclusive`, `DetachAckMeansFree`, `NoStaleTerminal`, and `Daemon` refines `PublicationBarrier` |
| `daemon_use` | one connection, one waiter, one request, a faulty agent | interactions, timeouts, retried, skipped and malformed mutations: `NoStaleTerminal`, and `Daemon` refines `PublicationBarrier` |
| `daemon_live` | one connection, 2 operations, fair | `CommitAcknowledged`, `ChangesAreDrawn`, `LeaseRecovered` |
| `daemon_lost_ack` | capacity 1, attentive agent and terminal | **violation**, see below |
| `event_delivery` | two waiters, capacity 2 | `TerminalEventsWake`, `TerminalEventsTaken` |
| `semantic_tree` | three interchangeable ids, viewports and texts, 4 publications | `ReducerKeepsTree`, `UpsertIdempotent`, `FocusMovesForCause` |
| `semantic_widgets` | two ids: inputs, tables, actions; 3 publications, 5 redraws | `StateTypeOK` (schema and counters), `ProjectionMatchesDocument`, `UserInputSurvives`, `SelectionFollowsRow`, and `SemanticState` refines `ContentVersions` |
| `key_actions` | two requests, one action, one slot, capacity 1, fair | `SlotsBounded`, `OutcomeAnnounced`, `AnswersAreOwn`, `RequestsReturn` |
| `terminal` | two row boxes, 4 columns, three sizes, up to 3 lines or rows, inputs of at most a rune, 2 changes, fair | `WindowsSettled`, `LayoutFits`, `OneChain`, `ReadingPosition`, `AnimationFollows` |
| `root_props_panic` | as `semantic_widgets` | **violation**, see below |

*Bounds.* `MaxOps`, `MaxEvents`, `MaxRender`, `MaxDials` and `MaxRequests` only
end behaviours. Capacity 2 with three pending commits allowed makes every kind
of backpressure happen (a full queue, a batch that does not fit, a commit over
the limit). Two connections are enough for a lease to be contended, released and
taken over; two operations for an acknowledgement to be overtaken; a socket
buffer of two messages for a writer to block. Three nodes with a depth limit of
three and two children each are the smallest tree in which a node can move below
its own grandchild, sit between two others and run into every limit; the ids are
interchangeable there and declared symmetric. The tables offered to
`semantic_widgets` grow at the front, shrink to one row and lose their
identities. Several properties of `SemanticState` look one operation ahead of
every reachable state, so the last operation is beyond `MaxToken`. Its nodes have
one parent; that a value survives the relocation of its node is a theorem only
(`InputSurvives`). In
`key_actions` two requests for one slot and a queue of one event make the second
request wait behind a hung handler and its event meet a full queue; a detach may
be the second. The sizes of `terminal` take the four columns through all four
presentations (full, compressed, master and detail, records) and the two boxes
through growing to a limit, shrinking, sharing equally and stacking; three rows
are more than a small window shows; two changes let a widget be retyped and
retyped back between two updates. `Epochs` bounds the animation's counter above
what the changes can make it reach, which is proved (`EpochBound`). Deadlock
checking is off because a system whose users and agents do nothing more stops.

*Fairness.* Go schedules runnable goroutines, so each of these is weakly fair:
the rest of an agent request behind `agentMu`, each handler, each client's
reader, the redraw after an update message, and the request timer. No fairness
is assumed of agents, users or dying terminals. `AttentiveSpec`, used for the
violation only, adds that the agent keeps asking for events and the terminal
keeps redrawing: even then the acknowledgement is lost. In `EventDelivery` only
the signalling producer and running drains are fair, never the timer. In
`KeyActions` each request (its timer included), each `Dispatch` and its deadline
are fair, and that is all `RequestsReturn` needs: not the client's reader, the
connection's handler, action handlers or the slots they hold. In `Terminal`
the program's loop delivers signals, ticks and the rest of a key.

*Two disagreements.*

* `daemon_lost_ack`: `View` remembers a token as soon as the record is written
  (`adapter/bubbletea/model.go:214`). If the daemon then refuses it because the
  event queue is full, the terminal never repeats it, and the commit waits
  although the queue has been drained. `references/PROTOCOL.md:214` promises
  that a commit "yields a reliable event". In process the error is returned to
  `View` and the token is retried (`PendingIsRetried`).
* `root_props_panic`: the root is created without a map of explicit properties
  (`document/document.go:37`), and recording one panics (`document/reducer.go:236`),
  although `references/PROTOCOL.md:176` says that "`props` works for containers as
  well as leaf widgets". Nothing in the repository recovers. The operation arrives
  in a handler of net/http (`cmd/a2uid/main.go:62-68`, `cmd/a2ui-runner/main.go:51`),
  which does: the agent gets no answer, the locks are released by their defers, and
  the daemon lives on with the sequence number used up (`daemon/agent.go:39`) and the
  operation not applied. The same operation resent is then taken for a duplicate.

A third is stated inside a property that holds. `references/PROTOCOL.md:295` says
that "A terminal renderer MUST respect its available width", but a record's line
gives the value all cells that the title leaves, and the selected record of a
focused table gets the mark "> " on top (`render_components.go:407-411`): two cells
too many, which nothing clips. A title that leaves no cell for the value makes the
line too wide as well. `LayoutFits` says exactly which records fit (`TableFits`): with
long values, those without a mark whose titles leave a cell. The other places it
does not claim to fit are a row with less than a cell for each child, and the
heading "Details", which has seven cells and a pane that may have six.

Two observations that no run states: `emitError` queues an event and nobody
signals (`daemon/agent.go:53`), so a sleeping `WaitEvents` does not return an
error event before its timer, although its comment (`daemon/daemon.go:65`) says
it waits "for new semantic events to arrive"; `TerminalEventsWake` therefore
speaks of terminal events only. And a viewport retyped and retyped back between
two updates keeps its offset and pin, because entries are known by id and type;
`ReadingPosition` speaks of the entry, so it holds.

## 4. What is proved

TLAPS checks every proof. The bounds of the runs (`MaxOps`, `MaxToken`, ...) are
arbitrary numbers in the theorems, so they end no argument. The other assumptions
are what the code ensures:

| Assumption | Says | Because |
|---|---|---|
| `CapAssumption`, `MaxPendingAssumption`, `InflightAssumption`, `LimitsAssumption` | limits are positive numbers | `NewEventBroker`, `NewActionRegistry` and `EffectiveLimits` replace others |
| `IdsAssumption` | the empty string is no node's id | `protocol/validate.go:17` refuses it; it means "no node" |
| `ChunksAssumption`, `PatchesAssumption` | text has a length; types are known; `rows` is a list, `row_ids` are strings | the schema in `protocol/props.go` |
| `RequestsAssumption`, `KeyIds` | requests are numbered and name their calls | `ipc/client.go` counts them |
| `LayoutAssumption` | no number of a box, child or column is negative; a child's limit is none or not below its minimum; a row has children | `protocol/props.go:140-171`, `228-233`, `278-302` |
| `ContentAssumption` | a line has a cell and a viewport a height; lines and rows are counted, and there is a longest table | `protocol/props.go:259`; `MaxMessageBytes` limits a record |
| `DaemonBounds`, `LocalBounds`, `DeliveryBounds`, `BrokerBounds`, `StateBounds` | bounds are numbers; no connection is "none" | the models' own |

**The engine and its view** (`EngineProofs`, `LocalViewProofs`), for every capacity
and pending limit. `EngineInv` adds to the types that nothing drawn or waiting is
ahead of the engine, that the dirty revision is the document's, and the two
visibility properties. A publication preserves it if its caller has drawn the
current document and every waiting commit (`PublishInv`). `View` meets that
obligation: a token stands for one content (`FrameMatchesToken`, kept because each
operation that changes the content takes a new token, `ApplyTakesToken`), and a
frame about to be acknowledged has been drawn (`DrawnBeforeAck`). With both,
`ViewInv` is inductive, which `CommittedWasVisible` is not by itself. From it:
`TypeCorrect`, `CommitsWereVisible`, `PublicationsWereVisible`, `BacklogFits`,
`PendingRetried`, `AcknowledgementsAreSound` and the refinement `BarrierRefined`.
`CommitsAnnouncedOnce` counts committed events: a prefix of the stream has as many
as it has acknowledged commits, and a publication appends both.

**The daemon** (`DaemonProofs`), for any number of connections, waiting requests
and operations and any socket buffer; `DaemonInv` is inductive.

* `LeaseIsExclusive` and `DetachFreesLease`: `LeaseInv` says where the handler is
  that has the lease, for each of the separate steps in which lease and active
  connection are taken and returned; `DetachInv` that a `detach_ack` in flight
  belongs to a handler past its release, and that a dead terminal's queue is gone,
  so nobody on the same connection reads a predecessor's acknowledgement.
* `DaemonCommitsWereVisible` and `DaemonImplementsBarrier`: the token argument of
  `ViewInv` for everything in flight. Each frame on a socket, in a cache or on a
  screen was the engine's state once, so its token stands for it or is stale
  (`FramesGood`); each token on its way back was sent after its frame was drawn
  (`TokensDrawn`); the session hands out each number once, so a mutation applied
  is newer than all before (`NumbersFresh`). Hence every call of the engine is one
  that `EngineCall` describes, and each of those is a step of the barrier.
* `NoTerminalIsStale`: `PictureInv` adds that snapshots travel in the order of
  their redraw numbers, so that `acceptSnapshot` refuses none, and that from its
  greeting on a terminal has the current state as its last snapshot or another one
  is due.

**The event queue** (`EventProofs`), for every set of node ids and batch size:
`BrokerTypeCorrect`, `CapacityRespected`, `ReliableDelivery` (the coalescing map is
finite: replacing a key keeps its cardinality, a new key adds one, `Next` takes one
away); `NewestKept` and `OldestFirst` (`CoalescingInv`: an entry is filed under its
own key, is its newest update and has an order number of its own);
`BatchesStayWhole` (whole sequences stay whole when concatenated). And for any
number of requests that share the one-slot channel: `WakeUpsAreKept`.
`TerminalEventsWake` speaks of requests that sleep; a request falls asleep some
steps after it has found the queue empty, and an event may come and its token be
spent in between. `WakeInv` speaks of the request from the moment it has found
nothing.

**The content** (`SemanticStateProofs`), for every set of ids, every vocabulary the
schema admits and all limits. `ContentInv` is inductive and small: the document is
typed and passes the structural checks, the projection is typed and matches it.
From it and from what one operation does:

* `TreeKept`: every candidate the guards accept is a tree with the right totals.
  `Subtree` and `Lineage` are recursive functions over depths; they are shown to be
  the least sets closed under children and under parents. A document is a tree if
  its links agree node by node (`LocalTree`) and every set that contains the root
  and is closed under children contains all nodes (`Rooted`). Moving a node keeps
  that because `UpsertOk` refuses a target below the node itself; removing a
  subtree, because a node outside it has no ancestor inside.
* `UpsertsIdempotent`: `insertChild` after `removeChild` restores the list, and the
  merged properties are merged already.
* `ProjectionMatches`, `InputSurvives`, `SelectionFollows`: what `Reconcile` and the
  setters leave in each of the four parts of the projection.
* `FocusMoves`: the focus goes to the first node in preorder, where `Before` tells
  the order from the paths to the root alone. A visit of `FocusableIDs` that is k
  levels deep is complete for a node with fewer than k levels below it, and below a
  node there are at most as many levels as nodes that are not on its path.
* `StateTypeCorrect`: nodes keep to the schema of their type, whatever they were
  before, and the four counters stay in step.
* `VersionsRefined`: the refinement of `ContentVersions`, which is what `Engine`
  assumes of the content.

The library's induction theorems take an operator as a parameter, which the
installed provers cannot instantiate. Here, and for the layouts, induction is
done in set form: the set of the numbers that have a property contains 0 and the
successor of each member (`SetInduction`, from the well-foundedness of < on the
naturals); that a recursive function has a solution is `Recursion`, by the same
means.

**The key path** (`KeyActionsProofs`), for any number of requests, actions and
slots. `HandlersBounded`: `ReturnSlot` gives a slot back without looking at the
handler's goroutine, so `RegistryInv` adds that a `Dispatch` which has not started
its handler has none and that one which has acquired a slot holds it.
`KeyTypeCorrect` and `AnswersOwn`: a request travels to the daemon once, is judged
once while the handler has it, and wherever its answer is afterwards it is that
verdict (`KeyInv`). `OutcomesAnnounced`: a `Dispatch` that has returned has an
outcome with a reason, and the accepted events name those whose request was
answered with success, once each (`TellInv`).

**The external actor** (`ExternalActorProofs`), for every set of requests and queue
length: once a caller has abandoned a submitted command, and the goroutine is not
past its look at the health, no command is ever started again
(`AbandonedNeverAdmitted`), and nobody is answered twice (`AnswersOnce`).
`references/IMPLEMENTATION.md:146` says that the actor is degraded after a timeout;
one command that was admitted just before may still start. `ActorInv` says that an
abandoned call is over and the actor not ready from then on (nothing but `Start`
stores Ready), and that each request in the queue or in the goroutine's
hands was submitted, is there once and has no answer yet. The actor has no run of
its own: no part of the repository calls it.

**The layouts** (`TerminalProofs`), for every list of children or columns, gap,
padding and width, in integers that do not wrap: `EveryRowFits` and `EveryTableFits`.
They say of the cases that do not fit what does happen: a row whose minima are too
wide is stacked at the full width, or shared equally and inside the box while that
has a cell for every child; the line of a record is inside exactly when it is not
marked and its title leaves a cell for the value. A loop of the code is a
function defined by recursion on the widths themselves, and `LoopRule` says of one
whose rounds lower a measure that it ends, keeps what a round keeps, and ends only
where no round is left; the measures are the cells too many, the cells still spare
and the cells above the budget. What the rounds keep:

* a child of a row gives up cells only above its minimum, and as many children do
  in a round as there are cells too many at most;
* the shares of a pass are quotients of spare cells by the total of the grow
  factors, so together no more than the spare cells. The rest goes to the first
  children by remainder, one cell each; no two children have one rank
  (`AtMostRanked`), so no more cells are handed out than are left, and a pass stands
  still only when every child that may grow is at its limit;
* a column narrows down to its readable width only, and the mode was chosen because
  the readable widths fit. The left pane leaves the detail pane its minimum because
  `masterDetailEligible` has made room for both.

**The terminal** (`TerminalProofs`), for those and every size, text, table and number
of changes.

* `WindowsAlwaysSettled`: the property speaks of the moments without a signal or a
  key, and is not inductive: a key may have been read before the change it meets.
  `LocalInv` says that without a signal waiting the entries are what a
  reconciliation would make them and a key in hand has read the current widget.
  Steps keep that because reconciling twice is reconciling once (`ViewportSettles`,
  `TableSettles`; the rows a table shows do not depend on its offset), wherever an
  update has put the selection, and because a
  key leaves a viewport either at the tail or unpinned (`ViewportKeyFacts`).
* `ReadingPositionKept`: a step that does not end a key leaves the entry alone or
  reconciles it with the widget and cell after the step (`OtherSteps`); a
  reconciliation keeps the pin, and the offset as long as that exists.
* `NoTimerFanOut`: starting a chain relies on the next epoch being unused and within
  `Epochs`. `AnimationInv` adds that no epoch ahead has a tick and bounds the epochs
  by `Potential`: the epochs that were, plus one if the animation is not what is
  needed, one if the focus can still be gained and two while Ctrl-C, which stops an
  animation that may have to start again, can still come. Only a change by the agent
  raises it, by two at most.
* `LayoutAlwaysFits` (the two statements about layouts, of what is on the screen) and `TerminalTypeCorrect`.

Only model-checked:

* liveness, which the prover does not do: `CommitAcknowledged`, `ChangesAreDrawn`,
  `LeaseRecovered`, `TerminalEventsTaken`, `RequestsReturn`, `AnimationFollows`;
* the two disagreements, which are violations.

Every other property of the runs is a theorem. The type invariants are proved and,
but for `StateTypeOK`, not checked by a run.

## 5. Not modelled, and the plan

Not modelled:

* decoding and validation of single records, framing, formatting, styling and
  string assembly: stateless, and only their verdict matters here;
* columns of boxes, whose heights depend on rendered text, and the height of a
  table's detail pane, which has a line for each column whatever the height;
* flex properties and column widths so large that a Go int wraps;
* the socket's life cycle (`ipc/socket.go`): probe, removal and bind are calls
  into the file system and the kernel, on which no modelled part depends;
* the end-to-end runner and its terminal emulator, which are harnesses for tests and
  demonstrations (`a2ui-runner -server` does serve requests concurrently, and its
  `publishFrame` announces what is current, not what it drew), and the command lines, which format requests the daemon's model takes;
* a malformed record on an attached connection and the daemon's listener.

Left for later: a screen with several focusable nodes, and the socket's life cycle
with the file system as an external module.
