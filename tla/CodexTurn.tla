------------------------------ MODULE CodexTurn ------------------------------
(***************************************************************************)
(* One session with the Codex app server (codex_app_server.py:             *)
(* _JsonRpcSession and _AppServerProtocol): the handshake, the root turn,  *)
(* and the child threads the model may spawn.  The client sends a request  *)
(* and takes in whatever arrives: the response, and notifications in any   *)
(* order, from any thread, before or after the response they belong to.    *)
(*                                                                         *)
(* The server is unconstrained: it may send any message at any time.  A    *)
(* message is an action whose guards are the checks of the handler; one    *)
(* that fails a check, an error, a request of the server or the deadline   *)
(* is Reject, which ends the session without an outcome.                   *)
(***************************************************************************)
EXTENDS Naturals, FiniteSets

CONSTANTS
  Root,                \* the thread that thread/start returns
  Children,            \* ids of child threads
  Turns,               \* ids of child turns, unique within a thread only
  Items,               \* ids of collaboration items, unique within a thread
  None,                \* no announcement, no parent
  _MAX_COLLAB_THREADS,
  _MAX_COLLAB_TURNS,
  MaxItems             \* bound: collaboration items in a behaviour

ASSUME TurnAssumption ==
  /\ Root \notin Children /\ None \notin Children \cup {Root}
  /\ MaxItems \in Nat
  /\ _MAX_COLLAB_THREADS \in Nat /\ _MAX_COLLAB_TURNS \in Nat

Threads == Children \cup {Root}
Scopes == Children \X Turns
Announcements == {"none", "same", "other"}

VARIABLES
  pc,               \* the call whose response is awaited, or the turn's state
  announcedThread,  \* thread/started of the root: agrees with thread/start?
  announcedTurn,    \* turn/started of the root: agrees with turn/start?
  rootUsage,        \* _last_usage is set
  collab,           \* child threads in scope
  unbound,          \* those in scope before their spawn item named them
  validated,        \* those whose provenance was announced
  failed,           \* children of spawns that failed
  active,           \* children believed to be working
  parent,           \* parent[c]: the thread that spawned c
  depth,            \* depth[c]: its distance from the root, as announced
  turns,            \* turns[c]: the turns of c that are open
  seen,             \* every child turn that was started
  usage,            \* the child turns whose token usage arrived
  pending,          \* spawn items that were started: <<sender, item>>
  items,            \* other collaboration items that were started
  terminal,         \* items that ended; their ids are not used again
  edges             \* <<parent, child>> of the spawns that completed

root == <<announcedThread, announcedTurn, rootUsage>>
scope == <<collab, unbound, validated, failed, parent, depth>>
work == <<active, turns, seen, usage>>
tools == <<pending, items, terminal, edges>>
vars == <<pc, root, scope, work, tools>>

\* run: the calls in order; the last read of the rate limits follows the turn.
Handshake == {"initialize", "model/list", "permissionProfile/list",
              "account/read", "account/rateLimits/read", "skills/list",
              "skills/config/write", "skills/relist", "thread/start"}
Pcs == Handshake \cup {"turn/start", "running", "after", "done", "rejected"}

\* Where the response to a call leads; the paged calls and the writes of the
\* skills configuration may be made again.
Calls ==
  {<<"initialize", "model/list">>,
   <<"model/list", "model/list">>, <<"model/list", "permissionProfile/list">>,
   <<"permissionProfile/list", "permissionProfile/list">>,
   <<"permissionProfile/list", "account/read">>,
   <<"account/read", "account/rateLimits/read">>,
   <<"account/rateLimits/read", "skills/list">>,
   <<"skills/list", "skills/config/write">>, <<"skills/list", "skills/relist">>,
   <<"skills/config/write", "skills/config/write">>,
   <<"skills/config/write", "skills/relist">>,
   <<"skills/relist", "thread/start">>,
   <<"thread/start", "turn/start">>, <<"turn/start", "running">>, <<"after", "done">>}

Following(p) == {q \in Pcs : <<p, q>> \in Calls}

----------------------------------------------------------------------------
Init ==
  /\ pc = "initialize"
  /\ announcedThread = "none" /\ announcedTurn = "none"
  /\ rootUsage = FALSE
  /\ collab = {} /\ unbound = {} /\ validated = {} /\ failed = {}
  /\ parent = [c \in Children |-> None]
  /\ depth = [c \in Children |-> 0]
  /\ active = {} /\ seen = {} /\ usage = {}
  /\ turns = [c \in Children |-> {}]
  /\ pending = {} /\ items = {} /\ terminal = {} /\ edges = {}

\* The response of the pending call, with the agreement checks on ids that
\* were announced before it.  run needs the usage of the root turn to return.
Respond ==
  /\ pc' \in Following(pc)
  /\ pc = "thread/start" => announcedThread \in {"none", "same"}
  /\ pc = "turn/start" => announcedTurn \in {"none", "same"}
  /\ pc = "after" => rootUsage
  /\ UNCHANGED <<root, scope, work, tools>>

\* Any check that fails, any error, a request of the server, the deadline.
Reject ==
  /\ pc \notin {"done", "rejected"}
  /\ pc' = "rejected"
  /\ UNCHANGED <<root, scope, work, tools>>

\* thread_id is set and no turn of the root completed.
InThread == pc \in {"turn/start", "running"}

\* The thread has a turn that an envelope can name: the root's once turn/start
\* was answered, a child's while it is open.
Speaks(t) ==
  \/ t = Root /\ pc = "running"
  \/ t \in collab /\ turns[t] # {} /\ InThread

Begun == Cardinality(pending) + Cardinality(items) + Cardinality(terminal)

----------------------------------------------------------------------------
\* thread/started, thread/status/changed.

AnnounceRoot(a) ==
  /\ pc \in Handshake \cup {"turn/start", "running"}
  /\ announcedThread = "none"
  /\ InThread => a = "same"
  /\ announcedThread' = a
  /\ UNCHANGED <<pc, announcedTurn, rootUsage, scope, work, tools>>

\* _claim_collab_thread_scope: a thread nobody named yet takes a spawn that is
\* open and not taken by another such thread.
Claimable(c) ==
  /\ c \notin failed
  /\ c \notin collab => /\ Cardinality(unbound) < Cardinality(pending)
                        /\ Cardinality(collab) < _MAX_COLLAB_THREADS

Claim(c) ==
  /\ Claimable(c)
  /\ unbound' = IF c \in collab THEN unbound ELSE unbound \cup {c}
  /\ collab' = collab \cup {c}

\* Mutant of AnnounceChild: the announced depth is neither compared with the
\* parent's nor bounded.
AnnounceDeep(c, p) ==
  /\ InThread
  /\ c \notin validated
  /\ p = Root \/ p \in validated
  /\ parent[c] \in {None, p}
  /\ (\E i \in Items : <<p, i>> \in pending) \/ <<p, c>> \in edges
  /\ Claim(c)
  /\ validated' = validated \cup {c}
  /\ parent' = [parent EXCEPT ![c] = p]
  /\ \E d \in 1.._MAX_COLLAB_THREADS + 1 : depth' = [depth EXCEPT ![c] = d]
  /\ UNCHANGED <<pc, root, failed, work, tools>>

\* The depth of a child of thread p.
DepthUnder(p) == IF p = Root THEN 1 ELSE depth[p] + 1

\* A child is announced once, by a parent that is known and spawns or spawned.
AnnounceChild(c, p) ==
  /\ InThread
  /\ c \notin validated
  /\ p = Root \/ p \in validated
  /\ DepthUnder(p) <= _MAX_COLLAB_THREADS
  /\ parent[c] \in {None, p}
  /\ (\E i \in Items : <<p, i>> \in pending) \/ <<p, c>> \in edges
  /\ Claim(c)
  /\ validated' = validated \cup {c}
  /\ parent' = [parent EXCEPT ![c] = p]
  /\ depth' = [depth EXCEPT ![c] = DepthUnder(p)]
  /\ UNCHANGED <<pc, root, failed, work, tools>>

StatusChanged(c, busy) ==
  /\ InThread
  /\ Claim(c)
  /\ active' = IF busy THEN active \cup {c} ELSE active \ {c}
  /\ UNCHANGED <<pc, root, validated, failed, parent, depth, turns, seen, usage, tools>>

----------------------------------------------------------------------------
\* turn/started, thread/tokenUsage/updated, turn/completed.

AnnounceTurn(a) ==
  /\ InThread
  /\ announcedTurn = "none"
  /\ announcedTurn' = a
  /\ UNCHANGED <<pc, announcedThread, rootUsage, scope, work, tools>>

ChildTurn(c, t) ==
  /\ InThread
  /\ c \in validated
  /\ <<c, t>> \notin seen
  /\ Cardinality(seen) < _MAX_COLLAB_TURNS
  /\ turns' = [turns EXCEPT ![c] = @ \cup {t}]
  /\ seen' = seen \cup {<<c, t>>}
  /\ UNCHANGED <<pc, root, scope, active, usage, tools>>

RootUsage ==
  /\ pc = "running"
  /\ rootUsage' = TRUE
  /\ UNCHANGED <<pc, announcedThread, announcedTurn, scope, work, tools>>

ChildUsage(c, t) ==
  /\ InThread /\ t \in turns[c]
  /\ usage' = usage \cup {<<c, t>>}
  /\ UNCHANGED <<pc, root, scope, active, turns, seen, tools>>

\* Mutant of ChildCompleted: a turn may complete without its usage.
CompletedUncounted(c, t) ==
  /\ InThread /\ t \in turns[c]
  /\ turns' = [turns EXCEPT ![c] = @ \ {t}]
  /\ active' = active \ {c}
  /\ UNCHANGED <<pc, root, scope, seen, usage, tools>>

ChildCompleted(c, t) ==
  /\ InThread /\ t \in turns[c]
  /\ <<c, t>> \in usage
  /\ turns' = [turns EXCEPT ![c] = @ \ {t}]
  /\ active' = active \ {c}
  /\ UNCHANGED <<pc, root, scope, seen, usage, tools>>

\* The root's turn may only complete when no child work is outstanding.
RootCompleted ==
  /\ pc = "running"
  /\ pending = {} /\ items = {} /\ active = {}
  /\ \A c \in Children : turns[c] = {}
  /\ \A c \in collab : \E t \in Turns : <<c, t>> \in seen
  /\ pc' = "after"
  /\ UNCHANGED <<root, scope, work, tools>>

----------------------------------------------------------------------------
\* item/started and item/completed of the tool spawnAgent.

SpawnStarted(s, i) ==
  /\ Speaks(s)
  /\ Begun < MaxItems
  /\ <<s, i>> \notin terminal \cup pending
  /\ Cardinality(pending) < _MAX_COLLAB_THREADS
  /\ pending' = pending \cup {<<s, i>>}
  /\ UNCHANGED <<pc, root, scope, work, items, terminal, edges>>

\* What every end of a spawn does, whose guards are also common.
SpawnEnds(s, i) ==
  /\ Speaks(s)
  /\ <<s, i>> \in pending \ terminal
  /\ pending' = pending \ {<<s, i>>}
  /\ terminal' = terminal \cup {<<s, i>>}
  /\ UNCHANGED <<pc, root, validated, depth, turns, seen, usage, items>>

\* Mutant of Receivable: a new child takes the slot an unbound one waits for.
ReceivableAnyway(s, c) ==
  /\ c \notin failed
  /\ parent[c] \in {None, s}
  /\ c \in unbound \/ (c \notin collab /\ Cardinality(collab) < _MAX_COLLAB_THREADS)

\* The receiver of the item is the child that waits unbound for it, or a new
\* one for which a slot is left.
Receivable(s, c) ==
  /\ c \notin failed
  /\ parent[c] \in {None, s}
  /\ \/ c \in unbound
     \/ /\ c \notin collab
        /\ Cardinality(unbound) < Cardinality(pending)
        /\ Cardinality(collab) < _MAX_COLLAB_THREADS

\* state: what the item says of the child.  A completion that arrives after
\* the child's turn ended does not make the child active again.
SpawnCompleted(s, i, c, state) ==
  /\ SpawnEnds(s, i)
  /\ Receivable(s, c)
  /\ unbound' = unbound \ {c}
  /\ collab' = collab \cup {c}
  /\ parent' = [parent EXCEPT ![c] = s]
  /\ edges' = edges \cup {<<s, c>>}
  /\ active' =
       CASE state = "quiet" -> active \ {c}
         [] state = "busy" /\ ~(turns[c] = {} /\ \E t \in Turns : <<c, t>> \in seen)
              -> active \cup {c}
         [] OTHER -> active
  /\ UNCHANGED failed

Dropped(c) ==
  /\ failed' = failed \cup {c}
  /\ unbound' = unbound \ {c}
  /\ collab' = collab \ {c}
  /\ active' = active \ {c}
  /\ parent' = [parent EXCEPT ![c] = None]

\* The failure names its child, which must have shown no life.
SpawnFailed(s, i, c) ==
  /\ SpawnEnds(s, i)
  /\ Receivable(s, c)
  /\ c \notin validated \cup active /\ turns[c] = {}
  /\ Dropped(c)
  /\ UNCHANGED edges

\* The failure names none: a child that is waiting unbound is the one, if it
\* is the only one and this the only spawn.
SpawnFailedUnnamed(s, i) ==
  /\ SpawnEnds(s, i)
  /\ IF unbound = {}
       THEN UNCHANGED <<failed, unbound, collab, active, parent>>
       ELSE /\ Cardinality(unbound) = 1 /\ Cardinality(pending) = 1
            /\ \E c \in unbound : Dropped(c)
  /\ UNCHANGED edges

----------------------------------------------------------------------------
\* item/started and item/completed of sendInput and resumeAgent ("input"),
\* wait and closeAgent.

\* The receivers are known threads, never the sender if that is the root.
Addressable(s, receivers) ==
  /\ receivers \subseteq collab \cup {Root}
  /\ Root \in receivers => s # Root

\* The states an item may report: busy and quiet receivers.
Reported(busy, quiet) == (active \cup (busy \cap collab)) \ quiet

ItemStarted(s, i, tool, receivers, busy, quiet) ==
  /\ Speaks(s)
  /\ Begun < MaxItems
  /\ <<s, i>> \notin terminal
  /\ \A x \in items : <<x.sender, x.item>> # <<s, i>>
  /\ Addressable(s, receivers)
  /\ busy \cup quiet \subseteq receivers
  /\ active' = Reported(busy, quiet)
  /\ items' = items \cup {[sender |-> s, item |-> i, tool |-> tool,
                           receivers |-> receivers]}
  /\ UNCHANGED <<pc, root, scope, turns, seen, usage, pending, terminal, edges>>

\* closeAgent ends the receivers and all they spawned, transitively.
Closed(threads) ==
  {c \in Children :
     \A S \in SUBSET Threads :
       (threads \subseteq S /\ \A d \in Children : parent[d] \in S => d \in S) => c \in S}

ItemCompleted(x, receivers, busy, quiet, succeeded) ==
  /\ Speaks(x.sender)
  /\ <<x.sender, x.item>> \notin terminal
  /\ IF x.tool = "wait"
       THEN receivers \subseteq x.receivers /\ busy \cup quiet = receivers
       ELSE receivers = x.receivers /\ busy \cup quiet \subseteq receivers
  /\ Addressable(x.sender, receivers)
  /\ active' =
       CASE succeeded /\ x.tool = "input" ->
              Reported(busy, quiet) \cup (receivers \ (busy \cup quiet \cup {Root}))
         [] succeeded /\ x.tool = "close" ->
              Reported(busy, quiet) \ Closed(receivers)
         [] OTHER -> Reported(busy, quiet)
  /\ items' = items \ {x}
  /\ terminal' = terminal \cup {<<x.sender, x.item>>}
  /\ UNCHANGED <<pc, root, scope, turns, seen, usage, pending, edges>>

----------------------------------------------------------------------------
Spawning(s, i) ==
  \/ SpawnStarted(s, i)
  \/ \E c \in Children, state \in {"none", "busy", "quiet"} :
       SpawnCompleted(s, i, c, state)
  \/ \E c \in Children : SpawnFailed(s, i, c)
  \/ SpawnFailedUnnamed(s, i)

\* Reports of disjoint sets of receivers.
Reports(receivers) ==
  {r \in (SUBSET receivers) \X (SUBSET receivers) : r[1] \cap r[2] = {}}

Collaborating ==
  \/ \E s \in {t \in Threads : Speaks(t)}, i \in Items,
        receivers \in SUBSET (collab \cup {Root}) :
       \E tool \in {"input", "wait", "close"}, r \in Reports(receivers) :
         ItemStarted(s, i, tool, receivers, r[1], r[2])
  \/ \E x \in items : \E receivers \in SUBSET x.receivers, succeeded \in BOOLEAN :
       \E r \in Reports(receivers) : ItemCompleted(x, receivers, r[1], r[2], succeeded)

Next ==
  \/ Respond \/ Reject \/ RootUsage \/ RootCompleted
  \/ \E a \in {"same", "other"} : AnnounceRoot(a) \/ AnnounceTurn(a)
  \/ \E c \in Children : \E p \in Threads : AnnounceChild(c, p)
  \/ \E c \in Children, busy \in BOOLEAN : StatusChanged(c, busy)
  \/ \E c \in Children, t \in Turns :
       ChildTurn(c, t) \/ ChildUsage(c, t) \/ ChildCompleted(c, t)
  \/ \E s \in {t \in Threads : Speaks(t)}, i \in Items : Spawning(s, i)
  \/ Collaborating

Spec == Init /\ [][Next]_vars

----------------------------------------------------------------------------
TypeOK ==
  /\ pc \in Pcs
  /\ announcedThread \in Announcements /\ announcedTurn \in Announcements
  /\ rootUsage \in BOOLEAN
  /\ collab \cup unbound \cup validated \cup failed \cup active \subseteq Children
  /\ parent \in [Children -> Threads \cup {None}]
  /\ depth \in [Children -> 0.._MAX_COLLAB_THREADS]
  /\ turns \in [Children -> SUBSET Turns]
  /\ seen \subseteq Scopes /\ usage \subseteq Scopes
  /\ pending \subseteq Threads \X Items /\ terminal \subseteq Threads \X Items
  /\ items \subseteq [sender : Threads, item : Items,
                      tool : {"input", "wait", "close"}, receivers : SUBSET Threads]
  /\ edges \subseteq Threads \X Children

\* An outcome counts everything that ran on its account: the usage of the root
\* and of every child turn that was ever started, with no child at work, no
\* item open and no child in scope that never had a turn (run, turn/completed).
OutcomeIsComplete ==
  pc \in {"after", "done"} =>
    /\ pc = "done" => rootUsage
    /\ usage = seen
    /\ pending = {} /\ items = {} /\ active = {}
    /\ collab \subseteq {s[1] : s \in seen}

\* In whatever order announcements, statuses and the ends of spawns arrive, the
\* sets the handler keeps agree: children that appear before their spawn named
\* them never outnumber the spawns still open, a failed child is out of scope
\* and not active, an unbound or active child is in scope, turns belong to
\* announced children, a bound child has the parent its spawn gave it, and an
\* announced one is one deeper than its parent, also when that failed since
\* (_claim_collab_thread_scope, _validate_collab_item).
ScopesAgree ==
  /\ Cardinality(unbound) <= Cardinality(pending)
  /\ failed \cap collab = {}
  /\ unbound \cup active \subseteq collab
  /\ validated \subseteq collab \cup failed
  /\ \A c \in Children : turns[c] # {} => c \in validated
  /\ \A c \in collab \ unbound : <<parent[c], c>> \in edges
  /\ Cardinality(collab) <= _MAX_COLLAB_THREADS
  /\ \A c \in validated \cap collab :
       /\ parent[c] = Root \/ parent[c] \in validated
       /\ depth[c] = DepthUnder(parent[c])
=============================================================================
