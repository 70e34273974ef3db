---------------------------- MODULE TransportProofs ----------------------------
(***************************************************************************)
(* The two ways the runner talks to a program it started: one bounded call *)
(* of a subprocess (BoundedTransport), for any limit, and one session with *)
(* the Codex app server (CodexTurn), for any threads, turns and items.     *)
(***************************************************************************)
EXTENDS BoundedTransport, CodexTurn, FiniteSetTheorems, TLAPS

----------------------------------------------------------------------------
(* A bounded call.                                                         *)

\* Before the readers run, nothing was stopped; afterwards all of them run.
Starting ==
  /\ phase \in {"idle", "started"} /\ result = "none" =>
       \A s \in Streams : reader[s] = "none"
  /\ phase \in {"idle", "started", "polling"} /\ result = "none" => ~timedOut /\ ~asked
  /\ phase \notin {"idle", "started"} => \A s \in Streams : reader[s] # "none"
  /\ result # "none" => phase = "idle"

\* A reader that saw the end of its stream saw the last of the unit.
Ended == \A s \in Streams : reader[s] = "eof" => ~Peers /\ ~pipe[s]

\* Nothing is stopped, and no wait is given up, without a reason that the
\* outcome will name.
Reasoned ==
  result = "none" =>
    /\ asked \/ phase = "cut" => timedOut \/ Overflow
    /\ phase \in {"waiting", "waitingAgain"} /\ client # "exited" => timedOut \/ Overflow

TransportInv == TransportTypeOK /\ Starting /\ Ended /\ Reasoned /\ ResultIsWhole

LEMMA TransportStarts == ASSUME LimitAssumption, TransportInit PROVE TransportInv
<1>0. kept \in [Streams -> 0..limit]
  BY DEF LimitAssumption, TransportInit
<1>1. TransportTypeOK
  BY <1>0 DEF TransportInit, TransportTypeOK, Phases, Results
<1>2. \A s \in Streams : reader[s] = "none"
  BY DEF TransportInit
<1>. QED
  BY <1>1, <1>2 DEF TransportInit, TransportInv, Starting, Ended, Reasoned, ResultIsWhole

\* The threads of a call, its client and the unit.
LEMMA OthersKeepTransport ==
  ASSUME LimitAssumption, TransportInv,
         \/ InputTaken \/ Outside \/ \E s \in Streams : Reading(s)
  PROVE  TransportInv'
<1>. USE DEF TransportInv, TransportTypeOK, Starting, Ended, Reasoned, ResultIsWhole, Overflow,
             Peers, call, sandbox, threads, LimitAssumption
<1>1. CASE InputTaken
  BY <1>1 DEF InputTaken
<1>2. CASE UnitStarts
  BY <1>2 DEF UnitStarts
<1>3. CASE UnitEnds
  BY <1>3 DEF UnitEnds
<1>4. CASE ClientExits
  BY <1>4 DEF ClientExits
<1>5. ASSUME NEW s \in Streams, Output(s) PROVE TransportInv'
  BY <1>5 DEF Output, ReaderAlive
<1>6. ASSUME NEW s \in Streams, Chunk(s) PROVE TransportInv'
  BY <1>6 DEF Chunk
<1>7. ASSUME NEW s \in Streams, ReadOn(s) PROVE TransportInv'
  BY <1>7 DEF ReadOn
<1>8. ASSUME NEW s \in Streams, EndOfFile(s) PROVE TransportInv'
  BY <1>8 DEF EndOfFile
<1>. QED  BY <1>1, <1>2, <1>3, <1>4, <1>5, <1>6, <1>7, <1>8 DEF Outside, Reading

\* The steps of the caller up to the joins.
LEMMA CallerKeepsTransport ==
  ASSUME LimitAssumption, TransportInv, Caller
  PROVE  TransportInv'
<1>. USE DEF TransportInv, TransportTypeOK, Starting, Ended, Reasoned, ResultIsWhole, Overflow,
             Peers, call, sandbox, threads
<1>1. CASE Launch
  BY <1>1 DEF Launch, Return, Phases, Results
<1>2. CASE NotRegistered
  BY <1>2 DEF NotRegistered, StopProcess, Return, Phases, Results
<1>3. CASE Registered
  BY <1>3 DEF Registered, Phases
<1>4. CASE PollExited
  BY <1>4 DEF PollExited, Phases
<1>5. CASE PollCut
  BY <1>5 DEF PollCut, Phases
<1>6. CASE Cut
  BY <1>6 DEF Cut, StopProcess, Phases
<1>7. CASE Waited
  BY <1>7 DEF Waited, Phases
<1>8. CASE WaitAgain
  BY <1>8 DEF WaitAgain, StopProcess, Phases
<1>9. CASE GiveUp
  BY <1>9 DEF GiveUp, Phases
<1>10. CASE AllClosed
  BY <1>10 DEF AllClosed, Phases
<1>11. CASE Join
  BY <1>11 DEF Join, Phases
<1>12. CASE Judge
  <2>1. Outcome \in Results \ {"none"}
    BY DEF Outcome, Results
  <2>2. ASSUME Outcome = "ok"
        PROVE  /\ client = "exited" /\ ~Overflow /\ ~timedOut
               /\ \A s \in Streams : reader[s] \notin {"reading", "between", "error"}
    BY <2>2 DEF Outcome, ThreadAlive, ReaderAlive
  <2>3. result = "none" /\ phase = "judging" /\ \A s \in Streams : reader[s] # "none"
    BY <1>12 DEF Judge
  <2>4. Outcome = "ok" => ~asked /\ \A s \in Streams : reader[s] = "eof" /\ ~pipe[s]
    BY <2>2, <2>3
  <2>5. Outcome = "ok" => unit # "running"
    BY <2>2, <2>4 DEF Streams
  <2>6. /\ phase' = "idle" /\ result' = Outcome
        /\ UNCHANGED <<timedOut, client, pipe, reader, kept, writer, closed>>
        /\ asked' = (asked \/ Outcome = "overflow") /\ unit' \in {unit, "ended"}
        /\ Outcome # "overflow" => unit' = unit
        /\ unit = "none" => unit' = "none"
    BY <1>12 DEF Judge, Return
  <2>7. TransportTypeOK'
    BY <2>1, <2>6 DEF Phases
  <2>8. ResultIsWhole'
    BY <2>2, <2>4, <2>5, <2>6
  <2>9. Ended' /\ Starting' /\ Reasoned'
    BY <2>1, <2>3, <2>6
  <2>. QED  BY <2>7, <2>8, <2>9
<1>13. ASSUME NEW p \in Streams \cup {"stdin"}, ClosePipe(p) PROVE TransportInv'
  BY <1>13 DEF ClosePipe
<1>. QED
  BY <1>1, <1>2, <1>3, <1>4, <1>5, <1>6, <1>7, <1>8, <1>9, <1>10, <1>11, <1>12, <1>13 DEF Caller

LEMMA TransportKeeps ==
  ASSUME LimitAssumption, TransportInv, [TransportNext]_transportVars
  PROVE  TransportInv'
<1>1. CASE TransportNext
  BY <1>1, OthersKeepTransport, CallerKeepsTransport DEF TransportNext
<1>2. CASE UNCHANGED transportVars
  BY <1>2 DEF TransportInv, TransportTypeOK, Starting, Ended, Reasoned, ResultIsWhole, Overflow,
              Peers, transportVars, call, sandbox, threads
<1>. QED  BY <1>1, <1>2

LEMMA TransportInductive == TransportSpec => []TransportInv
<1>1. TransportInit => TransportInv  BY LimitAssumption, TransportStarts
<1>2. TransportInv /\ [TransportNext]_transportVars => TransportInv'
  BY LimitAssumption, TransportKeeps
<1>. QED  BY <1>1, <1>2, PTL DEF TransportSpec

\* The types of a call hold in every state it reaches, for any limit.
THEOREM TransportTypeCorrect == TransportSpec => []TransportTypeOK
<1>1. TransportInv => TransportTypeOK  BY DEF TransportInv
<1>. QED  BY <1>1, TransportInductive, PTL

\* Whatever races between the deadline, the limits, the readers, the exit of
\* the client and the end of its unit, a call that succeeds has the whole
\* output of a unit that is gone (execute_bounded_transport).
THEOREM ResultWhole == TransportSpec => []ResultIsWhole
<1>1. TransportInv => ResultIsWhole  BY DEF TransportInv
<1>. QED  BY <1>1, TransportInductive, PTL

----------------------------------------------------------------------------
(* A session with the app server.                                          *)

\* What the cardinalities of ScopesAgree count is finite.
Counted == IsFiniteSet(pending) /\ IsFiniteSet(unbound) /\ IsFiniteSet(collab)

\* A turn is open from when it was seen until it completes, which its usage
\* must precede.
TurnsAgree ==
  /\ usage \subseteq seen
  /\ \A c \in Children, t \in Turns :
       /\ t \in turns[c] => <<c, t>> \in seen
       /\ <<c, t>> \in seen \ usage => t \in turns[c]

TurnInv == TypeOK /\ Counted /\ TurnsAgree /\ OutcomeIsComplete /\ ScopesAgree

LEMMA TurnStarts == ASSUME TurnAssumption, Init PROVE TurnInv
<1>1. Cardinality({}) = 0 /\ IsFiniteSet({})  BY FS_EmptySet
<1>2. TypeOK
  <2>1. /\ parent \in [Children -> Threads \cup {None}]
        /\ depth \in [Children -> 0.._MAX_COLLAB_THREADS]
    BY DEF TurnAssumption, Init
  <2>2. turns \in [Children -> SUBSET Turns]
    BY DEF Init
  <2>. QED  BY <2>1, <2>2 DEF Init, TypeOK, Pcs, Handshake, Announcements
<1>3. Counted /\ TurnsAgree /\ OutcomeIsComplete
  BY <1>1 DEF Init, Counted, TurnsAgree, OutcomeIsComplete
<1>4. ScopesAgree
  BY <1>1 DEF TurnAssumption, Init, ScopesAgree
<1>. QED  BY <1>2, <1>3, <1>4 DEF TurnInv

LEMMA FollowingPc ==
  ASSUME NEW p, NEW q \in Following(p)
  PROVE  q \in Pcs \ {"after", "rejected"} /\ (q = "done" => p = "after")
  BY DEF Following, Calls, Pcs, Handshake

LEMMA RespondKeepsTurn == ASSUME TurnInv, Respond PROVE TurnInv'
<1>1. pc' \in Pcs \ {"after", "rejected"} /\ (pc' = "done" => pc = "after" /\ rootUsage)
  BY FollowingPc DEF Respond
<1>2. UNCHANGED <<root, scope, work, tools>>
  BY DEF Respond
<1>. QED
  BY <1>1, <1>2 DEF TurnInv, TypeOK, Counted, TurnsAgree, OutcomeIsComplete, ScopesAgree, DepthUnder,
                    root, scope, work, tools

LEMMA RootKeepsTurn ==
  ASSUME TurnInv,
         \/ Reject \/ RootUsage \/ RootCompleted
         \/ \E a \in {"same", "other"} : AnnounceRoot(a) \/ AnnounceTurn(a)
  PROVE  TurnInv'
<1>. USE DEF TurnInv, TypeOK, Counted, TurnsAgree, OutcomeIsComplete, ScopesAgree, DepthUnder,
             root, scope, work, tools
<1>1. CASE Reject
  BY <1>1 DEF Reject, Pcs
<1>2. CASE RootUsage
  BY <1>2 DEF RootUsage
<1>3. CASE RootCompleted
  <2>1. ASSUME NEW x \in seen PROVE x \in usage
    <3>1. PICK c \in Children, t \in Turns : x = <<c, t>>
      BY DEF Scopes
    <3>. QED  BY <1>3, <3>1 DEF RootCompleted
  <2>2. ASSUME NEW c \in collab PROVE c \in {x[1] : x \in seen}
    <3>1. PICK t \in Turns : <<c, t>> \in seen
      BY <1>3 DEF RootCompleted
    <3>. QED  BY <3>1
  <2>. QED  BY <1>3, <2>1, <2>2 DEF RootCompleted, Pcs
<1>4. ASSUME NEW a \in {"same", "other"}, AnnounceRoot(a) PROVE TurnInv'
  BY <1>4 DEF AnnounceRoot, Announcements
<1>5. ASSUME NEW a \in {"same", "other"}, AnnounceTurn(a) PROVE TurnInv'
  BY <1>5 DEF AnnounceTurn, Announcements
<1>. QED  BY <1>1, <1>2, <1>3, <1>4, <1>5

\* A child that takes a place among the unbound ones leaves them no more than
\* the open spawns.
LEMMA ClaimCounts ==
  ASSUME TurnAssumption, TurnInv, NEW c \in Children, Claim(c), UNCHANGED pending
  PROVE  /\ Counted'
         /\ Cardinality(unbound') <= Cardinality(pending)
         /\ Cardinality(collab') <= _MAX_COLLAB_THREADS
         /\ c \in collab' /\ c \notin failed
         /\ collab' \subseteq Children /\ unbound' \subseteq collab'
         /\ collab \subseteq collab' /\ collab' \ unbound' = collab \ unbound
         /\ collab' \subseteq collab \cup {c}
<1>1. CASE c \in collab
  <2>1. collab' = collab /\ unbound' = unbound
    BY <1>1 DEF Claim
  <2>. QED  BY <1>1, <2>1 DEF TurnInv, Counted, ScopesAgree, TypeOK, Claim, Claimable
<1>2. CASE c \notin collab
  <2>1. collab' = collab \cup {c} /\ unbound' = unbound \cup {c}
    BY <1>2 DEF Claim
  <2>2. c \notin unbound /\ unbound \subseteq collab
    BY <1>2 DEF TurnInv, ScopesAgree
  <2>3. /\ IsFiniteSet(collab') /\ Cardinality(collab') = Cardinality(collab) + 1
        /\ IsFiniteSet(unbound') /\ Cardinality(unbound') = Cardinality(unbound) + 1
    BY <1>2, <2>1, <2>2, FS_AddElement DEF TurnInv, Counted
  <2>4. /\ Cardinality(collab) \in Nat /\ Cardinality(unbound) \in Nat
        /\ Cardinality(pending) \in Nat
    BY FS_CardinalityType DEF TurnInv, Counted
  <2>5. /\ Cardinality(collab) < _MAX_COLLAB_THREADS
        /\ Cardinality(unbound) < Cardinality(pending) /\ c \notin failed
    BY <1>2 DEF Claim, Claimable
  <2>6. collab \subseteq Children /\ IsFiniteSet(pending) /\ _MAX_COLLAB_THREADS \in Nat
    BY DEF TurnInv, TypeOK, Counted, TurnAssumption
  <2>7. IsFiniteSet(pending')
    BY <2>6
  <2>8. /\ Cardinality(unbound') <= Cardinality(pending)
        /\ Cardinality(collab') <= _MAX_COLLAB_THREADS
    BY <2>3, <2>4, <2>5, <2>6
  <2>9. Counted'
    BY <2>3, <2>7 DEF Counted
  <2>. QED  BY <1>2, <2>1, <2>2, <2>5, <2>6, <2>8, <2>9
<1>. QED  BY <1>1, <1>2

\* A child shows up, or says how it is, before or after its spawn named it.
LEMMA ChildKeepsTurn ==
  ASSUME TurnAssumption, TurnInv, NEW c \in Children,
         \/ \E p \in Threads : AnnounceChild(c, p)
         \/ \E busy \in BOOLEAN : StatusChanged(c, busy)
  PROVE  TurnInv'
<1>1. ASSUME NEW p \in Threads, AnnounceChild(c, p) PROVE TurnInv'
  <2>. DEFINE claimed ==
         /\ Counted'
         /\ Cardinality(unbound') <= Cardinality(pending)
         /\ Cardinality(collab') <= _MAX_COLLAB_THREADS
         /\ c \in collab' /\ c \notin failed
         /\ collab' \subseteq Children /\ unbound' \subseteq collab'
         /\ collab \subseteq collab' /\ collab' \ unbound' = collab \ unbound
         /\ collab' \subseteq collab \cup {c}
  <2>1. UNCHANGED <<pc, announcedThread, announcedTurn, rootUsage, failed, active, turns, seen,
                    usage, pending, items, terminal, edges>>
    BY <1>1 DEF AnnounceChild, root, work, tools
  <2>2. claimed
    BY <1>1, <2>1, ClaimCounts DEF AnnounceChild
  <2>3. /\ validated' = validated \cup {c} /\ c \notin validated
        /\ parent' = [parent EXCEPT ![c] = p] /\ parent[c] \in {None, p}
        /\ depth' = [depth EXCEPT ![c] = DepthUnder(p)]
        /\ p = Root \/ p \in validated
        /\ DepthUnder(p) <= _MAX_COLLAB_THREADS
        /\ pc \in {"turn/start", "running"}
    BY <1>1 DEF AnnounceChild, InThread
  <2>4. DepthUnder(p) \in 0.._MAX_COLLAB_THREADS
    BY <2>3 DEF TurnInv, TypeOK, DepthUnder, TurnAssumption
  <2>5. /\ parent' \in [Children -> Threads \cup {None}]
        /\ depth' \in [Children -> 0.._MAX_COLLAB_THREADS]
    BY <2>3, <2>4 DEF TurnInv, TypeOK
  <2>6. TypeOK'
    BY <2>1, <2>2, <2>3, <2>5 DEF TurnInv, TypeOK
  <2>7. TurnsAgree' /\ OutcomeIsComplete'
    BY <2>1, <2>3 DEF TurnInv, TurnsAgree, OutcomeIsComplete
  <2>8. ASSUME NEW d \in collab' \ unbound' PROVE <<parent'[d], d>> \in edges'
    <3>1. <<parent[d], d>> \in edges /\ d \in Children
      BY <2>2 DEF TurnInv, ScopesAgree
    <3>2. parent[d] # None
      BY <3>1 DEF TurnInv, TypeOK, TurnAssumption, Threads
    <3>. QED  BY <2>1, <2>3, <3>1, <3>2 DEF TurnInv, TypeOK
  <2>9. ASSUME NEW d \in validated' \cap collab'
        PROVE  /\ parent'[d] = Root \/ parent'[d] \in validated'
               /\ depth'[d] = DepthUnder(parent[d])'
    <3>1. p # c /\ c # Root
      BY <2>3 DEF TurnAssumption
    <3>2. CASE d = c
      BY <2>3, <3>1, <3>2 DEF TurnInv, TypeOK, DepthUnder
    <3>3. CASE d # c
      <4>1. d \in validated \cap collab /\ d \in Children
        BY <2>2, <2>3, <3>3
      <4>2. /\ parent[d] = Root \/ parent[d] \in validated
            /\ depth[d] = DepthUnder(parent[d])
            /\ parent[d] # c
        BY <2>3, <3>1, <4>1 DEF TurnInv, ScopesAgree
      <4>3. parent'[d] = parent[d] /\ depth'[d] = depth[d]
        BY <2>3, <3>3, <4>1 DEF TurnInv, TypeOK
      <4>4. parent[d] # Root => depth'[parent[d]] = depth[parent[d]]
        BY <2>3, <4>2 DEF TurnInv, TypeOK
      <4>. QED  BY <2>3, <4>2, <4>3, <4>4 DEF DepthUnder
    <3>. QED  BY <3>2, <3>3
  <2>10. /\ failed' \cap collab' = {}
         /\ unbound' \cup active' \subseteq collab'
         /\ validated' \subseteq collab' \cup failed'
         /\ \A d \in Children : turns'[d] # {} => d \in validated'
    BY <2>1, <2>2, <2>3 DEF TurnInv, ScopesAgree
  <2>11. ScopesAgree'
    BY <2>1, <2>2, <2>8, <2>9, <2>10 DEF ScopesAgree
  <2>. QED  BY <2>2, <2>6, <2>7, <2>11 DEF TurnInv
<1>2. ASSUME NEW busy \in BOOLEAN, StatusChanged(c, busy) PROVE TurnInv'
  <2>1. UNCHANGED <<pc, announcedThread, announcedTurn, rootUsage, failed, validated, parent,
                    depth, turns, seen, usage, pending, items, terminal, edges>>
    BY <1>2 DEF StatusChanged, root, tools
  <2>2. /\ Counted'
        /\ Cardinality(unbound') <= Cardinality(pending)
        /\ Cardinality(collab') <= _MAX_COLLAB_THREADS
        /\ c \in collab' /\ c \notin failed
        /\ collab' \subseteq Children /\ unbound' \subseteq collab'
        /\ collab \subseteq collab' /\ collab' \ unbound' = collab \ unbound
        /\ collab' \subseteq collab \cup {c}
    BY <1>2, <2>1, ClaimCounts DEF StatusChanged
  <2>3. active' \subseteq active \cup {c} /\ pc \in {"turn/start", "running"}
    BY <1>2 DEF StatusChanged, InThread
  <2>4. TypeOK' /\ TurnsAgree' /\ OutcomeIsComplete'
    BY <2>1, <2>2, <2>3 DEF TurnInv, TypeOK, TurnsAgree, OutcomeIsComplete
  <2>5. ASSUME NEW d \in validated' \cap collab'
        PROVE  d \in validated \cap collab
    BY <2>1, <2>2 DEF TurnInv, ScopesAgree
  <2>6. ScopesAgree'
    BY <2>1, <2>2, <2>3, <2>5 DEF TurnInv, ScopesAgree, DepthUnder
  <2>. QED  BY <2>2, <2>4, <2>6 DEF TurnInv
<1>. QED  BY <1>1, <1>2

LEMMA ChildTurnsKeepTurn ==
  ASSUME TurnAssumption, TurnInv, NEW c \in Children, NEW t \in Turns,
         ChildTurn(c, t) \/ ChildUsage(c, t) \/ ChildCompleted(c, t)
  PROVE  TurnInv'
<1>1. /\ UNCHANGED <<pc, announcedThread, announcedTurn, rootUsage, collab, unbound, validated,
                     failed, parent, depth, pending, items, terminal, edges>>
      /\ pc \notin {"after", "done"}
      /\ seen \subseteq seen' /\ seen' \subseteq seen \cup {<<c, t>>}
      /\ usage \subseteq usage' /\ usage' \subseteq usage \cup {<<c, t>>}
      /\ active' \subseteq active
      /\ turns' \in [Children -> SUBSET Turns]
  BY DEF ChildTurn, ChildUsage, ChildCompleted, InThread, root, scope, tools, TurnInv, TypeOK
<1>2. TypeOK' /\ Counted' /\ OutcomeIsComplete'
  BY <1>1 DEF TurnInv, TypeOK, Counted, OutcomeIsComplete, Scopes
<1>3. TurnsAgree'
  <2>1. CASE ChildTurn(c, t)
    BY <2>1 DEF ChildTurn, TurnInv, TypeOK, TurnsAgree
  <2>2. CASE ChildUsage(c, t)
    BY <2>2 DEF ChildUsage, TurnInv, TypeOK, TurnsAgree
  <2>3. CASE ChildCompleted(c, t)
    BY <2>3 DEF ChildCompleted, TurnInv, TypeOK, TurnsAgree
  <2>. QED  BY <2>1, <2>2, <2>3
<1>4. ASSUME NEW d \in Children, turns'[d] # {} PROVE d \in validated
  BY <1>4 DEF ChildTurn, ChildUsage, ChildCompleted, TurnInv, TypeOK, ScopesAgree
<1>5. ScopesAgree'
  BY <1>1, <1>4 DEF TurnInv, ScopesAgree, DepthUnder
<1>. QED  BY <1>2, <1>3, <1>5 DEF TurnInv

LEMMA SpawnStartKeepsTurn ==
  ASSUME TurnAssumption, TurnInv, NEW s \in Threads, NEW i \in Items, SpawnStarted(s, i)
  PROVE  TurnInv'
<1>1. /\ UNCHANGED <<pc, announcedThread, announcedTurn, rootUsage, collab, unbound, validated,
                     failed, parent, depth, active, turns, seen, usage, items, terminal, edges>>
      /\ pc \notin {"after", "done"}
      /\ pending' = pending \cup {<<s, i>>} /\ <<s, i>> \notin pending
  BY DEF SpawnStarted, Speaks, InThread, root, scope, work
<1>2. /\ IsFiniteSet(pending') /\ Cardinality(pending') = Cardinality(pending) + 1
      /\ Cardinality(pending) \in Nat /\ Cardinality(unbound) \in Nat
  BY <1>1, FS_AddElement, FS_CardinalityType DEF TurnInv, Counted
<1>3. TypeOK' /\ TurnsAgree' /\ OutcomeIsComplete'
  BY <1>1 DEF TurnInv, TypeOK, TurnsAgree, OutcomeIsComplete
<1>4. Counted'
  <2>. IsFiniteSet(collab') /\ IsFiniteSet(unbound')
    BY <1>1 DEF TurnInv, Counted
  <2>. QED  BY <1>2 DEF Counted
<1>5. Cardinality(unbound') <= Cardinality(pending')
  <2>1. unbound' = unbound /\ Cardinality(unbound) <= Cardinality(pending)
    BY <1>1 DEF TurnInv, ScopesAgree
  <2>. QED  BY <1>2, <2>1
<1>6. ScopesAgree'
  BY <1>1, <1>5 DEF TurnInv, ScopesAgree, DepthUnder
<1>. QED  BY <1>3, <1>4, <1>6 DEF TurnInv

\* What every end of a spawn leaves behind.
LEMMA SpawnEndCounts ==
  ASSUME TurnAssumption, TurnInv, NEW s \in Threads, NEW i \in Items, SpawnEnds(s, i)
  PROVE  /\ UNCHANGED <<pc, announcedThread, announcedTurn, rootUsage, validated, depth, turns,
                        seen, usage, items>>
         /\ pc \notin {"after", "done"}
         /\ pending' \subseteq Threads \X Items /\ terminal' \subseteq Threads \X Items
         /\ IsFiniteSet(pending') /\ Cardinality(pending') = Cardinality(pending) - 1
         /\ IsFiniteSet(pending) /\ Cardinality(pending) \in Nat \ {0}
<1>1. /\ UNCHANGED <<pc, announcedThread, announcedTurn, rootUsage, validated, depth, turns,
                     seen, usage, items>>
      /\ pc \notin {"after", "done"}
      /\ pending' = pending \ {<<s, i>>} /\ <<s, i>> \in pending
      /\ terminal' = terminal \cup {<<s, i>>}
  BY DEF SpawnEnds, Speaks, InThread, root
<1>2. IsFiniteSet(pending)
  BY DEF TurnInv, Counted
<1>3. IsFiniteSet(pending') /\ Cardinality(pending') = Cardinality(pending) - 1
  BY <1>1, <1>2, FS_RemoveElement
<1>4. Cardinality(pending) \in Nat /\ Cardinality(pending) # 0
  BY <1>1, <1>2, FS_CardinalityType, FS_EmptySet
<1>. QED  BY <1>1, <1>2, <1>3, <1>4 DEF TurnInv, TypeOK

\* The part of the invariant that the end of a spawn cannot disturb, whatever
\* it does to the scopes.
LEMMA SpawnEndShapes ==
  ASSUME TurnAssumption, TurnInv, NEW s \in Threads, NEW i \in Items, SpawnEnds(s, i)
  PROVE  TurnsAgree' /\ OutcomeIsComplete'
  BY SpawnEndCounts DEF TurnInv, TurnsAgree, OutcomeIsComplete

LEMMA SpawnCompleteKeepsTurn ==
  ASSUME TurnAssumption, TurnInv, NEW s \in Threads, NEW i \in Items, NEW c \in Children,
         NEW state, SpawnCompleted(s, i, c, state)
  PROVE  TurnInv'
<1>1. /\ SpawnEnds(s, i) /\ Receivable(s, c) /\ failed' = failed
      /\ unbound' = unbound \ {c} /\ collab' = collab \cup {c}
      /\ parent' = [parent EXCEPT ![c] = s]
      /\ edges' = edges \cup {<<s, c>>}
  BY DEF SpawnCompleted
<1>2. active' \subseteq active \cup {c}
  BY DEF SpawnCompleted
<1>3. /\ UNCHANGED <<pc, announcedThread, announcedTurn, rootUsage, validated, depth, turns,
                     seen, usage, items>>
      /\ pc \notin {"after", "done"}
      /\ pending' \subseteq Threads \X Items /\ terminal' \subseteq Threads \X Items
      /\ IsFiniteSet(pending') /\ Cardinality(pending') = Cardinality(pending) - 1
      /\ IsFiniteSet(pending) /\ Cardinality(pending) \in Nat \ {0}
  BY <1>1, SpawnEndCounts
<1>4. TypeOK'
  BY <1>1, <1>2, <1>3 DEF TurnInv, TypeOK
<1>5. /\ IsFiniteSet(collab) /\ Cardinality(collab) \in Nat
      /\ IsFiniteSet(unbound) /\ Cardinality(unbound) \in Nat
      /\ Cardinality(unbound) <= Cardinality(pending) /\ unbound \subseteq collab
      /\ Cardinality(collab) <= _MAX_COLLAB_THREADS /\ _MAX_COLLAB_THREADS \in Nat
  BY FS_CardinalityType DEF TurnInv, Counted, ScopesAgree, TurnAssumption
<1>6. /\ IsFiniteSet(collab') /\ IsFiniteSet(unbound')
      /\ Cardinality(unbound') <= Cardinality(pending')
      /\ Cardinality(collab') <= _MAX_COLLAB_THREADS
  <2>1. CASE c \in unbound
    <3>1. collab' = collab
      BY <1>1, <1>5, <2>1
    <3>2. IsFiniteSet(unbound') /\ Cardinality(unbound') = Cardinality(unbound) - 1
      BY <1>1, <1>5, <2>1, FS_RemoveElement
    <3>. QED  BY <1>3, <1>5, <3>1, <3>2
  <2>2. CASE c \notin unbound
    <3>1. unbound' = unbound
      BY <1>1, <2>2
    <3>2. /\ c \notin collab /\ Cardinality(unbound) < Cardinality(pending)
          /\ Cardinality(collab) < _MAX_COLLAB_THREADS
      BY <1>1, <2>2 DEF Receivable
    <3>3. IsFiniteSet(collab') /\ Cardinality(collab') = Cardinality(collab) + 1
      BY <1>1, <1>5, <3>2, FS_AddElement
    <3>. QED  BY <1>3, <1>5, <3>1, <3>2, <3>3
  <2>. QED  BY <2>1, <2>2
<1>7. c \notin failed /\ parent[c] \in {None, s}
  BY <1>1 DEF Receivable
<1>8. ASSUME NEW d \in collab' \ unbound' PROVE <<parent'[d], d>> \in edges'
  BY <1>1 DEF TurnInv, TypeOK, ScopesAgree
<1>9. ASSUME NEW d \in validated \cap collab'
      PROVE  parent'[d] = parent[d] /\ d \in collab
  <2>1. d \in collab /\ d \in Children
    BY <1>1, <1>7 DEF TurnInv, ScopesAgree, TypeOK
  <2>2. parent[d] = Root \/ parent[d] \in validated
    BY <1>9, <2>1 DEF TurnInv, ScopesAgree
  <2>3. parent[d] # None
    BY <2>2 DEF TurnInv, TypeOK, TurnAssumption
  <2>. QED  BY <1>1, <1>7, <2>1, <2>3 DEF TurnInv, TypeOK
<1>10. ScopesAgree'
  <2>1. /\ failed' \cap collab' = {}
        /\ unbound' \cup active' \subseteq collab'
        /\ validated' \subseteq collab' \cup failed'
        /\ \A d \in Children : turns'[d] # {} => d \in validated'
    BY <1>1, <1>2, <1>3, <1>7 DEF TurnInv, ScopesAgree
  <2>2. \A d \in validated' \cap collab' :
          /\ parent'[d] = Root \/ parent'[d] \in validated'
          /\ depth'[d] = DepthUnder(parent[d])'
    BY <1>3, <1>9 DEF TurnInv, ScopesAgree, DepthUnder
  <2>. QED  BY <1>6, <1>8, <2>1, <2>2 DEF ScopesAgree
<1>11. Counted'
  BY <1>3, <1>6 DEF Counted
<1>. QED  BY <1>1, <1>4, <1>10, <1>11, SpawnEndShapes DEF TurnInv

\* A child that is dropped when spawn i ends.
LEMMA DropKeepsTurn ==
  ASSUME TurnAssumption, TurnInv, NEW s \in Threads, NEW i \in Items, NEW c \in Children,
         SpawnEnds(s, i), UNCHANGED edges, Dropped(c),
         c \notin unbound => Cardinality(unbound) < Cardinality(pending)
  PROVE  TurnInv'
<1>1. /\ failed' = failed \cup {c} /\ unbound' = unbound \ {c} /\ collab' = collab \ {c}
      /\ active' = active \ {c} /\ parent' = [parent EXCEPT ![c] = None]
  BY DEF Dropped
<1>2. /\ UNCHANGED <<pc, announcedThread, announcedTurn, rootUsage, validated, depth, turns,
                     seen, usage, items>>
      /\ pc \notin {"after", "done"}
      /\ pending' \subseteq Threads \X Items /\ terminal' \subseteq Threads \X Items
      /\ IsFiniteSet(pending') /\ Cardinality(pending') = Cardinality(pending) - 1
      /\ IsFiniteSet(pending) /\ Cardinality(pending) \in Nat \ {0}
  BY SpawnEndCounts
<1>3. TypeOK'
  BY <1>1, <1>2 DEF TurnInv, TypeOK
<1>4. /\ IsFiniteSet(collab) /\ Cardinality(collab) \in Nat
      /\ IsFiniteSet(unbound) /\ Cardinality(unbound) \in Nat
      /\ Cardinality(unbound) <= Cardinality(pending)
      /\ Cardinality(collab) <= _MAX_COLLAB_THREADS /\ _MAX_COLLAB_THREADS \in Nat
  BY FS_CardinalityType DEF TurnInv, Counted, ScopesAgree, TurnAssumption
<1>5. IsFiniteSet(collab') /\ Cardinality(collab') <= Cardinality(collab)
  BY <1>1, <1>4, FS_Subset
<1>6. IsFiniteSet(unbound') /\ Cardinality(unbound') <= Cardinality(pending')
  <2>1. CASE c \in unbound
    <3>1. IsFiniteSet(unbound') /\ Cardinality(unbound') = Cardinality(unbound) - 1
      BY <1>1, <1>4, <2>1, FS_RemoveElement
    <3>. QED  BY <1>2, <1>4, <3>1
  <2>2. CASE c \notin unbound
    <3>1. unbound' = unbound
      BY <1>1, <2>2
    <3>. QED  BY <1>2, <1>4, <2>2, <3>1
  <2>. QED  BY <2>1, <2>2
<1>7. Cardinality(collab') <= _MAX_COLLAB_THREADS
  <2>1. Cardinality(collab') \in Nat
    BY <1>5, FS_CardinalityType
  <2>. QED  BY <1>4, <1>5, <2>1
<1>8. ASSUME NEW d \in collab'
      PROVE  d \in collab /\ d \in Children /\ parent'[d] = parent[d]
  BY <1>1 DEF TurnInv, TypeOK
<1>9. \A d \in collab' \ unbound' : <<parent'[d], d>> \in edges'
  BY <1>1, <1>8 DEF TurnInv, ScopesAgree
<1>10. \A d \in validated' \cap collab' :
         /\ parent'[d] = Root \/ parent'[d] \in validated'
         /\ depth'[d] = DepthUnder(parent[d])'
  BY <1>2, <1>8 DEF TurnInv, ScopesAgree, DepthUnder
<1>11. /\ failed' \cap collab' = {}
       /\ unbound' \cup active' \subseteq collab'
       /\ validated' \subseteq collab' \cup failed'
       /\ \A d \in Children : turns'[d] # {} => d \in validated'
  BY <1>1, <1>2 DEF TurnInv, ScopesAgree
<1>12. ScopesAgree' /\ Counted'
  BY <1>2, <1>5, <1>6, <1>7, <1>9, <1>10, <1>11 DEF ScopesAgree, Counted
<1>. QED  BY <1>3, <1>12, SpawnEndShapes DEF TurnInv

LEMMA SpawnFailKeepsTurn ==
  ASSUME TurnAssumption, TurnInv, NEW s \in Threads, NEW i \in Items,
         (\E c \in Children : SpawnFailed(s, i, c)) \/ SpawnFailedUnnamed(s, i)
  PROVE  TurnInv'
<1>1. ASSUME NEW c \in Children, SpawnFailed(s, i, c) PROVE TurnInv'
  <2>1. /\ SpawnEnds(s, i) /\ Dropped(c) /\ UNCHANGED edges
        /\ c \in unbound \/ Cardinality(unbound) < Cardinality(pending)
    BY <1>1 DEF SpawnFailed, Receivable
  <2>. QED  BY <2>1, DropKeepsTurn
<1>2. CASE SpawnFailedUnnamed(s, i)
  <2>1. SpawnEnds(s, i) /\ UNCHANGED edges
    BY <1>2 DEF SpawnFailedUnnamed
  <2>2. CASE unbound = {}
    <3>1. UNCHANGED <<failed, unbound, collab, active, parent>>
      BY <1>2, <2>2 DEF SpawnFailedUnnamed
    <3>2. /\ UNCHANGED <<pc, announcedThread, announcedTurn, rootUsage, validated, depth, turns,
                         seen, usage, items>>
          /\ pending' \subseteq Threads \X Items /\ terminal' \subseteq Threads \X Items
          /\ IsFiniteSet(pending') /\ Cardinality(pending') = Cardinality(pending) - 1
          /\ Cardinality(pending) \in Nat \ {0}
      BY <2>1, SpawnEndCounts
    <3>3. Cardinality(unbound') <= Cardinality(pending')
      <4>1. unbound' = {} /\ Cardinality({}) = 0
        BY <2>2, <3>1, FS_EmptySet
      <4>. QED  BY <3>2, <4>1
    <3>4. TypeOK' /\ Counted'
      BY <2>1, <3>1, <3>2 DEF TurnInv, TypeOK, Counted
    <3>5. ScopesAgree'
      BY <2>1, <3>1, <3>2, <3>3 DEF TurnInv, ScopesAgree, DepthUnder
    <3>. QED  BY <2>1, <3>4, <3>5, SpawnEndShapes DEF TurnInv
  <2>3. CASE unbound # {}
    <3>1. PICK c \in unbound : Dropped(c)
      BY <1>2, <2>3 DEF SpawnFailedUnnamed
    <3>2. c \in Children
      BY DEF TurnInv, TypeOK
    <3>. QED  BY <2>1, <3>1, <3>2, DropKeepsTurn
  <2>. QED  BY <2>2, <2>3
<1>. QED  BY <1>1, <1>2

LEMMA CollaborationKeepsTurn == ASSUME TurnAssumption, TurnInv, Collaborating PROVE TurnInv'
<1>1. ASSUME UNCHANGED <<pc, announcedThread, announcedTurn, rootUsage, collab, unbound, validated,
                         failed, parent, depth, turns, seen, usage, pending, edges>>,
             pc \notin {"after", "done"}, active' \subseteq collab,
             items' \subseteq [sender : Threads, item : Items,
                               tool : {"input", "wait", "close"}, receivers : SUBSET Threads],
             terminal' \subseteq Threads \X Items
      PROVE  TurnInv'
  BY <1>1 DEF TurnInv, TypeOK, Counted, TurnsAgree, OutcomeIsComplete, ScopesAgree, DepthUnder
<1>2. collab \subseteq Children /\ active \subseteq collab
  BY DEF TurnInv, TypeOK, ScopesAgree
<1>3. ASSUME NEW busy, NEW quiet PROVE Reported(busy, quiet) \subseteq collab
  BY <1>2 DEF Reported
<1>4. ASSUME NEW s \in Threads, NEW i \in Items, NEW receivers \in SUBSET (collab \cup {Root}),
             NEW tool \in {"input", "wait", "close"}, NEW busy, NEW quiet,
             ItemStarted(s, i, tool, receivers, busy, quiet)
      PROVE  TurnInv'
  <2>1. /\ UNCHANGED <<pc, announcedThread, announcedTurn, rootUsage, collab, unbound, validated,
                       failed, parent, depth, turns, seen, usage, pending, terminal, edges>>
        /\ pc \notin {"after", "done"}
        /\ active' = Reported(busy, quiet)
        /\ items' = items \cup {[sender |-> s, item |-> i, tool |-> tool,
                                 receivers |-> receivers]}
    BY <1>4 DEF ItemStarted, Speaks, InThread, root, scope
  <2>2. receivers \subseteq Threads
    BY <1>2 DEF Threads
  <2>3. items' \subseteq [sender : Threads, item : Items,
                          tool : {"input", "wait", "close"}, receivers : SUBSET Threads]
    BY <2>1, <2>2 DEF TurnInv, TypeOK
  <2>4. terminal' \subseteq Threads \X Items
    BY <2>1 DEF TurnInv, TypeOK
  <2>. QED  BY <1>1, <1>3, <2>1, <2>3, <2>4
<1>5. ASSUME NEW x \in items, NEW receivers, NEW busy, NEW quiet, NEW succeeded \in BOOLEAN,
             ItemCompleted(x, receivers, busy, quiet, succeeded)
      PROVE  TurnInv'
  <2>1. /\ UNCHANGED <<pc, announcedThread, announcedTurn, rootUsage, collab, unbound, validated,
                       failed, parent, depth, turns, seen, usage, pending, edges>>
        /\ pc \notin {"after", "done"}
        /\ items' = items \ {x}
        /\ terminal' = terminal \cup {<<x.sender, x.item>>}
        /\ receivers \subseteq collab \cup {Root}
    BY <1>5 DEF ItemCompleted, Addressable, Speaks, InThread, root, scope
  <2>2. active' \subseteq Reported(busy, quiet) \cup (receivers \ (busy \cup quiet \cup {Root}))
    BY <1>5 DEF ItemCompleted
  <2>3. active' \subseteq collab
    BY <1>3, <2>1, <2>2
  <2>4. x.sender \in Threads /\ x.item \in Items
    BY DEF TurnInv, TypeOK
  <2>5. /\ items' \subseteq [sender : Threads, item : Items,
                             tool : {"input", "wait", "close"}, receivers : SUBSET Threads]
        /\ terminal' \subseteq Threads \X Items
    BY <2>1, <2>4 DEF TurnInv, TypeOK
  <2>. QED  BY <1>1, <2>1, <2>3, <2>5
<1>. QED  BY <1>4, <1>5 DEF Collaborating

LEMMA TurnKeeps == ASSUME TurnAssumption, TurnInv, [Next]_vars PROVE TurnInv'
<1>1. CASE Collaborating
  BY <1>1, CollaborationKeepsTurn
<1>2. ASSUME NEW s \in Threads, NEW i \in Items, Spawning(s, i) PROVE TurnInv'
  BY <1>2, SpawnStartKeepsTurn, SpawnCompleteKeepsTurn, SpawnFailKeepsTurn DEF Spawning
<1>3. CASE UNCHANGED vars
  BY <1>3 DEF TurnInv, TypeOK, Counted, TurnsAgree, OutcomeIsComplete, ScopesAgree, DepthUnder,
              vars, root, scope, work, tools
<1>. QED
  BY <1>1, <1>2, <1>3, RespondKeepsTurn, RootKeepsTurn, ChildKeepsTurn, ChildTurnsKeepTurn
  DEF Next

LEMMA TurnInductive == Spec => []TurnInv
<1>1. Init => TurnInv  BY TurnAssumption, TurnStarts
<1>2. TurnInv /\ [Next]_vars => TurnInv'  BY TurnAssumption, TurnKeeps
<1>. QED  BY <1>1, <1>2, PTL DEF Spec

\* The types of a session hold in every state it reaches, for any threads,
\* turns, items and limits; the depth of a child stays within its limit.
THEOREM TurnTypeCorrect == Spec => []TypeOK
<1>1. TurnInv => TypeOK  BY DEF TurnInv
<1>. QED  BY <1>1, TurnInductive, PTL

\* In whatever order the messages of any number of children arrive, the sets
\* by which the client scopes them agree, and a spawn that is still open stands
\* behind every child that no spawn named (_claim_collab_thread_scope).
THEOREM ScopesAlwaysAgree == Spec => []ScopesAgree
<1>1. TurnInv => ScopesAgree  BY DEF TurnInv
<1>. QED  BY <1>1, TurnInductive, PTL

\* An outcome counts every turn that ran on the account, and none is returned
\* while a child works or an item is open (run, turn/completed).
THEOREM OutcomeComplete == Spec => []OutcomeIsComplete
<1>1. TurnInv => OutcomeIsComplete  BY DEF TurnInv
<1>. QED  BY <1>1, TurnInductive, PTL
=============================================================================
