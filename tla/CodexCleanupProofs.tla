-------------------------- MODULE CodexCleanupProofs --------------------------
(***************************************************************************)
(* That no Codex sandbox is ever lost track of and that the mountpoint is  *)
(* never laid out under one, for any number of evaluators, launches,       *)
(* faults and logins.  What makes it inductive is what an evaluator that   *)
(* recovers has excluded so far, and that nothing can bring it back.       *)
(***************************************************************************)
EXTENDS CodexCleanup, TLAPS

\* The controller has chosen a launch, and not given it up.
Named == {"linked", "session"} \cup Constructing \cup Closing

\* The flock: one controller at most is at work.
Exclusive == \A c \in Controllers : (pc[c] # "idle") <=> (lock = c)

\* It works on a launch of its own.
AtNamed ==
  \A c \in Controllers :
    IF pc[c] \in Named THEN at[c] \in Launches /\ launcher[at[c]] # "unused"
                       ELSE at[c] = NoLaunch /\ ~reaped[c]

\* A launch goes through its stages in order, and the gate opens for a launcher
\* that reads it; as long as it is open somebody can still close it.
InOrder ==
  \A l \in Launches :
    /\ launcher[l] \in {"unused", "named"} => gate[l] = "none"
    /\ launcher[l] \in {"unused", "named", "forked", "gated", "client"} => unit[l] = "absent"
    /\ gate[l] = "go" => launcher[l] \in {"gated", "client", "waiting", "gone"}
    /\ gate[l] = "open" => \E c \in Controllers :
         at[c] = l /\ pc[c] \in {"popen", "identify", "release", "stop"}

\* What is true of its launch while it constructs the transport.
Starting ==
  \A c \in Controllers :
    /\ pc[c] \in {"linked", "bind", "spawn"} => launcher[at[c]] = "named"
    /\ pc[c] \in {"popen", "identify", "release"} => gate[at[c]] = "open"
    /\ pc[c] \in {"identify", "release"} =>
         launcher[at[c]] \notin {"unused", "named", "forked"}

\* What the record says while it is at work.
OnRecord ==
  \A c \in Controllers :
    /\ pc[c] \in {"prepare", "arm"} => marker = NoMarker
    /\ pc[c] \in Named => marker # NoMarker /\ marker.unit = at[c]
    /\ pc[c] \in Recovering \ {"read"} => marker # NoMarker
    /\ pc[c] \in (Constructing \ {"bind"}) \cup {"session"} => marker.gate
    /\ pc[c] \in {"release", "confirm", "identifyUnit", "session"} => marker.pid

\* A sandbox that runs or may still start is on record, gate and launcher too.
Danger ==
  \A l \in Launches :
    Dangerous(l) => /\ marker # NoMarker /\ marker.unit = l
                    /\ marker.gate /\ marker.pid

\* What the observations so far have excluded for good.
Excluded ==
  \A c \in Controllers :
    /\ pc[c] \in {"scanCommand", "probe", "probeAgain", "pid", "clear"} =>
         ~(launcher[marker.unit] = "gated" /\ gate[marker.unit] = "go")
    /\ pc[c] \in {"probe", "probeAgain", "pid", "clear"} =>
         launcher[marker.unit] \notin {"client", "waiting"}
    /\ pc[c] \in {"probeAgain", "pid", "clear"} => ~Live(marker.unit)
    /\ reaped[c] => launcher[at[c]] = "gone"
    /\ pc[c] = "disarm" => reaped[c] /\ ~Live(at[c])

IInv ==
  /\ TypeOK /\ Exclusive /\ AtNamed /\ InOrder /\ Starting /\ OnRecord
  /\ Danger /\ Excluded
----------------------------------------------------------------------------
(* What a write makes of the record, and what moving on makes of the       *)
(* variables of the controllers.                                           *)

\* A record stays that of the launch it was armed for and keeps what it says
\* already, or it is removed.
LEMMA WrittenKeeps ==
  ASSUME TypeOK, marker # NoMarker, NEW c \in Controllers
  PROVE  /\ Written(c) \in Markers \cup {NoMarker}
         /\ Written(c) = NoMarker => pc[c] \in {"clear", "disarm"}
         /\ Written(c) # NoMarker =>
              /\ Written(c).unit = marker.unit
              /\ marker.gate => Written(c).gate
              /\ marker.pid => Written(c).pid
              /\ pc[c] = "bind" => Written(c).gate
              /\ pc[c] = "identify" => Written(c).pid
<1>1. marker \in Markers  BY DEF TypeOK
<1>2. /\ [marker EXCEPT !.links = 1] \in Markers
      /\ [marker EXCEPT !.gate = TRUE] \in Markers
      /\ [marker EXCEPT !.pid = TRUE] \in Markers
      /\ [marker EXCEPT !.group = TRUE] \in Markers
  <2>1. [marker EXCEPT !.links = 1] \in Markers  BY <1>1 DEF Markers
  <2>2. [marker EXCEPT !.gate = TRUE] \in Markers  BY <1>1 DEF Markers
  <2>3. [marker EXCEPT !.pid = TRUE] \in Markers  BY <1>1 DEF Markers
  <2>4. [marker EXCEPT !.group = TRUE] \in Markers  BY <1>1 DEF Markers
  <2>. QED  BY <2>1, <2>2, <2>3, <2>4
<1>3. NoMarker \notin Markers  BY MarkerAssumption
<1>4. CASE pc[c] = "linked"
  <2>1. Written(c) = [marker EXCEPT !.links = 1]  BY <1>4 DEF Written
  <2>. QED  BY <1>1, <1>2, <1>3, <1>4, <2>1 DEF Markers
<1>5. CASE pc[c] = "bind"
  <2>1. Written(c) = [marker EXCEPT !.gate = TRUE]  BY <1>5 DEF Written
  <2>. QED  BY <1>1, <1>2, <1>3, <1>5, <2>1 DEF Markers
<1>6. CASE pc[c] = "identify"
  <2>1. Written(c) = [marker EXCEPT !.pid = TRUE]  BY <1>6 DEF Written
  <2>. QED  BY <1>1, <1>2, <1>3, <1>6, <2>1 DEF Markers
<1>7. CASE pc[c] = "identifyUnit"
  <2>1. Written(c) = [marker EXCEPT !.group = TRUE]  BY <1>7 DEF Written
  <2>. QED  BY <1>1, <1>2, <1>3, <1>7, <2>1 DEF Markers
<1>8. CASE pc[c] \in {"clear", "disarm"}
  <2>1. Written(c) \in {NoMarker, marker}  BY <1>8 DEF Written
  <2>. QED  BY <1>1, <1>3, <1>8, <2>1
<1>9. CASE pc[c] \notin {"linked", "bind", "identify", "identifyUnit", "clear", "disarm"}
  <2>1. Written(c) = marker  BY <1>9 DEF Written
  <2>. QED  BY <1>1, <1>3, <1>9, <2>1
<1>. QED  BY <1>4, <1>5, <1>6, <1>7, <1>8, <1>9

\* Completing an interrupted publication changes nothing else of the record.
LEMMA HealedKeeps ==
  ASSUME TypeOK, marker # NoMarker, marker' = [marker EXCEPT !.links = 1]
  PROVE  /\ marker' \in Markers /\ marker' # NoMarker
         /\ marker'.unit = marker.unit
         /\ marker'.gate = marker.gate /\ marker'.pid = marker.pid
<1>1. marker \in Markers  BY DEF TypeOK
<1>2. marker' \in Markers  BY <1>1 DEF Markers
<1>. QED  BY <1>1, <1>2, MarkerAssumption DEF Markers

\* The types of what belongs to the controllers.
ControlOK ==
  /\ pc \in [Controllers -> Pcs]
  /\ lock \in Controllers \cup {NoController}
  /\ cred \in [Controllers -> Nat]
  /\ at \in [Controllers -> Launches \cup {NoLaunch}]
  /\ built \in [Controllers -> BOOLEAN]
  /\ reaped \in [Controllers -> BOOLEAN]

LEMMA StepTypes ==
  ASSUME ControlOK, NEW c \in Controllers, NEW from \in Pcs, NEW to \in Pcs,
         Step(c, from, to)
  PROVE  ControlOK'
BY DEF ControlOK, Step, Goto

LEMMA LeaveTypes ==
  ASSUME ControlOK, NEW c \in Controllers, Leave(c)
  PROVE  ControlOK'
BY DEF ControlOK, Leave, Goto, Pcs

----------------------------------------------------------------------------
(* Every step keeps the invariant.  IInv is a conjunction of named parts,  *)
(* and each lemma shows them one by one; a part that several actions of a  *)
(* group disturb is shown action by action.                                *)

\* Taking the lock and excluding, observation by observation, what a dead
\* evaluator left.
LEMMA RecoverStep ==
  ASSUME IInv, NEW c \in Controllers, Recover(c)
  PROVE  IInv'
<1>1. TypeOK'
  <2>1. CASE Lock(c)
    BY <2>1, CleanupAssumption, MarkerAssumption DEF IInv, TypeOK, Lock, Goto,
       world, Stay, Pcs, Recovering, Constructing, Closing
  <2>2. CASE Read(c)
    <3>1. ControlOK'
      BY <2>2, StepTypes, LeaveTypes DEF IInv, TypeOK, ControlOK, Read, Stay, Fault, Pcs,
         Recovering, Closing, Goto, local
    <3>2. marker' \in Markers \cup {NoMarker}
      BY <2>2, WrittenKeeps DEF IInv, TypeOK, Markers, Read, world
    <3>3. /\ launcher' \in [Launches -> {"unused", "named", "forked", "gated",
                                         "client", "waiting", "gone"}]
          /\ gate' \in [Launches -> {"none", "open", "go", "closed"}]
          /\ unit' \in [Launches -> {"absent", "starting", "active", "ended"}]
          /\ auth' \in Nat /\ faults' \in Nat
      BY <2>2, CleanupAssumption DEF IInv, TypeOK, Read, Step, Stay, Fault, world, Stopped
    <3>. QED  BY <3>1, <3>2, <3>3 DEF ControlOK, TypeOK
  <2>3. CASE ScanGate(c)
    <3>1. ControlOK'
      BY <2>3, StepTypes, LeaveTypes DEF IInv, TypeOK, ControlOK, ScanGate, Stay, Fault, Pcs,
         Recovering, Closing, Goto, local
    <3>2. marker' \in Markers \cup {NoMarker}
      BY <2>3, WrittenKeeps DEF IInv, TypeOK, Markers, ScanGate, world
    <3>3. /\ launcher' \in [Launches -> {"unused", "named", "forked", "gated",
                                         "client", "waiting", "gone"}]
          /\ gate' \in [Launches -> {"none", "open", "go", "closed"}]
          /\ unit' \in [Launches -> {"absent", "starting", "active", "ended"}]
          /\ auth' \in Nat /\ faults' \in Nat
      BY <2>3, CleanupAssumption DEF IInv, TypeOK, ScanGate, Step, Stay, Fault, world, Stopped
    <3>. QED  BY <3>1, <3>2, <3>3 DEF ControlOK, TypeOK
  <2>4. CASE ScanCommand(c)
    <3>1. ControlOK'
      BY <2>4, StepTypes, LeaveTypes DEF IInv, TypeOK, ControlOK, ScanCommand, Stay, Fault, Pcs,
         Recovering, Closing, Goto, local
    <3>2. marker' \in Markers \cup {NoMarker}
      BY <2>4, WrittenKeeps DEF IInv, TypeOK, Markers, ScanCommand, world
    <3>3. /\ launcher' \in [Launches -> {"unused", "named", "forked", "gated",
                                         "client", "waiting", "gone"}]
          /\ gate' \in [Launches -> {"none", "open", "go", "closed"}]
          /\ unit' \in [Launches -> {"absent", "starting", "active", "ended"}]
          /\ auth' \in Nat /\ faults' \in Nat
      BY <2>4, CleanupAssumption DEF IInv, TypeOK, ScanCommand, Step, Stay, Fault, world, Stopped
    <3>. QED  BY <3>1, <3>2, <3>3 DEF ControlOK, TypeOK
  <2>5. CASE Probe(c)
    <3>1. ControlOK'
      BY <2>5, StepTypes, LeaveTypes DEF IInv, TypeOK, ControlOK, Probe, Stay, Fault, Pcs,
         Recovering, Closing, Goto, local
    <3>2. marker' \in Markers \cup {NoMarker}
      BY <2>5, WrittenKeeps DEF IInv, TypeOK, Markers, Probe, world
    <3>3. /\ launcher' \in [Launches -> {"unused", "named", "forked", "gated",
                                         "client", "waiting", "gone"}]
          /\ gate' \in [Launches -> {"none", "open", "go", "closed"}]
          /\ unit' \in [Launches -> {"absent", "starting", "active", "ended"}]
          /\ auth' \in Nat /\ faults' \in Nat
      BY <2>5, CleanupAssumption DEF IInv, TypeOK, Probe, Step, Stay, Fault, world, Stopped
    <3>. QED  BY <3>1, <3>2, <3>3 DEF ControlOK, TypeOK
  <2>6. CASE ProbeAgain(c)
    <3>1. ControlOK'
      BY <2>6, StepTypes, LeaveTypes DEF IInv, TypeOK, ControlOK, ProbeAgain, Stay, Fault, Pcs,
         Recovering, Closing, Goto, local
    <3>2. marker' \in Markers \cup {NoMarker}
      BY <2>6, WrittenKeeps DEF IInv, TypeOK, Markers, ProbeAgain, world
    <3>3. /\ launcher' \in [Launches -> {"unused", "named", "forked", "gated",
                                         "client", "waiting", "gone"}]
          /\ gate' \in [Launches -> {"none", "open", "go", "closed"}]
          /\ unit' \in [Launches -> {"absent", "starting", "active", "ended"}]
          /\ auth' \in Nat /\ faults' \in Nat
      BY <2>6, CleanupAssumption DEF IInv, TypeOK, ProbeAgain, Step, Stay, Fault, world, Stopped
    <3>. QED  BY <3>1, <3>2, <3>3 DEF ControlOK, TypeOK
  <2>7. CASE CheckPid(c)
    <3>1. ControlOK'
      BY <2>7, StepTypes, LeaveTypes DEF IInv, TypeOK, ControlOK, CheckPid, Stay, Fault, Pcs,
         Recovering, Closing, Goto, local
    <3>2. marker' \in Markers \cup {NoMarker}
      BY <2>7, WrittenKeeps DEF IInv, TypeOK, Markers, CheckPid, world
    <3>3. /\ launcher' \in [Launches -> {"unused", "named", "forked", "gated",
                                         "client", "waiting", "gone"}]
          /\ gate' \in [Launches -> {"none", "open", "go", "closed"}]
          /\ unit' \in [Launches -> {"absent", "starting", "active", "ended"}]
          /\ auth' \in Nat /\ faults' \in Nat
      BY <2>7, CleanupAssumption DEF IInv, TypeOK, CheckPid, Step, Stay, Fault, world, Stopped
    <3>. QED  BY <3>1, <3>2, <3>3 DEF ControlOK, TypeOK
  <2>8. CASE Clear(c)
    BY <2>8, CleanupAssumption, MarkerAssumption, WrittenKeeps, SMTT(30) DEF
       IInv, TypeOK, Exclusive, AtNamed, InOrder, Starting, OnRecord, Danger,
       Excluded, Named, Recovering, Constructing, Closing, Pcs, Live,
       Dangerous, Goto, Leave, Step, Stay, Fault, Identified, CloseGate,
       Stopped, Frame, local, world, Clear
  <2>9. CASE Prepare(c)
    BY <2>9, CleanupAssumption, MarkerAssumption DEF IInv, TypeOK, Prepare,
       Step, world, Pcs, Goto, Recovering, Constructing, Closing
  <2>. QED  BY <2>1, <2>2, <2>3, <2>4, <2>5, <2>6, <2>7, <2>8, <2>9 DEF Recover
<1>2. Exclusive'
  BY CleanupAssumption, MarkerAssumption, WrittenKeeps DEF IInv, TypeOK,
     Exclusive, Recover, Lock, Read, ScanGate, ScanCommand, Probe, ProbeAgain,
     CheckPid, Clear, Prepare, Goto, world, Stay, Step, Leave, Live
<1>3. AtNamed'
  BY CleanupAssumption, MarkerAssumption, WrittenKeeps DEF IInv, TypeOK,
     AtNamed, Recover, Lock, Read, ScanGate, ScanCommand, Probe, ProbeAgain,
     CheckPid, Clear, Prepare, Named, Goto, world, Stay, Step, Leave, Live,
     Constructing, Closing
<1>4. InOrder'
  BY CleanupAssumption, MarkerAssumption, WrittenKeeps DEF IInv, TypeOK,
     InOrder, Recover, Lock, Read, ScanGate, ScanCommand, Probe, ProbeAgain,
     CheckPid, Clear, Prepare, Goto, world, Stay, Step, Leave, Live
<1>5. Starting'
  BY CleanupAssumption, MarkerAssumption, WrittenKeeps, SMTT(30) DEF IInv,
     TypeOK, Exclusive, AtNamed, InOrder, Starting, OnRecord, Danger, Excluded,
     Named, Recovering, Constructing, Closing, Pcs, Live, Dangerous, Goto,
     Leave, Step, Stay, Fault, Identified, CloseGate, Stopped, Frame, local,
     world, Recover, Lock, Read, ScanGate, ScanCommand, Probe, ProbeAgain,
     CheckPid, Clear, Prepare
<1>6. OnRecord'
  <2>1. CASE Lock(c)
    BY <2>1, CleanupAssumption, MarkerAssumption DEF IInv, TypeOK, OnRecord,
       Lock, Goto, world, Stay, Named, Recovering, Constructing, Closing
  <2>2. CASE Read(c)
    <3>1. CASE marker = NoMarker
      BY <2>2, <3>1 DEF IInv, TypeOK, Exclusive, AtNamed, OnRecord, Danger, Excluded,
         Read, Step, Leave, Goto, Stay, world,
         Named, Recovering, Constructing, Closing
    <3>2. CASE marker # NoMarker
      <4>1. /\ marker' # NoMarker /\ marker'.unit = marker.unit
            /\ marker'.gate = marker.gate /\ marker'.pid = marker.pid
        BY <2>2, <3>2, HealedKeeps DEF IInv, Read
      <4>. QED  BY <2>2, <3>2, <4>1 DEF IInv, TypeOK, Exclusive, AtNamed, OnRecord,
             Danger, Excluded, Read, Step, Leave, Goto, Stay, world,
             Named, Recovering, Constructing, Closing
    <3>. QED  BY <3>1, <3>2
  <2>3. CASE ScanGate(c)
    BY <2>3, CleanupAssumption, MarkerAssumption DEF IInv, TypeOK, OnRecord,
       ScanGate, Leave, Stay, Step, world, Named, Recovering, Constructing,
       Goto, Closing
  <2>4. CASE ScanCommand(c)
    BY <2>4, CleanupAssumption, MarkerAssumption DEF IInv, TypeOK, OnRecord,
       ScanCommand, Leave, Stay, Step, world, Named, Recovering, Constructing,
       Goto, Closing
  <2>5. CASE Probe(c)
    BY <2>5, CleanupAssumption, MarkerAssumption DEF IInv, TypeOK, OnRecord,
       Probe, Live, Leave, Stay, Step, world, Named, Recovering, Constructing,
       Goto, Closing
  <2>6. CASE ProbeAgain(c)
    BY <2>6, CleanupAssumption, MarkerAssumption DEF IInv, TypeOK, OnRecord,
       ProbeAgain, Live, Step, Leave, Stay, world, Named, Recovering,
       Constructing, Goto, Closing
  <2>7. CASE CheckPid(c)
    BY <2>7, CleanupAssumption, MarkerAssumption DEF IInv, TypeOK, OnRecord,
       CheckPid, Leave, Stay, Step, world, Named, Recovering, Constructing,
       Goto, Closing
  <2>8. CASE Clear(c)
    <3>1. /\ pc[c] = "clear" /\ lock = c /\ pc' = [pc EXCEPT ![c] = "prepare"]
          /\ at' = at
          /\ \A d \in Controllers \ {c} : pc[d] = "idle"
      BY <2>8 DEF IInv, Exclusive, TypeOK, Clear, Step, Goto
    <3>2. marker' = NoMarker
      BY <2>8, <3>1 DEF Clear, Written
    <3>3. \A d \in Controllers : pc'[d] \in {"prepare", "idle"}
      BY <3>1 DEF IInv, TypeOK
    <3>. QED  BY <3>2, <3>3 DEF OnRecord, Named, Recovering, Constructing, Closing
  <2>9. CASE Prepare(c)
    BY <2>9, CleanupAssumption, MarkerAssumption DEF IInv, TypeOK, OnRecord,
       Prepare, Step, world, Named, Recovering, Constructing, Goto, Closing
  <2>. QED  BY <2>1, <2>2, <2>3, <2>4, <2>5, <2>6, <2>7, <2>8, <2>9 DEF Recover
<1>7. Danger'
  <2>1. CASE Lock(c)
    BY <2>1, CleanupAssumption, MarkerAssumption DEF IInv, TypeOK, Danger,
       Lock, Goto, world, Stay, Dangerous, Live
  <2>2. CASE Read(c)
    <3>1. CASE marker = NoMarker
      BY <2>2, <3>1 DEF IInv, TypeOK, Exclusive, AtNamed, OnRecord, Danger, Excluded,
         Read, Step, Stay, world, Dangerous, Live
    <3>2. CASE marker # NoMarker
      <4>1. /\ marker' # NoMarker /\ marker'.unit = marker.unit
            /\ marker'.gate = marker.gate /\ marker'.pid = marker.pid
        BY <2>2, <3>2, HealedKeeps DEF IInv, Read
      <4>. QED  BY <2>2, <3>2, <4>1 DEF IInv, TypeOK, Exclusive, AtNamed, OnRecord,
             Danger, Excluded, Read, Step, Stay, world, Dangerous, Live
    <3>. QED  BY <3>1, <3>2
  <2>3. CASE ScanGate(c)
    BY <2>3, CleanupAssumption, MarkerAssumption DEF IInv, TypeOK, Danger,
       ScanGate, Leave, Stay, Step, world, Dangerous, Goto, Live
  <2>4. CASE ScanCommand(c)
    BY <2>4, CleanupAssumption, MarkerAssumption DEF IInv, TypeOK, Danger,
       ScanCommand, Leave, Stay, Step, world, Dangerous, Goto, Live
  <2>5. CASE Probe(c)
    BY <2>5, CleanupAssumption, MarkerAssumption, SMTT(30) DEF IInv, TypeOK,
       Exclusive, AtNamed, InOrder, Starting, OnRecord, Danger, Excluded,
       Named, Recovering, Constructing, Closing, Pcs, Live, Dangerous, Goto,
       Leave, Step, Stay, Fault, Identified, CloseGate, Stopped, Frame, local,
       world, Probe
  <2>6. CASE ProbeAgain(c)
    BY <2>6, CleanupAssumption, MarkerAssumption, SMTT(30) DEF IInv, TypeOK,
       Exclusive, AtNamed, InOrder, Starting, OnRecord, Danger, Excluded,
       Named, Recovering, Constructing, Closing, Pcs, Live, Dangerous, Goto,
       Leave, Step, Stay, Fault, Identified, CloseGate, Stopped, Frame, local,
       world, ProbeAgain
  <2>7. CASE CheckPid(c)
    BY <2>7, CleanupAssumption, MarkerAssumption DEF IInv, TypeOK, Danger,
       CheckPid, Leave, Stay, Step, world, Dangerous, Goto, Live
  <2>8. CASE Clear(c)
    BY <2>8, CleanupAssumption, MarkerAssumption, WrittenKeeps, SMTT(30) DEF
       IInv, TypeOK, Exclusive, AtNamed, InOrder, Starting, OnRecord, Danger,
       Excluded, Named, Recovering, Constructing, Closing, Pcs, Live,
       Dangerous, Goto, Leave, Step, Stay, Fault, Identified, CloseGate,
       Stopped, Frame, local, world, Clear
  <2>9. CASE Prepare(c)
    BY <2>9, CleanupAssumption, MarkerAssumption DEF IInv, TypeOK, Danger,
       Prepare, Step, world, Dangerous, Goto, Live
  <2>. QED  BY <2>1, <2>2, <2>3, <2>4, <2>5, <2>6, <2>7, <2>8, <2>9 DEF Recover
<1>8. Excluded'
  <2>1. CASE Lock(c)
    BY <2>1, CleanupAssumption, MarkerAssumption DEF IInv, TypeOK, Excluded,
       Lock, Goto, world, Stay, Live
  <2>2. CASE Read(c)
    BY <2>2, CleanupAssumption, MarkerAssumption, SMTT(30) DEF IInv, TypeOK,
       Exclusive, AtNamed, InOrder, Starting, OnRecord, Danger, Excluded,
       Named, Recovering, Constructing, Closing, Pcs, Live, Dangerous, Goto,
       Leave, Step, Stay, Fault, Identified, CloseGate, Stopped, Frame, local,
       world, Read
  <2>3. CASE ScanGate(c)
    <3>1. /\ pc[c] = "scanGate" /\ marker # NoMarker /\ marker' = marker
          /\ UNCHANGED world
      BY <2>3 DEF IInv, OnRecord, ScanGate, Recovering
    <3>2. \A d \in Controllers \ {c} : pc'[d] = "idle" /\ ~reaped'[d]
      BY <2>3 DEF IInv, TypeOK, Exclusive, AtNamed, ScanGate, Step, Leave, Goto, Named,
           Constructing, Closing
    <3>3. ~reaped'[c] /\ pc'[c] \in {"idle", "scanCommand"}
      BY <2>3 DEF IInv, TypeOK, AtNamed, ScanGate, Step, Leave, Goto, Named,
           Constructing, Closing
    <3>4. pc'[c] = "scanCommand" => ~(marker.gate /\ launcher[marker.unit] = "gated")
      BY <2>3 DEF IInv, TypeOK, ScanGate, Leave, Goto
    <3>5. launcher[marker.unit] = "gated" /\ gate[marker.unit] = "go" => marker.gate
      BY <3>1 DEF IInv, TypeOK, Markers, Danger, Dangerous
    <3>. QED  BY <3>1, <3>2, <3>3, <3>4, <3>5 DEF Excluded, world
  <2>4. CASE ScanCommand(c)
    BY <2>4, CleanupAssumption, MarkerAssumption DEF IInv, TypeOK, Excluded,
       ScanCommand, Leave, Stay, Step, world, Live, Goto
  <2>5. CASE Probe(c)
    BY <2>5, CleanupAssumption, MarkerAssumption DEF IInv, TypeOK, Excluded,
       Probe, Live, Leave, Stay, Step, world, Goto
  <2>6. CASE ProbeAgain(c)
    BY <2>6, CleanupAssumption, MarkerAssumption DEF IInv, TypeOK, Excluded,
       ProbeAgain, Live, Step, Leave, Stay, world, Goto
  <2>7. CASE CheckPid(c)
    BY <2>7, CleanupAssumption, MarkerAssumption DEF IInv, TypeOK, Excluded,
       CheckPid, Leave, Stay, Step, world, Live, Goto
  <2>8. CASE Clear(c)
    BY <2>8, CleanupAssumption, MarkerAssumption, WrittenKeeps, SMTT(30) DEF
       IInv, TypeOK, Exclusive, AtNamed, InOrder, Starting, OnRecord, Danger,
       Excluded, Named, Recovering, Constructing, Closing, Pcs, Live,
       Dangerous, Goto, Leave, Step, Stay, Fault, Identified, CloseGate,
       Stopped, Frame, local, world, Clear
  <2>9. CASE Prepare(c)
    BY <2>9, CleanupAssumption, MarkerAssumption DEF IInv, TypeOK, Excluded,
       Prepare, Step, world, Live, Goto
  <2>. QED  BY <2>1, <2>2, <2>3, <2>4, <2>5, <2>6, <2>7, <2>8, <2>9 DEF Recover
<1>. QED  BY <1>1, <1>2, <1>3, <1>4, <1>5, <1>6, <1>7, <1>8 DEF IInv

\* Arming the record and constructing the transport.
LEMMA ConstructStep ==
  ASSUME IInv, NEW c \in Controllers, Construct(c)
  PROVE  IInv'
<1>1. TypeOK'
  <2>1. CASE Refuse(c)
    BY <2>1, CleanupAssumption, MarkerAssumption DEF IInv, TypeOK, Refuse,
       Leave, world, Stay, Pcs, Goto, Recovering, Constructing, Closing
  <2>2. CASE Arm(c)
    <3>1. PICK l \in Launches :
            /\ launcher' = [launcher EXCEPT ![l] = "named"]
            /\ at' = [at EXCEPT ![c] = l]
            /\ marker' = [unit |-> l, auth |-> cred[c], links |-> 2,
                          gate |-> FALSE, pid |-> FALSE, group |-> FALSE]
      BY <2>2 DEF Arm
    <3>2. marker' \in Markers /\ marker'.unit = l
      <4>1. cred[c] \in Nat  BY DEF IInv, TypeOK
      <4>. QED  BY <3>1, <4>1 DEF Markers
    <3>3. /\ pc' = [pc EXCEPT ![c] = "linked"]
          /\ UNCHANGED <<lock, cred, built, reaped, gate, unit, auth, faults>>
      BY <2>2 DEF Arm, Goto, Stay
    <3>4. pc' \in [Controllers -> Pcs]
      BY <3>3 DEF IInv, TypeOK, Pcs
    <3>5. at' \in [Controllers -> Launches \cup {NoLaunch}]
      BY <3>1 DEF IInv, TypeOK
    <3>6. launcher' \in [Launches -> {"unused", "named", "forked", "gated",
                                     "client", "waiting", "gone"}]
      BY <3>1 DEF IInv, TypeOK
    <3>. QED  BY <3>2, <3>3, <3>4, <3>5, <3>6 DEF IInv, TypeOK
  <2>3. CASE Unlink(c)
    BY <2>3, CleanupAssumption, MarkerAssumption, WrittenKeeps, SMTT(30) DEF
       IInv, TypeOK, Exclusive, AtNamed, InOrder, Starting, OnRecord, Danger,
       Excluded, Named, Recovering, Constructing, Closing, Pcs, Live,
       Dangerous, Goto, Leave, Step, Stay, Fault, Identified, CloseGate,
       Stopped, Frame, local, world, Unlink
  <2>4. CASE BindGate(c)
    BY <2>4, CleanupAssumption, MarkerAssumption, WrittenKeeps, SMTT(30) DEF
       IInv, TypeOK, Exclusive, AtNamed, InOrder, Starting, OnRecord, Danger,
       Excluded, Named, Recovering, Constructing, Closing, Pcs, Live,
       Dangerous, Goto, Leave, Step, Stay, Fault, Identified, CloseGate,
       Stopped, Frame, local, world, BindGate
  <2>5. CASE Spawn(c)
    BY <2>5, CleanupAssumption, MarkerAssumption, SMTT(30) DEF IInv, TypeOK,
       Exclusive, AtNamed, InOrder, Starting, OnRecord, Danger, Excluded,
       Named, Recovering, Constructing, Closing, Pcs, Live, Dangerous, Goto,
       Leave, Step, Stay, Fault, Identified, CloseGate, Stopped, Frame, local,
       world, Spawn
  <2>6. CASE Started(c)
    BY <2>6, CleanupAssumption, MarkerAssumption DEF IInv, TypeOK, Started,
       Step, world, Pcs, Goto, Recovering, Constructing, Closing
  <2>7. CASE IdentifyLauncher(c)
    BY <2>7, CleanupAssumption, MarkerAssumption, WrittenKeeps, SMTT(30) DEF
       IInv, TypeOK, Exclusive, AtNamed, InOrder, Starting, OnRecord, Danger,
       Excluded, Named, Recovering, Constructing, Closing, Pcs, Live,
       Dangerous, Goto, Leave, Step, Stay, Fault, Identified, CloseGate,
       Stopped, Frame, local, world, IdentifyLauncher
  <2>8. CASE ReleaseGate(c)
    BY <2>8, CleanupAssumption, MarkerAssumption, SMTT(30) DEF IInv, TypeOK,
       Exclusive, AtNamed, InOrder, Starting, OnRecord, Danger, Excluded,
       Named, Recovering, Constructing, Closing, Pcs, Live, Dangerous, Goto,
       Leave, Step, Stay, Fault, Identified, CloseGate, Stopped, Frame, local,
       world, ReleaseGate
  <2>9. CASE ConfirmActive(c)
    BY <2>9, CleanupAssumption, MarkerAssumption DEF IInv, TypeOK,
       ConfirmActive, Step, world, Pcs, Goto, Recovering, Constructing, Closing
  <2>10. CASE ConfirmFails(c)
    BY <2>10, CleanupAssumption, MarkerAssumption DEF IInv, TypeOK,
       ConfirmFails, Step, world, Pcs, Goto, Recovering, Constructing, Closing
  <2>11. CASE IdentifyUnit(c)
    BY <2>11, CleanupAssumption, MarkerAssumption, WrittenKeeps, SMTT(30) DEF
       IInv, TypeOK, Exclusive, AtNamed, InOrder, Starting, OnRecord, Danger,
       Excluded, Named, Recovering, Constructing, Closing, Pcs, Live,
       Dangerous, Goto, Leave, Step, Stay, Fault, Identified, CloseGate,
       Stopped, Frame, local, world, IdentifyUnit
  <2>. QED  BY <2>1, <2>2, <2>3, <2>4, <2>5, <2>6, <2>7, <2>8, <2>9, <2>10, <2>11 DEF Construct
<1>2. Exclusive'
  BY CleanupAssumption, MarkerAssumption, WrittenKeeps DEF IInv, TypeOK,
     Exclusive, Construct, Refuse, Arm, Unlink, BindGate, Spawn, Started,
     IdentifyLauncher, ReleaseGate, ConfirmActive, ConfirmFails, IdentifyUnit,
     Leave, world, Stay, Goto, Step
<1>3. AtNamed'
  BY CleanupAssumption, MarkerAssumption, WrittenKeeps DEF IInv, TypeOK,
     AtNamed, Construct, Refuse, Arm, Unlink, BindGate, Spawn, Started,
     IdentifyLauncher, ReleaseGate, ConfirmActive, ConfirmFails, IdentifyUnit,
     Named, Leave, world, Stay, Goto, Step, Constructing, Closing
<1>4. InOrder'
  BY CleanupAssumption, MarkerAssumption, WrittenKeeps, SMTT(30) DEF IInv,
     TypeOK, Exclusive, AtNamed, InOrder, Starting, OnRecord, Danger, Excluded,
     Named, Recovering, Constructing, Closing, Pcs, Live, Dangerous, Goto,
     Leave, Step, Stay, Fault, Identified, CloseGate, Stopped, Frame, local,
     world, Construct, Refuse, Arm, Unlink, BindGate, Spawn, Started,
     IdentifyLauncher, ReleaseGate, ConfirmActive, ConfirmFails, IdentifyUnit
<1>5. Starting'
  BY CleanupAssumption, MarkerAssumption, WrittenKeeps, SMTT(30) DEF IInv,
     TypeOK, Exclusive, AtNamed, InOrder, Starting, OnRecord, Danger, Excluded,
     Named, Recovering, Constructing, Closing, Pcs, Live, Dangerous, Goto,
     Leave, Step, Stay, Fault, Identified, CloseGate, Stopped, Frame, local,
     world, Construct, Refuse, Arm, Unlink, BindGate, Spawn, Started,
     IdentifyLauncher, ReleaseGate, ConfirmActive, ConfirmFails, IdentifyUnit
<1>6. OnRecord'
  <2>1. CASE Refuse(c)
    BY <2>1, CleanupAssumption, MarkerAssumption DEF IInv, TypeOK, OnRecord,
       Refuse, Leave, world, Stay, Named, Recovering, Constructing, Goto,
       Closing
  <2>2. CASE Arm(c)
    <3>1. PICK l \in Launches :
            /\ launcher' = [launcher EXCEPT ![l] = "named"]
            /\ at' = [at EXCEPT ![c] = l]
            /\ marker' = [unit |-> l, auth |-> cred[c], links |-> 2,
                          gate |-> FALSE, pid |-> FALSE, group |-> FALSE]
      BY <2>2 DEF Arm
    <3>2. marker' \in Markers /\ marker'.unit = l
      <4>1. cred[c] \in Nat  BY DEF IInv, TypeOK
      <4>. QED  BY <3>1, <4>1 DEF Markers
    <3>3. /\ pc' = [pc EXCEPT ![c] = "linked"] /\ pc \in [Controllers -> Pcs]
          /\ at \in [Controllers -> Launches \cup {NoLaunch}]
          /\ \A d \in Controllers \ {c} : pc[d] = "idle"
      BY <2>2 DEF IInv, Exclusive, TypeOK, Arm, Goto
    <3>4. marker' # NoMarker
      BY <3>2, MarkerAssumption
    <3>5. at'[c] = l
      BY <3>1, <3>3
    <3>6. pc'[c] = "linked"
      BY <3>3
    <3>7. \A d \in Controllers \ {c} : pc'[d] = "idle"
      BY <3>3
    <3>. QED  BY <3>2, <3>4, <3>5, <3>6, <3>7
         DEF OnRecord, Named, Recovering, Constructing, Closing
  <2>3. CASE Unlink(c)
    BY <2>3, CleanupAssumption, MarkerAssumption, WrittenKeeps DEF IInv,
       TypeOK, OnRecord, Unlink, Step, world, Named, Recovering, Constructing,
       Goto, Closing
  <2>4. CASE BindGate(c)
    BY <2>4, CleanupAssumption, MarkerAssumption, WrittenKeeps DEF IInv,
       TypeOK, OnRecord, BindGate, Step, world, Named, Recovering,
       Constructing, Goto, Closing
  <2>5. CASE Spawn(c)
    BY <2>5, CleanupAssumption, MarkerAssumption DEF IInv, TypeOK, OnRecord,
       Spawn, Step, Named, Recovering, Constructing, Goto, Closing
  <2>6. CASE Started(c)
    BY <2>6, CleanupAssumption, MarkerAssumption DEF IInv, TypeOK, OnRecord,
       Started, Step, world, Named, Recovering, Constructing, Goto, Closing
  <2>7. CASE IdentifyLauncher(c)
    BY <2>7, CleanupAssumption, MarkerAssumption, WrittenKeeps DEF IInv,
       TypeOK, OnRecord, IdentifyLauncher, Step, world, Named, Recovering,
       Constructing, Goto, Closing
  <2>8. CASE ReleaseGate(c)
    BY <2>8, CleanupAssumption, MarkerAssumption DEF IInv, TypeOK, OnRecord,
       ReleaseGate, Step, Named, Recovering, Constructing, Goto, Closing
  <2>9. CASE ConfirmActive(c)
    BY <2>9, CleanupAssumption, MarkerAssumption DEF IInv, TypeOK, OnRecord,
       ConfirmActive, Step, world, Named, Recovering, Constructing, Goto,
       Closing
  <2>10. CASE ConfirmFails(c)
    BY <2>10, CleanupAssumption, MarkerAssumption DEF IInv, TypeOK, OnRecord,
       ConfirmFails, Step, world, Named, Recovering, Constructing, Goto,
       Closing
  <2>11. CASE IdentifyUnit(c)
    BY <2>11, CleanupAssumption, MarkerAssumption, WrittenKeeps DEF IInv,
       TypeOK, OnRecord, IdentifyUnit, Goto, world, Stay, Named, Recovering,
       Constructing, Closing
  <2>. QED  BY <2>1, <2>2, <2>3, <2>4, <2>5, <2>6, <2>7, <2>8, <2>9, <2>10, <2>11 DEF Construct
<1>7. Danger'
  <2>1. CASE Refuse(c)
    BY <2>1, CleanupAssumption, MarkerAssumption DEF IInv, TypeOK, Danger,
       Refuse, Leave, world, Stay, Dangerous, Goto, Live
  <2>2. CASE Arm(c)
    BY <2>2, CleanupAssumption, MarkerAssumption DEF IInv, TypeOK, Danger, Arm,
       Goto, Stay, Dangerous, Live
  <2>3. CASE Unlink(c)
    BY <2>3, CleanupAssumption, MarkerAssumption, WrittenKeeps DEF IInv,
       TypeOK, Danger, Unlink, Step, world, Dangerous, Goto, Live
  <2>4. CASE BindGate(c)
    BY <2>4, CleanupAssumption, MarkerAssumption, WrittenKeeps DEF IInv,
       TypeOK, Danger, BindGate, Step, world, Dangerous, Goto, Live
  <2>5. CASE Spawn(c)
    BY <2>5, CleanupAssumption, MarkerAssumption DEF IInv, TypeOK, Danger,
       Spawn, Step, Dangerous, Goto, Live
  <2>6. CASE Started(c)
    BY <2>6, CleanupAssumption, MarkerAssumption DEF IInv, TypeOK, Danger,
       Started, Step, world, Dangerous, Goto, Live
  <2>7. CASE IdentifyLauncher(c)
    BY <2>7, CleanupAssumption, MarkerAssumption, WrittenKeeps DEF IInv,
       TypeOK, Danger, IdentifyLauncher, Step, world, Dangerous, Goto, Live
  <2>8. CASE ReleaseGate(c)
    BY <2>8, CleanupAssumption, MarkerAssumption, SMTT(30) DEF IInv, TypeOK,
       Exclusive, AtNamed, InOrder, Starting, OnRecord, Danger, Excluded,
       Named, Recovering, Constructing, Closing, Pcs, Live, Dangerous, Goto,
       Leave, Step, Stay, Fault, Identified, CloseGate, Stopped, Frame, local,
       world, ReleaseGate
  <2>9. CASE ConfirmActive(c)
    BY <2>9, CleanupAssumption, MarkerAssumption DEF IInv, TypeOK, Danger,
       ConfirmActive, Step, world, Dangerous, Goto, Live
  <2>10. CASE ConfirmFails(c)
    BY <2>10, CleanupAssumption, MarkerAssumption DEF IInv, TypeOK, Danger,
       ConfirmFails, Step, world, Dangerous, Goto, Live
  <2>11. CASE IdentifyUnit(c)
    BY <2>11, CleanupAssumption, MarkerAssumption, WrittenKeeps DEF IInv,
       TypeOK, Danger, IdentifyUnit, Goto, world, Stay, Dangerous, Live
  <2>. QED  BY <2>1, <2>2, <2>3, <2>4, <2>5, <2>6, <2>7, <2>8, <2>9, <2>10, <2>11 DEF Construct
<1>8. Excluded'
  BY CleanupAssumption, MarkerAssumption, WrittenKeeps, SMTT(30) DEF IInv,
     TypeOK, Exclusive, AtNamed, InOrder, Starting, OnRecord, Danger, Excluded,
     Named, Recovering, Constructing, Closing, Pcs, Live, Dangerous, Goto,
     Leave, Step, Stay, Fault, Identified, CloseGate, Stopped, Frame, local,
     world, Construct, Refuse, Arm, Unlink, BindGate, Spawn, Started,
     IdentifyLauncher, ReleaseGate, ConfirmActive, ConfirmFails, IdentifyUnit
<1>. QED  BY <1>1, <1>2, <1>3, <1>4, <1>5, <1>6, <1>7, <1>8 DEF IInv

\* The turn, close() and the removal of the record.
LEMMA FinishStep ==
  ASSUME IInv, NEW c \in Controllers, Finish(c)
  PROVE  IInv'
<1>1. TypeOK'
  <2>1. CASE Session(c)
    BY <2>1, CleanupAssumption, MarkerAssumption DEF IInv, TypeOK, Session,
       Step, world, Pcs, Goto, Recovering, Constructing, Closing
  <2>2. CASE Stop(c)
    BY <2>2, CleanupAssumption, MarkerAssumption, SMTT(30) DEF IInv, TypeOK,
       Exclusive, AtNamed, InOrder, Starting, OnRecord, Danger, Excluded,
       Named, Recovering, Constructing, Closing, Pcs, Live, Dangerous, Goto,
       Leave, Step, Stay, Fault, Identified, CloseGate, Stopped, Frame, local,
       world, Stop
  <2>3. CASE Reap(c)
    <3>1. ControlOK'
      BY <2>3, StepTypes, LeaveTypes DEF IInv, TypeOK, ControlOK, Reap, Stay, Fault, Pcs,
         Recovering, Closing, Goto, local
    <3>2. marker' \in Markers \cup {NoMarker}
      BY <2>3, WrittenKeeps DEF IInv, TypeOK, Markers, Reap, world
    <3>3. /\ launcher' \in [Launches -> {"unused", "named", "forked", "gated",
                                         "client", "waiting", "gone"}]
          /\ gate' \in [Launches -> {"none", "open", "go", "closed"}]
          /\ unit' \in [Launches -> {"absent", "starting", "active", "ended"}]
          /\ auth' \in Nat /\ faults' \in Nat
      BY <2>3, CleanupAssumption DEF IInv, TypeOK, Reap, Step, Stay, Fault, world, Stopped
    <3>. QED  BY <3>1, <3>2, <3>3 DEF ControlOK, TypeOK
  <2>4. CASE Observe(c)
    <3>1. ControlOK'
      BY <2>4, StepTypes, LeaveTypes DEF IInv, TypeOK, ControlOK, Observe, Stay, Fault, Pcs,
         Recovering, Closing, Goto, local
    <3>2. marker' \in Markers \cup {NoMarker}
      BY <2>4, WrittenKeeps DEF IInv, TypeOK, Markers, Observe, world
    <3>3. /\ launcher' \in [Launches -> {"unused", "named", "forked", "gated",
                                         "client", "waiting", "gone"}]
          /\ gate' \in [Launches -> {"none", "open", "go", "closed"}]
          /\ unit' \in [Launches -> {"absent", "starting", "active", "ended"}]
          /\ auth' \in Nat /\ faults' \in Nat
      BY <2>4, CleanupAssumption DEF IInv, TypeOK, Observe, Step, Stay, Fault, world, Stopped
    <3>. QED  BY <3>1, <3>2, <3>3 DEF ControlOK, TypeOK
  <2>5. CASE ObserveAgain(c)
    <3>1. ControlOK'
      BY <2>5, StepTypes, LeaveTypes DEF IInv, TypeOK, ControlOK, ObserveAgain, Stay, Fault, Pcs,
         Recovering, Closing, Goto, local
    <3>2. marker' \in Markers \cup {NoMarker}
      BY <2>5, WrittenKeeps DEF IInv, TypeOK, Markers, ObserveAgain, world
    <3>3. /\ launcher' \in [Launches -> {"unused", "named", "forked", "gated",
                                         "client", "waiting", "gone"}]
          /\ gate' \in [Launches -> {"none", "open", "go", "closed"}]
          /\ unit' \in [Launches -> {"absent", "starting", "active", "ended"}]
          /\ auth' \in Nat /\ faults' \in Nat
      BY <2>5, CleanupAssumption DEF IInv, TypeOK, ObserveAgain, Step, Stay, Fault, world, Stopped
    <3>. QED  BY <3>1, <3>2, <3>3 DEF ControlOK, TypeOK
  <2>6. CASE Disarm(c)
    <3>1. ControlOK'
      BY <2>6, StepTypes, LeaveTypes DEF IInv, TypeOK, ControlOK, Disarm, Stay, Fault, Pcs,
         Recovering, Closing, Goto, local
    <3>2. marker' \in Markers \cup {NoMarker}
      <4>1. marker # NoMarker /\ marker' = Written(c)
        BY <2>6 DEF IInv, OnRecord, Named, Closing, Disarm
      <4>. QED  BY <4>1, WrittenKeeps DEF IInv
    <3>3. /\ launcher' \in [Launches -> {"unused", "named", "forked", "gated",
                                         "client", "waiting", "gone"}]
          /\ gate' \in [Launches -> {"none", "open", "go", "closed"}]
          /\ unit' \in [Launches -> {"absent", "starting", "active", "ended"}]
          /\ auth' \in Nat /\ faults' \in Nat
      BY <2>6, CleanupAssumption DEF IInv, TypeOK, Disarm, Step, Stay, Fault, world, Stopped
    <3>. QED  BY <3>1, <3>2, <3>3 DEF ControlOK, TypeOK
  <2>. QED  BY <2>1, <2>2, <2>3, <2>4, <2>5, <2>6 DEF Finish
<1>2. Exclusive'
  BY CleanupAssumption, MarkerAssumption, WrittenKeeps DEF IInv, TypeOK,
     Exclusive, Finish, Session, Stop, Reap, Observe, ObserveAgain, Disarm,
     Step, world, CloseGate, Stopped, Goto, Stay, Live, Leave
<1>3. AtNamed'
  BY CleanupAssumption, MarkerAssumption, WrittenKeeps DEF IInv, TypeOK,
     AtNamed, Finish, Session, Stop, Reap, Observe, ObserveAgain, Disarm,
     Named, Step, world, CloseGate, Stopped, Goto, Stay, Live, Leave,
     Constructing, Closing
<1>4. InOrder'
  BY CleanupAssumption, MarkerAssumption, WrittenKeeps DEF IInv, TypeOK,
     InOrder, Finish, Session, Stop, Reap, Observe, ObserveAgain, Disarm, Step,
     world, CloseGate, Stopped, Goto, Stay, Live, Leave
<1>5. Starting'
  BY CleanupAssumption, MarkerAssumption, WrittenKeeps, SMTT(30) DEF IInv,
     TypeOK, Exclusive, AtNamed, InOrder, Starting, OnRecord, Danger, Excluded,
     Named, Recovering, Constructing, Closing, Pcs, Live, Dangerous, Goto,
     Leave, Step, Stay, Fault, Identified, CloseGate, Stopped, Frame, local,
     world, Finish, Session, Stop, Reap, Observe, ObserveAgain, Disarm
<1>6. OnRecord'
  BY CleanupAssumption, MarkerAssumption, WrittenKeeps, SMTT(30) DEF IInv,
     TypeOK, Exclusive, AtNamed, InOrder, Starting, OnRecord, Danger, Excluded,
     Named, Recovering, Constructing, Closing, Pcs, Live, Dangerous, Goto,
     Leave, Step, Stay, Fault, Identified, CloseGate, Stopped, Frame, local,
     world, Finish, Session, Stop, Reap, Observe, ObserveAgain, Disarm
<1>7. Danger'
  BY CleanupAssumption, MarkerAssumption, WrittenKeeps, SMTT(30) DEF IInv,
     TypeOK, Exclusive, AtNamed, InOrder, Starting, OnRecord, Danger, Excluded,
     Named, Recovering, Constructing, Closing, Pcs, Live, Dangerous, Goto,
     Leave, Step, Stay, Fault, Identified, CloseGate, Stopped, Frame, local,
     world, Finish, Session, Stop, Reap, Observe, ObserveAgain, Disarm
<1>8. Excluded'
  BY CleanupAssumption, MarkerAssumption, WrittenKeeps, SMTT(30) DEF IInv,
     TypeOK, Exclusive, AtNamed, InOrder, Starting, OnRecord, Danger, Excluded,
     Named, Recovering, Constructing, Closing, Pcs, Live, Dangerous, Goto,
     Leave, Step, Stay, Fault, Identified, CloseGate, Stopped, Frame, local,
     world, Finish, Session, Stop, Reap, Observe, ObserveAgain, Disarm
<1>. QED  BY <1>1, <1>2, <1>3, <1>4, <1>5, <1>6, <1>7, <1>8 DEF IInv

\* Failing calls and deaths of an evaluator.
LEMMA FailStep ==
  ASSUME IInv, NEW c \in Controllers, Fail(c)
  PROVE  IInv'
<1>1. TypeOK'
  <2>1. CASE Abandon(c)
    <3>1. ControlOK'
      BY <2>1, StepTypes, LeaveTypes DEF IInv, TypeOK, ControlOK, Abandon
    <3>2. marker' \in Markers \cup {NoMarker}
      <4>1. marker' \in {marker, Written(c)}  BY <2>1 DEF Abandon
      <4>2. CASE pc[c] \in {"read", "prepare"}
        <5>1. Written(c) = marker  BY <4>2 DEF Written
        <5>. QED  BY <4>1, <5>1 DEF IInv, TypeOK
      <4>3. CASE pc[c] \notin {"read", "prepare"}
        <5>1. marker # NoMarker
          BY <2>1, <4>3 DEF IInv, OnRecord, Abandon, Named, Recovering, Constructing,
               Closing
        <5>. QED  BY <4>1, <5>1, WrittenKeeps DEF IInv, TypeOK
      <4>. QED  BY <4>2, <4>3
    <3>3. /\ launcher' \in [Launches -> {"unused", "named", "forked", "gated",
                                         "client", "waiting", "gone"}]
          /\ gate' \in [Launches -> {"none", "open", "go", "closed"}]
          /\ unit' \in [Launches -> {"absent", "starting", "active", "ended"}]
          /\ auth' \in Nat /\ faults' \in Nat
      BY <2>1, CleanupAssumption DEF IInv, TypeOK, Abandon, Step, Stay, Fault, world, Stopped
    <3>. QED  BY <3>1, <3>2, <3>3 DEF ControlOK, TypeOK
  <2>2. CASE RollBack(c)
    BY <2>2, CleanupAssumption, MarkerAssumption, WrittenKeeps, SMTT(30) DEF
       IInv, TypeOK, Exclusive, AtNamed, InOrder, Starting, OnRecord, Danger,
       Excluded, Named, Recovering, Constructing, Closing, Pcs, Live,
       Dangerous, Goto, Leave, Step, Stay, Fault, Identified, CloseGate,
       Stopped, Frame, local, world, RollBack
  <2>3. CASE Die(c)
    BY <2>3, CleanupAssumption, MarkerAssumption DEF IInv, TypeOK, Die, Fault,
       Leave, CloseGate, Pcs, Goto, Recovering, Constructing, Closing
  <2>. QED  BY <2>1, <2>2, <2>3 DEF Fail
<1>2. Exclusive'
  BY CleanupAssumption, MarkerAssumption, WrittenKeeps DEF IInv, TypeOK,
     Exclusive, Fail, Abandon, RollBack, Die, Fault, Recovering, Leave, world,
     Goto, CloseGate
<1>3. AtNamed'
  BY CleanupAssumption, MarkerAssumption, WrittenKeeps DEF IInv, TypeOK,
     AtNamed, Fail, Abandon, RollBack, Die, Named, Fault, Recovering, Leave,
     world, Goto, CloseGate, Constructing, Closing
<1>4. InOrder'
  BY CleanupAssumption, MarkerAssumption, WrittenKeeps DEF IInv, TypeOK,
     InOrder, Fail, Abandon, RollBack, Die, Fault, Recovering, Leave, world,
     Goto, CloseGate
<1>5. Starting'
  BY CleanupAssumption, MarkerAssumption, WrittenKeeps, SMTT(30) DEF IInv,
     TypeOK, Exclusive, AtNamed, InOrder, Starting, OnRecord, Danger, Excluded,
     Named, Recovering, Constructing, Closing, Pcs, Live, Dangerous, Goto,
     Leave, Step, Stay, Fault, Identified, CloseGate, Stopped, Frame, local,
     world, Fail, Abandon, RollBack, Die
<1>6. OnRecord'
  <2>1. CASE Abandon(c)
    BY <2>1, CleanupAssumption, MarkerAssumption, WrittenKeeps, SMTT(30) DEF
       IInv, TypeOK, Exclusive, AtNamed, InOrder, Starting, OnRecord, Danger,
       Excluded, Named, Recovering, Constructing, Closing, Pcs, Live,
       Dangerous, Goto, Leave, Step, Stay, Fault, Identified, CloseGate,
       Stopped, Frame, local, world, Abandon
  <2>2. CASE RollBack(c)
    BY <2>2, CleanupAssumption, MarkerAssumption, WrittenKeeps DEF IInv,
       TypeOK, OnRecord, RollBack, Fault, Goto, world, Named, Recovering,
       Constructing, Closing
  <2>3. CASE Die(c)
    BY <2>3, CleanupAssumption, MarkerAssumption DEF IInv, TypeOK, OnRecord,
       Die, Fault, Leave, CloseGate, Named, Recovering, Constructing, Goto,
       Closing
  <2>. QED  BY <2>1, <2>2, <2>3 DEF Fail
<1>7. Danger'
  <2>1. CASE Abandon(c)
    BY <2>1, CleanupAssumption, MarkerAssumption, WrittenKeeps, SMTT(30) DEF
       IInv, TypeOK, Exclusive, AtNamed, InOrder, Starting, OnRecord, Danger,
       Excluded, Named, Recovering, Constructing, Closing, Pcs, Live,
       Dangerous, Goto, Leave, Step, Stay, Fault, Identified, CloseGate,
       Stopped, Frame, local, world, Abandon
  <2>2. CASE RollBack(c)
    BY <2>2, CleanupAssumption, MarkerAssumption, WrittenKeeps DEF IInv,
       TypeOK, Danger, RollBack, Fault, Goto, world, Dangerous, Live
  <2>3. CASE Die(c)
    BY <2>3, CleanupAssumption, MarkerAssumption DEF IInv, TypeOK, Danger, Die,
       Fault, Leave, CloseGate, Dangerous, Goto, Live
  <2>. QED  BY <2>1, <2>2, <2>3 DEF Fail
<1>8. Excluded'
  BY CleanupAssumption, MarkerAssumption, WrittenKeeps, SMTT(30) DEF IInv,
     TypeOK, Exclusive, AtNamed, InOrder, Starting, OnRecord, Danger, Excluded,
     Named, Recovering, Constructing, Closing, Pcs, Live, Dangerous, Goto,
     Leave, Step, Stay, Fault, Identified, CloseGate, Stopped, Frame, local,
     world, Fail, Abandon, RollBack, Die
<1>. QED  BY <1>1, <1>2, <1>3, <1>4, <1>5, <1>6, <1>7, <1>8 DEF IInv

\* The launcher and the unit on their own.
LEMMA ProgressStep ==
  ASSUME IInv, NEW l \in Launches, Progress(l)
  PROVE  IInv'
<1>1. TypeOK'
  BY CleanupAssumption, MarkerAssumption DEF IInv, TypeOK, Progress, Exec,
     ReadToken, StartUnit, Activate, UnitEnds, Collect, ClientReturns, Pcs,
     Frame, Live, Recovering, Constructing, Closing, local
<1>2. Exclusive'
  BY CleanupAssumption, MarkerAssumption DEF IInv, TypeOK, Exclusive, Progress,
     Exec, ReadToken, StartUnit, Activate, UnitEnds, Collect, ClientReturns,
     Frame, Live, local
<1>3. AtNamed'
  BY CleanupAssumption, MarkerAssumption DEF IInv, TypeOK, AtNamed, Progress,
     Exec, ReadToken, StartUnit, Activate, UnitEnds, Collect, ClientReturns,
     Named, Frame, Live, Constructing, Closing, local
<1>4. InOrder'
  BY CleanupAssumption, MarkerAssumption DEF IInv, TypeOK, InOrder, Progress,
     Exec, ReadToken, StartUnit, Activate, UnitEnds, Collect, ClientReturns,
     Frame, Live, local
<1>5. Starting'
  BY CleanupAssumption, MarkerAssumption, SMTT(30) DEF IInv, TypeOK, Exclusive,
     AtNamed, InOrder, Starting, OnRecord, Danger, Excluded, Named, Recovering,
     Constructing, Closing, Pcs, Live, Dangerous, Goto, Leave, Step, Stay,
     Fault, Identified, CloseGate, Stopped, Frame, local, world, Progress,
     Exec, ReadToken, StartUnit, Activate, UnitEnds, Collect, ClientReturns
<1>6. OnRecord'
  BY CleanupAssumption, MarkerAssumption DEF IInv, TypeOK, OnRecord, Progress,
     Exec, ReadToken, StartUnit, Activate, UnitEnds, Collect, ClientReturns,
     Named, Recovering, Constructing, Frame, Live, Closing, local
<1>7. Danger'
  BY CleanupAssumption, MarkerAssumption DEF IInv, TypeOK, Danger, Progress,
     Exec, ReadToken, StartUnit, Activate, UnitEnds, Collect, ClientReturns,
     Dangerous, Frame, Live, local
<1>8. Excluded'
  <2>1. CASE Exec(l)
    BY <2>1, CleanupAssumption, MarkerAssumption, SMTT(30) DEF IInv, TypeOK,
       Exclusive, AtNamed, InOrder, Starting, OnRecord, Danger, Excluded,
       Named, Recovering, Constructing, Closing, Pcs, Live, Dangerous, Goto,
       Leave, Step, Stay, Fault, Identified, CloseGate, Stopped, Frame, local,
       world, Exec
  <2>2. CASE ReadToken(l)
    BY <2>2, CleanupAssumption, MarkerAssumption DEF IInv, TypeOK, Excluded,
       ReadToken, Frame, Live, local
  <2>3. CASE StartUnit(l)
    BY <2>3, CleanupAssumption, MarkerAssumption DEF IInv, TypeOK, Excluded,
       StartUnit, Frame, Live, local
  <2>4. CASE Activate(l)
    BY <2>4, CleanupAssumption, MarkerAssumption DEF IInv, TypeOK, Excluded,
       Activate, Frame, Live, local
  <2>5. CASE UnitEnds(l)
    BY <2>5, CleanupAssumption, MarkerAssumption DEF IInv, TypeOK, Excluded,
       UnitEnds, Live, Frame, local
  <2>6. CASE Collect(l)
    BY <2>6, CleanupAssumption, MarkerAssumption DEF IInv, TypeOK, Excluded,
       Collect, Frame, Live, local
  <2>7. CASE ClientReturns(l)
    BY <2>7, CleanupAssumption, MarkerAssumption DEF IInv, TypeOK, Excluded,
       ClientReturns, Live, Frame, local
  <2>. QED  BY <2>1, <2>2, <2>3, <2>4, <2>5, <2>6, <2>7 DEF Progress
<1>. QED  BY <1>1, <1>2, <1>3, <1>4, <1>5, <1>6, <1>7, <1>8 DEF IInv

\* A launcher that is lost.
LEMMA ClientFailsStep ==
  ASSUME IInv, NEW l \in Launches, ClientFails(l)
  PROVE  IInv'
<1>1. TypeOK'
  BY CleanupAssumption, MarkerAssumption DEF IInv, TypeOK, ClientFails, Fault,
     Frame, Pcs, local, Recovering, Constructing, Closing
<1>2. Exclusive'
  BY CleanupAssumption, MarkerAssumption DEF IInv, TypeOK, Exclusive,
     ClientFails, Fault, Frame, local
<1>3. AtNamed'
  BY CleanupAssumption, MarkerAssumption DEF IInv, TypeOK, AtNamed,
     ClientFails, Fault, Frame, Named, local, Constructing, Closing
<1>4. InOrder'
  BY CleanupAssumption, MarkerAssumption DEF IInv, TypeOK, InOrder,
     ClientFails, Fault, Frame, local
<1>5. Starting'
  BY CleanupAssumption, MarkerAssumption DEF IInv, TypeOK, Starting,
     ClientFails, Fault, Frame, local
<1>6. OnRecord'
  BY CleanupAssumption, MarkerAssumption DEF IInv, TypeOK, OnRecord,
     ClientFails, Fault, Frame, Named, Recovering, Constructing, local, Closing
<1>7. Danger'
  BY CleanupAssumption, MarkerAssumption DEF IInv, TypeOK, Danger, ClientFails,
     Fault, Frame, Dangerous, local, Live
<1>8. Excluded'
  BY CleanupAssumption, MarkerAssumption DEF IInv, TypeOK, Excluded,
     ClientFails, Fault, Frame, Live, local
<1>. QED  BY <1>1, <1>2, <1>3, <1>4, <1>5, <1>6, <1>7, <1>8 DEF IInv

\* A new login.
LEMMA LoginStep ==
  ASSUME IInv, Login
  PROVE  IInv'
<1>1. TypeOK'
  BY CleanupAssumption, MarkerAssumption DEF IInv, TypeOK, Login, local, world,
     Pcs, Recovering, Constructing, Closing
<1>2. Exclusive'
  BY CleanupAssumption, MarkerAssumption DEF IInv, TypeOK, Exclusive, Login,
     local, world
<1>3. AtNamed'
  BY CleanupAssumption, MarkerAssumption DEF IInv, TypeOK, AtNamed, Login,
     local, world, Named, Constructing, Closing
<1>4. InOrder'
  BY CleanupAssumption, MarkerAssumption DEF IInv, TypeOK, InOrder, Login,
     local, world
<1>5. Starting'
  BY CleanupAssumption, MarkerAssumption DEF IInv, TypeOK, Starting, Login,
     local, world
<1>6. OnRecord'
  BY CleanupAssumption, MarkerAssumption DEF IInv, TypeOK, OnRecord, Login,
     local, world, Named, Recovering, Constructing, Closing
<1>7. Danger'
  BY CleanupAssumption, MarkerAssumption DEF IInv, TypeOK, Danger, Login,
     local, world, Dangerous, Live
<1>8. Excluded'
  BY CleanupAssumption, MarkerAssumption DEF IInv, TypeOK, Excluded, Login,
     local, world, Live
<1>. QED  BY <1>1, <1>2, <1>3, <1>4, <1>5, <1>6, <1>7, <1>8 DEF IInv

----------------------------------------------------------------------------
LEMMA InitIInv ==
  ASSUME Init
  PROVE  IInv
<1>1. TypeOK
  BY CleanupAssumption DEF Init, TypeOK, Pcs
<1>2. Exclusive /\ AtNamed
  BY CleanupAssumption DEF Init, Exclusive, AtNamed, Named, Constructing, Closing
<1>3. InOrder /\ Danger
  BY DEF Init, InOrder, Danger, Dangerous, Live
<1>4. Starting /\ OnRecord /\ Excluded
  BY DEF Init, Starting, OnRecord, Excluded, Named, Recovering, Constructing, Closing
<1>. QED  BY <1>1, <1>2, <1>3, <1>4 DEF IInv

LEMMA Inductive ==
  ASSUME IInv, [Next]_vars
  PROVE  IInv'
<1>1. CASE \E c \in Controllers : Recover(c) \/ Construct(c) \/ Finish(c) \/ Fail(c)
  <2>1. PICK c \in Controllers : Recover(c) \/ Construct(c) \/ Finish(c) \/ Fail(c)
    BY <1>1
  <2>. QED  BY <2>1, RecoverStep, ConstructStep, FinishStep, FailStep
<1>2. CASE \E l \in Launches : Progress(l) \/ ClientFails(l)
  <2>1. PICK l \in Launches : Progress(l) \/ ClientFails(l)
    BY <1>2
  <2>. QED  BY <2>1, ProgressStep, ClientFailsStep
<1>3. CASE Login
  BY <1>3, LoginStep
<1>4. CASE UNCHANGED vars
  BY <1>4 DEF IInv, TypeOK, Exclusive, AtNamed, InOrder, Starting, OnRecord, Danger,
     Excluded, Dangerous, Live, vars, local, world
<1>. QED  BY <1>1, <1>2, <1>3, <1>4 DEF Next

LEMMA AlwaysIInv == Spec => []IInv
<1>1. Init => IInv
  BY InitIInv
<1>2. IInv /\ [Next]_vars => IInv'
  BY Inductive
<1>. QED  BY <1>1, <1>2, PTL DEF Spec

\* Whatever evaluators, launches and faults there are, records, gates and units
\* stay within their types: no write produces a record the next read rejects.
THEOREM TypeCorrect == Spec => []TypeOK
<1>1. IInv => TypeOK
  BY DEF IInv
<1>. QED  BY <1>1, AlwaysIInv, PTL

\* No sandbox that runs or may still start is ever without a record that names
\* it and its launcher, whoever died where: the order arm, bind, identify,
\* release of the constructor and disarm only after a confirmed close.
THEOREM DangerAlwaysOnRecord == Spec => []DangerIsOnRecord
<1>1. IInv => DangerIsOnRecord
  BY DEF IInv, Danger, DangerIsOnRecord
<1>. QED  BY <1>1, AlwaysIInv, PTL

\* The shared mountpoint is only ever cleared, laid out and used by one
\* evaluator while no other launch's sandbox runs or may still start: what
\* recover excludes, in the order it looks, is enough.
THEOREM OneTenantAlways == Spec => []OneTenant
<1>1. IInv => OneTenant
  <2> SUFFICES ASSUME IInv, NEW c \in Controllers,
                      pc[c] \notin Recovering \cup {"idle"},
                      NEW l \in Launches, Dangerous(l)
               PROVE  l = at[c]
    BY DEF OneTenant
  <2>1. marker # NoMarker /\ marker.unit = l
    BY DEF IInv, Danger
  <2>2. pc[c] \in Named
    BY <2>1 DEF IInv, TypeOK, OnRecord, Pcs, Named
  <2>. QED  BY <2>1, <2>2 DEF IInv, OnRecord
<1>. QED  BY <1>1, AlwaysIInv, PTL
=============================================================================
