-------------------------- MODULE Firstboot_proofs --------------------------
(***************************************************************************)
(* Proofs about first boots.  Of Rig, for any number of POSTs, stops and   *)
(* power failures: a rig that finished its first boot runs under its own   *)
(* identity, xmrig runs what is in the file but for a restart to come, and *)
(* an answered POST stays in force.  Of Clone, for any disks, addresses    *)
(* and failures: a clone is marked as booted only with a name of its own.  *)
(*                                                                         *)
(* The modules share no name, and each theorem is about one of them.       *)
(***************************************************************************)
EXTENDS Rig, Clone, TLAPS

----------------------------------------------------------------------------
(* Rig: lemmas about contents *)

\* The image is a content, and a full one.
LEMMA ImageType == Image \in Content /\ Image.full = TRUE /\ Image.id = "image"
  BY BoundsAssumption DEF Image, Content

\* The contents the writers make are contents.
LEMMA CompletedType ==
    ASSUME NEW c \in Content
    PROVE  /\ [c EXCEPT !.full = TRUE] \in Content
           /\ [c EXCEPT !.full = TRUE].id = c.id
           /\ [c EXCEPT !.full = TRUE].full = TRUE
  BY DEF Content

LEMMA RenamedType ==
    ASSUME NEW c \in Content
    PROVE  /\ [c EXCEPT !.id = "own"] \in Content
           /\ [c EXCEPT !.id = "own"].id = "own"
           /\ [c EXCEPT !.id = "own"].full = c.full
  BY DEF Content

LEMMA PostedType ==
    ASSUME NEW p \in Posts
    PROVE  /\ [by |-> p, id |-> "own", full |-> FALSE] \in Content
           /\ [by |-> p, id |-> "own", full |-> FALSE].id = "own"
  BY BoundsAssumption DEF Posts, Content

\* A write leaves what was written, or no JSON at all.
LEMMA AfterWrite ==
    ASSUME NEW old, NEW new
    PROVE  After(old, new) \subseteq {new, Mixed}
  BY DEF After

----------------------------------------------------------------------------
(* Rig: the inductive invariant *)

\* The types of what identities depend on
Contents ==
    /\ file \in Content \cup {Empty, Mixed}
    /\ cfg \in Content \cup {Empty}
    /\ copy \in Content \cup {Empty}

Own(c) == c \in Content => c.id = "own"

\* A content that is not full comes from the panel, so that what xmrig saves
\* never brings the identity of the image back.
RawIsOwn ==
    /\ file \in Content /\ ~file.full => file.id = "own"
    /\ cfg \in Content /\ ~cfg.full => cfg.id = "own"
    /\ xmrig = "read" => cfg \in Content
    /\ xmrig = "save" => cfg \in Content /\ cfg.id = "own"

\* How far the script came tells what is renamed, and .firstboot_done is the
\* mark of its end.
Renamed ==
    /\ boot \notin {"start", "host", "agent", "agentOpen", "halted", "failed"} => agentFile = "own"
    /\ Own(copy)
    /\ boot \in {"xmrigRead", "xmrigOpen"} => copy \in Content
    /\ boot \in {"restart", "restartAgent", "touch", "end"} => Own(file)
    /\ boot \in {"restartAgent", "touch", "end"} => Own(cfg)
    /\ done => boot \in {"start", "end"}
    /\ boot = "end" => done
    /\ done => agentFile = "own" /\ Own(file) /\ Own(cfg)

RigInv == Contents /\ RawIsOwn /\ Renamed

LEMMA RigInitInv == Init => RigInv
<1> SUFFICES ASSUME Init PROVE RigInv
  OBVIOUS
<1>1. Contents
  BY ImageType DEF Init, Contents
<1>2. RawIsOwn
  BY ImageType, FileAssumption DEF Init, RawIsOwn
<1>3. Renamed
  BY ImageType, FileAssumption DEF Init, Renamed, Own
<1> QED
  BY <1>1, <1>2, <1>3 DEF RigInv

\* The steps of xmrig
LEMMA XmrigStep ==
    ASSUME RigInv, Xmrig
    PROVE  RigInv'
<1> USE FileAssumption DEF RigInv, Contents, OthersThanXmrig, postVars, bootVars
<1>1. CASE Read \/ Reload
  <2>1. Contents'
    BY <1>1 DEF Read, Reload
  <2>2. RawIsOwn'
    BY <1>1 DEF Read, Reload, RawIsOwn
  <2>3. Renamed'
    BY <1>1 DEF Read, Reload, Renamed, Own
  <2> QED
    BY <2>1, <2>2, <2>3
<1>2. CASE Start \/ Rewatch
  <2>1. Contents' /\ RawIsOwn'
    BY <1>2 DEF Start, Rewatch, RawIsOwn
  <2>2. Renamed'
    BY <1>2 DEF Start, Rewatch, Renamed, Own
  <2> QED
    BY <2>1, <2>2
<1>3. CASE SaveOpen
  <2>1. Contents' /\ RawIsOwn'
    BY <1>3 DEF SaveOpen, Truncate, RawIsOwn
  <2>2. Renamed'
    BY <1>3 DEF SaveOpen, Truncate, Renamed, Own
  <2> QED
    BY <2>1, <2>2
<1>4. CASE SaveWrite
  <2>1. cfg \in Content /\ cfg.id = "own"
    BY <1>4 DEF SaveWrite, RawIsOwn
  <2>2. cfg' \in Content /\ cfg'.id = "own" /\ cfg'.full = TRUE
    BY <1>4, <2>1, CompletedType DEF SaveWrite
  <2>3. file' = cfg' \/ file' = Mixed
    BY <1>4, AfterWrite DEF SaveWrite
  <2>4. Contents' /\ RawIsOwn'
    BY <1>4, <2>2, <2>3 DEF SaveWrite, RawIsOwn
  <2>5. Renamed'
    BY <1>4, <2>2, <2>3 DEF SaveWrite, Renamed, Own
  <2> QED
    BY <2>4, <2>5
<1> QED
  BY <1>1, <1>2, <1>3, <1>4 DEF Xmrig

\* The handlers of the agent
LEMMA PanelStep ==
    ASSUME RigInv,
           (\E p \in Posts : Begin(p) \/ Post(p)) \/ MinerStop \/ MinerStart \/ MinerRestart
    PROVE  RigInv'
<1> USE FileAssumption DEF RigInv, Contents, NotPost, bootVars, fileVars
<1>1. CASE MinerStop \/ MinerStart \/ MinerRestart
  <2>1. Contents' /\ RawIsOwn'
    BY <1>1 DEF MinerStop, MinerStart, MinerRestart, Restart, Ends, RawIsOwn
  <2>2. Renamed'
    BY <1>1 DEF MinerStop, MinerStart, MinerRestart, Restart, Ends, Renamed, Own
  <2> QED
    BY <2>1, <2>2
<1>2. ASSUME NEW p \in Posts, Begin(p) \/ Post(p)
      PROVE  RigInv'
  <2>1. CASE Begin(p)
    BY <2>1 DEF Begin, xmrigVars, RawIsOwn, Renamed, Own
  <2>2. CASE PostOpen(p)
    BY <2>2 DEF PostOpen, Truncate, RawIsOwn, Renamed, Own
  <2>3. CASE PostWrite(p)
    <3> DEFINE new == [by |-> p, id |-> "own", full |-> FALSE]
    <3>1. new \in Content /\ new.id = "own"
      BY PostedType
    <3>2. file' = new \/ file' = Mixed
      BY <2>3, AfterWrite DEF PostWrite, Fill
    <3> HIDE DEF new
    <3> QED
      BY <2>3, <3>1, <3>2 DEF PostWrite, RawIsOwn, Renamed, Own
  <2>4. CASE PostRestart(p)
    BY <2>4 DEF PostRestart, Restart, Ends, RawIsOwn, Renamed, Own
  <2> QED
    BY <1>2, <2>1, <2>2, <2>3, <2>4 DEF Post
<1> QED
  BY <1>1, <1>2

\* The steps of the script
LEMMA FirstbootStep ==
    ASSUME RigInv, Firstboot
    PROVE  RigInv'
<1> USE FileAssumption DEF RigInv, Contents, BootAt, NotBoot, fileVars, xmrigVars
<1>1. CASE BootStart \/ BootHostname
  BY <1>1 DEF BootStart, BootHostname, RawIsOwn, Renamed, Own
<1>2. CASE BootAgentOpen \/ BootAgentWrite
  <2>1. Contents' /\ RawIsOwn'
    BY <1>2 DEF BootAgentOpen, BootAgentWrite, RawIsOwn
  <2>2. Renamed'
    BY <1>2 DEF BootAgentOpen, BootAgentWrite, Renamed, Own
  <2> QED
    BY <2>1, <2>2
<1>3. CASE BootRead
  <2>1. CASE file \in Content
    <3>1. copy' \in Content /\ copy'.id = "own"
      BY <1>3, <2>1, RenamedType DEF BootRead
    <3> QED
      BY <1>3, <2>1, <3>1 DEF BootRead, RawIsOwn, Renamed, Own
  <2>2. CASE file \notin Content
    BY <1>3, <2>2 DEF BootRead, RawIsOwn, Renamed, Own
  <2> QED
    BY <2>1, <2>2
<1>4. CASE BootOpen
  BY <1>4 DEF BootOpen, Truncate, RawIsOwn, Renamed, Own
<1>5. CASE BootWrite
  <2>1. copy \in Content /\ copy.id = "own"
    BY <1>5 DEF BootWrite, Renamed, Own
  <2>2. file' = copy \/ file' = Mixed
    BY <1>5, AfterWrite DEF BootWrite, Fill
  <2> QED
    BY <1>5, <2>1, <2>2 DEF BootWrite, RawIsOwn, Renamed, Own
<1>6. CASE BootRestart
  BY <1>6 DEF BootRestart, Restart, Ends, RawIsOwn, Renamed, Own
<1>7. CASE BootRestartAgent
  BY <1>7 DEF BootRestartAgent, RawIsOwn, Renamed, Own
<1>8. CASE BootTouch
  BY <1>8 DEF BootTouch, RawIsOwn, Renamed, Own
<1> QED
  BY <1>1, <1>2, <1>3, <1>4, <1>5, <1>6, <1>7, <1>8 DEF Firstboot

LEMMA PowerStep ==
    ASSUME RigInv, PowerCycle
    PROVE  RigInv'
BY FileAssumption DEF PowerCycle, Ends, fileVars, RigInv, Contents, RawIsOwn, Renamed, Own

LEMMA RigNextInv == RigInv /\ [Next]_vars => RigInv'
<1> SUFFICES ASSUME RigInv, [Next]_vars PROVE RigInv'
  OBVIOUS
<1>1. CASE UNCHANGED vars
  BY <1>1 DEF vars, fileVars, xmrigVars, bootVars, RigInv, Contents, RawIsOwn, Renamed, Own
<1>2. CASE Next
  BY <1>2, XmrigStep, PanelStep, FirstbootStep, PowerStep DEF Next, Panel
<1> QED
  BY <1>1, <1>2

\* A rig that finished its first boot neither reports nor mines under the
\* identity of the image, for any number of POSTs and of power failures at any
\* step of the script (calaja-firstboot.sh).
THEOREM DoneRenamed == Spec => []DoneMeansRenamed
<1>1. RigInv => DoneMeansRenamed
  BY DEF RigInv, Renamed, Own, DoneMeansRenamed
<1> QED
  BY RigInitInv, RigNextInv, <1>1, PTL DEF Spec

----------------------------------------------------------------------------
(* Rig: types *)

\* The parts of TypeOK
FlagTypes == done \in BOOLEAN /\ changed \in BOOLEAN

FileTypes ==
    /\ file \in Content \cup {Empty, Mixed}
    /\ agentFile \in {"image", "own", Empty}
    /\ xmrig \in {"off", "starting", "read", "save", "up", "reload"}
    /\ cfg \in Content \cup {Empty}
    /\ cfg = Empty <=> xmrig \in {"off", "starting"}
    /\ copy \in Content \cup {Empty}

PlaceTypes ==
    /\ post \in [Posts -> {"none", "built", "open", "written", "answered", "lost"}]
    /\ alone \subseteq Posts
    /\ boot \in {"start", "host", "agent", "agentOpen", "xmrig", "xmrigRead", "xmrigOpen",
                 "restart", "restartAgent", "touch", "end", "halted", "failed"}
    /\ cycles \in 0..MaxCycles /\ stops \in 0..MaxStops

LEMMA TypeParts == TypeOK <=> FlagTypes /\ FileTypes /\ PlaceTypes
  BY SMT DEF TypeOK, FlagTypes, FileTypes, PlaceTypes

LEMMA TypePartsNext == TypeOK' <=> FlagTypes' /\ FileTypes' /\ PlaceTypes'
  BY SMT DEF TypeOK, FlagTypes, FileTypes, PlaceTypes

LEMMA TypeInit == Init => TypeOK
<1> SUFFICES ASSUME Init PROVE TypeOK
  OBVIOUS
<1>1. FlagTypes
  BY Zenon DEF Init, FlagTypes
<1>2. FileTypes
  BY ImageType, FileAssumption DEF Init, FileTypes
<1>3. PlaceTypes
  BY BoundsAssumption DEF Init, PlaceTypes
<1> QED
  BY <1>1, <1>2, <1>3, TypeParts

LEMMA TypeXmrig ==
    ASSUME TypeOK, Xmrig
    PROVE  TypeOK'
<1> USE FileAssumption DEF TypeOK, OthersThanXmrig, postVars, bootVars
<1>1. CASE Read \/ Start \/ Reload \/ Rewatch
  <2>1. FlagTypes' /\ PlaceTypes'
    BY Zenon, <1>1 DEF Read, Start, Reload, Rewatch, FlagTypes, PlaceTypes
  <2>2. FileTypes'
    BY <1>1 DEF Read, Start, Reload, Rewatch, FileTypes
  <2> QED
    BY <2>1, <2>2, TypePartsNext
<1>2. CASE SaveOpen
  BY <1>2 DEF SaveOpen, Truncate, Noticed
<1>3. CASE SaveWrite
  <2>1. cfg' \in Content /\ file' \in {cfg', Mixed}
    BY <1>3, CompletedType, AfterWrite DEF SaveWrite
  <2>2. FlagTypes' /\ PlaceTypes'
    BY Zenon, <1>3 DEF SaveWrite, FlagTypes, PlaceTypes
  <2>3. FileTypes'
    BY <1>3, <2>1 DEF SaveWrite, FileTypes
  <2> QED
    BY <2>2, <2>3, TypePartsNext
<1> QED
  BY <1>1, <1>2, <1>3 DEF Xmrig

LEMMA TypePanel ==
    ASSUME TypeOK, Panel \/ \E p \in Posts : Post(p)
    PROVE  TypeOK'
<1> USE FileAssumption, BoundsAssumption DEF TypeOK, NotPost, bootVars, fileVars
<1>1. CASE MinerStop \/ MinerStart \/ MinerRestart
  <2>1. FlagTypes'
    BY Zenon, <1>1 DEF MinerStop, MinerStart, MinerRestart, Restart, Ends, FlagTypes
  <2>2. FileTypes'
    BY <1>1 DEF MinerStop, MinerStart, MinerRestart, Restart, Ends, FileTypes
  <2>3. PlaceTypes'
    BY <1>1 DEF MinerStop, MinerStart, MinerRestart, postVars, PlaceTypes
  <2> QED
    BY <2>1, <2>2, <2>3, TypePartsNext
<1>2. ASSUME NEW p \in Posts, Begin(p) PROVE TypeOK'
  BY <1>2 DEF Begin, PostAt, xmrigVars
<1>3. ASSUME NEW p \in Posts, PostOpen(p) PROVE TypeOK'
  BY <1>3 DEF PostOpen, PostAt, Truncate, Noticed
<1>4. ASSUME NEW p \in Posts, PostWrite(p) PROVE TypeOK'
  <2>1. file' \in Content \cup {Mixed}
    BY <1>4, PostedType, AfterWrite DEF PostWrite, Fill
  <2> QED
    BY <1>4, <2>1 DEF PostWrite, PostAt, Fill, Noticed
<1>5. ASSUME NEW p \in Posts, PostRestart(p) PROVE TypeOK'
  BY <1>5 DEF PostRestart, PostAt, Restart, Ends
<1> QED
  BY <1>1, <1>2, <1>3, <1>4, <1>5 DEF Panel, Post

LEMMA TypeFirstboot ==
    ASSUME TypeOK, Firstboot \/ PowerCycle
    PROVE  TypeOK'
<1> USE FileAssumption, BoundsAssumption DEF TypeOK, BootAt, NotBoot, postVars, fileVars, xmrigVars
<1>1. CASE BootStart \/ BootHostname \/ BootAgentOpen \/ BootAgentWrite \/ BootTouch
  BY <1>1 DEF BootStart, BootHostname, BootAgentOpen, BootAgentWrite, BootTouch
<1>2. CASE BootRead
  BY <1>2, RenamedType DEF BootRead
<1>3. CASE BootOpen
  BY <1>3 DEF BootOpen, Truncate, Noticed
<1>4. CASE BootWrite
  <2>1. file' \in Content \cup {Empty, Mixed}
    BY <1>4, AfterWrite DEF BootWrite, Fill
  <2> QED
    BY <1>4, <2>1 DEF BootWrite, Fill, Noticed
<1>5. CASE BootRestart
  BY <1>5 DEF BootRestart, Restart, Ends
<1>6. CASE BootRestartAgent
  BY <1>6 DEF BootRestartAgent, Lost
<1>7. CASE PowerCycle
  <2>1. FlagTypes'
    BY Zenon, <1>7 DEF PowerCycle, Ends, FlagTypes
  <2>2. FileTypes'
    BY <1>7 DEF PowerCycle, Ends, FileTypes
  <2>3. PlaceTypes'
    BY <1>7 DEF PowerCycle, Lost, PlaceTypes
  <2> QED
    BY <2>1, <2>2, <2>3, TypePartsNext
<1> QED
  BY <1>1, <1>2, <1>3, <1>4, <1>5, <1>6, <1>7 DEF Firstboot

\* The files, the processes and the handlers keep their types, and xmrig has a
\* configuration exactly from its reading of the file to its end (Base::Base).
THEOREM TypeCorrect == Spec => []TypeOK
<1>1. TypeOK /\ [Next]_vars => TypeOK'
  <2> SUFFICES ASSUME TypeOK, [Next]_vars PROVE TypeOK'
    OBVIOUS
  <2>1. CASE UNCHANGED vars
    BY <2>1 DEF vars, fileVars, xmrigVars, postVars, bootVars, TypeOK
  <2> QED
    BY <2>1, TypeXmrig, TypePanel, TypeFirstboot DEF Next
<1> QED
  BY TypeInit, <1>1, PTL DEF Spec

----------------------------------------------------------------------------
(* Rig: what runs is what is in the file *)

\* An xmrig that runs another content than the file holds awaits a restart: of
\* the script, of the handler that wrote the file, or of one that was killed.
\* It is what remains of RunsTheFile without time (save_xmrig_config and
\* restart_xmrig of agent.py, Base::start, Base::onFileChanged).
StaleAwaitsRestart ==
    file \in Content /\ cfg \in Content /\ cfg.by # file.by =>
        boot = "restart" \/ \E p \in Posts : post[p] \in {"written", "lost"}

LEMMA StaleXmrig ==
    ASSUME TypeOK, StaleAwaitsRestart, Xmrig
    PROVE  StaleAwaitsRestart'
<1> USE FileAssumption DEF StaleAwaitsRestart, OthersThanXmrig, postVars, bootVars
<1>1. CASE Read \/ Start \/ Reload \/ Rewatch
  BY <1>1 DEF Read, Start, Reload, Rewatch
<1>2. CASE SaveOpen
  BY <1>2 DEF SaveOpen, Truncate
<1>3. CASE SaveWrite
  <2>1. file' = cfg' \/ file' = Mixed
    BY <1>3, AfterWrite DEF SaveWrite
  <2> QED
    BY <2>1
<1> QED
  BY <1>1, <1>2, <1>3 DEF Xmrig

LEMMA StalePanel ==
    ASSUME TypeOK, StaleAwaitsRestart, Panel \/ PowerCycle \/ \E p \in Posts : Post(p)
    PROVE  StaleAwaitsRestart'
<1> USE FileAssumption DEF TypeOK, StaleAwaitsRestart, NotPost
<1>1. CASE MinerStop \/ MinerStart \/ MinerRestart \/ PowerCycle
  BY <1>1 DEF MinerStop, MinerStart, MinerRestart, PowerCycle, Restart, Ends
<1>2. ASSUME NEW p \in Posts, Begin(p) PROVE StaleAwaitsRestart'
  <2>1. UNCHANGED <<file, cfg, boot>>
    BY <1>2 DEF Begin, xmrigVars, bootVars
  <2>2. \A q \in Posts : post[q] \in {"written", "lost"} => post'[q] = post[q]
    BY <1>2 DEF Begin, PostAt
  <2> QED
    BY <2>1, <2>2
<1>3. ASSUME NEW p \in Posts, PostOpen(p) \/ PostRestart(p) PROVE StaleAwaitsRestart'
  BY <1>3 DEF PostOpen, PostRestart, Truncate, Restart, Ends
<1>4. ASSUME NEW p \in Posts, PostWrite(p) PROVE StaleAwaitsRestart'
  <2>1. post'[p] = "written"
    BY <1>4 DEF PostWrite, PostAt
  <2> QED
    BY <2>1
<1> QED
  BY <1>1, <1>2, <1>3, <1>4 DEF Panel, Post

LEMMA StaleFirstboot ==
    ASSUME TypeOK, StaleAwaitsRestart, Firstboot
    PROVE  StaleAwaitsRestart'
<1> USE FileAssumption DEF TypeOK, StaleAwaitsRestart, BootAt, NotBoot, postVars, fileVars, xmrigVars
<1>1. CASE BootStart \/ BootHostname \/ BootAgentOpen \/ BootAgentWrite \/ BootTouch \/ BootRead
  BY <1>1 DEF BootStart, BootHostname, BootAgentOpen, BootAgentWrite, BootTouch, BootRead
<1>2. CASE BootOpen \/ BootWrite \/ BootRestart
  BY <1>2 DEF BootOpen, BootWrite, BootRestart, Truncate, Restart, Ends
<1>3. CASE BootRestartAgent
  <2>1. UNCHANGED <<file, cfg>> /\ boot # "restart"
    BY <1>3 DEF BootRestartAgent
  <2>2. \A q \in Posts : post[q] \in {"written", "lost"} => post'[q] = "lost"
    BY <1>3 DEF BootRestartAgent, Lost, Running
  <2> QED
    BY <2>1, <2>2
<1> QED
  BY <1>1, <1>2, <1>3 DEF Firstboot

\* For any number of POSTs, stops and power failures, once no writer is between
\* its write and its restart and no handler was killed, xmrig runs the file.
THEOREM StaleAwaitsRestartHolds == Spec => []StaleAwaitsRestart
<1>1. Init => StaleAwaitsRestart
  BY FileAssumption DEF Init, StaleAwaitsRestart
<1>2. TypeOK /\ StaleAwaitsRestart /\ [Next]_vars => StaleAwaitsRestart'
  <2> SUFFICES ASSUME TypeOK, StaleAwaitsRestart, [Next]_vars PROVE StaleAwaitsRestart'
    OBVIOUS
  <2>1. CASE UNCHANGED vars
    BY <2>1 DEF vars, fileVars, xmrigVars, postVars, bootVars, StaleAwaitsRestart
  <2> QED
    BY <2>1, StaleXmrig, StalePanel, StaleFirstboot DEF Next
<1> QED
  BY <1>1, <1>2, TypeCorrect, PTL DEF Spec

----------------------------------------------------------------------------
(* Rig: the configuration of the last POST *)

\* The panel's POSTs begin one after the other.
Ordered == \A p, q \in Posts : q < p /\ post[p] # "none" => post[q] # "none"

Newest(p) == \A q \in Posts : q > p => post[q] = "none"
Holds(p) == file \in Content /\ file.by = p

\* What the newest POST finds and leaves when it began on a settled rig.  A
\* configuration without profiles is saved over the file, so that such a one is
\* always that of the POST itself.
Kept(p) ==
    /\ xmrig = "read" /\ ~cfg.full => cfg.by = p /\ post[p] \in {"written", "answered"}
    /\ xmrig = "save" => cfg.by = p /\ file = Empty /\ post[p] \in {"written", "answered"}
    /\ post[p] = "built" => file \in Content /\ file.full
    /\ post[p] = "open" => file = Empty
    /\ post[p] = "written" => Holds(p) \/ xmrig = "save"
    /\ post[p] = "answered" => (Holds(p) \/ file = Empty) /\ (cfg \in Content => cfg.by = p)

\* A POST that began on a settled rig is alone: the script is over and no older
\* handler runs.
Alone(p) ==
    /\ post[p] # "none" /\ done
    /\ \A q \in Posts : q < p => q \notin Running
    /\ Newest(p) /\ post[p] # "lost" => Kept(p)

AloneInv == Ordered /\ \A p \in alone : Alone(p)

\* What PostInForce says of the state at every moment: when the last POST was
\* answered and had begun on a settled rig, the file holds it or was cut in
\* two, and xmrig runs it when it runs (save_xmrig_config and restart_xmrig of
\* agent.py, Base::start).
AnsweredStays ==
    \A p \in alone : LastPost(p) =>
        /\ Holds(p) \/ file = Empty
        /\ cfg \in Content => cfg.by = p

\* After its end the script only finds its mark again.
LEMMA OverIsOver ==
    ASSUME RigInv
    PROVE  /\ done => boot \in {"start", "end"}
           /\ boot = "end" => done
  BY DEF RigInv, Renamed

\* A step that leaves the handlers alone
LEMMA SamePosts ==
    ASSUME AloneInv, UNCHANGED <<postVars, done>>,
           ASSUME NEW p \in alone, Kept(p), post[p] # "none", post[p] # "lost" PROVE Kept(p)'
    PROVE  AloneInv'
  BY DEF AloneInv, Ordered, Alone, Newest, Running, postVars

LEMMA AloneXmrig ==
    ASSUME TypeOK, AloneInv, Xmrig
    PROVE  AloneInv'
<1>1. ASSUME NEW p \in alone, Kept(p), post[p] # "none", post[p] # "lost" PROVE Kept(p)'
  <2> USE <1>1, FileAssumption DEF Kept, Holds, OthersThanXmrig, postVars
  <2>1. p \in Posts /\ post[p] \in {"built", "open", "written", "answered"}
    BY DEF TypeOK
  <2>2. CASE Read \/ Start
    BY <2>1, <2>2 DEF Read, Start
  <2>3. CASE Reload \/ Rewatch
    BY <2>1, <2>3 DEF Reload, Rewatch
  <2>4. CASE SaveOpen
    BY <2>1, <2>4 DEF SaveOpen, Truncate
  <2>5. CASE SaveWrite
    <3>1. cfg \in Content /\ cfg.by = p /\ file = Empty /\ post[p] \in {"written", "answered"}
      BY <2>5 DEF SaveWrite, TypeOK
    <3>2. cfg' \in Content /\ cfg'.by = p
      BY <2>5, <3>1 DEF SaveWrite, Content
    <3>3. file' = cfg'
      BY <2>5, <3>1 DEF SaveWrite, After
    <3> QED
      BY <2>5, <3>1, <3>2, <3>3 DEF SaveWrite
  <2> QED
    BY <2>2, <2>3, <2>4, <2>5 DEF Xmrig
<1>2. UNCHANGED <<postVars, done>>
  BY DEF Xmrig, Read, Start, SaveOpen, SaveWrite, Reload, Rewatch, OthersThanXmrig
<1> QED
  BY <1>1, <1>2, SamePosts

LEMMA AloneStops ==
    ASSUME TypeOK, AloneInv, MinerStop \/ MinerStart \/ MinerRestart
    PROVE  AloneInv'
<1>1. ASSUME NEW p \in alone, Kept(p), post[p] # "none", post[p] # "lost" PROVE Kept(p)'
  BY <1>1, FileAssumption
     DEF MinerStop, MinerStart, MinerRestart, Restart, Ends, fileVars, postVars, Kept, Holds
<1>2. UNCHANGED <<postVars, done>>
  BY DEF MinerStop, MinerStart, MinerRestart, fileVars
<1> QED
  BY <1>1, <1>2, SamePosts

\* Without done nothing is claimed, and with it the script has nothing to do.
LEMMA AloneFirstboot ==
    ASSUME TypeOK, RigInv, AloneInv, Firstboot
    PROVE  AloneInv'
<1>1. CASE done
  <2>1. BootStart
    BY <1>1, OverIsOver DEF Firstboot, BootAt, BootHostname, BootAgentOpen, BootAgentWrite, BootRead, BootOpen,
       BootWrite, BootRestart, BootRestartAgent, BootTouch
  <2> QED
    BY <2>1 DEF BootStart, fileVars, xmrigVars, postVars, NotBoot, AloneInv, Ordered, Alone, Newest,
       Running, Kept, Holds
<1>2. CASE ~done
  <2>1. alone = {} /\ alone' = alone
    BY <1>2 DEF AloneInv, Alone, Firstboot, BootStart, BootHostname, BootAgentOpen, BootAgentWrite, BootRead,
       BootOpen, BootWrite, BootRestart, BootRestartAgent, BootTouch, NotBoot, postVars
  <2>2. \A q \in Posts : post'[q] = "none" <=> post[q] = "none"
    BY DEF TypeOK, Firstboot, BootStart, BootHostname, BootAgentOpen, BootAgentWrite, BootRead, BootOpen, BootWrite,
       BootRestart, BootRestartAgent, BootTouch, Lost, Running, NotBoot, postVars
  <2> QED
    BY <2>1, <2>2 DEF AloneInv, Ordered
<1> QED
  BY <1>1, <1>2

LEMMA AlonePower ==
    ASSUME TypeOK, AloneInv, PowerCycle
    PROVE  AloneInv'
<1>1. UNCHANGED <<file, done, alone>> /\ xmrig' = "starting" /\ cfg' = Empty
  BY DEF PowerCycle, Ends, fileVars
<1>2. \A q \in Posts : post'[q] = IF q \in Running THEN "lost" ELSE post[q]
  BY DEF PowerCycle, Lost
<1>3. ASSUME NEW p \in alone, Newest(p)', post'[p] # "lost" PROVE Kept(p)'
  <2>1. p \in Posts /\ post[p] = "answered" /\ post'[p] = "answered"
    BY <1>2, <1>3 DEF AloneInv, Alone, TypeOK, Running
  <2>2. Newest(p)
    BY <1>2, <1>3 DEF Newest
  <2>3. Kept(p)
    BY <1>3, <2>1, <2>2 DEF AloneInv, Alone
  <2> QED
    BY <1>1, <2>1, <2>3, FileAssumption DEF Kept, Holds
<1>4. Ordered'
  <2>1. \A q \in Posts : post'[q] = "none" <=> post[q] = "none"
    BY <1>2 DEF Running
  <2> QED
    BY <2>1 DEF AloneInv, Ordered
<1>5. ASSUME NEW p \in alone
      PROVE  post'[p] # "none" /\ \A q \in Posts : q < p => q \notin Running'
  BY <1>2 DEF AloneInv, Alone, TypeOK, Running
<1> QED
  BY <1>1, <1>3, <1>4, <1>5 DEF AloneInv, Alone

\* A POST that begins
LEMMA AloneBegin ==
    ASSUME TypeOK, RigInv, AloneInv, NEW p \in Posts, Begin(p)
    PROVE  AloneInv'
<1> USE DEF Begin, PostAt
<1>1. UNCHANGED <<file, done, xmrig, cfg>>
  BY DEF NotPost, xmrigVars
<1>2. post' = [post EXCEPT ![p] = "built"] /\ post[p] = "none" /\ p \in Int
  BY BoundsAssumption DEF Posts
<1>3. post \in [Posts -> {"none", "built", "open", "written", "answered", "lost"}] /\ Posts \subseteq Int
  BY BoundsAssumption DEF TypeOK, Posts
<1>4. Ordered'
  BY <1>2, <1>3, BoundsAssumption DEF AloneInv, Ordered, Posts
<1>5. ASSUME NEW o \in alone PROVE Alone(o)'
  <2>1. o \in Posts /\ post[o] # "none" /\ o # p /\ o < p
    BY <1>2, <1>3, <1>5 DEF TypeOK, AloneInv, Alone, Ordered
  <2>2. ~Newest(o)'
    BY <1>2, <1>3, <2>1 DEF Newest
  <2>3. Alone(o)
    BY <1>5 DEF AloneInv
  <2> QED
    BY <1>1, <1>2, <1>3, <2>1, <2>2, <2>3 DEF Alone, Running
<1>6. ASSUME Settled PROVE Alone(p)'
  <2>1. done
    BY <1>6, OverIsOver DEF Settled
  <2>2. Kept(p)'
    BY <1>1, <1>2, <1>3, <1>6 DEF Settled, Kept
  <2>3. \A q \in Posts : q < p => q \notin Running'
    BY <1>2, <1>3, <1>6 DEF Settled, Running
  <2> QED
    BY <1>1, <1>2, <1>3, <2>1, <2>2, <2>3 DEF Alone
<1> QED
  BY <1>4, <1>5, <1>6 DEF AloneInv

\* A handler's next step: it is the newest POST's, or nothing is claimed.
LEMMA AlonePost ==
    ASSUME TypeOK, AloneInv, NEW p \in Posts, Post(p)
    PROVE  AloneInv'
<1> USE FileAssumption
<1>1. post \in [Posts -> {"none", "built", "open", "written", "answered", "lost"}] /\ Posts \subseteq Int
  BY BoundsAssumption DEF TypeOK, Posts
<1>2. /\ p \in Running
      /\ post' = [post EXCEPT ![p] = post'[p]] /\ post'[p] \in {"open", "written", "answered"}
      /\ UNCHANGED <<done, alone>>
  BY <1>1 DEF Post, PostOpen, PostWrite, PostRestart, PostAt, Running, NotPost
<1>3. Ordered'
  BY <1>1, <1>2 DEF AloneInv, Ordered, Running
<1>4. ASSUME NEW o \in alone PROVE Alone(o)'
  <2>1. o \in Posts /\ Alone(o)
    BY DEF AloneInv, TypeOK
  <2>2. CASE o # p
    <3>1. o < p
      BY <1>1, <1>2, <2>1, <2>2 DEF Alone
    <3>2. ~Newest(o)'
      BY <1>1, <1>2, <2>1, <3>1 DEF Newest
    <3> QED
      BY <1>1, <1>2, <2>1, <2>2, <3>1, <3>2 DEF Alone, Running
  <2>3. CASE o = p
    <3>1. ASSUME Newest(p)' PROVE Kept(p)'
      <4>1. Newest(p) /\ Kept(p)
        BY <1>1, <1>2, <2>1, <2>3, <3>1 DEF Newest, Alone, Running
      <4>2. CASE PostOpen(p)
        BY <1>1, <4>1, <4>2 DEF PostOpen, PostAt, Truncate, Kept
      <4>3. CASE PostWrite(p)
        <5> DEFINE new == [by |-> p, id |-> "own", full |-> FALSE]
        <5>1. file = Empty /\ post[p] = "open" /\ post'[p] = "written"
          BY <1>1, <4>1, <4>3 DEF PostWrite, PostAt, Kept
        <5>2. file' = new /\ new \in Content /\ new.by = p
          BY <4>3, <5>1, PostedType DEF PostWrite, Fill, After
        <5>3. UNCHANGED <<xmrig, cfg>>
          BY <4>3 DEF PostWrite
        <5> HIDE DEF new
        <5> QED
          BY <4>1, <5>1, <5>2, <5>3 DEF Kept, Holds
      <4>4. CASE PostRestart(p)
        BY <1>1, <4>1, <4>4 DEF PostRestart, PostAt, Restart, Ends, Kept, Holds
      <4> QED
        BY <4>2, <4>3, <4>4 DEF Post
    <3> QED
      BY <1>1, <1>2, <2>1, <2>3, <3>1 DEF Alone, Running
  <2> QED
    BY <2>2, <2>3
<1> QED
  BY <1>2, <1>3, <1>4 DEF AloneInv

LEMMA AloneInvHolds == Spec => []AloneInv
<1>1. Init => AloneInv
  BY DEF Init, AloneInv, Ordered
<1>2. TypeOK /\ RigInv /\ AloneInv /\ [Next]_vars => AloneInv'
  <2> SUFFICES ASSUME TypeOK, RigInv, AloneInv, [Next]_vars PROVE AloneInv'
    OBVIOUS
  <2>1. CASE UNCHANGED vars
    BY <2>1 DEF vars, fileVars, xmrigVars, postVars, AloneInv, Ordered, Alone, Newest, Running, Kept, Holds
  <2> QED
    BY <2>1, AloneXmrig, AloneStops, AloneFirstboot, AlonePower, AloneBegin, AlonePost DEF Next, Panel
<1> QED
  BY <1>1, <1>2, TypeCorrect, RigInitInv, RigNextInv, PTL DEF Spec

\* "config salva e xmrig reiniciado" of a POST that began on a settled rig stays
\* true until the next POST, for any number of stops and power failures, unless
\* a failure cuts the file while xmrig saves it (agent.py).
THEOREM AnsweredStaysHolds == Spec => []AnsweredStays
<1>1. TypeOK /\ AloneInv => AnsweredStays
  BY DEF TypeOK, AloneInv, Alone, LastPost, Newest, Kept, AnsweredStays
<1> QED
  BY <1>1, TypeCorrect, AloneInvHolds, PTL

----------------------------------------------------------------------------
(* Clone: the inductive invariant *)

Booting == {"host", "agent", "miner", "touch"}

\* What the script has brought about at each of its steps
CloneScriptInv ==
    /\ step # "idle" => ~finished[disk]
    /\ step \in {"mount", "bind", "prepare", "refresh", "umount"} => data[disk] # "old"
    /\ step = "umount" => ~marked[disk]

\* What a first boot has brought about at each of its steps
CloneBootInv ==
    \A d \in Disks :
        /\ rig[d] # "off" => finished[d]
        /\ rig[d] \in Booting => ~marked[d]
        /\ rig[d] \in {"agent", "miner", "touch"} => host[d] = NewName(d) \/ unnamed[d]
        /\ rig[d] \in {"miner", "touch"} => agent[d] = NewName(d)
        /\ rig[d] = "touch" => miner[d] = NewName(d)

CloneInv == CloneTypes /\ CloneScriptInv /\ CloneBootInv /\ MarkedIsNamed

\* A name by an address or a MAC is neither the source's nor a file cut in two.
LEMMA NewNameIsOwn ==
    ASSUME CloneTypes, NEW d \in Disks
    PROVE  NewName(d) \in Names \ {Source, Cut}
<1>1. d \in Nat \ {0} /\ Octets \subseteq Nat \ {0}
  BY NumbersAssumption
<1>2. lease[d] \in Octets \cup {0}
  BY DEF CloneTypes
<1> QED
  BY <1>1, <1>2 DEF NewName, Names, Source, Cut, Mac

LEMMA CloneInitInv == CloneInit => CloneInv
<1> SUFFICES ASSUME CloneInit PROVE CloneInv
  OBVIOUS
<1>1. CloneTypes
  BY DEF CloneInit, CloneTypes, Names, Source, Cut
<1>2. CloneScriptInv /\ CloneBootInv /\ MarkedIsNamed
  BY DEF CloneInit, CloneScriptInv, CloneBootInv, MarkedIsNamed, Booting
<1> QED
  BY <1>1, <1>2 DEF CloneInv

LEMMA CloneTypeStep == CloneInv /\ [CloneNext]_cloneVars => CloneTypes'
<1> SUFFICES ASSUME CloneInv, [CloneNext]_cloneVars PROVE CloneTypes'
  OBVIOUS
<1> USE DEF CloneInv, CloneTypes
<1>1. CASE BeginClone
  BY <1>1 DEF BeginClone, names, rigs
<1>2. CASE Unmount
  BY <1>2 DEF Unmount, At, Goes, names, rigs
<1>3. CASE Copy
  BY <1>3 DEF Copy, At, Goes, Aborts, rigs, CloneScriptInv, Names, Source, Cut
<1>4. CASE Mount
  BY <1>4 DEF Mount, At, Goes, Aborts, names, rigs
<1>5. CASE Bind
  BY <1>5 DEF Bind, At, Goes, Aborts, names, rigs
<1>6. CASE Prepare
  BY <1>6 DEF Prepare, At, Goes, Aborts, names, rigs
<1>7. CASE Refresh
  BY <1>7 DEF Refresh, At, Goes, Aborts, names, rigs
<1>8. CASE Umount
  BY <1>8 DEF Umount, At, Goes, names, rigs, CloneScriptInv
<1>9. ASSUME NEW d \in Disks, Boot(d) PROVE CloneTypes'
  BY <1>9 DEF Boot, Rig, Free, names, script
<1>10. ASSUME NEW d \in Disks, BootHost(d) PROVE CloneTypes'
  <2>1. host' \in [Disks -> Names \ {Cut}]
    BY <1>10, NewNameIsOwn DEF BootHost
  <2>2. unnamed' \in [Disks -> BOOLEAN]
    <3>1. CASE unnamed' = [unnamed EXCEPT ![d] = FALSE]
      BY <3>1
    <3>2. CASE unnamed' = [unnamed EXCEPT ![d] = host[d] # NewName(d)]
      <4>1. (host[d] # NewName(d)) \in BOOLEAN
        OBVIOUS
      <4> QED
        BY <3>2, <4>1
    <3> QED
      BY <1>10, <3>1, <3>2 DEF BootHost
  <2>3. rig' \in [Disks -> {"off", "host", "agent", "miner", "touch", "run", "halted", "failed"}]
    BY <1>10 DEF BootHost, Rig
  <2> QED
    BY <1>10, <2>1, <2>2, <2>3 DEF BootHost, Rig, script
<1>11. ASSUME NEW d \in Disks, BootAgent(d) PROVE CloneTypes'
  BY <1>11, NewNameIsOwn DEF BootAgent, Rig, script, Names
<1>12. ASSUME NEW d \in Disks, BootMiner(d) PROVE CloneTypes'
  BY <1>12, NewNameIsOwn DEF BootMiner, Rig, script, Names
<1>13. ASSUME NEW d \in Disks, BootMark(d) PROVE CloneTypes'
  BY <1>13 DEF BootMark, Rig, names, script
<1>14. ASSUME NEW d \in Disks, PowerOff(d) PROVE CloneTypes'
  BY <1>14 DEF PowerOff, Rig, names, script, Names
<1>15. CASE UNCHANGED cloneVars
  BY <1>15 DEF cloneVars, script, names, rigs
<1> QED
  BY <1>1, <1>2, <1>3, <1>4, <1>5, <1>6, <1>7, <1>8, <1>9, <1>10, <1>11, <1>12, <1>13,
     <1>14, <1>15 DEF CloneNext, Script, FirstBoot

LEMMA CloneInvStep == CloneInv /\ [CloneNext]_cloneVars => (CloneScriptInv /\ CloneBootInv /\ MarkedIsNamed)'
<1> SUFFICES ASSUME CloneInv, [CloneNext]_cloneVars PROVE (CloneScriptInv /\ CloneBootInv /\ MarkedIsNamed)'
  OBVIOUS
<1> USE DEF CloneInv, CloneTypes, CloneScriptInv, CloneBootInv, MarkedIsNamed, Booting, NewName
<1>1. CASE BeginClone
  BY <1>1 DEF BeginClone, names, rigs
<1>2. CASE Unmount
  BY <1>2 DEF Unmount, At, Goes, names, rigs
<1>3. CASE Copy
  BY <1>3 DEF Copy, At, Goes, Aborts, rigs
<1>4. CASE Mount
  BY <1>4 DEF Mount, At, Goes, Aborts, names, rigs
<1>5. CASE Bind
  BY <1>5 DEF Bind, At, Goes, Aborts, names, rigs
<1>6. CASE Prepare
  BY <1>6 DEF Prepare, At, Goes, Aborts, names, rigs
<1>7. CASE Refresh
  BY <1>7 DEF Refresh, At, Goes, Aborts, names, rigs
<1>8. CASE Umount
  BY <1>8 DEF Umount, At, Goes, names, rigs
<1>9. ASSUME NEW d \in Disks, Boot(d) PROVE (CloneScriptInv /\ CloneBootInv /\ MarkedIsNamed)'
  BY <1>9 DEF Boot, Rig, names, script
<1>10. ASSUME NEW d \in Disks, BootHost(d) PROVE (CloneScriptInv /\ CloneBootInv /\ MarkedIsNamed)'
  BY <1>10 DEF BootHost, Rig, script
<1>11. ASSUME NEW d \in Disks, BootAgent(d) PROVE (CloneScriptInv /\ CloneBootInv /\ MarkedIsNamed)'
  BY <1>11 DEF BootAgent, Rig, script
<1>12. ASSUME NEW d \in Disks, BootMiner(d) PROVE (CloneScriptInv /\ CloneBootInv /\ MarkedIsNamed)'
  BY <1>12 DEF BootMiner, Rig, script
<1>13. ASSUME NEW d \in Disks, BootMark(d) PROVE (CloneScriptInv /\ CloneBootInv /\ MarkedIsNamed)'
  <2>1. NewName(d) # Source
    BY NewNameIsOwn
  <2> QED
    BY <1>13, <2>1 DEF BootMark, Rig, names, script
<1>14. ASSUME NEW d \in Disks, PowerOff(d) PROVE (CloneScriptInv /\ CloneBootInv /\ MarkedIsNamed)'
  BY <1>14 DEF PowerOff, Rig, names, script
<1>15. CASE UNCHANGED cloneVars
  BY <1>15 DEF cloneVars, script, names, rigs
<1> QED
  BY <1>1, <1>2, <1>3, <1>4, <1>5, <1>6, <1>7, <1>8, <1>9, <1>10, <1>11, <1>12, <1>13,
     <1>14, <1>15 DEF CloneNext, Script, FirstBoot

LEMMA CloneInvHolds == CloneSpec => []CloneInv
<1>1. CloneInv /\ [CloneNext]_cloneVars => CloneInv'
  BY CloneTypeStep, CloneInvStep DEF CloneInv
<1> QED
  BY CloneInitInv, <1>1, PTL DEF CloneSpec

\* A clone that is marked as booted has one name of its own in both
\* configurations, and in the hostname unless hostnamectl failed
\* (clone-usb-safe.sh, its first-boot script).
THEOREM MarkedIsNamedHolds == CloneSpec => []MarkedIsNamed
<1>1. CloneInv => MarkedIsNamed
  BY DEF CloneInv
<1> QED
  BY CloneInvHolds, <1>1, PTL

\* Names, disks and the script's place keep their types.
THEOREM CloneTypeCorrect == CloneSpec => []CloneTypes
<1>1. CloneInv => CloneTypes
  BY DEF CloneInv
<1> QED
  BY CloneInvHolds, <1>1, PTL
=============================================================================
