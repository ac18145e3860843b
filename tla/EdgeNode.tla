------------------------------ MODULE EdgeNode -------------------------------
(***************************************************************************)
(* The detection loop of the edge node (5g-edge-node/capture.py) with the  *)
(* parts it calls: the two window builders (flow_builder.py), the stage-2  *)
(* override kept by model_engine.py and the trigger of trigger.py.         *)
(*                                                                         *)
(* The process has one thread.  pc is the program point of the main line   *)
(* (process_original_packet, then the finally block of main); stage is the *)
(* program point inside _handle_window, which runs to its end before the   *)
(* main line goes on.  The steps are split where time passes (inference,   *)
(* evidence collection), where an exception or a signal can cut the run    *)
(* short, and where a kill leaves something half done.                     *)
(***************************************************************************)
EXTENDS WindowBuilder

CONSTANTS
  SmallWindow,     \* window_builder_10.window_size
  LargeWindow,     \* window_builder_100.window_size
  OverrideSpan,    \* the literal 100 of classify_flow
  Cooldown,        \* COOLDOWN_SECONDS
  Tiers,           \* {"heavy", "lite"}
  AttackLabels,    \* what stages 2 and 3 can answer
  OverrideLabels,  \* the answers of family Flood or Mirai
  StartTime,       \* wall clock when the process is first started
  MaxTime,         \* bound on the clock
  MaxPackets,      \* bound on the packets of one life of the process
  MaxLives         \* bound on the (re)starts of the container

ASSUME SizeAssumption ==
  /\ SmallWindow \in Nat \ {0}
  /\ LargeWindow \in Nat \ {0}
  /\ OverrideSpan \in Nat
  /\ OverrideSpan <= LargeWindow

\* The clock is seconds since 1970: the default 0 of _last_triggered.get() is
\* always further back than the cooldown.
ASSUME TimeAssumption ==
  /\ Cooldown \in Nat
  /\ StartTime \in Nat
  /\ StartTime >= Cooldown

ASSUME LabelAssumption ==
  /\ OverrideLabels \subseteq AttackLabels
  /\ {"Benign", "ModelUnavailable"} \cap AttackLabels = {}

Scales == {"w10", "w100"}
SizeOf(s) == IF s = "w10" THEN SmallWindow ELSE LargeWindow

MainPoints == {"idle", "add10", "add100", "expire10", "expire100"}
FlushPoints == {"flush10", "flush100", "counters"}
Labels == AttackLabels \cup {"Benign", "ModelUnavailable"}

VARIABLES
  pc,            \* program point of the main line
  stage,         \* program point inside _handle_window
  now,           \* time.time()
  pos,           \* _total_packets_processed
  tag,           \* flow_id of the packet being processed
  builder,       \* window_builder_10, window_builder_100
  win,           \* the window argument of _handle_window, and its position
  res,           \* result of the classifier
  override,      \* _stage2_override, per tier
  lastTriggered, \* _last_triggered, per attack type
  life           \* number of the container's current start

\* What is recorded of a run for the properties; no action reads it.
VARIABLES
  covered,       \* per scale: packets the item rows of this life account for
  clean,         \* no exception has cut a handler or the main line short
  lastLarge,     \* position at which the latest full 100-window closed
  lastGated,     \* position of the latest 10-window that stage 1 let through
  arrival,       \* per scale: when the last packet was added
  bundle         \* the latest evidence bundle of this life

code == <<pc, stage, now, pos, tag, builder, win, res, override, lastTriggered, life>>
history == <<covered, clean, lastLarge, lastGated, arrival, bundle>>
vars == <<code, history>>

NoWindow == [scale |-> "none", position |-> 0, of |-> Finalize(EmptyBuilder, "none")]
NoResult == [label |-> "none", sure |-> FALSE, by |-> "none", upto |-> 0]
NoOverride == [label |-> "none", sure |-> FALSE, upto |-> 0, flow |-> NoFlow]
NoBundle == [first |-> 0, last |-> 0, at |-> 0]

\* The module-level state of a fresh interpreter.
FreshProcess ==
  [pc |-> "idle", stage |-> "none", pos |-> 0, tag |-> NoFlow,
   builder |-> [s \in Scales |-> EmptyBuilder],
   win |-> NoWindow, res |-> NoResult,
   override |-> [t \in Tiers |-> NoOverride],
   lastTriggered |-> [l \in Labels |-> 0],
   covered |-> [s \in Scales |-> 0],
   clean |-> TRUE,
   lastLarge |-> 0, lastGated |-> 0,
   arrival |-> [s \in Scales |-> 0],
   bundle |-> NoBundle]

Init ==
  /\ pc = FreshProcess.pc /\ stage = FreshProcess.stage
  /\ pos = FreshProcess.pos /\ tag = FreshProcess.tag
  /\ builder = FreshProcess.builder
  /\ win = FreshProcess.win /\ res = FreshProcess.res
  /\ override = FreshProcess.override
  /\ lastTriggered = FreshProcess.lastTriggered
  /\ covered = FreshProcess.covered /\ clean = FreshProcess.clean
  /\ lastLarge = FreshProcess.lastLarge /\ lastGated = FreshProcess.lastGated
  /\ arrival = FreshProcess.arrival /\ bundle = FreshProcess.bundle
  /\ now = StartTime
  /\ life = 1
------------------------------------------------------------------------------
(* process_original_packet and main: the main line.                        *)

At(point) == pc = point /\ stage = "none"

\* Close builder b of scale s into the argument of _handle_window.
Close(s, b, reason, position) ==
  /\ builder' = [builder EXCEPT ![s] = EmptyBuilder]
  /\ win' = [scale |-> s, position |-> position, of |-> Finalize(b, reason)]
  /\ stage' = "handle"

\* add_packet on the builder of scale s; a full window goes to its handler.
AddTo(s, t, position) ==
  LET b == AddRow(builder[s], t, now) IN
  /\ arrival' = [arrival EXCEPT ![s] = now]
  /\ IF IsFull(b, SizeOf(s))
     THEN Close(s, b, "window_size", position)
     ELSE builder' = [builder EXCEPT ![s] = b] /\ UNCHANGED <<win, stage>>

\* A decapsulated, unfragmented IPv4 packet with flow_id t comes in and is
\* counted, here and in the counters, whose writing may raise.
ReceivePacket(t) ==
  /\ At("idle")
  /\ pos < MaxPackets
  /\ pos' = pos + 1
  /\ tag' = t
  /\ pc' = "add10"
  /\ UNCHANGED <<stage, now, builder, win, res, override, lastTriggered, life, history>>

AddToSmall ==
  /\ At("add10")
  /\ AddTo("w10", tag, pos)
  /\ pc' = "add100"
  /\ UNCHANGED <<now, pos, tag, res, override, lastTriggered, life, covered, clean, lastLarge,
                 lastGated, bundle>>

AddToLarge ==
  /\ At("add100")
  /\ AddTo("w100", tag, pos)
  /\ lastLarge' = IF Len(builder["w100"].rows) + 1 >= LargeWindow THEN pos ELSE lastLarge
  /\ pc' = "expire10"
  /\ UNCHANGED <<now, pos, tag, res, override, lastTriggered, life, covered, clean, lastGated,
                 bundle>>

\* expire_stale_partial_window on one builder.
Expire(s, point, next) ==
  /\ At(point)
  /\ IF IsStale(builder[s], now)
     THEN Close(s, builder[s], "idle_stale", pos)
     ELSE UNCHANGED <<builder, win, stage>>
  /\ pc' = next
  /\ UNCHANGED <<now, pos, tag, res, override, lastTriggered, life, history>>

ExpireSmall == Expire("w10", "expire10", "expire100")
ExpireLarge == Expire("w100", "expire100", "idle")

\* flush in the finally block of main.
Flush(s, point, next) ==
  /\ At(point)
  /\ IF builder[s].rows # <<>>
     THEN Close(s, builder[s], "shutdown_flush", pos)
     ELSE UNCHANGED <<builder, win, stage>>
  /\ pc' = next
  /\ UNCHANGED <<now, pos, tag, res, override, lastTriggered, life, history>>

\* Mutant: the second flush of the finally block is missing.
NoFlushLarge ==
  /\ At("flush100")
  /\ pc' = "counters"
  /\ UNCHANGED <<stage, now, pos, tag, builder, win, res, override, lastTriggered, life, history>>

FlushSmall == Flush("w10", "flush10", "flush100")
FlushLarge == Flush("w100", "flush100", "counters")

\* flush_counters, tcpdump.terminate, and the process exits.
Exit ==
  /\ At("counters")
  /\ pc' = "stopped"
  /\ UNCHANGED <<stage, now, pos, tag, builder, win, res, override, lastTriggered, life, history>>
------------------------------------------------------------------------------
(* _handle_window.                                                         *)

Return == stage' = "none" /\ win' = NoWindow /\ res' = NoResult

WriteRow == covered' = [covered EXCEPT ![win.scale] = @ + win.of.count]

\* Mutant: stale and trailing windows are classified like the others.
NeverPartial == FALSE

IsPartial == win.of.count # SizeOf(win.scale)

\* Mutant: the early return leaves no row behind.
DropPartial ==
  /\ stage = "handle"
  /\ IsPartial
  /\ Return
  /\ UNCHANGED <<pc, now, pos, tag, builder, override, lastTriggered, life, history>>

\* A stale or trailing window: an InsufficientData row and nothing else.
HandlePartial ==
  /\ stage = "handle"
  /\ IsPartial
  /\ WriteRow
  /\ Return
  /\ UNCHANGED <<pc, now, pos, tag, builder, override, lastTriggered, life,
                 clean, lastLarge, lastGated, arrival, bundle>>

Answer(label, sure, by, upto) == [label |-> label, sure |-> sure, by |-> by, upto |-> upto]

\* _unavailable_result: a file is missing, or the inference raised.
Unavailable == Answer("ModelUnavailable", FALSE, "none", 0)

\* What the scaled features of a window make stages 2 and 3 say of it.
AttackAnswers(by) == {Answer(l, sure, by, 0) : l \in AttackLabels, sure \in BOOLEAN}

\* Mutant: an override stays valid until the next one replaces it.
OverrideNeverExpires(o) ==
  /\ o # NoOverride
  /\ o.flow # NoFlow
  /\ o.flow = win.of.flow
  /\ o.upto < win.position

OverrideApplies(o) ==
  /\ o # NoOverride
  /\ o.flow # NoFlow
  /\ o.flow = win.of.flow
  /\ o.upto < win.position
  /\ win.position <= o.upto + OverrideSpan

\* classify_flow: the stage-1 gate, stages 2 and 3, then the override.
ClassifySmall(tier) ==
  /\ stage = "handle"
  /\ win.scale = "w10"
  /\ ~ IsPartial
  /\ \/ res' = Unavailable
     \/ \E sure \in BOOLEAN : res' = Answer("Benign", sure, "stage1", 0)
     \/ IF OverrideApplies(override[tier])
        THEN res' = Answer(override[tier].label, override[tier].sure, "override",
                           override[tier].upto)
        ELSE res' \in AttackAnswers("stage2")
  /\ lastGated' = IF res'.by \in {"stage2", "override"} THEN win.position ELSE lastGated
  /\ stage' = "trigger"
  /\ UNCHANGED <<pc, now, pos, tag, builder, win, override, lastTriggered, life,
                 covered, clean, lastLarge, arrival, bundle>>

\* register_w100_result: no gate; a Flood or Mirai answer becomes the override.
ClassifyLarge(tier) ==
  /\ stage = "handle"
  /\ win.scale = "w100"
  /\ ~ IsPartial
  /\ \/ /\ res' = Unavailable
        /\ UNCHANGED override
     \/ /\ res' \in AttackAnswers("w100")
        /\ IF res'.label \in OverrideLabels
           THEN override' = [override EXCEPT ![tier] =
                  [label |-> res'.label, sure |-> res'.sure, upto |-> win.position,
                   flow |-> win.of.flow]]
           ELSE UNCHANGED override
  /\ stage' = "trigger"
  /\ UNCHANGED <<pc, now, pos, tag, builder, win, lastTriggered, life, history>>

\* should_acquire says no: straight to the item row.
NoTrigger ==
  /\ stage = "trigger"
  /\ \/ res.label = "Benign"
     \/ ~ res.sure
     \/ now - lastTriggered[res.label] < Cooldown
  /\ stage' = "write"
  /\ UNCHANGED <<pc, now, pos, tag, builder, win, res, override, lastTriggered, life, history>>

\* should_acquire says yes, and starts the cooldown before anything is collected.
Trigger ==
  /\ stage = "trigger"
  /\ res.label # "Benign"
  /\ res.sure
  /\ now - lastTriggered[res.label] >= Cooldown
  /\ lastTriggered' = [lastTriggered EXCEPT ![res.label] = now]
  /\ stage' = "collect"
  /\ UNCHANGED <<pc, now, pos, tag, builder, win, res, override, life, history>>

\* collect_evidence and write_timing; an exception in collect_evidence is
\* logged and leaves the window without an incident.
Collect ==
  /\ stage = "collect"
  /\ \/ bundle' = [first |-> win.position - win.of.count + 1, last |-> win.position, at |-> now]
     \/ UNCHANGED bundle
  /\ stage' = "write"
  /\ UNCHANGED <<pc, now, pos, tag, builder, win, res, override, lastTriggered, life,
                 covered, clean, lastLarge, lastGated, arrival>>

\* write_items, the last call of _handle_window.
WriteItems ==
  /\ stage = "write"
  /\ WriteRow
  /\ Return
  /\ UNCHANGED <<pc, now, pos, tag, builder, override, lastTriggered, life,
                 clean, lastLarge, lastGated, arrival, bundle>>
------------------------------------------------------------------------------
(* Time, signals, failures and restarts.                                   *)

Tick ==
  /\ pc \notin {"stopped", "dead"}
  /\ now < MaxTime
  /\ now' = now + 1
  /\ UNCHANGED <<pc, stage, pos, tag, builder, win, res, override, lastTriggered, life, history>>

\* KeyboardInterrupt, end of the tcpdump pipe, or an exception that leaves the
\* packet callback (a log that cannot be written, ...): main goes to its
\* finally block and the handler that was running is abandoned.
Interrupt ==
  /\ pc \in MainPoints
  /\ pc' = "flush10"
  /\ clean' = (clean /\ At("idle"))
  /\ stage' = "none" /\ win' = NoWindow /\ res' = NoResult
  /\ UNCHANGED <<now, pos, tag, builder, override, lastTriggered, life,
                 covered, lastLarge, lastGated, arrival, bundle>>

\* A second exception, in the finally block itself, ends the process there.
InterruptFlush ==
  /\ pc \in FlushPoints
  /\ pc' = "stopped"
  /\ clean' = FALSE
  /\ stage' = "none" /\ win' = NoWindow /\ res' = NoResult
  /\ UNCHANGED <<now, pos, tag, builder, override, lastTriggered, life,
                 covered, lastLarge, lastGated, arrival, bundle>>

\* SIGKILL, SIGTERM (no handler is installed) or loss of the host.
Kill ==
  /\ pc \in MainPoints \cup FlushPoints
  /\ pc' = "dead"
  /\ clean' = FALSE
  /\ stage' = "none" /\ win' = NoWindow /\ res' = NoResult
  /\ UNCHANGED <<now, pos, tag, builder, override, lastTriggered, life,
                 covered, lastLarge, lastGated, arrival, bundle>>

\* restart: unless-stopped.  All of the state above is module-level state of
\* the process and starts afresh; only the log files survive.
Restart ==
  /\ pc \in {"stopped", "dead"}
  /\ life < MaxLives
  /\ life' = life + 1
  /\ UNCHANGED now
  /\ pc' = FreshProcess.pc /\ stage' = FreshProcess.stage
  /\ pos' = FreshProcess.pos /\ tag' = FreshProcess.tag
  /\ builder' = FreshProcess.builder
  /\ win' = FreshProcess.win /\ res' = FreshProcess.res
  /\ override' = FreshProcess.override
  /\ lastTriggered' = FreshProcess.lastTriggered
  /\ covered' = FreshProcess.covered /\ clean' = FreshProcess.clean
  /\ lastLarge' = FreshProcess.lastLarge /\ lastGated' = FreshProcess.lastGated
  /\ arrival' = FreshProcess.arrival /\ bundle' = FreshProcess.bundle

MainLine ==
  \/ AddToSmall \/ AddToLarge \/ ExpireSmall \/ ExpireLarge
  \/ FlushSmall \/ FlushLarge \/ Exit

Handler ==
  \/ HandlePartial
  \/ \E tier \in Tiers : ClassifySmall(tier) \/ ClassifyLarge(tier)
  \/ NoTrigger \/ Trigger \/ Collect \/ WriteItems

Environment == Tick \/ Interrupt \/ InterruptFlush \/ Kill \/ Restart

Next ==
  \/ \E t \in Tags : ReceivePacket(t)
  \/ MainLine
  \/ Handler
  \/ Environment

Spec == Init /\ [][Next]_vars

\* The interpreter goes on executing; packets, signals and restarts need not come.
FairSpec == Spec /\ WF_vars(MainLine \/ Handler)
------------------------------------------------------------------------------
(* Properties.                                                             *)

WindowType == [scale : Scales \cup {"none"}, position : Nat,
               of : [count : Nat, flow : Tags, reason : CloseReasons \cup {"none"}]]

ResultType == [label : Labels \cup {"none"}, sure : BOOLEAN,
               by : {"none", "stage1", "stage2", "override", "w100"}, upto : Nat]

OverrideType == [label : OverrideLabels, sure : BOOLEAN, upto : Nat, flow : Tags]

\* Every variable stays in its type (module-level state of capture.py,
\* model_engine.py and trigger.py, and the recorded history).
TypeOK ==
  /\ pc \in MainPoints \cup FlushPoints \cup {"stopped", "dead"}
  /\ stage \in {"none", "handle", "trigger", "collect", "write"}
  /\ now \in Nat /\ pos \in Nat /\ life \in Nat
  /\ tag \in Tags
  /\ builder \in [Scales -> Builder]
  /\ win \in WindowType
  /\ stage # "none" => win.scale \in Scales
  /\ res \in ResultType
  /\ stage \in {"trigger", "collect", "write"} => res.label \in Labels
  /\ override \in [Tiers -> OverrideType \cup {NoOverride}]
  /\ lastTriggered \in [Labels -> Nat]
  /\ covered \in [Scales -> Nat]
  /\ clean \in BOOLEAN
  /\ lastLarge \in Nat /\ lastGated \in Nat
  /\ arrival \in [Scales -> Nat]
  /\ bundle \in [first : Int, last : Nat, at : Nat]

InHand(s) == IF win.scale = s THEN win.of.count ELSE 0
InOpen(s) == Len(builder[s].rows)
Accounted(s) == covered[s] + InOpen(s) + InHand(s)
Waiting(s) == pc = "add10" \/ (s = "w100" /\ pc = "add100")
Fed(s) == IF Waiting(s) THEN pos - 1 ELSE pos

\* No packet is counted by two windows of one scale, and as long as nothing
\* has cut a handler short every processed packet is in exactly one of: an item
\* row, the window in hand, the open window (capture.py: process_original_packet
\* and _handle_window together lose and repeat nothing).
Accounting ==
  \A s \in Scales : /\ Accounted(s) <= Fed(s)
                    /\ clean => Accounted(s) = Fed(s)

\* The override classify_flow applies is always the one of the most recent full
\* 100-window, and of a window that closed before this 10-window did: neither an
\* override of an earlier 100-window nor one that the current packet completes
\* (it rests on the order of the two add_packet calls, on the span of 100 and on
\* partial windows being kept from the classifier).
OverrideFromLatest ==
  res.by = "override" =>
    /\ res.upto = lastLarge
    /\ lastLarge < win.position
    /\ win.position <= lastLarge + LargeWindow

\* What a partial window (stale or trailing) contains never reaches the
\* override, the trigger or an evidence bundle (_handle_window's early return).
PartialsHaveNoEffect ==
  [][(life' = life /\ <<override, lastTriggered, bundle>>' # <<override, lastTriggered, bundle>>)
       => win.of.count = SizeOf(win.scale)]_vars

\* Between two packets no open window holds a packet that came in IdleFlush or
\* more after the window was opened: expire_stale_partial_window sees both
\* windows after every packet.
OpenWindowsAreYoung ==
  At("idle") => \A s \in Scales :
    builder[s].rows # <<>> => arrival[s] - builder[s].openedAt < IdleFlush

\* A capture that ends between two packets gets, without any further packet, to
\* the end of main with every processed packet in an item row of both scales,
\* unless a second failure or a kill comes in between.
CleanShutdownReports ==
  (pc = "flush10" /\ clean) ~>
    \/ pc = "stopped" /\ \A s \in Scales : covered[s] = pos
    \/ ~ clean
------------------------------------------------------------------------------
(* What comments and documents of the repository say of this part.         *)

\* capture.py: the position lines up "which w=10 windows fall inside which w=100
\* window for the override check".
OverrideInsideLargeWindow ==
  res.by = "override" =>
    /\ win.position <= res.upto
    /\ win.position - win.of.count >= res.upto - LargeWindow

\* capture.py, model_engine.py: "w=100 windows never gate on their own; they
\* exist to override the w=10 stage-2 answer": evidence is acquired for a
\* 100-window only if stage 1 let one of its 10-windows through.
LargeWindowsNeverGate ==
  (stage = "collect" /\ win.scale = "w100") => lastGated > win.position - LargeWindow
==============================================================================
