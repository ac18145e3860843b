-------------------------- MODULE EdgeNode_proofs ----------------------------
(***************************************************************************)
(* What TLAPS proves of EdgeNode for every window size, span, cooldown,    *)
(* number of packets, set of flows and length of run: typing, accounting   *)
(* of packets, freshness of the stage-2 override, age of open windows.     *)
(***************************************************************************)
EXTENDS EdgeNode, TLAPS

USE FlowAssumption, SizeAssumption, TimeAssumption, LabelAssumption

\* flow_id of a window: the single tag of its packets, or None.
LEMMA SingleFlowType ==
  ASSUME NEW rows
  PROVE  SingleFlow(rows) \in Tags
BY DEF SingleFlow, Tags

\* _finalize reports the number of rows and a flow_id of the right kind.
LEMMA FinalizeType ==
  ASSUME NEW wb \in Builder, NEW reason \in CloseReasons \cup {"none"}
  PROVE  /\ Finalize(wb, reason) \in [count : Nat, flow : Tags,
                                      reason : CloseReasons \cup {"none"}]
         /\ Finalize(wb, reason).count = Len(wb.rows)
BY SingleFlowType DEF Finalize, Builder

LEMMA EmptyBuilderType == EmptyBuilder \in Builder /\ Len(EmptyBuilder.rows) = 0
BY DEF EmptyBuilder, Builder, NoTime

\* add_packet adds one row and keeps the builder well formed.
LEMMA AddRowType ==
  ASSUME NEW wb \in Builder, NEW t \in Tags, NEW time \in Nat
  PROVE  /\ AddRow(wb, t, time) \in Builder
         /\ Len(AddRow(wb, t, time).rows) = Len(wb.rows) + 1
BY DEF AddRow, Builder, NoTime

\* The window that stands for "no window" is one.
LEMMA NoWindowType == NoWindow \in WindowType /\ NoWindow.scale = "none"
BY FinalizeType, EmptyBuilderType DEF NoWindow, WindowType

LEMMA NoResultType == NoResult \in ResultType
BY DEF NoResult, ResultType
------------------------------------------------------------------------------
\* Typing is an invariant of the loop (TypeOK).
THEOREM TypeCorrect == Spec => []TypeOK
<1>1. Init => TypeOK
  <2> SUFFICES ASSUME Init PROVE TypeOK
    OBVIOUS
  <2>1. builder \in [Scales -> Builder]
    BY EmptyBuilderType DEF Init, FreshProcess
  <2>2. win \in WindowType
    BY NoWindowType DEF Init, FreshProcess, WindowType
  <2>3. res \in ResultType /\ bundle \in [first : Int, last : Nat, at : Nat]
    BY NoResultType DEF Init, FreshProcess, NoBundle
  <2>4. override \in [Tiers -> OverrideType \cup {NoOverride}]
    BY DEF Init, FreshProcess
  <2>5. QED
    BY <2>1, <2>2, <2>3, <2>4
       DEF Init, FreshProcess, TypeOK, MainPoints, Tags
<1>2. TypeOK /\ [Next]_vars => TypeOK'
  <2> SUFFICES ASSUME TypeOK, [Next]_vars PROVE TypeOK'
    OBVIOUS
  <2> USE DEF TypeOK, MainPoints, FlushPoints
  <2>1. ASSUME NEW s \in Scales, NEW b \in Builder, NEW reason \in CloseReasons,
               NEW position \in Nat, Close(s, b, reason, position)
        PROVE  builder' \in [Scales -> Builder] /\ win' \in WindowType /\ stage' = "handle"
               /\ win'.scale \in Scales
    BY <2>1, EmptyBuilderType, FinalizeType DEF Close, WindowType
  <2>2. ASSUME NEW s \in Scales, NEW t \in Tags, NEW position \in Nat, AddTo(s, t, position)
        PROVE  /\ builder' \in [Scales -> Builder]
               /\ win' \in WindowType
               /\ stage' \in {"handle", stage}
               /\ stage' = "handle" => win'.scale \in Scales
               /\ stage' = stage => win' = win \/ win'.scale \in Scales
               /\ arrival' \in [Scales -> Nat]
    <3> DEFINE b == AddRow(builder[s], t, now)
    <3>1. b \in Builder
      BY AddRowType
    <3>2. arrival' \in [Scales -> Nat]
      BY <2>2 DEF AddTo
    <3>3. CASE IsFull(b, SizeOf(s))
      BY <2>1, <2>2, <3>1, <3>2, <3>3 DEF AddTo, CloseReasons
    <3>4. CASE ~ IsFull(b, SizeOf(s))
      <4>1. builder' = [builder EXCEPT ![s] = b] /\ UNCHANGED <<win, stage>>
        BY <2>2, <3>4 DEF AddTo
      <4>2. QED
        BY <3>1, <3>2, <4>1
    <3>5. QED
      BY <3>3, <3>4
  <2>3. ASSUME NEW t \in Tags, ReceivePacket(t) PROVE TypeOK'
    BY <2>3 DEF ReceivePacket, history
  <2>s. ASSUME AddToSmall PROVE TypeOK'
    <3>1. AddTo("w10", tag, pos) /\ "w10" \in Scales
      BY <2>s DEF AddToSmall, Scales
    <3>2. QED
      BY <2>2, <2>s, <3>1 DEF AddToSmall, WindowType, At
  <2>4. ASSUME AddToLarge PROVE TypeOK'
    <3>1. AddTo("w100", tag, pos) /\ "w100" \in Scales
      BY <2>4 DEF AddToLarge, Scales
    <3>2. QED
      BY <2>2, <2>4, <3>1 DEF AddToLarge, WindowType, At
  <2>5. ASSUME NEW s \in Scales, NEW point, NEW next \in MainPoints \cup FlushPoints,
               Expire(s, point, next) \/ Flush(s, point, next)
        PROVE  TypeOK'
    <3>1. CASE UNCHANGED <<builder, win, stage>>
      BY <2>5, <3>1 DEF Expire, Flush, history, At
    <3>2. ASSUME NEW reason \in CloseReasons, Close(s, builder[s], reason, pos)
          PROVE  TypeOK'
      <4>1. builder' \in [Scales -> Builder] /\ win' \in WindowType /\ stage' = "handle"
            /\ win'.scale \in Scales
        BY <2>1, <3>2
      <4>2. QED
        BY <2>5, <4>1 DEF Expire, Flush, history, WindowType
    <3>3. QED
      BY <2>5, <3>1, <3>2 DEF Expire, Flush, CloseReasons
  <2>6. ASSUME Exit PROVE TypeOK'
    BY <2>6 DEF Exit, history
  <2>7. ASSUME HandlePartial \/ WriteItems PROVE TypeOK'
    <3>1. win' \in WindowType /\ res' \in ResultType /\ stage' = "none"
      BY <2>7, NoWindowType, NoResultType DEF HandlePartial, WriteItems, Return
    <3>2. covered' \in [Scales -> Nat]
      BY <2>7 DEF HandlePartial, WriteItems, WriteRow, WindowType
    <3>3. QED
      BY <2>7, <3>1, <3>2 DEF HandlePartial, WriteItems, WindowType
  <2>8. ASSUME NEW tier \in Tiers, ClassifySmall(tier) PROVE TypeOK'
    <3>1. res' \in ResultType /\ res'.label \in Labels
      <4>1. CASE res' = Unavailable
        BY <4>1 DEF Unavailable, Answer, ResultType, Labels
      <4>2. CASE \E sure \in BOOLEAN : res' = Answer("Benign", sure, "stage1", 0)
        BY <4>2 DEF Answer, ResultType, Labels
      <4>3. CASE res' \in AttackAnswers("stage2")
        BY <4>3 DEF AttackAnswers, Answer, ResultType, Labels
      <4>4. CASE /\ OverrideApplies(override[tier])
                 /\ res' = Answer(override[tier].label, override[tier].sure, "override",
                                  override[tier].upto)
        BY <4>4 DEF Answer, ResultType, Labels, OverrideApplies, OverrideType
      <4>5. QED
        BY <2>8, <4>1, <4>2, <4>3, <4>4 DEF ClassifySmall
    <3>2. lastGated' \in Nat
      BY <2>8 DEF ClassifySmall, WindowType
    <3>3. QED
      BY <2>8, <3>1, <3>2 DEF ClassifySmall
  <2>9. ASSUME NEW tier \in Tiers, ClassifyLarge(tier) PROVE TypeOK'
    <3>1. /\ res' \in ResultType /\ res'.label \in Labels
          /\ override' \in [Tiers -> OverrideType \cup {NoOverride}]
      <4>1. CASE res' = Unavailable /\ UNCHANGED override
        BY <4>1 DEF Unavailable, Answer, ResultType, Labels
      <4>2. ASSUME res' \in AttackAnswers("w100")
            PROVE  res' \in ResultType /\ res'.label \in Labels
        BY <4>2 DEF AttackAnswers, Answer, ResultType, Labels
      <4>3. ASSUME res' \in ResultType, res'.label \in OverrideLabels
            PROVE  [label |-> res'.label, sure |-> res'.sure, upto |-> win.position,
                    flow |-> win.of.flow] \in OverrideType
        BY <4>3 DEF OverrideType, WindowType, ResultType
      <4>4. ASSUME NEW o \in OverrideType, override' = [override EXCEPT ![tier] = o]
            PROVE  override' \in [Tiers -> OverrideType \cup {NoOverride}]
        BY <4>4
      <4>5. CASE res' \in AttackAnswers("w100")
        <5>1. CASE res'.label \in OverrideLabels
          <6>1. override' = [override EXCEPT ![tier] =
                  [label |-> res'.label, sure |-> res'.sure, upto |-> win.position,
                   flow |-> win.of.flow]]
            BY <2>9, <4>5, <5>1, LabelAssumption DEF ClassifyLarge, Unavailable, Answer
          <6>2. QED
            BY <4>2, <4>3, <4>4, <4>5, <5>1, <6>1
        <5>2. CASE res'.label \notin OverrideLabels
          BY <2>9, <4>2, <4>5, <5>2 DEF ClassifyLarge
        <5>3. QED
          BY <5>1, <5>2
      <4>6. QED
        BY <2>9, <4>1, <4>5 DEF ClassifyLarge
    <3>2. QED
      BY <2>9, <3>1 DEF ClassifyLarge, history
  <2>10. ASSUME NoTrigger \/ Trigger PROVE TypeOK'
    BY <2>10 DEF NoTrigger, Trigger, history
  <2>11. ASSUME Collect PROVE TypeOK'
    BY <2>11 DEF Collect, WindowType
  <2>12. ASSUME Tick PROVE TypeOK'
    BY <2>12 DEF Tick, history
  <2>13. ASSUME Interrupt \/ InterruptFlush \/ Kill PROVE TypeOK'
    <3>1. win' \in WindowType /\ res' \in ResultType /\ stage' = "none"
      BY <2>13, NoWindowType, NoResultType DEF Interrupt, InterruptFlush, Kill
    <3>2. clean' \in BOOLEAN
      BY <2>13 DEF Interrupt, InterruptFlush, Kill, At
    <3>3. QED
      BY <2>13, <3>1, <3>2 DEF Interrupt, InterruptFlush, Kill, WindowType
  <2>14. ASSUME Restart PROVE TypeOK'
    <3>1. builder' \in [Scales -> Builder]
      BY <2>14, EmptyBuilderType DEF Restart, FreshProcess
    <3>2. win' \in WindowType
      BY <2>14, NoWindowType DEF Restart, FreshProcess, WindowType
    <3>3. res' \in ResultType /\ bundle' \in [first : Int, last : Nat, at : Nat]
      BY <2>14, NoResultType DEF Restart, FreshProcess, NoBundle
    <3>4. override' \in [Tiers -> OverrideType \cup {NoOverride}]
      BY <2>14 DEF Restart, FreshProcess
    <3>5. QED
      BY <2>14, <3>1, <3>2, <3>3, <3>4 DEF Restart, FreshProcess, Tags
  <2>15. CASE UNCHANGED vars
    BY <2>15 DEF vars, code, history
  <2>16. QED
    BY <2>3, <2>s, <2>4, <2>5, <2>6, <2>7, <2>8, <2>9, <2>10, <2>11, <2>12, <2>13, <2>14, <2>15
       DEF Next, MainLine, Handler, Environment, ExpireSmall, ExpireLarge,
           FlushSmall, FlushLarge, Scales
<1>3. QED
  BY <1>1, <1>2, PTL DEF Spec
------------------------------------------------------------------------------
(* The inductive invariant behind Accounting and OverrideFromLatest.       *)

\* A builder never keeps a full window.
BuildersShort == \A s \in Scales : Len(builder[s].rows) < SizeOf(s)

\* A window is in hand exactly while its handler runs, at the position the main
\* line is at; a full 10-window only before the packet goes into the 100-window,
\* and a full 100-window is the latest one.
WindowInHand ==
  /\ stage = "none" => win = NoWindow
  /\ stage # "none" =>
       /\ win.position = pos
       /\ (win.scale = "w10" /\ win.of.count = SmallWindow) => pc = "add100"
       /\ (win.scale = "w100" /\ win.of.count = LargeWindow) => lastLarge = pos

\* The open 100-window holds packets that came after the latest full one.
LargeWindowsApart == lastLarge + Len(builder["w100"].rows) <= Fed("w100")

\* An override is of the latest full 100-window or of one that closed at least
\* LargeWindow packets before it.
OverridesSpaced ==
  \A t \in Tiers : override[t] # NoOverride =>
    \/ override[t].upto = lastLarge
    \/ override[t].upto + LargeWindow <= lastLarge

OverrideAnswer ==
  /\ res.by = "override" => stage \in {"trigger", "collect", "write"}
  /\ OverrideFromLatest

IInv ==
  /\ BuildersShort
  /\ WindowInHand
  /\ LargeWindowsApart
  /\ OverridesSpaced
  /\ OverrideAnswer
  /\ Accounting

LEMMA NoWindowScale == NoWindow.scale = "none"
BY DEF NoWindow

\* What Close does to the builders and to the window in hand.
LEMMA CloseEffect ==
  ASSUME TypeOK, NEW s \in Scales, NEW b \in Builder, NEW reason \in CloseReasons,
         NEW position \in Nat, Close(s, b, reason, position)
  PROVE  /\ Len(builder'[s].rows) = 0
         /\ \A r \in Scales \ {s} : builder'[r] = builder[r]
         /\ win'.scale = s /\ win'.position = position /\ win'.of.count = Len(b.rows)
         /\ stage' = "handle"
BY EmptyBuilderType, FinalizeType DEF Close, TypeOK

\* What an add_packet does: one row more, or a full window in hand.
LEMMA AddToEffect ==
  ASSUME TypeOK, NEW s \in Scales, NEW t \in Tags, NEW position \in Nat,
         Len(builder[s].rows) < SizeOf(s), AddTo(s, t, position)
  PROVE  /\ \A r \in Scales \ {s} : builder'[r] = builder[r]
         /\ \/ /\ Len(builder[s].rows) + 1 < SizeOf(s)
               /\ Len(builder'[s].rows) = Len(builder[s].rows) + 1
               /\ UNCHANGED <<win, stage>>
            \/ /\ Len(builder[s].rows) + 1 = SizeOf(s)
               /\ Len(builder'[s].rows) = 0
               /\ win'.scale = s /\ win'.position = position /\ win'.of.count = SizeOf(s)
               /\ stage' = "handle"
<1> DEFINE b == AddRow(builder[s], t, now)
<1>1. b \in Builder /\ Len(b.rows) = Len(builder[s].rows) + 1
  BY AddRowType DEF TypeOK
<1>2. SizeOf(s) \in Nat /\ Len(builder[s].rows) \in Nat
  BY DEF SizeOf, TypeOK, Builder
<1>3. CASE IsFull(b, SizeOf(s))
  <2>1. Close(s, b, "window_size", position)
    BY <1>3 DEF AddTo
  <2>2. Len(b.rows) = SizeOf(s)
    BY <1>1, <1>2, <1>3 DEF IsFull
  <2>3. "window_size" \in CloseReasons
    BY DEF CloseReasons
  <2> HIDE DEF b
  <2>4. QED
    BY <1>1, <2>1, <2>2, <2>3, CloseEffect
<1>4. CASE ~ IsFull(b, SizeOf(s))
  <2>1. builder' = [builder EXCEPT ![s] = b] /\ UNCHANGED <<win, stage>>
    BY <1>4 DEF AddTo
  <2>2. Len(b.rows) < SizeOf(s)
    BY <1>1, <1>2, <1>4 DEF IsFull
  <2> HIDE DEF b
  <2>3. QED
    BY <1>1, <2>1, <2>2 DEF TypeOK
<1>5. QED
  BY <1>3, <1>4

\* Lengths and sizes are numbers: what the arithmetic of the steps needs.
LEMMA Numbers ==
  ASSUME TypeOK
  PROVE  /\ \A s \in Scales : /\ Len(builder[s].rows) \in Nat
                              /\ SizeOf(s) \in Nat \ {0}
                              /\ covered[s] \in Nat
         /\ Scales = {"w10", "w100"}
         /\ SizeOf("w10") = SmallWindow /\ SizeOf("w100") = LargeWindow
         /\ win.of.count \in Nat /\ win.position \in Nat
         /\ \A t \in Tiers : override[t] # NoOverride => override[t].upto \in Nat
BY DEF TypeOK, Builder, SizeOf, Scales, WindowType, OverrideType

LEMMA InvInit == Init => IInv
<1> SUFFICES ASSUME Init PROVE IInv
  OBVIOUS
<1>1. /\ builder = [s \in Scales |-> EmptyBuilder] /\ stage = "none" /\ pos = 0
      /\ win = NoWindow /\ lastLarge = 0 /\ covered = [s \in Scales |-> 0]
      /\ override = [t \in Tiers |-> NoOverride] /\ res = NoResult /\ pc = "idle"
  BY DEF Init, FreshProcess
<1>2. QED
  BY <1>1, NoWindowScale, EmptyBuilderType
     DEF IInv, BuildersShort, WindowInHand, LargeWindowsApart, OverridesSpaced, OverrideAnswer,
         OverrideFromLatest, Accounting, Accounted, InOpen, InHand, Fed, Waiting, SizeOf, Scales,
         NoResult

LEMMA InvNext == TypeOK /\ IInv /\ [Next]_vars => IInv'
<1> SUFFICES ASSUME TypeOK, IInv, [Next]_vars PROVE IInv'
  OBVIOUS
<1>i. BuildersShort /\ WindowInHand /\ LargeWindowsApart /\ OverridesSpaced /\ OverrideAnswer
      /\ Accounting
  BY DEF IInv
<1>p. /\ pos \in Nat /\ lastLarge \in Nat
      /\ Len(builder["w10"].rows) \in Nat /\ Len(builder["w100"].rows) \in Nat
      /\ SmallWindow \in Nat /\ LargeWindow \in Nat
      /\ covered["w10"] \in Nat /\ covered["w100"] \in Nat
      /\ win.of.count \in Nat
      /\ Scales = {"w10", "w100"}
      /\ SizeOf("w10") = SmallWindow /\ SizeOf("w100") = LargeWindow
  BY Numbers DEF TypeOK
<1>n. /\ InHand("w10") = (IF win.scale = "w10" THEN win.of.count ELSE 0)
      /\ InHand("w100") = (IF win.scale = "w100" THEN win.of.count ELSE 0)
      /\ Fed("w10") = (IF pc = "add10" THEN pos - 1 ELSE pos)
      /\ Fed("w100") = (IF pc \in {"add10", "add100"} THEN pos - 1 ELSE pos)
  BY DEF InHand, Fed, Waiting
<1>m. /\ InHand("w10")' = (IF win'.scale = "w10" THEN win'.of.count ELSE 0)
      /\ InHand("w100")' = (IF win'.scale = "w100" THEN win'.of.count ELSE 0)
      /\ Fed("w10")' = (IF pc' = "add10" THEN pos' - 1 ELSE pos')
      /\ Fed("w100")' = (IF pc' \in {"add10", "add100"} THEN pos' - 1 ELSE pos')
  BY DEF InHand, Fed, Waiting
<1>s. /\ Accounted("w10") = covered["w10"] + InOpen("w10") + InHand("w10")
      /\ Accounted("w100") = covered["w100"] + InOpen("w100") + InHand("w100")
      /\ Accounted("w10")' = covered'["w10"] + InOpen("w10")' + InHand("w10")'
      /\ Accounted("w100")' = covered'["w100"] + InOpen("w100")' + InHand("w100")'
  BY DEF Accounted
<1>c. /\ covered["w10"] \in Nat /\ covered["w100"] \in Nat
      /\ InOpen("w10") \in Nat /\ InOpen("w100") \in Nat
  BY <1>p DEF InOpen
<1>h. InHand("w10") \in Nat /\ InHand("w100") \in Nat
  BY <1>p, <1>n
<1>a. Accounted("w10") \in Int /\ Accounted("w100") \in Int
  <2>1. covered["w10"] + InOpen("w10") + InHand("w10") \in Int
    BY <1>c, <1>h
  <2>2. covered["w100"] + InOpen("w100") + InHand("w100") \in Int
    BY <1>c, <1>h
  <2>3. QED
    BY <1>s, <2>1, <2>2
<1>o. \A t \in Tiers : override[t] # NoOverride => override[t].upto \in Nat
  BY Numbers
<1>z. NoWindow.scale = "none"
  BY NoWindowScale
<1>r. ASSUME NEW t \in Tags, ReceivePacket(t) PROVE IInv'
  <2>1. /\ pc = "idle" /\ stage = "none" /\ pc' = "add10" /\ pos' = pos + 1
        /\ UNCHANGED <<stage, builder, win, res, override, covered, clean, lastLarge>>
    BY <1>r DEF ReceivePacket, At, history
  <2>2. /\ BuildersShort' /\ WindowInHand' /\ OverridesSpaced' /\ OverrideAnswer'
    BY <1>i, <2>1 DEF BuildersShort, WindowInHand, OverridesSpaced, OverrideAnswer,
                      OverrideFromLatest
  <2>3. LargeWindowsApart'
    BY <1>i, <1>n, <1>m, <1>p, <2>1 DEF LargeWindowsApart
  <2>4. Accounted("w10")' = Accounted("w10") /\ Accounted("w100")' = Accounted("w100")
    BY <2>1 DEF Accounted, InOpen, InHand
  <2>5. Accounting'
    BY <1>i, <1>n, <1>m, <1>p, <1>a, <2>1, <2>4 DEF Accounting
  <2>6. QED
    BY <2>2, <2>3, <2>5 DEF IInv
<1>1. ASSUME AddToSmall PROVE IInv'
  <2>1. /\ pc = "add10" /\ stage = "none" /\ pc' = "add100" /\ pos' = pos
        /\ AddTo("w10", tag, pos) /\ tag \in Tags
        /\ UNCHANGED <<res, override, covered, clean, lastLarge>>
    BY <1>1 DEF AddToSmall, At, TypeOK
  <2>2. /\ builder'["w100"] = builder["w100"]
        /\ \/ /\ Len(builder["w10"].rows) + 1 < SmallWindow
              /\ Len(builder'["w10"].rows) = Len(builder["w10"].rows) + 1
              /\ UNCHANGED <<win, stage>>
           \/ /\ Len(builder["w10"].rows) + 1 = SmallWindow
              /\ Len(builder'["w10"].rows) = 0
              /\ win'.scale = "w10" /\ win'.position = pos /\ win'.of.count = SmallWindow
              /\ stage' = "handle"
    BY <1>i, <2>1, <1>p, AddToEffect DEF BuildersShort
  <2>3. BuildersShort'
    BY <1>p, <1>i, <2>1, <2>2 DEF BuildersShort, SizeOf
  <2>4. WindowInHand'
    BY <1>i, <2>1, <2>2 DEF WindowInHand
  <2>5. LargeWindowsApart'
    BY <1>i, <1>n, <1>m, <1>p, <2>1, <2>2 DEF LargeWindowsApart
  <2>6. OverridesSpaced' /\ OverrideAnswer'
    BY <1>i, <2>1 DEF OverridesSpaced, OverrideAnswer, OverrideFromLatest
  <2>7. Accounting'
    <3>1. win = NoWindow
      BY <1>i, <2>1 DEF WindowInHand
    <3>2. InHand("w10") = 0 /\ InHand("w100") = 0
      BY <1>n, <1>z, <3>1
    <3>3. /\ InHand("w100")' = 0 /\ InOpen("w100")' = InOpen("w100")
          /\ InOpen("w10")' + InHand("w10")' = InOpen("w10") + 1
          /\ InOpen("w10")' \in Nat /\ InHand("w10")' \in Nat
      BY <1>p, <1>m, <1>z, <2>2, <3>1 DEF InOpen
    <3>4. covered'["w10"] = covered["w10"] /\ covered'["w100"] = covered["w100"]
      BY <2>1
    <3>x. Accounted("w10")' = Accounted("w10") + 1
      BY <1>c, <1>s, <3>2, <3>3, <3>4
    <3>y. Accounted("w100")' = Accounted("w100")
      BY <1>c, <1>s, <3>2, <3>3, <3>4
    <3>5. QED
      BY <1>i, <1>n, <1>m, <1>p, <1>a, <2>1, <3>x, <3>y DEF Accounting
  <2>8. QED
    BY <2>3, <2>4, <2>5, <2>6, <2>7 DEF IInv
<1>2. ASSUME AddToLarge PROVE IInv'
  <2>1. /\ pc = "add100" /\ stage = "none" /\ pc' = "expire10"
        /\ AddTo("w100", tag, pos) /\ tag \in Tags
        /\ lastLarge' = IF Len(builder["w100"].rows) + 1 >= LargeWindow THEN pos ELSE lastLarge
        /\ UNCHANGED <<res, override, covered, clean, pos>>
    BY <1>2 DEF AddToLarge, At, TypeOK
  <2>2. /\ builder'["w10"] = builder["w10"]
        /\ \/ /\ Len(builder["w100"].rows) + 1 < LargeWindow
              /\ Len(builder'["w100"].rows) = Len(builder["w100"].rows) + 1
              /\ UNCHANGED <<win, stage>>
           \/ /\ Len(builder["w100"].rows) + 1 = LargeWindow
              /\ Len(builder'["w100"].rows) = 0
              /\ win'.scale = "w100" /\ win'.position = pos /\ win'.of.count = LargeWindow
              /\ stage' = "handle"
    BY <1>i, <2>1, <1>p, AddToEffect DEF BuildersShort
  <2>3. BuildersShort'
    BY <1>p, <1>i, <2>1, <2>2 DEF BuildersShort, SizeOf
  <2>4. WindowInHand'
    BY <1>i, <1>p, <2>1, <2>2 DEF WindowInHand
  <2>a. lastLarge + Len(builder["w100"].rows) <= pos - 1
    BY <1>i, <1>n, <2>1 DEF LargeWindowsApart
  <2>b. \/ lastLarge' = lastLarge /\ Len(builder'["w100"].rows) = Len(builder["w100"].rows) + 1
        \/ lastLarge' = pos /\ Len(builder'["w100"].rows) = 0 /\ lastLarge + LargeWindow <= pos
    BY <1>p, <2>1, <2>2, <2>a
  <2>c. Fed("w100")' = pos
    BY <1>m, <2>1
  <2>5. LargeWindowsApart'
    BY <1>p, <2>a, <2>b, <2>c, SMTT(30) DEF LargeWindowsApart
  <2>6. OverridesSpaced'
    BY <1>i, <1>o, <1>p, <2>1, <2>b DEF OverridesSpaced
  <2>7. OverrideAnswer'
    BY <1>i, <2>1 DEF OverrideAnswer, OverrideFromLatest
  <2>8. Accounting'
    <3>1. win = NoWindow
      BY <1>i, <2>1 DEF WindowInHand
    <3>2. InHand("w10") = 0 /\ InHand("w100") = 0
      BY <1>n, <1>z, <3>1
    <3>3. /\ InHand("w10")' = 0 /\ InOpen("w10")' = InOpen("w10")
          /\ InOpen("w100")' + InHand("w100")' = InOpen("w100") + 1
          /\ InOpen("w100")' \in Nat /\ InHand("w100")' \in Nat
      BY <1>p, <1>m, <1>z, <2>2, <3>1, SMTT(30) DEF InOpen
    <3>4. covered'["w10"] = covered["w10"] /\ covered'["w100"] = covered["w100"]
      BY <2>1
    <3>x. Accounted("w10")' = Accounted("w10")
      BY <1>c, <1>s, <3>2, <3>3, <3>4
    <3>y. Accounted("w100")' = Accounted("w100") + 1
      BY <1>c, <1>s, <3>2, <3>3, <3>4
    <3>5. QED
      BY <1>i, <1>n, <1>m, <1>p, <1>a, <2>1, <3>x, <3>y DEF Accounting
  <2>9. QED
    BY <2>3, <2>4, <2>5, <2>6, <2>7, <2>8 DEF IInv
<1>3. ASSUME NEW s \in Scales, NEW point, NEW next,
             Expire(s, point, next) \/ Flush(s, point, next),
             point \notin {"add10", "add100"}, next \notin {"add10", "add100"}
      PROVE  IInv'
  <2>1. /\ pc = point /\ stage = "none" /\ pc' = next
        /\ UNCHANGED <<res, override, covered, clean, lastLarge, pos>>
    BY <1>3 DEF Expire, Flush, At, history
  <2>2. \/ UNCHANGED <<builder, win, stage>>
        \/ /\ Len(builder'[s].rows) = 0
           /\ \A r \in Scales \ {s} : builder'[r] = builder[r]
           /\ win'.scale = s /\ win'.position = pos
           /\ win'.of.count = Len(builder[s].rows)
           /\ stage' = "handle"
    <3>1. builder[s] \in Builder
      BY DEF TypeOK
    <3>2. ASSUME NEW reason \in CloseReasons, Close(s, builder[s], reason, pos)
          PROVE  /\ Len(builder'[s].rows) = 0
                 /\ \A r \in Scales \ {s} : builder'[r] = builder[r]
                 /\ win'.scale = s /\ win'.position = pos
                 /\ win'.of.count = Len(builder[s].rows)
                 /\ stage' = "handle"
      BY <1>p, <3>1, <3>2, CloseEffect
    <3>3. QED
      BY <1>3, <3>2 DEF Expire, Flush, CloseReasons
  <2>3. BuildersShort'
    BY <1>p, <1>i, <2>1, <2>2 DEF BuildersShort, SizeOf
  <2>4. WindowInHand'
    BY <1>p, <1>i, <2>1, <2>2 DEF WindowInHand, BuildersShort
  <2>f. /\ Fed("w10") = pos /\ Fed("w100") = pos
        /\ Fed("w10")' = pos /\ Fed("w100")' = pos
    BY <1>n, <1>m, <1>3, <2>1
  <2>5. LargeWindowsApart'
    <3>1. \/ builder'["w100"] = builder["w100"]
          \/ Len(builder'["w100"].rows) = 0
      BY <1>p, <2>2
    <3>2. lastLarge + Len(builder["w100"].rows) <= pos
      BY <1>i, <2>f DEF LargeWindowsApart
    <3>3. lastLarge' + Len(builder'["w100"].rows) <= pos
      BY <1>p, <2>1, <3>1, <3>2
    <3>4. QED
      BY <2>f, <3>3 DEF LargeWindowsApart
  <2>6. OverridesSpaced' /\ OverrideAnswer'
    BY <1>i, <2>1 DEF OverridesSpaced, OverrideAnswer, OverrideFromLatest
  <2>7. Accounting'
    <3>1. win = NoWindow
      BY <1>i, <2>1 DEF WindowInHand
    <3>2. /\ Accounted("w10")' = Accounted("w10")
          /\ Accounted("w100")' = Accounted("w100")
      <4>1. InHand("w10") = 0 /\ InHand("w100") = 0
        BY <1>n, <1>z, <3>1
      <4>2. /\ InOpen("w10")' + InHand("w10")' = InOpen("w10")
            /\ InOpen("w100")' + InHand("w100")' = InOpen("w100")
            /\ InOpen("w10")' \in Nat /\ InHand("w10")' \in Nat
            /\ InOpen("w100")' \in Nat /\ InHand("w100")' \in Nat
        <5>1. CASE UNCHANGED <<builder, win, stage>>
          BY <1>p, <1>m, <1>z, <3>1, <5>1 DEF InOpen
        <5>2. CASE s = "w10" /\ ~ UNCHANGED <<builder, win, stage>>
          <6>1. /\ Len(builder'["w10"].rows) = 0 /\ builder'["w100"] = builder["w100"]
                /\ win'.scale = "w10" /\ win'.of.count = Len(builder["w10"].rows)
            BY <1>p, <2>2, <5>2
          <6>2. /\ InHand("w10")' = Len(builder["w10"].rows) /\ InHand("w100")' = 0
                /\ InOpen("w10")' = 0 /\ InOpen("w100")' = InOpen("w100")
            BY <1>m, <6>1 DEF InOpen
          <6>3. QED
            BY <1>p, <6>2 DEF InOpen
        <5>3. CASE s = "w100" /\ ~ UNCHANGED <<builder, win, stage>>
          <6>1. /\ Len(builder'["w100"].rows) = 0 /\ builder'["w10"] = builder["w10"]
                /\ win'.scale = "w100" /\ win'.of.count = Len(builder["w100"].rows)
            BY <1>p, <2>2, <5>3
          <6>2. /\ InHand("w100")' = Len(builder["w100"].rows) /\ InHand("w10")' = 0
                /\ InOpen("w100")' = 0 /\ InOpen("w10")' = InOpen("w10")
            BY <1>m, <6>1 DEF InOpen
          <6>3. QED
            BY <1>p, <6>2 DEF InOpen
        <5>4. QED
          BY <1>p, <5>1, <5>2, <5>3
      <4>3. covered'["w10"] = covered["w10"] /\ covered'["w100"] = covered["w100"]
        BY <2>1
      <4>4. Accounted("w10")' = Accounted("w10")
        BY <1>c, <1>s, <4>1, <4>2, <4>3
      <4>5. Accounted("w100")' = Accounted("w100")
        BY <1>c, <1>s, <4>1, <4>2, <4>3
      <4>6. QED
        BY <4>4, <4>5
    <3>3. QED
      BY <1>i, <1>n, <1>m, <1>3, <1>p, <1>a, <2>1, <3>2 DEF Accounting
  <2>8. QED
    BY <2>3, <2>4, <2>5, <2>6, <2>7 DEF IInv
<1>4. ASSUME Exit PROVE IInv'
  <2>1. /\ pc = "counters" /\ pc' = "stopped"
        /\ UNCHANGED <<stage, pos, builder, win, res, override, covered, clean, lastLarge>>
    BY <1>4 DEF Exit, At, history
  <2>2. BuildersShort' /\ WindowInHand' /\ OverridesSpaced'
    BY <1>i, <1>4, <2>1 DEF BuildersShort, WindowInHand, OverridesSpaced, Exit, At
  <2>3. OverrideAnswer'
    BY <1>i, <2>1 DEF OverrideAnswer, OverrideFromLatest
  <2>4. LargeWindowsApart' /\ Accounting'
    BY <1>i, <2>1 DEF LargeWindowsApart, Accounting, Accounted, InOpen, InHand, Fed, Waiting
  <2>5. QED
    BY <2>2, <2>3, <2>4 DEF IInv
<1>5. ASSUME HandlePartial \/ WriteItems PROVE IInv'
  <2>1. /\ stage # "none" /\ stage' = "none" /\ win' = NoWindow /\ res' = NoResult
        /\ covered' = [covered EXCEPT ![win.scale] = @ + win.of.count]
        /\ UNCHANGED <<pc, pos, builder, override, clean, lastLarge>>
    BY <1>5 DEF HandlePartial, WriteItems, Return, WriteRow
  <2>2. win.scale \in Scales /\ covered \in [Scales -> Nat]
    BY <2>1 DEF TypeOK
  <2>3. BuildersShort' /\ WindowInHand' /\ LargeWindowsApart' /\ OverridesSpaced'
    BY <1>p, <1>i, <2>1
       DEF BuildersShort, WindowInHand, LargeWindowsApart, OverridesSpaced, Fed, Waiting
  <2>4. OverrideAnswer'
    BY <1>i, <2>1 DEF OverrideAnswer, NoResult, OverrideFromLatest
  <2>5. Accounting'
    <3>1. /\ Accounted("w10")' = Accounted("w10")
          /\ Accounted("w100")' = Accounted("w100")
      <4>1. InHand("w10")' = 0 /\ InHand("w100")' = 0
        BY <1>m, <1>z, <2>1
      <4>2. /\ covered'["w10"] = covered["w10"] + InHand("w10")
            /\ covered'["w100"] = covered["w100"] + InHand("w100")
        BY <1>p, <1>n, <2>1, <2>2
      <4>3. InOpen("w10")' = InOpen("w10") /\ InOpen("w100")' = InOpen("w100")
        BY <2>1 DEF InOpen
      <4>4. Accounted("w10")' = Accounted("w10")
        BY <1>c, <1>h, <1>s, <4>1, <4>2, <4>3
      <4>5. Accounted("w100")' = Accounted("w100")
        BY <1>c, <1>h, <1>s, <4>1, <4>2, <4>3
      <4>6. QED
        BY <4>4, <4>5
    <3>2. QED
      BY <1>i, <1>n, <1>m, <1>p, <2>1, <3>1 DEF Accounting
  <2>6. QED
    BY <2>3, <2>4, <2>5 DEF IInv
<1>6. ASSUME NEW tier \in Tiers, ClassifySmall(tier) PROVE IInv'
  <2>1. /\ stage = "handle" /\ stage' = "trigger"
        /\ win.scale = "w10" /\ win.of.count = SmallWindow
        /\ UNCHANGED <<pc, pos, builder, win, override, covered, clean, lastLarge>>
    BY <1>p, <1>6 DEF ClassifySmall, IsPartial
  <2>2. pc = "add100" /\ win.position = pos
    BY <1>i, <2>1 DEF WindowInHand
  <2>3. res'.by = "override" =>
          res'.upto = override[tier].upto /\ OverrideApplies(override[tier])
    BY <1>6 DEF ClassifySmall, Answer, Unavailable, AttackAnswers
  <2>4. OverrideAnswer'
    <3> SUFFICES ASSUME res'.by = "override" PROVE OverrideAnswer'
      BY <2>1 DEF OverrideAnswer, OverrideFromLatest
    <3> DEFINE upto == override[tier].upto
    <3>1. /\ override[tier] # NoOverride /\ upto \in Nat
          /\ upto < pos /\ pos <= upto + OverrideSpan
      BY <1>o, <2>2, <2>3 DEF OverrideApplies
    <3>2. lastLarge <= pos - 1
      BY <1>i, <1>n, <1>m, <1>p, <2>2 DEF LargeWindowsApart
    <3>3. upto = lastLarge
      BY <1>i, <1>p, <3>1, <3>2 DEF OverridesSpaced
    <3>4. QED
      BY <1>i, <1>p, <2>1, <2>2, <2>3, <3>1, <3>3 DEF OverrideAnswer, OverrideFromLatest
  <2>5. BuildersShort' /\ WindowInHand' /\ LargeWindowsApart' /\ OverridesSpaced'
    BY <1>p, <1>i, <2>1
       DEF BuildersShort, WindowInHand, LargeWindowsApart, OverridesSpaced, Fed, Waiting
  <2>6. Accounting'
    BY <1>i, <2>1 DEF Accounting, Accounted, InOpen, InHand, Fed, Waiting
  <2>7. QED
    BY <2>4, <2>5, <2>6 DEF IInv
<1>7. ASSUME NEW tier \in Tiers, ClassifyLarge(tier) PROVE IInv'
  <2>1. /\ stage = "handle" /\ stage' = "trigger"
        /\ win.scale = "w100" /\ win.of.count = LargeWindow
        /\ UNCHANGED <<pc, pos, builder, win, covered, clean, lastLarge>>
    BY <1>p, <1>7 DEF ClassifyLarge, IsPartial, history
  <2>2. win.position = lastLarge
    BY <1>i, <2>1 DEF WindowInHand
  <2>3. res'.by # "override"
    BY <1>7 DEF ClassifyLarge, Answer, Unavailable, AttackAnswers
  <2>4. \A t \in Tiers : override'[t] = override[t] \/ override'[t].upto = win.position
    <3>1. CASE UNCHANGED override
      BY <3>1
    <3>2. ASSUME NEW l, NEW sure,
                 override' = [override EXCEPT ![tier] =
                   [label |-> l, sure |-> sure, upto |-> win.position,
                              flow |-> win.of.flow]]
          PROVE  \A t \in Tiers : override'[t] = override[t] \/ override'[t].upto = win.position
      BY <3>2 DEF TypeOK
    <3>3. QED
      BY <1>7, <3>1, <3>2 DEF ClassifyLarge
  <2>5. OverridesSpaced'
    BY <1>i, <2>1, <2>2, <2>4 DEF OverridesSpaced
  <2>6. BuildersShort' /\ WindowInHand' /\ LargeWindowsApart' /\ OverrideAnswer'
    BY <1>p, <1>i, <2>1, <2>3
       DEF BuildersShort, WindowInHand, LargeWindowsApart, OverrideAnswer, OverrideFromLatest,
           Fed, Waiting
  <2>7. Accounting'
    BY <1>i, <2>1 DEF Accounting, Accounted, InOpen, InHand, Fed, Waiting
  <2>8. QED
    BY <2>5, <2>6, <2>7 DEF IInv
<1>8. ASSUME NoTrigger \/ Trigger \/ Collect PROVE IInv'
  <2>1. /\ stage \in {"trigger", "collect"} /\ stage' \in {"collect", "write"}
        /\ UNCHANGED <<pc, pos, builder, win, res, override, covered, clean, lastLarge>>
    BY <1>8 DEF NoTrigger, Trigger, Collect, history
  <2>2. BuildersShort' /\ WindowInHand' /\ OverridesSpaced'
    BY <1>i, <2>1 DEF BuildersShort, WindowInHand, OverridesSpaced
  <2>3. OverrideAnswer'
    BY <1>i, <2>1 DEF OverrideAnswer, OverrideFromLatest
  <2>4. LargeWindowsApart' /\ Accounting'
    BY <1>i, <2>1 DEF LargeWindowsApart, Accounting, Accounted, InOpen, InHand, Fed, Waiting
  <2>5. QED
    BY <2>2, <2>3, <2>4 DEF IInv
<1>9. ASSUME Tick \/ UNCHANGED vars PROVE IInv'
  <2>1. UNCHANGED <<pc, stage, pos, builder, win, res, override, covered, clean, lastLarge>>
    BY <1>9 DEF Tick, vars, code, history
  <2>2. BuildersShort' /\ WindowInHand' /\ OverridesSpaced'
    BY <1>i, <2>1 DEF BuildersShort, WindowInHand, OverridesSpaced
  <2>3. OverrideAnswer'
    BY <1>i, <2>1 DEF OverrideAnswer, OverrideFromLatest
  <2>4. LargeWindowsApart' /\ Accounting'
    BY <1>i, <2>1 DEF LargeWindowsApart, Accounting, Accounted, InOpen, InHand, Fed, Waiting
  <2>5. QED
    BY <2>2, <2>3, <2>4 DEF IInv
<1>10. ASSUME Interrupt \/ InterruptFlush \/ Kill PROVE IInv'
  <2>1. /\ pc' \in {"flush10", "stopped", "dead"}
        /\ stage' = "none" /\ win' = NoWindow /\ res' = NoResult
        /\ clean' => clean /\ pc = "idle" /\ stage = "none"
        /\ UNCHANGED <<pos, builder, override, covered, lastLarge>>
    BY <1>10 DEF Interrupt, InterruptFlush, Kill, At
  <2>2. BuildersShort' /\ WindowInHand' /\ OverridesSpaced'
    BY <1>p, <1>i, <2>1 DEF BuildersShort, WindowInHand, OverridesSpaced
  <2>3. LargeWindowsApart'
    BY <1>i, <1>n, <1>m, <1>p, <2>1 DEF LargeWindowsApart
  <2>4. OverrideAnswer'
    BY <1>i, <2>1 DEF OverrideAnswer, NoResult, OverrideFromLatest
  <2>5. Accounting'
    <3>1. InHand("w10")' = 0 /\ InHand("w100")' = 0
      BY <1>m, <1>z, <2>1
    <3>2. /\ InOpen("w10")' = InOpen("w10") /\ InOpen("w100")' = InOpen("w100")
          /\ covered'["w10"] = covered["w10"] /\ covered'["w100"] = covered["w100"]
      BY <2>1 DEF InOpen
    <3>3. Fed("w10")' >= Fed("w10") /\ Fed("w100")' >= Fed("w100")
      BY <1>p, <1>n, <1>m, <2>1
    <3>4. Accounted("w10")' <= Accounted("w10") /\ Accounted("w10")' \in Int
      BY <1>c, <1>h, <1>s, <3>1, <3>2
    <3>5. Accounted("w100")' <= Accounted("w100") /\ Accounted("w100")' \in Int
      BY <1>c, <1>h, <1>s, <3>1, <3>2
    <3>6. CASE clean'
      <4>1. win = NoWindow
        BY <1>i, <2>1, <3>6 DEF WindowInHand
      <4>2. InHand("w10") = 0 /\ InHand("w100") = 0
        BY <1>n, <1>z, <4>1
      <4>3. Accounted("w10")' = Accounted("w10") /\ Accounted("w100")' = Accounted("w100")
        BY <1>c, <1>s, <3>1, <3>2, <4>2
      <4>4. QED
        BY <1>i, <1>n, <1>m, <1>p, <1>a, <2>1, <3>6, <4>3 DEF Accounting
    <3>7. CASE ~ clean'
      BY <1>i, <1>n, <1>m, <1>p, <1>a, <2>1, <3>3, <3>4, <3>5, <3>7 DEF Accounting
    <3>8. QED
      BY <3>6, <3>7
  <2>6. QED
    BY <2>2, <2>3, <2>4, <2>5 DEF IInv
<1>11. ASSUME Restart PROVE IInv'
  <2>1. /\ builder' = [s \in Scales |-> EmptyBuilder] /\ stage' = "none" /\ pos' = 0
        /\ win' = NoWindow /\ lastLarge' = 0 /\ covered' = [s \in Scales |-> 0]
        /\ override' = [t \in Tiers |-> NoOverride] /\ res' = NoResult /\ pc' = "idle"
    BY <1>11 DEF Restart, FreshProcess
  <2>2. BuildersShort' /\ WindowInHand' /\ OverridesSpaced'
    BY <1>p, <2>1, EmptyBuilderType DEF BuildersShort, WindowInHand, OverridesSpaced, SizeOf
  <2>3. OverrideAnswer'
    BY <2>1 DEF OverrideAnswer, OverrideFromLatest, NoResult
  <2>4. Len(builder'["w10"].rows) = 0 /\ Len(builder'["w100"].rows) = 0
    BY <1>p, <2>1, EmptyBuilderType
  <2>5. LargeWindowsApart'
    BY <1>m, <2>1, <2>4 DEF LargeWindowsApart
  <2>6. Accounting'
    <3>1. /\ covered'["w10"] = 0 /\ covered'["w100"] = 0
          /\ InOpen("w10")' = 0 /\ InOpen("w100")' = 0
          /\ InHand("w10")' = 0 /\ InHand("w100")' = 0
      BY <1>p, <1>m, <1>z, <2>1, <2>4 DEF InOpen
    <3>2. Accounted("w10")' = 0 /\ Accounted("w100")' = 0
      BY <1>s, <3>1
    <3>3. QED
      BY <1>p, <1>m, <2>1, <3>2 DEF Accounting
  <2>7. QED
    BY <2>2, <2>3, <2>5, <2>6 DEF IInv
<1>12. ASSUME MainLine PROVE IInv'
  BY <1>p, <1>r, <1>1, <1>2, <1>3, <1>4, <1>12
     DEF MainLine, ExpireSmall, ExpireLarge, FlushSmall, FlushLarge
<1>13. ASSUME Handler PROVE IInv'
  BY <1>5, <1>6, <1>7, <1>8, <1>13 DEF Handler
<1>14. ASSUME Environment PROVE IInv'
  BY <1>9, <1>10, <1>11, <1>14 DEF Environment
<1>15. QED
  BY <1>r, <1>9, <1>12, <1>13, <1>14 DEF Next

LEMMA Invariance == Spec => []IInv
BY InvInit, InvNext, TypeCorrect, PTL DEF Spec

\* No processed packet is counted twice, and none is lost while no handler was
\* cut short (Accounting), whatever the window sizes.
THEOREM AccountingHolds == Spec => []Accounting
<1>1. IInv => Accounting
  BY DEF IInv
<1>2. QED
  BY <1>1, Invariance, PTL

\* An override that is applied is the one of the latest full 100-window
\* (OverrideFromLatest), for every span that is at most the window size.
THEOREM OverrideIsFresh == Spec => []OverrideFromLatest
<1>1. IInv => OverrideFromLatest
  BY DEF IInv, OverrideAnswer
<1>2. QED
  BY <1>1, Invariance, PTL
------------------------------------------------------------------------------
(* The age of open windows: the two checks after a packet each find or make *)
(* their window young, and no packet comes before both are done.            *)

Young(s) == builder[s].rows # <<>> => arrival[s] - builder[s].openedAt < IdleFlush

YoungInv ==
  /\ \A s \in Scales : arrival[s] <= now
  /\ pc \in {"expire100", "idle"} => Young("w10")
  /\ pc = "idle" => Young("w100")

\* What expire_stale_partial_window leaves open is young; the other builder and
\* the times of arrival stay as they are.
LEMMA ExpireEffect ==
  ASSUME TypeOK, YoungInv, NEW s \in Scales, NEW point, NEW next, Expire(s, point, next)
  PROVE  /\ Young(s)'
         /\ \A r \in Scales \ {s} : builder'[r] = builder[r]
         /\ arrival' = arrival /\ now' = now /\ pc' = next /\ pc = point
<1>1. arrival' = arrival /\ now' = now /\ pc' = next /\ pc = point
  BY DEF Expire, history, At
<1>2. /\ builder[s] \in Builder /\ builder[s].openedAt \in Int
      /\ arrival[s] \in Nat /\ now \in Nat /\ arrival[s] <= now
      /\ builder \in [Scales -> Builder]
  BY DEF TypeOK, Builder, NoTime, YoungInv
<1>3. CASE IsStale(builder[s], now)
  <2>1. builder' = [builder EXCEPT ![s] = EmptyBuilder]
    BY <1>3 DEF Expire, Close
  <2>2. QED
    BY <1>1, <1>2, <2>1 DEF Young, EmptyBuilder
<1>4. CASE ~ IsStale(builder[s], now)
  <2>1. builder' = builder
    BY <1>4 DEF Expire
  <2>2. builder[s].rows # <<>> => arrival[s] - builder[s].openedAt < IdleFlush
    BY <1>2, <1>4, IdleFlushAssumption DEF IsStale
  <2>3. QED
    BY <1>1, <2>1, <2>2 DEF Young
<1>5. QED
  BY <1>3, <1>4

LEMMA YoungInit == Init => YoungInv
BY EmptyBuilderType DEF Init, FreshProcess, YoungInv, Young, EmptyBuilder, Scales

LEMMA YoungNext == TypeOK /\ YoungInv /\ [Next]_vars => YoungInv'
<1> SUFFICES ASSUME TypeOK, YoungInv, [Next]_vars PROVE YoungInv'
  OBVIOUS
<1>t. now \in Nat /\ arrival \in [Scales -> Nat] /\ Scales = {"w10", "w100"}
  BY DEF TypeOK, Scales
<1>1. ASSUME NEW s \in Scales, NEW t, NEW position, AddTo(s, t, position), UNCHANGED now,
             pc' \in {"add100", "expire10"}
      PROVE  YoungInv'
  BY <1>t, <1>1 DEF AddTo, YoungInv
<1>r. CASE \E t \in Tags : ReceivePacket(t)
  BY <1>t, <1>r DEF ReceivePacket, YoungInv, history
<1>2. CASE AddToSmall
  BY <1>t, <1>1, <1>2 DEF AddToSmall
<1>3. CASE AddToLarge
  BY <1>t, <1>1, <1>3 DEF AddToLarge
<1>4. CASE ExpireSmall
  BY <1>t, <1>4, ExpireEffect DEF ExpireSmall, YoungInv
<1>5. CASE ExpireLarge
  <2>1. Young("w100")' /\ builder'["w10"] = builder["w10"] /\ UNCHANGED <<arrival, now>>
        /\ pc = "expire100"
    BY <1>t, <1>5, ExpireEffect DEF ExpireLarge
  <2>2. Young("w10")'
    BY <2>1 DEF YoungInv, Young
  <2>3. QED
    BY <2>1, <2>2 DEF YoungInv
\* The steps that leave the packets where they are, or end the main line.
<1>6. ASSUME UNCHANGED arrival, now <= now', now' \in Nat,
             UNCHANGED <<pc, builder>> \/ pc' \in FlushPoints \cup {"stopped", "dead"}
      PROVE  YoungInv'
  BY <1>t, <1>6 DEF YoungInv, Young, FlushPoints
<1>7. CASE FlushSmall \/ FlushLarge \/ Exit
  BY <1>t, <1>6, <1>7 DEF FlushSmall, FlushLarge, Flush, Exit, FlushPoints, history
<1>8. CASE Handler
  <2>1. UNCHANGED <<arrival, now, pc, builder>>
    BY <1>8 DEF Handler, HandlePartial, ClassifySmall, ClassifyLarge, NoTrigger, Trigger, Collect,
                WriteItems, history
  <2>2. QED
    BY <1>t, <1>6, <2>1
<1>9. CASE Tick
  <2>1. now' = now + 1 /\ UNCHANGED <<arrival, pc, builder>>
    BY <1>9 DEF Tick, history
  <2>2. QED
    BY <1>t, <1>6, <2>1
<1>10. CASE Interrupt \/ InterruptFlush \/ Kill
  BY <1>t, <1>6, <1>10 DEF Interrupt, InterruptFlush, Kill, FlushPoints
<1>11. CASE Restart
  <2>1. /\ builder' = [s \in Scales |-> EmptyBuilder] /\ arrival' = [s \in Scales |-> 0]
        /\ now' = now
    BY <1>11 DEF Restart, FreshProcess
  <2>2. QED
    BY <1>t, <2>1 DEF YoungInv, Young, EmptyBuilder
<1>12. CASE UNCHANGED vars
  BY <1>t, <1>6, <1>12 DEF vars, code, history
<1>13. QED
  BY <1>r, <1>2, <1>3, <1>4, <1>5, <1>7, <1>8, <1>9, <1>10, <1>11, <1>12
     DEF Next, MainLine, Environment

\* Between two packets no open window holds a packet that came IdleFlush or more
\* after the window was opened (OpenWindowsAreYoung), for every timeout: each
\* packet is followed by a check of both windows before the next one.
THEOREM WindowsStayYoung == Spec => []OpenWindowsAreYoung
<1>1. YoungInv => OpenWindowsAreYoung
  BY DEF YoungInv, Young, OpenWindowsAreYoung, At, Scales
<1>2. QED
  BY <1>1, YoungInit, YoungNext, TypeCorrect, PTL DEF Spec
------------------------------------------------------------------------------
(* Partial windows: past the first test of _handle_window there are only    *)
(* full ones.                                                               *)

FullInHand == stage \in {"trigger", "collect"} => win.of.count = SizeOf(win.scale)

LEMMA FullInit == Init => FullInHand
BY DEF Init, FreshProcess, FullInHand

LEMMA FullNext == FullInHand /\ [Next]_vars => FullInHand'
<1> SUFFICES ASSUME FullInHand, [Next]_vars PROVE FullInHand'
  OBVIOUS
<1>1. ASSUME NEW s \in Scales, NEW t, NEW position, AddTo(s, t, position) PROVE FullInHand'
  BY <1>1 DEF AddTo, Close, FullInHand
<1>r. CASE \E t \in Tags : ReceivePacket(t)
  BY <1>r DEF ReceivePacket, FullInHand
<1>2. CASE AddToSmall \/ AddToLarge
  BY <1>1, <1>2 DEF AddToSmall, AddToLarge, Scales
<1>3. CASE ExpireSmall \/ ExpireLarge \/ FlushSmall \/ FlushLarge \/ Exit
  BY <1>3 DEF ExpireSmall, ExpireLarge, FlushSmall, FlushLarge, Expire, Flush, Exit, Close, At,
              FullInHand
<1>4. CASE HandlePartial \/ WriteItems
  BY <1>4 DEF HandlePartial, WriteItems, Return, FullInHand
<1>5. ASSUME NEW tier \in Tiers, ClassifySmall(tier) \/ ClassifyLarge(tier) PROVE FullInHand'
  BY <1>5 DEF ClassifySmall, ClassifyLarge, IsPartial, FullInHand
<1>6. CASE NoTrigger \/ Trigger \/ Collect
  BY <1>6 DEF NoTrigger, Trigger, Collect, FullInHand
<1>7. CASE Environment
  BY <1>7 DEF Environment, Tick, Interrupt, InterruptFlush, Kill, Restart, FreshProcess,
              FullInHand
<1>8. CASE UNCHANGED vars
  BY <1>8 DEF vars, code, FullInHand
<1>9. QED
  BY <1>r, <1>2, <1>3, <1>4, <1>5, <1>6, <1>7, <1>8 DEF Next, MainLine, Handler

\* Within one life of the process, only three steps touch the override, the
\* cooldown or the latest bundle, and all of them have a full window in hand.
LEMMA EffectsOfFullWindows ==
  TypeOK /\ FullInHand /\ [Next]_vars =>
    (life' = life /\ <<override, lastTriggered, bundle>>' # <<override, lastTriggered, bundle>>
       => win.of.count = SizeOf(win.scale))
<1> SUFFICES ASSUME TypeOK, FullInHand, [Next]_vars, life' = life
             PROVE  \/ UNCHANGED <<override, lastTriggered, bundle>>
                    \/ win.of.count = SizeOf(win.scale)
  OBVIOUS
<1>1. CASE \E t \in Tags : ReceivePacket(t)
  BY <1>1 DEF ReceivePacket, history
<1>2. CASE MainLine
  BY <1>2 DEF MainLine, AddToSmall, AddToLarge, ExpireSmall, ExpireLarge, FlushSmall, FlushLarge, Expire,
              Flush, Exit, history
<1>3. CASE HandlePartial \/ NoTrigger \/ WriteItems
  BY <1>3 DEF HandlePartial, NoTrigger, WriteItems, history
<1>4. ASSUME NEW tier \in Tiers, ClassifySmall(tier) \/ ClassifyLarge(tier)
      PROVE  win.of.count = SizeOf(win.scale)
  BY <1>4 DEF ClassifySmall, ClassifyLarge, IsPartial
<1>5. CASE Trigger \/ Collect
  BY <1>5 DEF Trigger, Collect, FullInHand
<1>6. CASE Tick \/ Interrupt \/ InterruptFlush \/ Kill
  BY <1>6 DEF Tick, Interrupt, InterruptFlush, Kill, history
<1>7. CASE Restart
  <2>1. life' = life + 1 /\ life \in Nat
    BY <1>7 DEF Restart, TypeOK
  <2>2. QED
    BY <2>1
<1>8. CASE UNCHANGED vars
  BY <1>8 DEF vars, code, history
<1>9. QED
  BY <1>1, <1>2, <1>3, <1>4, <1>5, <1>6, <1>7, <1>8 DEF Next, Handler, Environment

\* Within one life of the process nothing that a partial window contains reaches
\* the override, the cooldown or an evidence bundle (PartialsHaveNoEffect), for
\* every window size: the early return of _handle_window stands before all three.
THEOREM PartialsChangeNothing == Spec => PartialsHaveNoEffect
<1>1. FullInHand /\ TypeOK /\ [Next]_vars =>
        [(life' = life
            /\ <<override, lastTriggered, bundle>>' # <<override, lastTriggered, bundle>>)
           => win.of.count = SizeOf(win.scale)]_vars
  BY EffectsOfFullWindows
<1>2. QED
  BY <1>1, FullInit, FullNext, TypeCorrect, PTL DEF Spec, PartialsHaveNoEffect
==============================================================================
