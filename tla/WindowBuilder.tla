---------------------------- MODULE WindowBuilder ----------------------------
(***************************************************************************)
(* class WindowBuilder of 5g-edge-node/flow_builder.py as operators on its *)
(* state.  A builder groups every packet it is given, whatever flow the    *)
(* packet belongs to, into consecutive windows of a fixed number of        *)
(* packets.  Of a packet's row only the flow_id tag is kept (a packet      *)
(* rebuilt from IP fragments has lost it: NoFlow); of a window, what       *)
(* capture.py and model_engine.py read of it.                              *)
(***************************************************************************)
EXTENDS Integers, Sequences

CONSTANTS
  FlowIds,      \* identities of the replay jobs, as carried by the envelopes
  NoFlow,       \* None: a packet without a flow_id, a window without a single one
  IdleFlush     \* IDLE_FLUSH_SECONDS

ASSUME FlowAssumption == NoFlow \notin FlowIds
ASSUME IdleFlushAssumption == IdleFlush \in Nat

Tags == FlowIds \cup {NoFlow}

NoTime == -1    \* _real_window_opened_at = None

\* _rows/_identity as the sequence of tags, and the wall-clock time at which
\* the first packet of the window came in.
Builder == [rows : Seq(Tags), openedAt : Nat \cup {NoTime}]

EmptyBuilder == [rows |-> <<>>, openedAt |-> NoTime]

\* add_packet, up to the test of the window size.
AddRow(wb, tag, now) ==
  [rows     |-> Append(wb.rows, tag),
   openedAt |-> IF wb.openedAt = NoTime THEN now ELSE wb.openedAt]

IsFull(wb, size) == Len(wb.rows) >= size

\* Mutant: > for >= in the test of the age.
IsOlder(wb, now) ==
  /\ wb.rows # <<>>
  /\ now - wb.openedAt > IdleFlush

\* expire_stale_partial_window: age is counted from the opening of the window.
IsStale(wb, now) ==
  /\ wb.rows # <<>>
  /\ now - wb.openedAt >= IdleFlush

FlowsOf(rows) == {rows[i] : i \in DOMAIN rows} \ {NoFlow}

\* flow_ids[0] if there is exactly one tag in the window, else None.
SingleFlow(rows) ==
  IF \E f \in FlowIds : FlowsOf(rows) = {f}
  THEN CHOOSE f \in FlowIds : FlowsOf(rows) = {f}
  ELSE NoFlow

CloseReasons == {"window_size", "idle_stale", "shutdown_flush"}

\* The window _finalize returns; the builder it leaves is EmptyBuilder.
Finalize(wb, reason) ==
  [count  |-> Len(wb.rows),
   flow   |-> SingleFlow(wb.rows),
   reason |-> reason]
==============================================================================
