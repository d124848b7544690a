---------------------------- MODULE ShadowStacks -----------------------------
(***************************************************************************)
(* The two shadow stacks that compiled code keeps in its data area: the    *)
(* profiler's (riscv_profiling.cpp) and the debugger's (riscv_debug.cpp),  *)
(* pushed in the prologue and where a coroutine resumes, popped at a       *)
(* return and where a coroutine suspends (riscv_codegen.cpp).              *)
(*                                                                         *)
(* Each sequence of instrumentation is one step and takes no time.  The    *)
(* variable `stack` is the real call stack, with what each call has spent; *)
(* it is what the shadow stacks are compared with.                         *)
(***************************************************************************)
EXTENDS Integers, Sequences, FiniteSets, FiniteSetsExt

CONSTANTS
    Functions,      \* functions of the program
    Sites,          \* return addresses
    MAX_DEPTH,      \* frames that a shadow stack holds
    Word,           \* 2^w for a machine word of w bits
    MaxTime,        \* bound: time
    MaxStack,       \* bound: real calls in progress
    MaxCalls,       \* bound: calls and resumptions
    MaxSuspended,   \* bound: coroutines that wait
    MaxFaults       \* bound: faults

ASSUME ShadowStacksAssumption ==
    /\ MAX_DEPTH \in Nat \ {0} /\ Word \in Nat
    /\ MaxStack \in Nat /\ MaxStack < Word
    /\ Word > 2 * (MAX_DEPTH + MaxStack * (MaxFaults + 1)) /\ Word > MaxTime

VARIABLES
    clock,       \* the rdtime or rdcycle counter
    prof,        \* the profiling area: [depth, overflow, frames, records]
    debug,       \* the debug area: [depth, frames]
    stack,       \* the calls in progress, innermost last
    suspended,   \* coroutines that wait, as functions
    calls,       \* calls and resumptions so far
    faults,      \* faults so far
    lost,        \* calls that were recorded and whose exit a fault took away
    spent,       \* what the other finished calls really took, per function
    unwound,     \* a fault reset the debugger's depth below calls that go on
    shifted,     \* a fault left the profiler's depth too high for calls that go on
    misplaced    \* a store went outside an area or into another call's frame

vars == <<clock, prof, debug, stack, suspended, calls, faults, lost, spent,
          unwound, shifted, misplaced>>

Sub(a, b) == (a - b + Word) % Word

Add(a, b) == (a + b) % Word

Slots == 0 .. MAX_DEPTH - 1

Zero == [count |-> 0, self |-> 0, total |-> 0]

\* Adding one call to a record.
Charge(record, self, total) ==
    [count |-> Add(record.count, 1), self |-> Add(record.self, self),
     total |-> Add(record.total, total)]

-----------------------------------------------------------------------------
(* The instrumentation. *)

\* bgeu: a depth at the limit or below zero is counted and not recorded.
IsRecorded(depth) == depth < MAX_DEPTH

Store(frames, slot, frame) ==
    IF slot \in Slots THEN [frames EXCEPT ![slot] = frame] ELSE frames

\* (Slip: a depth below zero is no overflow.)
OverflowSigned(depth) ==
    IF IsRecorded(depth) \/ depth >= Word \div 2 THEN prof.overflow ELSE Add(prof.overflow, 1)

Overflow(depth) == IF IsRecorded(depth) THEN prof.overflow ELSE Add(prof.overflow, 1)

\* (Slip: the time of the frame's former callees is kept.)
FreshFrameKeepsChild(slot) ==
    [stamp |-> clock, child |-> IF slot \in Slots THEN prof.frames[slot].child ELSE 0]

FreshFrame(slot) == [stamp |-> clock, child |-> 0]

emit_profiling_entry ==
    prof' = [prof EXCEPT
        !.depth = Add(@, 1),
        !.overflow = Overflow(prof.depth),
        !.frames = IF IsRecorded(prof.depth)
                   THEN Store(@, prof.depth, FreshFrame(prof.depth)) ELSE @]

\* (Slip: the outermost call has a caller too.)
CallerSlotsAlways(slot) == IF IsRecorded(slot) THEN {slot - 1} ELSE {}

\* Where the exit of a call stores: beq skips it for the outermost.
CallerSlots(slot) == IF IsRecorded(slot) /\ slot # 0 THEN {slot - 1} ELSE {}

\* The caller's frame, if there is one, is told how long the call took.
ToCaller(frames, slot, elapsed) ==
    [s \in Slots |-> IF s \in CallerSlots(slot)
                     THEN [frames[s] EXCEPT !.child = Add(@, elapsed)] ELSE frames[s]]

emit_profiling_exit(f) ==
    LET slot    == Sub(prof.depth, 1)
        frame   == IF slot \in Slots THEN prof.frames[slot] ELSE [stamp |-> 0, child |-> 0]
        elapsed == Sub(clock, frame.stamp)
    IN  prof' = IF IsRecorded(slot)
                THEN [prof EXCEPT
                        !.depth = slot,
                        !.records[f] = Charge(@, Sub(elapsed, frame.child), elapsed),
                        !.frames = ToCaller(@, slot, elapsed)]
                ELSE [prof EXCEPT !.depth = slot]

\* (Slip: a call that is too deep overwrites the last frame.)
DebugEntryLast(frame) ==
    debug' = [depth |-> Add(debug.depth, 1),
              frames |-> Store(debug.frames, IF IsRecorded(debug.depth)
                                             THEN debug.depth ELSE MAX_DEPTH - 1, frame)]

emit_debug_entry(frame) ==
    debug' = [depth |-> Add(debug.depth, 1),
              frames |-> IF IsRecorded(debug.depth)
                         THEN Store(debug.frames, debug.depth, frame)
                         ELSE debug.frames]

emit_debug_exit ==
    debug' = [depth |-> Sub(debug.depth, 1), frames |-> debug.frames]

-----------------------------------------------------------------------------
(* The program. *)

NoSlot == MAX_DEPTH

\* The call in progress has a frame of its own.
Recorded(i) == stack[i].slot # NoSlot

Innermost(i) ==
    /\ Recorded(i)
    /\ \A j \in i + 1 .. Len(stack) : ~Recorded(j)

\* Some store into one of the slots leaves the area or hits the frame of a call
\* among `others'.
Misplaces(slots, others) ==
    slots \ Slots # {} \/ \E i \in others : stack[i].slot \in slots

\* The clock runs; the time belongs to the innermost call that is recorded.
Tick ==
    /\ clock < MaxTime
    /\ clock' = clock + 1
    /\ stack' = [i \in 1 .. Len(stack) |->
                   [stack[i] EXCEPT !.total = @ + 1,
                                    !.self = IF Innermost(i) THEN @ + 1 ELSE @]]
    /\ UNCHANGED <<prof, debug, suspended, calls, faults, lost, spent, unwound, shifted, misplaced>>

\* The prologue, of a call (by the program or by the host) or of a resumption.
Enter(f, site, host) ==
    /\ Len(stack) < MaxStack /\ calls < MaxCalls
    /\ calls' = calls + 1
    /\ emit_profiling_entry
    /\ emit_debug_entry([fn |-> f, ra |-> site, sp |-> Len(stack)])
    /\ stack' = Append(stack, [fn |-> f, ra |-> site, host |-> host, self |-> 0,
                               total |-> 0,
                               slot |-> IF prof.depth \in Slots THEN prof.depth ELSE NoSlot])
    /\ misplaced' = (\/ misplaced
                     \/ IsRecorded(prof.depth) /\ Misplaces({prof.depth}, DOMAIN stack)
                     \/ IsRecorded(debug.depth) /\ Misplaces({debug.depth}, {}))
    /\ UNCHANGED <<clock, faults, lost, spent, unwound, shifted>>

Call(f, site, host) ==
    /\ stack = <<>> => host
    /\ Enter(f, site, host)
    /\ UNCHANGED suspended

emit_coroutine_resume_entry(f, site) ==
    /\ f \in suspended
    /\ suspended' = suspended \ {f}
    /\ Enter(f, site, TRUE)

\* The innermost call ends.
Exit ==
    LET call == stack[Len(stack)] IN
    /\ stack # <<>>
    /\ emit_profiling_exit(call.fn)
    /\ emit_debug_exit
    /\ stack' = SubSeq(stack, 1, Len(stack) - 1)
    /\ spent' = IF Recorded(Len(stack))
                THEN [spent EXCEPT ![call.fn] = Charge(@, call.self, call.total)]
                ELSE spent
    /\ misplaced' = (misplaced \/ Misplaces(CallerSlots(Sub(prof.depth, 1)), 1 .. Len(stack) - 2))
    /\ UNCHANGED <<clock, calls, faults, lost, unwound, shifted>>

Return == Exit /\ UNCHANGED suspended

emit_suspend_epilogue ==
    /\ stack # <<>> /\ Cardinality(suspended) < MaxSuspended
    /\ stack[Len(stack)].fn \notin suspended
    /\ suspended' = suspended \cup {stack[Len(stack)].fn}
    /\ Exit

\* A fault ends every call since the host last entered the program, without
\* their exits; the host sets the debugger's depth to 0.  It may reset the
\* profiler's as well: the calls that go on are then given up.
Fault ==
    /\ stack # <<>> /\ faults < MaxFaults
    /\ debug' = [depth |-> 0, frames |-> debug.frames]
    /\ \E entry \in 1 .. Len(stack), reset \in BOOLEAN :
          /\ stack[entry].host
          /\ \A j \in entry + 1 .. Len(stack) : ~stack[j].host
          /\ stack' = [i \in 1 .. entry - 1 |->
                         IF reset THEN [stack[i] EXCEPT !.slot = NoSlot] ELSE stack[i]]
          /\ prof' = IF reset THEN [prof EXCEPT !.depth = 0] ELSE prof
          /\ lost' = lost + Cardinality({i \in (IF reset THEN 1 ELSE entry) .. Len(stack) : Recorded(i)})
          /\ unwound' = (unwound \/ entry > 1)
          /\ shifted' = (shifted \/ (entry > 1 /\ ~reset))
    /\ faults' = faults + 1
    /\ UNCHANGED <<clock, suspended, calls, spent, misplaced>>

NoFrame == [fn |-> "none", ra |-> 0, sp |-> 0]

Init ==
    /\ clock = 0
    /\ prof = [depth |-> 0, overflow |-> 0,
               frames |-> [s \in Slots |-> [stamp |-> 0, child |-> 0]],
               records |-> [f \in Functions |-> Zero]]
    /\ debug = [depth |-> 0, frames |-> [s \in Slots |-> NoFrame]]
    /\ stack = <<>> /\ suspended = {} /\ calls = 0 /\ faults = 0 /\ lost = 0
    /\ spent = [f \in Functions |-> Zero]
    /\ unwound = FALSE /\ shifted = FALSE /\ misplaced = FALSE

Next ==
    \/ Tick
    \/ \E f \in Functions, site \in Sites, host \in BOOLEAN : Call(f, site, host)
    \/ \E f \in Functions, site \in Sites : emit_coroutine_resume_entry(f, site)
    \/ Return
    \/ emit_suspend_epilogue
    \/ Fault

Spec == Init /\ [][Next]_vars

-----------------------------------------------------------------------------
(* Properties. *)

\* Whenever the debugger stops, the frames it finds are the calls in progress,
\* outermost first, as far as there is room (emit_debug_entry).
BacktraceIsTheStack ==
    ~unwound => \A i \in DOMAIN stack : i <= MAX_DEPTH =>
        debug.frames[i - 1] = [fn |-> stack[i].fn, ra |-> stack[i].ra, sp |-> i - 1]

\* A function's self time is the time in which one of its finished calls was
\* the innermost recorded one, and its total is what its calls took; a call too
\* deep to be recorded counts for its caller.  So it is after a fault, too: a call
\* that goes on over a depth the host reset is charged nothing rather than what
\* some other frame says (emit_profiling_entry, emit_profiling_exit).
TimesAreExact == ~shifted => prof.records = spent

\* Every call is accounted for once: charged, in progress with a frame, counted as
\* an overflow, or taken away by a fault.  Entry and exit agree on which it is,
\* also while the depth is below zero (emit_profiling_entry, emit_profiling_exit).
EveryCallIsCounted ==
    ~shifted => calls = MapThenSumSet(LAMBDA f : prof.records[f].count, Functions)
                        + Cardinality({i \in DOMAIN stack : Recorded(i)})
                        + prof.overflow + lost

\* "Unsigned: underflow from exception unwind wraps high and skips like
\* overflow" (riscv_profiling.cpp:58): whatever depth the host reset below calls
\* that go on, a store of an entry hits no frame of a call in progress, one of an
\* exit hits at most the caller's, and none leaves the area.
StoresStayApart == ~misplaced

=============================================================================
