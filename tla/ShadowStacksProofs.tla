-------------------------- MODULE ShadowStacksProofs -------------------------
(***************************************************************************)
(* The debugger's shadow stack is the real call stack, for any number of   *)
(* functions, any depth of calls and any size of the shadow stack.         *)
(***************************************************************************)
EXTENDS ShadowStacks, SequenceTheorems, TLAPS

\* What a call of the real stack looks like.
CallOf == [fn : Functions, ra : Sites, host : BOOLEAN, self : Int, total : Int,
           slot : Nat]

FrameOf(call, i) == [fn |-> call.fn, ra |-> call.ra, sp |-> i - 1]

\* The strengthening: besides the backtrace itself, the depth is that of the
\* stack, so that the next frame goes right above the last.  A call that the
\* shadow stack has no room for is counted, which is what keeps the depth right
\* on the way back.
BacktraceInv ==
    /\ stack \in Seq(CallOf) /\ Len(stack) <= MaxStack
    /\ unwound \in BOOLEAN
    /\ debug.frames = [s \in Slots |-> debug.frames[s]]
    /\ ~unwound =>
         /\ debug.depth = Len(stack)
         /\ \A i \in 1 .. Len(stack) :
               i <= MAX_DEPTH => debug.frames[i - 1] = FrameOf(stack[i], i)

\* Below the word size the machine's addition and subtraction are the integers'.
LEMMA SmallWords ==
    ASSUME NEW n \in Nat, n < Word
    PROVE  /\ n + 1 < Word => Add(n, 1) = n + 1
           /\ n > 0 => Sub(n, 1) = n - 1
<1>1. \A k \in 0 .. Word - 1 : k % Word = k
  BY ShadowStacksAssumption
<1>2. n > 0 => (n - 1 + Word) % Word = n - 1
  BY <1>1, ShadowStacksAssumption
<1>. QED BY <1>1, <1>2, ShadowStacksAssumption DEF Add, Sub

\* What is left of a stack when calls end.
LEMMA Prefix ==
    ASSUME NEW S, NEW s \in Seq(S), NEW n \in 0 .. Len(s)
    PROVE  /\ SubSeq(s, 1, n) \in Seq(S)
           /\ Len(SubSeq(s, 1, n)) = n
           /\ \A i \in 1 .. n : SubSeq(s, 1, n)[i] = s[i]
<1>1. \A i \in 1 .. n : s[i] \in S
  OBVIOUS
<1>2. 1 \in Int /\ n \in Int /\ n - 1 + 1 = n
  OBVIOUS
<1>. QED BY <1>1, <1>2, SubSeqProperties

\* The frames of the calls that stay, if they and the depth stay in step.
LEMMA SameFrames ==
    ASSUME BacktraceInv,
           stack' \in Seq(CallOf), Len(stack') <= Len(stack),
           \A i \in 1 .. Len(stack') :
              stack'[i].fn = stack[i].fn /\ stack'[i].ra = stack[i].ra,
           debug'.frames = debug.frames,
           unwound' \in BOOLEAN,
           ~unwound' => ~unwound /\ debug'.depth = Len(stack')
    PROVE  BacktraceInv'
<1>1. Len(stack) \in Nat /\ Len(stack') \in Nat /\ Len(stack') <= MaxStack
  BY ShadowStacksAssumption DEF BacktraceInv
<1>2. debug'.frames = [s \in Slots |-> debug'.frames[s]]
  BY DEF BacktraceInv
<1>3. ASSUME ~unwound', NEW i \in 1 .. Len(stack'), i <= MAX_DEPTH
      PROVE  debug'.frames[i - 1] = FrameOf(stack'[i], i)
  <2>1. i \in 1 .. Len(stack)
    BY <1>1, <1>3
  <2>2. debug.frames[i - 1] = FrameOf(stack[i], i)
    BY <1>3, <2>1 DEF BacktraceInv
  <2>. QED BY <2>2, <1>3 DEF FrameOf
<1>. QED BY <1>1, <1>2, <1>3 DEF BacktraceInv

\* An entry puts the frame of the new call above those that are there.
LEMMA EntryPreserves ==
    ASSUME BacktraceInv, NEW f \in Functions, NEW site \in Sites,
           NEW host \in BOOLEAN, Enter(f, site, host)
    PROVE  BacktraceInv'
<1>. DEFINE call == [fn |-> f, ra |-> site, host |-> host, self |-> 0, total |-> 0,
                     slot |-> IF prof.depth \in Slots THEN prof.depth ELSE NoSlot]
            frame == [fn |-> f, ra |-> site, sp |-> Len(stack)]
<1>1. /\ stack' = Append(stack, call) /\ call \in CallOf
      /\ Len(stack) < MaxStack /\ unwound' = unwound
  <2>1. (IF prof.depth \in Slots THEN prof.depth ELSE NoSlot) \in Nat
    BY ShadowStacksAssumption DEF Slots, NoSlot
  <2>. QED BY <2>1 DEF Enter, CallOf
<1>2. /\ stack' \in Seq(CallOf) /\ Len(stack') = Len(stack) + 1
      /\ stack'[Len(stack) + 1] = call
      /\ \A i \in 1 .. Len(stack) : stack'[i] = stack[i]
  <2>. HIDE DEF call
  <2>. QED BY <1>1 DEF BacktraceInv
<1>3. debug' = [depth |-> Add(debug.depth, 1),
                frames |-> IF IsRecorded(debug.depth)
                           THEN Store(debug.frames, debug.depth, frame)
                           ELSE debug.frames]
  BY DEF Enter, emit_debug_entry
<1>4. debug'.frames = [s \in Slots |-> debug'.frames[s]]
  BY <1>3 DEF BacktraceInv, Store
<1>5. ASSUME ~unwound'
      PROVE  debug'.depth = Len(stack')
  BY <1>1, <1>2, <1>3, <1>5, SmallWords, ShadowStacksAssumption DEF BacktraceInv
<1>6. ASSUME ~unwound', NEW i \in 1 .. Len(stack'), i <= MAX_DEPTH
      PROVE  debug'.frames[i - 1] = FrameOf(stack'[i], i)
  <2>1. debug.depth = Len(stack) /\ Len(stack) \in Nat
    BY <1>1, <1>6 DEF BacktraceInv
  <2>2. CASE i = Len(stack) + 1
    <3>1. IsRecorded(debug.depth) /\ debug.depth \in Slots
      BY <2>1, <2>2, <1>6, ShadowStacksAssumption DEF IsRecorded, Slots
    <3>2. debug'.frames[i - 1] = frame
      BY <3>1, <2>1, <2>2, <1>3 DEF Store, BacktraceInv
    <3>. QED BY <3>2, <2>1, <2>2, <1>2 DEF FrameOf
  <2>3. CASE i \in 1 .. Len(stack)
    <3>1. i - 1 # debug.depth /\ i - 1 \in Slots
      BY <2>1, <2>3, <1>6, ShadowStacksAssumption DEF Slots
    <3>2. debug'.frames[i - 1] = debug.frames[i - 1]
      BY <3>1, <1>3 DEF Store, BacktraceInv
    <3>. QED BY <3>2, <2>3, <1>1, <1>2, <1>6 DEF BacktraceInv
  <2>. QED BY <2>1, <2>2, <2>3, <1>2, <1>6
<1>. QED BY SMTT(30), <1>1, <1>2, <1>4, <1>5, <1>6, ShadowStacksAssumption DEF BacktraceInv

\* An exit only lowers the depth; the frames below are untouched.
LEMMA ExitPreserves ==
    ASSUME BacktraceInv, Exit
    PROVE  BacktraceInv'
<1>1. /\ stack # <<>> /\ stack' = SubSeq(stack, 1, Len(stack) - 1)
      /\ unwound' = unwound
      /\ debug' = [depth |-> Sub(debug.depth, 1), frames |-> debug.frames]
  BY DEF Exit, emit_debug_exit
<1>2. Len(stack) \in Nat /\ Len(stack) > 0 /\ Len(stack) - 1 \in 0 .. Len(stack)
  <2>1. stack \in Seq(CallOf)
    BY DEF BacktraceInv
  <2>. QED BY <1>1, <2>1
<1>3. /\ stack' \in Seq(CallOf) /\ Len(stack') = Len(stack) - 1
      /\ \A i \in 1 .. Len(stack') : stack'[i] = stack[i]
  <2>1. stack \in Seq(CallOf)
    BY DEF BacktraceInv
  <2>. QED BY Zenon, <1>1, <1>2, <2>1, Prefix
<1>4. ~unwound' => ~unwound /\ debug'.depth = Len(stack')
  BY SMTT(30), <1>1, <1>2, <1>3, SmallWords, ShadowStacksAssumption DEF BacktraceInv
<1>5. unwound' \in BOOLEAN
  BY <1>1 DEF BacktraceInv
<1>6. debug'.frames = debug.frames
  BY <1>1
<1>. QED BY <1>2, <1>3, <1>4, <1>5, <1>6, SameFrames

\* The clock changes no call but in the time it has spent.
LEMMA TickPreserves ==
    ASSUME BacktraceInv, Tick
    PROVE  BacktraceInv'
<1>1. /\ stack' = [i \in 1 .. Len(stack) |->
                     [stack[i] EXCEPT !.total = @ + 1,
                                      !.self = IF Innermost(i) THEN @ + 1 ELSE @]]
      /\ debug' = debug /\ unwound' = unwound
  BY Zenon DEF Tick
<1>2. \A i \in 1 .. Len(stack) :
         stack'[i] \in CallOf /\ stack'[i].fn = stack[i].fn /\ stack'[i].ra = stack[i].ra
  <2>. SUFFICES ASSUME NEW i \in 1 .. Len(stack)
                PROVE  stack'[i] \in CallOf /\ stack'[i].fn = stack[i].fn
                       /\ stack'[i].ra = stack[i].ra
    OBVIOUS
  <2>. DEFINE c == stack[i]
              self == IF Innermost(i) THEN c.self + 1 ELSE c.self
  <2>1. stack'[i] = [c EXCEPT !.total = c.total + 1, !.self = self]
    BY Zenon, <1>1 DEF BacktraceInv
  <2>2. c \in CallOf
    BY DEF BacktraceInv
  <2>3. c.total + 1 \in Int /\ self \in Int
    <3>1. c.total \in Int /\ c.self \in Int
      BY <2>2 DEF CallOf
    <3>. QED BY <3>1
  <2>. HIDE DEF c, self
  <2>. QED BY Zenon, <2>1, <2>2, <2>3 DEF CallOf, c
<1>3. stack' \in Seq(CallOf) /\ Len(stack') = Len(stack)
  <2>1. Len(stack) \in Nat
    BY SMTT(30) DEF BacktraceInv
  <2>. DEFINE Later(i) == [stack[i] EXCEPT !.total = @ + 1,
                                           !.self = IF Innermost(i) THEN @ + 1 ELSE @]
  <2>2. stack' = [i \in 1 .. Len(stack) |-> Later(i)]
    BY Zenon, <1>1
  <2>. HIDE DEF Later
  <2>3. stack' = [i \in 1 .. Len(stack) |-> stack'[i]]
    BY <2>2
  <2>. HIDE <1>1
  <2>. QED BY <1>2, <2>1, <2>3, SeqDef, LenProperties
<1>4. Len(stack) \in Nat /\ Len(stack') <= Len(stack)
  BY SMTT(30), <1>3 DEF BacktraceInv
<1>5. debug'.frames = debug.frames /\ unwound' \in BOOLEAN
  BY Zenon, <1>1 DEF BacktraceInv
<1>. HIDE <1>1
<1>6. ~unwound' => ~unwound /\ debug'.depth = Len(stack')
  <2>1. debug' = debug /\ unwound' = unwound
    BY Zenon, <1>1
  <2>. QED BY SMTT(30), <1>3, <2>1 DEF BacktraceInv
<1>7. \A i \in 1 .. Len(stack') :
         stack'[i].fn = stack[i].fn /\ stack'[i].ra = stack[i].ra
  BY <1>2, <1>3
<1>. QED BY <1>3, <1>4, <1>5, <1>6, <1>7, SameFrames

\* After a fault either no call is left or the stacks are given up.
LEMMA FaultPreserves ==
    ASSUME BacktraceInv, Fault
    PROVE  BacktraceInv'
<1>1. PICK entry \in 1 .. Len(stack), reset \in BOOLEAN :
         /\ stack' = [i \in 1 .. entry - 1 |->
                        IF reset THEN [stack[i] EXCEPT !.slot = NoSlot] ELSE stack[i]]
         /\ unwound' = (unwound \/ entry > 1)
  BY DEF Fault
<1>2. debug' = [depth |-> 0, frames |-> debug.frames]
  BY DEF Fault
<1>3. stack \in Seq(CallOf) /\ entry - 1 \in 0 .. Len(stack) /\ Len(stack) \in Nat
  BY DEF BacktraceInv
<1>9. \A i \in 1 .. entry - 1 :
         stack'[i] \in CallOf /\ stack'[i].fn = stack[i].fn /\ stack'[i].ra = stack[i].ra
  <2>. SUFFICES ASSUME NEW i \in 1 .. entry - 1
                PROVE  stack'[i] \in CallOf /\ stack'[i].fn = stack[i].fn
                       /\ stack'[i].ra = stack[i].ra
    OBVIOUS
  <2>. DEFINE c == stack[i]
  <2>1. c \in CallOf
    BY <1>3
  <2>2. stack'[i] = (IF reset THEN [c EXCEPT !.slot = NoSlot] ELSE c)
    BY <1>1
  <2>3. NoSlot \in Nat
    BY ShadowStacksAssumption DEF NoSlot
  <2>. HIDE DEF c
  <2>. QED BY SMTT(30), <2>1, <2>2, <2>3 DEF CallOf, c
<1>4. /\ stack' \in Seq(CallOf) /\ Len(stack') = entry - 1
      /\ \A i \in 1 .. Len(stack') :
            stack'[i].fn = stack[i].fn /\ stack'[i].ra = stack[i].ra
  <2>1. entry - 1 \in Nat
    BY <1>3
  <2>2. stack' = [i \in 1 .. entry - 1 |-> stack'[i]]
    BY <1>1
  <2>. HIDE <1>1
  <2>3. stack' \in Seq(CallOf) /\ Len(stack') = entry - 1
    BY <1>9, <2>1, <2>2, SeqDef, LenProperties
  <2>. QED BY <1>9, <2>3
<1>5. ~unwound' => ~unwound /\ debug'.depth = Len(stack')
  <2>1. ~unwound' => ~unwound /\ ~(entry > 1)
    BY <1>1, Zenon
  <2>2. ~(entry > 1) => Len(stack') = 0
    BY <1>3, <1>4
  <2>3. debug'.depth = 0
    BY <1>2
  <2>. QED BY <2>1, <2>2, <2>3, Zenon
<1>6. unwound' \in BOOLEAN
  BY <1>1
<1>7. debug'.frames = debug.frames
  BY <1>2
<1>. QED BY <1>3, <1>4, <1>5, <1>6, <1>7, SameFrames

\* Whenever the debugger stops, the frames it finds are the calls in progress
\* (emit_debug_entry, emit_debug_exit): for every program, every depth of calls
\* and every size of the shadow stack.
THEOREM Backtrace == Spec => []BacktraceIsTheStack
<1>1. Init => BacktraceInv
  <2>. SUFFICES ASSUME Init PROVE BacktraceInv
    OBVIOUS
  <2>1. stack = <<>> /\ unwound = FALSE
    BY DEF Init
  <2>2. debug = [depth |-> 0, frames |-> [s \in Slots |-> NoFrame]]
    BY DEF Init
  <2>3. debug.depth = 0 /\ debug.frames = [s \in Slots |-> NoFrame]
    BY <2>2
  <2>4. debug.frames = [s \in Slots |-> debug.frames[s]]
    BY <2>3
  <2>5. stack \in Seq(CallOf) /\ Len(stack) = 0
    BY <2>1
  <2>6. Len(stack) <= MaxStack /\ 1 .. Len(stack) = {}
    BY <2>5, ShadowStacksAssumption
  <2>7. unwound \in BOOLEAN
    BY Zenon, <2>1
  <2>8. debug.depth = Len(stack)
    BY <2>3, <2>5
  <2>. QED BY <2>4, <2>5, <2>6, <2>7, <2>8, Zenon DEF BacktraceInv
<1>2. BacktraceInv /\ [Next]_vars => BacktraceInv'
  <2>. SUFFICES ASSUME BacktraceInv, [Next]_vars PROVE BacktraceInv'
    OBVIOUS
  <2>1. CASE Tick
    BY <2>1, TickPreserves
  <2>2. ASSUME NEW f \in Functions, NEW site \in Sites, NEW host \in BOOLEAN,
               Call(f, site, host)
        PROVE  BacktraceInv'
    BY <2>2, EntryPreserves DEF Call
  <2>3. ASSUME NEW f \in Functions, NEW site \in Sites,
               emit_coroutine_resume_entry(f, site)
        PROVE  BacktraceInv'
    BY Zenon, <2>3, EntryPreserves DEF emit_coroutine_resume_entry
  <2>4. CASE Return
    BY <2>4, ExitPreserves DEF Return
  <2>5. CASE emit_suspend_epilogue
    BY <2>5, ExitPreserves DEF emit_suspend_epilogue
  <2>6. CASE Fault
    BY <2>6, FaultPreserves
  <2>7. CASE UNCHANGED vars
    BY <2>7 DEF vars, BacktraceInv
  <2>. QED BY <2>1, <2>2, <2>3, <2>4, <2>5, <2>6, <2>7 DEF Next
<1>3. BacktraceInv => BacktraceIsTheStack
  BY DEF BacktraceInv, BacktraceIsTheStack, FrameOf
<1>. QED BY <1>1, <1>2, <1>3, PTL DEF Spec

=============================================================================
