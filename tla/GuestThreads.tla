---------------------------- MODULE GuestThreads -----------------------------
(***************************************************************************)
(* The cooperative threads of a guest: MultiThreading and Thread of        *)
(* libriscv's threads.hpp, the futex and clone system calls of             *)
(* posix/threads.cpp and the native ones of native_threads.cpp.  One       *)
(* thread runs; the others are suspended, in the order in which they will  *)
(* run, or blocked on a word.                                              *)
(*                                                                         *)
(* Registers and stacks are left out.  The guest is arbitrary: whichever   *)
(* thread runs makes any system call next, or stores to the futex.  tgkill *)
(* and signals are left out.                                               *)
(***************************************************************************)
EXTENDS Naturals, FiniteSets, Sequences, SequencesExt, TLC

CONSTANTS
    Futexes,       \* addresses of futexes, and reasons to block
    Reasons,       \* reasons of native block, a superset of Futexes
    Bits,          \* bits of a FUTEX_WAIT_BITSET mask
    Values,        \* values the guest stores to a futex
    MaxTid,        \* bound: threads ever created
    m_max_threads

ASSUME GuestThreadsAssumption ==
    /\ Futexes \subseteq Reasons /\ 0 \in Reasons /\ 0 \notin Futexes
    /\ MaxTid \in Nat /\ m_max_threads \in Nat

VARIABLES
    m_threads,         \* tid -> [block_word, block_extra, clear_tid]
    m_thread_counter,
    m_current,
    m_suspended,       \* sequence of tids, next to run first
    m_blocked,         \* sequence of tids, longest blocked first
    memory,            \* futex -> value
    stopped,           \* the machine stopped: main exited, or an exception
    forced             \* history: a thread was resumed while still blocked

vars == <<m_threads, m_thread_counter, m_current, m_suspended, m_blocked, memory,
          stopped, forced>>

MAIN_THREAD_TID == 1

NoAddress == 0

NewThread(clear) ==
    [block_word |-> 0, block_extra |-> {}, clear_tid |-> clear]

Live == DOMAIN m_threads

Written(addr, val) ==
    IF addr = NoAddress THEN memory ELSE [memory EXCEPT ![addr] = val]

\* A thread that was resumed by force is in two places, and later in a list
\* after it was erased; what the machine does then is not followed.
Running == ~stopped /\ ~forced

\* vector::erase() of the first one found, if any.
EraseFirst(seq, t) ==
    IF \E i \in DOMAIN seq : seq[i] = t
    THEN RemoveAt(seq, CHOOSE i \in DOMAIN seq :
                          seq[i] = t /\ \A j \in 1 .. i - 1 : seq[j] # t)
    ELSE seq

-----------------------------------------------------------------------------
(* The scheduler. *)

\* resume(): the thread runs, wherever else it may still be listed.
Resume(t) ==
    /\ m_current' = t
    /\ forced' = (forced \/ t \in ToSet(m_blocked'))

\* (Slip: the thread suspended last runs next.)
WakeupLast(suspended) ==
    IF suspended = <<>> THEN m_suspended' = <<>> /\ Resume(MAIN_THREAD_TID)
    ELSE m_suspended' = Front(suspended) /\ Resume(Last(suspended))

\* With nobody to wake, the main thread is resumed whatever it waits for.
wakeup_next(suspended) ==
    IF suspended = <<>> THEN m_suspended' = <<>> /\ Resume(MAIN_THREAD_TID)
    ELSE m_suspended' = Tail(suspended) /\ Resume(Head(suspended))

\* (Slip: the thread that yields is not queued.)
YieldAway ==
    IF m_suspended = <<>> THEN UNCHANGED <<m_current, m_suspended, forced>>
    ELSE wakeup_next(m_suspended)

\* suspend_and_yield(), and preempt(), which nothing calls: nothing happens to a
\* thread alone.
Yield ==
    IF m_suspended = <<>> THEN UNCHANGED <<m_current, m_suspended, forced>>
    ELSE wakeup_next(Append(m_suspended, m_current))

CanBlock == m_suspended # <<>>

\* Thread::block_return() and the switch to the next thread.
Block(word, extra) ==
    /\ m_threads' = [m_threads EXCEPT ![m_current].block_word = word,
                                      ![m_current].block_extra = extra]
    /\ m_blocked' = Append(m_blocked, m_current)
    /\ wakeup_next(m_suspended)

\* The blocked threads a wake-up is for.
Matches(t, word, mask) ==
    /\ m_threads[t].block_word = word
    /\ m_threads[t].block_extra = {} \/ m_threads[t].block_extra \cap mask # {}

\* (Slip: the search for threads to wake starts at the newest.)
WokenNewest(max, word, mask) ==
    LET matching == SelectSeq(m_blocked, LAMBDA t : Matches(t, word, mask))
    IN  SubSeq(Reverse(matching), 1, IF Len(matching) < max THEN Len(matching) ELSE max)

\* The threads that wakeup_blocked() moves, in order.
Woken(max, word, mask) ==
    LET matching == SelectSeq(m_blocked, LAMBDA t : Matches(t, word, mask))
    IN  SubSeq(matching, 1, IF Len(matching) < max THEN Len(matching) ELSE max)

wakeup_blocked(max, word, mask) ==
    /\ m_suspended' = m_suspended \o Woken(max, word, mask)
    /\ m_blocked' = FoldLeft(EraseFirst, m_blocked, Woken(max, word, mask))
    /\ UNCHANGED <<m_threads, m_thread_counter, m_current, memory, stopped, forced>>

-----------------------------------------------------------------------------
(* The system calls of the running thread. *)

sched_yield ==
    /\ Running
    /\ m_blocked' = m_blocked
    /\ Yield
    /\ UNCHANGED <<m_threads, m_thread_counter, memory, stopped>>

TooMany == Cardinality(Live) >= m_max_threads

\* The clone calls: the child runs at once; its tid is stored at "set", and it
\* clears "clear" when it exits.  With too many threads the machine throws.
Clone(set, clear) ==
    /\ Running
    /\ IF TooMany
       THEN /\ stopped' = TRUE
            /\ UNCHANGED <<m_threads, m_thread_counter, m_current, m_suspended, memory>>
       ELSE /\ m_thread_counter < MaxTid
            /\ m_thread_counter' = m_thread_counter + 1
            /\ m_threads' = (m_thread_counter' :> NewThread(clear)) @@ m_threads
            /\ m_suspended' = Append(m_suspended, m_current)
            /\ m_current' = m_thread_counter'
            /\ memory' = Written(set, m_thread_counter')
            /\ UNCHANGED stopped
    /\ UNCHANGED <<m_blocked, forced>>

set_tid_address(addr) ==
    /\ Running
    /\ m_threads' = [m_threads EXCEPT ![m_current].clear_tid = addr]
    /\ UNCHANGED <<m_thread_counter, m_current, m_suspended, m_blocked, memory,
                   stopped, forced>>

\* exit(): clear the word the guest asked for, and run the next thread; the
\* main thread ends the program.
Exit ==
    /\ Running
    /\ m_blocked' = m_blocked
    /\ memory' = Written(m_threads[m_current].clear_tid, 0)
    /\ IF m_current = MAIN_THREAD_TID
       THEN stopped' = TRUE /\ UNCHANGED <<m_threads, m_current, m_suspended, forced>>
       ELSE /\ m_threads' = [t \in Live \ {m_current} |-> m_threads[t]]
            /\ wakeup_next(m_suspended)
            /\ UNCHANGED stopped
    /\ UNCHANGED m_thread_counter

\* FUTEX_WAIT and FUTEX_WAIT_BITSET.  A thread with nobody to switch to does
\* not block: the futex is set to 0 and the thread goes on.
FutexWait(addr, val, extra) ==
    /\ Running
    /\ \/ /\ memory[addr] = val /\ CanBlock
          /\ Block(addr, extra)
          /\ UNCHANGED memory
       \/ /\ memory[addr] = val /\ ~CanBlock
          /\ memory' = Written(addr, 0)
          /\ UNCHANGED <<m_threads, m_current, m_suspended, m_blocked, forced>>
       \/ /\ memory[addr] # val
          /\ m_blocked' = m_blocked
          /\ Yield
          /\ UNCHANGED <<m_threads, memory>>
    /\ UNCHANGED <<m_thread_counter, stopped>>

\* FUTEX_WAKE (mask: all bits) and FUTEX_WAKE_BITSET.
FutexWake(addr, max, mask) ==
    /\ Running
    /\ wakeup_blocked(max, addr, mask)

\* The guest stores to the futex.
Store(addr, val) ==
    /\ Running
    /\ memory' = [memory EXCEPT ![addr] = val]
    /\ UNCHANGED <<m_threads, m_thread_counter, m_current, m_suspended, m_blocked,
                   stopped, forced>>

\* Native block: the reason the guest gives is the value the call returns later;
\* the thread is blocked on the word 0 whatever it is.
NativeBlock ==
    /\ Running /\ CanBlock
    /\ Block(0, {})
    /\ UNCHANGED <<m_thread_counter, memory, stopped>>

NativeWakeup(reason) ==
    /\ Running
    /\ wakeup_blocked(64, reason, Bits)

\* Native unblock of one thread, which then runs.
unblock(tid) ==
    /\ Running /\ tid \in ToSet(m_blocked)
    /\ m_blocked' = EraseFirst(m_blocked, tid)
    /\ m_suspended' = Append(m_suspended, m_current)
    /\ Resume(tid)
    /\ UNCHANGED <<m_threads, m_thread_counter, memory, stopped>>

yield_to(tid) ==
    /\ Running /\ tid \in Live \ {m_current}
    /\ m_blocked' = m_blocked
    /\ m_suspended' = EraseFirst(Append(m_suspended, m_current), tid)
    /\ Resume(tid)
    /\ UNCHANGED <<m_threads, m_thread_counter, memory, stopped>>

Init ==
    /\ m_threads = (MAIN_THREAD_TID :> NewThread(NoAddress))
    /\ m_thread_counter = MAIN_THREAD_TID /\ m_current = MAIN_THREAD_TID
    /\ m_suspended = <<>> /\ m_blocked = <<>>
    /\ memory = [a \in Futexes |-> 0]
    /\ stopped = FALSE /\ forced = FALSE

\* (A wait for all the bits is woken by whatever wakes one without a mask.)
Next ==
    \/ sched_yield
    \/ \E a, b \in Futexes \cup {NoAddress} : Clone(a, b)
    \/ \E a \in Futexes \cup {NoAddress} : set_tid_address(a)
    \/ Exit
    \/ \E a \in Futexes, v \in Values : Store(a, v)
    \/ \E a \in Futexes, v \in Values, m \in SUBSET Bits \ {Bits} : FutexWait(a, v, m)
    \/ \E a \in Futexes, n \in 1 .. 2, m \in SUBSET Bits \ {{}} : FutexWake(a, n, m)
    \/ NativeBlock
    \/ \E r \in Reasons : NativeWakeup(r)
    \/ \E t \in 1 .. MaxTid : unblock(t) \/ yield_to(t)

\* The threads are cooperative: nothing obliges the one that runs to give way.
Spec == Init /\ [][Next]_vars

-----------------------------------------------------------------------------
(* Properties. *)

Places(t) == Cardinality({i \in DOMAIN m_suspended : m_suspended[i] = t})
             + Cardinality({i \in DOMAIN m_blocked : m_blocked[i] = t})
             + (IF m_current = t THEN 1 ELSE 0)

\* Until a blocked thread is resumed by force, every thread is running,
\* suspended or blocked, and never two of these, and no list names a thread
\* that has exited (m_suspended, m_blocked, m_current).
OnePlace ==
    ~forced => /\ \A t \in Live : Places(t) = 1
               /\ ToSet(m_suspended) \cup ToSet(m_blocked) \subseteq Live

\* A wake-up takes the threads that have waited longest: none is left blocked
\* when one that blocked later for the same reason is woken (wakeup_blocked).
WakesInOrder ==
    [][\A i, j \in DOMAIN m_blocked :
          LET t == m_blocked[i]
              u == m_blocked[j]
          IN  /\ i < j
              /\ m_threads[t].block_word = m_threads[u].block_word
              /\ m_threads[t].block_extra = m_threads[u].block_extra
              /\ u \in ToSet(m_suspended')
              => t \in ToSet(m_suspended')]_vars

\* The calls by which the running thread leaves the choice of the next one to
\* the queue.
GivesWay ==
    \/ sched_yield \/ Exit \/ NativeBlock
    \/ \E a \in Futexes, v \in Values, m \in SUBSET Bits \ {Bits} : FutexWait(a, v, m)

\* If the guest gives way again and again, a suspended thread runs again, whatever
\* other threads are created, woken or yielded to meanwhile: the queue is fair
\* to it (wakeup_next).
SuspendedThreadsRun ==
    []<><<GivesWay>>_vars =>
        \A t \in 1 .. MaxTid : t \in ToSet(m_suspended) ~> m_current = t \/ ~Running

\* "A blocked thread can only be resumed by unblocking it" (threads.hpp:75).
BlockedNeedUnblocking == ~forced

=============================================================================
