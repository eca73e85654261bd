--------------------------------- MODULE FSM ---------------------------------
(***************************************************************************)
(* The generic state-machine engine of backend/utils/FSM.go: one compiled  *)
(* definition (states, transition index, terminal states, history          *)
(* capacity) and one Machine wrapped in a SynchronizedMachine that several *)
(* goroutines share.                                                       *)
(*                                                                         *)
(* Guards, hooks and effects are caller-supplied callbacks.  What they     *)
(* decide is nondeterministic; what matters to the engine is that they run *)
(* user code, and that this code may fail, may panic, and may call Send on *)
(* the machine it is being run by.  `stack' is therefore the call stack of *)
(* Send invocations of the goroutine that holds the lock.                  *)
(***************************************************************************)
EXTENDS FSMDefinition, Integers, Sequences

CONSTANTS
    States,           \* states declared with State()
    Events,           \* events a caller may send
    Transitions,      \* the Transition() calls: a set of <<from, event, to>>
    Terminal,         \* states declared Terminal()
    InitialState,     \* argument of New / Restore
    HistoryCapacity,  \* HistoryCapacity(n); 0 means unlimited
    Threads,          \* goroutines sharing the SynchronizedMachine
    NoThread,         \* the write lock is free
    MaxSeq            \* bound on committed transitions

-----------------------------------------------------------------------------
(* The compiled definition the machine runs. *)

IsTerminal(s) == s \in Terminal

ASSUME DefinitionAssumption ==
    /\ Transitions \subseteq States \X Events \X States
    /\ Terminal \subseteq States
    /\ InitialState \in States
    /\ Compile(States, Transitions, Terminal)

ASSUME BoundsAssumption ==
    /\ HistoryCapacity \in Nat
    /\ MaxSeq \in Nat
    /\ NoThread \notin Threads

-----------------------------------------------------------------------------

VARIABLES
    current,   \* Machine.current
    history,   \* Machine.history, a bounded sequence of TransitionRecords
    seq,       \* Machine.seq
    inFlight,  \* Machine.inFlight
    stack,     \* Send invocations in progress, innermost last
    holder,    \* goroutine holding the write lock, or NoThread
    readers,   \* goroutines holding the read lock
    pc,        \* what each goroutine is doing
    lost       \* a post-commit callback panicked: its record was never stored

machine == <<current, history, seq, inFlight, stack, lost>>
vars == <<machine, holder, readers, pc>>

(* A TransitionRecord: its sequence number and the triple it reports. *)
Record == [num : Nat, from : States, event : Events, to : States]

(* One Send in progress: the transition it looked up, the record handed to *)
(* its hooks (unset before the guards have passed) and the phase it is in. *)
Phases == {"guard", "before", "effect", "post", "observe"}

NoRecord == [num |-> 0, from |-> InitialState,
             event |-> CHOOSE e \in Events : TRUE, to |-> InitialState]

Top == stack[Len(stack)]

SetTop(f) == stack' = [stack EXCEPT ![Len(stack)] = f]

(* New and Restore: no history, sequence number zero. *)
New ==
    /\ current = InitialState
    /\ history = << >>
    /\ seq = 0
    /\ inFlight = FALSE
    /\ stack = << >>
    /\ lost = FALSE

Init ==
    /\ New
    /\ holder = NoThread
    /\ readers = {}
    /\ pc = [t \in Threads |-> "idle"]

-----------------------------------------------------------------------------
(* Send, phase by phase. *)

(* Mutant: the re-entrancy check is dropped. *)
Begin_NoInFlightCheck(e) ==
    /\ ~IsTerminal(current)
    /\ CanTransition(Transitions, current, e)
    /\ seq < MaxSeq /\ Len(stack) < 2
    /\ inFlight' = TRUE
    /\ stack' = Append(stack, [phase |-> "guard", t |-> Lookup(Transitions, current, e),
                               rec |-> NoRecord])
    /\ UNCHANGED <<current, history, seq, lost>>

(* Lines 644-662: the re-entrancy check, the terminal check and the lookup. *)
Begin(e) ==
    /\ ~inFlight
    /\ ~IsTerminal(current)
    /\ CanTransition(Transitions, current, e)
    /\ seq < MaxSeq
    /\ inFlight' = TRUE
    /\ stack' = Append(stack, [phase |-> "guard", t |-> Lookup(Transitions, current, e),
                               rec |-> NoRecord])
    /\ UNCHANGED <<current, history, seq, lost>>

(* ... and the three ways in which they turn the event away. *)
Rejected(e) == inFlight \/ IsTerminal(current) \/ ~CanTransition(Transitions, current, e)

(* The deferred reset: every return of a Send that got past the re-entrancy *)
(* check clears inFlight. *)
Return ==
    /\ stack' = SubSeq(stack, 1, Len(stack) - 1)
    /\ inFlight' = FALSE

(* Mutant: the record gets the number before the current one. *)
GuardsPass_NoSequence ==
    /\ stack # << >> /\ Top.phase = "guard"
    /\ SetTop([Top EXCEPT !.phase = "before",
                          !.rec = [num |-> seq - 1, from |-> current,
                                   event |-> Top.t[2], to |-> Top.t[3]]])
    /\ UNCHANGED <<current, history, seq, inFlight, lost>>

(* Lines 675-697: guards, then the record is built for the hooks. *)
GuardsPass ==
    /\ stack # << >> /\ Top.phase = "guard"
    /\ SetTop([Top EXCEPT !.phase = "before",
                          !.rec = [num |-> seq + 1, from |-> current,
                                   event |-> Top.t[2], to |-> Top.t[3]]])
    /\ UNCHANGED <<current, history, seq, inFlight, lost>>

(* Lines 699-718: BeforeExit, OnExit and BeforeEnter hooks. *)
HooksPass ==
    /\ stack # << >> /\ Top.phase = "before"
    /\ SetTop([Top EXCEPT !.phase = "effect"])
    /\ UNCHANGED <<current, history, seq, inFlight, lost>>

(* A guard, hook or effect returned an error: nothing is committed. *)
Abort ==
    /\ stack # << >> /\ Top.phase \in {"guard", "before", "effect"}
    /\ Return
    /\ UNCHANGED <<current, history, seq, lost>>

(* Lines 720-738: the effects succeed and the state is committed. *)
Commit ==
    /\ stack # << >> /\ Top.phase = "effect"
    /\ current' = Top.t[3]
    /\ seq' = seq + 1
    /\ SetTop([Top EXCEPT !.phase = "post"])
    /\ UNCHANGED <<history, inFlight, lost>>

(* Mutant: at capacity the newest record makes way instead of the oldest. *)
AppendHistory_DropNewest(h, r) ==
    IF HistoryCapacity # 0 /\ Len(h) >= HistoryCapacity
    THEN Append(SubSeq(h, 1, Len(h) - 1), r)
    ELSE Append(h, r)

(* Ring-buffer eviction: at capacity the oldest record goes first. *)
AppendHistory(h, r) ==
    IF HistoryCapacity # 0 /\ Len(h) >= HistoryCapacity
    THEN Append(Tail(h), r)
    ELSE Append(h, r)

(* Lines 740-759: OnEntry, AfterExit and AfterEnter cannot abort; then the *)
(* record is stored. *)
StoreRecord ==
    /\ stack # << >> /\ Top.phase = "post"
    /\ history' = AppendHistory(history, Top.rec)
    /\ SetTop([Top EXCEPT !.phase = "observe"])
    /\ UNCHANGED <<current, seq, inFlight, lost>>

(* Lines 761-766: the observers have run and Send returns nil. *)
Finish ==
    /\ stack # << >> /\ Top.phase = "observe"
    /\ Return
    /\ UNCHANGED <<current, history, seq, lost>>

(* A callback panics: every Send on the goroutine's stack is unwound and   *)
(* each deferred function runs.  A record between commit and step 14 is    *)
(* gone. *)
Panic ==
    /\ stack # << >>
    /\ stack' = << >>
    /\ inFlight' = FALSE
    /\ lost' = (lost \/ \E i \in 1..Len(stack) : stack[i].phase = "post")
    /\ UNCHANGED <<current, history, seq>>

-----------------------------------------------------------------------------
(* SynchronizedMachine: Send under the write lock, the readers under the   *)
(* read lock of a sync.RWMutex.  A reader that arrives while a writer      *)
(* holds or waits for the lock blocks; the writer's Unlock lets every      *)
(* blocked reader in at once.                                              *)

(* A goroutine calls Send and blocks in mu.Lock(). *)
CallSend(t) ==
    /\ pc[t] = "idle"
    /\ pc' = [pc EXCEPT ![t] = "lock"]
    /\ UNCHANGED <<machine, holder, readers>>

(* Mutant: Send takes the read lock. *)
Lock_Shared(t) ==
    /\ pc[t] = "lock"
    /\ holder = NoThread
    /\ holder' = t
    /\ pc' = [pc EXCEPT ![t] = "send"]
    /\ UNCHANGED <<machine, readers>>

Lock(t) ==
    /\ pc[t] = "lock"
    /\ holder = NoThread /\ readers = {}
    /\ holder' = t
    /\ pc' = [pc EXCEPT ![t] = "send"]
    /\ UNCHANGED <<machine, readers>>

Blocked == {u \in Threads : pc[u] = "rlock"}

(* Mutant: a writer's Unlock is skipped. *)
Unlock_Forgotten(t) ==
    /\ pc' = [pc EXCEPT ![t] = "idle"]
    /\ UNCHANGED <<holder, readers>>

(* The deferred Unlock. *)
Unlock(t) ==
    /\ holder' = NoThread
    /\ readers' = Blocked
    /\ pc' = [u \in Threads |-> IF u = t THEN "idle"
                                ELSE IF u \in Blocked THEN "read" ELSE pc[u]]

(* The event is turned away before anything has changed. *)
SendRejected(t) ==
    /\ pc[t] = "send" /\ stack = << >>
    /\ \E e \in Events : Rejected(e)
    /\ Unlock(t)
    /\ UNCHANGED machine

SendBegin(t) ==
    /\ pc[t] = "send" /\ stack = << >>
    /\ \E e \in Events : Begin(e)
    /\ pc' = [pc EXCEPT ![t] = "running"]
    /\ UNCHANGED <<holder, readers>>

(* The bound on committed transitions is reached: the caller gives up. *)
SendBounded(t) ==
    /\ pc[t] = "send" /\ stack = << >> /\ seq >= MaxSeq
    /\ Unlock(t)
    /\ UNCHANGED machine

(* A callback of the running Send calls Send on the same machine. *)
Reenter(t) ==
    /\ pc[t] = "running" /\ stack # << >>
    /\ \E e \in Events :
         \/ Begin(e)
         \/ Rejected(e) /\ UNCHANGED machine
    /\ UNCHANGED <<holder, readers, pc>>

(* The running Send takes its next step; the one that empties the stack    *)
(* returns through the deferred Unlock. *)
Step == GuardsPass \/ HooksPass \/ Abort \/ Commit \/ StoreRecord \/ Finish \/ Panic

SendStep(t) ==
    /\ pc[t] = "running"
    /\ Step
    /\ IF stack' = << >> THEN Unlock(t) ELSE UNCHANGED <<holder, readers, pc>>

(* State, IsTerminal, Can, History: any of them, under the read lock. *)
RLock(t) ==
    /\ pc[t] = "idle"
    /\ IF holder = NoThread /\ \A u \in Threads : pc[u] # "lock"
       THEN /\ readers' = readers \cup {t}
            /\ pc' = [pc EXCEPT ![t] = "read"]
       ELSE /\ pc' = [pc EXCEPT ![t] = "rlock"]
            /\ UNCHANGED readers
    /\ UNCHANGED <<machine, holder>>

RUnlock(t) ==
    /\ pc[t] = "read"
    /\ readers' = readers \ {t}
    /\ pc' = [pc EXCEPT ![t] = "idle"]
    /\ UNCHANGED <<machine, holder>>

Next ==
    \E t \in Threads :
        \/ CallSend(t) \/ Lock(t) \/ SendRejected(t) \/ SendBegin(t)
        \/ SendBounded(t) \/ Reenter(t) \/ SendStep(t)
        \/ RLock(t) \/ RUnlock(t)

Spec == Init /\ [][Next]_vars

(* A goroutine inside a callback eventually comes back (callbacks return), *)
(* and sync.RWMutex hands the lock to every waiter in the end.             *)
Progress(t) == SendRejected(t) \/ SendBegin(t) \/ SendBounded(t) \/ SendStep(t) \/ RUnlock(t)

FairSpec ==
    /\ Spec
    /\ \A t \in Threads : WF_vars(Progress(t)) /\ SF_vars(Lock(t))

-----------------------------------------------------------------------------
(* Properties. *)

Frame == [phase : Phases, t : Transitions, rec : Record]

MachineType ==
    /\ current \in States
    /\ history \in Seq(Record)
    /\ seq \in Nat
    /\ inFlight \in BOOLEAN
    /\ stack \in Seq(Frame)
    /\ lost \in BOOLEAN

LockType ==
    /\ holder \in Threads \cup {NoThread}
    /\ readers \subseteq Threads
    /\ pc \in [Threads -> {"idle", "lock", "send", "running", "rlock", "read"}]

(* Type invariant of the machine, its lock and the goroutines using it. *)
TypeOK == MachineType /\ LockType

(* Send is never active twice on one machine, however its callbacks call    *)
(* back into it, and inFlight says exactly whether one is active - also     *)
(* after an abort or a panic, when only the deferred reset clears it        *)
(* (FSM.go:644-648). *)
OneSendAtATime ==
    /\ Len(stack) <= 1
    /\ inFlight <=> stack # << >>
    /\ stack # << >> => holder # NoThread

(* A goroutine that reads through SynchronizedMachine never overlaps a Send *)
(* (FSM.go:805-828). *)
ReadersExcludeSend == readers # {} => stack = << >> /\ holder = NoThread

(* What History() returns (FSM.go:580, 769-781): at most HistoryCapacity    *)
(* records, each a registered transition, in strictly increasing sequence   *)
(* order, and two records with consecutive numbers chain.                   *)
HistoryFaithful ==
    /\ HistoryCapacity # 0 => Len(history) <= HistoryCapacity
    /\ \A i \in 1..Len(history) :
         /\ <<history[i].from, history[i].event, history[i].to>> \in Transitions
         /\ history[i].num \in 1..seq
    /\ \A i \in 1..(Len(history) - 1) :
         /\ history[i].num < history[i+1].num
         /\ history[i+1].num = history[i].num + 1 => history[i].to = history[i+1].from

(* The newest record ends in the state the machine is in, and unless a       *)
(* callback panicked after a commit the history is exactly the last          *)
(* min(seq, capacity) transitions: eviction drops the oldest and only the    *)
(* oldest. *)
Stored == IF stack # << >> /\ Top.phase = "post" THEN seq - 1 ELSE seq

HistoryComplete ==
    /\ history # << >> /\ history[Len(history)].num = seq
         => history[Len(history)].to = current
    /\ ~lost =>
         /\ Len(history) = IF HistoryCapacity # 0 /\ Stored > HistoryCapacity
                           THEN HistoryCapacity ELSE Stored
         /\ \A i \in 1..Len(history) :
              history[i].num = Stored - Len(history) + i

(* The state only ever moves along a registered transition out of the       *)
(* current state, one sequence number at a time (FSM.go:734-737); a machine *)
(* in a terminal state never leaves it (FSM.go:279-280).                    *)
MovesAlongTransitions ==
    [][/\ current' # current => \E e \in Events : <<current, e, current'>> \in Transitions
       /\ seq' # seq => seq' = seq + 1
       /\ IsTerminal(current) => current' = current /\ seq' = seq]_vars

(* Every call that waits for the lock returns, whether the transition        *)
(* commits, aborts or panics (deferred Unlock, FSM.go:804-806). *)
SendReturns ==
    \A t \in Threads : pc[t] \in {"lock", "rlock"} ~> pc[t] = "idle"

-----------------------------------------------------------------------------
(* The inductive invariant behind the safety properties (FSMProofs).       *)

Running(phases) == stack # << >> /\ Top.phase \in phases

(* One Send at a time, and what it has looked up still fits the machine:    *)
(* before the commit it leads out of the current state, after the commit   *)
(* its record is about the last transition. *)
SendInv ==
    /\ Len(stack) <= 1
    /\ inFlight <=> stack # << >>
    /\ Running({"guard", "before", "effect"}) => Top.t[1] = current
    /\ Running({"before", "effect"}) =>
         Top.rec = [num |-> seq + 1, from |-> current,
                    event |-> Top.t[2], to |-> Top.t[3]]
    /\ Running({"post"}) =>
         /\ Top.rec.num = seq /\ seq > 0
         /\ Top.rec.to = current
         /\ <<Top.rec.from, Top.rec.event, Top.rec.to>> \in Transitions

(* The newest record against the machine and the record not yet stored. *)
HistoryInv ==
    /\ HistoryFaithful
    /\ history # << >> =>
         LET last == history[Len(history)] IN
         /\ last.num = seq => last.to = current
         /\ Running({"post"}) =>
              /\ last.num < seq
              /\ last.num = seq - 1 => last.to = Top.rec.from

(* Who is inside Send and who reads, as the lock sees it. *)
LockInv ==
    /\ \A t \in Threads : pc[t] \in {"send", "running"} <=> holder = t
    /\ \A t \in Threads : pc[t] = "running" => stack # << >>
    /\ stack # << >> => holder # NoThread /\ pc[holder] = "running"
    /\ readers # {} => holder = NoThread

IInv == MachineType /\ LockType /\ SendInv /\ HistoryInv /\ LockInv
=============================================================================
