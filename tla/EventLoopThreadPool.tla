------------------------ MODULE EventLoopThreadPool ------------------------
(***************************************************************************)
(* EventLoopThreadPool, its EventLoopThreads and their Threads: the owner  *)
(* starts one loop thread after the other, hands loops out in turn, and in *)
(* its destructor quits and joins them one after the other.  What a loop   *)
(* does between entering and leaving Loop() is the subject of module       *)
(* EventLoop; here it leaves once quit_ is set.                            *)
(***************************************************************************)
EXTENDS Integers

CONSTANT
    NumThreads      \* num_threads_

ASSUME PoolAssumption == NumThreads \in Nat

threads_ == 1..NumThreads

VARIABLES
    owner,      \* where the owner's thread is
    at,         \* the thread it is starting or destroying
    started_,   \* EventLoopThreadPool::started_
    next_,      \* EventLoopThreadPool::next_
    child,      \* where each loop thread is
    sem,        \* Thread::sem_: has the thread stored its tid?
    loop_,      \* EventLoopThread::loop_: is it non-null?
    quit_,      \* EventLoop::quit_
    seen,       \* ~EventLoopThread's copy of loop_: is it non-null?
    selfquit    \* history: the loops that code running in them has quit

poolVars == <<owner, at, started_, next_, child, sem, loop_, quit_, seen, selfquit>>

PoolInit ==
    /\ owner = "start" /\ at = 1
    /\ started_ = FALSE
    /\ next_ = 0
    /\ child = [i \in threads_ |-> "none"]
    /\ sem = [i \in threads_ |-> FALSE]
    /\ loop_ = [i \in threads_ |-> FALSE]
    /\ quit_ = [i \in threads_ |-> FALSE]
    /\ seen = FALSE
    /\ selfquit = {}

-----------------------------------------------------------------------------
(* The owner: Start, with StartLoop and Thread::Start.                     *)
Create ==
    /\ owner = "start" /\ at <= NumThreads
    /\ owner' = "semWait"
    /\ child' = [child EXCEPT ![at] = "created"]
    /\ UNCHANGED <<at, started_, next_, sem, loop_, quit_, seen, selfquit>>

\* Mutated form: StartLoop does not wait for the loop to be published.
SemWaitOnly ==
    /\ owner = "semWait" /\ sem[at]
    /\ owner' = "start" /\ at' = at + 1
    /\ UNCHANGED <<started_, next_, child, sem, loop_, quit_, seen, selfquit>>

SemWait ==
    /\ owner = "semWait" /\ sem[at]
    /\ owner' = "testLoop"
    /\ UNCHANGED <<at, started_, next_, child, sem, loop_, quit_, seen, selfquit>>

\* Mutated form: a notification that came before the wait is waited for.
CondWaitUntested ==
    /\ owner = "testLoop"
    /\ owner' = "condWait"
    /\ UNCHANGED <<at, started_, next_, child, sem, loop_, quit_, seen, selfquit>>

(* cond_.wait tests its predicate under mutex_ and returns, or sleeps until *)
(* it is notified and tests again.                                          *)
CondWait ==
    /\ owner = "testLoop"
    /\ IF loop_[at]
       THEN owner' = "start" /\ at' = at + 1
       ELSE owner' = "condWait" /\ UNCHANGED at
    /\ UNCHANGED <<started_, next_, child, sem, loop_, quit_, seen, selfquit>>

Started ==
    /\ owner = "start" /\ at > NumThreads
    /\ owner' = "ready"
    /\ started_' = TRUE
    /\ UNCHANGED <<at, next_, child, sem, loop_, quit_, seen, selfquit>>

GetNextLoop ==
    /\ owner = "ready" /\ started_
    /\ IF NumThreads = 0
       THEN UNCHANGED next_     \* base_loop_ is handed out
       ELSE next_' = IF next_ + 1 >= NumThreads THEN 0 ELSE next_ + 1
    /\ UNCHANGED <<owner, at, started_, child, sem, loop_, quit_, seen, selfquit>>

-----------------------------------------------------------------------------
(* The owner: the destructor of the pool, which destroys threads_ in order.*)
Destroy ==
    /\ owner = "ready"
    /\ owner' = "readLoop" /\ at' = 1
    /\ UNCHANGED <<started_, next_, child, sem, loop_, quit_, seen, selfquit>>

ReadLoop ==
    /\ owner = "readLoop" /\ at <= NumThreads
    /\ owner' = "quit"
    /\ seen' = loop_[at]
    /\ UNCHANGED <<at, started_, next_, child, sem, loop_, quit_, selfquit>>

\* Mutated form: the loop is not told to quit before it is joined.
QuitNothing ==
    /\ owner = "quit"
    /\ owner' = "join"
    /\ UNCHANGED <<at, started_, next_, child, sem, loop_, quit_, seen, selfquit>>

QuitLoop ==
    /\ owner = "quit"
    /\ owner' = "join"
    /\ IF seen THEN quit_' = [quit_ EXCEPT ![at] = TRUE] ELSE UNCHANGED quit_
    /\ UNCHANGED <<at, started_, next_, child, sem, loop_, seen, selfquit>>

Join ==
    /\ owner = "join" /\ child[at] = "exited"
    /\ owner' = "readLoop" /\ at' = at + 1
    /\ UNCHANGED <<started_, next_, child, sem, loop_, quit_, seen, selfquit>>

Destroyed ==
    /\ owner = "readLoop" /\ at > NumThreads
    /\ owner' = "destroyed"
    /\ UNCHANGED <<at, started_, next_, child, sem, loop_, quit_, seen, selfquit>>

-----------------------------------------------------------------------------
(* A loop thread: RunInThread, ThreadFunc, and Loop() as far as quit_.     *)
PostSem(i) ==
    /\ child[i] = "created"
    /\ child' = [child EXCEPT ![i] = "posted"]
    /\ sem' = [sem EXCEPT ![i] = TRUE]
    /\ UNCHANGED <<owner, at, started_, next_, loop_, quit_, seen, selfquit>>

(* The EventLoop is made on the thread's stack and shown to init_callback_,*)
(* which may call Quit as well as anything else.                           *)
InitCallback(i) ==
    /\ child[i] = "posted"
    /\ child' = [child EXCEPT ![i] = "made"]
    /\ \E quit \in BOOLEAN : quit_' = [quit_ EXCEPT ![i] = quit]
    /\ UNCHANGED <<owner, at, started_, next_, sem, loop_, seen, selfquit>>

(* loop_ is set and the condition notified under one hold of mutex_.       *)
Publish(i) ==
    /\ child[i] = "made"
    /\ child' = [child EXCEPT ![i] = "published"]
    /\ loop_' = [loop_ EXCEPT ![i] = TRUE]
    /\ owner' = IF owner = "condWait" /\ at = i THEN "testLoop" ELSE owner
    /\ UNCHANGED <<at, started_, next_, sem, quit_, seen, selfquit>>

EnterLoop(i) ==
    /\ child[i] = "published"
    /\ child' = [child EXCEPT ![i] = "looping"]
    /\ quit_' = [quit_ EXCEPT ![i] = FALSE]
    /\ UNCHANGED <<owner, at, started_, next_, sem, loop_, seen, selfquit>>

QuitItself(i) ==
    /\ child[i] = "looping"
    /\ quit_' = [quit_ EXCEPT ![i] = TRUE]
    /\ selfquit' = selfquit \cup {i}
    /\ UNCHANGED <<owner, at, started_, next_, child, sem, loop_, seen>>

LeaveLoop(i) ==
    /\ child[i] = "looping" /\ quit_[i]
    /\ child' = [child EXCEPT ![i] = "left"]
    /\ UNCHANGED <<owner, at, started_, next_, sem, loop_, quit_, seen, selfquit>>

ClearLoop(i) ==
    /\ child[i] = "left"
    /\ child' = [child EXCEPT ![i] = "cleared"]
    /\ loop_' = [loop_ EXCEPT ![i] = FALSE]
    /\ UNCHANGED <<owner, at, started_, next_, sem, quit_, seen, selfquit>>

(* The EventLoop on ThreadFunc's stack is destroyed and the thread ends.   *)
Exit(i) ==
    /\ child[i] = "cleared"
    /\ child' = [child EXCEPT ![i] = "exited"]
    /\ UNCHANGED <<owner, at, started_, next_, sem, loop_, quit_, seen, selfquit>>

-----------------------------------------------------------------------------
OwnerStep ==
    \/ Create \/ SemWait \/ CondWait \/ Started
    \/ ReadLoop \/ QuitLoop \/ Join \/ Destroyed

ChildStep(i) ==
    \/ PostSem(i) \/ InitCallback(i) \/ Publish(i)
    \/ EnterLoop(i) \/ LeaveLoop(i) \/ ClearLoop(i) \/ Exit(i)

PoolNext ==
    \/ OwnerStep
    \/ GetNextLoop
    \/ Destroy
    \/ \E i \in threads_ : ChildStep(i) \/ QuitItself(i)

PoolSpec == PoolInit /\ [][PoolNext]_poolVars

(* Every thread is scheduled.                                              *)
PoolFairSpec == PoolSpec /\ WF_poolVars(OwnerStep) /\ \A i \in threads_ : WF_poolVars(ChildStep(i))

-----------------------------------------------------------------------------
PoolTypeOK ==
    /\ owner \in {"start", "semWait", "testLoop", "condWait", "ready",
                  "readLoop", "quit", "join", "destroyed"}
    /\ at \in 1 .. NumThreads + 1
    /\ started_ \in BOOLEAN
    /\ next_ \in 0..NumThreads
    /\ NumThreads > 0 => next_ < NumThreads
    /\ child \in [threads_ -> {"none", "created", "posted", "made", "published", "looping",
                               "left", "cleared", "exited"}]
    /\ sem \in [threads_ -> BOOLEAN]
    /\ loop_ \in [threads_ -> BOOLEAN]
    /\ quit_ \in [threads_ -> BOOLEAN]
    /\ seen \in BOOLEAN
    /\ selfquit \subseteq threads_

(* No loop is used after its thread has destroyed it, unless code that     *)
(* runs in the loop has quit it: whatever GetNextLoop can hand out is      *)
(* published and not left, and ~EventLoopThread, which calls Quit through  *)
(* the pointer it read under mutex_ after it gave the mutex back, still    *)
(* finds the loop.  With it the variables have their types, next_ being a  *)
(* valid index.                                                            *)
UsesLiveLoops ==
    /\ PoolTypeOK
    /\ owner = "ready" => \A i \in threads_ \ selfquit : child[i] \in {"published", "looping"}
    /\ owner = "quit" /\ seen /\ at \notin selfquit => child[at] # "exited"

(* Start returns: no notification of a published loop is lost, unless a    *)
(* loop is quit from inside while Start still waits for it.                *)
StartReturns == <>(owner = "ready" \/ at \in selfquit)

(* "Loop on and on until somebody calls Quit()" (EventLoop.cc:102): the    *)
(* destructor, which calls Quit and joins, returns.                        *)
DestructorReturns == (owner = "readLoop") ~> (owner = "destroyed")

(* This is so when all threads have entered Loop() before the destructor   *)
(* begins, even if some have left it again, and no thread outlives it.     *)
SettledDestructorReturns ==
    (/\ owner = "readLoop" /\ at = 1
     /\ \A i \in threads_ : child[i] \notin {"created", "posted", "made", "published"})
        ~> (owner = "destroyed" /\ \A i \in threads_ : child[i] = "exited")
=============================================================================
