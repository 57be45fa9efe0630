----------------------------- MODULE TimingWheel -----------------------------
(***************************************************************************)
(* TimingWheel: one bucket of shared_ptr's to Entries for every tick of    *)
(* the idle timeout.  Feed puts a connection's Entry into the current      *)
(* bucket; OnTimer moves on by one bucket and empties it; an Entry that is *)
(* in no bucket any more is destroyed and shuts its connection down.       *)
(***************************************************************************)
EXTENDS Naturals, FiniteSets

CONSTANTS
    Conns,          \* connections
    WheelSize,      \* wheel_.size(): the timeout in ticks
    Entries,        \* addresses for Entries
    NoEntry         \* a null context_

ASSUME WheelAssumption ==
    /\ WheelSize \in Nat \ {0}
    /\ NoEntry \notin Entries

Buckets == 0 .. WheelSize - 1

VARIABLES
    enabled,        \* the loop has a timing_wheel_
    wheel_,
    current_bucket_,
    conn_,          \* the connection of each Entry
    context_,       \* the Entry that each connection's context points to
    state,          \* "open", "shutdown" or "gone" for each connection
    idle            \* history: ticks since a connection was last fed; a
                    \* connection never fed has WheelSize + 1

vars == <<enabled, wheel_, current_bucket_, conn_, context_, state, idle>>

Never == WheelSize + 1

Alive(wheel) == UNION { wheel[b] : b \in Buckets }

Init ==
    /\ enabled = FALSE
    /\ wheel_ = [b \in Buckets |-> {}]
    /\ current_bucket_ = 0
    /\ conn_ \in [Entries -> Conns] /\ \A e, f \in Entries : conn_[e] = conn_[f]
    /\ context_ = [c \in Conns |-> NoEntry]
    /\ state = [c \in Conns |-> "open"]
    /\ idle = [c \in Conns |-> Never]

\* Mutated form: every call makes a new Entry.
NewEntry(c) == Entries \ Alive(wheel_)

(* The Entry the context leads to if that exists, or a new one.            *)
EntryFor(c) == IF context_[c] \in Alive(wheel_) THEN {context_[c]} ELSE Entries \ Alive(wheel_)

(* Called from a connection's callbacks, which a connection that was shut  *)
(* down but that the peer has not closed still gets.  Before the idle      *)
(* timeout is enabled it does nothing.                                     *)
Feed(c) ==
    /\ state[c] # "gone"
    /\ enabled
    /\ \E e \in EntryFor(c) :
        /\ conn_' = [conn_ EXCEPT ![e] = c]
        /\ context_' = [context_ EXCEPT ![c] = e]
        /\ wheel_' = [wheel_ EXCEPT ![current_bucket_] = @ \cup {e}]
    /\ idle' = [idle EXCEPT ![c] = 0]
    /\ UNCHANGED <<enabled, current_bucket_, state>>

(* ~Entry, for all Entries that lost their last shared_ptr: a connection   *)
(* that still exists loses its context and is shut down, which does        *)
(* nothing if that has been done before.                                   *)
DestroyEntries(dead) ==
    LET hit == { c \in Conns : state[c] # "gone" /\ \E e \in dead : conn_[e] = c }
    IN  /\ context_' = [c \in Conns |-> IF c \in hit THEN NoEntry ELSE context_[c]]
        /\ state' = [c \in Conns |-> IF c \in hit THEN "shutdown" ELSE state[c]]

Aged == [c \in Conns |-> IF idle[c] < WheelSize THEN idle[c] + 1 ELSE idle[c]]

NextBucket == (current_bucket_ + 1) % WheelSize

\* Mutated form: the bucket is emptied before the hand moves on.
CurrentBucket == current_bucket_

BucketToClear == NextBucket

(* The callback of the timer that the constructor starts.                  *)
OnTimer ==
    /\ enabled
    /\ current_bucket_' = NextBucket
    /\ wheel_' = [wheel_ EXCEPT ![BucketToClear] = {}]
    /\ DestroyEntries(Alive(wheel_) \ Alive(wheel_'))
    /\ idle' = Aged
    /\ UNCHANGED <<enabled, conn_>>

(* EnableIdleTimeout replaces the wheel by a new one and destroys the old  *)
(* one with all its Entries.                                               *)
EnableIdleTimeout ==
    /\ enabled' = TRUE
    /\ wheel_' = [b \in Buckets |-> {}]
    /\ current_bucket_' = 0
    /\ DestroyEntries(Alive(wheel_))
    /\ UNCHANGED <<conn_, idle>>

(* The connection is closed by its peer, removed and freed.                *)
Freed(c) ==
    /\ state[c] # "gone"
    /\ state' = [state EXCEPT ![c] = "gone"]
    /\ UNCHANGED <<enabled, wheel_, current_bucket_, conn_, context_, idle>>

Next ==
    \/ \E c \in Conns : Feed(c) \/ Freed(c)
    \/ OnTimer
    \/ EnableIdleTimeout

Spec == Init /\ [][Next]_vars

-----------------------------------------------------------------------------
TypeOK ==
    /\ enabled \in BOOLEAN
    /\ wheel_ \in [Buckets -> SUBSET Entries]
    /\ current_bucket_ \in Buckets
    /\ conn_ \in [Entries -> Conns]
    /\ context_ \in [Conns -> Entries \cup {NoEntry}]
    /\ state \in [Conns -> {"open", "shutdown", "gone"}]
    /\ idle \in [Conns -> 0..Never]

(* A connection that exists has at most one Entry in the wheel, and that   *)
(* is the one its context finds, never a destroyed one: a refresh always   *)
(* extends the life of the Entry whose destruction would shut the          *)
(* connection down.  With it the variables have their types.               *)
OneEntry ==
    /\ TypeOK
    /\ \A c \in Conns : state[c] # "gone" =>
        {e \in Alive(wheel_) : conn_[e] = c} = {context_[c]} \ {NoEntry}

(* The tick that completes the whole timeout since a connection was last   *)
(* fed shuts it down, and no other tick does: however feeds, ticks, ends   *)
(* of connections and the reuse of Entries' memory fall, and for a         *)
(* connection that was never fed none does.                                *)
ExactTimeout ==
    [][OnTimer => \A c \in Conns : state[c] = "open" =>
                      (state'[c] = "shutdown" <=> idle'[c] = WheelSize)]_vars
=============================================================================
