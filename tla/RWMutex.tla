------------------------------- MODULE RWMutex -------------------------------
(***************************************************************************)
(* AsyncRWMutex (rwlock.py) on RawAsyncRWMutex (rwlock.rs): a reader-      *)
(* writer lock with writer preference.  A releaser grants the lock to the  *)
(* waiters it pops under the Rust mutex and then wakes their futures, so a *)
(* popped waiter counts as a holder before it runs.                        *)
(***************************************************************************)
EXTENDS Naturals, Sequences, FiniteSets, Queues

CONSTANTS
    Readers, Writers,   \* the tasks that use reader() and writer()
    Cancellable,        \* tasks that may be cancelled while they wait
    MaxDepth,           \* bound: nested reader() blocks of a task
    MaxReaders          \* bound: cancellations stop at this reader count

Users == Readers \cup Writers

\* What the constants are.
RWParams ==
    /\ Readers \cap Writers = {}
    /\ IsFiniteSet(Users)
    /\ Cancellable \subseteq Users
    /\ MaxDepth \in Nat \ {0}
    /\ MaxReaders \in Nat

VARIABLES
    readers, writer, pending_writers, read_waiters, write_waiters,   \* RWMutexInner
    depth,   \* _reader_depth
    pc

raw == <<readers, writer, pending_writers, read_waiters, write_waiters>>
vars == <<raw, depth, pc>>

PCs == {"idle", "register", "waiting", "unwind", "holding"}

TypeOK ==
    /\ readers \in Nat
    /\ writer \in BOOLEAN
    /\ pending_writers \in Nat
    /\ read_waiters \in Seq(Readers)
    /\ write_waiters \in Seq(Writers)
    /\ depth \in [Readers -> 0..MaxDepth]
    /\ pc \in [Users -> PCs]

Init ==
    /\ readers = 0
    /\ writer = FALSE
    /\ pending_writers = 0
    /\ read_waiters = <<>>
    /\ write_waiters = <<>>
    /\ depth = [t \in Readers |-> 0]
    /\ pc = [t \in Users |-> "idle"]

Goto(t, where) == pc' = [pc EXCEPT ![t] = where]
Minus1(n) == IF n > 0 THEN n - 1 ELSE 0

\* Mutant of WriteFree: active readers are forgotten.
WriteFreeHasty == ~writer /\ pending_writers = 0

ReadFree == ~writer /\ pending_writers = 0
WriteFree == ~writer /\ readers = 0 /\ pending_writers = 0

\* The first queued writer becomes the writer.
GrantWriter ==
    /\ writer' = TRUE
    /\ write_waiters' = Tail(write_waiters)
    /\ pending_writers' = Minus1(pending_writers)

\* All queued readers become readers.
GrantReaders ==
    /\ readers' = readers + Len(read_waiters)
    /\ read_waiters' = <<>>

-----------------------------------------------------------------------------
(* reader() *)

\* try_acquire_read, and then acquire_read_or_register.
ReadEnter(t) ==
    /\ pc[t] \in {"idle", "register"}
    /\ \/ /\ ReadFree
          /\ readers' = readers + 1
          /\ depth' = [depth EXCEPT ![t] = 1]
          /\ Goto(t, "holding")
          /\ UNCHANGED read_waiters
       \/ /\ ~ReadFree /\ pc[t] = "idle"
          /\ Goto(t, "register")
          /\ UNCHANGED <<readers, read_waiters, depth>>
       \/ /\ ~ReadFree /\ pc[t] = "register"
          /\ read_waiters' = Append(read_waiters, t)
          /\ Goto(t, "waiting")
          /\ UNCHANGED <<readers, depth>>
    /\ UNCHANGED <<writer, pending_writers, write_waiters>>

ReadResume(t) ==
    /\ pc[t] = "waiting"
    /\ ~InQueue(t, read_waiters)
    /\ depth' = [depth EXCEPT ![t] = 1]
    /\ Goto(t, "holding")
    /\ UNCHANGED raw

\* remove_waiter(.., is_writer = False): nothing else happens, even when the
\* waiter had been popped and counted in readers.
ReadUnwind(t) ==
    /\ pc[t] = "unwind"
    /\ read_waiters' = Discard(read_waiters, t)
    /\ Goto(t, "idle")
    /\ UNCHANGED <<readers, writer, pending_writers, write_waiters, depth>>

\* A nested reader() of the same task.
ReadNest(t) ==
    /\ pc[t] = "holding"
    /\ depth[t] < MaxDepth
    /\ depth' = [depth EXCEPT ![t] = @ + 1]
    /\ UNCHANGED <<raw, pc>>

\* Leave a nested block, or the outermost one with release_read: the last
\* reader lets the first queued writer in.
ReadExit(t) ==
    /\ pc[t] = "holding"
    /\ depth' = [depth EXCEPT ![t] = @ - 1]
    /\ \/ depth[t] > 1 /\ UNCHANGED <<raw, pc>>
       \/ /\ depth[t] = 1
          /\ readers' = Minus1(readers)
          /\ \/ readers' = 0 /\ write_waiters # <<>> /\ GrantWriter
             \/ /\ ~(readers' = 0 /\ write_waiters # <<>>)
                /\ UNCHANGED <<writer, write_waiters, pending_writers>>
          /\ UNCHANGED read_waiters
          /\ Goto(t, "idle")

-----------------------------------------------------------------------------
(* writer() *)

WriteEnter(t) ==
    /\ pc[t] \in {"idle", "register"}
    /\ \/ /\ WriteFree
          /\ writer' = TRUE
          /\ Goto(t, "holding")
          /\ UNCHANGED <<pending_writers, write_waiters>>
       \/ /\ ~WriteFree /\ pc[t] = "idle"
          /\ Goto(t, "register")
          /\ UNCHANGED <<writer, pending_writers, write_waiters>>
       \/ /\ ~WriteFree /\ pc[t] = "register"
          /\ write_waiters' = Append(write_waiters, t)
          /\ pending_writers' = pending_writers + 1
          /\ Goto(t, "waiting")
          /\ UNCHANGED writer
    /\ UNCHANGED <<readers, read_waiters, depth>>

WriteResume(t) ==
    /\ pc[t] = "waiting"
    /\ ~InQueue(t, write_waiters)
    /\ Goto(t, "holding")
    /\ UNCHANGED <<raw, depth>>

\* remove_waiter(.., is_writer = True): the last pending writer to give up
\* lets the queued readers in.
WriteUnwind(t) ==
    /\ pc[t] = "unwind"
    /\ write_waiters' = Discard(write_waiters, t)
    /\ pending_writers' = IF InQueue(t, write_waiters) THEN Minus1(pending_writers)
                          ELSE pending_writers
    /\ IF pending_writers' = 0 /\ ~writer
       THEN GrantReaders ELSE UNCHANGED <<readers, read_waiters>>
    /\ Goto(t, "idle")
    /\ UNCHANGED <<writer, depth>>

\* release_write: the next queued writer, or else all queued readers.
WriteExit(t) ==
    /\ pc[t] = "holding"
    /\ \/ write_waiters # <<>> /\ GrantWriter /\ UNCHANGED <<readers, read_waiters>>
       \/ /\ write_waiters = <<>>
          /\ writer' = FALSE
          /\ GrantReaders
          /\ UNCHANGED <<pending_writers, write_waiters>>
    /\ Goto(t, "idle")
    /\ UNCHANGED depth

Cancel(t) ==
    /\ t \in Cancellable
    /\ readers < MaxReaders
    /\ pc[t] = "waiting"
    /\ Goto(t, "unwind")
    /\ UNCHANGED <<raw, depth>>

-----------------------------------------------------------------------------

Next ==
    \/ \E t \in Readers : \/ ReadEnter(t) \/ ReadResume(t) \/ ReadUnwind(t)
                          \/ ReadNest(t) \/ ReadExit(t)
    \/ \E t \in Writers : WriteEnter(t) \/ WriteResume(t) \/ WriteUnwind(t) \/ WriteExit(t)
    \/ \E t \in Users : Cancel(t)

Spec == Init /\ [][Next]_vars

ReadRun(t) ==
    \/ pc[t] = "register" /\ ReadEnter(t)
    \/ ReadResume(t) \/ ReadUnwind(t) \/ ReadExit(t)
ReadLeave(t) == ReadExit(t) /\ depth[t] = 1
WriteRun(t) ==
    \/ pc[t] = "register" /\ WriteEnter(t)
    \/ WriteResume(t) \/ WriteUnwind(t) \/ WriteExit(t)

\* Ready tasks run, and every block of reader() or writer() ends: a task does
\* not nest and leave reader() blocks inside its outermost one for ever.
FairSpec ==
    /\ Spec
    /\ \A t \in Readers : WF_vars(ReadRun(t)) /\ SF_vars(ReadLeave(t))
    /\ \A t \in Writers : WF_vars(WriteRun(t))

-----------------------------------------------------------------------------
(* Properties *)

Reading == {t \in Readers : pc[t] = "holding"}
Writing == {t \in Writers : pc[t] = "holding"}
GrantedReaders == {t \in Readers : pc[t] \in {"waiting", "unwind"} /\ ~InQueue(t, read_waiters)}
GrantedWriters == {t \in Writers : pc[t] \in {"waiting", "unwind"} /\ ~InQueue(t, write_waiters)}

\* A writer is alone, and readers exclude writers, grants in transit included
\* and with any cancellation.
Exclusion ==
    /\ Cardinality(Writing \cup GrantedWriters) <= 1
    /\ Writing \cup GrantedWriters # {} => Reading \cup GrantedReaders = {}

\* Nobody queues for a lock that is free for them, and the pending-writer
\* count that holds readers back is the number of writers really queued.
NoLostGrant ==
    /\ pending_writers = Len(write_waiters)
    /\ read_waiters # <<>> => writer \/ pending_writers > 0
    /\ write_waiters # <<>> => writer \/ readers > 0

\* The lock's own count is exactly its holders: a grant is never leaked.
NoLeakedGrant ==
    /\ readers = Cardinality(Reading \cup GrantedReaders)
    /\ writer <=> Writing \cup GrantedWriters # {}

\* Writer preference: once a writer waits, a reader that comes later does not
\* get in before it.
WriterPreference ==
    [][\A t \in Readers : write_waiters # <<>> /\ pc[t] \in {"idle", "register"} =>
         pc'[t] # "holding"]_vars

\* No writer starves under any read traffic.
WriterServed == \A t \in Writers : pc[t] = "waiting" ~> pc[t] # "waiting"
=============================================================================
