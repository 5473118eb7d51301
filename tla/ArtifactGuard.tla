---------------------------- MODULE ArtifactGuard ----------------------------
(***************************************************************************)
(* The file locks around the export artifacts (ExportArtifactStore.guard): *)
(* threads and processes that read one file at a time under a shared       *)
(* guard, and writers that replace, unlink or commit under an exclusive    *)
(* one.  Every lock is polled without blocking until the deadline of the   *)
(* guard, so a wait may end in ExportGuardTimeout at any time; a process   *)
(* that dies releases its locks as closing their descriptors does.         *)
(***************************************************************************)
EXTENDS Integers, Sequences, FiniteSets

CONSTANTS
    FileReaders, FileWriters,   \* threads
    Slots,                      \* MAX_SHARED_ARTIFACT_READERS
    GuardAttempts               \* attempts of `exclusive'

ASSUME GuardAssumption ==
    {Slots, GuardAttempts} \subseteq Nat \ {0} /\ FileReaders \cap FileWriters = {}

VARIABLES
    step,   \* [threads -> number of locks taken, or Outside]
    tries   \* [FileWriters -> attempts made by `exclusive']

guardVars == <<step, tries>>

Outside == -1     \* not in the guard
Threads == FileReaders \cup FileWriters

\* Mutation: a writer takes the file lock before it stops new readers.
LockOrderWriterFirst(t) ==
    IF t \in FileReaders THEN <<"slot", "admission", "lock">> ELSE <<"lock", "admission">>
\* The locks in the order they are taken.
LockOrder(t) ==
    IF t \in FileReaders THEN <<"slot", "admission", "lock">> ELSE <<"admission", "lock">>

Waiting(t) == step[t] \in 0 .. Len(LockOrder(t)) - 1
Inside(t)  == step[t] = Len(LockOrder(t))

\* A reader that is inside has let the next thread through the turnstile.
Holds(t, lock) ==
    /\ \E i \in 1 .. step[t] : LockOrder(t)[i] = lock
    /\ ~(lock = "admission" /\ t \in FileReaders /\ Inside(t))

Holders(lock) == {t \in Threads : Holds(t, lock)}

Free(t, lock) ==
    CASE lock = "slot"      -> Cardinality(Holders("slot")) < Slots
      [] lock = "admission" -> Holders("admission") = {}
      [] lock = "lock"      -> IF t \in FileReaders THEN Holders("lock") \cap FileWriters = {}
                               ELSE Holders("lock") = {}

GuardInit == step = [t \in Threads |-> Outside] /\ tries = [w \in FileWriters |-> 0]

Enter(t) ==
    /\ step[t] = Outside
    /\ step' = [step EXCEPT ![t] = 0]
    /\ UNCHANGED tries

Acquire(t) ==
    /\ Waiting(t) /\ Free(t, LockOrder(t)[step[t] + 1])
    /\ step' = [step EXCEPT ![t] = @ + 1]
    /\ UNCHANGED tries

\* A reader gives up with ExportGuardTimeout; a writer tries again, up to its limit.
GuardTimeout(t) ==
    /\ Waiting(t) /\ ~Free(t, LockOrder(t)[step[t] + 1])
    /\ step' = [step EXCEPT ![t] = Outside]
    /\ IF t \in FileWriters
       THEN tries' = [tries EXCEPT ![t] = IF @ + 1 < GuardAttempts THEN @ + 1 ELSE 0]
       ELSE UNCHANGED tries

\* The end of the guard, of the process, or an error inside it.
Leave(t) ==
    /\ step[t] # Outside
    /\ step' = [step EXCEPT ![t] = Outside]
    /\ IF t \in FileWriters THEN tries' = [tries EXCEPT ![t] = 0] ELSE UNCHANGED tries

GuardNext == \E t \in Threads : Enter(t) \/ Acquire(t) \/ GuardTimeout(t) \/ Leave(t)

\* Nobody has to run into a deadline: while nobody is inside the guard and some
\* thread waits, one of the waiting ones can take its next lock, although readers wait
\* for the turnstile holding a slot and writers wait for readers holding the turnstile.
SomebodyGetsIn ==
    (\A t \in Threads : ~Inside(t)) /\ (\E t \in Threads : Waiting(t)) =>
        \E t \in Threads : Waiting(t) /\ Free(t, LockOrder(t)[step[t] + 1])
=============================================================================
