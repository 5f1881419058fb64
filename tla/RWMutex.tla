------------------------------- MODULE RWMutex -------------------------------
(***************************************************************************)
(* Go's sync.RWMutex, as the SDK uses it (external).  A goroutine that     *)
(* calls Lock first becomes the announced writer, then waits for the       *)
(* readers to leave.  A reader that arrives while a writer is announced or *)
(* inside blocks; Unlock lets all blocked readers in before the next       *)
(* writer.  The lock is not reentrant.                                     *)
(***************************************************************************)
CONSTANT Nobody      \* no goroutine

VARIABLES writer,     \* the goroutine inside Lock ... Unlock
          announced,  \* the goroutine in Lock that waits for readers to leave
          readers,    \* the goroutines inside RLock ... RUnlock
          blocked     \* the goroutines that wait in RLock

lockVars == <<writer, announced, readers, blocked>>

LockInit ==
  /\ writer = Nobody
  /\ announced = Nobody
  /\ readers = {}
  /\ blocked = {}

WriterFree == writer = Nobody /\ announced = Nobody

RLock(g) ==
  /\ IF WriterFree
     THEN readers' = readers \cup {g} /\ UNCHANGED blocked
     ELSE blocked' = blocked \cup {g} /\ UNCHANGED readers
  /\ UNCHANGED <<writer, announced>>

RUnlock(g) ==
  /\ g \in readers
  /\ readers' = readers \ {g}
  /\ UNCHANGED <<writer, announced, blocked>>

(* The first half of Lock. *)
Announce(g) ==
  /\ WriterFree
  /\ announced' = g
  /\ UNCHANGED <<writer, readers, blocked>>

(* The second half of Lock. *)
Enter(g) ==
  /\ announced = g /\ readers = {}
  /\ writer' = g
  /\ announced' = Nobody
  /\ UNCHANGED <<readers, blocked>>

AdmitBlocked ==
  /\ readers' = readers \cup blocked
  /\ blocked' = {}

Unlock(g) ==
  /\ writer = g
  /\ writer' = Nobody
  /\ AdmitBlocked
  /\ UNCHANGED announced

(* Enter, one assignment and Unlock: nobody can see a state in between. *)
EnterAndUnlock(g) ==
  /\ announced = g /\ readers = {}
  /\ announced' = Nobody
  /\ AdmitBlocked
  /\ UNCHANGED writer
=============================================================================
