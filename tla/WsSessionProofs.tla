-------------------------- MODULE WsSessionProofs --------------------------
(***************************************************************************)
(* Proofs about WsSession for any channel capacities and bounds: writes to *)
(* the connection never overlap, and the mutex that keeps them apart is    *)
(* held exactly while one is in progress, whatever path leaves a write.    *)
(***************************************************************************)
EXTENDS WsSession, FiniteSetTheorems, TLAPS

ClosePcs == {"none", "check", "store", "lock", "write", "shut", "returned"}

ReadPcs == {"read", "deliver", "pong", "pongWrite", "eof", "error", "close"}

WritePcs == {"top", "select", "lock", "write", "error", "close"}

PcsOK ==
  /\ cpc \in [Goroutines -> ClosePcs]
  /\ rpc \in ReadPcs
  /\ wpc \in WritePcs
  /\ l \in Goroutines \cup {None}

\* A goroutine is in its own loop or in the Close that ends it, not in both.
ClosesLast ==
  /\ rpc # "close" => cpc["read"] = "none"
  /\ wpc # "close" => cpc["write"] = "none"
  /\ mpc = "wait" => cpc["main"] = "none"

\* Goroutine g is inside a WriteMessage.
InWrite(g) ==
  \/ cpc[g] = "write"
  \/ g = "read" /\ rpc = "pongWrite"
  \/ g = "write" /\ wpc = "write"

\* The mutex is held by the goroutine that writes to the connection, and by
\* nobody else: every way out of a write has released it.
HeldToWrite == \A g \in Goroutines : l = g <=> InWrite(g)

MutexInv == PcsOK /\ ClosesLast /\ HeldToWrite

-----------------------------------------------------------------------------

LEMMA InitMutex == Init => MutexInv
  BY DEF Init, MutexInv, PcsOK, ClosesLast, HeldToWrite, InWrite, None,
         Goroutines, ClosePcs, ReadPcs, WritePcs

\* Session.Close, run by any goroutine, keeps the invariant.
LEMMA CloseMutex ==
  ASSUME NEW g \in Goroutines, MutexInv, Close(g)
  PROVE  MutexInv'
<1> USE DEF MutexInv, PcsOK, ClosesLast, HeldToWrite, InWrite, None,
            Goroutines, ClosePcs, ReadPcs, WritePcs
<1>1. CASE CloseCheck(g)
  BY <1>1 DEF CloseCheck
<1>2. CASE CloseStore(g)
  BY <1>2 DEF CloseStore
<1>3. CASE CloseLock(g)
  BY <1>3 DEF CloseLock
<1>4. CASE CloseWrite(g)
  BY <1>4 DEF CloseWrite
<1>5. CASE CloseShut(g)
  BY <1>5 DEF CloseShut
<1> QED
  BY <1>1, <1>2, <1>3, <1>4, <1>5 DEF Close

\* The reader's steps, its pongs included.
LEMMA ReadMutex ==
  ASSUME MutexInv, Read
  PROVE  MutexInv'
<1> USE DEF MutexInv, PcsOK, ClosesLast, HeldToWrite, InWrite, None,
            Goroutines, ClosePcs, ReadPcs, WritePcs
<1>1. CASE ReadData
  BY <1>1 DEF ReadData
<1>2. CASE ReadDeliver
  BY <1>2 DEF ReadDeliver
<1>3. CASE ReadPing
  BY <1>3 DEF ReadPing
<1>4. CASE PongLock
  BY <1>4 DEF PongLock
<1>5. CASE PongWrite
  BY <1>5 DEF PongWrite
<1>6. CASE ReadFail
  BY <1>6 DEF ReadFail
<1>7. CASE ReadEnd
  BY <1>7 DEF ReadEnd
<1> QED
  BY <1>1, <1>2, <1>3, <1>4, <1>5, <1>6, <1>7 DEF Read

\* The writer's steps.
LEMMA WriteMutex ==
  ASSUME MutexInv, Write
  PROVE  MutexInv'
<1> USE DEF MutexInv, PcsOK, ClosesLast, HeldToWrite, InWrite, None,
            Goroutines, ClosePcs, ReadPcs, WritePcs
<1>1. CASE WriteTop
  BY <1>1 DEF WriteTop
<1>2. CASE WriteTake
  BY <1>2 DEF WriteTake
<1>3. CASE WriteTick
  BY <1>3 DEF WriteTick
<1>4. CASE WriteLock
  BY <1>4 DEF WriteLock
<1>5. CASE WriteMessage
  BY <1>5 DEF WriteMessage
<1>6. CASE WriteEnd
  BY <1>6 DEF WriteEnd
<1> QED
  BY <1>1, <1>2, <1>3, <1>4, <1>5, <1>6 DEF Write

\* The handler's steps, and the http handler that closes after it.
LEMMA HfMutex ==
  ASSUME MutexInv, Hf \/ MainWake
  PROVE  MutexInv'
<1> USE DEF MutexInv, PcsOK, ClosesLast, HeldToWrite, InWrite, None,
            Goroutines, ClosePcs, ReadPcs, WritePcs
<1>1. CASE HfCall
  BY <1>1 DEF HfCall
<1>2. CASE HfReceive
  BY <1>2 DEF HfReceive
<1>3. CASE HfSend
  BY <1>3 DEF HfSend
<1>4. CASE HfClosed
  BY <1>4 DEF HfClosed
<1>5. CASE HfSignal
  BY <1>5 DEF HfSignal
<1>6. CASE MainWake
  BY <1>6 DEF MainWake
<1> QED
  BY <1>1, <1>2, <1>3, <1>4, <1>5, <1>6 DEF Hf

LEMMA NextMutex == MutexInv /\ [Next]_vars => MutexInv'
<1> SUFFICES ASSUME MutexInv, [Next]_vars
             PROVE  MutexInv'
  OBVIOUS
<1>1. CASE Read
  BY <1>1, ReadMutex
<1>2. CASE Write
  BY <1>2, WriteMutex
<1>3. CASE Hf \/ MainWake
  BY <1>3, HfMutex
<1>4. ASSUME NEW g \in Goroutines, Close(g)
      PROVE  MutexInv'
  BY <1>4, CloseMutex
<1>5. CASE UNCHANGED vars
  BY <1>5 DEF vars, MutexInv, PcsOK, ClosesLast, HeldToWrite, InWrite
<1> QED
  BY <1>1, <1>2, <1>3, <1>4, <1>5 DEF Next

\* Whoever holds the mutex is the only one in Writing.
LEMMA HeldExcludes == MutexInv => WriteExclusive
<1> SUFFICES ASSUME MutexInv
             PROVE  WriteExclusive
  OBVIOUS
<1>1. \A x, y \in Writing : x = y
  BY DEF MutexInv, PcsOK, ClosesLast, HeldToWrite, InWrite, Writing, None,
         Goroutines
<1>2. CASE Writing = {}
  BY <1>2, FS_EmptySet DEF WriteExclusive
<1>3. ASSUME NEW x \in Writing
      PROVE  WriteExclusive
  <2>1. Writing = {x}
    BY <1>1
  <2>2. Cardinality({x}) = 1
    BY FS_Singleton
  <2> QED
    BY <2>1, <2>2 DEF WriteExclusive
<1> QED
  BY <1>2, <1>3

\* Frames never overlap on the connection: the data and pings of write, the
\* pongs of read and the close frames of up to four closers, for any
\* capacities of the channels and any number of messages.
THEOREM WritesExclusive == Spec => []WriteExclusive
<1>1. Spec => []MutexInv
  BY InitMutex, NextMutex, PTL DEF Spec
<1> QED
  BY <1>1, HeldExcludes, PTL

\* No path of Close, PingHandler or write returns with the mutex held: it is
\* held exactly while its holder is inside a WriteMessage.
THEOREM MutexReleased == Spec => []HeldToWrite
<1>1. Spec => []MutexInv
  BY InitMutex, NextMutex, PTL DEF Spec
<1>2. MutexInv => HeldToWrite
  BY DEF MutexInv
<1> QED
  BY <1>1, <1>2, PTL

=============================================================================
